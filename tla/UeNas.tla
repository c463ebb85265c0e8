-------------------------------- MODULE UeNas --------------------------------
(***************************************************************************)
(* The control plane of one simulated UE: the NAS task with its mobility   *)
(* management (MM) sublayer, the UE's MR (radio) task, the NAS timers task *)
(* and the procedure tester that feeds commands to the UE.  Every task is  *)
(* a thread with its own FIFO queue; the tasks interleave freely.          *)
(*                                                                         *)
(* The core network is external: once the gNB has relayed an uplink        *)
(* message of the UE it may send any downlink NAS message at any time.     *)
(* The content of a downlink message is chosen when the NAS task handles   *)
(* it (nothing looks at it earlier), so the queue only holds its arrival.  *)
(*                                                                         *)
(* An exception in a handler ends the thread of the task (ItmsTask); it is *)
(* modelled by nasFault, which names the place, after the assignments the  *)
(* handler made before it threw.                                           *)
(***************************************************************************)
EXTENDS Naturals, Sequences, FiniteSets

CONSTANTS
    Gnbs,         \* the gNBs of the simulation
    Gutis,        \* 5G-GUTIs the network assigns
    Rands,        \* RAND challenges; a RAND stands for the keys derived from it
    TestCases,    \* predefined procedure tests the tester may be asked to run
    AUTO,         \* UeNode.AUTO
    SwitchOff,    \* ProcTestConfig.isSwitchOff
    NONE,         \* Java's null
    MaxInFlight,  \* bound: the environment adds a message only below it
    MaxSearch     \* bound: a search interval ends only below it

ASSUME GnbsAssumption == Gnbs # {} /\ NONE \notin Gnbs
ASSUME TestCasesAssumption ==
    TestCases \subseteq {"initialRegistration", "periodicRegistration", "deRegistration"}
ASSUME FlagsAssumption == AUTO \in BOOLEAN /\ SwitchOff \in BOOLEAN
ASSUME BoundsAssumption == MaxInFlight \in Nat /\ MaxSearch \in Nat

VARIABLES
    mmState, mmSubState, rmState,   \* MmContext
    lastPlmnSearchTrigger,          \* "zero", "recent" or "due" (over 1000 ms ago)
    registrationRequest,            \* type of the last registration request, or NONE
    storedSuci, storedGuti,
    currentNsCtx, nonCurrentNsCtx,  \* NAS security contexts
    running,                        \* the NAS timers that are running
    connectedGnb,
    nasPc,                          \* where the NAS task's loop stands
    nasFault,                       \* NONE, or the exception that ended the NAS task
    nasQueue, mrQueue,              \* task queues
    gnbReady,                       \* gNBs whose GnbAppTask saw the initial SCTP setup
    gnbKnowsUe,                     \* some uplink NAS message reached a gNB
    tester,                         \* progress of the UE's tester
    triggers                        \* listener events the tester has yet to see

stateVars == <<mmState, mmSubState, rmState>>
idVars == <<storedSuci, storedGuti>>
secVars == <<currentNsCtx, nonCurrentNsCtx>>
ueVars == <<stateVars, idVars, secVars, registrationRequest, running>>
linkVars == <<lastPlmnSearchTrigger, connectedGnb>>
outVars == <<mrQueue, triggers>>
envVars == <<gnbReady, gnbKnowsUe, tester>>
vars == <<ueVars, linkVars, outVars, envVars, nasPc, nasFault, nasQueue>>

-----------------------------------------------------------------------------
(* Values *)

\* The state and sub-state pairs MobilityManagement.switchState is called with.
MmStates == {"MM_NULL", "MM_DEREGISTERED", "MM_REGISTERED_INITIATED",
             "MM_REGISTERED", "MM_DEREGISTERED_INITIATED"}
MmSubStates == {"NA", "NORMAL_SERVICE", "LIMITED_SERVICE",
                "ATTEMPTING_REGISTRATION", "PLMN_SEARCH"}

\* The timers of UeTimers that the MM handlers start or stop.
Timers == {"t3346", "t3396", "t3502", "t3510", "t3511", "t3512", "t3517",
           "t3519", "t3520", "t3521", "t3584", "t3585"}

RegistrationTypes == {"INITIAL_REGISTRATION", "PERIODIC_REGISTRATION_UPDATING"}
EapCodes == {NONE, "SUCCESS", "FAILURE", "OTHER"}
IntegrityAlgs == {"IA0", "IA2_128"}

\* A NAS security context: whose keys it holds, whether the NAS keys have been
\* derived (kNasEnc # null), and the selected integrity algorithm.
NsCtx == [rand : Rands, nasKeys : BOOLEAN, integrity : IntegrityAlgs]

newNsCtx(rand) == [rand |-> rand, nasKeys |-> FALSE, integrity |-> "IA0"]

AutnResults == {"OK", "MAC_FAILURE", "AMF_SEPARATION_BIT_FAILURE"}

Uplink == {"RegistrationRequest", "RegistrationComplete", "IdentityResponse",
           "AuthenticationResponse", "AuthenticationFailure", "AuthenticationReject",
           "SecurityModeComplete", "SecurityModeReject",
           "ConfigurationUpdateComplete", "DeRegistrationRequest",
           "DeRegistrationAccept"}

Commands == {"InitialRegistration", "PeriodicRegistration", "Deregistration"}

NasMessages ==
    ({"IwDownlinkNas", "IwConnectionRelease"} \X {NONE})
        \cup ({"IwNasTimerExpire"} \X Timers)
        \cup ({"IwUeTestCommand"} \X Commands)
        \cup ({"IwPlmnSearchResponse"} \X Gnbs)

Faults == {"UnhandledMmState", "DeregistrationWithoutContext", "SmcWithoutContext",
           "SmcWithoutRequest", "SmcEapWarning", "RejectWithoutRequest",
           "ResultWithoutContext", "DecryptWithoutContext"}

ASSUME NoneAssumption ==
    /\ NONE \notin Gutis \cup Rands \cup RegistrationTypes \cup Faults
    /\ NONE # "SUCI"

\* How many messages of the given kinds are in a queue.
MessagesIn(queue, kinds) == Cardinality({i \in 1 .. Len(queue) : queue[i] \in kinds})

\* The messages of the PLMN search that are on their way between the tasks.
PendingSearch ==
    MessagesIn(mrQueue, {"IwPlmnSearchRequest"})
        + MessagesIn(nasQueue, {"IwPlmnSearchResponse"} \X Gnbs)

\* The environment adds a message only below the bound, and no longer once the
\* NAS task has ended and its queue is never read again.
Room == nasFault = NONE /\ Len(nasQueue) + Len(mrQueue) < MaxInFlight

-----------------------------------------------------------------------------
(* Assignments shared by the handlers *)

switchState(mm, sub) == mmState' = mm /\ mmSubState' = sub

\* sendMm through NasTransport.sendNas: the message goes to the MR task.
sendMm(message) == mrQueue' = Append(mrQueue, message)

\* An exception leaves the handler and ends the NAS task's thread.
throw(place) == nasFault' = place

-----------------------------------------------------------------------------
(* MmIdentity *)

\* getOrGenerateSuci returns the stored SUCI while T3519 runs, otherwise a
\* fresh one; T3519 is running afterwards in both cases.
getOrGenerateSuci == IF "t3519" \in running THEN storedSuci ELSE "SUCI"

\* The identity put in a request: the GUTI if there is one, else the SUCI.
UseIdentity ==
    storedSuci' = IF storedGuti = NONE THEN getOrGenerateSuci ELSE storedSuci

IdentityTimers == IF storedGuti = NONE THEN {"t3519"} ELSE {}

receiveIdentityRequest(identityType) ==
    /\ storedSuci' = IF identityType = "SUCI" THEN getOrGenerateSuci ELSE storedSuci
    /\ running' = IF identityType = "SUCI" THEN running \cup {"t3519"} ELSE running
    /\ sendMm("IdentityResponse")
    /\ UNCHANGED <<stateVars, storedGuti, secVars, registrationRequest, triggers, nasFault>>

-----------------------------------------------------------------------------
(* MmRegistration *)

\* Mutant: the request is sent but not stored.
sendRegistration_NotStored(registrationType) ==
    /\ switchState("MM_REGISTERED_INITIATED", "NA")
    /\ UseIdentity
    /\ running' = (running \cup IdentityTimers \cup {"t3510"}) \ {"t3502", "t3511"}
    /\ sendMm("RegistrationRequest")
    /\ UNCHANGED <<rmState, storedGuti, secVars, registrationRequest, triggers, nasFault>>

sendRegistration(registrationType) ==
    /\ switchState("MM_REGISTERED_INITIATED", "NA")
    /\ UseIdentity
    /\ registrationRequest' = registrationType
    /\ running' = (running \cup IdentityTimers \cup {"t3510"}) \ {"t3502", "t3511"}
    /\ sendMm("RegistrationRequest")
    /\ UNCHANGED <<rmState, storedGuti, secVars, triggers, nasFault>>

\* T3512 starts only when the message carries a value for it; the GUTI, when
\* there is one, ends the SUCI's timer and is acknowledged.
receiveRegistrationAccept(guti, t3512Value) ==
    /\ LET started == IF t3512Value THEN running \cup {"t3512"} ELSE running
       IN IF guti = NONE
          THEN running' = started /\ UNCHANGED <<storedGuti, mrQueue>>
          ELSE /\ storedGuti' = guti
               /\ running' = started \ {"t3519"}
               /\ sendMm("RegistrationComplete")
    /\ rmState' = "RM_REGISTERED"
    /\ switchState("MM_REGISTERED", "NORMAL_SERVICE")
    /\ triggers' = triggers \cup {"RM_REGISTERED"}
    /\ UNCHANGED <<storedSuci, secVars, registrationRequest, nasFault>>

\* Causes by what receiveRegistrationReject does with an initial registration.
PlmnSearchCauses == {"ILLEGAL_UE", "ILLEGAL_ME", "FIVEG_SERVICES_NOT_ALLOWED",
                     "PLMN_NOT_ALLOWED"}
LimitedServiceCauses == {"TA_NOT_ALLOWED", "ROAMING_NOT_ALLOWED_IN_TA",
                         "NO_SUITIBLE_CELLS_IN_TA"}
MmCauses == PlmnSearchCauses \cup LimitedServiceCauses
               \cup {"CONGESTION", "N1_MODE_NOT_ALLOWED",
                     "DNN_NOT_SUPPORTED_OR_NOT_SUBSCRIBED"}

\* Mutant: the cause is read from the message.
rejectCause_FromMessage(received) == received

\* The handler does not look at the cause in the message: it is hard-wired.
rejectCause(received) == "DNN_NOT_SUPPORTED_OR_NOT_SUBSCRIBED"

\* The state the rejection of an initial registration leads to, per cause.
RejectedState(cause, hasT3346) ==
    CASE cause \in PlmnSearchCauses -> <<"MM_DEREGISTERED", "PLMN_SEARCH">>
      [] cause \in LimitedServiceCauses -> <<"MM_DEREGISTERED", "LIMITED_SERVICE">>
      [] cause = "CONGESTION" /\ hasT3346 ->
            <<"MM_DEREGISTERED", "ATTEMPTING_REGISTRATION">>
      [] cause = "N1_MODE_NOT_ALLOWED" -> <<"MM_NULL", "NA">>
      [] OTHER -> <<mmState, mmSubState>>

receiveRegistrationReject(received, eap, hasT3346) ==
    LET cause == rejectCause(received)
        initial == registrationRequest = "INITIAL_REGISTRATION"
        forbidden == /\ initial
                     /\ cause \in PlmnSearchCauses \cup LimitedServiceCauses
                                     \cup {"N1_MODE_NOT_ALLOWED"}
        next == IF initial THEN RejectedState(cause, hasT3346)
                           ELSE <<mmState, mmSubState>>
    IN IF registrationRequest = NONE
       THEN throw("RejectWithoutRequest") /\ UNCHANGED <<ueVars, outVars>>
       ELSE /\ switchState(next[1], next[2])
            /\ rmState' = "RM_DEREGISTERED"
            /\ storedGuti' = IF forbidden THEN NONE ELSE storedGuti
            /\ currentNsCtx' = IF forbidden THEN NONE ELSE currentNsCtx
            /\ nonCurrentNsCtx' =
                  IF forbidden \/ eap = "FAILURE" THEN NONE ELSE nonCurrentNsCtx
            /\ running' = IF initial /\ cause = "CONGESTION" /\ hasT3346
                          THEN running \cup {"t3346"} ELSE running
            /\ UNCHANGED <<storedSuci, registrationRequest, outVars, nasFault>>

-----------------------------------------------------------------------------
(* MmDeregistration *)

\* The state is switched first, so the test of mmState that guards T3521 sees
\* the new state.
sendDeregistration(switchOff) ==
    /\ switchState("MM_DEREGISTERED_INITIATED", "NA")
    /\ IF currentNsCtx = NONE
       THEN /\ throw("DeregistrationWithoutContext")
            /\ UNCHANGED <<storedSuci, running, mrQueue>>
       ELSE /\ UseIdentity
            /\ sendMm("DeRegistrationRequest")
            /\ LET t3521 == IF /\ ~switchOff
                               /\ mmState' \in {"MM_REGISTERED", "MM_REGISTERED_INITIATED"}
                            THEN {"t3521"} ELSE {}
               IN running' = running \cup IdentityTimers \cup t3521
            /\ UNCHANGED nasFault
    /\ UNCHANGED <<rmState, storedGuti, secVars, registrationRequest, triggers>>

\* Mutant: the stored registration request is cleared as well.
receiveDeregistrationAccept_ForgetsRequest ==
    /\ running' = running \ {"t3521", "t3519"}
    /\ storedSuci' = NONE /\ registrationRequest' = NONE
    /\ switchState("MM_DEREGISTERED", "NA")
    /\ rmState' = "RM_DEREGISTERED"
    /\ UNCHANGED <<storedGuti, secVars, outVars, nasFault>>

receiveDeregistrationAccept ==
    /\ running' = running \ {"t3521", "t3519"}
    /\ storedSuci' = NONE
    /\ switchState("MM_DEREGISTERED", "NA")
    /\ rmState' = "RM_DEREGISTERED"
    /\ UNCHANGED <<storedGuti, secVars, registrationRequest, outVars, nasFault>>

\* Mutant: the RM state is not switched.
receiveDeregistrationRequest_KeepsRm(reRegistrationRequired) ==
    /\ running' = IF reRegistrationRequired
                  THEN running \ {"t3346", "t3396", "t3584", "t3585"} ELSE running
    /\ sendMm("DeRegistrationAccept")
    /\ switchState("MM_DEREGISTERED", "NA")
    /\ UNCHANGED <<rmState, idVars, secVars, registrationRequest, triggers, nasFault>>

receiveDeregistrationRequest(reRegistrationRequired) ==
    /\ running' = IF reRegistrationRequired
                  THEN running \ {"t3346", "t3396", "t3584", "t3585"} ELSE running
    /\ sendMm("DeRegistrationAccept")
    /\ switchState("MM_DEREGISTERED", "NA")
    /\ rmState' = "RM_DEREGISTERED"
    /\ UNCHANGED <<idVars, secVars, registrationRequest, triggers, nasFault>>

-----------------------------------------------------------------------------
(* MmAuthentication.  The SQN check always succeeds, so AUTN validation has   *)
(* no synchronisation failure.                                             *)

receiveAuthenticationRequest5gAka(autnCheck, rand) ==
    /\ nonCurrentNsCtx' = IF autnCheck = "OK" THEN newNsCtx(rand) ELSE nonCurrentNsCtx
    /\ sendMm(IF autnCheck = "OK" THEN "AuthenticationResponse"
                                  ELSE "AuthenticationFailure")
    /\ UNCHANGED <<stateVars, idVars, currentNsCtx, registrationRequest, running,
                   triggers, nasFault>>

\* receivedKdf, the AUTN and AT_MAC are checked in this order; each failure is
\* answered with an Authentication Reject after the rejection timers.
receiveAuthenticationRequestEap(receivedKdf, autnCheck, macOk, rand) ==
    /\ IF receivedKdf = 1 /\ autnCheck = "OK" /\ macOk
       THEN /\ running' = running \ {"t3520"}
            /\ nonCurrentNsCtx' = newNsCtx(rand)
            /\ sendMm("AuthenticationResponse")
       ELSE /\ running' = (running \cup {"t3520"}) \ {"t3510", "t3517", "t3521"}
            /\ UNCHANGED nonCurrentNsCtx
            /\ sendMm("AuthenticationReject")
    /\ UNCHANGED <<stateVars, idVars, currentNsCtx, registrationRequest, triggers,
                   nasFault>>

\* EAP-Failure, wherever it is received, deletes the non-current context.
receiveEapMessage(eap) ==
    nonCurrentNsCtx' = IF eap = "FAILURE" THEN NONE ELSE nonCurrentNsCtx

receiveAuthenticationResult(abba, eap) ==
    /\ IF abba /\ nonCurrentNsCtx = NONE
       THEN throw("ResultWithoutContext") /\ UNCHANGED nonCurrentNsCtx
       ELSE receiveEapMessage(eap) /\ UNCHANGED nasFault
    /\ UNCHANGED <<stateVars, idVars, currentNsCtx, registrationRequest, running, outVars>>

receiveAuthenticationReject(eap) ==
    /\ storedGuti' = IF eap = "FAILURE" THEN NONE ELSE storedGuti
    /\ currentNsCtx' = IF eap = "FAILURE" THEN NONE ELSE currentNsCtx
    /\ receiveEapMessage(eap)
    /\ UNCHANGED <<stateVars, storedSuci, registrationRequest, running, outVars, nasFault>>

\* An Authentication Response (and any message receiveMm does not dispatch)
\* changes nothing.
receiveNoEffect == UNCHANGED <<ueVars, outVars, nasFault>>

-----------------------------------------------------------------------------
(* MmSecurity, MmConfiguration, MmService *)

rejectSecurityMode ==
    /\ sendMm("SecurityModeReject")
    /\ UNCHANGED <<ueVars, triggers, nasFault>>

\* The EAP code of a non-success message is missing from the arguments of the
\* warning that announces it, so formatting the warning throws.
warnSecurityModeEap(eap) ==
    /\ eap \notin {NONE, "SUCCESS"}
    /\ throw("SmcEapWarning")
    /\ UNCHANGED <<ueVars, outVars>>

\* Mutant: the context is promoted before its NAS keys are derived.
receiveSecurityModeCommand_PromotesFirst(integrity) ==
    /\ nonCurrentNsCtx # NONE
    /\ currentNsCtx' = nonCurrentNsCtx
    /\ nonCurrentNsCtx' =
          [nonCurrentNsCtx EXCEPT !.nasKeys = TRUE, !.integrity = integrity]
    /\ sendMm("SecurityModeComplete")
    /\ UNCHANGED <<stateVars, idVars, registrationRequest, running, triggers, nasFault>>

\* The NAS keys of the non-current context are derived for the selected
\* algorithms and a copy of it becomes the current one; Security Mode Complete
\* carries the stored registration request.
receiveSecurityModeCommand(integrity) ==
    IF nonCurrentNsCtx = NONE
    THEN throw("SmcWithoutContext") /\ UNCHANGED <<ueVars, outVars>>
    ELSE /\ nonCurrentNsCtx' =
               [nonCurrentNsCtx EXCEPT !.nasKeys = TRUE, !.integrity = integrity]
         /\ currentNsCtx' = nonCurrentNsCtx'
         /\ IF registrationRequest = NONE
            THEN throw("SmcWithoutRequest") /\ UNCHANGED mrQueue
            ELSE sendMm("SecurityModeComplete") /\ UNCHANGED nasFault
         /\ UNCHANGED <<stateVars, idVars, registrationRequest, running, triggers>>

\* Mutant: T3519 keeps running when a GUTI replaces the SUCI.
receiveConfigurationUpdate_KeepsT3519(guti, ack) ==
    /\ storedGuti' = IF guti = NONE THEN storedGuti ELSE guti
    /\ storedSuci' = IF guti = NONE THEN storedSuci ELSE NONE
    /\ running' = running \ {"t3346"}
    /\ IF ack THEN sendMm("ConfigurationUpdateComplete") ELSE UNCHANGED mrQueue
    /\ UNCHANGED <<stateVars, secVars, registrationRequest, triggers, nasFault>>

receiveConfigurationUpdate(guti, ack) ==
    /\ storedGuti' = IF guti = NONE THEN storedGuti ELSE guti
    /\ storedSuci' = IF guti = NONE THEN storedSuci ELSE NONE
    /\ running' = running \ (IF guti = NONE THEN {"t3346"} ELSE {"t3346", "t3519"})
    /\ IF ack THEN sendMm("ConfigurationUpdateComplete") ELSE UNCHANGED mrQueue
    /\ UNCHANGED <<stateVars, secVars, registrationRequest, triggers, nasFault>>

\* Service Accept and Service Reject only look at their EAP message.
receiveService(eap) ==
    /\ receiveEapMessage(eap)
    /\ UNCHANGED <<stateVars, idVars, currentNsCtx, registrationRequest, running,
                   outVars, nasFault>>

-----------------------------------------------------------------------------
(* The NAS task: NasTask.main alternates MobilityManagement.cycle and the     *)
(* handling of at most one message.                                        *)

\* The states cycle has a branch for; in any other it throws when AUTO.
CycleStates ==
    {<<"MM_DEREGISTERED", "PLMN_SEARCH">>, <<"MM_DEREGISTERED", "NORMAL_SERVICE">>,
     <<"MM_DEREGISTERED", "NA">>, <<"MM_REGISTERED", "NORMAL_SERVICE">>}
        \cup ({"MM_REGISTERED_INITIATED", "MM_DEREGISTERED_INITIATED"} \X MmSubStates)

Searching == mmState # "MM_NULL" /\ mmSubState = "PLMN_SEARCH"

cycleNull ==
    /\ mmState = "MM_NULL"
    /\ switchState("MM_DEREGISTERED", "PLMN_SEARCH")
    /\ UNCHANGED <<rmState, idVars, secVars, registrationRequest, running,
                   lastPlmnSearchTrigger, outVars, nasFault>>

\* Mutant: the state is tested instead of the sub-state.
cycleSearch_AnyDeregistered ==
    /\ mmState = "MM_DEREGISTERED"
    /\ lastPlmnSearchTrigger' = "recent"
    /\ mrQueue' = IF lastPlmnSearchTrigger = "due"
                  THEN Append(mrQueue, "IwPlmnSearchRequest") ELSE mrQueue
    /\ UNCHANGED <<ueVars, triggers, nasFault>>

\* Mutant: the first visit does not note the time.
cycleSearch_NeverStarts ==
    /\ Searching
    /\ lastPlmnSearchTrigger' =
          IF lastPlmnSearchTrigger = "zero" THEN "zero" ELSE "recent"
    /\ mrQueue' = IF lastPlmnSearchTrigger = "due"
                  THEN Append(mrQueue, "IwPlmnSearchRequest") ELSE mrQueue
    /\ UNCHANGED <<ueVars, triggers, nasFault>>

\* The first visit only notes the time; later ones ask for a search whenever
\* the last request is more than 1000 ms old.
cycleSearch ==
    /\ Searching
    /\ lastPlmnSearchTrigger' = "recent"
    /\ mrQueue' = IF lastPlmnSearchTrigger = "due"
                  THEN Append(mrQueue, "IwPlmnSearchRequest") ELSE mrQueue
    /\ UNCHANGED <<ueVars, triggers, nasFault>>

cycleRegister ==
    /\ mmState = "MM_DEREGISTERED" /\ mmSubState = "NORMAL_SERVICE"
    /\ AUTO /\ "t3346" \notin running
    /\ sendRegistration("INITIAL_REGISTRATION")
    /\ UNCHANGED lastPlmnSearchTrigger

cycleIdle ==
    /\ mmState # "MM_NULL" /\ ~Searching
    /\ ~(/\ mmState = "MM_DEREGISTERED" /\ mmSubState = "NORMAL_SERVICE"
         /\ AUTO /\ "t3346" \notin running)
    /\ nasFault' = IF AUTO /\ <<mmState, mmSubState>> \notin CycleStates
                   THEN "UnhandledMmState" ELSE NONE
    /\ UNCHANGED <<ueVars, lastPlmnSearchTrigger, outVars>>

Cycle ==
    /\ nasFault = NONE /\ nasPc = "cycle"
    /\ nasPc' = "receive"
    /\ cycleNull \/ cycleSearch \/ cycleRegister \/ cycleIdle
    /\ UNCHANGED <<connectedGnb, nasQueue, envVars>>

\* How a downlink message is protected: not at all, with a new context's
\* header, or with the keys of a context.
Protections == {"plain", "new", "newCiphered"} \cup Rands

\* NasSecurity.decryptNasMessage yields the message (otherwise it is ignored).
decrypts(protection, isSecurityModeCommand) ==
    \/ protection = "plain"
    \/ protection = "new" /\ isSecurityModeCommand
    \/ /\ protection \in Rands /\ currentNsCtx # NONE
       /\ protection = currentNsCtx.rand \/ currentNsCtx.integrity = "IA0"

receiveMm ==
    \/ \E autn \in AutnResults, rand \in Rands :
          receiveAuthenticationRequest5gAka(autn, rand)
    \/ \E kdf \in {1, 2}, autn \in AutnResults, macOk \in BOOLEAN, rand \in Rands :
          receiveAuthenticationRequestEap(kdf, autn, macOk, rand)
    \/ \E abba \in BOOLEAN, eap \in EapCodes : receiveAuthenticationResult(abba, eap)
    \/ \E eap \in EapCodes : receiveAuthenticationReject(eap)
    \/ \E cause \in MmCauses, eap \in EapCodes, t3346 \in BOOLEAN :
          receiveRegistrationReject(cause, eap, t3346)
    \/ \E identityType \in {"SUCI", "IMEI", "OTHER"} : receiveIdentityRequest(identityType)
    \/ \E guti \in Gutis \cup {NONE}, t3512 \in BOOLEAN :
          receiveRegistrationAccept(guti, t3512)
    \/ \E eap \in EapCodes : receiveService(eap)
    \/ \E guti \in Gutis \cup {NONE}, ack \in BOOLEAN : receiveConfigurationUpdate(guti, ack)
    \/ receiveDeregistrationAccept
    \/ \E required \in BOOLEAN : receiveDeregistrationRequest(required)
    \/ receiveNoEffect

receiveSmc ==
    \/ rejectSecurityMode
    \/ \E eap \in EapCodes : warnSecurityModeEap(eap)
    \/ \E integrity \in IntegrityAlgs : receiveSecurityModeCommand(integrity)

\* NasTransport.receiveNas
receiveNas ==
    \E protection \in Protections :
        \/ /\ protection \in Rands /\ currentNsCtx = NONE
           /\ throw("DecryptWithoutContext") /\ UNCHANGED <<ueVars, outVars>>
        \/ /\ ~decrypts(protection, FALSE)
           /\ protection \in Rands => currentNsCtx # NONE
           /\ UNCHANGED <<ueVars, outVars, nasFault>>
        \/ decrypts(protection, FALSE) /\ receiveMm
        \/ decrypts(protection, TRUE) /\ receiveSmc

\* Expiry of T3512 and T3346 matters only with AUTO.
receiveTimerExpire(timer) ==
    IF /\ AUTO
       /\ \/ timer = "t3512" /\ mmState = "MM_REGISTERED"
          \/ /\ timer = "t3346"
             /\ mmState = "MM_DEREGISTERED" /\ mmSubState = "NORMAL_SERVICE"
    THEN sendRegistration(IF timer = "t3512" THEN "PERIODIC_REGISTRATION_UPDATING"
                                             ELSE "INITIAL_REGISTRATION")
    ELSE receiveNoEffect

executeCommand(cmd) ==
    CASE cmd = "InitialRegistration" -> sendRegistration("INITIAL_REGISTRATION")
      [] cmd = "PeriodicRegistration" -> sendRegistration("PERIODIC_REGISTRATION_UPDATING")
      [] cmd = "Deregistration" -> sendDeregistration(SwitchOff)

\* Mutant: the UE stays in the search sub-state.
receivePlmnSearchResponse_NoSwitch(gnb) ==
    /\ connectedGnb' = gnb
    /\ triggers' = triggers \cup {"UE_MR_GNB"}
    /\ UNCHANGED <<stateVars, idVars, secVars, registrationRequest, running, mrQueue,
                   nasFault>>

\* receiveItmsMessage: whatever the UE's state is, the response moves it to
\* MM_DEREGISTERED / NORMAL_SERVICE; the RM state stays.
receivePlmnSearchResponse(gnb) ==
    /\ connectedGnb' = gnb
    /\ triggers' = triggers \cup {"UE_MR_GNB"}
    /\ switchState("MM_DEREGISTERED", "NORMAL_SERVICE")
    /\ UNCHANGED <<rmState, idVars, secVars, registrationRequest, running, mrQueue, nasFault>>

Handle(iw, arg) ==
    \/ iw = "IwPlmnSearchResponse" /\ receivePlmnSearchResponse(arg)
    \/ iw = "IwDownlinkNas" /\ receiveNas /\ UNCHANGED connectedGnb
    \/ iw = "IwNasTimerExpire" /\ receiveTimerExpire(arg) /\ UNCHANGED connectedGnb
    \/ iw = "IwUeTestCommand" /\ executeCommand(arg) /\ UNCHANGED connectedGnb
    \/ iw = "IwConnectionRelease" /\ receiveNoEffect /\ UNCHANGED connectedGnb

Receive ==
    /\ nasFault = NONE /\ nasPc = "receive" /\ nasQueue # <<>>
    /\ nasQueue' = Tail(nasQueue)
    /\ nasPc' = "cycle"
    /\ Handle(Head(nasQueue)[1], Head(nasQueue)[2])
    /\ UNCHANGED <<lastPlmnSearchTrigger, envVars>>

ReceiveNothing ==
    /\ nasFault = NONE /\ nasPc = "receive" /\ nasQueue = <<>>
    /\ nasPc' = "cycle"
    /\ UNCHANGED <<ueVars, linkVars, outVars, envVars, nasFault, nasQueue>>

NasStep == Cycle \/ Receive \/ ReceiveNothing

-----------------------------------------------------------------------------
(* The MR task *)

\* findGnbForUe: the gNB must have completed its initial SCTP setup, otherwise
\* the uplink message is dropped with a warning.
relayUplink ==
    /\ Head(mrQueue) # "IwPlmnSearchRequest"
    /\ gnbKnowsUe' = (gnbKnowsUe \/ connectedGnb \in gnbReady)
    /\ UNCHANGED nasQueue

\* performPlmnSearch answers with some gNB, ready or not.
performPlmnSearch ==
    /\ Head(mrQueue) = "IwPlmnSearchRequest"
    /\ \E gnb \in Gnbs : nasQueue' = Append(nasQueue, <<"IwPlmnSearchResponse", gnb>>)
    /\ UNCHANGED gnbKnowsUe

MrStep ==
    /\ mrQueue # <<>>
    /\ mrQueue' = Tail(mrQueue)
    /\ relayUplink \/ performPlmnSearch
    /\ UNCHANGED <<ueVars, linkVars, triggers, gnbReady, tester, nasPc, nasFault>>

-----------------------------------------------------------------------------
(* Timers, time and the environment *)

\* NasTimersTask: performTick stops an expired timer, then its expiry is sent.
\* The message is queued, so sending it together with the stop allows every
\* order of the NAS task's own start and stop that a later send would.
Expire(timer) ==
    /\ Room /\ timer \in running
    /\ running' = running \ {timer}
    /\ nasQueue' = Append(nasQueue, <<"IwNasTimerExpire", timer>>)
    /\ UNCHANGED <<stateVars, idVars, secVars, registrationRequest, linkVars, outVars,
                   envVars, nasPc, nasFault>>

\* More than 1000 ms have passed since the last search trigger (the time is
\* looked at only while searching).
SearchIntervalEnds ==
    /\ Searching
    /\ lastPlmnSearchTrigger = "recent" /\ PendingSearch < MaxSearch
    /\ lastPlmnSearchTrigger' = "due"
    /\ UNCHANGED <<ueVars, connectedGnb, outVars, envVars, nasPc, nasFault, nasQueue>>

\* GnbAppTask handles IwInitialSctpReady.  The gNBs are in UeRanSim's map
\* before the tester creates the UE, but this flag may come later.
GnbBecomesReady(gnb) ==
    /\ gnb \notin gnbReady
    /\ gnbReady' = gnbReady \cup {gnb}
    /\ UNCHANGED <<ueVars, linkVars, outVars, gnbKnowsUe, tester, nasPc, nasFault, nasQueue>>

\* A downlink NAS message or a connection release reaches the NAS task through
\* the gNB and the UE's MR task, which relays it unread.
NetworkSends ==
    /\ gnbKnowsUe /\ Room
    /\ \E iw \in {"IwDownlinkNas", "IwConnectionRelease"} :
          nasQueue' = Append(nasQueue, <<iw, NONE>>)
    /\ UNCHANGED <<ueVars, linkVars, outVars, envVars, nasPc, nasFault>>

\* ProcedureTester starts the selected test once the UE is connected; every
\* test begins with an initial registration.
StartTest(testCase) ==
    /\ tester = "waiting" /\ "UE_MR_GNB" \in triggers
    /\ tester' = testCase
    /\ nasQueue' = Append(nasQueue, <<"IwUeTestCommand", "InitialRegistration">>)
    /\ UNCHANGED <<ueVars, linkVars, outVars, gnbReady, gnbKnowsUe, nasPc, nasFault>>

SecondCommand == [periodicRegistration |-> "PeriodicRegistration",
                  deRegistration |-> "Deregistration"]

\* The tester sees the switch to RM_REGISTERED and sends its second command.
ContinueTest ==
    /\ tester \in DOMAIN SecondCommand /\ "RM_REGISTERED" \in triggers
    /\ tester' = "done"
    /\ nasQueue' = Append(nasQueue, <<"IwUeTestCommand", SecondCommand[tester]>>)
    /\ UNCHANGED <<ueVars, linkVars, outVars, gnbReady, gnbKnowsUe, nasPc, nasFault>>

-----------------------------------------------------------------------------
Init ==
    /\ mmState = "MM_NULL" /\ mmSubState = "NA" /\ rmState = "RM_DEREGISTERED"
    /\ lastPlmnSearchTrigger = "zero"
    /\ registrationRequest = NONE
    /\ storedSuci = NONE /\ storedGuti = NONE
    /\ currentNsCtx = NONE /\ nonCurrentNsCtx = NONE
    /\ running = {}
    /\ connectedGnb = NONE
    /\ nasPc = "cycle" /\ nasFault = NONE
    /\ nasQueue = <<>> /\ mrQueue = <<>>
    /\ gnbReady = {} /\ gnbKnowsUe = FALSE
    /\ tester = "waiting" /\ triggers = {}

Next ==
    \/ NasStep
    \/ MrStep
    \/ \E timer \in Timers : Expire(timer)
    \/ SearchIntervalEnds
    \/ \E gnb \in Gnbs : GnbBecomesReady(gnb)
    \/ NetworkSends
    \/ \E testCase \in TestCases : StartTest(testCase)
    \/ ContinueTest

\* The threads of the NAS and MR tasks keep running and time passes.  Nothing
\* is assumed of the network, the timers or the person running the tester.
Fairness == WF_vars(NasStep) /\ WF_vars(MrStep) /\ WF_vars(SearchIntervalEnds)

Spec == Init /\ [][Next]_vars /\ Fairness

-----------------------------------------------------------------------------
(* Properties *)

\* Type correctness of the state of UeSimContext, MmContext and the task queues.
TypeOK ==
    /\ mmState \in MmStates /\ mmSubState \in MmSubStates
    /\ rmState \in {"RM_REGISTERED", "RM_DEREGISTERED"}
    /\ lastPlmnSearchTrigger \in {"zero", "recent", "due"}
    /\ registrationRequest \in RegistrationTypes \cup {NONE}
    /\ storedSuci \in {"SUCI", NONE} /\ storedGuti \in Gutis \cup {NONE}
    /\ currentNsCtx \in NsCtx \cup {NONE} /\ nonCurrentNsCtx \in NsCtx \cup {NONE}
    /\ running \subseteq Timers
    /\ connectedGnb \in Gnbs \cup {NONE}
    /\ nasPc \in {"cycle", "receive"} /\ nasFault \in Faults \cup {NONE}
    /\ nasQueue \in Seq(NasMessages)
    /\ mrQueue \in Seq(Uplink \cup {"IwPlmnSearchRequest"})
    /\ gnbReady \subseteq Gnbs /\ gnbKnowsUe \in BOOLEAN
    /\ tester \in TestCases \cup {"waiting", "done"}
    /\ triggers \subseteq {"UE_MR_GNB", "RM_REGISTERED"}

\* While T3519 runs getOrGenerateSuci hands out the stored SUCI without looking
\* at it, so there must be one: no path through the registration, identity,
\* configuration update and de-registration handlers, with the timer expiring
\* at any moment, may leave the timer running without the SUCI.
SuciKeptWhileT3519Runs == "t3519" \in running => storedSuci # NONE

\* A security context becomes the current one only with its NAS keys derived.
\* encryptNasMessage sends in clear when the current context has no kNasEnc, and
\* MmSecurity promotes a deep copy that later changes of the non-current context
\* must not touch.
CurrentContextIsKeyed == currentNsCtx # NONE => currentNsCtx.nasKeys

\* The network can only talk to a UE that has sent a registration request, so
\* the handlers of Registration Reject and Security Mode Command, which use
\* MmContext.registrationRequest unchecked, never find it null.
RequestStoredWhenUsed ==
    nasFault \notin {"RejectWithoutRequest", "SmcWithoutRequest"}

\* A UE the network knows, and a fortiori a registered one, is connected to a
\* gNB and still holds the request it registered with.
RegisteredIsAnchored ==
    gnbKnowsUe \/ rmState = "RM_REGISTERED"
        => connectedGnb # NONE /\ registrationRequest # NONE

\* When the MR task answers a PLMN search within the search interval (at most
\* one search is pending), the RM and MM state machines agree: a UE that is
\* RM_REGISTERED is MM_REGISTERED or in a procedure started from there.  A late
\* second response would move the MM state alone.
RegisteredStatesAgree ==
    (MaxSearch = 1 /\ rmState = "RM_REGISTERED")
        => mmState \in {"MM_REGISTERED", "MM_REGISTERED_INITIATED",
                        "MM_DEREGISTERED_INITIATED"}

\* MobilityManagement.cycle has a branch for every state the UE reaches, so its
\* "unhandled UE MM state" exception, thrown with AUTO, never ends the NAS task.
CycleHandlesEveryState == nasFault # "UnhandledMmState"

\* Once the UE has left PLMN_SEARCH no step adds to the search messages in
\* flight between the NAS and MR tasks: late responses can disturb the UE's
\* state only as often as there are requests left over.
SearchDrains ==
    [][mmState # "MM_NULL" /\ ~Searching => PendingSearch' =< PendingSearch]_vars

\* The PLMN search ends: the NAS task keeps asking, the MR task answers, and
\* the UE is connected.
SearchSucceeds == <>(connectedGnb # NONE)

\* From some moment on no late search response is on its way any more (unless
\* an exception ended the NAS task, which leaves its queue unread).
SearchTrafficStops == <>[](PendingSearch = 0 \/ nasFault # NONE)

\* UeTimers says T3521 is the "De-registration transmission timer for not
\* switch off": a registered UE that starts a de-registration which is not a
\* switch-off starts it.
T3521GuardsDeregistration ==
    [][(/\ mmState \in {"MM_REGISTERED", "MM_REGISTERED_INITIATED"}
        /\ mmState' = "MM_DEREGISTERED_INITIATED"
        /\ nasFault' = NONE /\ ~SwitchOff)
        => "t3521" \in running']_vars

=============================================================================
