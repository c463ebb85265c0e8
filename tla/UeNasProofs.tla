----------------------------- MODULE UeNasProofs -----------------------------
(***************************************************************************)
(* Safety of the UE's NAS task, for every set of gNBs, GUTIs and RANDs,    *)
(* every bound, both values of AUTO and any behaviour of the network.      *)
(***************************************************************************)
EXTENDS UeNas, TLAPS

USE DEF stateVars, idVars, secVars, ueVars, linkVars, outVars, envVars

(* The part of the type invariant that the handlers of the NAS task change. *)
UeTypeOK ==
    /\ mmState \in MmStates /\ mmSubState \in MmSubStates
    /\ rmState \in {"RM_REGISTERED", "RM_DEREGISTERED"}
    /\ registrationRequest \in RegistrationTypes \cup {NONE}
    /\ storedSuci \in {"SUCI", NONE} /\ storedGuti \in Gutis \cup {NONE}
    /\ currentNsCtx \in NsCtx \cup {NONE} /\ nonCurrentNsCtx \in NsCtx \cup {NONE}
    /\ running \subseteq Timers
    /\ nasFault \in Faults \cup {NONE}
    /\ mrQueue \in Seq(Uplink \cup {"IwPlmnSearchRequest"})
    /\ triggers \subseteq {"UE_MR_GNB", "RM_REGISTERED"}

(* What the handlers of the NAS task keep true of the UE's own state. *)
UeInv == UeTypeOK /\ SuciKeptWhileT3519Runs /\ CurrentContextIsKeyed

(* The UE is connected and has a registration request in its MmContext. *)
Anchored == connectedGnb # NONE /\ registrationRequest # NONE

(* Everything that can only exist once the UE is anchored: contact with the *)
(* network, its messages, uplink messages, the registered state, and the     *)
(* procedures started from a connected UE.                                 *)
AnchorInv ==
    /\ gnbKnowsUe \/ rmState = "RM_REGISTERED" => Anchored
    /\ "RM_REGISTERED" \in triggers => Anchored
    /\ "UE_MR_GNB" \in triggers => connectedGnb # NONE
    /\ \A i \in 1 .. Len(mrQueue) : mrQueue[i] # "IwPlmnSearchRequest" => Anchored
    /\ \A i \in 1 .. Len(nasQueue) :
          /\ nasQueue[i][1] \in {"IwDownlinkNas", "IwConnectionRelease"} => Anchored
          /\ nasQueue[i][1] = "IwUeTestCommand" =>
                /\ connectedGnb # NONE
                /\ nasQueue[i][2] = "Deregistration" => Anchored
    /\ mmState \in {"MM_REGISTERED", "MM_REGISTERED_INITIATED",
                    "MM_DEREGISTERED_INITIATED"} => Anchored
    /\ mmState = "MM_DEREGISTERED" /\ mmSubState = "NORMAL_SERVICE"
          => connectedGnb # NONE

(* The inductive invariant. *)
IInv == TypeOK /\ UeInv /\ RequestStoredWhenUsed /\ AnchorInv

-----------------------------------------------------------------------------
(* Sending an uplink message keeps the MR queue well-typed. *)
LEMMA SendMmType ==
    ASSUME mrQueue \in Seq(Uplink \cup {"IwPlmnSearchRequest"}),
           NEW message \in Uplink, sendMm(message)
    PROVE  mrQueue' \in Seq(Uplink \cup {"IwPlmnSearchRequest"})
BY DEF sendMm

(* The messages a handler sends are uplink messages. *)
LEMMA UplinkMessages ==
    {"RegistrationRequest", "RegistrationComplete", "IdentityResponse",
     "AuthenticationResponse", "AuthenticationFailure", "AuthenticationReject",
     "SecurityModeComplete", "SecurityModeReject", "ConfigurationUpdateComplete",
     "DeRegistrationRequest", "DeRegistrationAccept"} \subseteq Uplink
BY DEF Uplink

(* Starting a registration keeps the UE's invariant and stores the request. *)
LEMMA SendRegistrationInv ==
    ASSUME UeInv, NEW type \in RegistrationTypes, sendRegistration(type)
    PROVE  UeInv' /\ registrationRequest' # NONE
<1>1. UeTypeOK'
  BY SendMmType, UplinkMessages
     DEF UeInv, UeTypeOK, sendRegistration, switchState, UseIdentity,
         getOrGenerateSuci, IdentityTimers, MmStates, MmSubStates, Timers
<1>2. SuciKeptWhileT3519Runs'
  BY NoneAssumption
     DEF UeInv, SuciKeptWhileT3519Runs, sendRegistration, UseIdentity,
         getOrGenerateSuci, IdentityTimers
<1>3. CurrentContextIsKeyed' /\ registrationRequest' # NONE
  BY NoneAssumption DEF UeInv, CurrentContextIsKeyed, sendRegistration
<1> QED
  BY <1>1, <1>2, <1>3 DEF UeInv

(* Starting a de-registration keeps the UE's invariant. *)
LEMMA SendDeregistrationInv ==
    ASSUME UeInv, NEW switchOff, sendDeregistration(switchOff)
    PROVE  UeInv'
<1>1. UeTypeOK'
  <2>1. mrQueue' \in Seq(Uplink \cup {"IwPlmnSearchRequest"})
    BY SendMmType, UplinkMessages DEF UeInv, UeTypeOK, sendDeregistration
  <2> QED
    BY <2>1
       DEF UeInv, UeTypeOK, sendDeregistration, switchState, UseIdentity,
           getOrGenerateSuci, IdentityTimers, throw, Faults, MmStates, MmSubStates, Timers
<1>2. SuciKeptWhileT3519Runs'
  BY NoneAssumption
     DEF UeInv, SuciKeptWhileT3519Runs, sendDeregistration, UseIdentity,
         getOrGenerateSuci, IdentityTimers
<1>3. CurrentContextIsKeyed'
  BY DEF UeInv, CurrentContextIsKeyed, sendDeregistration
<1> QED
  BY <1>1, <1>2, <1>3 DEF UeInv

(* The handlers of authentication messages keep the UE's invariant. *)
LEMMA AuthenticationInv ==
    ASSUME UeInv,
           \/ \E autn \in AutnResults, rand \in Rands :
                 receiveAuthenticationRequest5gAka(autn, rand)
           \/ \E kdf \in {1, 2}, autn \in AutnResults, macOk \in BOOLEAN, rand \in Rands :
                 receiveAuthenticationRequestEap(kdf, autn, macOk, rand)
           \/ \E abba \in BOOLEAN, eap \in EapCodes :
                 receiveAuthenticationResult(abba, eap)
           \/ \E eap \in EapCodes : receiveAuthenticationReject(eap)
    PROVE  UeInv' /\ UNCHANGED registrationRequest
              /\ nasFault' \in {nasFault, "ResultWithoutContext"}
<1>1. ASSUME NEW autn \in AutnResults, NEW rand \in Rands,
             receiveAuthenticationRequest5gAka(autn, rand)
      PROVE  UeInv' /\ UNCHANGED <<registrationRequest, nasFault>>
  BY <1>1, SendMmType, UplinkMessages
     DEF UeInv, UeTypeOK, SuciKeptWhileT3519Runs, CurrentContextIsKeyed,
         receiveAuthenticationRequest5gAka, newNsCtx, NsCtx, IntegrityAlgs
<1>2. ASSUME NEW kdf \in {1, 2}, NEW autn \in AutnResults, NEW macOk \in BOOLEAN,
             NEW rand \in Rands, receiveAuthenticationRequestEap(kdf, autn, macOk, rand)
      PROVE  UeInv' /\ UNCHANGED <<registrationRequest, nasFault>>
  <2>1. /\ running' \subseteq running \cup {"t3520"}
        /\ nonCurrentNsCtx' \in {nonCurrentNsCtx, newNsCtx(rand)}
        /\ sendMm("AuthenticationResponse") \/ sendMm("AuthenticationReject")
        /\ UNCHANGED <<stateVars, idVars, currentNsCtx, registrationRequest, triggers,
                       nasFault>>
    BY <1>2, Zenon DEF receiveAuthenticationRequestEap
  <2>2. mrQueue' \in Seq(Uplink \cup {"IwPlmnSearchRequest"})
    BY <2>1, SendMmType, UplinkMessages DEF UeInv, UeTypeOK
  <2>3. newNsCtx(rand) \in NsCtx
    BY DEF newNsCtx, NsCtx, IntegrityAlgs
  <2> QED
    BY <2>1, <2>2, <2>3
       DEF UeInv, UeTypeOK, SuciKeptWhileT3519Runs, CurrentContextIsKeyed, Timers
<1>3. ASSUME NEW abba \in BOOLEAN, NEW eap \in EapCodes,
             receiveAuthenticationResult(abba, eap)
      PROVE  /\ UeInv' /\ UNCHANGED registrationRequest
             /\ nasFault' \in {nasFault, "ResultWithoutContext"}
  BY <1>3 DEF UeInv, UeTypeOK, SuciKeptWhileT3519Runs, CurrentContextIsKeyed, Faults,
              receiveAuthenticationResult, receiveEapMessage, throw
<1>4. ASSUME NEW eap \in EapCodes, receiveAuthenticationReject(eap)
      PROVE  UeInv' /\ UNCHANGED <<registrationRequest, nasFault>>
  BY <1>4 DEF UeInv, UeTypeOK, SuciKeptWhileT3519Runs, CurrentContextIsKeyed,
              receiveAuthenticationReject, receiveEapMessage
<1> QED
  BY <1>1, <1>2, <1>3, <1>4

(* Registration Accept and Reject keep the UE's invariant; a reject finds the *)
(* stored request it needs.                                                *)
LEMMA RegistrationAnswerInv ==
    ASSUME UeInv, registrationRequest # NONE,
           \/ \E guti \in Gutis \cup {NONE}, t3512 \in BOOLEAN :
                 receiveRegistrationAccept(guti, t3512)
           \/ \E cause \in MmCauses, eap \in EapCodes, t3346 \in BOOLEAN :
                 receiveRegistrationReject(cause, eap, t3346)
    PROVE  UeInv' /\ UNCHANGED <<registrationRequest, nasFault>>
<1>1. ASSUME NEW guti \in Gutis \cup {NONE}, NEW t3512 \in BOOLEAN,
             receiveRegistrationAccept(guti, t3512)
      PROVE  UeInv' /\ UNCHANGED <<registrationRequest, nasFault>>
  <2>1. /\ running' \subseteq running \cup {"t3512"}
        /\ storedGuti' \in {storedGuti, guti}
        /\ UNCHANGED mrQueue \/ sendMm("RegistrationComplete")
        /\ rmState' = "RM_REGISTERED"
        /\ switchState("MM_REGISTERED", "NORMAL_SERVICE")
        /\ triggers' = triggers \cup {"RM_REGISTERED"}
        /\ UNCHANGED <<storedSuci, secVars, registrationRequest, nasFault>>
    BY <1>1, Zenon DEF receiveRegistrationAccept
  <2>2. mrQueue' \in Seq(Uplink \cup {"IwPlmnSearchRequest"})
    BY <2>1, SendMmType, UplinkMessages DEF UeInv, UeTypeOK
  <2> QED
    BY <2>1, <2>2
       DEF UeInv, UeTypeOK, SuciKeptWhileT3519Runs, CurrentContextIsKeyed, Timers,
           switchState, MmStates, MmSubStates
<1>2. ASSUME NEW cause \in MmCauses, NEW eap \in EapCodes, NEW t3346 \in BOOLEAN,
             receiveRegistrationReject(cause, eap, t3346)
      PROVE  UeInv' /\ UNCHANGED <<registrationRequest, nasFault>>
  BY <1>2 DEF UeInv, UeTypeOK, SuciKeptWhileT3519Runs, CurrentContextIsKeyed, Timers,
              receiveRegistrationReject, rejectCause, RejectedState, PlmnSearchCauses,
              LimitedServiceCauses, switchState, MmStates, MmSubStates
<1> QED
  BY <1>1, <1>2

(* The remaining MM handlers keep the UE's invariant. *)
LEMMA OtherHandlersInv ==
    ASSUME UeInv,
           \/ \E identityType \in {"SUCI", "IMEI", "OTHER"} :
                 receiveIdentityRequest(identityType)
           \/ \E eap \in EapCodes : receiveService(eap)
           \/ \E guti \in Gutis \cup {NONE}, ack \in BOOLEAN :
                 receiveConfigurationUpdate(guti, ack)
           \/ receiveDeregistrationAccept
           \/ \E required \in BOOLEAN : receiveDeregistrationRequest(required)
           \/ receiveNoEffect
    PROVE  UeInv' /\ UNCHANGED <<registrationRequest, nasFault>>
<1>1. ASSUME NEW identityType \in {"SUCI", "IMEI", "OTHER"},
             receiveIdentityRequest(identityType)
      PROVE  UeInv' /\ UNCHANGED <<registrationRequest, nasFault>>
  BY <1>1, SendMmType, UplinkMessages, NoneAssumption
     DEF UeInv, UeTypeOK, SuciKeptWhileT3519Runs, CurrentContextIsKeyed, Timers,
         receiveIdentityRequest, getOrGenerateSuci
<1>2. ASSUME NEW eap \in EapCodes, receiveService(eap)
      PROVE  UeInv' /\ UNCHANGED <<registrationRequest, nasFault>>
  BY <1>2 DEF UeInv, UeTypeOK, SuciKeptWhileT3519Runs, CurrentContextIsKeyed,
              receiveService, receiveEapMessage
<1>3. ASSUME NEW guti \in Gutis \cup {NONE}, NEW ack \in BOOLEAN,
             receiveConfigurationUpdate(guti, ack)
      PROVE  UeInv' /\ UNCHANGED <<registrationRequest, nasFault>>
  BY <1>3, SendMmType, UplinkMessages
     DEF UeInv, UeTypeOK, SuciKeptWhileT3519Runs, CurrentContextIsKeyed, Timers,
         receiveConfigurationUpdate
<1>4. ASSUME receiveDeregistrationAccept
      PROVE  UeInv' /\ UNCHANGED <<registrationRequest, nasFault>>
  BY <1>4 DEF UeInv, UeTypeOK, SuciKeptWhileT3519Runs, CurrentContextIsKeyed, Timers,
              receiveDeregistrationAccept, switchState, MmStates, MmSubStates
<1>5. ASSUME NEW required \in BOOLEAN, receiveDeregistrationRequest(required)
      PROVE  UeInv' /\ UNCHANGED <<registrationRequest, nasFault>>
  BY <1>5, SendMmType, UplinkMessages
     DEF UeInv, UeTypeOK, SuciKeptWhileT3519Runs, CurrentContextIsKeyed, Timers,
         receiveDeregistrationRequest, switchState, MmStates, MmSubStates
<1>6. ASSUME receiveNoEffect
      PROVE  UeInv' /\ UNCHANGED <<registrationRequest, nasFault>>
  BY <1>6 DEF UeInv, UeTypeOK, SuciKeptWhileT3519Runs, CurrentContextIsKeyed,
              receiveNoEffect
<1> QED
  BY <1>1, <1>2, <1>3, <1>4, <1>5, <1>6

(* Security Mode Command keeps the UE's invariant: the context it promotes    *)
(* has its NAS keys, and the request its answer carries is there.            *)
LEMMA SecurityModeInv ==
    ASSUME UeInv, registrationRequest # NONE, receiveSmc
    PROVE  UeInv' /\ UNCHANGED registrationRequest
              /\ nasFault' \in {nasFault, "SmcEapWarning", "SmcWithoutContext"}
<1>1. ASSUME rejectSecurityMode
      PROVE  UeInv' /\ UNCHANGED <<registrationRequest, nasFault>>
  BY <1>1, SendMmType, UplinkMessages
     DEF UeInv, UeTypeOK, SuciKeptWhileT3519Runs, CurrentContextIsKeyed, rejectSecurityMode
<1>2. ASSUME NEW eap \in EapCodes, warnSecurityModeEap(eap)
      PROVE  /\ UeInv' /\ UNCHANGED registrationRequest
             /\ nasFault' = "SmcEapWarning"
  BY <1>2 DEF UeInv, UeTypeOK, SuciKeptWhileT3519Runs, CurrentContextIsKeyed, Faults,
              warnSecurityModeEap, throw
<1>3. ASSUME NEW integrity \in IntegrityAlgs, receiveSecurityModeCommand(integrity)
      PROVE  /\ UeInv' /\ UNCHANGED registrationRequest
             /\ nasFault' \in {nasFault, "SmcWithoutContext"}
  <2> DEFINE keyed == [nonCurrentNsCtx EXCEPT !.nasKeys = TRUE, !.integrity = integrity]
  <2>1. CASE nonCurrentNsCtx = NONE
    BY <1>3, <2>1
       DEF UeInv, UeTypeOK, SuciKeptWhileT3519Runs, CurrentContextIsKeyed, Faults,
           receiveSecurityModeCommand, throw
  <2>2. CASE nonCurrentNsCtx # NONE
    <3>1. /\ nonCurrentNsCtx' = keyed /\ currentNsCtx' = keyed
          /\ sendMm("SecurityModeComplete") /\ nasFault' = nasFault
          /\ UNCHANGED <<stateVars, idVars, registrationRequest, running, triggers>>
      BY <1>3, <2>2 DEF receiveSecurityModeCommand
    <3>2. keyed \in NsCtx /\ keyed.nasKeys
      BY <2>2 DEF UeInv, UeTypeOK, NsCtx
    <3>3. mrQueue' \in Seq(Uplink \cup {"IwPlmnSearchRequest"})
      BY <3>1, SendMmType, UplinkMessages DEF UeInv, UeTypeOK
    <3> HIDE DEF keyed
    <3> QED
      BY <3>1, <3>2, <3>3
         DEF UeInv, UeTypeOK, SuciKeptWhileT3519Runs, CurrentContextIsKeyed
  <2> QED
    BY <2>1, <2>2
<1> QED
  BY <1>1, <1>2, <1>3 DEF receiveSmc

(* A downlink NAS message keeps the UE's invariant when the UE is anchored. *)
LEMMA ReceiveNasInv ==
    ASSUME UeInv, registrationRequest # NONE, nasFault = NONE, receiveNas
    PROVE  UeInv' /\ UNCHANGED registrationRequest /\ RequestStoredWhenUsed'
<1>0. NONE \notin {"RejectWithoutRequest", "SmcWithoutRequest"}
  BY NoneAssumption DEF Faults
<1>1. CASE throw("DecryptWithoutContext") /\ UNCHANGED <<ueVars, outVars>>
  BY <1>1 DEF UeInv, UeTypeOK, SuciKeptWhileT3519Runs, CurrentContextIsKeyed, Faults,
              throw, RequestStoredWhenUsed
<1>2. CASE UNCHANGED <<ueVars, outVars, nasFault>>
  BY <1>0, <1>2 DEF UeInv, UeTypeOK, SuciKeptWhileT3519Runs, CurrentContextIsKeyed,
                    RequestStoredWhenUsed
<1>3. CASE receiveMm
  BY <1>0, <1>3, AuthenticationInv, RegistrationAnswerInv, OtherHandlersInv
     DEF receiveMm, RequestStoredWhenUsed
<1>4. CASE receiveSmc
  BY <1>0, <1>4, SecurityModeInv DEF RequestStoredWhenUsed
<1> QED
  BY <1>1, <1>2, <1>3, <1>4 DEF receiveNas

-----------------------------------------------------------------------------
(* Every element of a queue after an append was there before or is the new one. *)
LEMMA AppendElements ==
    ASSUME NEW S, NEW q \in Seq(S), NEW e \in S, NEW i \in 1 .. Len(Append(q, e))
    PROVE  \/ Append(q, e)[i] = e
           \/ i \in 1 .. Len(q) /\ Append(q, e)[i] = q[i]
OBVIOUS

(* The elements of a queue's tail are elements of the queue. *)
LEMMA TailElements ==
    ASSUME NEW S, NEW q \in Seq(S), q # <<>>, NEW i \in 1 .. Len(Tail(q))
    PROVE  i + 1 \in 1 .. Len(q) /\ Tail(q)[i] = q[i + 1]
OBVIOUS

(* The head of a queue is its first element. *)
LEMMA HeadElement ==
    ASSUME NEW S, NEW q \in Seq(S), q # <<>>
    PROVE  1 \in 1 .. Len(q) /\ Head(q) = q[1] /\ Head(q) \in S /\ Tail(q) \in Seq(S)
OBVIOUS

(* The queue of the NAS task holds its messages only. *)
LEMMA NasMessageFields ==
    ASSUME NEW m \in NasMessages
    PROVE  /\ m = <<m[1], m[2]>>
           /\ m[1] = "IwPlmnSearchResponse" => m[2] \in Gnbs
           /\ m[1] = "IwUeTestCommand" => m[2] \in Commands
BY DEF NasMessages

(* The initial state satisfies the inductive invariant. *)
LEMMA InitInv == Init => IInv
<1> SUFFICES ASSUME Init PROVE IInv
  OBVIOUS
<1>0. /\ nasQueue \in Seq(NasMessages)
      /\ mrQueue \in Seq(Uplink \cup {"IwPlmnSearchRequest"})
  BY DEF Init
<1>1. UeTypeOK
  BY <1>0 DEF Init, UeTypeOK, MmStates, MmSubStates
<1>5. TypeOK
  BY <1>0, <1>1 DEF Init, TypeOK, UeTypeOK
<1>2. SuciKeptWhileT3519Runs /\ CurrentContextIsKeyed
  BY DEF Init, SuciKeptWhileT3519Runs, CurrentContextIsKeyed
<1>3. RequestStoredWhenUsed
  BY NoneAssumption DEF Init, RequestStoredWhenUsed, Faults
<1>4. AnchorInv
  BY DEF Init, AnchorInv
<1> QED
  BY <1>1, <1>2, <1>3, <1>4, <1>5 DEF IInv, UeInv

(* One iteration of MobilityManagement.cycle preserves the invariant. *)
LEMMA CycleInv == IInv /\ Cycle => IInv'
<1> SUFFICES ASSUME IInv, Cycle PROVE IInv'
  OBVIOUS
<1> USE DEF Cycle
<1>0. NONE \notin {"RejectWithoutRequest", "SmcWithoutRequest"}
  BY NoneAssumption DEF Faults
<1>1. CASE cycleNull
  BY <1>1 DEF cycleNull, switchState, IInv, TypeOK, UeInv, UeTypeOK,
              SuciKeptWhileT3519Runs, CurrentContextIsKeyed, RequestStoredWhenUsed,
              AnchorInv, Anchored, MmStates, MmSubStates
<1>2. CASE cycleSearch
  <2>1. /\ UNCHANGED <<ueVars, triggers, nasFault, connectedGnb, nasQueue, envVars>>
        /\ lastPlmnSearchTrigger' = "recent" /\ nasPc' = "receive"
        /\ \/ mrQueue' = mrQueue
           \/ mrQueue' = Append(mrQueue, "IwPlmnSearchRequest")
    BY <1>2 DEF cycleSearch
  <2>2. mrQueue' \in Seq(Uplink \cup {"IwPlmnSearchRequest"})
    BY <2>1 DEF IInv, TypeOK
  <2>3. TypeOK' /\ UeInv' /\ RequestStoredWhenUsed'
    BY <2>1, <2>2 DEF IInv, TypeOK, UeInv, UeTypeOK, SuciKeptWhileT3519Runs,
                      CurrentContextIsKeyed, RequestStoredWhenUsed
  <2>4. \A i \in 1 .. Len(mrQueue') : mrQueue'[i] # "IwPlmnSearchRequest" => Anchored
    BY <2>1, AppendElements DEF IInv, TypeOK, AnchorInv
  <2>5. AnchorInv'
    BY <2>1, <2>4 DEF IInv, AnchorInv, Anchored
  <2> QED
    BY <2>3, <2>5 DEF IInv
<1>3. CASE cycleRegister
  <2>1. UeInv' /\ registrationRequest' # NONE
    BY <1>3, SendRegistrationInv DEF cycleRegister, IInv, RegistrationTypes
  <2>2. UNCHANGED <<nasFault, connectedGnb, nasQueue, envVars, lastPlmnSearchTrigger>>
    BY <1>3 DEF cycleRegister, sendRegistration
  <2>3. connectedGnb # NONE
    BY <1>3 DEF cycleRegister, IInv, AnchorInv
  <2>4. Anchored'
    BY <2>1, <2>2, <2>3 DEF Anchored
  <2>5. TypeOK'
    BY <2>1, <2>2 DEF IInv, TypeOK, UeInv, UeTypeOK
  <2>6. AnchorInv'
    BY <2>4 DEF AnchorInv, Anchored
  <2>7. RequestStoredWhenUsed'
    BY <2>2 DEF IInv, RequestStoredWhenUsed
  <2> QED
    BY <2>1, <2>5, <2>6, <2>7 DEF IInv
<1>4. CASE cycleIdle
  BY <1>0, <1>4
     DEF cycleIdle, IInv, TypeOK, UeInv, UeTypeOK, SuciKeptWhileT3519Runs,
         CurrentContextIsKeyed, RequestStoredWhenUsed, AnchorInv, Anchored, Faults
<1> QED
  BY <1>1, <1>2, <1>3, <1>4

(* Handling one message of the NAS task's queue preserves the invariant. *)
LEMMA ReceiveInv == IInv /\ Receive => IInv'
<1> SUFFICES ASSUME IInv, Receive PROVE IInv'
  OBVIOUS
<1> DEFINE m == Head(nasQueue)
<1>0. NONE \notin {"RejectWithoutRequest", "SmcWithoutRequest"}
  BY NoneAssumption DEF Faults
<1>1. m \in NasMessages /\ Tail(nasQueue) \in Seq(NasMessages)
  BY HeadElement DEF IInv, TypeOK, Receive
<1>2. /\ m[1] \in {"IwDownlinkNas", "IwConnectionRelease"} => Anchored
      /\ m[1] = "IwUeTestCommand" =>
            connectedGnb # NONE /\ (m[2] = "Deregistration" => Anchored)
  BY HeadElement DEF IInv, TypeOK, AnchorInv, Receive
<1>3. \A i \in 1 .. Len(Tail(nasQueue)) :
          /\ Tail(nasQueue)[i][1] \in {"IwDownlinkNas", "IwConnectionRelease"} => Anchored
          /\ Tail(nasQueue)[i][1] = "IwUeTestCommand" =>
                /\ connectedGnb # NONE
                /\ Tail(nasQueue)[i][2] = "Deregistration" => Anchored
  BY TailElements DEF IInv, TypeOK, AnchorInv, Receive
<1>4. /\ nasFault = NONE /\ nasQueue' = Tail(nasQueue) /\ nasPc' = "cycle"
      /\ UNCHANGED <<lastPlmnSearchTrigger, envVars>>
      /\ Handle(m[1], m[2])
  BY DEF Receive
<1>5. SUFFICES ASSUME UeInv', RequestStoredWhenUsed', AnchorInv',
                      connectedGnb' \in Gnbs \cup {NONE}
               PROVE  IInv'
  <2>1. CASE m[1] = "IwPlmnSearchResponse" /\ receivePlmnSearchResponse(m[2])
    <3>1. connectedGnb' \in Gnbs /\ connectedGnb' # NONE
      BY <1>1, <2>1, NasMessageFields, GnbsAssumption DEF receivePlmnSearchResponse
    <3>2. /\ mmState' = "MM_DEREGISTERED" /\ mmSubState' = "NORMAL_SERVICE"
          /\ triggers' = triggers \cup {"UE_MR_GNB"}
          /\ UNCHANGED <<rmState, idVars, secVars, registrationRequest, running,
                         mrQueue, nasFault>>
      BY <2>1 DEF receivePlmnSearchResponse, switchState
    <3>3. UeInv' /\ RequestStoredWhenUsed'
      BY <3>2 DEF IInv, UeInv, UeTypeOK, SuciKeptWhileT3519Runs, CurrentContextIsKeyed,
                  RequestStoredWhenUsed, MmStates, MmSubStates
    <3>4. Anchored => Anchored'
      BY <3>1, <3>2 DEF Anchored
    <3>5. AnchorInv'
      BY <1>3, <1>4, <3>1, <3>2, <3>4 DEF IInv, AnchorInv
    <3> QED
      BY <1>5, <3>1, <3>3, <3>5
  <2>2. CASE m[1] = "IwDownlinkNas" /\ receiveNas /\ UNCHANGED connectedGnb
    <3>1. UeInv' /\ RequestStoredWhenUsed' /\ UNCHANGED registrationRequest
      BY <1>2, <1>4, <2>2, ReceiveNasInv DEF IInv, Anchored
    <3>2. Anchored'
      BY <1>2, <2>2, <3>1 DEF Anchored
    <3>3. AnchorInv'
      BY <3>2 DEF AnchorInv, Anchored
    <3> QED
      BY <1>5, <2>2, <3>1, <3>3 DEF IInv, TypeOK
  <2>3. ASSUME sendRegistration("PERIODIC_REGISTRATION_UPDATING")
                  \/ sendRegistration("INITIAL_REGISTRATION"),
               connectedGnb # NONE, UNCHANGED connectedGnb
        PROVE  IInv'
    <3>1. UeInv' /\ registrationRequest' # NONE
      BY <2>3, SendRegistrationInv DEF IInv, RegistrationTypes
    <3>2. RequestStoredWhenUsed'
      BY <2>3 DEF IInv, RequestStoredWhenUsed, sendRegistration
    <3>3. AnchorInv'
      BY <2>3, <3>1 DEF AnchorInv, Anchored
    <3> QED
      BY <1>5, <2>3, <3>1, <3>2, <3>3 DEF IInv, TypeOK
  <2>4. ASSUME receiveNoEffect, UNCHANGED connectedGnb
        PROVE  IInv'
    <3>1. UeInv' /\ RequestStoredWhenUsed'
      BY <2>4, OtherHandlersInv DEF IInv, RequestStoredWhenUsed
    <3>2. AnchorInv'
      BY <1>3, <1>4, <2>4 DEF receiveNoEffect, IInv, AnchorInv, Anchored
    <3> QED
      BY <1>5, <2>4, <3>1, <3>2 DEF IInv, TypeOK
  <2>5. CASE m[1] = "IwNasTimerExpire" /\ receiveTimerExpire(m[2]) /\ UNCHANGED connectedGnb
    BY <2>3, <2>4, <2>5 DEF receiveTimerExpire, IInv, AnchorInv, Anchored
  <2>6. CASE m[1] = "IwUeTestCommand" /\ executeCommand(m[2]) /\ UNCHANGED connectedGnb
    <3>1. m[2] \in Commands
      BY <1>1, <2>6, NasMessageFields
    <3>2. CASE m[2] = "Deregistration"
      <4>1. Anchored /\ sendDeregistration(SwitchOff)
        BY <1>2, <2>6, <3>2 DEF executeCommand
      <4>2. UeInv'
        BY <4>1, SendDeregistrationInv DEF IInv
      <4>3. RequestStoredWhenUsed' /\ UNCHANGED registrationRequest
        BY <1>0, <1>4, <4>1 DEF sendDeregistration, throw, RequestStoredWhenUsed
      <4>4. AnchorInv'
        BY <2>6, <4>1, <4>3 DEF AnchorInv, Anchored
      <4> QED
        BY <1>5, <2>6, <4>2, <4>3, <4>4 DEF IInv, TypeOK
    <3>3. CASE m[2] \in {"InitialRegistration", "PeriodicRegistration"}
      BY <1>2, <2>3, <2>6, <3>3 DEF executeCommand
    <3> QED
      BY <3>1, <3>2, <3>3 DEF Commands
  <2>7. CASE m[1] = "IwConnectionRelease" /\ receiveNoEffect /\ UNCHANGED connectedGnb
    BY <2>4, <2>7
  <2> QED
    BY <1>4, <2>1, <2>2, <2>5, <2>6, <2>7 DEF Handle
<1> QED
  BY <1>1, <1>4, <1>5 DEF IInv, TypeOK, UeInv, UeTypeOK

(* A message that asks nothing new of the UE may join the NAS task's queue. *)
LEMMA EnqueueInv ==
    ASSUME IInv, NEW msg \in NasMessages,
           nasQueue' = Append(nasQueue, msg),
           msg[1] \in {"IwDownlinkNas", "IwConnectionRelease"} => Anchored,
           msg[1] = "IwUeTestCommand" =>
                connectedGnb # NONE /\ (msg[2] = "Deregistration" => Anchored)
    PROVE  /\ nasQueue' \in Seq(NasMessages)
           /\ \A i \in 1 .. Len(nasQueue') :
                 /\ nasQueue'[i][1] \in {"IwDownlinkNas", "IwConnectionRelease"} => Anchored
                 /\ nasQueue'[i][1] = "IwUeTestCommand" =>
                       /\ connectedGnb # NONE
                       /\ nasQueue'[i][2] = "Deregistration" => Anchored
<1>1. nasQueue \in Seq(NasMessages)
  BY DEF IInv, TypeOK
<1> QED
  BY <1>1, AppendElements DEF IInv, AnchorInv

(* The MR task preserves the invariant: what it relays was sent by an anchored *)
(* UE, and a search response asks nothing of the UE.                        *)
LEMMA MrStepInv == IInv /\ MrStep => IInv'
<1> SUFFICES ASSUME IInv, MrStep PROVE IInv'
  OBVIOUS
<1>1. /\ mrQueue' = Tail(mrQueue) /\ mrQueue # <<>>
      /\ UNCHANGED <<ueVars, linkVars, triggers, gnbReady, tester, nasPc, nasFault>>
  BY DEF MrStep
<1>2. mrQueue' \in Seq(Uplink \cup {"IwPlmnSearchRequest"})
  BY <1>1, HeadElement DEF IInv, TypeOK
<1>3. \A i \in 1 .. Len(mrQueue') : mrQueue'[i] # "IwPlmnSearchRequest" => Anchored
  BY <1>1, TailElements DEF IInv, TypeOK, AnchorInv
<1>4. UeInv' /\ RequestStoredWhenUsed'
  BY <1>1, <1>2 DEF IInv, UeInv, UeTypeOK, SuciKeptWhileT3519Runs, CurrentContextIsKeyed,
                    RequestStoredWhenUsed
<1>5. CASE relayUplink
  <2>1. Anchored
    BY <1>1, <1>5, HeadElement DEF relayUplink, IInv, TypeOK, AnchorInv
  <2>2. AnchorInv'
    BY <1>1, <2>1 DEF AnchorInv, Anchored
  <2>3. gnbKnowsUe' \in BOOLEAN /\ UNCHANGED nasQueue
    BY <1>5 DEF relayUplink
  <2>4. TypeOK'
    BY <1>1, <1>2, <1>4, <2>3 DEF IInv, TypeOK, UeInv, UeTypeOK
  <2> QED
    BY <1>4, <2>2, <2>4 DEF IInv
<1>6. CASE performPlmnSearch
  <2>1. PICK gnb \in Gnbs : nasQueue' = Append(nasQueue, <<"IwPlmnSearchResponse", gnb>>)
    BY <1>6 DEF performPlmnSearch
  <2>2. <<"IwPlmnSearchResponse", gnb>> \in NasMessages
    BY DEF NasMessages
  <2>3. /\ nasQueue' \in Seq(NasMessages)
        /\ \A i \in 1 .. Len(nasQueue') :
              /\ nasQueue'[i][1] \in {"IwDownlinkNas", "IwConnectionRelease"} => Anchored
              /\ nasQueue'[i][1] = "IwUeTestCommand" =>
                    /\ connectedGnb # NONE
                    /\ nasQueue'[i][2] = "Deregistration" => Anchored
    BY <2>1, <2>2, EnqueueInv
  <2>4. UNCHANGED gnbKnowsUe
    BY <1>6 DEF performPlmnSearch
  <2>5. TypeOK'
    BY <1>1, <1>2, <1>4, <2>3, <2>4 DEF IInv, TypeOK, UeInv, UeTypeOK
  <2>6. AnchorInv'
    BY <1>1, <1>3, <2>3, <2>4 DEF IInv, AnchorInv, Anchored
  <2> QED
    BY <1>4, <2>5, <2>6 DEF IInv
<1> QED
  BY <1>5, <1>6 DEF MrStep

(* A step that only adds a harmless message to the NAS task's queue, stops a  *)
(* timer or advances the tester preserves the invariant.                     *)
LEMMA EnvironmentInv ==
    ASSUME IInv, NEW msg \in NasMessages,
           nasQueue' = Append(nasQueue, msg),
           msg[1] \in {"IwDownlinkNas", "IwConnectionRelease"} => Anchored,
           msg[1] = "IwUeTestCommand" =>
                connectedGnb # NONE /\ (msg[2] = "Deregistration" => Anchored),
           running' \subseteq running, tester' \in TestCases \cup {"waiting", "done"},
           UNCHANGED <<stateVars, idVars, secVars, registrationRequest, linkVars, outVars,
                       gnbReady, gnbKnowsUe, nasPc, nasFault>>
    PROVE  IInv'
<1>1. /\ nasQueue' \in Seq(NasMessages)
      /\ \A i \in 1 .. Len(nasQueue') :
            /\ nasQueue'[i][1] \in {"IwDownlinkNas", "IwConnectionRelease"} => Anchored
            /\ nasQueue'[i][1] = "IwUeTestCommand" =>
                  /\ connectedGnb # NONE
                  /\ nasQueue'[i][2] = "Deregistration" => Anchored
  BY EnqueueInv
<1>2. UeInv' /\ RequestStoredWhenUsed'
  BY DEF IInv, UeInv, UeTypeOK, SuciKeptWhileT3519Runs, CurrentContextIsKeyed,
         RequestStoredWhenUsed
<1>3. TypeOK'
  BY <1>1, <1>2 DEF IInv, TypeOK, UeInv, UeTypeOK
<1>4. AnchorInv'
  BY <1>1 DEF IInv, AnchorInv, Anchored
<1> QED
  BY <1>2, <1>3, <1>4 DEF IInv

(* Every step preserves the inductive invariant. *)
LEMMA NextInv == IInv /\ [Next]_vars => IInv'
<1> SUFFICES ASSUME IInv, [Next]_vars PROVE IInv'
  OBVIOUS
<1>1. CASE Cycle
  BY <1>1, CycleInv
<1>2. CASE Receive
  BY <1>2, ReceiveInv
<1>3. ASSUME UNCHANGED <<ueVars, connectedGnb, outVars, gnbKnowsUe, tester, nasFault, nasQueue>>,
             lastPlmnSearchTrigger' \in {"zero", "recent", "due"},
             nasPc' \in {"cycle", "receive"}, gnbReady' \subseteq Gnbs
      PROVE  IInv'
  BY <1>3 DEF IInv, TypeOK, UeInv, UeTypeOK, SuciKeptWhileT3519Runs, CurrentContextIsKeyed,
              RequestStoredWhenUsed, AnchorInv, Anchored
<1>4. CASE ReceiveNothing
  BY <1>3, <1>4 DEF ReceiveNothing, IInv, TypeOK
<1>5. CASE MrStep
  BY <1>5, MrStepInv
<1>6. ASSUME NEW timer \in Timers, Expire(timer) PROVE IInv'
  <2>1. <<"IwNasTimerExpire", timer>> \in NasMessages
    BY DEF NasMessages
  <2> QED
    BY <1>6, <2>1, EnvironmentInv DEF Expire, IInv, TypeOK
<1>7. CASE SearchIntervalEnds
  BY <1>3, <1>7 DEF SearchIntervalEnds, IInv, TypeOK
<1>8. ASSUME NEW gnb \in Gnbs, GnbBecomesReady(gnb) PROVE IInv'
  BY <1>3, <1>8 DEF GnbBecomesReady, IInv, TypeOK
<1>9. CASE NetworkSends
  <2>1. PICK iw \in {"IwDownlinkNas", "IwConnectionRelease"} :
            nasQueue' = Append(nasQueue, <<iw, NONE>>)
    BY <1>9 DEF NetworkSends
  <2>2. <<iw, NONE>> \in NasMessages /\ Anchored
    BY <1>9 DEF NasMessages, NetworkSends, IInv, AnchorInv
  <2> QED
    BY <1>9, <2>1, <2>2, EnvironmentInv DEF NetworkSends, IInv, TypeOK
<1>10. ASSUME NEW testCase \in TestCases, StartTest(testCase) PROVE IInv'
  <2>1. <<"IwUeTestCommand", "InitialRegistration">> \in NasMessages
    BY DEF NasMessages, Commands
  <2>2. connectedGnb # NONE
    BY <1>10 DEF StartTest, IInv, AnchorInv
  <2> QED
    BY <1>10, <2>1, <2>2, EnvironmentInv DEF StartTest, IInv, TypeOK
<1>11. CASE ContinueTest
  <2>1. SecondCommand[tester] \in Commands
    BY <1>11 DEF ContinueTest, SecondCommand, Commands
  <2>2. <<"IwUeTestCommand", SecondCommand[tester]>> \in NasMessages
    BY <2>1 DEF NasMessages
  <2>3. Anchored
    BY <1>11 DEF ContinueTest, IInv, AnchorInv
  <2> QED
    BY <1>11, <2>2, <2>3, EnvironmentInv DEF ContinueTest, Anchored
<1>12. CASE UNCHANGED vars
  BY <1>3, <1>12 DEF vars, IInv, TypeOK
<1> QED
  BY <1>1, <1>2, <1>4, <1>5, <1>6, <1>7, <1>8, <1>9, <1>10, <1>11, <1>12
     DEF Next, NasStep

-----------------------------------------------------------------------------
(* The inductive invariant holds in every reachable state. *)
LEMMA InductiveInvariant == Spec => []IInv
BY InitInv, NextInv, PTL DEF Spec

(* The state of the UE's control plane is well-typed in every reachable state. *)
THEOREM TypeCorrect == Spec => []TypeOK
<1>1. IInv => TypeOK
  BY DEF IInv
<1> QED
  BY <1>1, InductiveInvariant, PTL

(* getOrGenerateSuci never returns null: whenever T3519 runs, the SUCI it     *)
(* hands out is stored.                                                     *)
THEOREM SuciAvailable == Spec => []SuciKeptWhileT3519Runs
<1>1. IInv => SuciKeptWhileT3519Runs
  BY DEF IInv, UeInv
<1> QED
  BY <1>1, InductiveInvariant, PTL

(* The current NAS security context always has its NAS keys, so the UE never  *)
(* falls back to sending in clear while it has one.                          *)
THEOREM CurrentContextKeyed == Spec => []CurrentContextIsKeyed
<1>1. IInv => CurrentContextIsKeyed
  BY DEF IInv, UeInv
<1> QED
  BY <1>1, InductiveInvariant, PTL

(* The unchecked uses of MmContext.registrationRequest never find it null:     *)
(* neither Registration Reject nor Security Mode Command ends the NAS task    *)
(* for want of a request, whatever the network sends.                        *)
THEOREM RequestNeverMissing == Spec => []RequestStoredWhenUsed
<1>1. IInv => RequestStoredWhenUsed
  BY DEF IInv
<1> QED
  BY <1>1, InductiveInvariant, PTL

(* A UE the network knows or that is RM_REGISTERED is connected and holds its *)
(* registration request.                                                    *)
THEOREM RegisteredAnchored == Spec => []RegisteredIsAnchored
<1>1. IInv => RegisteredIsAnchored
  BY DEF IInv, AnchorInv, Anchored, RegisteredIsAnchored
<1> QED
  BY <1>1, InductiveInvariant, PTL
=============================================================================
