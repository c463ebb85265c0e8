-------------------------- MODULE UeNasSearchProofs --------------------------
(***************************************************************************)
(* The PLMN search and the MM and RM state machines of the UE: how many    *)
(* search messages can be on their way between the NAS and MR tasks, which *)
(* state pairs MobilityManagement.cycle meets, when the two state machines *)
(* agree, and what only the network can cause.  For every set of gNBs,     *)
(* GUTIs and RANDs, every bound, both values of AUTO and any behaviour of  *)
(* the network.                                                            *)
(***************************************************************************)
EXTENDS UeNasProofs, FiniteSetTheorems

USE DEF stateVars, idVars, secVars, ueVars, linkVars, outVars, envVars

-----------------------------------------------------------------------------
(* Counting the messages of a queue *)

(* The positions MessagesIn counts are finitely many. *)
LEMMA PositionsFinite ==
    ASSUME NEW S, NEW q \in Seq(S), NEW kinds
    PROVE  /\ IsFiniteSet({i \in 1 .. Len(q) : q[i] \in kinds})
           /\ MessagesIn(q, kinds) \in Nat
<1>1. IsFiniteSet(1 .. Len(q))
  BY FS_Interval
<1>2. {i \in 1 .. Len(q) : q[i] \in kinds} \in SUBSET (1 .. Len(q))
  OBVIOUS
<1>3. IsFiniteSet({i \in 1 .. Len(q) : q[i] \in kinds})
  BY <1>1, <1>2, FS_Subset
<1> QED
  BY <1>3, FS_CardinalityType DEF MessagesIn

(* Adding a message to a queue adds one to the count of its kind. *)
LEMMA AppendCount ==
    ASSUME NEW S, NEW q \in Seq(S), NEW e \in S, NEW kinds
    PROVE  MessagesIn(Append(q, e), kinds) =
              IF e \in kinds THEN MessagesIn(q, kinds) + 1 ELSE MessagesIn(q, kinds)
<1> DEFINE P == {i \in 1 .. Len(q) : q[i] \in kinds}
           A == {i \in 1 .. Len(Append(q, e)) : Append(q, e)[i] \in kinds}
           last == Len(q) + 1
<1>1. A = IF e \in kinds THEN P \cup {last} ELSE P
  OBVIOUS
<1>2. IsFiniteSet(P)
  BY PositionsFinite
<1>5. last \notin P
  OBVIOUS
<1>3. Cardinality(P \cup {last}) = Cardinality(P) + 1
  BY <1>2, <1>5, FS_AddElement
<1>4. Cardinality(A) = IF e \in kinds THEN Cardinality(P) + 1 ELSE Cardinality(P)
  BY <1>1, <1>3
<1> QED
  BY <1>4 DEF MessagesIn

(* Taking the head off a queue takes one from the count of its kind. *)
LEMMA TailCount ==
    ASSUME NEW S, NEW q \in Seq(S), q # <<>>, NEW kinds
    PROVE  MessagesIn(Tail(q), kinds) =
              IF Head(q) \in kinds THEN MessagesIn(q, kinds) - 1 ELSE MessagesIn(q, kinds)
<1> DEFINE P == {i \in 1 .. Len(q) : q[i] \in kinds}
           T == {i \in 1 .. Len(Tail(q)) : Tail(q)[i] \in kinds}
           f == [i \in T |-> i + 1]
<1>1. Len(q) \in Nat \ {0} /\ Len(Tail(q)) = Len(q) - 1
  OBVIOUS
<1>2. \A i \in 1 .. Len(Tail(q)) : Tail(q)[i] = q[i + 1]
  OBVIOUS
<1>3. f \in Bijection(T, P \ {1})
  <2>1. \A i \in T : i \in Int /\ i + 1 \in P \ {1}
    BY <1>1, <1>2
  <2>2. \A j \in P \ {1} : j - 1 \in T /\ f[j - 1] = j
    <3>1. ASSUME NEW j \in P \ {1} PROVE j - 1 \in T
      <4>1. j \in 2 .. Len(q) /\ q[j] \in kinds
        BY <1>1
      <4>2. j - 1 \in 1 .. Len(Tail(q)) /\ (j - 1) + 1 = j
        BY <1>1, <4>1
      <4> QED
        BY <1>2, <4>1, <4>2
    <3> QED
      BY <3>1
  <2>3. f \in [T -> P \ {1}]
    BY <2>1
  <2>4. \A i, j \in T : f[i] = f[j] => i = j
    BY <2>1
  <2>5. \A j \in P \ {1} : \E i \in T : f[i] = j
    BY <2>2
  <2> QED
    BY <2>3, <2>4, <2>5 DEF Bijection, Injection, Surjection, IsInjective
<1>4. IsFiniteSet(P) /\ IsFiniteSet(T)
  <2>1. Tail(q) \in Seq(S)
    OBVIOUS
  <2> QED
    BY <2>1, PositionsFinite
<1>5. Cardinality(P \ {1}) = Cardinality(T)
  <2>1. ExistsBijection(T, P \ {1})
    BY <1>3, Zenon DEF ExistsBijection
  <2> QED
    BY <1>4, <2>1, FS_Bijection, Zenon
<1>6. 1 \in P <=> Head(q) \in kinds
  BY <1>1
<1>7. Cardinality(P \ {1}) = IF 1 \in P THEN Cardinality(P) - 1 ELSE Cardinality(P)
  BY <1>4, FS_RemoveElement
<1>8. Cardinality(T) = IF Head(q) \in kinds THEN Cardinality(P) - 1 ELSE Cardinality(P)
  BY <1>5, <1>6, <1>7
<1> QED
  BY <1>8 DEF MessagesIn

-----------------------------------------------------------------------------
(* The search messages between the tasks *)

(* What the queues of the two tasks contribute to PendingSearch. *)
Requests == MessagesIn(mrQueue, {"IwPlmnSearchRequest"})
Responses == MessagesIn(nasQueue, {"IwPlmnSearchResponse"} \X Gnbs)

(* Both contributions are natural numbers. *)
LEMMA PendingType ==
    ASSUME TypeOK
    PROVE  /\ Requests \in Nat /\ Responses \in Nat
           /\ PendingSearch = Requests + Responses /\ PendingSearch \in Nat
<1>1. /\ mrQueue \in Seq(Uplink \cup {"IwPlmnSearchRequest"})
      /\ nasQueue \in Seq(NasMessages)
  BY DEF TypeOK
<1>2. Requests \in Nat /\ Responses \in Nat
  BY <1>1, PositionsFinite DEF Requests, Responses
<1>3. PendingSearch = Requests + Responses
  BY DEF PendingSearch, Requests, Responses
<1> QED
  BY <1>2, <1>3

(* The handlers of the NAS task send nothing to the MR task, or one uplink    *)
(* message.                                                                *)
SendsUplink ==
    \/ mrQueue' = mrQueue
    \/ \E message \in Uplink : mrQueue' = Append(mrQueue, message)

(* Uplink messages are not search requests. *)
LEMMA UplinkRequests ==
    ASSUME TypeOK, SendsUplink
    PROVE  Requests' = Requests
<1>1. mrQueue \in Seq(Uplink \cup {"IwPlmnSearchRequest"})
  BY DEF TypeOK
<1>2. CASE mrQueue' = mrQueue
  BY <1>2 DEF Requests
<1>3. ASSUME NEW message \in Uplink, mrQueue' = Append(mrQueue, message)
      PROVE  Requests' = Requests
  <2>1. message \notin {"IwPlmnSearchRequest"}
    BY DEF Uplink
  <2>2. MessagesIn(Append(mrQueue, message), {"IwPlmnSearchRequest"})
            = MessagesIn(mrQueue, {"IwPlmnSearchRequest"})
    BY <1>1, <2>1, AppendCount
  <2> QED
    BY <1>3, <2>2 DEF Requests
<1> QED
  BY <1>2, <1>3 DEF SendsUplink

(* A message joining the queue of the NAS task is a response only when the MR  *)
(* task sends it.                                                          *)
LEMMA EnqueueResponses ==
    ASSUME TypeOK, NEW msg \in NasMessages, nasQueue' = Append(nasQueue, msg)
    PROVE  Responses' = IF msg[1] = "IwPlmnSearchResponse" THEN Responses + 1
                                                           ELSE Responses
<1>1. nasQueue \in Seq(NasMessages)
  BY DEF TypeOK
<1>2. msg \in {"IwPlmnSearchResponse"} \X Gnbs <=> msg[1] = "IwPlmnSearchResponse"
  BY NasMessageFields
<1> QED
  BY <1>1, <1>2, AppendCount DEF Responses

(* Handling a response takes it off the queue. *)
LEMMA DequeueResponses ==
    ASSUME TypeOK, nasQueue # <<>>, nasQueue' = Tail(nasQueue)
    PROVE  Responses' = IF Head(nasQueue)[1] = "IwPlmnSearchResponse"
                        THEN Responses - 1 ELSE Responses
<1>1. nasQueue \in Seq(NasMessages) /\ Head(nasQueue) \in NasMessages
  BY HeadElement DEF TypeOK
<1>2. Head(nasQueue) \in {"IwPlmnSearchResponse"} \X Gnbs
          <=> Head(nasQueue)[1] = "IwPlmnSearchResponse"
  BY <1>1, NasMessageFields
<1> QED
  BY <1>1, <1>2, TailCount DEF Responses

(* A step of the MR task turns a request into a response, or relays. *)
LEMMA MrStepPending ==
    ASSUME TypeOK, MrStep
    PROVE  PendingSearch' = PendingSearch
<1>1. /\ mrQueue \in Seq(Uplink \cup {"IwPlmnSearchRequest"})
      /\ mrQueue # <<>> /\ mrQueue' = Tail(mrQueue)
  BY DEF TypeOK, MrStep
<1>2. MessagesIn(Tail(mrQueue), {"IwPlmnSearchRequest"}) =
          IF Head(mrQueue) \in {"IwPlmnSearchRequest"}
          THEN MessagesIn(mrQueue, {"IwPlmnSearchRequest"}) - 1
          ELSE MessagesIn(mrQueue, {"IwPlmnSearchRequest"})
  BY <1>1, TailCount
<1>3. Requests' = IF Head(mrQueue) = "IwPlmnSearchRequest" THEN Requests - 1 ELSE Requests
  BY <1>1, <1>2 DEF Requests
<1>4. PendingSearch' = Requests' + Responses'
  BY DEF PendingSearch, Requests, Responses
<1>5. CASE relayUplink
  <2>1. Head(mrQueue) # "IwPlmnSearchRequest" /\ Responses' = Responses
    BY <1>5 DEF relayUplink, Responses
  <2> QED
    BY <1>3, <1>4, <2>1, PendingType
<1>6. CASE performPlmnSearch
  <2>1. PICK gnb \in Gnbs : nasQueue' = Append(nasQueue, <<"IwPlmnSearchResponse", gnb>>)
    BY <1>6 DEF performPlmnSearch
  <2>2. <<"IwPlmnSearchResponse", gnb>> \in NasMessages
    BY DEF NasMessages
  <2>3. Responses' = Responses + 1
    BY <2>1, <2>2, EnqueueResponses
  <2>4. Head(mrQueue) = "IwPlmnSearchRequest"
    BY <1>6 DEF performPlmnSearch
  <2> QED
    BY <1>3, <1>4, <2>3, <2>4, PendingType
<1> QED
  BY <1>5, <1>6 DEF MrStep

-----------------------------------------------------------------------------
(* The state switches of the handlers *)

(* What a downlink message or a command does to the MM and RM states. *)
SwitchesState ==
    \/ /\ UNCHANGED <<mmState, mmSubState>>
       /\ rmState' \in {rmState, "RM_DEREGISTERED"}
    \/ mmState' = "MM_REGISTERED" /\ mmSubState' = "NORMAL_SERVICE"
    \/ /\ mmState' = "MM_DEREGISTERED" /\ mmSubState' = "NA"
       /\ rmState' = "RM_DEREGISTERED"
    \/ /\ mmState' \in {"MM_REGISTERED_INITIATED", "MM_DEREGISTERED_INITIATED"}
       /\ mmSubState' = "NA"

(* The handlers start and stop timers, but none starts T3521: sendDeregistration *)
(* tests the MM state for it after having switched it.                      *)
StartsTimers == "t3521" \in running' => "t3521" \in running

(* The effect of a handler on the state machines, the MR queue and the timers. *)
HandlerEffect == SendsUplink /\ SwitchesState /\ StartsTimers

(* The commands and expiries that start a registration. *)
LEMMA SendRegistrationEffect ==
    ASSUME NEW type, sendRegistration(type)
    PROVE  HandlerEffect
BY DEF sendRegistration, sendMm, switchState, HandlerEffect, SendsUplink, SwitchesState, StartsTimers,
       IdentityTimers, Uplink

(* The de-registration command. *)
LEMMA SendDeregistrationEffect ==
    ASSUME sendDeregistration(SwitchOff), nasFault # "UnhandledMmState"
    PROVE  HandlerEffect /\ nasFault' # "UnhandledMmState"
BY DEF sendDeregistration, sendMm, throw, switchState, HandlerEffect, SendsUplink,
       SwitchesState, StartsTimers, IdentityTimers, Uplink

(* The handlers receiveMm dispatches to.  A registration reject changes the    *)
(* RM state alone, because its cause is hard-wired.                         *)
LEMMA ReceiveMmEffect ==
    ASSUME receiveMm, nasFault # "UnhandledMmState"
    PROVE  HandlerEffect /\ nasFault' # "UnhandledMmState"
<1> USE DEF HandlerEffect, SendsUplink, SwitchesState, StartsTimers, Uplink, sendMm, throw
<1>1. ASSUME NEW autn \in AutnResults, NEW rand \in Rands,
             receiveAuthenticationRequest5gAka(autn, rand)
      PROVE  HandlerEffect /\ nasFault' # "UnhandledMmState"
  BY <1>1 DEF receiveAuthenticationRequest5gAka
<1>2. ASSUME NEW kdf \in {1, 2}, NEW autn \in AutnResults, NEW macOk \in BOOLEAN,
             NEW rand \in Rands, receiveAuthenticationRequestEap(kdf, autn, macOk, rand)
      PROVE  HandlerEffect /\ nasFault' # "UnhandledMmState"
  BY <1>2 DEF receiveAuthenticationRequestEap
<1>3. ASSUME NEW abba \in BOOLEAN, NEW eap \in EapCodes,
             receiveAuthenticationResult(abba, eap)
      PROVE  HandlerEffect /\ nasFault' # "UnhandledMmState"
  BY <1>3 DEF receiveAuthenticationResult
<1>4. ASSUME NEW eap \in EapCodes, receiveAuthenticationReject(eap)
      PROVE  HandlerEffect /\ nasFault' # "UnhandledMmState"
  BY <1>4 DEF receiveAuthenticationReject
<1>5. ASSUME NEW cause \in MmCauses, NEW eap \in EapCodes, NEW t3346 \in BOOLEAN,
             receiveRegistrationReject(cause, eap, t3346)
      PROVE  HandlerEffect /\ nasFault' # "UnhandledMmState"
  BY <1>5 DEF receiveRegistrationReject, rejectCause, RejectedState, PlmnSearchCauses,
              LimitedServiceCauses, switchState
<1>6. ASSUME NEW identityType \in {"SUCI", "IMEI", "OTHER"},
             receiveIdentityRequest(identityType)
      PROVE  HandlerEffect /\ nasFault' # "UnhandledMmState"
  BY <1>6 DEF receiveIdentityRequest
<1>7. ASSUME NEW guti \in Gutis \cup {NONE}, NEW t3512 \in BOOLEAN,
             receiveRegistrationAccept(guti, t3512)
      PROVE  HandlerEffect /\ nasFault' # "UnhandledMmState"
  BY <1>7 DEF receiveRegistrationAccept, switchState
<1>8. ASSUME NEW eap \in EapCodes, receiveService(eap)
      PROVE  HandlerEffect /\ nasFault' # "UnhandledMmState"
  BY <1>8 DEF receiveService
<1>9. ASSUME NEW guti \in Gutis \cup {NONE}, NEW ack \in BOOLEAN,
             receiveConfigurationUpdate(guti, ack)
      PROVE  HandlerEffect /\ nasFault' # "UnhandledMmState"
  BY <1>9 DEF receiveConfigurationUpdate
<1>10. ASSUME receiveDeregistrationAccept
       PROVE  HandlerEffect /\ nasFault' # "UnhandledMmState"
  BY <1>10 DEF receiveDeregistrationAccept, switchState
<1>11. ASSUME NEW required \in BOOLEAN, receiveDeregistrationRequest(required)
       PROVE  HandlerEffect /\ nasFault' # "UnhandledMmState"
  BY <1>11 DEF receiveDeregistrationRequest, switchState
<1>12. ASSUME receiveNoEffect
       PROVE  HandlerEffect /\ nasFault' # "UnhandledMmState"
  BY <1>12 DEF receiveNoEffect
<1> QED
  BY <1>1, <1>2, <1>3, <1>4, <1>5, <1>6, <1>7, <1>8, <1>9, <1>10, <1>11, <1>12
     DEF receiveMm

(* The handlers of Security Mode Command. *)
LEMMA ReceiveSmcEffect ==
    ASSUME receiveSmc, nasFault # "UnhandledMmState"
    PROVE  HandlerEffect /\ nasFault' # "UnhandledMmState"
BY DEF receiveSmc, rejectSecurityMode, warnSecurityModeEap, receiveSecurityModeCommand,
       HandlerEffect, SendsUplink, SwitchesState, StartsTimers, Uplink, sendMm, throw

(* Whatever message the NAS task handles, other than a search response. *)
LEMMA HandleEffect ==
    ASSUME IInv, NEW m \in NasMessages, Handle(m[1], m[2]),
           m[1] # "IwPlmnSearchResponse", nasFault = NONE
    PROVE  HandlerEffect /\ nasFault' # "UnhandledMmState" /\ UNCHANGED connectedGnb
<1>0. nasFault # "UnhandledMmState"
  BY NoneAssumption DEF Faults
<1>1. CASE receiveNoEffect /\ UNCHANGED connectedGnb
  BY <1>0, <1>1 DEF receiveNoEffect, HandlerEffect, SendsUplink, SwitchesState, StartsTimers
<1>2. ASSUME NEW type, sendRegistration(type), UNCHANGED connectedGnb
      PROVE  HandlerEffect /\ nasFault' # "UnhandledMmState" /\ UNCHANGED connectedGnb
  <2>1. nasFault' = nasFault
    BY <1>2 DEF sendRegistration
  <2> QED
    BY <1>0, <1>2, <2>1, SendRegistrationEffect
<1>3. CASE m[1] = "IwDownlinkNas" /\ receiveNas /\ UNCHANGED connectedGnb
  <2>1. CASE throw("DecryptWithoutContext") /\ UNCHANGED <<ueVars, outVars>>
    BY <1>3, <2>1 DEF throw, HandlerEffect, SendsUplink, SwitchesState, StartsTimers
  <2>2. CASE UNCHANGED <<ueVars, outVars, nasFault>>
    BY <1>0, <1>3, <2>2 DEF HandlerEffect, SendsUplink, SwitchesState, StartsTimers
  <2>3. CASE receiveMm
    BY <1>0, <1>3, <2>3, ReceiveMmEffect
  <2>4. CASE receiveSmc
    BY <1>0, <1>3, <2>4, ReceiveSmcEffect
  <2> QED
    BY <1>3, <2>1, <2>2, <2>3, <2>4 DEF receiveNas
<1>4. CASE m[1] = "IwNasTimerExpire" /\ receiveTimerExpire(m[2]) /\ UNCHANGED connectedGnb
  BY <1>1, <1>2, <1>4 DEF receiveTimerExpire
<1>5. CASE m[1] = "IwUeTestCommand" /\ executeCommand(m[2]) /\ UNCHANGED connectedGnb
  <2>1. m[2] \in Commands
    BY <1>5, NasMessageFields
  <2>2. \/ \E type : sendRegistration(type)
        \/ sendDeregistration(SwitchOff)
    BY <1>5, <2>1 DEF executeCommand, Commands
  <2> QED
    BY <1>0, <1>2, <1>5, <2>2, SendDeregistrationEffect
<1> QED
  BY <1>1, <1>3, <1>4, <1>5 DEF Handle

-----------------------------------------------------------------------------
(* The invariants *)

(* The UE is connected only after it left PLMN_SEARCH for good, and each       *)
(* elapsed search interval leaves at most one message on its way: once the    *)
(* first response was handled, fewer than MaxSearch are left.               *)
SearchInv ==
    /\ connectedGnb # NONE => mmState # "MM_NULL" /\ ~Searching
    /\ PendingSearch =< MaxSearch
    /\ lastPlmnSearchTrigger = "due" \/ connectedGnb # NONE
          => PendingSearch < MaxSearch

(* The state pairs the UE reaches: MM_NULL without a sub-state, and the pairs  *)
(* cycle has a branch for.                                                  *)
StateInv ==
    /\ <<mmState, mmSubState>> \in CycleStates \cup {<<"MM_NULL", "NA">>}
    /\ CycleHandlesEveryState

(* The inductive invariant of this module, on top of that of UeNasProofs. *)
SearchIInv == SearchInv /\ StateInv /\ RegisteredStatesAgree

(* The initial state satisfies the invariant. *)
LEMMA SearchInit == Init => SearchIInv
<1> SUFFICES ASSUME Init PROVE SearchIInv
  OBVIOUS
<1>1. PendingSearch = 0
  <2>1. \A kinds : MessagesIn(<<>>, kinds) = 0
    <3>1. \A kinds : {i \in 1 .. Len(<<>>) : <<>>[i] \in kinds} = {}
      OBVIOUS
    <3> QED
      BY <3>1, FS_EmptySet DEF MessagesIn
  <2> QED
    BY <2>1 DEF Init, PendingSearch
<1>2. SearchInv
  BY <1>1, BoundsAssumption DEF Init, SearchInv
<1>3. StateInv
  BY NoneAssumption DEF Init, StateInv, CycleHandlesEveryState, Faults
<1>4. RegisteredStatesAgree
  BY DEF Init, RegisteredStatesAgree
<1> QED
  BY <1>2, <1>3, <1>4 DEF SearchIInv

(* A handler's state switches preserve the invariant, while the number of     *)
(* search messages does not grow.                                          *)
LEMMA SwitchesInv ==
    ASSUME IInv, SearchIInv, SwitchesState, nasFault' # "UnhandledMmState",
           PendingSearch' =< PendingSearch, PendingSearch' \in Nat,
           UNCHANGED <<connectedGnb, lastPlmnSearchTrigger>>
    PROVE  SearchIInv'
<1>1. PendingSearch \in Nat /\ MaxSearch \in Nat
  BY PendingType, BoundsAssumption DEF IInv
<1>2. SearchInv'
  BY <1>1 DEF SearchIInv, SearchInv, SwitchesState, Searching
<1>3. StateInv'
  BY DEF SearchIInv, StateInv, SwitchesState, CycleHandlesEveryState, CycleStates,
         MmSubStates
<1>4. RegisteredStatesAgree'
  BY DEF SearchIInv, RegisteredStatesAgree, SwitchesState
<1> QED
  BY <1>2, <1>3, <1>4 DEF SearchIInv

(* One iteration of cycle: only the search sends a request, and none is due     *)
(* when MaxSearch are on their way.                                         *)
LEMMA CycleSearchInv == IInv /\ IInv' /\ SearchIInv /\ Cycle => SearchIInv'
<1> SUFFICES ASSUME IInv, IInv', SearchIInv, Cycle PROVE SearchIInv'
  OBVIOUS
<1>1. /\ nasFault = NONE /\ nasFault # "UnhandledMmState"
      /\ UNCHANGED <<connectedGnb, nasQueue>>
  BY NoneAssumption DEF Cycle, Faults
<1>2. Responses' = Responses
  BY <1>1 DEF Responses
<1>3. /\ Requests \in Nat /\ Responses \in Nat /\ MaxSearch \in Nat
      /\ PendingSearch = Requests + Responses
      /\ PendingSearch' = Requests' + Responses'
  BY PendingType, BoundsAssumption DEF IInv, PendingSearch, Requests, Responses
<1>4. ASSUME UNCHANGED <<mrQueue, lastPlmnSearchTrigger>>
      PROVE  PendingSearch' = PendingSearch
  BY <1>2, <1>3, <1>4 DEF Requests
<1>5. CASE cycleNull
  <2>1. /\ PendingSearch' = PendingSearch
        /\ mmState = "MM_NULL" /\ UNCHANGED <<rmState, lastPlmnSearchTrigger, nasFault>>
        /\ mmState' = "MM_DEREGISTERED" /\ mmSubState' = "PLMN_SEARCH"
    BY <1>4, <1>5 DEF cycleNull, switchState
  <2>2. connectedGnb = NONE /\ rmState # "RM_REGISTERED"
    BY <2>1 DEF SearchIInv, SearchInv, IInv, AnchorInv, Anchored
  <2>3. SearchInv'
    BY <1>1, <2>1, <2>2 DEF SearchIInv, SearchInv
  <2>4. StateInv' /\ RegisteredStatesAgree'
    BY <1>1, <2>1, <2>2 DEF StateInv, CycleHandlesEveryState, CycleStates,
                            RegisteredStatesAgree
  <2> QED
    BY <2>3, <2>4 DEF SearchIInv
<1>6. CASE cycleSearch
  <2>1. /\ Searching /\ lastPlmnSearchTrigger' = "recent"
        /\ UNCHANGED <<mmState, mmSubState, rmState, nasFault>>
        /\ mrQueue' = IF lastPlmnSearchTrigger = "due"
                      THEN Append(mrQueue, "IwPlmnSearchRequest") ELSE mrQueue
    BY <1>6 DEF cycleSearch
  <2>2. connectedGnb = NONE
    BY <2>1 DEF SearchIInv, SearchInv
  <2>3. CASE lastPlmnSearchTrigger = "due"
    <3>1. mrQueue \in Seq(Uplink \cup {"IwPlmnSearchRequest"})
      BY DEF IInv, TypeOK
    <3>2. Requests' = Requests + 1
      BY <2>1, <2>3, <3>1, AppendCount DEF Requests
    <3>3. PendingSearch' =< MaxSearch
      BY <1>2, <1>3, <2>3, <3>2 DEF SearchIInv, SearchInv
    <3> QED
      BY <1>1, <2>1, <2>2, <3>3
         DEF SearchIInv, SearchInv, StateInv, CycleHandlesEveryState, RegisteredStatesAgree
  <2>4. CASE lastPlmnSearchTrigger # "due"
    <3>1. PendingSearch' = PendingSearch
      BY <1>2, <1>3, <2>1, <2>4 DEF Requests
    <3> QED
      BY <1>1, <2>1, <2>2, <3>1
         DEF SearchIInv, SearchInv, StateInv, CycleHandlesEveryState, RegisteredStatesAgree
  <2> QED
    BY <2>3, <2>4
<1>7. CASE cycleRegister
  <2>1. /\ HandlerEffect /\ nasFault' = nasFault /\ UNCHANGED lastPlmnSearchTrigger
    BY <1>7, SendRegistrationEffect DEF cycleRegister, sendRegistration
  <2>2. PendingSearch' = PendingSearch /\ PendingSearch' \in Nat
    BY <1>2, <1>3, <2>1, UplinkRequests DEF HandlerEffect, IInv
  <2> QED
    BY <1>1, <1>3, <2>1, <2>2, SwitchesInv DEF HandlerEffect
<1>8. CASE cycleIdle
  <2>1. /\ PendingSearch' = PendingSearch
        /\ UNCHANGED <<mmState, mmSubState, rmState, lastPlmnSearchTrigger>>
        /\ mmState # "MM_NULL"
        /\ nasFault' = IF AUTO /\ <<mmState, mmSubState>> \notin CycleStates
                       THEN "UnhandledMmState" ELSE NONE
    BY <1>4, <1>8 DEF cycleIdle
  <2>2. nasFault' # "UnhandledMmState"
    BY <1>1, <2>1 DEF SearchIInv, StateInv
  <2> QED
    BY <1>1, <1>3, <2>1, <2>2, SwitchesInv DEF SwitchesState
<1> QED
  BY <1>5, <1>6, <1>7, <1>8 DEF Cycle

(* Handling one message.  A search response that reaches a UE which is already *)
(* connected is a late one: with one search on its way there is none.         *)
LEMMA ReceiveSearchInv == IInv /\ SearchIInv /\ Receive => SearchIInv'
<1> SUFFICES ASSUME IInv, SearchIInv, Receive PROVE SearchIInv'
  OBVIOUS
<1> DEFINE m == Head(nasQueue)
<1>1. /\ nasFault = NONE /\ nasQueue # <<>> /\ nasQueue' = Tail(nasQueue)
      /\ Handle(m[1], m[2]) /\ UNCHANGED lastPlmnSearchTrigger
  BY DEF Receive
<1>2. m \in NasMessages
  BY <1>1, HeadElement DEF IInv, TypeOK
<1>3. /\ Requests \in Nat /\ Responses \in Nat /\ MaxSearch \in Nat
      /\ PendingSearch = Requests + Responses
      /\ PendingSearch' = Requests' + Responses'
  BY PendingType, BoundsAssumption DEF IInv, PendingSearch, Requests, Responses
<1>4. Responses' = IF m[1] = "IwPlmnSearchResponse" THEN Responses - 1 ELSE Responses
  BY <1>1, DequeueResponses DEF IInv
<1>5. CASE m[1] = "IwPlmnSearchResponse"
  <2>1. receivePlmnSearchResponse(m[2])
    BY <1>1, <1>5 DEF Handle
  <2>2. /\ connectedGnb' # NONE /\ UNCHANGED <<mrQueue, rmState, nasFault>>
        /\ mmState' = "MM_DEREGISTERED" /\ mmSubState' = "NORMAL_SERVICE"
    BY <1>2, <1>5, <2>1, NasMessageFields, GnbsAssumption
       DEF receivePlmnSearchResponse, switchState
  <2>3. PendingSearch' = PendingSearch - 1
    BY <1>3, <1>4, <1>5, <2>2 DEF Requests
  <2>4. PendingSearch' < MaxSearch /\ PendingSearch' =< MaxSearch
    BY <1>3, <2>3 DEF SearchIInv, SearchInv
  <2>5. SearchInv'
    BY <2>2, <2>4 DEF SearchInv, Searching
  <2>6. StateInv'
    BY <2>2 DEF SearchIInv, StateInv, CycleHandlesEveryState, CycleStates
  <2>7. RegisteredStatesAgree'
    <3>1. SUFFICES ASSUME MaxSearch = 1, rmState = "RM_REGISTERED" PROVE FALSE
      BY <2>2 DEF RegisteredStatesAgree
    <3>2. connectedGnb # NONE
      BY <3>1 DEF IInv, AnchorInv, Anchored
    <3>3. PendingSearch < 1
      BY <3>1, <3>2 DEF SearchIInv, SearchInv
    <3>4. nasQueue \in Seq(NasMessages) /\ Tail(nasQueue) \in Seq(NasMessages)
      BY <1>1 DEF IInv, TypeOK
    <3>5. Responses' \in Nat
      BY <1>1, <3>4, PositionsFinite DEF Responses
    <3> QED
      BY <1>3, <1>4, <1>5, <3>3, <3>5
  <2> QED
    BY <2>5, <2>6, <2>7 DEF SearchIInv
<1>6. CASE m[1] # "IwPlmnSearchResponse"
  <2>1. HandlerEffect /\ nasFault' # "UnhandledMmState" /\ UNCHANGED connectedGnb
    BY <1>1, <1>2, <1>6, HandleEffect
  <2>2. PendingSearch' = PendingSearch
    BY <1>3, <1>4, <1>6, <2>1, UplinkRequests DEF HandlerEffect, IInv
  <2> QED
    BY <1>1, <1>3, <2>1, <2>2, SwitchesInv DEF HandlerEffect
<1> QED
  BY <1>5, <1>6

(* Every other step leaves the state machines alone and sends no request. *)
LEMMA EnvironmentSearch ==
    ASSUME IInv, [Next]_vars, ~Cycle, ~Receive
    PROVE  /\ UNCHANGED <<mmState, mmSubState, rmState, connectedGnb, nasFault>>
           /\ running' \subseteq running
           /\ PendingSearch' = PendingSearch
           /\ lastPlmnSearchTrigger' = lastPlmnSearchTrigger \/ SearchIntervalEnds
<1>1. TypeOK /\ PendingSearch' = Requests' + Responses'
             /\ PendingSearch = Requests + Responses
  BY DEF IInv, PendingSearch, Requests, Responses
<1>2. ASSUME UNCHANGED <<mrQueue, nasQueue>> PROVE PendingSearch' = PendingSearch
  BY <1>1, <1>2 DEF Requests, Responses
<1>3. ASSUME NEW msg \in NasMessages, msg[1] # "IwPlmnSearchResponse",
             nasQueue' = Append(nasQueue, msg), UNCHANGED mrQueue
      PROVE  PendingSearch' = PendingSearch
  BY <1>1, <1>3, EnqueueResponses DEF Requests
<1>4. CASE ReceiveNothing \/ SearchIntervalEnds \/ UNCHANGED vars
  BY <1>2, <1>4 DEF ReceiveNothing, SearchIntervalEnds, vars
<1>5. CASE MrStep
  BY <1>1, <1>5, MrStepPending DEF MrStep
<1>6. ASSUME NEW timer \in Timers, Expire(timer)
      PROVE  /\ UNCHANGED <<stateVars, linkVars, nasFault>>
             /\ running' \subseteq running /\ PendingSearch' = PendingSearch
  <2>1. <<"IwNasTimerExpire", timer>> \in NasMessages
    BY DEF NasMessages
  <2> QED
    BY <1>3, <1>6, <2>1 DEF Expire
<1>7. ASSUME NEW gnb \in Gnbs, GnbBecomesReady(gnb)
      PROVE  /\ UNCHANGED <<stateVars, linkVars, nasFault>>
             /\ running' \subseteq running /\ PendingSearch' = PendingSearch
  BY <1>2, <1>7 DEF GnbBecomesReady
<1>8. CASE NetworkSends
  <2>1. PICK iw \in {"IwDownlinkNas", "IwConnectionRelease"} :
            nasQueue' = Append(nasQueue, <<iw, NONE>>)
    BY <1>8 DEF NetworkSends
  <2>2. <<iw, NONE>> \in NasMessages
    BY DEF NasMessages
  <2> QED
    BY <1>3, <1>8, <2>1, <2>2 DEF NetworkSends
<1>9. ASSUME NEW testCase \in TestCases, StartTest(testCase)
      PROVE  /\ UNCHANGED <<stateVars, linkVars, nasFault>>
             /\ running' \subseteq running /\ PendingSearch' = PendingSearch
  <2>1. <<"IwUeTestCommand", "InitialRegistration">> \in NasMessages
    BY DEF NasMessages, Commands
  <2> QED
    BY <1>3, <1>9, <2>1 DEF StartTest
<1>10. CASE ContinueTest
  <2>1. <<"IwUeTestCommand", SecondCommand[tester]>> \in NasMessages
    BY <1>10 DEF NasMessages, ContinueTest, SecondCommand, Commands
  <2> QED
    BY <1>3, <1>10, <2>1 DEF ContinueTest
<1> QED
  BY <1>4, <1>5, <1>6, <1>7, <1>8, <1>9, <1>10 DEF Next, NasStep

(* Every step preserves the invariant. *)
LEMMA SearchNext == IInv /\ IInv' /\ SearchIInv /\ [Next]_vars => SearchIInv'
<1> SUFFICES ASSUME IInv, IInv', SearchIInv, [Next]_vars PROVE SearchIInv'
  OBVIOUS
<1>1. CASE Cycle
  BY <1>1, CycleSearchInv
<1>2. CASE Receive
  BY <1>2, ReceiveSearchInv
<1>3. CASE ~Cycle /\ ~Receive
  <2>1. /\ UNCHANGED <<mmState, mmSubState, rmState, connectedGnb, nasFault>>
        /\ PendingSearch' = PendingSearch
        /\ lastPlmnSearchTrigger' = lastPlmnSearchTrigger \/ SearchIntervalEnds
    BY <1>3, EnvironmentSearch
  <2>2. SearchInv'
    BY <2>1 DEF SearchIInv, SearchInv, Searching, SearchIntervalEnds
  <2>3. StateInv' /\ RegisteredStatesAgree'
    BY <2>1 DEF SearchIInv, StateInv, CycleHandlesEveryState, RegisteredStatesAgree
  <2> QED
    BY <2>2, <2>3 DEF SearchIInv
<1> QED
  BY <1>1, <1>2, <1>3

(* The invariant holds in every reachable state. *)
LEMMA SearchInvariant == Spec => []SearchIInv
BY InductiveInvariant, SearchInit, SearchNext, PTL DEF Spec

(* A step taken outside the search adds no search message: only cycleSearch    *)
(* sends requests, and the MR task turns each into one response.             *)
LEMMA DrainStep ==
    IInv /\ [Next]_vars
        => [mmState # "MM_NULL" /\ ~Searching => PendingSearch' =< PendingSearch]_vars
<1> SUFFICES ASSUME IInv, [Next]_vars, mmState # "MM_NULL", ~Searching
             PROVE  PendingSearch' =< PendingSearch
  OBVIOUS
<1>1. /\ Requests \in Nat /\ Responses \in Nat
      /\ PendingSearch = Requests + Responses /\ PendingSearch \in Nat
      /\ PendingSearch' = Requests' + Responses'
  BY PendingType DEF IInv, PendingSearch, Requests, Responses
<1>2. CASE Cycle
  <2>1. Responses' = Responses
    BY <1>2 DEF Cycle, Responses
  <2>2. SendsUplink
    BY <1>2, SendRegistrationEffect
       DEF Cycle, cycleNull, cycleSearch, cycleRegister, cycleIdle, HandlerEffect, SendsUplink
  <2> QED
    BY <1>1, <2>1, <2>2, UplinkRequests DEF IInv
<1>3. CASE Receive
  <2> DEFINE m == Head(nasQueue)
  <2>1. /\ nasFault = NONE /\ nasQueue # <<>> /\ nasQueue' = Tail(nasQueue)
        /\ Handle(m[1], m[2]) /\ m \in NasMessages
    BY <1>3, HeadElement DEF Receive, IInv, TypeOK
  <2>2. SendsUplink
    <3>1. CASE m[1] = "IwPlmnSearchResponse"
      BY <2>1, <3>1 DEF Handle, receivePlmnSearchResponse, SendsUplink
    <3>2. CASE m[1] # "IwPlmnSearchResponse"
      BY <2>1, <3>2, HandleEffect DEF HandlerEffect
    <3> QED
      BY <3>1, <3>2
  <2>3. Responses' = Responses \/ Responses' = Responses - 1
    BY <2>1, DequeueResponses DEF IInv
  <2>4. Requests' = Requests
    BY <2>2, UplinkRequests DEF IInv
  <2> QED
    BY <1>1, <2>3, <2>4
<1>4. CASE ~Cycle /\ ~Receive
  BY <1>1, <1>4, EnvironmentSearch
<1> QED
  BY <1>2, <1>3, <1>4

-----------------------------------------------------------------------------
(* The state machine of MobilityManagement never leaves the states that cycle *)
(* has a branch for, so its "unhandled UE MM state" exception is never thrown, *)
(* whatever the network sends and however the tester's commands interleave.   *)
THEOREM CycleCoversEveryState == Spec => []CycleHandlesEveryState
<1>1. SearchIInv => CycleHandlesEveryState
  BY DEF SearchIInv, StateInv
<1> QED
  BY <1>1, SearchInvariant, PTL

(* With at most one search on its way at a time, an RM_REGISTERED UE is in     *)
(* MM_REGISTERED or in a procedure started from there.                      *)
THEOREM StatesAgree == Spec => []RegisteredStatesAgree
<1>1. SearchIInv => RegisteredStatesAgree
  BY DEF SearchIInv
<1> QED
  BY <1>1, SearchInvariant, PTL

(* No step taken outside PLMN_SEARCH adds to the search messages on their way. *)
THEOREM SearchOnlyDrains == Spec => SearchDrains
BY InductiveInvariant, DrainStep, PTL DEF Spec, SearchDrains

(* Each elapsed search interval puts at most one search message on its way,    *)
(* and the first response that was handled is no longer one of them: a        *)
(* connected UE can be disturbed by at most MaxSearch - 1 late responses.      *)
THEOREM LateResponsesBounded ==
    Spec => [](connectedGnb # NONE => PendingSearch < MaxSearch)
<1>1. SearchIInv => (connectedGnb # NONE => PendingSearch < MaxSearch)
  BY DEF SearchIInv, SearchInv
<1> QED
  BY <1>1, SearchInvariant, PTL

(* One step never starts T3521. *)
LEMMA T3521Step ==
    ASSUME IInv, [Next]_vars, "t3521" \notin running
    PROVE  "t3521" \notin running'
<1>1. CASE Cycle
  BY <1>1, SendRegistrationEffect
     DEF Cycle, cycleNull, cycleSearch, cycleRegister, cycleIdle, HandlerEffect, StartsTimers
<1>2. CASE Receive
  <2> DEFINE m == Head(nasQueue)
  <2>1. nasFault = NONE /\ Handle(m[1], m[2]) /\ m \in NasMessages
    BY <1>2, HeadElement DEF Receive, IInv, TypeOK
  <2>2. CASE m[1] = "IwPlmnSearchResponse"
    BY <2>1, <2>2 DEF Handle, receivePlmnSearchResponse
  <2>3. CASE m[1] # "IwPlmnSearchResponse"
    BY <2>1, <2>3, HandleEffect DEF HandlerEffect, StartsTimers
  <2> QED
    BY <2>2, <2>3
<1>3. CASE ~Cycle /\ ~Receive
  BY <1>3, EnvironmentSearch
<1> QED
  BY <1>1, <1>2, <1>3

(* T3521 never runs, so no de-registration is guarded by it: what run t3521 shows *)
(* of one behaviour holds of all of them.                                      *)
THEOREM T3521NeverRuns == Spec => []("t3521" \notin running)
<1>1. Init => "t3521" \notin running
  BY DEF Init
<1>2. IInv /\ [Next]_vars /\ "t3521" \notin running => ("t3521" \notin running)'
  BY T3521Step
<1> QED
  BY <1>1, <1>2, InductiveInvariant, PTL DEF Spec

-----------------------------------------------------------------------------
(* What only the network can cause, and what needs a connected UE *)

(* An answer of the network to this UE was handled. *)
FromNetwork ==
    \/ nasFault # NONE \/ rmState = "RM_REGISTERED" \/ "RM_REGISTERED" \in triggers
    \/ mmState = "MM_REGISTERED"
    \/ currentNsCtx # NONE \/ nonCurrentNsCtx # NONE \/ storedGuti # NONE

(* The search is over, a procedure or a timer was started, or the tester was   *)
(* told of the connection.                                                 *)
Underway ==
    \/ mmState # "MM_NULL" /\ ~Searching
    \/ running # {} \/ triggers # {} \/ tester # "waiting"
    \/ registrationRequest # NONE \/ storedSuci # NONE

(* What a queued message says of the UE. *)
MessageFits(m) ==
    /\ m[1] # "IwPlmnSearchResponse" => connectedGnb # NONE
    /\ m[1] \in {"IwDownlinkNas", "IwConnectionRelease"} => gnbKnowsUe
    /\ m[1] = "IwUeTestCommand" /\ m[2] = "Deregistration" => gnbKnowsUe

(* The queue of the NAS task agrees with the contact made so far. *)
QueueFits == \A i \in 1 .. Len(nasQueue) : MessageFits(nasQueue[i])

(* Only the network can cause what FromNetwork says, and only a connected UE    *)
(* gets underway; with one search at a time it is its own gNB that knows it.  *)
ContactInv ==
    /\ FromNetwork => gnbKnowsUe
    /\ Underway => connectedGnb # NONE
    /\ QueueFits
    /\ gnbKnowsUe => gnbReady # {}
    /\ MaxSearch = 1 /\ gnbKnowsUe => connectedGnb \in gnbReady

(* The initial state satisfies the invariant. *)
LEMMA ContactInit == Init => ContactInv
  BY DEF Init, ContactInv, QueueFits, FromNetwork, Underway, Searching

(* Sending a registration request tells nothing of the network. *)
LEMMA SendRegistrationContact ==
    ASSUME NEW type, sendRegistration(type)
    PROVE  FromNetwork' => FromNetwork
BY DEF sendRegistration, switchState, FromNetwork

(* One iteration of cycle. *)
LEMMA CycleContact == IInv /\ SearchIInv /\ ContactInv /\ Cycle => ContactInv'
<1> SUFFICES ASSUME IInv, SearchIInv, ContactInv, Cycle PROVE ContactInv'
  OBVIOUS
<1>1. UNCHANGED <<connectedGnb, nasQueue, gnbReady, gnbKnowsUe, tester>>
  BY DEF Cycle
<1>2. QueueFits'
  BY <1>1 DEF ContactInv, QueueFits, MessageFits
<1>3. SUFFICES ASSUME TRUE
               PROVE  /\ FromNetwork' => FromNetwork
                      /\ Underway' => connectedGnb # NONE
  BY <1>1, <1>2, <1>3 DEF ContactInv
<1>4. CASE cycleNull
  BY <1>1, <1>4 DEF cycleNull, switchState, FromNetwork, ContactInv, Underway, Searching
<1>5. CASE cycleSearch
  BY <1>1, <1>5 DEF cycleSearch, FromNetwork, ContactInv, Underway, Searching
<1>6. CASE cycleRegister
  <2>1. connectedGnb # NONE
    BY <1>6 DEF cycleRegister, IInv, AnchorInv
  <2> QED
    BY <1>6, <2>1, SendRegistrationContact DEF cycleRegister
<1>7. CASE cycleIdle
  <2>1. nasFault' = NONE
    BY <1>7 DEF cycleIdle, SearchIInv, StateInv
  <2> QED
    BY <1>1, <1>7, <2>1 DEF cycleIdle, FromNetwork, ContactInv, Underway, Searching
<1> QED
  BY <1>4, <1>5, <1>6, <1>7 DEF Cycle

(* Handling one message. *)
LEMMA ReceiveContact == IInv /\ SearchIInv /\ ContactInv /\ Receive => ContactInv'
<1> SUFFICES ASSUME IInv, SearchIInv, ContactInv, Receive PROVE ContactInv'
  OBVIOUS
<1> DEFINE m == Head(nasQueue)
<1>1. /\ nasFault = NONE /\ nasQueue # <<>> /\ nasQueue' = Tail(nasQueue)
      /\ Handle(m[1], m[2]) /\ UNCHANGED <<gnbReady, gnbKnowsUe, tester>>
  BY DEF Receive
<1>2. m \in NasMessages /\ MessageFits(m) /\ nasQueue \in Seq(NasMessages)
  BY <1>1, HeadElement DEF IInv, TypeOK, ContactInv, QueueFits
<1>3. \A i \in 1 .. Len(nasQueue') : MessageFits(nasQueue'[i])
  BY <1>1, <1>2, TailElements DEF ContactInv, QueueFits
<1>4. CASE m[1] = "IwPlmnSearchResponse"
  <2>1. receivePlmnSearchResponse(m[2])
    BY <1>1, <1>4 DEF Handle
  <2>2. /\ connectedGnb' # NONE
        /\ UNCHANGED <<rmState, idVars, secVars, registrationRequest, running, mrQueue, nasFault>>
        /\ mmState' = "MM_DEREGISTERED" /\ triggers' = triggers \cup {"UE_MR_GNB"}
    BY <1>2, <1>4, <2>1, NasMessageFields, GnbsAssumption
       DEF receivePlmnSearchResponse, switchState
  <2>3. QueueFits'
    BY <1>1, <1>3, <2>2 DEF QueueFits, MessageFits
  <2>4. FromNetwork' => FromNetwork
    BY <2>2 DEF FromNetwork
  <2>5. ~(MaxSearch = 1 /\ gnbKnowsUe)
    <3> SUFFICES ASSUME MaxSearch = 1, gnbKnowsUe PROVE FALSE
      OBVIOUS
    <3>1. PendingSearch < 1
      BY DEF IInv, AnchorInv, Anchored, SearchIInv, SearchInv
    <3>2. Responses = Responses' + 1
      BY <1>1, <1>2, <1>4, DequeueResponses, PendingType DEF IInv
    <3>3. nasQueue' \in Seq(NasMessages)
      BY <1>1, <1>2, HeadElement
    <3>4. Responses' \in Nat
      BY <3>3, PositionsFinite DEF Responses
    <3> QED
      BY <3>1, <3>2, <3>4, PendingType DEF IInv
  <2> QED
    BY <1>1, <2>2, <2>3, <2>4, <2>5 DEF ContactInv
<1>5. CASE m[1] # "IwPlmnSearchResponse"
  <2>1. connectedGnb # NONE /\ UNCHANGED connectedGnb
    BY <1>1, <1>2, <1>5, HandleEffect DEF MessageFits
  <2>2. QueueFits'
    BY <1>1, <1>3, <2>1 DEF QueueFits, MessageFits
  <2>3. SUFFICES ASSUME ~gnbKnowsUe PROVE FromNetwork' => FromNetwork
    BY <1>1, <2>1, <2>2 DEF ContactInv
  <2>4. CASE receiveNoEffect
    BY <2>4 DEF receiveNoEffect, FromNetwork
  <2>5. CASE \E type : sendRegistration(type)
    BY <2>5, SendRegistrationContact
  <2>6. m[1] = "IwNasTimerExpire" => receiveNoEffect \/ \E type : sendRegistration(type)
    BY <1>1 DEF Handle, receiveTimerExpire
  <2>7. m[1] = "IwUeTestCommand" => \E type : sendRegistration(type)
    <3> SUFFICES ASSUME m[1] = "IwUeTestCommand" PROVE \E type : sendRegistration(type)
      OBVIOUS
    <3>1. m[2] \in {"InitialRegistration", "PeriodicRegistration"}
      BY <1>2, <2>3, NasMessageFields DEF MessageFits, Commands
    <3>2. executeCommand(m[2])
      BY <1>1 DEF Handle
    <3> QED
      BY <3>1, <3>2 DEF executeCommand
  <2>8. m[1] \notin {"IwDownlinkNas", "IwConnectionRelease"}
    BY <1>2, <2>3 DEF MessageFits
  <2> QED
    BY <1>1, <1>5, <2>4, <2>5, <2>6, <2>7, <2>8 DEF Handle
<1> QED
  BY <1>4, <1>5

(* A message that fits may join the queue. *)
LEMMA EnqueueContact ==
    ASSUME IInv, ContactInv, NEW msg \in NasMessages, nasQueue' = Append(nasQueue, msg),
           MessageFits(msg), UNCHANGED <<connectedGnb, gnbKnowsUe>>
    PROVE  QueueFits'
<1>1. nasQueue \in Seq(NasMessages)
  BY DEF IInv, TypeOK
<1>2. \A i \in 1 .. Len(nasQueue') : MessageFits(nasQueue'[i])
  BY <1>1, AppendElements DEF ContactInv, QueueFits
<1> QED
  BY <1>2 DEF QueueFits, MessageFits

(* Every step preserves the invariant. *)
LEMMA ContactNext == IInv /\ SearchIInv /\ ContactInv /\ [Next]_vars => ContactInv'
<1> SUFFICES ASSUME IInv, SearchIInv, ContactInv, [Next]_vars PROVE ContactInv'
  OBVIOUS
<1>1. ASSUME UNCHANGED <<stateVars, idVars, secVars, registrationRequest, triggers, connectedGnb,
                         gnbReady, gnbKnowsUe, nasFault>>,
             running' # {} => running # {},
             tester' = tester \/ connectedGnb # NONE,
             QueueFits'
      PROVE  ContactInv'
  BY <1>1 DEF ContactInv, FromNetwork, Underway, Searching
<1>2. ASSUME UNCHANGED <<ueVars, connectedGnb, triggers, gnbReady, gnbKnowsUe, tester, nasFault,
                         nasQueue>>
      PROVE  ContactInv'
  BY <1>2 DEF ContactInv, FromNetwork, Underway, Searching, QueueFits, MessageFits
<1>3. CASE ReceiveNothing \/ SearchIntervalEnds \/ UNCHANGED vars
  BY <1>2, <1>3 DEF ReceiveNothing, SearchIntervalEnds, vars
<1>4. CASE MrStep
  <2>1. /\ mrQueue # <<>> /\ mrQueue \in Seq(Uplink \cup {"IwPlmnSearchRequest"})
        /\ UNCHANGED <<ueVars, linkVars, triggers, gnbReady, tester, nasPc, nasFault>>
    BY <1>4 DEF MrStep, IInv, TypeOK
  <2>2. CASE relayUplink
    <3>1. Head(mrQueue) # "IwPlmnSearchRequest" /\ UNCHANGED nasQueue
          /\ gnbKnowsUe' = (gnbKnowsUe \/ connectedGnb \in gnbReady)
      BY <2>2 DEF relayUplink
    <3>2. QueueFits'
      BY <2>1, <3>1 DEF ContactInv, QueueFits, MessageFits
    <3> QED
      BY <2>1, <3>1, <3>2 DEF ContactInv, FromNetwork, Underway, Searching
  <2>3. CASE performPlmnSearch
    <3>1. PICK gnb \in Gnbs : nasQueue' = Append(nasQueue, <<"IwPlmnSearchResponse", gnb>>)
      BY <2>3 DEF performPlmnSearch
    <3>2. <<"IwPlmnSearchResponse", gnb>> \in NasMessages
      BY DEF NasMessages
    <3>3. UNCHANGED gnbKnowsUe
      BY <2>3 DEF performPlmnSearch
    <3>4. QueueFits'
      BY <2>1, <3>1, <3>2, <3>3, EnqueueContact DEF MessageFits
    <3> QED
      BY <1>1, <2>1, <3>3, <3>4
  <2> QED
    BY <1>4, <2>2, <2>3 DEF MrStep
<1>5. ASSUME NEW timer \in Timers, Expire(timer) PROVE ContactInv'
  <2>1. <<"IwNasTimerExpire", timer>> \in NasMessages
    BY DEF NasMessages
  <2>2. running # {} /\ connectedGnb # NONE
    BY <1>5 DEF Expire, ContactInv, Underway
  <2>3. QueueFits'
    BY <1>5, <2>1, <2>2, EnqueueContact DEF Expire, MessageFits
  <2> QED
    BY <1>1, <1>5, <2>2, <2>3 DEF Expire
<1>6. ASSUME NEW gnb \in Gnbs, GnbBecomesReady(gnb) PROVE ContactInv'
  <2>1. QueueFits'
    BY <1>6 DEF GnbBecomesReady, ContactInv, QueueFits, MessageFits
  <2> QED
    BY <1>6, <2>1 DEF GnbBecomesReady, ContactInv, FromNetwork, Underway, Searching
<1>7. CASE NetworkSends
  <2>1. PICK iw \in {"IwDownlinkNas", "IwConnectionRelease"} :
            nasQueue' = Append(nasQueue, <<iw, NONE>>)
    BY <1>7 DEF NetworkSends
  <2>2. <<iw, NONE>> \in NasMessages /\ gnbKnowsUe /\ connectedGnb # NONE
    BY <1>7 DEF NasMessages, NetworkSends, IInv, AnchorInv, Anchored
  <2>3. QueueFits'
    BY <1>7, <2>1, <2>2, EnqueueContact DEF NetworkSends, MessageFits
  <2> QED
    BY <1>1, <1>7, <2>3 DEF NetworkSends
<1>8. ASSUME NEW testCase \in TestCases, StartTest(testCase) PROVE ContactInv'
  <2>1. <<"IwUeTestCommand", "InitialRegistration">> \in NasMessages
    BY DEF NasMessages, Commands
  <2>2. connectedGnb # NONE
    BY <1>8 DEF StartTest, IInv, AnchorInv
  <2>3. QueueFits'
    BY <1>8, <2>1, <2>2, EnqueueContact DEF StartTest, MessageFits
  <2> QED
    BY <1>1, <1>8, <2>2, <2>3 DEF StartTest
<1>9. CASE ContinueTest
  <2>1. <<"IwUeTestCommand", SecondCommand[tester]>> \in NasMessages
    BY <1>9 DEF ContinueTest, NasMessages, SecondCommand, Commands
  <2>2. gnbKnowsUe /\ connectedGnb # NONE
    BY <1>9 DEF ContinueTest, ContactInv, FromNetwork, IInv, AnchorInv, Anchored
  <2>3. QueueFits'
    BY <1>9, <2>1, <2>2, EnqueueContact DEF ContinueTest, MessageFits
  <2> QED
    BY <1>1, <1>9, <2>2, <2>3 DEF ContinueTest
<1>10. CASE Cycle
  BY <1>10, CycleContact
<1>11. CASE Receive
  BY <1>11, ReceiveContact
<1> QED
  BY <1>3, <1>4, <1>5, <1>6, <1>7, <1>8, <1>9, <1>10, <1>11 DEF Next, NasStep

(* The invariant holds in every reachable state. *)
LEMMA ContactInvariant == Spec => []ContactInv
BY InductiveInvariant, SearchInvariant, ContactInit, ContactNext, PTL DEF Spec

(* The thread of the NAS task ends, and a UE holds a security context, a GUTI  *)
(* or the registered state, only after a ready gNB has taken an uplink message *)
(* of the UE: nothing the UE does alone, no timer and no late search response  *)
(* ends the task.                                                          *)
THEOREM OnlyNetworkEndsNasTask ==
    Spec => [](FromNetwork => gnbKnowsUe /\ gnbReady # {})
<1>1. ContactInv => (FromNetwork => gnbKnowsUe /\ gnbReady # {})
  BY DEF ContactInv
<1> QED
  BY <1>1, ContactInvariant, PTL

(* A UE without a gNB is still searching, with a NAS task that runs: nothing   *)
(* else was started, and its queue holds search responses only.             *)
UnconnectedSearches ==
    connectedGnb = NONE =>
        /\ nasFault = NONE /\ (mmState = "MM_NULL" \/ Searching)
        /\ running = {} /\ registrationRequest = NONE /\ tester = "waiting"
        /\ \A i \in 1 .. Len(nasQueue) : nasQueue[i][1] = "IwPlmnSearchResponse"
        /\ \A i \in 1 .. Len(mrQueue) : mrQueue[i] = "IwPlmnSearchRequest"

(* What SearchSucceeds needs of every state, with no fairness: whatever the    *)
(* order of the tasks' steps, a UE that has found no gNB can go on searching. *)
THEOREM SearchGoesOn == Spec => []UnconnectedSearches
<1>1. IInv /\ ContactInv => UnconnectedSearches
  BY DEF UnconnectedSearches, IInv, AnchorInv, Anchored, ContactInv, FromNetwork, Underway,
         QueueFits, MessageFits
<1> QED
  BY <1>1, InductiveInvariant, ContactInvariant, PTL

(* One step of a connected UE. *)
LEMMA ServingStep ==
    ASSUME IInv, SearchIInv, [Next]_vars, connectedGnb # NONE
    PROVE  connectedGnb' # NONE /\ (MaxSearch = 1 => UNCHANGED connectedGnb)
<1>1. CASE Receive
  <2> DEFINE m == Head(nasQueue)
  <2>1. /\ nasFault = NONE /\ nasQueue # <<>> /\ nasQueue' = Tail(nasQueue)
        /\ Handle(m[1], m[2]) /\ m \in NasMessages /\ nasQueue \in Seq(NasMessages)
    BY <1>1, HeadElement DEF Receive, IInv, TypeOK
  <2>2. CASE m[1] = "IwPlmnSearchResponse"
    <3>1. connectedGnb' # NONE
      BY <2>1, <2>2, NasMessageFields, GnbsAssumption DEF Handle, receivePlmnSearchResponse
    <3>2. PendingSearch < MaxSearch
      BY DEF SearchIInv, SearchInv
    <3>3. Responses = Responses' + 1
      BY <2>1, <2>2, DequeueResponses, PendingType DEF IInv
    <3>4. nasQueue' \in Seq(NasMessages)
      BY <2>1, HeadElement
    <3>5. Responses' \in Nat
      BY <3>4, PositionsFinite DEF Responses
    <3>6. MaxSearch # 1
      BY <3>2, <3>3, <3>5, PendingType DEF IInv
    <3> QED
      BY <3>1, <3>6
  <2>3. CASE m[1] # "IwPlmnSearchResponse"
    BY <2>1, <2>3, HandleEffect
  <2> QED
    BY <2>2, <2>3
<1>2. CASE Cycle
  BY <1>2 DEF Cycle
<1>3. CASE ~Cycle /\ ~Receive
  BY <1>3, EnvironmentSearch
<1> QED
  BY <1>1, <1>2, <1>3

(* A UE never loses its gNB; with one search on its way at a time it never     *)
(* changes it either, so that the only gNB that can know the UE is its own,    *)
(* which is ready.                                                         *)
THEOREM ServingGnbKept ==
    Spec => /\ [][connectedGnb # NONE => /\ connectedGnb' # NONE
                                        /\ (MaxSearch = 1 => UNCHANGED connectedGnb)]_vars
            /\ [](MaxSearch = 1 /\ gnbKnowsUe => connectedGnb \in gnbReady)
<1>1. IInv /\ SearchIInv /\ [Next]_vars =>
        [connectedGnb # NONE => /\ connectedGnb' # NONE
                                /\ (MaxSearch = 1 => UNCHANGED connectedGnb)]_vars
  BY ServingStep
<1>2. ContactInv => (MaxSearch = 1 /\ gnbKnowsUe => connectedGnb \in gnbReady)
  BY DEF ContactInv
<1> QED
  BY <1>1, <1>2, InductiveInvariant, SearchInvariant, ContactInvariant, PTL DEF Spec
=============================================================================
