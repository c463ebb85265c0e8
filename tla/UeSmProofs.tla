----------------------------- MODULE UeSmProofs -----------------------------
(***************************************************************************)
(* Session management for tables of any size with at least as many PTIs as *)
(* PSIs (15 and 254 in the code).                                          *)
(***************************************************************************)
EXTENDS UeSm, TLAPS

USE IdsAssumption, BoundsAssumption, NoneAssumption

(* The first n PSIs and the first n PTIs are taken, by the same requests.    *)
Filled(n) ==
    /\ \A i \in Psis : pduSessions[i] # NONE <=> i <= n
    /\ \A i \in Ptis : procedureTransactions[i] # NONE <=> i <= n
    /\ \A r \in requests : r.psi = r.pti /\ r.psi <= n

(* Slot 0 is never taken; a session is what the network grants it. *)
SlotsInv ==
    /\ pduSessions[0] = NONE
    /\ \A i \in Psis : pduSessions[i] \in {NONE, Requested, Established(granted[i])}

(* Every reference in the application's queue is to an established session,  *)
(* and so is the connection, to an IPv4 one.                                 *)
AppInv ==
    /\ \A k \in 1..Len(appQueue) :
          pduSessions[appQueue[k]] = Established(granted[appQueue[k]])
    /\ connectionInfo # NONE =>
          LET i == connectionInfo.pduSessionId
          IN  /\ pduSessions[i] = Established(granted[i])
              /\ granted[i] = [ipv4 |-> TRUE, address |-> connectionInfo.pduAddress]

(* The inductive invariant. *)
IInv ==
    /\ TypeOK
    /\ \E n \in 0..MaxPsi : Filled(n)
    /\ SlotsInv
    /\ AppInv
    /\ T3580RunsForARequest

-----------------------------------------------------------------------------
(* The least of an interval is its lower end. *)
LEMMA FirstOfInterval ==
    ASSUME NEW a \in Nat, NEW b \in Nat, a <= b
    PROVE  First(a..b) = a
<1>1. a \in a..b /\ \A j \in a..b : a <= j
    OBVIOUS
<1>2. \A i \in a..b : (\A j \in a..b : i <= j) => i = a
    OBVIOUS
<1> QED
    BY <1>1, <1>2 DEF First

(* With n requests sent, the free slots are those above n. *)
LEMMA FreeSlots ==
    ASSUME NEW n \in 0..MaxPsi, Filled(n)
    PROVE  /\ Free(pduSessions, Psis) = (n + 1)..MaxPsi
           /\ Free(procedureTransactions, Ptis) = (n + 1)..MaxPti
BY DEF Free, Filled, Psis, Ptis

LEMMA InitIInv == Init => IInv
<1> SUFFICES ASSUME Init PROVE IInv
    OBVIOUS
<1>1. TypeOK
  <2>1. pduSessions \in [0..MaxPsi -> Sessions \cup {NONE, RELEASED}]
      BY DEF Init
  <2>2. procedureTransactions \in [0..MaxPti -> {NONE, RELEASED, PENDING}]
      BY DEF Init
  <2>3. appQueue \in Seq(Psis)
      BY DEF Init
  <2>4. connectionInfo = NONE /\ t3580 = FALSE /\ granted \in [Psis -> Grants]
      BY DEF Init
  <2>5. reported = {} /\ requests = {} /\ accepted = {} /\ rejected = {}
      BY DEF Init
  <2> QED
      BY <2>1, <2>2, <2>3, <2>4, <2>5 DEF TypeOK
<1>2. Filled(0) /\ 0 \in 0..MaxPsi
    BY DEF Init, Filled, Psis, Ptis
<1>3. SlotsInv /\ AppInv /\ T3580RunsForARequest
    BY DEF Init, SlotsInv, AppInv, T3580RunsForARequest, Psis
<1> QED
    BY <1>1, <1>2, <1>3 DEF IInv

(* What a request does: it takes the next PSI and the same PTI, or nothing.  *)
LEMMA RequestTakesNext ==
    ASSUME TypeOK, NEW n \in 0..MaxPsi, Filled(n), sendEstablishmentRequest
    PROVE  /\ n + 1 \in Psis /\ n + 1 \in Ptis
           /\ pduSessions' = [pduSessions EXCEPT ![n + 1] = Requested]
           /\ procedureTransactions' = [procedureTransactions EXCEPT ![n + 1] = PENDING]
           /\ t3580' = TRUE
           /\ requests' = requests \cup {[psi |-> n + 1, pti |-> n + 1]}
           /\ UNCHANGED <<appQueue, appVars, accepted, rejected, granted>>
<1>1. Free(pduSessions, Psis) = (n + 1)..MaxPsi /\ Free(procedureTransactions, Ptis) = (n + 1)..MaxPti
    BY FreeSlots
<1>2. (n + 1)..MaxPsi # {}
    BY <1>1 DEF sendEstablishmentRequest
<1>3. n + 1 <= MaxPsi /\ n + 1 <= MaxPti /\ (n + 1)..MaxPti # {}
    BY <1>2
<1>4. First((n + 1)..MaxPsi) = n + 1 /\ First((n + 1)..MaxPti) = n + 1
    BY <1>3, FirstOfInterval
<1>5. n + 1 \in Psis /\ n + 1 \in Ptis
    BY <1>3 DEF Psis, Ptis
<1> QED
    BY <1>1, <1>3, <1>4, <1>5 DEF sendEstablishmentRequest

LEMMA RequestIInv == ASSUME IInv, sendEstablishmentRequest PROVE IInv'
<1>1. PICK n \in 0..MaxPsi : Filled(n)
    BY DEF IInv
<1> DEFINE r == [psi |-> n + 1, pti |-> n + 1]
<1>2. /\ n + 1 \in Psis /\ n + 1 \in Ptis
      /\ pduSessions' = [pduSessions EXCEPT ![n + 1] = Requested]
      /\ procedureTransactions' = [procedureTransactions EXCEPT ![n + 1] = PENDING]
      /\ t3580' = TRUE
      /\ requests' = requests \cup {r}
      /\ UNCHANGED <<appQueue, appVars, accepted, rejected, granted>>
    BY <1>1, RequestTakesNext DEF IInv
<1>3. TypeOK'
    BY <1>2 DEF IInv, TypeOK, appVars, Sessions, Psis, Ptis
<1>4. Filled(n + 1)' /\ n + 1 \in 0..MaxPsi
  <2>1. \A i \in Psis : pduSessions'[i] # NONE <=> i <= n + 1
      BY <1>1, <1>2 DEF IInv, TypeOK, Filled, Psis, Sessions
  <2>2. \A i \in Ptis : procedureTransactions'[i] # NONE <=> i <= n + 1
      BY <1>1, <1>2 DEF IInv, TypeOK, Filled, Ptis
  <2>3. \A s \in requests' : s.psi = s.pti /\ s.psi <= n + 1
    <3>1. \A s \in requests : s.psi = s.pti /\ s.psi <= n /\ s.psi \in Nat
        BY <1>1 DEF IInv, TypeOK, Filled, Psis
    <3> QED
        BY <1>2, <3>1
  <2> QED
      BY <1>2, <2>1, <2>2, <2>3 DEF Filled, Psis
<1>5. SlotsInv'
    BY <1>2 DEF IInv, TypeOK, SlotsInv, Psis
<1>6. pduSessions[n + 1] = NONE
    BY <1>1, <1>2 DEF Filled, Psis
<1>7. AppInv'
  <2>1. \A k \in 1..Len(appQueue) : appQueue[k] \in Psis
      BY DEF IInv, TypeOK
  <2>2. \A i \in Psis : pduSessions[i] = Established(granted[i]) => i # n + 1
      BY <1>6 DEF IInv, TypeOK, Sessions
  <2>3. \A i \in Psis : pduSessions[i] = Established(granted[i]) => pduSessions'[i] = Established(granted[i])
      BY <1>2, <2>2 DEF IInv, TypeOK
  <2>4. connectionInfo # NONE => connectionInfo.pduSessionId \in Psis
      BY DEF IInv, TypeOK
  <2> QED
      BY <1>2, <2>1, <2>3, <2>4 DEF IInv, AppInv, appVars
<1>8. T3580RunsForARequest'
  <2>1. \A s \in requests : s.psi # n + 1
      BY <1>1 DEF IInv, TypeOK, Filled, Psis
  <2>2. r \notin accepted /\ r \in requests'
      BY <1>2, <2>1 DEF IInv, TypeOK
  <2> QED
      BY <1>2, <2>2 DEF T3580RunsForARequest
<1> QED
    BY <1>3, <1>4, <1>5, <1>7, <1>8 DEF IInv

LEMMA AcceptIInv == ASSUME IInv, NEW r \in requests, receiveEstablishmentAccept(r) PROVE IInv'
<1>1. PICK n \in 0..MaxPsi : Filled(n)
    BY DEF IInv
<1>2. /\ r.psi \in Psis /\ r.pti \in Ptis /\ r.pti = r.psi /\ r.psi <= n
      /\ granted[r.psi] \in Grants
    BY <1>1 DEF IInv, TypeOK, Filled
<1>3. /\ pduSessions' = [pduSessions EXCEPT ![r.psi] = Established(granted[r.psi])]
      /\ procedureTransactions' = [procedureTransactions EXCEPT ![r.pti] = RELEASED]
      /\ t3580' = FALSE
      /\ appQueue' = Append(appQueue, r.psi)
      /\ accepted' = accepted \cup {r}
      /\ UNCHANGED <<appVars, requests, rejected, granted>>
    BY DEF receiveEstablishmentAccept, releaseProcedureTransactionId
<1>4. Established(granted[r.psi]) \in Sessions
    BY <1>2 DEF Sessions
<1>5. TypeOK'
  <2>1. pduSessions' \in [0..MaxPsi -> Sessions \cup {NONE, RELEASED}]
      BY <1>3, <1>4 DEF IInv, TypeOK
  <2>2. procedureTransactions' \in [0..MaxPti -> {NONE, RELEASED, PENDING}]
      BY <1>3 DEF IInv, TypeOK
  <2>3. appQueue' \in Seq(Psis)
      BY <1>2, <1>3 DEF IInv, TypeOK
  <2>4. accepted' \subseteq requests'
      BY <1>3 DEF IInv, TypeOK
  <2> QED
      BY <1>3, <2>1, <2>2, <2>3, <2>4 DEF IInv, TypeOK, appVars
<1>6. Filled(n)'
    BY <1>1, <1>2, <1>3, <1>4 DEF IInv, TypeOK, Filled, Psis, Ptis
<1>7. SlotsInv'
    BY <1>2, <1>3 DEF IInv, TypeOK, SlotsInv, Psis
<1>8. \A i \in Psis : pduSessions[i] = Established(granted[i]) => pduSessions'[i] = Established(granted[i])
    BY <1>3 DEF IInv, TypeOK
<1>9. pduSessions'[r.psi] = Established(granted[r.psi])
    BY <1>2, <1>3 DEF IInv, TypeOK, Psis
<1>10. AppInv'
  <2>1. \A k \in 1..Len(appQueue') :
            \/ k \in 1..Len(appQueue) /\ appQueue'[k] = appQueue[k]
            \/ appQueue'[k] = r.psi
      BY <1>3 DEF IInv, TypeOK
  <2>2. \A k \in 1..Len(appQueue) : appQueue[k] \in Psis
      BY DEF IInv, TypeOK
  <2>3. connectionInfo # NONE => connectionInfo.pduSessionId \in Psis
      BY DEF IInv, TypeOK
  <2> QED
      BY <1>3, <1>8, <1>9, <2>1, <2>2, <2>3 DEF IInv, AppInv, appVars
<1>11. T3580RunsForARequest'
    BY <1>3 DEF T3580RunsForARequest
<1> QED
    BY <1>1, <1>5, <1>6, <1>7, <1>10, <1>11 DEF IInv

LEMMA SetupIInv == ASSUME IInv, connectionSetup PROVE IInv'
<1> DEFINE psi == Head(appQueue)
           grant == pduSessions[psi].grant
<1>1. appQueue # <<>> /\ appQueue' = Tail(appQueue) /\ UNCHANGED <<smVars, netVars>>
    BY DEF connectionSetup
<1>2. psi \in Psis /\ pduSessions[psi] = Established(granted[psi])
  <2>1. appQueue \in Seq(Psis)
      BY Zenon DEF IInv, TypeOK
  <2>2. 1 \in 1..Len(appQueue) /\ psi = appQueue[1] /\ psi \in Psis
      BY <1>1, <2>1
  <2>3. \A k \in 1..Len(appQueue) : pduSessions[appQueue[k]] = Established(granted[appQueue[k]])
      BY Zenon DEF IInv, AppInv
  <2> QED
      BY <2>2, <2>3, Zenon
<1>3. grant = granted[psi] /\ granted[psi] \in Grants
    BY <1>2 DEF Established, IInv, TypeOK
<1>4. \/ /\ grant.ipv4
         /\ connectionInfo' = [pduSessionId |-> psi, pduAddress |-> grant.address]
         /\ reported' = reported \cup {psi}
      \/ UNCHANGED appVars
    BY DEF connectionSetup
<1>5. grant.ipv4 => grant.address \in Addresses /\ grant = [ipv4 |-> TRUE, address |-> grant.address]
    BY <1>3 DEF Grants
<1>6. appQueue' \in Seq(Psis)
    BY <1>1 DEF IInv, TypeOK
<1>7. TypeOK'
    BY <1>1, <1>2, <1>4, <1>5, <1>6 DEF IInv, TypeOK, smVars, netVars, appVars
<1>8. SlotsInv' /\ T3580RunsForARequest' /\ \E n \in 0..MaxPsi : Filled(n)'
    BY <1>1 DEF IInv, SlotsInv, T3580RunsForARequest, Filled, smVars, netVars
<1>9. AppInv'
  <2>1. \A k \in 1..Len(appQueue') : k + 1 \in 1..Len(appQueue) /\ appQueue'[k] = appQueue[k + 1]
      BY <1>1 DEF IInv, TypeOK
  <2>2. \A k \in 1..Len(appQueue') : pduSessions'[appQueue'[k]] = Established(granted'[appQueue'[k]])
      BY <1>1, <2>1 DEF IInv, AppInv, smVars, netVars
  <2>3. CASE UNCHANGED appVars
      BY <1>1, <2>2, <2>3 DEF IInv, AppInv, smVars, netVars, appVars
  <2>4. CASE /\ grant.ipv4
             /\ connectionInfo' = [pduSessionId |-> psi, pduAddress |-> grant.address]
    <3>1. connectionInfo'.pduSessionId = psi /\ connectionInfo'.pduAddress = grant.address
        BY <2>4
    <3>2. granted[psi] = [ipv4 |-> TRUE, address |-> grant.address]
        BY <1>3, <1>5, <2>4
    <3> QED
        BY <1>1, <1>2, <2>2, <3>1, <3>2 DEF AppInv, smVars, netVars
  <2> QED
      BY <1>4, <2>3, <2>4
<1> QED
    BY <1>7, <1>8, <1>9 DEF IInv

LEMMA NextIInv == IInv /\ [Next]_vars => IInv'
<1> SUFFICES ASSUME IInv, [Next]_vars PROVE IInv'
    OBVIOUS
<1>1. ASSUME NEW r \in requests, receiveEstablishmentReject(r) PROVE IInv'
  <2>1. UNCHANGED <<smVars, appQueue, appVars, requests, accepted, granted>> /\ rejected' \subseteq requests
      BY <1>1 DEF receiveEstablishmentReject, IInv, TypeOK
  <2>2. TypeOK'
      BY <2>1 DEF IInv, TypeOK, smVars, appVars
  <2> QED
      BY <2>1, <2>2 DEF IInv, Filled, SlotsInv, AppInv, T3580RunsForARequest, smVars, appVars
<1>2. ASSUME T3580Expires PROVE IInv'
  <2>1. TypeOK'
      BY <1>2 DEF T3580Expires, IInv, TypeOK, appVars, netVars
  <2> QED
      BY <1>2, <2>1 DEF T3580Expires, IInv, Filled, SlotsInv, AppInv, T3580RunsForARequest, appVars, netVars
<1>3. ASSUME UNCHANGED vars PROVE IInv'
  <2>1. TypeOK'
      BY <1>3 DEF vars, IInv, TypeOK, smVars, appVars, netVars
  <2> QED
      BY <1>3, <2>1 DEF vars, IInv, Filled, SlotsInv, AppInv, T3580RunsForARequest, smVars, appVars, netVars
<1> QED
    BY <1>1, <1>2, <1>3, RequestIInv, AcceptIInv, SetupIInv DEF Next

LEMMA SpecIInv == Spec => []IInv
    BY InitIInv, NextIInv, PTL DEF Spec

-----------------------------------------------------------------------------
(* The fields have the types of SmContext, UeConnectionInfo and the queue.   *)
THEOREM TypeCorrect == Spec => []TypeOK
    BY SpecIInv, PTL DEF IInv

(* Requests never share a PSI or a PTI (allocatePduSessionId and             *)
(* allocateProcedureTransactionId with their sentinels).                     *)
THEOREM SharedNothing == Spec => []RequestsShareNothing
<1>1. IInv => RequestsShareNothing
  <2> SUFFICES ASSUME IInv, NEW r \in requests, NEW s \in requests, r.psi = s.psi \/ r.pti = s.pti
               PROVE  r = s
      BY DEF RequestsShareNothing
  <2>1. r.psi = r.pti /\ s.psi = s.pti
      BY DEF IInv, Filled
  <2> QED
      BY <2>1 DEF IInv, TypeOK
<1> QED
    BY <1>1, SpecIInv, PTL

(* The clean-up in sendEstablishmentRequest that stores PduSession.RELEASED  *)
(* is never taken.                                                           *)
THEOREM NeverShared == Spec => []NoSharedSession
<1>1. IInv => NoSharedSession
  <2> SUFFICES ASSUME IInv, NEW i \in 0..MaxPsi PROVE pduSessions[i] # RELEASED
      BY DEF NoSharedSession
  <2>1. CASE i = 0
      BY <2>1 DEF IInv, SlotsInv
  <2>2. CASE i # 0
    <3>1. i \in Psis
        BY <2>2 DEF Psis
    <3>2. granted[i] \in Grants
        BY <3>1 DEF IInv, TypeOK
    <3> QED
        BY <3>1, <3>2 DEF IInv, SlotsInv, Sessions
  <2> QED
      BY <2>1, <2>2
<1> QED
    BY <1>1, SpecIInv, PTL

(* T3580 runs only while a request waits to be accepted.                     *)
THEOREM TimerGuardsRequest == Spec => []T3580RunsForARequest
    BY SpecIInv, PTL DEF IInv

(* The application task's connection is an established IPv4 session with the *)
(* address the network granted it (UeAppTask.connectionSetup).               *)
THEOREM ConnectionCorrect == Spec => []ConnectionIsASession
<1>1. IInv => ConnectionIsASession
    BY DEF IInv, AppInv, ConnectionIsASession
<1> QED
    BY <1>1, SpecIInv, PTL

-----------------------------------------------------------------------------
(* Reports. *)

IPv4Sessions ==
    {i \in Psis : pduSessions[i] \in {Established(g) : g \in {h \in Grants : h.ipv4}}}

Queued == {appQueue[k] : k \in 1..Len(appQueue)}

(* What is reported is an established IPv4 session, and an established IPv4  *)
(* session that is not reported yet is on its way to the application task:   *)
(* no Accept is lost, however the Accepts of several sessions, repeated ones *)
(* and the task's handling of them are ordered.                              *)
ReportsComplete == reported \subseteq IPv4Sessions /\ IPv4Sessions \subseteq reported \cup Queued

(* A session that was established stays what it is: neither a request nor an *)
(* Accept for another one, or for itself again, changes it.                  *)
EstablishedStay ==
    \A i \in Psis : \A g \in Grants :
        pduSessions[i] = Established(g) => pduSessions'[i] = Established(g)

LEMMA GrantOfEstablished ==
    ASSUME NEW g, NEW h, Established(g) = Established(h)
    PROVE  g = h
<1>1. Established(g).grant = g /\ Established(h).grant = h
    BY DEF Established
<1> QED
    BY <1>1

LEMMA EstablishedStep == IInv /\ [Next]_vars => EstablishedStay
<1> SUFFICES ASSUME IInv, [Next]_vars, NEW i \in Psis, NEW g \in Grants,
                    pduSessions[i] = Established(g)
             PROVE  pduSessions'[i] = Established(g)
    BY DEF EstablishedStay
<1>1. CASE sendEstablishmentRequest
  <2>1. PICK n \in 0..MaxPsi : Filled(n)
      BY DEF IInv
  <2>2. n + 1 \in Psis /\ pduSessions' = [pduSessions EXCEPT ![n + 1] = Requested]
      BY <1>1, <2>1, RequestTakesNext DEF IInv
  <2>3. pduSessions[n + 1] = NONE
      BY <2>1, <2>2 DEF Filled, Psis
  <2>4. Established(g) \in Sessions
      BY DEF Sessions
  <2>5. i # n + 1
      BY <2>3, <2>4
  <2> QED
      BY <2>2, <2>5 DEF IInv, TypeOK
<1>2. ASSUME NEW r \in requests, receiveEstablishmentAccept(r)
      PROVE  pduSessions'[i] = Established(g)
  <2>1. pduSessions' = [pduSessions EXCEPT ![r.psi] = Established(granted[r.psi])]
      BY <1>2 DEF receiveEstablishmentAccept
  <2>2. Established(g) = Established(granted[i])
    <3>1. Established(g) # NONE /\ Established(g) # Requested
      <4>1. Established(g) \in Sessions
          BY DEF Sessions
      <4>2. Established(g).isEstablished /\ ~Requested.isEstablished
          BY DEF Established, Requested
      <4> QED
          BY <4>1, <4>2
    <3> QED
        BY <3>1 DEF IInv, SlotsInv
  <2> QED
      BY <2>1, <2>2 DEF IInv, TypeOK
<1>3. CASE UNCHANGED pduSessions
    BY <1>3
<1> QED
    BY <1>1, <1>2, <1>3
       DEF Next, receiveEstablishmentReject, T3580Expires, connectionSetup, vars, smVars

(* The slot of an accepted session is never given away or rewritten.         *)
THEOREM EstablishedForGood == Spec => [][EstablishedStay]_vars
    BY SpecIInv, EstablishedStep, PTL DEF Spec

LEMMA ReportsStep == IInv /\ ReportsComplete /\ [Next]_vars => ReportsComplete'
<1> SUFFICES ASSUME IInv, ReportsComplete, [Next]_vars PROVE ReportsComplete'
    OBVIOUS
<1>1. IPv4Sessions \subseteq IPv4Sessions'
  <2> SUFFICES ASSUME NEW i \in IPv4Sessions PROVE i \in IPv4Sessions'
      OBVIOUS
  <2>1. PICK g \in Grants : g.ipv4 /\ pduSessions[i] = Established(g)
      BY DEF IPv4Sessions
  <2>2. i \in Psis /\ pduSessions'[i] = Established(g)
      BY <2>1, EstablishedStep DEF EstablishedStay, IPv4Sessions
  <2> QED
      BY <2>1, <2>2 DEF IPv4Sessions
<1>2. CASE UNCHANGED <<pduSessions, appQueue, reported>>
    BY <1>2 DEF ReportsComplete, IPv4Sessions, Queued
<1>3. CASE sendEstablishmentRequest
  <2>1. PICK n \in 0..MaxPsi : Filled(n)
      BY DEF IInv
  <2>2. /\ n + 1 \in Psis /\ pduSessions' = [pduSessions EXCEPT ![n + 1] = Requested]
        /\ UNCHANGED <<appQueue, appVars>>
      BY <1>3, <2>1, RequestTakesNext DEF IInv
  <2>3. \A g : Requested # Established(g)
    <3>1. \A g : Established(g).isEstablished /\ ~Requested.isEstablished
        BY DEF Established, Requested
    <3> QED
        BY <3>1
  <2>4. IPv4Sessions' \subseteq IPv4Sessions
      BY <2>2, <2>3 DEF IPv4Sessions, IInv, TypeOK
  <2> QED
      BY <1>1, <2>2, <2>4 DEF ReportsComplete, Queued, appVars
<1>4. ASSUME NEW r \in requests, receiveEstablishmentAccept(r) PROVE ReportsComplete'
  <2>1. /\ pduSessions' = [pduSessions EXCEPT ![r.psi] = Established(granted[r.psi])]
        /\ appQueue' = Append(appQueue, r.psi) /\ UNCHANGED appVars
      BY <1>4 DEF receiveEstablishmentAccept
  <2>2. appQueue \in Seq(Psis) /\ r.psi \in Psis
      BY DEF IInv, TypeOK
  <2>3. \A k \in 1..Len(appQueue) : k \in 1..Len(appQueue') /\ appQueue'[k] = appQueue[k]
      BY <2>1, <2>2
  <2>4. Len(appQueue) + 1 \in 1..Len(appQueue') /\ appQueue'[Len(appQueue) + 1] = r.psi
      BY <2>1, <2>2
  <2>5. Queued \cup {r.psi} \subseteq Queued'
      BY <2>3, <2>4 DEF Queued
  <2>6. IPv4Sessions' \subseteq IPv4Sessions \cup {r.psi}
      BY <2>1 DEF IPv4Sessions, IInv, TypeOK
  <2> QED
      BY <1>1, <2>1, <2>5, <2>6 DEF ReportsComplete, appVars
<1>5. CASE connectionSetup
  <2> DEFINE psi == Head(appQueue)
             grant == pduSessions[psi].grant
  <2>1. appQueue # <<>> /\ appQueue' = Tail(appQueue) /\ UNCHANGED <<smVars, netVars>>
      BY <1>5 DEF connectionSetup
  <2>2. appQueue \in Seq(Psis)
      BY DEF IInv, TypeOK
  <2>3. psi \in Psis /\ pduSessions[psi] = Established(granted[psi]) /\ granted[psi] \in Grants
    <3>1. 1 \in 1..Len(appQueue) /\ psi = appQueue[1] /\ psi \in Psis
        BY <2>1, <2>2
    <3> QED
        BY <3>1 DEF IInv, TypeOK, AppInv
  <2>4. grant = granted[psi]
      BY <2>3 DEF Established
  <2>5. IF grant.ipv4 THEN reported' = reported \cup {psi} ELSE reported' = reported
      BY <1>5 DEF connectionSetup, appVars
  <2>6. Queued \subseteq Queued' \cup {psi}
    <3>1. \A k \in 1..Len(appQueue) : k = 1 \/ (k - 1 \in 1..Len(appQueue') /\ appQueue'[k - 1] = appQueue[k])
        BY <2>1, <2>2
    <3>2. appQueue[1] = psi
        BY <2>1, <2>2
    <3> QED
        BY <3>1, <3>2 DEF Queued
  <2>7. IPv4Sessions' = IPv4Sessions
      BY <2>1 DEF IPv4Sessions, smVars
  <2>8. psi \in IPv4Sessions <=> grant.ipv4
    <3>1. grant.ipv4 => psi \in IPv4Sessions
        BY <2>3, <2>4 DEF IPv4Sessions
    <3>2. psi \in IPv4Sessions => grant.ipv4
      <4> SUFFICES ASSUME psi \in IPv4Sessions PROVE grant.ipv4
          OBVIOUS
      <4>1. PICK g \in Grants : g.ipv4 /\ pduSessions[psi] = Established(g)
          BY DEF IPv4Sessions
      <4>2. g = granted[psi]
          BY <2>3, <4>1, GrantOfEstablished
      <4> QED
          BY <2>4, <4>1, <4>2
    <3> QED
        BY <3>1, <3>2
  <2> HIDE DEF psi, grant
  <2> QED
      BY <2>5, <2>6, <2>7, <2>8 DEF ReportsComplete
<1> QED
    BY <1>2, <1>3, <1>4, <1>5
       DEF Next, receiveEstablishmentReject, T3580Expires, vars, smVars, appVars

(* No session is reported without being established, and none is forgotten.  *)
THEOREM ReportsCorrect == Spec => []ReportsComplete
<1>1. Init => ReportsComplete
  <2> SUFFICES ASSUME Init PROVE ReportsComplete
      OBVIOUS
  <2>1. \A i \in Psis : pduSessions[i] = NONE
      BY DEF Init, Psis
  <2>2. \A g \in Grants : Established(g) # NONE
      BY DEF Sessions
  <2>3. IPv4Sessions = {} /\ reported = {}
      BY <2>1, <2>2 DEF Init, IPv4Sessions
  <2> QED
      BY <2>3 DEF ReportsComplete
<1> QED
    BY <1>1, ReportsStep, SpecIInv, PTL DEF Spec
=============================================================================
