-------------------------------- MODULE UeSm --------------------------------
(***************************************************************************)
(* Session management of one UE: the tables of PDU sessions and procedure  *)
(* transactions of its NAS task, T3580, and the application task that is   *)
(* told of every accepted session by a reference to it.                    *)
(*                                                                         *)
(* The network is external.  It accepts or rejects any request it has      *)
(* seen, at any time, and may repeat the answer; it answers with the       *)
(* identities of the request and grants a session one type and address.    *)
(* Commands to request a session come at any time.                         *)
(***************************************************************************)
EXTENDS Naturals, Sequences

CONSTANTS
    MaxPsi,      \* PduSession.MAX_ID, 15
    MaxPti,      \* ProcedureTransaction.MAX_ID, 254
    Addresses,   \* addresses of the IPv4 sessions
    NONE,        \* Java's null
    PENDING,     \* a procedure transaction
    RELEASED,    \* the objects PduSession.RELEASED and ProcedureTransaction.RELEASED
    MaxQueue     \* bound: answers come while the application's queue is below it

ASSUME IdsAssumption == MaxPsi \in Nat /\ MaxPti \in Nat /\ MaxPsi <= MaxPti
ASSUME BoundsAssumption == MaxQueue \in Nat

VARIABLES
    pduSessions,            \* SmContext
    procedureTransactions,  \* SmContext
    t3580,                  \* whether T3580 runs
    appQueue,               \* of the application task: references to sessions
    connectionInfo,         \* of UeAppTask
    reported,               \* history: sessions reported by the ANY_IPv4 trigger
    requests,               \* external: the requests the network has seen
    accepted, rejected,     \* external: those it has answered
    granted                 \* external: what it grants each session

smVars == <<pduSessions, procedureTransactions, t3580>>
appVars == <<connectionInfo, reported>>
netVars == <<requests, accepted, rejected, granted>>
vars == <<smVars, appQueue, appVars, netVars>>

Psis == 1..MaxPsi
Ptis == 1..MaxPti

\* What a session may be granted: an address, or a type that is not IPv4.
Grants == [ipv4 : {TRUE}, address : Addresses] \cup [ipv4 : {FALSE}, address : {NONE}]

Requested == [isEstablished |-> FALSE]
Established(g) == [isEstablished |-> TRUE, grant |-> g]
Sessions == {Requested} \cup {Established(g) : g \in Grants}

ASSUME NoneAssumption == /\ NONE \notin {PENDING, RELEASED} \cup Sessions
                         /\ RELEASED \notin {PENDING} \cup Sessions

\* The arrays have a slot 0, which is never allocated.
Init ==
    /\ pduSessions = [i \in 0..MaxPsi |-> NONE]
    /\ procedureTransactions = [i \in 0..MaxPti |-> NONE]
    /\ t3580 = FALSE
    /\ appQueue = <<>>
    /\ connectionInfo = NONE /\ reported = {}
    /\ requests = {} /\ accepted = {} /\ rejected = {}
    /\ granted \in [Psis -> Grants]

First(S) == CHOOSE i \in S : \A j \in S : i <= j

Free(table, ids) == {i \in ids : table[i] = NONE}

\* Without a free PSI the request is only logged as failed; without a free PTI
\* releasePduSession stores the shared object in the session's slot.
sendEstablishmentRequest ==
    LET psis == Free(pduSessions, Psis)
        ptis == Free(procedureTransactions, Ptis)
        psi == First(psis)
        pti == First(ptis)
    IN  /\ psis # {}
        /\ IF ptis # {}
             THEN /\ pduSessions' = [pduSessions EXCEPT ![psi] = Requested]
                  /\ procedureTransactions' = [procedureTransactions EXCEPT ![pti] = PENDING]
                  /\ t3580' = TRUE
                  /\ requests' = requests \cup {[psi |-> psi, pti |-> pti]}
             ELSE /\ pduSessions' = [pduSessions EXCEPT ![psi] = RELEASED]
                  /\ UNCHANGED <<procedureTransactions, t3580, requests>>
        /\ UNCHANGED <<appQueue, appVars, accepted, rejected, granted>>

\* Mutant: a released PTI is free again.
ReleaseFrees(pti) == [procedureTransactions EXCEPT ![pti] = NONE]

releaseProcedureTransactionId(pti) == [procedureTransactions EXCEPT ![pti] = RELEASED]

\* Mutant: T3580 is not stopped.
AcceptKeepsTimer(r) ==
    LET session == Established(granted[r.psi])
    IN  /\ Len(appQueue) < MaxQueue /\ r \notin rejected
        /\ procedureTransactions' = releaseProcedureTransactionId(r.pti)
        /\ pduSessions' = [pduSessions EXCEPT ![r.psi] = session]
        /\ appQueue' = Append(appQueue, r.psi)
        /\ accepted' = accepted \cup {r}
        /\ UNCHANGED <<t3580, appVars, requests, rejected, granted>>

\* The accepted session exists, as the network answers requests only; the bridge is
\* told too, see UserPlane.
receiveEstablishmentAccept(r) ==
    LET session == Established(granted[r.psi])
    IN  /\ Len(appQueue) < MaxQueue /\ r \notin rejected
        /\ t3580' = FALSE
        /\ procedureTransactions' = releaseProcedureTransactionId(r.pti)
        /\ pduSessions' = [pduSessions EXCEPT ![r.psi] = session]
        /\ appQueue' = Append(appQueue, r.psi)
        /\ accepted' = accepted \cup {r}
        /\ UNCHANGED <<appVars, requests, rejected, granted>>

\* Mutant: a rejected request gives its PSI back, and keeps its PTI.
RejectFreesPsi(r) ==
    /\ r \notin accepted
    /\ rejected' = rejected \cup {r}
    /\ pduSessions' = [pduSessions EXCEPT ![r.psi] = NONE]
    /\ UNCHANGED <<procedureTransactions, t3580, appQueue, appVars, requests, accepted, granted>>

\* An Establishment Reject is not handled: the PSI, the PTI and T3580 stay as they are.
receiveEstablishmentReject(r) ==
    /\ r \notin accepted
    /\ rejected' = rejected \cup {r}
    /\ UNCHANGED <<smVars, appQueue, appVars, requests, accepted, granted>>

\* The expiry stops the timer; SessionManagement.receiveTimerExpire does nothing.
T3580Expires ==
    /\ t3580
    /\ t3580' = FALSE
    /\ UNCHANGED <<pduSessions, procedureTransactions, appQueue, appVars, netVars>>

\* Mutant: the connection is taken over before its type is looked at.
SetupUnchecked ==
    LET psi == Head(appQueue)
        grant == pduSessions[psi].grant
    IN  /\ appQueue # <<>>
        /\ appQueue' = Tail(appQueue)
        /\ connectionInfo' = [pduSessionId |-> psi, pduAddress |-> grant.address]
        /\ reported' = IF grant.ipv4 THEN reported \cup {psi} ELSE reported
        /\ UNCHANGED <<smVars, netVars>>

\* Mutant: the listeners are told of the first connection only.
SetupReportsOnce ==
    LET psi == Head(appQueue)
        grant == pduSessions[psi].grant
    IN  /\ appQueue # <<>>
        /\ appQueue' = Tail(appQueue)
        /\ IF grant.ipv4
             THEN /\ connectionInfo' = [pduSessionId |-> psi, pduAddress |-> grant.address]
                  /\ reported' = IF connectionInfo = NONE THEN reported \cup {psi} ELSE reported
             ELSE UNCHANGED appVars
        /\ UNCHANGED <<smVars, netVars>>

\* The session is read when the message is handled, not when it was sent.
connectionSetup ==
    LET psi == Head(appQueue)
        grant == pduSessions[psi].grant
    IN  /\ appQueue # <<>>
        /\ appQueue' = Tail(appQueue)
        /\ IF grant.ipv4
             THEN /\ connectionInfo' = [pduSessionId |-> psi, pduAddress |-> grant.address]
                  /\ reported' = reported \cup {psi}
             ELSE UNCHANGED appVars
        /\ UNCHANGED <<smVars, netVars>>

Next ==
    \/ sendEstablishmentRequest
    \/ \E r \in requests : receiveEstablishmentAccept(r) \/ receiveEstablishmentReject(r)
    \/ T3580Expires
    \/ connectionSetup

Spec == Init /\ [][Next]_vars

\* The application task handles what is in its queue.
FairSpec == Spec /\ WF_vars(connectionSetup)

-----------------------------------------------------------------------------
TypeOK ==
    /\ pduSessions \in [0..MaxPsi -> Sessions \cup {NONE, RELEASED}]
    /\ procedureTransactions \in [0..MaxPti -> {NONE, RELEASED, PENDING}]
    /\ t3580 \in BOOLEAN
    /\ appQueue \in Seq(Psis)
    /\ connectionInfo \in [pduSessionId : Psis, pduAddress : Addresses] \cup {NONE}
    /\ reported \subseteq Psis
    /\ requests \subseteq [psi : Psis, pti : Ptis]
    /\ accepted \subseteq requests /\ rejected \subseteq requests
    /\ granted \in [Psis -> Grants]

(* No two requests the UE ever sent have a PSI or a PTI in common, however   *)
(* late or often the earlier ones are answered: an answer is never taken for *)
(* the answer to another request.                                            *)
RequestsShareNothing ==
    \A r, s \in requests : r.psi = s.psi \/ r.pti = s.pti => r = s

(* The table of sessions never holds the shared object PduSession.RELEASED,  *)
(* whose fields an Accept would overwrite for every UE of the process: a PTI *)
(* is always left when a PSI is.                                             *)
NoSharedSession == \A i \in 0..MaxPsi : pduSessions[i] # RELEASED

(* While T3580 runs, some request was not accepted yet.  The reverse does    *)
(* not hold: the requests share the timer, and any Accept stops it.          *)
T3580RunsForARequest == t3580 => requests # accepted

(* The UE's connection is an established IPv4 session and has its address,   *)
(* whatever was accepted in the meantime.                                    *)
ConnectionIsASession ==
    connectionInfo # NONE =>
        pduSessions[connectionInfo.pduSessionId] =
            Established([ipv4 |-> TRUE, address |-> connectionInfo.pduAddress])

(* Every accepted IPv4 session is reported to the listeners, which start the *)
(* pings.                                                                    *)
AcceptedIsReported ==
    \A i \in Psis :
        pduSessions[i] \in {Established(g) : g \in {h \in Grants : h.ipv4}} ~> i \in reported
=============================================================================
