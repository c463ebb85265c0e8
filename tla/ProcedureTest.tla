----------------------------- MODULE ProcedureTest -----------------------------
(***************************************************************************)
(* What the procedure tester promises to the UEs under test, whatever the  *)
(* threads, queues and associations between them do: the tests start with  *)
(* all UEs connected and at once, only one test is ever started, and every *)
(* UE gets the commands of that test in their order.                       *)
(***************************************************************************)
EXTENDS Naturals, Sequences

CONSTANTS
    Ues,
    Tests,
    SecondCommand,   \* the second command of a test that has one
    NONE             \* no test

VARIABLES
    connected,       \* the UEs that are connected
    test,            \* the test that was started
    given            \* the commands that each UE was given

vars == <<connected, test, given>>

Init ==
    /\ connected = {}
    /\ test = NONE
    /\ given = [u \in Ues |-> <<>>]

Connect(u) ==
    /\ connected' = connected \cup {u}
    /\ UNCHANGED <<test, given>>

\* All UEs start at once.
Start(t) ==
    /\ connected = Ues /\ test = NONE
    /\ test' = t
    /\ given' = [u \in Ues |-> <<"InitialRegistration">>]
    /\ UNCHANGED connected

Give(u, command) ==
    /\ given' = [given EXCEPT ![u] = Append(@, command)]
    /\ UNCHANGED <<connected, test>>

\* A UE goes on by itself, once.
Proceed(u) ==
    /\ test \in DOMAIN SecondCommand /\ Len(given[u]) = 1
    /\ Give(u, SecondCommand[test])

\* The sessions of a UE are pinged, as often as there are some.
Ping(u) ==
    /\ test = "pduSessionEstablishment" /\ Len(given[u]) >= 2
    /\ Give(u, "Ping")

Next ==
    \/ \E t \in Tests : Start(t)
    \/ \E u \in Ues : Connect(u) \/ Proceed(u) \/ Ping(u)

Spec == Init /\ [][Next]_vars
=============================================================================
