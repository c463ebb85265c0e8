------------------------------ MODULE StartupProofs ------------------------------
(* Proofs about Startup, for every number of AMFs and UEs and all bounds.    *)
EXTENDS Startup, FiniteSetTheorems, SequenceTheorems, TLAPS

EventSet == [node : Ues \cup {"gnb"}, what : Happenings]

-----------------------------------------------------------------------------
(* Types. *)

LEMMA ReportType ==
    ASSUME NEW queue \in Seq(EventSet), NEW u \in Ues, NEW what \in Happenings \cup {NONE}
    PROVE  Report(queue, u, what) \in Seq(EventSet)
  <1>1. CASE what = NONE  BY <1>1 DEF Report
  <1>2. CASE what # NONE
    <2>1. Event(u, what) \in EventSet  BY <1>2 DEF Event, EventSet
    <2> QED  BY <1>2, <2>1 DEF Report
  <1> QED  BY <1>1, <1>2

LEMMA HappeningsContain ==
    /\ {"SCTP", "UE_MR_GNB", "RM_REGISTERED", "ANY_IPv4", "NGSetupRequest", "NGSetupResponse"}
          \subseteq Happenings
    /\ DOMAIN Reaction \subseteq Happenings
    /\ \A m \in DOMAIN Reaction : Reaction[m] \subseteq Happenings \cup {NONE}
    /\ \A c \in DOMAIN Request : Request[c] \in Happenings
  <1>1. {"SCTP", "UE_MR_GNB", "RM_REGISTERED", "ANY_IPv4", "NGSetupRequest", "NGSetupResponse"}
          \subseteq Happenings
    BY DEF Happenings, Messages, Starts, Reads
  <1>2. DOMAIN Reaction \subseteq Happenings  BY DEF Happenings, Messages
  <1>3. /\ "AuthenticationResponse" \in Happenings /\ "SecurityModeComplete" \in Happenings
        /\ "RM_REGISTERED" \in Happenings /\ "ANY_IPv4" \in Happenings
    BY DEF Happenings, Messages, Starts, Reads
  <1>4. \A m \in DOMAIN Reaction : Reaction[m] \subseteq Happenings \cup {NONE}
    BY <1>3 DEF Reaction
  <1>5. /\ "RegistrationRequest" \in Happenings /\ "DeRegistrationRequest" \in Happenings
        /\ "PduSessionEstablishmentRequest" \in Happenings
    BY DEF Happenings, Messages, Starts, Reads
  <1>6. \A c \in DOMAIN Request : Request[c] \in Happenings  BY <1>5 DEF Request
  <1> QED  BY <1>1, <1>2, <1>4, <1>6

LEMMA GivesCommands ==
    /\ {"InitialRegistration", "Ping"} \subseteq Commands
    /\ \A t \in DOMAIN SecondCommand : SecondCommand[t] \in Commands
  BY DEF Commands, Request, SecondCommand

LEMMA TimersType ==
    \A what : At(Starts, what) \subseteq Timers
  BY DEF At, Timers

LEMMA ListenerType ==
    ASSUME TypeOK, triggerQueue # <<>>, NEW next \in {"run", "prompt", "dead"},
           loadTestListener(next)
    PROVE  /\ timers' \in [Ues \cup {"gnb"} -> SUBSET Timers]
           /\ triggerPc' \in {"run", "prompt", "dead"}
  <1>1. event \in EventSet  BY HeadTailProperties DEF TypeOK, event, EventSet
  <1>2. At(Starts, event.what) \subseteq Timers  BY TimersType
  <1>3. timers[event.node] \subseteq Timers  BY <1>1 DEF TypeOK, EventSet
  <1> QED  BY <1>1, <1>2, <1>3 DEF loadTestListener, TypeOK, EventSet

LEMMA GiveType ==
    ASSUME TypeOK, NEW us \in SUBSET Ues, NEW command \in Commands, Give(us, command)
    PROVE  commands' \in [Ues -> Seq(Commands)] /\ given' \in [Ues -> Seq(Commands)]
  BY DEF Give, TypeOK


LEMMA TypeNext ==
    ASSUME TypeOK, [Next]_vars
    PROVE  TypeOK'
  <1> USE AmfsAssumption, BoundsAssumption
  <1>1. CASE createGnb
    BY <1>1 DEF createGnb, TypeOK, testerVars, linkVars, sctpVars, netVars, ueVars, triggerVars
  <1>2. CASE startWaiting
    BY <1>2 DEF startWaiting, TypeOK, testerVars, linkVars, sctpVars, netVars, ueVars, triggerVars
  <1>3. ASSUME NEW a \in Amfs, start(a) PROVE TypeOK'
    BY <1>3 DEF start, ReceiverOnly, TypeOK, testerVars, linkVars, sctpVars, netVars, ueVars,
        triggerVars
  <1>4. ASSUME NEW a \in Amfs, onSetup(a) PROVE TypeOK'
    BY <1>4 DEF onSetup, ReceiverOnly, TypeOK, testerVars, linkVars, sctpVars, netVars, ueVars,
        triggerVars
  <1>6. ASSUME NEW a \in Amfs, associationFails(a) PROVE TypeOK'
    BY <1>6 DEF associationFails, ReceiverOnly, TypeOK, testerVars, linkVars, sctpVars, netVars,
        ueVars, triggerVars
  <1>7. CASE triggerSctp
    <2>1. Event("gnb", "SCTP") \in EventSet  BY HappeningsContain DEF Event, EventSet
    <2>2. triggerQueue' \in Seq(EventSet)  BY <1>7, <2>1 DEF triggerSctp, TypeOK, EventSet
    <2> QED  BY <1>7, <2>2 DEF triggerSctp, TypeOK, EventSet, testerVars, linkVars, sctpVars,
                netVars, ueVars, triggerVars
  <1>8. CASE announceReady
    BY <1>8 DEF announceReady, TypeOK, testerVars, linkVars, sctpVars, netVars, ueVars, triggerVars
  <1>9. CASE sctpSend
    <2>1. Head(sctpQueue) \in [from : Ues \cup {"gnb"}, amf : Amfs]
      BY <1>9, HeadTailProperties DEF sctpSend, TypeOK
    <2>2. sctpQueue' \in Seq([from : Ues \cup {"gnb"}, amf : Amfs])
      BY <1>9, HeadTailProperties DEF sctpSend, TypeOK
    <2>3. ngapQueue' \in Seq(Amfs \cup {"NGSetupResponse"})
      <3>1. ngapQueue' \in {ngapQueue, Append(ngapQueue, "NGSetupResponse")}
        <4>1. CASE client[Head(sctpQueue).amf] \in {"connected", "setup", "up"}
          BY <1>9, <4>1 DEF sctpSend, AmfAnswers
        <4>2. CASE client[Head(sctpQueue).amf] \notin {"connected", "setup", "up"}
          BY <1>9, <4>2 DEF sctpSend
        <4> QED  BY <4>1, <4>2
      <3> DEFINE S == Amfs \cup {"NGSetupResponse"}
      <3>2. ngapQueue \in Seq(S) /\ "NGSetupResponse" \in S  BY DEF TypeOK
      <3> HIDE DEF S
      <3>3. Append(ngapQueue, "NGSetupResponse") \in Seq(S)  BY <3>2, AppendProperties
      <3>4. ngapQueue' \in Seq(S)  BY <3>1, <3>2, <3>3
      <3> QED  BY <3>4 DEF S
    <2>4. known' \subseteq Ues
      <3> DEFINE m == Head(sctpQueue)
      <3>1. m.from \in Ues \cup {"gnb"}  BY <2>1
      <3>2. known' = known \/ (m.from # "gnb" /\ known' = known \cup {m.from})
        BY <1>9 DEF sctpSend
      <3> HIDE DEF m
      <3> QED  BY <3>1, <3>2 DEF TypeOK
    <2>5. sctpPc' \in {"loop", "dead"}  BY <1>9 DEF sctpSend
    <2>6. /\ UNCHANGED <<mainPc, testerVars, linkVars, initialSctpReady, ueVars, commands,
                         triggerQueue, triggerVars, down, skipped>>
      BY <1>9 DEF sctpSend
    <2> QED  BY <2>2, <2>3, <2>4, <2>5, <2>6 DEF TypeOK, testerVars, linkVars, ueVars, triggerVars
  <1>10. CASE gnbAppMain
    BY <1>10 DEF gnbAppMain, TypeOK, testerVars, linkVars, sctpVars, netVars, ueVars, triggerVars
  <1>11. CASE ngapMain
    <2>1. Event("gnb", "NGSetupRequest") \in EventSet /\ Event("gnb", "NGSetupResponse") \in EventSet
      BY HappeningsContain DEF Event, EventSet
    <2>2. triggerQueue' \in Seq(EventSet)
      <3> DEFINE e == IF Head(ngapQueue) \in Amfs THEN Event("gnb", "NGSetupRequest")
                      ELSE Event("gnb", "NGSetupResponse")
      <3>1. e \in EventSet  BY <2>1
      <3>2. triggerQueue' = Append(triggerQueue, e)  BY <1>11 DEF ngapMain
      <3>3. triggerQueue \in Seq(EventSet)  BY DEF TypeOK, EventSet
      <3> HIDE DEF e
      <3> QED  BY <3>1, <3>2, <3>3
    <2>3. sctpQueue' \in Seq([from : Ues \cup {"gnb"}, amf : Amfs])
      <3>1. CASE UNCHANGED sctpQueue  BY <3>1 DEF TypeOK
      <3>2. CASE ~UNCHANGED sctpQueue
        <4> DEFINE m == [from |-> "gnb", amf |-> Head(ngapQueue)]
        <4>1. m \in [from : Ues \cup {"gnb"}, amf : Amfs]  BY <1>11, <3>2 DEF ngapMain
        <4>2. sctpQueue' = Append(sctpQueue, m)  BY <1>11, <3>2 DEF ngapMain
        <4> HIDE DEF m
        <4> QED  BY <4>1, <4>2, AppendProperties DEF TypeOK
      <3> QED  BY <3>1, <3>2
    <2>4. ngapQueue' \in Seq(Amfs \cup {"NGSetupResponse"})
      BY <1>11, HeadTailProperties DEF ngapMain, TypeOK
    <2> QED  BY <1>11, <2>2, <2>3, <2>4 DEF ngapMain, TypeOK, EventSet, testerVars, linkVars,
                netVars, ueVars, triggerVars
  <1>12. ASSUME NEW u \in Ues, attach(u) PROVE TypeOK'
    <2>1. triggerQueue' \in Seq(EventSet)
      BY <1>12, HappeningsContain, ReportType DEF attach, TypeOK, EventSet
    <2> QED  BY <1>12, <2>1 DEF attach, TypeOK, EventSet, testerVars, linkVars, sctpVars, netVars,
                triggerVars
  <1>13. ASSUME NEW u \in Ues, takeCommand(u) PROVE TypeOK'
    <2>1. commands' \in [Ues -> Seq(Commands)]
      BY <1>13, HeadTailProperties DEF takeCommand, TypeOK
    <2>2. CASE UNCHANGED <<told, triggerQueue, sctpQueue>>
      BY <1>13, <2>1, <2>2 DEF takeCommand, TypeOK, testerVars, linkVars, netVars, triggerVars
    <2>3. CASE ~UNCHANGED <<told, triggerQueue, sctpQueue>>
      <3> DEFINE r == Request[Head(commands[u])]
      <3>1. r \in Happenings  BY <1>13, <2>3, HappeningsContain DEF takeCommand
      <3>2. triggerQueue' = Report(triggerQueue, u, r)  BY <1>13, <2>3 DEF takeCommand
      <3>3. triggerQueue' \in Seq(EventSet)
        BY <3>1, <3>2, ReportType DEF TypeOK, EventSet
      <3>4. told' = [told EXCEPT ![u] = @ \cup {r}]  BY <1>13, <2>3 DEF takeCommand
      <3> HIDE DEF r
      <3>5. told' \in [Ues -> SUBSET Happenings]  BY <3>1, <3>4 DEF TypeOK
      <3>6. sctpQueue' \in Seq([from : Ues \cup {"gnb"}, amf : Amfs])
        <4> DEFINE m == [from |-> u, amf |-> FirstAmf]
        <4>1. m \in [from : Ues \cup {"gnb"}, amf : Amfs]  OBVIOUS
        <4>2. sctpQueue' = IF initialSctpReady = "yes" THEN Append(sctpQueue, m) ELSE sctpQueue
          BY <1>13, <2>3 DEF takeCommand
        <4> HIDE DEF m
        <4> QED  BY <4>1, <4>2, AppendProperties DEF TypeOK
      <3> QED  BY <1>13, <2>1, <3>3, <3>5, <3>6 DEF takeCommand, TypeOK, EventSet, testerVars,
                  linkVars, netVars, triggerVars
    <2> QED  BY <2>2, <2>3
  <1>14. ASSUME NEW u \in Ues, NEW message \in DOMAIN Reaction, receiveNas(u, message)
         PROVE  TypeOK'
    <2>1. PICK reaction \in Reaction[message] :
             /\ triggerQueue' = NasTriggers(u, message, reaction)
             /\ told' = [told EXCEPT ![u] = @ \cup ({reaction} \ {NONE})]
      BY <1>14 DEF receiveNas
    <2>2. reaction \in Happenings \cup {NONE} /\ message \in Happenings  BY HappeningsContain
    <2>3. Report(triggerQueue, u, message) \in Seq(EventSet)
      BY <2>2, ReportType DEF TypeOK, EventSet
    <2>4. triggerQueue' \in Seq(EventSet)  BY <2>1, <2>2, <2>3, ReportType DEF NasTriggers
    <2>5. told' \in [Ues -> SUBSET Happenings]  BY <2>1, <2>2 DEF TypeOK
    <2>6. skipped' \in BOOLEAN /\ down' \in 0..MaxDown  BY <1>14 DEF receiveNas, TypeOK
    <2> QED  BY <1>14, <2>4, <2>5, <2>6 DEF receiveNas, TypeOK, EventSet, testerVars, linkVars,
                sctpVars, triggerVars
  <1>5. ASSUME NEW a \in Amfs, setupCounted(a) PROVE TypeOK'
    BY <1>5 DEF setupCounted, ReceiverOnly, TypeOK, testerVars, linkVars, sctpVars, netVars,
        ueVars, triggerVars
  <1>15. ASSUME Take PROVE /\ event \in EventSet
                           /\ triggerQueue' \in Seq([node : Ues \cup {"gnb"}, what : Happenings])
    BY <1>15, HeadTailProperties DEF Take, TypeOK, event, EventSet
  <1>16. CASE onConnectedSctp
    <2>1. /\ timers' \in [Ues \cup {"gnb"} -> SUBSET Timers]
          /\ triggerPc' \in {"run", "prompt", "dead"}
      BY <1>16, ListenerType DEF onConnectedSctp, Take
    <2>2. triggerQueue' \in Seq([node : Ues \cup {"gnb"}, what : Happenings])
      BY <1>15, <1>16 DEF onConnectedSctp
    <2>3. /\ waitingUes' \subseteq Ues /\ missed' \in BOOLEAN
          /\ initState' \in {"none", "WAITING_GNB", "WAITING_UE", "INIT_DONE"}
      BY <1>16 DEF onConnectedSctp, TypeOK
    <2> QED  BY <1>16, <2>1, <2>2, <2>3 DEF onConnectedSctp, TriggeringOnly, TypeOK, linkVars,
                sctpVars, netVars, ueVars
  <1>17. CASE onConnectedUe
    <2>1. /\ timers' \in [Ues \cup {"gnb"} -> SUBSET Timers]
          /\ triggerPc' \in {"run", "prompt", "dead"}
      BY <1>17, ListenerType DEF onConnectedUe, Take
    <2>2. triggerQueue' \in Seq([node : Ues \cup {"gnb"}, what : Happenings])
      BY <1>15, <1>17 DEF onConnectedUe
    <2>3. /\ waitingUes' \subseteq Ues
          /\ initState' \in {"none", "WAITING_GNB", "WAITING_UE", "INIT_DONE"}
      BY <1>17 DEF onConnectedUe, TypeOK
    <2> QED  BY <1>17, <2>1, <2>2, <2>3 DEF onConnectedUe, TriggeringOnly, TypeOK, linkVars,
                sctpVars, netVars, ueVars
  <1>18. CASE onTesterInit
    <2>1. UNCHANGED <<commands, given>> \/ Give(Ues, "InitialRegistration")
      BY <1>18 DEF onTesterInit
    <2>2. commands' \in [Ues -> Seq(Commands)] /\ given' \in [Ues -> Seq(Commands)]
      BY <2>1, GiveType, GivesCommands DEF TypeOK
    <2>3. test' \in Tests \cup {NONE} /\ tester' \in [Ues -> {NONE, "first", "second"}]
      BY <1>18 DEF onTesterInit, TypeOK
    <2> QED  BY <1>18, <2>2, <2>3 DEF onTesterInit, TriggeringOnly, TypeOK, linkVars, sctpVars,
                netVars, ueVars
  <1>19. CASE onSwitched
    <2>1. /\ timers' \in [Ues \cup {"gnb"} -> SUBSET Timers]
          /\ triggerPc' \in {"run", "prompt", "dead"}
      BY <1>19, ListenerType DEF onSwitched, Take
    <2>2. triggerQueue' \in Seq([node : Ues \cup {"gnb"}, what : Happenings])
      BY <1>15, <1>19 DEF onSwitched
    <2>3. \/ UNCHANGED <<commands, given>>
          \/ test \in DOMAIN SecondCommand /\ Give({event.node} \cap Ues, SecondCommand[test])
      <3> DEFINE c == SecondCommand[test]
      <3>1. CASE UNCHANGED <<commands, given>>  BY <3>1
      <3>2. CASE ~UNCHANGED <<commands, given>>
        <4>1. test \in DOMAIN SecondCommand /\ Give({event.node}, c)
          BY <1>19, <3>2 DEF onSwitched
        <4> HIDE DEF c
        <4>2. Give({event.node} \cap Ues, c)  BY <4>1 DEF Give
        <4> USE DEF c
        <4> QED  BY <4>1, <4>2
      <3> QED  BY <3>1, <3>2
    <2>4. commands' \in [Ues -> Seq(Commands)] /\ given' \in [Ues -> Seq(Commands)]
      BY <2>3, GiveType, GivesCommands DEF TypeOK
    <2>5. tester' \in [Ues -> {NONE, "first", "second"}]
      <3>1. tester' = tester \/ tester' = [tester EXCEPT ![event.node] = "second"]
        BY <1>19 DEF onSwitched, AfterFirst
      <3> QED  BY <3>1 DEF TypeOK
    <2>6. UNCHANGED <<mainPc, initState, waitingUes, test, missed, client, setupCount, sctpPc,
                      sctpQueue, ngapQueue, initialSctpReady, attached, late, told, known, down,
                      skipped>>
      BY <1>19 DEF onSwitched, TriggeringOnly, linkVars, sctpVars, netVars, ueVars
    <2> QED  BY <2>1, <2>2, <2>4, <2>5, <2>6 DEF TypeOK
  <1>20. CASE onConnectedIPv4
    <2>1. /\ timers' \in [Ues \cup {"gnb"} -> SUBSET Timers]
          /\ triggerPc' \in {"run", "prompt", "dead"}
      BY <1>20, ListenerType DEF onConnectedIPv4, Take
    <2>2. triggerQueue' \in Seq([node : Ues \cup {"gnb"}, what : Happenings])
      BY <1>15, <1>20 DEF onConnectedIPv4
    <2>3. UNCHANGED <<commands, given>> \/ Give({event.node} \cap Ues, "Ping")
      <3>1. Give({event.node}, "Ping") => Give({event.node} \cap Ues, "Ping")
        BY DEF Give
      <3> QED  BY <1>20, <3>1 DEF onConnectedIPv4
    <2>4. commands' \in [Ues -> Seq(Commands)] /\ given' \in [Ues -> Seq(Commands)]
      BY <2>3, GiveType, GivesCommands DEF TypeOK
    <2> QED  BY <1>20, <2>1, <2>2, <2>4 DEF onConnectedIPv4, TriggeringOnly, TypeOK, linkVars,
                sctpVars, netVars, ueVars
  <1>21. CASE onMessage
    <2>1. /\ timers' \in [Ues \cup {"gnb"} -> SUBSET Timers]
          /\ triggerPc' \in {"run", "prompt", "dead"}
      BY <1>21, ListenerType DEF onMessage, Take
    <2>2. triggerQueue' \in Seq([node : Ues \cup {"gnb"}, what : Happenings])
      BY <1>15, <1>21 DEF onMessage
    <2> QED  BY <1>21, <2>1, <2>2 DEF onMessage, TriggeringOnly, TypeOK, linkVars, sctpVars,
                netVars, ueVars, testerVars
  <1>22. CASE UNCHANGED vars
    BY <1>22 DEF vars, TypeOK, testerVars, linkVars, sctpVars, netVars, ueVars, triggerVars
  <1> QED
    BY <1>1, <1>2, <1>3, <1>4, <1>5, <1>6, <1>7, <1>8, <1>9, <1>10, <1>11, <1>12, <1>13, <1>14,
       <1>16, <1>17, <1>18, <1>19, <1>20, <1>21, <1>22
    DEF Next, Main, Sctp, Connecting, Searching, Triggering

LEMMA TypeInit == Init => TypeOK
  <1> SUFFICES ASSUME Init PROVE TypeOK  OBVIOUS
  <1>1. /\ tester \in [Ues -> {NONE, "first", "second"}] /\ test \in Tests \cup {NONE}
        /\ client \in [Amfs -> {"off", "starting", "connected", "setup", "up", "failed", "lost"}]
        /\ commands \in [Ues -> Seq(Commands)] /\ given \in [Ues -> Seq(Commands)]
        /\ timers \in [Ues \cup {"gnb"} -> SUBSET Timers] /\ told \in [Ues -> SUBSET Happenings]
    BY DEF Init
  <1>2. /\ sctpQueue \in Seq([from : Ues \cup {"gnb"}, amf : Amfs])
        /\ ngapQueue \in Seq(Amfs \cup {"NGSetupResponse"})
        /\ triggerQueue \in Seq([node : Ues \cup {"gnb"}, what : Happenings])
    BY DEF Init
  <1>3. /\ setupCount \in Nat /\ late \in 0..MaxLate /\ down \in 0..MaxDown
        /\ waitingUes \subseteq Ues /\ attached \subseteq Ues /\ known \subseteq Ues
    BY BoundsAssumption DEF Init
  <1> QED  BY <1>1, <1>2, <1>3 DEF Init, TypeOK

(* Every value is of its type, for every number of AMFs and UEs and all      *)
(* bounds.                                                                   *)
THEOREM TypeCorrect == Spec => []TypeOK
  <1>1. TypeOK /\ [Next]_vars => TypeOK'  BY TypeNext
  <1> QED  BY TypeInit, <1>1, PTL DEF Spec

-----------------------------------------------------------------------------
(* The associations: the SCTP task runs only when all have been set up, and  *)
(* what was set up can only be lost.                                         *)

Counted == {a \in Amfs : client[a] \in {"up", "lost"}}

LinkInv ==
    /\ mainPc = "createGnb" => sctpPc = "off" /\ client = [a \in Amfs |-> "off"]
    /\ setupCount = Cardinality(Counted)
    /\ sctpPc \in {"announce", "loop", "dead"} => \A a \in Amfs : client[a] \in {"up", "lost"}
    /\ SctpDeathExplained

\* Steps that touch neither the associations nor the SCTP task.
LEMMA LinkStutter ==
    ASSUME LinkInv, UNCHANGED <<client, setupCount, sctpPc>>,
           mainPc' # "createGnb" \/ UNCHANGED mainPc
    PROVE  LinkInv'
  BY DEF LinkInv, Counted, SctpDeathExplained

LEMMA LinkNext ==
    ASSUME TypeOK, LinkInv, [Next]_vars
    PROVE  LinkInv'
  <1> USE AmfsAssumption
  <1>0. Counted \subseteq Amfs /\ IsFiniteSet(Counted)
    BY FS_Subset DEF Counted
  <1>1. CASE createGnb
    <2>1. Counted = {} /\ Counted' = {}  BY <1>1 DEF createGnb, LinkInv, Counted
    <2> QED  BY <1>1, <2>1 DEF createGnb, LinkInv, SctpDeathExplained, linkVars
  <1>3. ASSUME NEW a \in Amfs, start(a) PROVE LinkInv'
    <2>1. Counted' = Counted  BY <1>3 DEF start, Counted, TypeOK
    <2>2. sctpPc \notin {"announce", "loop", "dead"} /\ mainPc # "createGnb"
      BY <1>3 DEF start, LinkInv
    <2> QED  BY <1>3, <2>1, <2>2 DEF start, ReceiverOnly, LinkInv, SctpDeathExplained, sctpVars
  <1>4. ASSUME NEW a \in Amfs, onSetup(a) PROVE LinkInv'
    <2>1. Counted' = Counted  BY <1>4 DEF onSetup, Counted, TypeOK
    <2>2. sctpPc \notin {"announce", "loop", "dead"} /\ mainPc # "createGnb"
      BY <1>4 DEF onSetup, LinkInv
    <2> QED  BY <1>4, <2>1, <2>2 DEF onSetup, ReceiverOnly, LinkInv, SctpDeathExplained, sctpVars
  <1>5. ASSUME NEW a \in Amfs, setupCounted(a) PROVE LinkInv'
    <2>1. Counted' = Counted \cup {a} /\ a \notin Counted
      BY <1>5 DEF setupCounted, Counted, TypeOK
    <2>2. Cardinality(Counted') = Cardinality(Counted) + 1
      BY <1>0, <2>1, FS_AddElement
    <2>3. sctpPc \notin {"announce", "loop", "dead"} /\ mainPc # "createGnb"
      BY <1>5 DEF setupCounted, LinkInv
    <2> QED  BY <1>5, <2>2, <2>3 DEF setupCounted, ReceiverOnly, LinkInv, SctpDeathExplained, sctpVars
  <1>6. ASSUME NEW a \in Amfs, associationFails(a) PROVE LinkInv'
    <2>1. Counted' = Counted  BY <1>6 DEF associationFails, Counted, TypeOK
    <2>2. mainPc # "createGnb"  BY <1>6 DEF associationFails, LinkInv
    <2>3. UNCHANGED <<mainPc, setupCount, sctpPc>>
      BY <1>6 DEF associationFails, ReceiverOnly, sctpVars
    <2>4. \A b \in Amfs : client[b] \in {"up", "lost"} => client'[b] \in {"up", "lost"}
      BY <1>6 DEF associationFails, TypeOK
    <2>5. \A b \in Amfs : client[b] = "lost" => client'[b] = "lost"
      BY <1>6 DEF associationFails, TypeOK
    <2> QED  BY <2>1, <2>2, <2>3, <2>4, <2>5 DEF LinkInv, SctpDeathExplained
  <1>7. CASE triggerSctp
    <2>1. Cardinality(Counted) = Cardinality(Amfs)
      BY <1>7 DEF triggerSctp, AllSetup, LinkInv
    <2>2. Counted = Amfs  BY <1>0, <2>1, FS_Subset
    <2>3. \A a \in Amfs : client[a] \in {"up", "lost"}  BY <2>2 DEF Counted
    <2>4. mainPc # "createGnb"  BY <1>7 DEF triggerSctp, LinkInv
    <2> QED  BY <1>7, <2>3, <2>4 DEF triggerSctp, LinkInv, Counted, SctpDeathExplained, linkVars
  <1>8. CASE announceReady
    BY <1>8 DEF announceReady, LinkInv, Counted, SctpDeathExplained, linkVars
  <1>9. CASE sctpSend
    <2>1. sctpPc = "loop" /\ UNCHANGED <<mainPc, client, setupCount>>
      BY <1>9 DEF sctpSend, linkVars
    <2>2. Head(sctpQueue).amf \in Amfs
      <3>1. Head(sctpQueue) \in [from : Ues \cup {"gnb"}, amf : Amfs]
        BY <1>9, HeadTailProperties DEF sctpSend, TypeOK
      <3> QED  BY <3>1
    <2>3. sctpPc' = "loop" \/ (sctpPc' = "dead" /\ client[Head(sctpQueue).amf] # "up")
      BY <1>9, <2>1 DEF sctpSend
    <2>4. sctpPc' = "dead" => \E a \in Amfs : client[a] = "lost"
      BY <2>1, <2>2, <2>3 DEF LinkInv
    <2> QED  BY <2>1, <2>3, <2>4 DEF LinkInv, Counted, SctpDeathExplained
  <1>10. CASE startWaiting \/ gnbAppMain \/ ngapMain \/ onConnectedSctp \/ onConnectedUe
              \/ onTesterInit \/ onSwitched \/ onConnectedIPv4 \/ onMessage
    <2>1. /\ UNCHANGED <<client, setupCount, sctpPc>>
          /\ mainPc' # "createGnb" \/ UNCHANGED mainPc
      BY <1>10 DEF startWaiting, gnbAppMain, ngapMain, onConnectedSctp, onConnectedUe,
         onTesterInit, onSwitched, onConnectedIPv4, onMessage, TriggeringOnly, linkVars, sctpVars
    <2> QED  BY <2>1, LinkStutter
  <1>11. ASSUME NEW u \in Ues,
                attach(u) \/ takeCommand(u) \/ \E message \in DOMAIN Reaction : receiveNas(u, message)
         PROVE  LinkInv'
    <2>1. UNCHANGED <<mainPc, client, setupCount, sctpPc>>
      BY <1>11 DEF attach, takeCommand, receiveNas, linkVars, sctpVars
    <2> QED  BY <2>1, LinkStutter
  <1>12. CASE UNCHANGED vars
    BY <1>12, LinkStutter DEF vars, linkVars, sctpVars
  <1> QED
    BY <1>1, <1>3, <1>4, <1>5, <1>6, <1>7, <1>8, <1>9, <1>10, <1>11, <1>12
    DEF Next, Main, Sctp, Connecting, Searching, Triggering

LEMMA LinkInit == Init => LinkInv
  <1> SUFFICES ASSUME Init PROVE LinkInv  OBVIOUS
  <1>1. Counted = {}  BY DEF Init, Counted
  <1> QED  BY <1>1, FS_EmptySet DEF Init, LinkInv, SctpDeathExplained

(* The thread of the SCTP task never ends because of an association that was *)
(* not set up yet, for every number of AMFs.                                 *)
THEOREM SctpDeathCorrect == Spec => []SctpDeathExplained
  <1>1. TypeOK /\ LinkInv /\ [Next]_vars => LinkInv'  BY LinkNext
  <1>2. LinkInv => SctpDeathExplained  BY DEF LinkInv
  <1> QED  BY LinkInit, TypeCorrect, <1>1, <1>2, PTL DEF Spec

-----------------------------------------------------------------------------
(* The tester: what a queued event reports has happened; the tests start     *)
(* with all UEs connected; and what a UE was given agrees with its tester.   *)

Explained ==
    {e \in EventSet :
        /\ e.what = "UE_MR_GNB" => e.node \in attached
        /\ e.what \in {"RM_REGISTERED", "ANY_IPv4"} => e.node \in Ues /\ e.what \in told[e.node]}

ConnectInv ==
    /\ mainPc # "done" => initState = "none"
    /\ initState = "WAITING_UE" => Ues \ waitingUes \subseteq attached
    /\ initState = "INIT_DONE" => attached = Ues
    /\ triggerPc = "prompt" => initState = "INIT_DONE"

GivenInv ==
    /\ triggerPc = "prompt" \/ initState # "INIT_DONE" => \A u \in Ues : tester[u] = NONE
    /\ \A u, v \in Ues : tester[u] = NONE => tester[v] = NONE
    /\ \A u \in Ues : tester[u] = NONE => given[u] = <<>>
    /\ \A u \in Ues : tester[u] = "first" => Len(given[u]) = 1 /\ given[u][1] = "InitialRegistration"
    /\ \A u \in Ues : tester[u] = "second" => Len(given[u]) >= 2 /\ given[u][1] = "InitialRegistration"

TesterInv == triggerQueue \in Seq(Explained) /\ ConnectInv /\ GivenInv /\ CommandsInOrder

LEMMA SeqMonotone ==
    ASSUME NEW S, NEW T, S \subseteq T, NEW s \in Seq(S)
    PROVE  s \in Seq(T)
  <1>1. s \in [1..Len(s) -> S] /\ Len(s) \in Nat  BY LenProperties
  <1>2. s \in [1..Len(s) -> T]  BY <1>1
  <1> QED  BY <1>1, <1>2, SeqDef

LEMMA ReportIn ==
    ASSUME NEW S, NEW queue \in Seq(S), NEW node, NEW what,
           what # NONE => Event(node, what) \in S
    PROVE  Report(queue, node, what) \in Seq(S)
  <1>1. CASE what = NONE  BY <1>1 DEF Report
  <1>2. CASE what # NONE
    <2>1. Event(node, what) \in S  BY <1>2
    <2>2. Append(queue, Event(node, what)) \in Seq(S)  BY <2>1, AppendProperties
    <2> QED  BY <1>2, <2>2 DEF Report
  <1> QED  BY <1>1, <1>2

\* What has happened stays so.
LEMMA ExplainedGrows ==
    ASSUME attached \subseteq attached', \A u \in Ues : told[u] \subseteq told'[u]
    PROVE  Explained \subseteq Explained'
  BY DEF Explained, EventSet

LEMMA OthersExplained ==
    ASSUME NEW node \in Ues \cup {"gnb"},
           NEW what \in Happenings \ {"UE_MR_GNB", "RM_REGISTERED", "ANY_IPv4"}
    PROVE  Event(node, what) \in Explained
  BY DEF Event, Explained, EventSet

\* No message is one of the three.
LEMMA MessagesOther ==
    /\ DOMAIN Reaction \cup {Request[c] : c \in DOMAIN Request} \cup {"SCTP", "NGSetupRequest", "NGSetupResponse"}
          \subseteq Happenings \ {"UE_MR_GNB", "RM_REGISTERED", "ANY_IPv4"}
  <1>1. DOMAIN Reaction \cap {"UE_MR_GNB", "RM_REGISTERED", "ANY_IPv4"} = {}  BY DEF Reaction
  <1>2. \A c \in DOMAIN Request : Request[c] \notin {"UE_MR_GNB", "RM_REGISTERED", "ANY_IPv4"}
    BY DEF Request
  <1> QED  BY <1>1, <1>2, HappeningsContain

LEMMA QueueNext ==
    ASSUME TypeOK, triggerQueue \in Seq(Explained), [Next]_vars
    PROVE  triggerQueue' \in Seq(Explained')
  <1>1. CASE UNCHANGED <<triggerQueue, attached, told>>
    <2>1. Explained \subseteq Explained'  BY <1>1, ExplainedGrows
    <2> QED  BY <1>1, <2>1, SeqMonotone
  <1>2. CASE Take /\ UNCHANGED <<attached, told>>
    <2>1. Explained \subseteq Explained'  BY <1>2, ExplainedGrows
    <2>2. triggerQueue' \in Seq(Explained)  BY <1>2, HeadTailProperties DEF Take
    <2> QED  BY <2>1, <2>2, SeqMonotone
  <1>3. CASE triggerSctp \/ ngapMain
    <2>1. PICK what \in {"SCTP", "NGSetupRequest", "NGSetupResponse"} :
             triggerQueue' = Append(triggerQueue, Event("gnb", what))
      BY <1>3 DEF triggerSctp, ngapMain
    <2>2. Event("gnb", what) \in Explained  BY OthersExplained, MessagesOther
    <2>3. triggerQueue' \in Seq(Explained)  BY <2>1, <2>2, AppendProperties
    <2>4. UNCHANGED <<attached, told>>  BY <1>3 DEF triggerSctp, ngapMain, ueVars
    <2>5. Explained \subseteq Explained'  BY <2>4, ExplainedGrows
    <2> QED  BY <2>3, <2>5, SeqMonotone
  <1>4. ASSUME NEW u \in Ues, attach(u) PROVE triggerQueue' \in Seq(Explained')
    <2>1. attached \subseteq attached' /\ u \in attached' /\ UNCHANGED told
      BY <1>4 DEF attach
    <2>2. triggerQueue \in Seq(Explained')  BY <2>1, ExplainedGrows, SeqMonotone
    <2>3. Event(u, "UE_MR_GNB") \in EventSet  BY HappeningsContain DEF Event, EventSet
    <2>4. Event(u, "UE_MR_GNB") \in Explained'  BY <2>1, <2>3 DEF Event, Explained
    <2>5. Report(triggerQueue, u, "UE_MR_GNB") \in Seq(Explained')  BY <2>2, <2>4, ReportIn
    <2> QED  BY <1>4, <2>5 DEF attach
  <1>5. ASSUME NEW u \in Ues, takeCommand(u) PROVE triggerQueue' \in Seq(Explained')
    <2>1. CASE UNCHANGED <<told, triggerQueue, sctpQueue>>
      BY <1>1, <1>5, <2>1 DEF takeCommand
    <2>2. CASE ~UNCHANGED <<told, triggerQueue, sctpQueue>>
      <3> DEFINE r == Request[Head(commands[u])]
      <3>1. r \in Happenings \ {"UE_MR_GNB", "RM_REGISTERED", "ANY_IPv4"}
        BY <1>5, <2>2, MessagesOther DEF takeCommand
      <3>2. triggerQueue' = Report(triggerQueue, u, r) /\ told' = [told EXCEPT ![u] = @ \cup {r}]
            /\ UNCHANGED attached
        BY <1>5, <2>2 DEF takeCommand
      <3> HIDE DEF r
      <3>3. Event(u, r) \in Explained  BY <3>1, OthersExplained
      <3>4. triggerQueue' \in Seq(Explained)  BY <3>2, <3>3, ReportIn
      <3>5. Explained \subseteq Explained'  BY <3>2, ExplainedGrows DEF TypeOK
      <3> QED  BY <3>4, <3>5, SeqMonotone
    <2> QED  BY <2>1, <2>2
  <1>6. ASSUME NEW u \in Ues, NEW message \in DOMAIN Reaction, receiveNas(u, message)
        PROVE  triggerQueue' \in Seq(Explained')
    <2>1. PICK reaction \in Reaction[message] :
             /\ triggerQueue' = NasTriggers(u, message, reaction)
             /\ told' = [told EXCEPT ![u] = @ \cup ({reaction} \ {NONE})]
      BY <1>6 DEF receiveNas
    <2>2. UNCHANGED attached  BY <1>6 DEF receiveNas
    <2>3. Explained \subseteq Explained'  BY <2>1, <2>2, ExplainedGrows DEF TypeOK
    <2>4. triggerQueue \in Seq(Explained')  BY <2>3, SeqMonotone
    <2>5. Event(u, message) \in Explained'  BY <2>3, OthersExplained, MessagesOther
    <2>6. Report(triggerQueue, u, message) \in Seq(Explained')  BY <2>4, <2>5, ReportIn
    <2>7. reaction # NONE => Event(u, reaction) \in Explained'
      <3> SUFFICES ASSUME reaction # NONE PROVE Event(u, reaction) \in Explained'  OBVIOUS
      <3>1. reaction \in Happenings  BY HappeningsContain
      <3>2. Event(u, reaction) \in EventSet  BY <3>1 DEF Event, EventSet
      <3>3. reaction \in told'[u]  BY <2>1 DEF TypeOK
      <3>4. reaction # "UE_MR_GNB"  BY DEF Reaction
      <3> QED  BY <3>2, <3>3, <3>4 DEF Event, Explained
    <2>8. Report(Report(triggerQueue, u, message), u, reaction) \in Seq(Explained')
      BY <2>6, <2>7, ReportIn
    <2> QED  BY <2>1, <2>8 DEF NasTriggers
  <1>7. CASE onConnectedSctp \/ onConnectedUe \/ onSwitched \/ onConnectedIPv4 \/ onMessage
    <2>1. Take /\ UNCHANGED <<attached, told>>
      BY <1>7 DEF onConnectedSctp, onConnectedUe, onSwitched, onConnectedIPv4, onMessage,
         TriggeringOnly, ueVars
    <2> QED  BY <1>2, <2>1
  <1>8. ASSUME NEW a \in Amfs, start(a) \/ onSetup(a) \/ setupCounted(a) \/ associationFails(a)
        PROVE  triggerQueue' \in Seq(Explained')
    <2>1. UNCHANGED <<triggerQueue, attached, told>>
      BY <1>8 DEF start, onSetup, setupCounted, associationFails, ReceiverOnly, ueVars
    <2> QED  BY <1>1, <2>1
  <1>9. CASE createGnb \/ startWaiting \/ announceReady \/ sctpSend \/ gnbAppMain \/ onTesterInit
    <2>1. UNCHANGED <<triggerQueue, attached, told>>
      BY <1>9 DEF createGnb, startWaiting, announceReady, sctpSend, gnbAppMain, onTesterInit,
         TriggeringOnly, ueVars
    <2> QED  BY <1>1, <2>1
  <1>10. CASE UNCHANGED vars  BY <1>1, <1>10 DEF vars, ueVars
  <1> QED
    BY <1>3, <1>4, <1>5, <1>6, <1>7, <1>8, <1>9, <1>10
    DEF Next, Main, Sctp, Connecting, Searching, Triggering

\* A UE's connection that is reported is one.
LEMMA TakenEvent ==
    ASSUME TypeOK, triggerQueue \in Seq(Explained), Take
    PROVE  event \in Explained
  BY HeadTailProperties DEF Take, event

\* The second listener: the thread goes on as the first says, or ends.
LEMMA ListenerNext ==
    ASSUME NEW next, loadTestListener(next)
    PROVE  triggerPc' = next \/ triggerPc' = "dead"
  BY DEF loadTestListener

LEMMA ConnectNext ==
    ASSUME TypeOK, triggerQueue \in Seq(Explained), ConnectInv, [Next]_vars
    PROVE  ConnectInv'
  <1>1. CASE createGnb
    BY <1>1 DEF createGnb, ConnectInv, testerVars, ueVars, triggerVars
  <1>2. CASE startWaiting
    BY <1>2 DEF startWaiting, ConnectInv, testerVars, ueVars, triggerVars
  <1>3. ASSUME UNCHANGED <<mainPc, initState, waitingUes>>, attached \subseteq attached',
               attached' \subseteq Ues, triggerPc' \in {"run", "dead"} \/ UNCHANGED triggerPc
        PROVE  ConnectInv'
    BY <1>3 DEF ConnectInv
  <1>4. ASSUME NEW a \in Amfs, start(a) \/ onSetup(a) \/ setupCounted(a) \/ associationFails(a)
        PROVE  ConnectInv'
    <2>1. UNCHANGED <<mainPc, initState, waitingUes, attached, triggerPc>>
      BY <1>4 DEF start, onSetup, setupCounted, associationFails, ReceiverOnly, testerVars,
         ueVars, triggerVars
    <2> QED  BY <1>3, <2>1 DEF TypeOK
  <1>5. CASE triggerSctp \/ announceReady \/ sctpSend \/ gnbAppMain \/ ngapMain
    <2>1. UNCHANGED <<mainPc, initState, waitingUes, attached, triggerPc>>
      BY <1>5 DEF triggerSctp, announceReady, sctpSend, gnbAppMain, ngapMain, testerVars, ueVars,
         triggerVars
    <2> QED  BY <1>3, <2>1 DEF TypeOK
  <1>6. ASSUME NEW u \in Ues,
               attach(u) \/ takeCommand(u) \/ \E message \in DOMAIN Reaction : receiveNas(u, message)
        PROVE  ConnectInv'
    <2>1. UNCHANGED <<mainPc, initState, waitingUes, triggerPc>>
      BY <1>6 DEF attach, takeCommand, receiveNas, testerVars, triggerVars
    <2>2. attached \subseteq attached' /\ attached' \subseteq Ues
      BY <1>6 DEF attach, takeCommand, receiveNas, TypeOK
    <2> QED  BY <1>3, <2>1, <2>2
  <1>7. CASE onConnectedSctp
    <2>1. triggerPc' \in {"run", "dead"}  BY <1>7, ListenerNext DEF onConnectedSctp
    <2>2. UNCHANGED <<mainPc, attached>>
      BY <1>7 DEF onConnectedSctp, TriggeringOnly, ueVars
    <2>3. \/ initState = "WAITING_GNB" /\ initState' = "WAITING_UE" /\ waitingUes' = Ues
          \/ UNCHANGED <<initState, waitingUes>>
      BY <1>7 DEF onConnectedSctp
    <2> QED  BY <2>1, <2>2, <2>3 DEF ConnectInv
  <1>8. CASE onConnectedUe
    <2>1. event.node \in attached
      <3>1. event \in Explained  BY <1>8, TakenEvent DEF onConnectedUe
      <3> QED  BY <1>8, <3>1 DEF onConnectedUe, Explained
    <2>2. UNCHANGED <<mainPc, attached>>
      BY <1>8 DEF onConnectedUe, TriggeringOnly, ueVars
    <2>3. CASE initState # "WAITING_UE"
      <3>1. triggerPc' \in {"run", "dead"}  BY <1>8, <2>3, ListenerNext DEF onConnectedUe
      <3>2. UNCHANGED <<initState, waitingUes>>  BY <1>8, <2>3 DEF onConnectedUe
      <3> QED  BY <2>2, <3>1, <3>2 DEF ConnectInv
    <2>4. CASE initState = "WAITING_UE"
      <3>1. waitingUes' = waitingUes \ {event.node}  BY <1>8, <2>4 DEF onConnectedUe
      <3>2. Ues \ waitingUes' \subseteq attached  BY <2>1, <2>4, <3>1 DEF ConnectInv
      <3>3. CASE waitingUes' = {}
        <4>1. initState' = "INIT_DONE"  BY <1>8, <2>4, <3>1, <3>3 DEF onConnectedUe, AllConnected
        <4>2. attached' = Ues  BY <2>2, <3>2, <3>3 DEF TypeOK
        <4>3. mainPc' = "done"  BY <2>2, <2>4 DEF ConnectInv
        <4> QED  BY <4>1, <4>2, <4>3 DEF ConnectInv
      <3>4. CASE waitingUes' # {}
        <4>1. initState' = "WAITING_UE" /\ loadTestListener("run")
          BY <1>8, <2>4, <3>1, <3>4 DEF onConnectedUe, AllConnected
        <4>2. triggerPc' \in {"run", "dead"}  BY <4>1, ListenerNext
        <4> QED  BY <2>2, <2>4, <3>2, <4>1, <4>2 DEF ConnectInv
      <3> QED  BY <3>3, <3>4
    <2> QED  BY <2>3, <2>4
  <1>9. CASE onTesterInit
    <2>1. UNCHANGED <<mainPc, initState, waitingUes, attached>> /\ triggerPc' = "run"
      BY <1>9 DEF onTesterInit, TriggeringOnly, ueVars
    <2> QED  BY <1>3, <2>1 DEF TypeOK
  <1>10. CASE onSwitched \/ onConnectedIPv4 \/ onMessage
    <2>1. UNCHANGED <<mainPc, initState, waitingUes, attached>>
      BY <1>10 DEF onSwitched, onConnectedIPv4, onMessage, TriggeringOnly, ueVars, testerVars
    <2>2. triggerPc' \in {"run", "dead"}
      BY <1>10, ListenerNext DEF onSwitched, onConnectedIPv4, onMessage
    <2> QED  BY <1>3, <2>1, <2>2 DEF TypeOK
  <1>11. CASE UNCHANGED vars
    BY <1>3, <1>11 DEF vars, testerVars, ueVars, triggerVars, TypeOK
  <1> QED
    BY <1>1, <1>2, <1>4, <1>5, <1>6, <1>7, <1>8, <1>9, <1>10, <1>11
    DEF Next, Main, Sctp, Connecting, Searching, Triggering

\* Steps that give no command, start no test and connect not the last UE.
LEMMA GivenStutter ==
    ASSUME TypeOK, GivenInv, CommandsInOrder, UNCHANGED <<test, tester, given>>,
           \A u \in Ues : told[u] \subseteq told'[u],
           triggerPc' = "prompt" \/ initState' # "INIT_DONE"
             => triggerPc = "prompt" \/ initState # "INIT_DONE"
    PROVE  GivenInv' /\ CommandsInOrder'
  BY DEF GivenInv, CommandsInOrder

LEMMA CommandAppended ==
    ASSUME NEW s \in Seq(Commands), NEW c \in Commands
    PROVE  /\ Len(s) = 0 => Len(Append(s, c)) = 1 /\ Append(s, c)[1] = c
           /\ Len(s) = 1 => /\ Len(Append(s, c)) = 2 /\ Append(s, c)[1] = s[1]
                            /\ Append(s, c)[2] = c
  <1>1. /\ Len(Append(s, c)) = Len(s) + 1
        /\ \A i \in 1..Len(s) : Append(s, c)[i] = s[i]
        /\ Append(s, c)[Len(s) + 1] = c
    BY AppendProperties
  <1>2. CASE Len(s) = 0  BY <1>1, <1>2
  <1>3. CASE Len(s) = 1
    <2>1. 1 \in 1..Len(s)  BY <1>3
    <2>2. Len(Append(s, c)) = 2 /\ Append(s, c)[2] = c  BY <1>1, <1>3
    <2> QED  BY <1>1, <1>3, <2>1, <2>2
  <1> QED  BY <1>2, <1>3

LEMMA GivenNext ==
    ASSUME TypeOK, TesterInv, [Next]_vars
    PROVE  GivenInv' /\ CommandsInOrder'
  <1> USE NoneAssumption
  <1> USE DEF TesterInv
  <1>1. CASE createGnb
    BY <1>1, GivenStutter DEF createGnb, testerVars, ueVars, triggerVars
  <1>2. CASE startWaiting
    <2>1. initState # "INIT_DONE"  BY <1>2 DEF startWaiting, ConnectInv
    <2>2. UNCHANGED <<test, tester, given, told>>  BY <1>2 DEF startWaiting, ueVars
    <2> QED  BY <2>1, <2>2, GivenStutter
  <1>3. ASSUME NEW a \in Amfs, start(a) \/ onSetup(a) \/ setupCounted(a) \/ associationFails(a)
        PROVE  GivenInv' /\ CommandsInOrder'
    <2>1. UNCHANGED <<test, tester, given, told, initState, triggerPc>>
      BY <1>3 DEF start, onSetup, setupCounted, associationFails, ReceiverOnly, testerVars,
         ueVars, triggerVars
    <2> QED  BY <2>1, GivenStutter
  <1>4. CASE triggerSctp \/ announceReady \/ sctpSend \/ gnbAppMain \/ ngapMain
    <2>1. UNCHANGED <<test, tester, given, told, initState, triggerPc>>
      BY <1>4 DEF triggerSctp, announceReady, sctpSend, gnbAppMain, ngapMain, testerVars, ueVars,
         triggerVars
    <2> QED  BY <2>1, GivenStutter
  <1>5. ASSUME NEW u \in Ues,
               attach(u) \/ takeCommand(u) \/ \E message \in DOMAIN Reaction : receiveNas(u, message)
        PROVE  GivenInv' /\ CommandsInOrder'
    <2>1. UNCHANGED <<test, tester, given, initState, triggerPc>>
      BY <1>5 DEF attach, takeCommand, receiveNas, testerVars, triggerVars
    <2>2. \A v \in Ues : told[v] \subseteq told'[v]
      <3>1. CASE UNCHANGED told  BY <3>1
      <3>2. CASE ~UNCHANGED told
        <4>1. \E more : told' = [told EXCEPT ![u] = @ \cup more]
          <5>1. CASE takeCommand(u)  BY <3>2, <5>1 DEF takeCommand
          <5>2. CASE \E message \in DOMAIN Reaction : receiveNas(u, message)
            BY <5>2 DEF receiveNas
          <5> QED  BY <1>5, <3>2, <5>1, <5>2 DEF attach
        <4>2. PICK more : told' = [told EXCEPT ![u] = @ \cup more]  BY <4>1
        <4> QED  BY <4>2 DEF TypeOK
      <3> QED  BY <3>1, <3>2
    <2> QED  BY <2>1, <2>2, GivenStutter
  <1>6. CASE onConnectedSctp
    <2>1. triggerPc' # "prompt"  BY <1>6, ListenerNext DEF onConnectedSctp
    <2>2. UNCHANGED <<test, tester, given, told>>
      BY <1>6 DEF onConnectedSctp, TriggeringOnly, ueVars
    <2>3. initState' # "INIT_DONE" => initState # "INIT_DONE"  BY <1>6 DEF onConnectedSctp
    <2> QED  BY <2>1, <2>2, <2>3, GivenStutter
  <1>7. CASE onConnectedUe
    <2>1. UNCHANGED <<test, tester, given, told>>
      BY <1>7 DEF onConnectedUe, TriggeringOnly, ueVars
    <2>2. initState = "INIT_DONE" => initState' = "INIT_DONE" /\ loadTestListener("run")
      BY <1>7 DEF onConnectedUe
    <2>3. initState = "INIT_DONE" => triggerPc' # "prompt"  BY <2>2, ListenerNext
    <2> QED  BY <2>1, <2>2, <2>3, GivenStutter
  <1>8. CASE onTesterInit
    <2>1. /\ initState' = "INIT_DONE" /\ triggerPc' = "run" /\ UNCHANGED told
          /\ \A u \in Ues : tester[u] = NONE /\ given[u] = <<>>
      BY <1>8 DEF onTesterInit, TriggeringOnly, ueVars, ConnectInv, GivenInv
    <2>2. CASE UNCHANGED <<test, tester, given>>
      BY <2>1, <2>2, GivenStutter
    <2>3. CASE \E t \in Tests : /\ tester' = [u \in Ues |-> "first"]
                               /\ Give(Ues, "InitialRegistration")
      <3>1. \A u \in Ues : Len(given'[u]) = 1 /\ given'[u][1] = "InitialRegistration"
        <4> DEFINE first == "InitialRegistration"
        <4>1. \A u \in Ues : given'[u] = Append(given[u], first)
          BY <2>3 DEF Give
        <4>2. first \in Commands  BY GivesCommands
        <4>3. \A u \in Ues : given[u] \in Seq(Commands) /\ Len(given[u]) = 0
          BY <2>1 DEF TypeOK
        <4> HIDE DEF first
        <4>4. \A u \in Ues : Len(given'[u]) = 1 /\ given'[u][1] = first
          <5> SUFFICES ASSUME NEW u \in Ues
                       PROVE  Len(given'[u]) = 1 /\ given'[u][1] = first
            OBVIOUS
          <5>1. Len(Append(given[u], first)) = 1 /\ Append(given[u], first)[1] = first
            BY <4>2, <4>3, CommandAppended
          <5> QED  BY <4>1, <5>1
        <4> QED  BY <4>4 DEF first
      <3>2. GivenInv'  BY <2>1, <2>3, <3>1 DEF GivenInv
      <3>3. \A u \in Ues : Len(given'[u]) = 1  BY <3>1
      <3>4. \A u \in Ues : 2..Len(given'[u]) = {}
        <4>1. 2..1 = {}  OBVIOUS
        <4> QED  BY <3>3, <4>1
      <3> QED  BY <3>2, <3>4 DEF CommandsInOrder
    <2> QED  BY <1>8, <2>2, <2>3 DEF onTesterInit
  <1>9. CASE onSwitched
    <2>1. triggerPc' # "prompt"  BY <1>9, ListenerNext DEF onSwitched
    <2>2. UNCHANGED <<told, test, initState>>
      BY <1>9 DEF onSwitched, TriggeringOnly, ueVars
    <2>3. event.node \in Ues /\ "RM_REGISTERED" \in told[event.node]
      <3>1. event \in Explained  BY <1>9, TakenEvent DEF onSwitched
      <3> QED  BY <1>9, <3>1 DEF onSwitched, Explained
    <2>4. CASE UNCHANGED <<tester, given>>  BY <2>1, <2>2, <2>4, GivenStutter
    <2>5. CASE ~UNCHANGED <<tester, given>>
      <3> DEFINE n == event.node
                 c == SecondCommand[test]
      <3>1. /\ initState = "INIT_DONE" /\ tester[n] = "first" /\ test \in DOMAIN SecondCommand
            /\ tester' = [tester EXCEPT ![n] = "second"]
            /\ Give({n}, c)
        BY <1>9, <2>5 DEF onSwitched, AfterFirst
      <3>2. n \in Ues /\ "RM_REGISTERED" \in told[n]  BY <2>3
      <3>3. Len(given[n]) = 1 /\ given[n][1] = "InitialRegistration" /\ given[n] \in Seq(Commands)
        BY <3>1, <3>2 DEF GivenInv, TypeOK
      <3>4. c \in Commands  BY <3>1, GivesCommands
      <3> HIDE DEF n, c
      <3>5. \A u \in Ues : given'[u] = IF u = n THEN Append(given[n], c) ELSE given[u]
        BY <3>1 DEF Give
      <3>6. /\ Len(given'[n]) = 2 /\ given'[n][1] = "InitialRegistration" /\ given'[n][2] = c
        <4>1. given'[n] = Append(given[n], c)  BY <3>2, <3>5
        <4>2. /\ Len(Append(given[n], c)) = 2 /\ Append(given[n], c)[1] = given[n][1]
              /\ Append(given[n], c)[2] = c
          BY <3>3, <3>4, CommandAppended
        <4> QED  BY <3>3, <4>1, <4>2
      <3>7. \A u \in Ues : tester'[u] = IF u = n THEN "second" ELSE tester[u]
        BY <3>1 DEF TypeOK
      <3>8. \A u, v \in Ues : tester[u] # NONE /\ tester'[u] # NONE
        BY <3>1, <3>2, <3>7 DEF GivenInv
      <3>9. GivenInv'  BY <2>1, <2>2, <3>1, <3>2, <3>5, <3>6, <3>7, <3>8 DEF GivenInv
      <3>10. \A u \in Ues \ {n} : given'[u] = given[u]  BY <3>5
      <3>11. \A i \in 2..Len(given'[n]) : i = 2 /\ given'[n][2] = c  BY <3>6
      <3>12. c = SecondCommand[test]  BY DEF c
      <3>13. ASSUME NEW i \in 2..Len(given'[n])
             PROVE  IF i = 2
                      THEN test \in DOMAIN SecondCommand /\ given'[n][2] = SecondCommand[test]
                           /\ "RM_REGISTERED" \in told[n]
                      ELSE given'[n][i] = "Ping" /\ "ANY_IPv4" \in told[n]
        BY <3>1, <3>2, <3>11, <3>12
      <3> QED  BY <2>2, <3>9, <3>10, <3>13 DEF CommandsInOrder
    <2> QED  BY <2>4, <2>5
  <1>10. CASE onConnectedIPv4
    <2>1. triggerPc' # "prompt"  BY <1>10, ListenerNext DEF onConnectedIPv4
    <2>2. UNCHANGED <<told, test, tester, initState>>
      BY <1>10 DEF onConnectedIPv4, TriggeringOnly, ueVars
    <2>3. event.node \in Ues /\ "ANY_IPv4" \in told[event.node]
      <3>1. event \in Explained  BY <1>10, TakenEvent DEF onConnectedIPv4
      <3> QED  BY <1>10, <3>1 DEF onConnectedIPv4, Explained
    <2>4. CASE UNCHANGED given  BY <2>1, <2>2, <2>4, GivenStutter
    <2>5. CASE ~UNCHANGED given
      <3> DEFINE n == event.node
      <3>1. tester[n] = "second" /\ Give({n}, "Ping")
        BY <1>10, <2>5 DEF onConnectedIPv4
      <3>2. n \in Ues /\ "ANY_IPv4" \in told[n]  BY <2>3
      <3> HIDE DEF n
      <3>3. Len(given[n]) >= 2 /\ given[n][1] = "InitialRegistration" /\ given[n] \in Seq(Commands)
        BY <3>1, <3>2 DEF GivenInv, TypeOK
      <3>4. \A u \in Ues : given'[u] = IF u = n THEN Append(given[n], "Ping") ELSE given[u]
        BY <3>1 DEF Give
      <3>5. /\ Len(given'[n]) = Len(given[n]) + 1
            /\ \A i \in 1..Len(given[n]) : given'[n][i] = given[n][i]
            /\ given'[n][Len(given[n]) + 1] = "Ping"
        <4>1. given'[n] = Append(given[n], "Ping")  BY <3>2, <3>4
        <4>2. given[n] \in Seq(Commands) /\ "Ping" \in Commands  BY <3>3, GivesCommands
        <4> HIDE DEF n
        <4> QED  BY <4>1, <4>2, AppendProperties
      <3>6. Len(given[n]) \in Nat /\ Len(given[n]) >= 2  BY <3>3, LenProperties
      <3>7. Len(given'[n]) >= 2 /\ given'[n][1] = "InitialRegistration"  BY <3>3, <3>5, <3>6
      <3>8. GivenInv'  BY <2>1, <2>2, <3>1, <3>2, <3>4, <3>7 DEF GivenInv
      <3>9. \A i \in 2..Len(given'[n]) :
               \/ i \in 2..Len(given[n]) /\ given'[n][i] = given[n][i]
               \/ i # 2 /\ given'[n][i] = "Ping"
        BY <3>5, <3>6
      <3>10. \A u \in Ues \ {n} : given'[u] = given[u]  BY <3>4
      <3>11. given'[n][2] = given[n][2]  BY <3>5, <3>6
      <3>12. ASSUME NEW i \in 2..Len(given'[n])
             PROVE  IF i = 2
                      THEN test \in DOMAIN SecondCommand /\ given'[n][2] = SecondCommand[test]
                           /\ "RM_REGISTERED" \in told[n]
                      ELSE given'[n][i] = "Ping" /\ "ANY_IPv4" \in told[n]
        BY <3>2, <3>9, <3>11 DEF CommandsInOrder
      <3> QED  BY <2>2, <3>8, <3>10, <3>12 DEF CommandsInOrder
    <2> QED  BY <2>4, <2>5
  <1>11. CASE onMessage
    <2>1. triggerPc' # "prompt"  BY <1>11, ListenerNext DEF onMessage
    <2>2. UNCHANGED <<test, tester, given, told, initState>>
      BY <1>11 DEF onMessage, TriggeringOnly, testerVars, ueVars
    <2> QED  BY <2>1, <2>2, GivenStutter
  <1>12. CASE UNCHANGED vars
    BY <1>12, GivenStutter DEF vars, testerVars, ueVars, triggerVars
  <1> QED
    BY <1>1, <1>2, <1>3, <1>4, <1>5, <1>6, <1>7, <1>8, <1>9, <1>10, <1>11, <1>12
    DEF Next, Main, Sctp, Connecting, Searching, Triggering

LEMMA TesterInit == Init => TesterInv
  <1> SUFFICES ASSUME Init PROVE TesterInv  OBVIOUS
  <1>1. \A u \in Ues : tester[u] = NONE /\ given[u] = <<>>  BY DEF Init
  <1>2. GivenInv  BY <1>1, NoneAssumption DEF GivenInv
  <1>3. ConnectInv /\ triggerQueue \in Seq(Explained)  BY DEF Init, ConnectInv
  <1>4. CommandsInOrder
    <2>1. \A u \in Ues : 2..Len(given[u]) = {}  BY <1>1
    <2> QED  BY <2>1 DEF CommandsInOrder
  <1> QED  BY <1>2, <1>3, <1>4 DEF TesterInv

LEMMA TesterCorrect == Spec => []TesterInv
  <1>1. TypeOK /\ TesterInv /\ [Next]_vars => TesterInv'
    BY QueueNext, ConnectNext, GivenNext DEF TesterInv
  <1> QED  BY TesterInit, TypeCorrect, <1>1, PTL DEF Spec

(* The tests of all UEs start together, with all of them connected to the    *)
(* gNB, for every number of UEs and however often they connect.              *)
THEOREM TestsStartCorrect == Spec => []TestsStartTogether
  <1>1. ASSUME TypeOK, TesterInv PROVE TestsStartTogether
    <2> SUFFICES ASSUME NEW u \in Ues, given[u] # <<>>, NEW v \in Ues
                 PROVE  v \in attached /\ given[v] # <<>> /\ given[v][1] = "InitialRegistration"
      BY DEF TestsStartTogether
    <2>1. tester[u] # NONE  BY <1>1 DEF TesterInv, GivenInv
    <2>2. tester[v] # NONE /\ initState = "INIT_DONE"  BY <1>1, <2>1 DEF TesterInv, GivenInv
    <2>3. v \in attached  BY <1>1, <2>2 DEF TesterInv, ConnectInv
    <2>4. tester[v] \in {"first", "second"}  BY <1>1, <2>2 DEF TypeOK
    <2>5. CASE tester[v] = "first"
      <3>1. Len(given[v]) = 1 /\ given[v][1] = "InitialRegistration"
        BY <1>1, <2>5 DEF TesterInv, GivenInv
      <3>2. given[v] # <<>>  BY <3>1
      <3> QED  BY <2>3, <3>1, <3>2
    <2>6. CASE tester[v] = "second"
      <3>1. Len(given[v]) >= 2 /\ given[v][1] = "InitialRegistration"
        BY <1>1, <2>6 DEF TesterInv, GivenInv
      <3>2. given[v] # <<>>  BY <3>1
      <3> QED  BY <2>3, <3>1, <3>2
    <2> QED  BY <2>4, <2>5, <2>6
  <1> QED  BY TypeCorrect, TesterCorrect, <1>1, PTL

(* A UE is given its commands in the order of its test and each only after   *)
(* what it waits for, for every number of UEs, every test and any number of  *)
(* repeated registrations and connections.                                   *)
THEOREM CommandsCorrect == Spec => []CommandsInOrder
  <1>1. TesterInv => CommandsInOrder  BY DEF TesterInv
  <1> QED  BY TesterCorrect, <1>1, PTL

-----------------------------------------------------------------------------
(* The load test listener: the timers that an event reads are there, or will *)
(* be started by events queued before it.                                    *)

\* Timer x of node n is there once the first i events of queue q are handled.
Has(t, q, n, i, x) ==
    x \in t[n] \/ \E j \in 1..i : q[j].node = n /\ x \in At(Starts, q[j].what)

Got(t, q, n, x) == Has(t, q, n, Len(q), x)

\* Every queued event finds the timers it reads.
Fine(t, q) == \A i \in 1..Len(q) : \A x \in At(Reads, q[i].what) : Has(t, q, q[i].node, i, x)

\* What a UE sent has its timers started; so has an NGSetupRequest once it is on
\* its way to the AMF, and then also when the response is on its way back.
ToldInv == \A u \in Ues : \A w \in told[u] : \A x \in At(Starts, w) : Got(timers, triggerQueue, u, x)

SetupSent ==
    \/ \E i \in 1..Len(sctpQueue) : sctpQueue[i].from = "gnb"
    \/ \E i \in 1..Len(ngapQueue) : ngapQueue[i] = "NGSetupResponse"

SetupInv == SetupSent => Got(timers, triggerQueue, "gnb", "ngSetup")

ListenerInv ==
    ~skipped => /\ triggerPc # "dead"
                /\ Fine(timers, triggerQueue)
                /\ ToldInv
                /\ SetupInv

Nodes == Ues \cup {"gnb"}

\* An event is added whose timers are there.
LEMMA AppendEvent ==
    ASSUME NEW t, NEW q \in Seq(EventSet), NEW e \in EventSet, Fine(t, q),
           \A x \in At(Reads, e.what) : Got(t, q, e.node, x) \/ x \in At(Starts, e.what)
    PROVE  /\ Fine(t, Append(q, e))
           /\ \A n \in Nodes : \A x : Got(t, q, n, x) => Got(t, Append(q, e), n, x)
           /\ \A x \in At(Starts, e.what) : Got(t, Append(q, e), e.node, x)
  <1> DEFINE q2 == Append(q, e)
  <1>1. /\ Len(q) \in Nat /\ Len(q2) = Len(q) + 1 /\ q2[Len(q) + 1] = e
        /\ \A i \in 1..Len(q) : q2[i] = q[i]
    BY AppendProperties, LenProperties
  <1> HIDE DEF q2
  <1>2. ASSUME NEW n, NEW x, NEW i \in 0..Len(q), Has(t, q, n, i, x)
        PROVE  Has(t, q2, n, i, x) /\ Has(t, q2, n, Len(q) + 1, x)
    BY <1>1, <1>2 DEF Has
  <1>3. ASSUME NEW x \in At(Starts, e.what) PROVE Has(t, q2, e.node, Len(q) + 1, x)
    <2>1. Len(q) + 1 \in 1..(Len(q) + 1)  BY <1>1
    <2> QED  BY <1>1, <1>3, <2>1 DEF Has
  <1>4. ASSUME NEW i \in 1..Len(q2), NEW x \in At(Reads, q2[i].what)
        PROVE  Has(t, q2, q2[i].node, i, x)
    <2>1. CASE i \in 1..Len(q)
      <3>1. q2[i] = q[i] /\ i \in 0..Len(q)  BY <1>1, <2>1
      <3>2. Has(t, q, q[i].node, i, x)  BY <1>4, <2>1, <3>1 DEF Fine
      <3> QED  BY <1>2, <3>1, <3>2
    <2>2. CASE i = Len(q) + 1
      <3>1. q2[i] = e  BY <1>1, <2>2
      <3>2. CASE x \in At(Starts, e.what)  BY <1>3, <2>2, <3>1, <3>2
      <3>3. CASE Got(t, q, e.node, x)
        <4>1. Len(q) \in 0..Len(q)  BY <1>1
        <4> QED  BY <1>2, <2>2, <3>1, <3>3, <4>1 DEF Got
      <3> QED  BY <1>4, <3>1, <3>2, <3>3
    <2> QED  BY <1>1, <2>1, <2>2
  <1>5. Fine(t, q2)  BY <1>4 DEF Fine
  <1>6. Len(q) \in 0..Len(q)  BY <1>1
  <1>7. \A n \in Nodes : \A x : Got(t, q, n, x) => Got(t, q2, n, x)
    BY <1>1, <1>2, <1>6 DEF Got
  <1>8. \A x \in At(Starts, e.what) : Got(t, q2, e.node, x)
    BY <1>1, <1>3 DEF Got
  <1> QED  BY <1>5, <1>7, <1>8 DEF q2

\* The same for what is reported of a UE.
LEMMA ReportEvent ==
    ASSUME NEW t, NEW q \in Seq(EventSet), NEW u \in Ues, NEW what \in Happenings \cup {NONE},
           Fine(t, q),
           what # NONE => \A x \in At(Reads, what) : Got(t, q, u, x) \/ x \in At(Starts, what)
    PROVE  /\ Report(q, u, what) \in Seq(EventSet)
           /\ Fine(t, Report(q, u, what))
           /\ \A n \in Nodes : \A x : Got(t, q, n, x) => Got(t, Report(q, u, what), n, x)
           /\ what # NONE => \A x \in At(Starts, what) : Got(t, Report(q, u, what), u, x)
  <1>0. Report(q, u, what) \in Seq(EventSet)  BY ReportType
  <1>1. CASE what = NONE  BY <1>0, <1>1 DEF Report
  <1>2. CASE what # NONE
    <2> DEFINE e == Event(u, what)
    <2>1. e \in EventSet /\ e.node = u /\ e.what = what  BY <1>2 DEF Event, EventSet
    <2>2. Report(q, u, what) = Append(q, e)  BY <1>2 DEF Report
    <2> HIDE DEF e
    <2>3. \A x \in At(Reads, e.what) : Got(t, q, e.node, x) \/ x \in At(Starts, e.what)
      BY <1>2, <2>1
    <2>4. /\ Fine(t, Append(q, e))
          /\ \A n \in Nodes : \A x : Got(t, q, n, x) => Got(t, Append(q, e), n, x)
          /\ \A x \in At(Starts, e.what) : Got(t, Append(q, e), e.node, x)
      BY <2>1, <2>3, AppendEvent
    <2> QED  BY <1>0, <2>1, <2>2, <2>4
  <1> QED  BY <1>1, <1>2

\* The first event is handled: its timers are there, and those of the others stay so.
LEMMA TakeEvent ==
    ASSUME NEW t \in [Nodes -> SUBSET Timers], NEW q \in Seq(EventSet), q # <<>>, Fine(t, q),
           NEW t2 \in [Nodes -> SUBSET Timers],
           t2 = [t EXCEPT ![Head(q).node] = t[Head(q).node] \cup At(Starts, Head(q).what)]
    PROVE  /\ At(Reads, Head(q).what) \subseteq t2[Head(q).node]
           /\ Fine(t2, Tail(q))
           /\ \A n \in Nodes : \A x : Got(t, q, n, x) => Got(t2, Tail(q), n, x)
  <1> DEFINE q2 == Tail(q)
             e == Head(q)
  <1>1. /\ e = q[1] /\ e \in EventSet /\ Len(q) \in Nat /\ Len(q) > 0
        /\ Len(q2) = Len(q) - 1
        /\ \A i \in 1..Len(q2) : q2[i] = q[i + 1]
        /\ \A i \in 1..Len(q) : q[i] \in EventSet
    BY HeadTailProperties, LenProperties
  <1>2. e.node \in Nodes  BY <1>1 DEF EventSet, Nodes
  <1>3. \A n \in Nodes : t2[n] = IF n = e.node THEN t[n] \cup At(Starts, e.what) ELSE t[n]
    BY <1>2
  <1> HIDE DEF q2, e
  <1>4. ASSUME NEW n \in Nodes, NEW x, NEW i \in 1..Len(q), Has(t, q, n, i, x)
        PROVE  Has(t2, q2, n, i - 1, x)
    <2>1. CASE x \in t[n]
      <3>1. x \in t2[n]  BY <1>3, <2>1
      <3> QED  BY <3>1 DEF Has
    <2>2. CASE \E j \in 1..i : q[j].node = n /\ x \in At(Starts, q[j].what)
      <3>1. PICK j \in 1..i : q[j].node = n /\ x \in At(Starts, q[j].what)  BY <2>2
      <3>2. CASE j = 1
        <4>1. x \in t2[n]  BY <1>1, <1>3, <3>1, <3>2
        <4> QED  BY <4>1 DEF Has
      <3>3. CASE j # 1
        <4>1. j - 1 \in 1..(i - 1) /\ j - 1 \in 1..Len(q2) /\ (j - 1) + 1 = j
          BY <1>1, <3>1, <3>3
        <4>2. q2[j - 1] = q[j]  BY <1>1, <4>1
        <4> QED  BY <3>1, <4>1, <4>2 DEF Has
      <3> QED  BY <3>2, <3>3
    <2> QED  BY <1>4, <2>1, <2>2 DEF Has
  <1>5. ASSUME NEW x \in At(Reads, e.what) PROVE x \in t2[e.node]
    <2>1. 1 \in 1..Len(q)  BY <1>1
    <2>2. Has(t, q, e.node, 1, x)  BY <1>1, <1>5, <2>1 DEF Fine
    <2>3. Has(t2, q2, e.node, 1 - 1, x)  BY <1>2, <1>4, <2>1, <2>2
    <2> QED  BY <2>3 DEF Has
  <1>6. ASSUME NEW i \in 1..Len(q2), NEW x \in At(Reads, q2[i].what)
        PROVE  Has(t2, q2, q2[i].node, i, x)
    <2>1. i + 1 \in 1..Len(q) /\ q2[i] = q[i + 1] /\ (i + 1) - 1 = i  BY <1>1
    <2>2. q[i + 1].node \in Nodes  BY <1>1, <2>1 DEF EventSet, Nodes
    <2>3. Has(t, q, q[i + 1].node, i + 1, x)  BY <1>6, <2>1 DEF Fine
    <2>4. Has(t2, q2, q[i + 1].node, (i + 1) - 1, x)  BY <1>4, <2>1, <2>2, <2>3
    <2> QED  BY <2>1, <2>4
  <1>7. Fine(t2, q2)  BY <1>6 DEF Fine
  <1>8. ASSUME NEW n \in Nodes, NEW x, Got(t, q, n, x) PROVE Got(t2, q2, n, x)
    <2>1. Len(q) \in 1..Len(q) /\ Len(q2) = Len(q) - 1  BY <1>1
    <2> QED  BY <1>4, <1>8, <2>1 DEF Got
  <1> QED  BY <1>5, <1>7, <1>8 DEF q2, e

\* What the messages read was started by what the network waits for, or by the
\* message a UE answers.
LEMMA ReadsAreStarted ==
    /\ \A m \in DOMAIN Reaction : \A x \in At(Reads, m) : \E w \in Awaits[m] : x \in At(Starts, w)
    /\ \A m \in DOMAIN Reaction : \A r \in Reaction[m] : r # NONE =>
          \A x \in At(Reads, r) : x \in At(Starts, m)
    /\ \A c \in DOMAIN Request : At(Reads, Request[c]) = {}
    /\ At(Reads, "UE_MR_GNB") = {} /\ At(Reads, "SCTP") = {} /\ At(Reads, "NGSetupRequest") = {}
    /\ At(Reads, "NGSetupResponse") = {"ngSetup"} /\ At(Starts, "NGSetupRequest") = {"ngSetup"}
  <1>1. \A m \in DOMAIN Reaction : \A x \in At(Reads, m) : \E w \in Awaits[m] : x \in At(Starts, w)
    BY DEF Reaction, At, Reads, Starts, Awaits
  <1>2. \A m \in DOMAIN Reaction : \A r \in Reaction[m] : r # NONE =>
          \A x \in At(Reads, r) : x \in At(Starts, m)
    BY DEF Reaction, At, Reads, Starts
  <1>3. \A c \in DOMAIN Request : At(Reads, Request[c]) = {}
    BY DEF Request, At, Reads
  <1>4. /\ At(Reads, "UE_MR_GNB") = {} /\ At(Reads, "SCTP") = {} /\ At(Reads, "NGSetupRequest") = {}
        /\ At(Reads, "NGSetupResponse") = {"ngSetup"}
    BY DEF At, Reads
  <1>5. At(Starts, "NGSetupRequest") = {"ngSetup"}  BY DEF At, Starts
  <1> QED  BY <1>1, <1>2, <1>3, <1>4, <1>5

\* What a step has to show.
LEMMA ListenerKept ==
    ASSUME ListenerInv, ~skipped, triggerPc' # "dead", Fine(timers', triggerQueue'),
           \A n \in Nodes : \A x :
              Got(timers, triggerQueue, n, x) => Got(timers', triggerQueue', n, x),
           \A u \in Ues : \A w \in told'[u] :
              w \in told[u] \/ \A x \in At(Starts, w) : Got(timers', triggerQueue', u, x),
           SetupSent' => SetupSent \/ Got(timers', triggerQueue', "gnb", "ngSetup")
    PROVE  ListenerInv'
  <1>1. ToldInv'  BY DEF ListenerInv, ToldInv, Nodes
  <1>2. SetupInv'  BY DEF ListenerInv, SetupInv, Nodes
  <1> QED  BY <1>1, <1>2 DEF ListenerInv

\* A step that adds no event, and sends nothing for the gNB.
LEMMA ListenerQuiet ==
    ASSUME ListenerInv, ~skipped, triggerPc' # "dead", UNCHANGED <<timers, triggerQueue, told>>,
           SetupSent' => SetupSent
    PROVE  ListenerInv'
  BY ListenerKept DEF ListenerInv

LEMMA HistoryNext ==
    ASSUME TypeOK, ListenerInv, [Next]_vars
    PROVE  ListenerInv'
  <1> USE AmfsAssumption, EventsAssumption
  <1>0. CASE skipped'  BY <1>0 DEF ListenerInv
  <1> SUFFICES ASSUME ~skipped' PROVE ListenerInv'
    BY <1>0
  <1>t. /\ triggerQueue \in Seq(EventSet) /\ timers \in [Nodes -> SUBSET Timers]
        /\ sctpQueue \in Seq([from : Ues \cup {"gnb"}, amf : Amfs])
        /\ ngapQueue \in Seq(Amfs \cup {"NGSetupResponse"})
        /\ told \in [Ues -> SUBSET Happenings]
    BY DEF TypeOK, EventSet, Nodes
  <1>1. CASE createGnb \/ startWaiting \/ announceReady \/ gnbAppMain \/ UNCHANGED vars
             \/ \E a \in Amfs : start(a) \/ setupCounted(a) \/ associationFails(a)
    <2>1. UNCHANGED <<timers, triggerQueue, triggerPc, told, sctpQueue, ngapQueue, skipped>>
      BY <1>1 DEF createGnb, startWaiting, announceReady, gnbAppMain, vars, start, setupCounted,
         associationFails, ReceiverOnly, sctpVars, netVars, ueVars, triggerVars
    <2>2. SetupSent' = SetupSent  BY <2>1 DEF SetupSent
    <2>3. ~skipped /\ triggerPc' # "dead"  BY <2>1 DEF ListenerInv
    <2> QED  BY <2>1, <2>2, <2>3, ListenerQuiet
  <1>2. ASSUME NEW a \in Amfs, onSetup(a) PROVE ListenerInv'
    <2>1. /\ UNCHANGED <<timers, triggerQueue, triggerPc, told, sctpQueue, skipped>>
          /\ ngapQueue' = Append(ngapQueue, a) /\ a # "NGSetupResponse"
      BY <1>2 DEF onSetup, ReceiverOnly, sctpVars, netVars, ueVars, triggerVars
    <2>2. /\ Len(ngapQueue) \in Nat /\ Len(ngapQueue') = Len(ngapQueue) + 1
          /\ ngapQueue'[Len(ngapQueue) + 1] = a
          /\ \A i \in 1..Len(ngapQueue) : ngapQueue'[i] = ngapQueue[i]
      BY <1>t, <2>1, LenProperties
    <2>3. SetupSent' => SetupSent  BY <2>1, <2>2 DEF SetupSent
    <2>4. ~skipped /\ triggerPc' # "dead"  BY <2>1 DEF ListenerInv
    <2> QED  BY <2>1, <2>3, <2>4, ListenerQuiet
  <1>3. CASE sctpSend
    <2>1. /\ UNCHANGED <<timers, triggerQueue, triggerPc, told, skipped>>
          /\ sctpQueue # <<>> /\ sctpQueue' = Tail(sctpQueue)
      BY <1>3 DEF sctpSend, ueVars, triggerVars
    <2>2. \/ ngapQueue' = ngapQueue
          \/ Head(sctpQueue).from = "gnb" /\ ngapQueue' = Append(ngapQueue, "NGSetupResponse")
      BY <1>3 DEF sctpSend, AmfAnswers
    <2>3. /\ Head(sctpQueue) = sctpQueue[1] /\ Len(sctpQueue) \in Nat /\ Len(sctpQueue) > 0
          /\ Len(sctpQueue') = Len(sctpQueue) - 1
          /\ \A i \in 1..Len(sctpQueue') : sctpQueue'[i] = sctpQueue[i + 1]
      BY <1>t, <2>1, HeadTailProperties, LenProperties
    <2>4. (\E i \in 1..Len(sctpQueue') : sctpQueue'[i].from = "gnb") => SetupSent
      <3> SUFFICES ASSUME NEW i \in 1..Len(sctpQueue'), sctpQueue'[i].from = "gnb" PROVE SetupSent
        OBVIOUS
      <3>1. i + 1 \in 1..Len(sctpQueue) /\ sctpQueue[i + 1].from = "gnb"  BY <2>3
      <3> QED  BY <3>1 DEF SetupSent
    <2>5. Head(sctpQueue).from = "gnb" => SetupSent
      <3>1. 1 \in 1..Len(sctpQueue)  BY <2>3
      <3> QED  BY <2>3, <3>1 DEF SetupSent
    <2>6. SetupSent' => SetupSent
      BY <2>2, <2>4, <2>5 DEF SetupSent
    <2>7. ~skipped /\ triggerPc' # "dead"  BY <2>1 DEF ListenerInv
    <2> QED  BY <2>1, <2>6, <2>7, ListenerQuiet
  <1>4. CASE triggerSctp
    <2>1. /\ UNCHANGED <<timers, triggerPc, told, skipped, sctpQueue, ngapQueue>>
          /\ triggerQueue' = Append(triggerQueue, Event("gnb", "SCTP"))
      BY <1>4 DEF triggerSctp, ueVars, triggerVars, netVars
    <2> DEFINE e == Event("gnb", "SCTP")
    <2>2. e \in EventSet /\ e.what = "SCTP"  BY HappeningsContain DEF Event, EventSet
    <2>3. At(Reads, "SCTP") = {}  BY ReadsAreStarted
    <2>4. ~skipped /\ triggerPc' # "dead" /\ Fine(timers, triggerQueue)  BY <2>1 DEF ListenerInv
    <2>5. triggerQueue' = Append(triggerQueue, e)  BY <2>1
    <2> HIDE DEF e
    <2>6. /\ Fine(timers, triggerQueue')
          /\ \A n \in Nodes : \A x : Got(timers, triggerQueue, n, x) => Got(timers, triggerQueue', n, x)
      BY <1>t, <2>2, <2>3, <2>4, <2>5, AppendEvent
    <2>7. SetupSent' = SetupSent  BY <2>1 DEF SetupSent
    <2> QED  BY <2>1, <2>4, <2>6, <2>7, ListenerKept
  <1>5. CASE ngapMain
    <2> DEFINE what == IF Head(ngapQueue) \in Amfs THEN "NGSetupRequest" ELSE "NGSetupResponse"
               e == Event("gnb", what)
    <2>1. /\ UNCHANGED <<timers, triggerPc, told, skipped>>
          /\ triggerQueue' = Append(triggerQueue, e)
          /\ ngapQueue # <<>> /\ ngapQueue' = Tail(ngapQueue)
          /\ Head(ngapQueue) \in Amfs \/ sctpQueue' = sctpQueue
      BY <1>5 DEF ngapMain, ueVars, triggerVars, netVars
    <2>2. e \in EventSet /\ e.what = what /\ e.node = "gnb"
      BY HappeningsContain DEF Event, EventSet
    <2>3. /\ Head(ngapQueue) = ngapQueue[1] /\ Len(ngapQueue) \in Nat /\ Len(ngapQueue) > 0
          /\ Len(ngapQueue') = Len(ngapQueue) - 1
          /\ \A i \in 1..Len(ngapQueue') : ngapQueue'[i] = ngapQueue[i + 1]
          /\ Head(ngapQueue) \in Amfs \cup {"NGSetupResponse"}
      BY <1>t, <2>1, HeadTailProperties, LenProperties
    <2>4. (\E i \in 1..Len(ngapQueue') : ngapQueue'[i] = "NGSetupResponse") => SetupSent
      <3> SUFFICES ASSUME NEW i \in 1..Len(ngapQueue'), ngapQueue'[i] = "NGSetupResponse" PROVE SetupSent
        OBVIOUS
      <3>1. i + 1 \in 1..Len(ngapQueue) /\ ngapQueue[i + 1] = "NGSetupResponse"  BY <2>3
      <3> QED  BY <3>1 DEF SetupSent
    <2>5. Head(ngapQueue) \notin Amfs => SetupSent
      <3>1. 1 \in 1..Len(ngapQueue)  BY <2>3
      <3> QED  BY <2>3, <3>1 DEF SetupSent
    <2>6. /\ ~skipped /\ triggerPc' # "dead" /\ Fine(timers, triggerQueue)
          /\ SetupSent => Got(timers, triggerQueue, "gnb", "ngSetup")
      BY <2>1 DEF ListenerInv, SetupInv
    <2>7. \A x \in At(Reads, what) : Got(timers, triggerQueue, "gnb", x) \/ x \in At(Starts, what)
      BY <2>5, <2>6, ReadsAreStarted
    <2>8. Head(ngapQueue) \in Amfs => "ngSetup" \in At(Starts, what)
      BY ReadsAreStarted
    <2> HIDE DEF e, what
    <2>9. /\ Fine(timers, triggerQueue')
          /\ \A n \in Nodes : \A x : Got(timers, triggerQueue, n, x) => Got(timers, triggerQueue', n, x)
          /\ \A x \in At(Starts, what) : Got(timers, triggerQueue', "gnb", x)
      BY <1>t, <2>1, <2>2, <2>6, <2>7, AppendEvent
    <2>10. SetupSent' => SetupSent \/ Got(timers', triggerQueue', "gnb", "ngSetup")
      <3>1. CASE Head(ngapQueue) \in Amfs  BY <2>1, <2>8, <2>9, <3>1
      <3>2. CASE Head(ngapQueue) \notin Amfs  BY <2>5, <3>2
      <3> QED  BY <3>1, <3>2
    <2> QED  BY <2>1, <2>6, <2>9, <2>10, ListenerKept
  <1>6. ASSUME NEW u \in Ues, attach(u) PROVE ListenerInv'
    <2>1. /\ UNCHANGED <<timers, triggerPc, told, skipped, sctpQueue, ngapQueue>>
          /\ triggerQueue' = Report(triggerQueue, u, "UE_MR_GNB")
      BY <1>6 DEF attach, triggerVars, netVars, sctpVars
    <2>2. ~skipped /\ triggerPc' # "dead" /\ Fine(timers, triggerQueue)  BY <2>1 DEF ListenerInv
    <2>3. "UE_MR_GNB" \in Happenings /\ At(Reads, "UE_MR_GNB") = {}
      BY HappeningsContain, ReadsAreStarted
    <2>4. /\ Fine(timers, triggerQueue')
          /\ \A n \in Nodes : \A x : Got(timers, triggerQueue, n, x) => Got(timers, triggerQueue', n, x)
      BY <1>t, <2>1, <2>2, <2>3, ReportEvent
    <2>5. SetupSent' = SetupSent  BY <2>1 DEF SetupSent
    <2> QED  BY <2>1, <2>2, <2>4, <2>5, ListenerKept
  <1>7. ASSUME NEW u \in Ues, takeCommand(u) PROVE ListenerInv'
    <2>0. /\ UNCHANGED <<timers, triggerPc, skipped, ngapQueue>>
      BY <1>7 DEF takeCommand, triggerVars, netVars
    <2>1. ~skipped /\ triggerPc' # "dead" /\ Fine(timers, triggerQueue)  BY <2>0 DEF ListenerInv
    <2>2. CASE UNCHANGED <<told, triggerQueue, sctpQueue>>
      <3>1. SetupSent' = SetupSent  BY <2>0, <2>2 DEF SetupSent
      <3> QED  BY <2>0, <2>1, <2>2, <3>1, ListenerQuiet
    <2>3. CASE ~UNCHANGED <<told, triggerQueue, sctpQueue>>
      <3> DEFINE c == Head(commands[u])
                 r == Request[c]
                 m == [from |-> u, amf |-> FirstAmf]
      <3>1. /\ c \in DOMAIN Request /\ told' = [told EXCEPT ![u] = @ \cup {r}]
            /\ triggerQueue' = Report(triggerQueue, u, r)
            /\ sctpQueue' = sctpQueue \/ sctpQueue' = Append(sctpQueue, m)
        BY <1>7, <2>3 DEF takeCommand
      <3>2. r \in Happenings /\ At(Reads, r) = {}  BY <3>1, HappeningsContain, ReadsAreStarted
      <3>3. r # NONE  BY <3>2
      <3>4. m \in [from : Ues \cup {"gnb"}, amf : Amfs] /\ m.from # "gnb"  OBVIOUS
      <3> HIDE DEF r, m
      <3>5. /\ Fine(timers, triggerQueue')
            /\ \A n \in Nodes : \A x : Got(timers, triggerQueue, n, x) => Got(timers, triggerQueue', n, x)
            /\ \A x \in At(Starts, r) : Got(timers, triggerQueue', u, x)
        BY <1>t, <2>1, <3>1, <3>2, <3>3, ReportEvent
      <3>6. SetupSent' => SetupSent
        <4>1. CASE sctpQueue' = sctpQueue  BY <2>0, <4>1 DEF SetupSent
        <4>2. CASE sctpQueue' = Append(sctpQueue, m)
          <5>1. /\ Len(sctpQueue) \in Nat /\ Len(sctpQueue') = Len(sctpQueue) + 1
                /\ sctpQueue'[Len(sctpQueue) + 1] = m
                /\ \A i \in 1..Len(sctpQueue) : sctpQueue'[i] = sctpQueue[i]
            BY <1>t, <3>4, <4>2, AppendProperties, LenProperties
          <5> QED  BY <2>0, <3>4, <5>1 DEF SetupSent
        <4> QED  BY <3>1, <4>1, <4>2
      <3>7. \A v \in Ues : \A w \in told'[v] : w \in told[v] \/ (v = u /\ w = r)
        BY <1>t, <3>1
      <3>8. \A v \in Ues : \A w \in told'[v] :
               w \in told[v] \/ \A x \in At(Starts, w) : Got(timers', triggerQueue', v, x)
        BY <2>0, <3>5, <3>7
      <3> QED  BY <2>0, <2>1, <3>5, <3>6, <3>8, ListenerKept
    <2> QED  BY <2>2, <2>3
  <1>8. ASSUME NEW u \in Ues, NEW message \in DOMAIN Reaction, receiveNas(u, message)
        PROVE  ListenerInv'
    <2>1. /\ UNCHANGED <<timers, triggerPc, sctpQueue, ngapQueue>>
          /\ skipped' = (skipped \/ ~(Awaits[message] \subseteq told[u]))
      BY <1>8 DEF receiveNas, triggerVars, sctpVars
    <2>2. PICK reaction \in Reaction[message] :
             /\ triggerQueue' = NasTriggers(u, message, reaction)
             /\ told' = [told EXCEPT ![u] = @ \cup ({reaction} \ {NONE})]
      BY <1>8 DEF receiveNas
    <2>3. ~skipped /\ Awaits[message] \subseteq told[u]  BY <2>1
    <2>4. triggerPc' # "dead" /\ Fine(timers, triggerQueue) /\ ToldInv  BY <2>1, <2>3 DEF ListenerInv
    <2> DEFINE q1 == Report(triggerQueue, u, message)
               q2 == Report(q1, u, reaction)
    <2>5. triggerQueue' = q2  BY <2>2 DEF NasTriggers
    <2>6. reaction \in Happenings \cup {NONE} /\ message \in Happenings /\ message # NONE
      BY HappeningsContain
    <2>7. \A x \in At(Reads, message) : Got(timers, triggerQueue, u, x)
      <3> SUFFICES ASSUME NEW x \in At(Reads, message) PROVE Got(timers, triggerQueue, u, x)
        OBVIOUS
      <3>1. PICK w \in Awaits[message] : x \in At(Starts, w)  BY ReadsAreStarted
      <3> QED  BY <2>3, <2>4, <3>1 DEF ToldInv
    <2>8. /\ q1 \in Seq(EventSet) /\ Fine(timers, q1)
          /\ \A n \in Nodes : \A x : Got(timers, triggerQueue, n, x) => Got(timers, q1, n, x)
          /\ \A x \in At(Starts, message) : Got(timers, q1, u, x)
      BY <1>t, <2>4, <2>6, <2>7, ReportEvent
    <2> HIDE DEF q1
    <2>9. reaction # NONE => \A x \in At(Reads, reaction) : Got(timers, q1, u, x)
      BY <2>8, ReadsAreStarted
    <2>10. /\ Fine(timers, q2)
           /\ \A n \in Nodes : \A x : Got(timers, q1, n, x) => Got(timers, q2, n, x)
           /\ reaction # NONE => \A x \in At(Starts, reaction) : Got(timers, q2, u, x)
      BY <2>6, <2>8, <2>9, ReportEvent
    <2> HIDE DEF q2
    <2>11. \A v \in Ues : \A w \in told'[v] : w \in told[v] \/ (v = u /\ w = reaction /\ reaction # NONE)
      BY <1>t, <2>2
    <2>12. \A v \in Ues : \A w \in told'[v] :
              w \in told[v] \/ \A x \in At(Starts, w) : Got(timers', triggerQueue', v, x)
      BY <2>1, <2>5, <2>10, <2>11
    <2>13. SetupSent' = SetupSent  BY <2>1 DEF SetupSent
    <2> QED  BY <2>1, <2>3, <2>4, <2>5, <2>8, <2>10, <2>12, <2>13, ListenerKept
  <1>9. CASE Triggering
    <2>1. /\ triggerQueue # <<>> /\ triggerQueue' = Tail(triggerQueue)
          /\ UNCHANGED <<told, skipped, sctpQueue, ngapQueue>>
          /\ \E next \in {"run", "prompt"} : loadTestListener(next)
      BY <1>9 DEF Triggering, onConnectedSctp, onConnectedUe, onSwitched, onConnectedIPv4, onMessage,
         Take, TriggeringOnly, ueVars, netVars, sctpVars
    <2>2. PICK next \in {"run", "prompt"} : loadTestListener(next)  BY <2>1
    <2>3. event \in EventSet  BY <1>t, <2>1, HeadTailProperties DEF event
    <2>4. /\ timers' = [timers EXCEPT ![event.node] = timers[event.node] \cup At(Starts, event.what)]
          /\ triggerPc' = IF At(Reads, event.what) \subseteq timers[event.node] \cup At(Starts, event.what)
                             THEN next ELSE "dead"
      BY <2>2 DEF loadTestListener
    <2>5. timers' \in [Nodes -> SUBSET Timers]
      BY <1>t, <2>3, <2>4, TimersType DEF EventSet, Nodes
    <2>6. ~skipped /\ Fine(timers, triggerQueue)  BY <2>1 DEF ListenerInv
    <2>7. /\ At(Reads, event.what) \subseteq timers'[event.node]
          /\ Fine(timers', Tail(triggerQueue))
          /\ \A n \in Nodes : \A x :
                 Got(timers, triggerQueue, n, x) => Got(timers', Tail(triggerQueue), n, x)
      BY <1>t, <2>1, <2>4, <2>5, <2>6, TakeEvent DEF event
    <2>8. timers'[event.node] = timers[event.node] \cup At(Starts, event.what)
      BY <1>t, <2>3, <2>4 DEF EventSet, Nodes
    <2>9. triggerPc' # "dead"  BY <2>4, <2>7, <2>8
    <2>10. SetupSent' = SetupSent  BY <2>1 DEF SetupSent
    <2> QED  BY <2>1, <2>6, <2>7, <2>9, <2>10, ListenerKept
  <1>10. CASE onTesterInit
    <2>1. UNCHANGED <<timers, triggerQueue, told, skipped, sctpQueue, ngapQueue>> /\ triggerPc' # "dead"
      BY <1>10 DEF onTesterInit, TriggeringOnly, ueVars, netVars, sctpVars
    <2>2. SetupSent' = SetupSent  BY <2>1 DEF SetupSent
    <2>3. ~skipped  BY <2>1
    <2> QED  BY <2>1, <2>2, <2>3, ListenerQuiet
  <1> QED
    BY <1>1, <1>2, <1>3, <1>4, <1>5, <1>6, <1>7, <1>8, <1>9, <1>10
    DEF Next, Main, Sctp, Connecting, Searching

LEMMA ListenerInit == Init => ListenerInv
  <1> SUFFICES ASSUME Init PROVE ListenerInv  OBVIOUS
  <1>1. /\ 1..Len(triggerQueue) = {} /\ 1..Len(sctpQueue) = {} /\ 1..Len(ngapQueue) = {}
        /\ \A u \in Ues : told[u] = {}
        /\ triggerPc = "run"
    BY DEF Init
  <1> QED  BY <1>1 DEF ListenerInv, Fine, ToldInv, SetupInv, SetupSent

(* As long as the network leaves out no step of the procedure, no event makes *)
(* the load test listener end the triggering thread, for every number of      *)
(* nodes and however the steps of the nodes interleave in the queue.          *)
THEOREM ListenerDeathCorrect == Spec => []ListenerDeathExplained
  <1>1. ASSUME TypeOK, ListenerInv, [Next]_vars PROVE ListenerInv'
    BY <1>1, HistoryNext
  <1>2. ListenerInv => ListenerDeathExplained  BY DEF ListenerInv, ListenerDeathExplained
  <1> QED  BY ListenerInit, TypeCorrect, <1>1, <1>2, PTL DEF Spec

-----------------------------------------------------------------------------
(* Nobody waits for ever: what is waited for is on its way.                  *)

In(queue, e) == \E i \in 1..Len(queue) : queue[i] = e

LEMMA InAppend ==
    ASSUME NEW queue \in Seq(EventSet), NEW e \in EventSet
    PROVE  /\ In(Append(queue, e), e)
           /\ \A x : In(queue, x) => In(Append(queue, e), x)
  <1> DEFINE q2 == Append(queue, e)
  <1>1. /\ Len(queue) \in Nat /\ Len(q2) = Len(queue) + 1 /\ q2[Len(queue) + 1] = e
        /\ \A i \in 1..Len(queue) : q2[i] = queue[i]
    BY AppendProperties, LenProperties
  <1> HIDE DEF q2
  <1>2. Len(queue) + 1 \in 1..Len(q2)  BY <1>1
  <1>3. \A i \in 1..Len(queue) : i \in 1..Len(q2)  BY <1>1
  <1>4. In(q2, e) /\ \A x : In(queue, x) => In(q2, x)  BY <1>1, <1>2, <1>3 DEF In
  <1> QED  BY <1>4 DEF q2

LEMMA InReport ==
    ASSUME NEW queue \in Seq(EventSet), NEW u \in Ues, NEW what \in Happenings \cup {NONE}
    PROVE  \A x : In(queue, x) => In(Report(queue, u, what), x)
  <1>1. CASE what = NONE  BY <1>1 DEF Report
  <1>2. CASE what # NONE
    <2> DEFINE e == Event(u, what)
    <2>1. e \in EventSet  BY <1>2 DEF Event, EventSet
    <2>2. Report(queue, u, what) = Append(queue, e)  BY <1>2 DEF Report
    <2> HIDE DEF e
    <2> QED  BY <2>1, <2>2, InAppend
  <1> QED  BY <1>1, <1>2

\* An event that is taken out of the queue was its first.
LEMMA InTail ==
    ASSUME NEW queue \in Seq(EventSet), queue # <<>>, NEW x, In(queue, x), x # Head(queue)
    PROVE  In(Tail(queue), x)
  <1> DEFINE q2 == Tail(queue)
  <1>1. /\ Head(queue) = queue[1] /\ Len(queue) \in Nat /\ Len(queue) > 0
        /\ Len(q2) = Len(queue) - 1
        /\ \A i \in 1..Len(q2) : q2[i] = queue[i + 1]
    BY HeadTailProperties, LenProperties
  <1>2. PICK i \in 1..Len(queue) : queue[i] = x  BY DEF In
  <1> HIDE DEF q2
  <1>3. i - 1 \in 1..Len(q2) /\ (i - 1) + 1 = i  BY <1>1, <1>2
  <1>4. q2[i - 1] = x  BY <1>1, <1>2, <1>3
  <1>5. In(q2, x)  BY <1>3, <1>4 DEF In
  <1> QED  BY <1>5 DEF q2

\* The threads have been started, and the SCTP event is queued until it is handled.
SctpAnnounced ==
    /\ mainPc = "done" => initState # "none"
    /\ mainPc # "createGnb" => sctpPc # "off" /\ \A a \in Amfs : client[a] # "off"
    /\ sctpPc \in {"announce", "loop", "dead"} /\ ~missed /\ initState \in {"none", "WAITING_GNB"}
         => In(triggerQueue, Event("gnb", "SCTP"))

\* So is the connection of each UE that is waited for but already attached.
UesAnnounced ==
    /\ ~UesCreated => attached = {}
    /\ initState = "WAITING_UE" =>
         /\ waitingUes # {}
         /\ \A u \in waitingUes \cap attached : In(triggerQueue, Event(u, "UE_MR_GNB"))

\* No UE has done anything before a test is selected.
NoTestYet ==
    initState # "INIT_DONE" =>
        /\ known = {} /\ ~skipped
        /\ \A u \in Ues : commands[u] = <<>>
        /\ \A i \in 1..Len(sctpQueue) : sctpQueue[i].from = "gnb"

StartInv == SctpAnnounced /\ UesAnnounced /\ NoTestYet

\* Steps of other threads: the queue loses none of its events.
LEMMA AnnouncedStutter ==
    ASSUME SctpAnnounced, UesAnnounced, UNCHANGED <<mainPc, initState, waitingUes, missed, attached>>,
           UNCHANGED sctpPc \/ (sctpPc \in {"announce", "loop", "dead"} /\ sctpPc' # "off"),
           \A a \in Amfs : client'[a] = "off" => client[a] = "off",
           \A e : In(triggerQueue, e) => In(triggerQueue', e)
    PROVE  SctpAnnounced' /\ UesAnnounced'
  BY DEF SctpAnnounced, UesAnnounced, UesCreated

LEMMA AnnouncedNext ==
    ASSUME TypeOK, LinkInv, ConnectInv, SctpAnnounced, UesAnnounced, [Next]_vars
    PROVE  SctpAnnounced' /\ UesAnnounced'
  <1>t. triggerQueue \in Seq(EventSet)  BY DEF TypeOK, EventSet
  <1>1. CASE createGnb
    <2>1. /\ mainPc' = "wait" /\ sctpPc' = "wait" /\ \A a \in Amfs : client'[a] = "starting"
          /\ UNCHANGED <<initState, waitingUes, missed, attached, triggerQueue>>
      BY <1>1 DEF createGnb, testerVars, ueVars
    <2>2. initState = "none"  BY <1>1 DEF createGnb, ConnectInv
    <2> QED  BY <2>1, <2>2 DEF SctpAnnounced, UesAnnounced, UesCreated
  <1>2. CASE startWaiting
    <2>1. /\ mainPc = "wait" /\ initState' = "WAITING_GNB"
          /\ UNCHANGED <<sctpPc, client, waitingUes, missed, attached, triggerQueue>>
      BY <1>2 DEF startWaiting, sctpVars, linkVars, ueVars
    <2>2. initState = "none"  BY <2>1 DEF ConnectInv
    <2> QED  BY <2>1, <2>2 DEF SctpAnnounced, UesAnnounced, UesCreated
  <1>3. ASSUME NEW a \in Amfs, start(a) \/ onSetup(a) \/ setupCounted(a) \/ associationFails(a)
        PROVE  SctpAnnounced' /\ UesAnnounced'
    <2>1. UNCHANGED <<mainPc, initState, waitingUes, missed, attached, sctpPc, triggerQueue>>
      BY <1>3 DEF start, onSetup, setupCounted, associationFails, ReceiverOnly, testerVars,
         ueVars, sctpVars
    <2>2. \A b \in Amfs : client'[b] = "off" => client[b] = "off"
      BY <1>3 DEF start, onSetup, setupCounted, associationFails, TypeOK
    <2> QED  BY <2>1, <2>2, AnnouncedStutter
  <1>4. CASE triggerSctp
    <2> DEFINE e == Event("gnb", "SCTP")
    <2>1. /\ UNCHANGED <<mainPc, initState, waitingUes, missed, attached, client>>
          /\ triggerQueue' = Append(triggerQueue, e) /\ sctpPc' = "announce"
      BY <1>4 DEF triggerSctp, testerVars, ueVars, linkVars
    <2>2. e \in EventSet  BY HappeningsContain DEF Event, EventSet
    <2>3. In(triggerQueue', e) /\ \A x : In(triggerQueue, x) => In(triggerQueue', x)
      BY <1>t, <2>1, <2>2, InAppend
    <2> QED  BY <2>1, <2>3 DEF SctpAnnounced, UesAnnounced, UesCreated
  <1>5. CASE announceReady \/ sctpSend \/ gnbAppMain
    <2>1. /\ UNCHANGED <<mainPc, initState, waitingUes, missed, attached, client, triggerQueue>>
          /\ UNCHANGED sctpPc \/ (sctpPc \in {"announce", "loop", "dead"} /\ sctpPc' # "off")
      BY <1>5 DEF announceReady, sctpSend, gnbAppMain, testerVars, ueVars, linkVars, sctpVars
    <2> QED  BY <2>1, AnnouncedStutter
  <1>6. CASE ngapMain
    <2>1. /\ UNCHANGED <<mainPc, initState, waitingUes, missed, attached, client, sctpPc>>
          /\ \E e \in EventSet : triggerQueue' = Append(triggerQueue, e)
      <3>1. Event("gnb", "NGSetupRequest") \in EventSet /\ Event("gnb", "NGSetupResponse") \in EventSet
        BY HappeningsContain DEF Event, EventSet
      <3> QED  BY <1>6, <3>1 DEF ngapMain, testerVars, ueVars, linkVars
    <2>2. \A x : In(triggerQueue, x) => In(triggerQueue', x)  BY <1>t, <2>1, InAppend
    <2> QED  BY <2>1, <2>2, AnnouncedStutter
  <1>7. ASSUME NEW u \in Ues, attach(u) PROVE SctpAnnounced' /\ UesAnnounced'
    <2> DEFINE e == Event(u, "UE_MR_GNB")
    <2>1. /\ UNCHANGED <<mainPc, initState, waitingUes, missed, client, sctpPc>> /\ UesCreated
          /\ triggerQueue' = Report(triggerQueue, u, "UE_MR_GNB") /\ attached' = attached \cup {u}
      BY <1>7 DEF attach, testerVars, linkVars, sctpVars
    <2>2. e \in EventSet /\ "UE_MR_GNB" # NONE
      BY HappeningsContain, EventsAssumption DEF Event, EventSet
    <2>3. triggerQueue' = Append(triggerQueue, e)  BY <2>1, <2>2 DEF Report
    <2> HIDE DEF e
    <2>4. In(triggerQueue', e) /\ \A x : In(triggerQueue, x) => In(triggerQueue', x)
      BY <1>t, <2>2, <2>3, InAppend
    <2> USE DEF e
    <2>5. \A v \in attached' : v \in attached \/ In(triggerQueue', Event(v, "UE_MR_GNB"))
      BY <2>1, <2>4
    <2> QED  BY <2>1, <2>4, <2>5 DEF SctpAnnounced, UesAnnounced, UesCreated
  <1>8. ASSUME NEW u \in Ues, takeCommand(u) PROVE SctpAnnounced' /\ UesAnnounced'
    <2>1. UNCHANGED <<mainPc, initState, waitingUes, missed, attached, client, sctpPc>>
      BY <1>8 DEF takeCommand, testerVars, linkVars
    <2>2. \/ UNCHANGED triggerQueue
          \/ \E r \in Happenings : triggerQueue' = Report(triggerQueue, u, r)
      BY <1>8, HappeningsContain DEF takeCommand
    <2>3. \A x : In(triggerQueue, x) => In(triggerQueue', x)  BY <1>t, <2>2, InReport
    <2> QED  BY <2>1, <2>3, AnnouncedStutter
  <1>9. ASSUME NEW u \in Ues, NEW message \in DOMAIN Reaction, receiveNas(u, message)
        PROVE  SctpAnnounced' /\ UesAnnounced'
    <2>1. UNCHANGED <<mainPc, initState, waitingUes, missed, attached, client, sctpPc>>
      BY <1>9 DEF receiveNas, testerVars, linkVars, sctpVars
    <2>2. PICK reaction \in Reaction[message] : triggerQueue' = NasTriggers(u, message, reaction)
      BY <1>9 DEF receiveNas
    <2>3. reaction \in Happenings \cup {NONE} /\ message \in Happenings  BY HappeningsContain
    <2> DEFINE q == Report(triggerQueue, u, message)
    <2>4. q \in Seq(EventSet) /\ \A x : In(triggerQueue, x) => In(q, x)
      BY <1>t, <2>3, ReportType, InReport
    <2> HIDE DEF q
    <2>5. \A x : In(q, x) => In(Report(q, u, reaction), x)  BY <2>3, <2>4, InReport
    <2>6. triggerQueue' = Report(q, u, reaction)  BY <2>2 DEF NasTriggers, q
    <2>7. \A x : In(triggerQueue, x) => In(triggerQueue', x)  BY <2>4, <2>5, <2>6
    <2> QED  BY <2>1, <2>7, AnnouncedStutter
  <1>10. CASE Triggering
    <2>1. /\ triggerQueue # <<>> /\ triggerQueue' = Tail(triggerQueue)
          /\ UNCHANGED <<mainPc, client, sctpPc, attached>>
      BY <1>10 DEF Triggering, onConnectedSctp, onConnectedUe, onSwitched, onConnectedIPv4, onMessage,
         Take, TriggeringOnly, linkVars, ueVars, sctpVars
    <2>2. \A x : In(triggerQueue, x) /\ x # event => In(triggerQueue', x)
      BY <1>t, <2>1, InTail DEF event
    <2>3. CASE onConnectedSctp
      <3>1. CASE initState = "WAITING_GNB"
        <4>1. initState' = "WAITING_UE" /\ waitingUes' = Ues /\ attached = {}
          BY <2>3, <3>1 DEF onConnectedSctp, UesAnnounced, UesCreated
        <4> QED  BY <2>1, <3>1, <4>1, UesAssumption DEF SctpAnnounced, UesAnnounced, UesCreated
      <3>2. CASE initState # "WAITING_GNB"
        <4>1. missed' = TRUE /\ UNCHANGED <<initState, waitingUes>>
          BY <2>3, <3>2 DEF onConnectedSctp
        <4>2. \A u : Event(u, "UE_MR_GNB") # event  BY <2>3 DEF onConnectedSctp, Event
        <4> QED  BY <2>1, <2>2, <4>1, <4>2 DEF SctpAnnounced, UesAnnounced, UesCreated
      <3> QED  BY <3>1, <3>2
    <2>4. CASE onConnectedUe
      <3>1. UNCHANGED missed /\ event # Event("gnb", "SCTP")
        BY <2>4 DEF onConnectedUe, Event
      <3>2. CASE initState = "WAITING_UE"
        <4> DEFINE rest == waitingUes \ {event.node}
        <4>1. /\ waitingUes' = rest
              /\ initState' = IF rest = {} THEN "INIT_DONE" ELSE "WAITING_UE"
          BY <2>4, <3>2 DEF onConnectedUe, AllConnected
        <4>2. \A u \in rest : Event(u, "UE_MR_GNB") # event  BY DEF Event
        <4> QED  BY <2>1, <2>2, <3>1, <3>2, <4>1, <4>2 DEF SctpAnnounced, UesAnnounced, UesCreated
      <3>3. CASE initState # "WAITING_UE"
        <4>1. UNCHANGED <<initState, waitingUes>>  BY <2>4, <3>3 DEF onConnectedUe
        <4> QED  BY <2>1, <2>2, <3>1, <3>3, <4>1 DEF SctpAnnounced, UesAnnounced, UesCreated
      <3> QED  BY <3>2, <3>3
    <2>5. CASE onSwitched \/ onConnectedIPv4 \/ onMessage
      <3>1. UNCHANGED <<initState, waitingUes, missed>>
        BY <2>5 DEF onSwitched, onConnectedIPv4, onMessage, testerVars
      <3>2. event.what \notin {"SCTP", "UE_MR_GNB"}
        BY <2>5 DEF onSwitched, onConnectedIPv4, onMessage, Starts, Reads
      <3>3. event # Event("gnb", "SCTP") /\ \A u : Event(u, "UE_MR_GNB") # event
        BY <3>2 DEF Event
      <3> QED  BY <2>1, <2>2, <3>1, <3>3 DEF SctpAnnounced, UesAnnounced, UesCreated
    <2> QED  BY <1>10, <2>3, <2>4, <2>5 DEF Triggering
  <1>11. CASE onTesterInit
    <2>1. UNCHANGED <<mainPc, initState, waitingUes, missed, attached, client, sctpPc, triggerQueue>>
      BY <1>11 DEF onTesterInit, TriggeringOnly, ueVars, linkVars, sctpVars
    <2> QED  BY <2>1, AnnouncedStutter
  <1>12. CASE UNCHANGED vars
    BY <1>12, AnnouncedStutter DEF vars, testerVars, ueVars, linkVars, sctpVars
  <1> QED
    BY <1>1, <1>2, <1>3, <1>4, <1>5, <1>6, <1>7, <1>8, <1>9, <1>10, <1>11, <1>12
    DEF Next, Main, Sctp, Connecting, Searching

LEMMA NoTestNext ==
    ASSUME TypeOK, ConnectInv, NoTestYet, [Next]_vars
    PROVE  NoTestYet'
  <1>t. sctpQueue \in Seq([from : Ues \cup {"gnb"}, amf : Amfs])  BY DEF TypeOK
  <1>0. SUFFICES ASSUME initState' # "INIT_DONE"
        PROVE  /\ known' = {} /\ ~skipped'
               /\ \A u \in Ues : commands'[u] = <<>>
               /\ \A i \in 1..Len(sctpQueue') : sctpQueue'[i].from = "gnb"
    BY DEF NoTestYet
  <1>1. initState # "INIT_DONE"
    <2>1. CASE startWaiting  BY <2>1 DEF startWaiting, ConnectInv
    <2>2. CASE onConnectedSctp \/ onConnectedUe
      BY <1>0, <2>2 DEF onConnectedSctp, onConnectedUe
    <2>3. CASE UNCHANGED initState  BY <1>0, <2>3
    <2>4. startWaiting \/ onConnectedSctp \/ onConnectedUe \/ UNCHANGED initState
      BY DEF Next, Main, Sctp, Triggering, Connecting, Searching, createGnb, triggerSctp,
         announceReady, sctpSend, gnbAppMain, ngapMain, onSwitched, onConnectedIPv4, onMessage,
         onTesterInit, start, onSetup, setupCounted, associationFails, ReceiverOnly, attach,
         takeCommand, receiveNas, testerVars, vars
    <2> QED  BY <2>1, <2>2, <2>3, <2>4
  <1>2. /\ known = {} /\ ~skipped /\ triggerPc # "prompt"
        /\ \A u \in Ues : commands[u] = <<>>
        /\ \A i \in 1..Len(sctpQueue) : sctpQueue[i].from = "gnb"
    BY <1>1 DEF NoTestYet, ConnectInv
  <1>3. CASE sctpSend
    <2>1. sctpQueue # <<>> /\ sctpQueue' = Tail(sctpQueue) /\ UNCHANGED <<skipped, commands>>
      BY <1>3 DEF sctpSend
    <2>2. /\ Head(sctpQueue) = sctpQueue[1] /\ Len(sctpQueue) \in Nat /\ Len(sctpQueue) > 0
          /\ Len(sctpQueue') = Len(sctpQueue) - 1
          /\ \A i \in 1..Len(sctpQueue') : sctpQueue'[i] = sctpQueue[i + 1]
      BY <1>t, <2>1, HeadTailProperties, LenProperties
    <2>3. \A i \in 1..Len(sctpQueue') : i + 1 \in 1..Len(sctpQueue)  BY <2>2
    <2>4. 1 \in 1..Len(sctpQueue)  BY <2>2
    <2>5. Head(sctpQueue).from = "gnb"  BY <1>2, <2>2, <2>4
    <2>6. UNCHANGED known  BY <1>3, <2>5 DEF sctpSend
    <2> QED  BY <1>2, <2>1, <2>2, <2>3, <2>6
  <1>4. CASE ngapMain
    <2>1. UNCHANGED <<known, skipped, commands>>  BY <1>4 DEF ngapMain, netVars
    <2>2. CASE UNCHANGED sctpQueue  BY <1>2, <2>1, <2>2
    <2>3. CASE ~UNCHANGED sctpQueue
      <3> DEFINE m == [from |-> "gnb", amf |-> Head(ngapQueue)]
      <3>1. m \in [from : Ues \cup {"gnb"}, amf : Amfs] /\ m.from = "gnb"
        BY <1>4, <2>3 DEF ngapMain
      <3>2. sctpQueue' = Append(sctpQueue, m)  BY <1>4, <2>3 DEF ngapMain
      <3> HIDE DEF m
      <3>3. /\ Len(sctpQueue) \in Nat /\ Len(sctpQueue') = Len(sctpQueue) + 1
            /\ sctpQueue'[Len(sctpQueue) + 1] = m
            /\ \A i \in 1..Len(sctpQueue) : sctpQueue'[i] = sctpQueue[i]
        BY <1>t, <3>1, <3>2, AppendProperties, LenProperties
      <3>4. \A i \in 1..Len(sctpQueue') : i \in 1..Len(sctpQueue) \/ i = Len(sctpQueue) + 1
        BY <3>3
      <3>5. \A i \in 1..Len(sctpQueue') : sctpQueue'[i].from = "gnb"
        BY <1>2, <3>1, <3>3, <3>4
      <3> QED  BY <1>2, <2>1, <3>5
    <2> QED  BY <2>2, <2>3
  <1>5. ASSUME NEW u \in Ues, takeCommand(u) PROVE FALSE
    BY <1>2, <1>5 DEF takeCommand
  <1>6. ASSUME NEW u \in Ues, NEW message \in DOMAIN Reaction, receiveNas(u, message) PROVE FALSE
    BY <1>2, <1>6 DEF receiveNas
  <1>7. CASE onSwitched \/ onConnectedIPv4
    <2>1. UNCHANGED <<known, skipped, commands, sctpQueue>>
      BY <1>1, <1>7 DEF onSwitched, onConnectedIPv4, TriggeringOnly, netVars, sctpVars
    <2> QED  BY <1>2, <2>1
  <1>8. CASE onTesterInit  BY <1>2, <1>8 DEF onTesterInit
  <1>9. CASE \/ createGnb \/ startWaiting \/ triggerSctp \/ announceReady \/ gnbAppMain
             \/ onConnectedSctp \/ onConnectedUe \/ onMessage \/ UNCHANGED vars
             \/ \E a \in Amfs : start(a) \/ onSetup(a) \/ setupCounted(a) \/ associationFails(a)
             \/ \E u \in Ues : attach(u)
    <2>1. UNCHANGED <<known, skipped, commands, sctpQueue>>
      BY <1>9 DEF createGnb, startWaiting, triggerSctp, announceReady, gnbAppMain, onConnectedSctp,
         onConnectedUe, onMessage, start, onSetup, setupCounted, associationFails, ReceiverOnly,
         attach, TriggeringOnly, netVars, sctpVars, vars
    <2> QED  BY <1>2, <2>1
  <1> QED
    BY <1>3, <1>4, <1>5, <1>6, <1>7, <1>8, <1>9
    DEF Next, Main, Sctp, Connecting, Searching, Triggering

LEMMA StartInit == Init => StartInv
  <1> SUFFICES ASSUME Init PROVE StartInv  OBVIOUS
  <1>1. 1..Len(sctpQueue) = {} /\ \A u \in Ues : commands[u] = <<>>  BY DEF Init
  <1> QED  BY <1>1 DEF Init, StartInv, SctpAnnounced, UesAnnounced, UesCreated, NoTestYet

\* Without a failed association the SCTP task does not wait in vain.
LEMMA AllSetupUnlessFailed ==
    ASSUME TypeOK, LinkInv, SctpAnnounced, mainPc # "createGnb",
           \A a \in Amfs : client[a] \notin {"starting", "connected", "setup", "failed"}
    PROVE  AllSetup
  <1>1. \A a \in Amfs : client[a] \in {"up", "lost"}  BY DEF TypeOK, SctpAnnounced
  <1>2. Counted = Amfs  BY <1>1 DEF Counted
  <1> QED  BY <1>2 DEF LinkInv, AllSetup

-----------------------------------------------------------------------------
(* The SCTP event is queued once, after the last association was set up; if  *)
(* it is missed, no other one comes.                                         *)

SctpEvent == Event("gnb", "SCTP")

Places(queue) == {i \in 1..Len(queue) : queue[i] = SctpEvent}

\* Until it is handled, there is at most one.
OneSctp ==
    /\ \A i, j \in Places(triggerQueue) : i = j
    /\ sctpPc \in {"off", "wait"} => Places(triggerQueue) = {} /\ ~missed /\ ~UesCreated
    /\ missed \/ UesCreated => Places(triggerQueue) = {}
    /\ missed => ~UesCreated

LEMMA SctpIsEvent == SctpEvent \in EventSet
  BY HappeningsContain DEF SctpEvent, Event, EventSet

\* Another event leaves the places as they are; the SCTP event has a new one.
LEMMA PlacesAppend ==
    ASSUME NEW queue \in Seq(EventSet), NEW e \in EventSet
    PROVE  Places(Append(queue, e)) =
               Places(queue) \cup (IF e = SctpEvent THEN {Len(queue) + 1} ELSE {})
  <1> DEFINE q2 == Append(queue, e)
  <1>1. /\ Len(queue) \in Nat /\ Len(q2) = Len(queue) + 1 /\ q2[Len(queue) + 1] = e
        /\ \A i \in 1..Len(queue) : q2[i] = queue[i]
    BY AppendProperties, LenProperties
  <1> HIDE DEF q2
  <1>2. 1..Len(q2) = (1..Len(queue)) \cup {Len(queue) + 1}  BY <1>1
  <1>3. \A i : i \in Places(q2) <=> \/ i \in Places(queue)
                                    \/ i = Len(queue) + 1 /\ e = SctpEvent
    BY <1>1, <1>2 DEF Places
  <1>4. Places(q2) = Places(queue) \cup (IF e = SctpEvent THEN {Len(queue) + 1} ELSE {})
    BY <1>3
  <1> QED  BY <1>4 DEF q2

LEMMA PlacesReport ==
    ASSUME NEW queue \in Seq(EventSet), NEW u \in Ues, NEW what \in Happenings \cup {NONE}
    PROVE  Places(Report(queue, u, what)) = Places(queue)
  <1>1. CASE what = NONE  BY <1>1 DEF Report
  <1>2. CASE what # NONE
    <2>1. Event(u, what) \in EventSet /\ Event(u, what) # SctpEvent
      BY <1>2, EventsAssumption DEF Event, EventSet, SctpEvent
    <2>2. Places(Append(queue, Event(u, what))) = Places(queue)  BY <2>1, PlacesAppend
    <2> QED  BY <1>2, <2>2 DEF Report
  <1> QED  BY <1>1, <1>2

\* Of one place at most nothing is left when the SCTP event is taken.
LEMMA PlacesTail ==
    ASSUME NEW queue \in Seq(EventSet), queue # <<>>
    PROVE  /\ \A i \in Places(Tail(queue)) : i + 1 \in Places(queue)
           /\ (\A i, j \in Places(queue) : i = j) =>
                  /\ \A i, j \in Places(Tail(queue)) : i = j
                  /\ Head(queue) = SctpEvent => Places(Tail(queue)) = {}
  <1> DEFINE q2 == Tail(queue)
  <1>1. /\ Head(queue) = queue[1] /\ Len(queue) \in Nat /\ Len(queue) > 0
        /\ Len(q2) = Len(queue) - 1
        /\ \A i \in 1..Len(q2) : q2[i] = queue[i + 1]
    BY HeadTailProperties, LenProperties
  <1> HIDE DEF q2
  <1>2. \A i \in Places(q2) : i \in Nat /\ i > 0 /\ i + 1 \in Places(queue)
    <2> SUFFICES ASSUME NEW i \in 1..Len(q2), q2[i] = SctpEvent
                 PROVE  i \in Nat /\ i > 0 /\ i + 1 \in Places(queue)
      BY DEF Places
    <2>1. i + 1 \in 1..Len(queue) /\ i \in Nat /\ i > 0  BY <1>1
    <2>2. queue[i + 1] = SctpEvent  BY <1>1
    <2> QED  BY <2>1, <2>2 DEF Places
  <1>3. Head(queue) = SctpEvent => 1 \in Places(queue)
    <2>1. 1 \in 1..Len(queue)  BY <1>1
    <2> QED  BY <1>1, <2>1 DEF Places
  <1>4. ASSUME \A i, j \in Places(queue) : i = j
        PROVE  /\ \A i, j \in Places(q2) : i = j
               /\ Head(queue) = SctpEvent => Places(q2) = {}
    <2>1. ASSUME NEW i \in Places(q2), NEW j \in Places(q2) PROVE i = j
      <3>1. i + 1 = j + 1  BY <1>2, <1>4
      <3> QED  BY <1>2, <3>1
    <2>2. ASSUME Head(queue) = SctpEvent, NEW i \in Places(q2) PROVE FALSE
      <3>1. i + 1 = 1  BY <1>2, <1>3, <1>4, <2>2
      <3> QED  BY <1>2, <3>1
    <2> QED  BY <2>1, <2>2
  <1>5. /\ \A i \in Places(q2) : i + 1 \in Places(queue)
        /\ (\A i, j \in Places(queue) : i = j) =>
               /\ \A i, j \in Places(q2) : i = j
               /\ Head(queue) = SctpEvent => Places(q2) = {}
    BY <1>2, <1>4
  <1> QED  BY <1>5 DEF q2

\* Steps that queue or take no SCTP event.
LEMMA OneSctpStutter ==
    ASSUME OneSctp, UNCHANGED <<initState, missed>>,
           sctpPc' \in {"off", "wait"} => sctpPc \in {"off", "wait"},
           Places(triggerQueue') = Places(triggerQueue)
    PROVE  OneSctp'
  BY DEF OneSctp, UesCreated

LEMMA OneSctpNext ==
    ASSUME TypeOK, LinkInv, ConnectInv, OneSctp, [Next]_vars
    PROVE  OneSctp'
  <1>t. triggerQueue \in Seq(EventSet)  BY DEF TypeOK, EventSet
  <1>1. CASE createGnb
    <2>1. sctpPc = "off" /\ UNCHANGED <<initState, missed, triggerQueue>>
      BY <1>1 DEF createGnb, LinkInv, testerVars
    <2> QED  BY <2>1, OneSctpStutter
  <1>2. CASE startWaiting
    <2>1. /\ initState = "none" /\ initState' = "WAITING_GNB"
          /\ UNCHANGED <<missed, triggerQueue, sctpPc>>
      BY <1>2 DEF startWaiting, ConnectInv, sctpVars
    <2> QED  BY <2>1 DEF OneSctp, UesCreated
  <1>3. ASSUME NEW a \in Amfs, start(a) \/ onSetup(a) \/ setupCounted(a) \/ associationFails(a)
        PROVE  OneSctp'
    <2>1. UNCHANGED <<initState, missed, triggerQueue, sctpPc>>
      BY <1>3 DEF start, onSetup, setupCounted, associationFails, ReceiverOnly, testerVars, sctpVars
    <2> QED  BY <2>1, OneSctpStutter
  <1>4. CASE triggerSctp
    <2>1. /\ sctpPc = "wait" /\ sctpPc' = "announce" /\ UNCHANGED <<initState, missed>>
          /\ triggerQueue' = Append(triggerQueue, SctpEvent)
      BY <1>4 DEF triggerSctp, testerVars, SctpEvent
    <2>2. Places(triggerQueue') = Places(triggerQueue) \cup {Len(triggerQueue) + 1}
      BY <1>t, <2>1, SctpIsEvent, PlacesAppend
    <2>3. Places(triggerQueue) = {} /\ ~missed /\ ~UesCreated  BY <2>1 DEF OneSctp
    <2> QED  BY <2>1, <2>2, <2>3 DEF OneSctp, UesCreated
  <1>5. CASE announceReady \/ sctpSend \/ gnbAppMain
    <2>1. UNCHANGED <<initState, missed, triggerQueue>>
      BY <1>5 DEF announceReady, sctpSend, gnbAppMain, testerVars
    <2>2. sctpPc' \in {"off", "wait"} => sctpPc \in {"off", "wait"}
      BY <1>5 DEF announceReady, sctpSend, gnbAppMain, sctpVars
    <2> QED  BY <2>1, <2>2, OneSctpStutter
  <1>6. CASE ngapMain
    <2>1. PICK what \in {"NGSetupRequest", "NGSetupResponse"} :
             triggerQueue' = Append(triggerQueue, Event("gnb", what))
      BY <1>6 DEF ngapMain
    <2>2. Event("gnb", what) \in EventSet /\ Event("gnb", what) # SctpEvent
      BY HappeningsContain DEF Event, EventSet, SctpEvent
    <2>3. Places(triggerQueue') = Places(triggerQueue)  BY <1>t, <2>1, <2>2, PlacesAppend
    <2>4. UNCHANGED <<initState, missed, sctpPc>>  BY <1>6 DEF ngapMain, testerVars
    <2> QED  BY <2>3, <2>4, OneSctpStutter
  <1>7. ASSUME NEW u \in Ues, attach(u) PROVE OneSctp'
    <2>1. /\ UNCHANGED <<initState, missed, sctpPc>>
          /\ triggerQueue' = Report(triggerQueue, u, "UE_MR_GNB")
      BY <1>7 DEF attach, testerVars, sctpVars
    <2>2. Places(triggerQueue') = Places(triggerQueue)
      BY <1>t, <2>1, HappeningsContain, PlacesReport
    <2> QED  BY <2>1, <2>2, OneSctpStutter
  <1>8. ASSUME NEW u \in Ues, takeCommand(u) PROVE OneSctp'
    <2>1. UNCHANGED <<initState, missed, sctpPc>>  BY <1>8 DEF takeCommand, testerVars
    <2>2. \/ UNCHANGED triggerQueue
          \/ \E r \in Happenings : triggerQueue' = Report(triggerQueue, u, r)
      BY <1>8, HappeningsContain DEF takeCommand
    <2>3. Places(triggerQueue') = Places(triggerQueue)  BY <1>t, <2>2, PlacesReport
    <2> QED  BY <2>1, <2>3, OneSctpStutter
  <1>9. ASSUME NEW u \in Ues, NEW message \in DOMAIN Reaction, receiveNas(u, message)
        PROVE  OneSctp'
    <2>1. UNCHANGED <<initState, missed, sctpPc>>  BY <1>9 DEF receiveNas, testerVars, sctpVars
    <2>2. PICK reaction \in Reaction[message] : triggerQueue' = NasTriggers(u, message, reaction)
      BY <1>9 DEF receiveNas
    <2>3. reaction \in Happenings \cup {NONE} /\ message \in Happenings  BY HappeningsContain
    <2> DEFINE q == Report(triggerQueue, u, message)
    <2>4. q \in Seq(EventSet) /\ Places(q) = Places(triggerQueue)
      BY <1>t, <2>3, ReportType, PlacesReport
    <2>5. triggerQueue' = Report(q, u, reaction)  BY <2>2 DEF NasTriggers
    <2> HIDE DEF q
    <2>6. Places(triggerQueue') = Places(triggerQueue)  BY <2>3, <2>4, <2>5, PlacesReport
    <2> QED  BY <2>1, <2>6, OneSctpStutter
  <1>10. CASE Triggering
    <2>1. triggerQueue # <<>> /\ triggerQueue' = Tail(triggerQueue) /\ UNCHANGED sctpPc
      BY <1>10 DEF Triggering, onConnectedSctp, onConnectedUe, onSwitched, onConnectedIPv4, onMessage,
         Take, TriggeringOnly, sctpVars
    <2>2. \A i \in Places(triggerQueue') : i + 1 \in Places(triggerQueue)
      BY <1>t, <2>1, PlacesTail
    <2>3. /\ \A i, j \in Places(triggerQueue') : i = j
          /\ event = SctpEvent => Places(triggerQueue') = {}
      BY <1>t, <2>1, PlacesTail DEF OneSctp, event
    <2>4. Places(triggerQueue) = {} => Places(triggerQueue') = {}  BY <2>2
    <2>5. CASE onConnectedSctp
      <3>1. Places(triggerQueue) # {}
        <4>1. event = SctpEvent  BY <2>5 DEF onConnectedSctp, SctpEvent
        <4>2. Head(triggerQueue) = triggerQueue[1] /\ 1 \in 1..Len(triggerQueue)
          BY <1>t, <2>1, HeadTailProperties, LenProperties
        <4> QED  BY <4>1, <4>2 DEF event, Places
      <3>2. ~missed /\ ~UesCreated /\ sctpPc \notin {"off", "wait"}  BY <3>1 DEF OneSctp
      <3>3. Places(triggerQueue') = {}  BY <2>3, <2>5 DEF onConnectedSctp, SctpEvent
      <3>4. \/ ~missed'
            \/ ~UesCreated'
        BY <2>5, <3>2 DEF onConnectedSctp, UesCreated
      <3> QED  BY <2>1, <3>2, <3>3, <3>4 DEF OneSctp
    <2>6. CASE onConnectedUe \/ onSwitched \/ onConnectedIPv4 \/ onMessage
      <3>1. UNCHANGED missed /\ UesCreated' = UesCreated
        BY <2>6 DEF onConnectedUe, onSwitched, onConnectedIPv4, onMessage, testerVars, UesCreated
      <3> QED  BY <2>1, <2>3, <2>4, <3>1 DEF OneSctp
    <2> QED  BY <1>10, <2>5, <2>6 DEF Triggering
  <1>11. CASE onTesterInit
    <2>1. UNCHANGED <<initState, missed, sctpPc, triggerQueue>>
      BY <1>11 DEF onTesterInit, TriggeringOnly, sctpVars
    <2> QED  BY <2>1, OneSctpStutter
  <1>12. CASE UNCHANGED vars
    BY <1>12, OneSctpStutter DEF vars, testerVars, sctpVars
  <1> QED
    BY <1>1, <1>2, <1>3, <1>4, <1>5, <1>6, <1>7, <1>8, <1>9, <1>10, <1>11, <1>12
    DEF Next, Main, Sctp, Connecting, Searching

LEMMA OneSctpInit == Init => OneSctp
  <1> SUFFICES ASSUME Init PROVE OneSctp  OBVIOUS
  <1>1. Places(triggerQueue) = {}  BY DEF Init, Places
  <1> QED  BY <1>1 DEF Init, OneSctp, UesCreated

LEMMA OneSctpCorrect == Spec => []OneSctp
  <1>1. TypeOK /\ LinkInv /\ TesterInv /\ OneSctp /\ [Next]_vars => OneSctp'
    BY OneSctpNext DEF TesterInv
  <1>2. TypeOK /\ LinkInv /\ [Next]_vars => LinkInv'  BY LinkNext
  <1> QED  BY OneSctpInit, LinkInit, TypeCorrect, TesterCorrect, <1>1, <1>2, PTL DEF Spec

\* With a failed association the SCTP task waits for ever.
LEMMA StoppedMeans ==
    ASSUME LinkInv, OneSctp, TypeOK, Stopped
    PROVE  ~UesCreated
  <1>1. CASE missed  BY <1>1 DEF OneSctp
  <1>2. CASE \E a \in Amfs : client[a] = "failed"
    <2>1. sctpPc \in {"off", "wait"}  BY <1>2 DEF LinkInv, TypeOK
    <2> QED  BY <2>1 DEF OneSctp
  <1> QED  BY <1>1, <1>2 DEF Stopped

LEMMA StaysStopped ==
    ASSUME TypeOK, LinkInv, Stopped, [Next]_vars
    PROVE  Stopped'
  <1>1. ASSUME NEW a \in Amfs, client[a] = "failed" PROVE client'[a] = "failed"
    <2>1. mainPc # "createGnb"  BY <1>1 DEF LinkInv
    <2> QED
      BY <1>1, <2>1 DEF Next, Main, Sctp, Triggering, Connecting, Searching, createGnb, startWaiting,
         triggerSctp, announceReady, sctpSend, gnbAppMain, ngapMain, onConnectedSctp, onConnectedUe,
         onMessage, onTesterInit, onSwitched, onConnectedIPv4, TriggeringOnly, start, onSetup,
         setupCounted, associationFails, attach, takeCommand, receiveNas, linkVars, vars, TypeOK
  <1>2. missed => missed'
    BY DEF Next, Main, Sctp, Triggering, Connecting, Searching, createGnb, startWaiting, triggerSctp,
       announceReady, sctpSend, gnbAppMain, ngapMain, onConnectedSctp, onConnectedUe, onMessage,
       onTesterInit, onSwitched, onConnectedIPv4, ReceiverOnly, start, onSetup, setupCounted,
       associationFails, attach, takeCommand, receiveNas, testerVars, vars
  <1> QED  BY <1>1, <1>2 DEF Stopped

(* For every number of AMFs and UEs and all bounds, a start that gets stuck  *)
(* has asked for a test exactly if no association failed and the SCTP event  *)
(* did not come too early.                                                   *)
THEOREM StallCorrect == Spec => []StallExplained
  <1>1. TypeOK /\ LinkInv /\ TesterInv /\ StartInv /\ [Next]_vars => StartInv'
    BY AnnouncedNext, NoTestNext DEF StartInv, TesterInv
  <1>2. TypeOK /\ LinkInv /\ [Next]_vars => LinkInv'  BY LinkNext
  <1>3. TypeOK /\ ListenerInv /\ [Next]_vars => ListenerInv'  BY HistoryNext
  <1>4. ASSUME TypeOK, LinkInv, OneSctp, TesterInv, ListenerInv, StartInv PROVE StallExplained
    <2>0. Stopped => initState # "INIT_DONE"  BY <1>4, StoppedMeans DEF UesCreated
    <2> SUFFICES ASSUME ~CanGoOn, initState # "INIT_DONE", ~missed,
                        \A a \in Amfs : client[a] # "failed"
                 PROVE  FALSE
      BY <2>0 DEF StallExplained, Stopped
    <2>1. mainPc = "done" /\ initState \in {"WAITING_GNB", "WAITING_UE"}
      BY <1>4 DEF CanGoOn, StartInv, SctpAnnounced, TypeOK
    <2>2. triggerPc = "run"
      <3>1. triggerPc # "prompt"  BY <1>4 DEF TesterInv, ConnectInv
      <3>2. triggerPc # "dead"  BY <1>4 DEF ListenerInv, StartInv, NoTestYet
      <3> QED  BY <1>4, <3>1, <3>2 DEF TypeOK
    <2>3. triggerQueue = <<>>  BY <2>2 DEF CanGoOn
    <2>4. \A e : ~In(triggerQueue, e)
      <3>1. 1..Len(triggerQueue) = {}  BY <2>3
      <3> QED  BY <3>1 DEF In
    <2>5. CASE initState = "WAITING_GNB"
      <3>1. sctpPc \notin {"announce", "loop", "dead"}
        BY <1>4, <2>4, <2>5 DEF StartInv, SctpAnnounced
      <3>2. sctpPc = "wait"  BY <1>4, <2>1, <3>1 DEF StartInv, SctpAnnounced, TypeOK
      <3>3. AllSetup  BY <1>4, <2>1, AllSetupUnlessFailed DEF CanGoOn, StartInv
      <3> QED  BY <3>2, <3>3 DEF CanGoOn
    <2>6. CASE initState = "WAITING_UE"
      <3>1. PICK u \in waitingUes : u \in Ues
        BY <1>4, <2>6 DEF StartInv, UesAnnounced, TypeOK
      <3>2. u \notin attached  BY <1>4, <2>4, <2>6, <3>1 DEF StartInv, UesAnnounced
      <3>3. Room
        <4>1. Len(triggerQueue) = 0  BY <2>3
        <4> QED  BY <4>1, BoundsAssumption DEF Room
      <3> QED  BY <2>6, <3>1, <3>2, <3>3 DEF CanGoOn, UesCreated
    <2> QED  BY <2>1, <2>5, <2>6
  <1> QED
    BY StartInit, LinkInit, ListenerInit, TypeCorrect, TesterCorrect, OneSctpCorrect,
       <1>1, <1>2, <1>3, <1>4, PTL
    DEF Spec

\* What is known of a start that was stopped.
NotStarted ==
    initState # "INIT_DONE" /\ attached = {} /\ \A u \in Ues : given[u] = <<>>

(* Neither of the two reasons goes away: from then on no UE is created or    *)
(* connected, no test is asked for and no UE ever gets a command, whatever   *)
(* the other associations do.                                                *)
THEOREM StoppedForGood == Spec => [](Stopped => []NotStarted)
  <1>1. TypeOK /\ LinkInv /\ TesterInv /\ StartInv /\ [Next]_vars => StartInv'
    BY AnnouncedNext, NoTestNext DEF StartInv, TesterInv
  <1>2. TypeOK /\ LinkInv /\ [Next]_vars => LinkInv'  BY LinkNext
  <1>3. TypeOK /\ LinkInv /\ [Next]_vars => (Stopped => Stopped')  BY StaysStopped
  <1>4. ASSUME TypeOK, LinkInv, OneSctp, TesterInv, StartInv, Stopped PROVE NotStarted
    <2>1. ~UesCreated  BY <1>4, StoppedMeans
    <2>2. attached = {} /\ initState # "INIT_DONE"
      BY <1>4, <2>1 DEF StartInv, UesAnnounced, UesCreated
    <2>3. \A u \in Ues : given[u] = <<>>  BY <1>4, <2>2 DEF TesterInv, GivenInv
    <2> QED  BY <2>2, <2>3 DEF NotStarted
  <1> QED
    BY StartInit, LinkInit, TypeCorrect, TesterCorrect, OneSctpCorrect, <1>1, <1>2, <1>3, <1>4, PTL
    DEF Spec

-----------------------------------------------------------------------------
(* The promise to the UEs. *)

\* A test is selected together with the testers of all UEs.
TestInv == test # NONE => \A u \in Ues : tester[u] # NONE

\* Only these handlers give commands or start a test.
LEMMA OtherSteps ==
    ASSUME [Next]_vars
    PROVE  \/ onTesterInit \/ onSwitched \/ onConnectedIPv4
           \/ UNCHANGED <<test, tester, given>>
  BY DEF Next, Main, Sctp, Triggering, Connecting, Searching, createGnb, startWaiting, triggerSctp,
     announceReady, sctpSend, gnbAppMain, ngapMain, onConnectedSctp, onConnectedUe, onMessage,
     start, onSetup, setupCounted, associationFails, ReceiverOnly, attach, takeCommand,
     receiveNas, testerVars, vars

LEMMA TestNext ==
    ASSUME TypeOK, TestInv, [Next]_vars
    PROVE  TestInv'
  <1> USE NoneAssumption
  <1>1. CASE onTesterInit
    <2>1. \/ tester' = [u \in Ues |-> "first"]
          \/ UNCHANGED <<test, tester>>
      BY <1>1 DEF onTesterInit
    <2> QED  BY <2>1 DEF TestInv
  <1>2. CASE onSwitched
    <2>1. UNCHANGED test /\ (UNCHANGED tester \/ tester' = [tester EXCEPT ![event.node] = "second"])
      BY <1>2 DEF onSwitched, AfterFirst
    <2> QED  BY <2>1 DEF TestInv, TypeOK
  <1>3. CASE onConnectedIPv4  BY <1>3 DEF onConnectedIPv4, TestInv
  <1> QED  BY <1>1, <1>2, <1>3, OtherSteps DEF TestInv

\* Steps that give no command connect a UE, if they do that.
LEMMA ConnectStep ==
    ASSUME [Next]_vars, UNCHANGED <<test, given>>
    PROVE  UNCHANGED attached \/ \E u \in Ues : Promise!Connect(u)
  BY DEF Next, Main, Sctp, Triggering, Connecting, Searching, createGnb, startWaiting, triggerSctp,
     announceReady, sctpSend, gnbAppMain, ngapMain, onConnectedSctp, onConnectedUe, onMessage,
     onTesterInit, onSwitched, onConnectedIPv4, TriggeringOnly, start, onSetup, setupCounted,
     associationFails, ReceiverOnly, attach, takeCommand, receiveNas, ueVars, vars, Promise!Connect

\* A command for one UE is one command more for it.
LEMMA GiveOne ==
    ASSUME TypeOK, NEW u \in Ues, NEW command, Give({u}, command), UNCHANGED <<attached, test>>
    PROVE  Promise!Give(u, command)
  <1>1. given' = [v \in Ues |-> IF v = u THEN Append(given[v], command) ELSE given[v]]
    BY DEF Give
  <1>2. given' = [given EXCEPT ![u] = Append(given[u], command)]
    BY <1>1 DEF TypeOK
  <1> QED  BY <1>2 DEF Promise!Give

\* A UE that was given nothing has one command after the first.
LEMMA FirstCommand ==
    ASSUME NEW command
    PROVE  Append(<<>>, command) = <<command>>
  OBVIOUS

\* Every step is one of the promised ones, or changes nothing the UEs can tell.
LEMMA PromiseStep ==
    ASSUME TypeOK, TesterInv, TestInv, [Next]_vars
    PROVE  [Promise!Next]_Promise!vars
  <1> USE NoneAssumption
  <1>1. CASE UNCHANGED <<test, given>>
    BY <1>1, ConnectStep DEF Promise!Next, Promise!vars
  <1>2. CASE onTesterInit /\ ~UNCHANGED <<test, given>>
    <2>1. PICK t \in Tests : test' = t /\ Give(Ues, "InitialRegistration")
      BY <1>2 DEF onTesterInit
    <2>2. \A u \in Ues : tester[u] = NONE /\ given[u] = <<>>
      BY <1>2 DEF onTesterInit, TesterInv, GivenInv
    <2>3. test = NONE  BY <2>2, UesAssumption DEF TestInv
    <2>4. attached = Ues /\ UNCHANGED attached
      BY <1>2 DEF onTesterInit, TriggeringOnly, ueVars, TesterInv, ConnectInv
    <2> DEFINE first == "InitialRegistration"
    <2>5. given' = [u \in Ues |-> <<first>>]
      <3>1. given' = [u \in Ues |-> Append(given[u], first)]
        BY <2>1 DEF Give
      <3> HIDE DEF first
      <3>2. Append(<<>>, first) = <<first>>  BY FirstCommand
      <3> QED  BY <2>2, <3>1, <3>2
    <2>6. Promise!Start(t)  BY <2>1, <2>3, <2>4, <2>5 DEF Promise!Start
    <2> QED  BY <2>6 DEF Promise!Next
  <1>3. CASE onSwitched /\ ~UNCHANGED <<test, given>>
    <2> DEFINE n == event.node
    <2>1. /\ tester[n] = "first" /\ test \in DOMAIN SecondCommand /\ Give({n}, SecondCommand[test])
          /\ UNCHANGED <<attached, test>>
      BY <1>3 DEF onSwitched, TriggeringOnly, ueVars
    <2>2. n \in Ues
      <3>1. event \in Explained  BY <1>3, TakenEvent DEF onSwitched, TesterInv
      <3> QED  BY <1>3, <3>1 DEF onSwitched, Explained
    <2>3. Len(given[n]) = 1  BY <2>1, <2>2 DEF TesterInv, GivenInv
    <2> HIDE DEF n
    <2>4. Promise!Proceed(n)  BY <2>1, <2>2, <2>3, GiveOne DEF Promise!Proceed
    <2> QED  BY <2>2, <2>4 DEF Promise!Next
  <1>4. CASE onConnectedIPv4 /\ ~UNCHANGED <<test, given>>
    <2> DEFINE n == event.node
    <2>1. /\ tester[n] = "second" /\ test = "pduSessionEstablishment" /\ Give({n}, "Ping")
          /\ UNCHANGED <<attached, test>>
      BY <1>4 DEF onConnectedIPv4, TriggeringOnly, ueVars
    <2>2. n \in Ues
      <3>1. event \in Explained  BY <1>4, TakenEvent DEF onConnectedIPv4, TesterInv
      <3> QED  BY <1>4, <3>1 DEF onConnectedIPv4, Explained
    <2>3. Len(given[n]) >= 2  BY <2>1, <2>2 DEF TesterInv, GivenInv
    <2> HIDE DEF n
    <2>4. Promise!Ping(n)  BY <2>1, <2>2, <2>3, GiveOne DEF Promise!Ping
    <2> QED  BY <2>2, <2>4 DEF Promise!Next
  <1> QED  BY <1>1, <1>2, <1>3, <1>4, OtherSteps

(* The threads of the simulator implement the promise of the procedure       *)
(* tester, for every number of AMFs and UEs, every set of tests and all      *)
(* bounds.                                                                   *)
THEOREM StartupRefines == Spec => RefinesProcedureTest
  <1>1. Init => Promise!Init  BY DEF Init, Promise!Init
  <1>2. Init => TestInv  BY DEF Init, TestInv
  <1>3. TypeOK /\ TestInv /\ [Next]_vars => TestInv'  BY TestNext
  <1>4. TypeOK /\ TesterInv /\ TestInv /\ [Next]_vars => [Promise!Next]_Promise!vars
    BY PromiseStep
  <1> QED
    BY <1>1, <1>2, <1>3, <1>4, TypeCorrect, TesterCorrect, PTL
    DEF Spec, RefinesProcedureTest, Promise!Spec
=============================================================================
