-------------------------------- MODULE Startup --------------------------------
(***************************************************************************)
(* From the start of a procedure test to its commands: the main thread,    *)
(* the SCTP, NGAP and application tasks of the gNB, one SCTP receiver per  *)
(* AMF, and the triggering thread, which hands the events of all nodes to  *)
(* the procedure tester and to the load test listener one after another.   *)
(*                                                                         *)
(* The AMFs, their network and the person at the console are external.     *)
(* The UEs are what UeNas, UeSm and Ping say of them, as far as events go. *)
(***************************************************************************)
EXTENDS Naturals, Sequences, FiniteSets

CONSTANTS
    Amfs,
    FirstAmf,      \* the AMF of every UE, see GnbNgap
    Ues,           \* procTestConfig.numberOfUe of them
    Tests,         \* the tests a person may select
    NONE,          \* no tester, and no selected test
    MaxLate,       \* bound: search responses that come late, in all
    MaxDown,       \* bound: NAS messages the network sends
    MaxTriggers    \* bound: while as many are queued UEs and network wait

\* The second command of a test; initial-registration has none.
SecondCommand == [periodicRegistration |-> "PeriodicRegistration",
                  deRegistration |-> "Deregistration",
                  pduSessionEstablishment |-> "PduSessionEstablishment"]

ASSUME AmfsAssumption == FirstAmf \in Amfs /\ IsFiniteSet(Amfs) /\ "NGSetupResponse" \notin Amfs
ASSUME UesAssumption == Ues # {}
ASSUME TestsAssumption ==
    Tests \subseteq DOMAIN SecondCommand \cup {"initialRegistration"}
ASSUME NoneAssumption == NONE \notin Ues \cup Tests \cup {"first", "second"}
ASSUME BoundsAssumption == MaxLate \in Nat /\ MaxDown \in Nat /\ MaxTriggers \in Nat \ {0}

VARIABLES
    mainPc,             \* main thread: "createGnb", "wait" (createGnb returned), "done"
    initState,          \* of ProcedureTester
    waitingUes,         \* of ProcedureTester
    test,               \* the selected test
    tester,             \* ueTesters: NONE, or whether the second command is yet to come
    client,             \* each AMF's SctpClient and its receiver thread
    setupCount,
    sctpPc,             \* SCTP task: "off", "wait", "announce", "loop", "dead"
    sctpQueue,          \* its queue of IwNgapSend
    ngapQueue,          \* the NGAP task's queue: a new association's AMF, or an NGSetupResponse
    initialSctpReady,   \* of GnbAppTask: "no", "queued" (IwInitialSctpReady), "yes"
    attached,           \* the UEs connected to the gNB
    late,               \* number of search responses that came late
    commands,           \* the commands in each UE's queue
    triggerQueue,       \* of UeRanSim
    triggerPc,          \* triggering thread: "run", "prompt" (at the console), "dead"
    timers,             \* timers the load test listener has of each node
    known,              \* external: UEs whose InitialUEMessage arrived
    down,               \* external: number of NAS messages sent
    told,               \* history: what each UE sent
    given,              \* history: the commands each UE was given
    missed,             \* history: the SCTP event came before initState was set
    skipped             \* history: a message of the network left out a step

testerVars == <<initState, waitingUes, test, tester, given, missed>>
linkVars == <<client, setupCount>>
sctpVars == <<sctpPc, sctpQueue>>
netVars == <<known, down, skipped>>
ueVars == <<attached, late, told>>
triggerVars == <<triggerPc, timers>>
vars == <<mainPc, testerVars, linkVars, sctpVars, ngapQueue, initialSctpReady, ueVars, commands,
          triggerQueue, triggerVars, netVars>>

Init ==
    /\ mainPc = "createGnb" /\ initState = "none" /\ waitingUes = {}
    /\ test = NONE /\ tester = [u \in Ues |-> NONE]
    /\ client = [a \in Amfs |-> "off"] /\ setupCount = 0
    /\ sctpPc = "off" /\ sctpQueue = <<>> /\ ngapQueue = <<>>
    /\ initialSctpReady = "no"
    /\ attached = {} /\ late = 0 /\ commands = [u \in Ues |-> <<>>]
    /\ triggerQueue = <<>> /\ triggerPc = "run"
    /\ timers = [n \in Ues \cup {"gnb"} |-> {}]
    /\ known = {} /\ down = 0
    /\ told = [u \in Ues |-> {}] /\ given = [u \in Ues |-> <<>>]
    /\ missed = FALSE /\ skipped = FALSE

Event(node, what) == [node |-> node, what |-> what]

-----------------------------------------------------------------------------
(* The main thread. *)

\* ProcedureTester.start up to the return of createGnb, which starts the gNB's tasks;
\* the SCTP task starts the receivers.
createGnb ==
    /\ mainPc = "createGnb" /\ mainPc' = "wait"
    /\ sctpPc' = "wait"
    /\ client' = [a \in Amfs |-> "starting"]
    /\ UNCHANGED <<testerVars, setupCount, sctpQueue, ngapQueue, initialSctpReady, ueVars,
                   commands, triggerQueue, triggerVars, netVars>>

\* Then gnbId and initState are set.
startWaiting ==
    /\ mainPc = "wait" /\ mainPc' = "done"
    /\ initState' = "WAITING_GNB"
    /\ UNCHANGED <<waitingUes, test, tester, given, missed, linkVars, sctpVars, ngapQueue,
                   initialSctpReady, ueVars, commands, triggerQueue, triggerVars, netVars>>

-----------------------------------------------------------------------------
(* The SCTP receivers. *)

ReceiverOnly ==
    UNCHANGED <<mainPc, testerVars, sctpVars, initialSctpReady, ueVars, commands, triggerQueue,
                triggerVars, netVars>>

\* SctpClient.start: the channel is connected, or an exception ends the receiver.
start(a) ==
    /\ client[a] = "starting"
    /\ \E outcome \in {"connected", "failed"} : client' = [client EXCEPT ![a] = outcome]
    /\ UNCHANGED <<setupCount, ngapQueue>> /\ ReceiverOnly

\* COMM_UP: onSetup stores the association and tells the NGAP task,
onSetup(a) ==
    /\ client[a] = "connected"
    /\ client' = [client EXCEPT ![a] = "setup"]
    /\ ngapQueue' = Append(ngapQueue, a)
    /\ UNCHANGED setupCount /\ ReceiverOnly

\* and counts it.
setupCounted(a) ==
    /\ client[a] = "setup"
    /\ client' = [client EXCEPT ![a] = "up"]
    /\ setupCount' = setupCount + 1
    /\ UNCHANGED ngapQueue /\ ReceiverOnly

\* Any other association event throws out of receiverLoop, and a shutdown ends it: there
\* is no receiver any more.
associationFails(a) ==
    /\ client[a] \in {"connected", "up"}
    /\ client' = [client EXCEPT ![a] = IF @ = "up" THEN "lost" ELSE "failed"]
    /\ UNCHANGED <<setupCount, ngapQueue>> /\ ReceiverOnly

-----------------------------------------------------------------------------
(* The SCTP, NGAP and application tasks of the gNB. *)

\* Mutant: one association is enough.
FirstSetup == setupCount > 0

AllSetup == setupCount = Cardinality(Amfs)

\* The wait ends, and the listeners are told.
triggerSctp ==
    /\ sctpPc = "wait" /\ AllSetup
    /\ sctpPc' = "announce"
    /\ triggerQueue' = Append(triggerQueue, Event("gnb", "SCTP"))
    /\ UNCHANGED <<mainPc, testerVars, linkVars, sctpQueue, ngapQueue, initialSctpReady, ueVars,
                   commands, triggerVars, netVars>>

\* Only then the application task.
announceReady ==
    /\ sctpPc = "announce"
    /\ sctpPc' = "loop" /\ initialSctpReady' = "queued"
    /\ UNCHANGED <<mainPc, testerVars, linkVars, sctpQueue, ngapQueue, ueVars, commands,
                   triggerQueue, triggerVars, netVars>>

\* External: an AMF may accept or refuse the NG setup, which is the same to the gNB; how
\* late its answer comes is up to the NGAP task's queue.
AmfAnswers ==
    ngapQueue' \in {ngapQueue, Append(ngapQueue, "NGSetupResponse")}

\* A message is sent if its client has a channel that is connected; otherwise the
\* exception ends the task.
sctpSend ==
    LET m == Head(sctpQueue)
    IN  /\ sctpPc = "loop" /\ sctpQueue # <<>>
        /\ sctpQueue' = Tail(sctpQueue)
        /\ IF client[m.amf] \in {"connected", "setup", "up"}
             THEN /\ IF m.from = "gnb"
                       THEN AmfAnswers /\ UNCHANGED known
                       ELSE known' = known \cup {m.from} /\ UNCHANGED ngapQueue
                  /\ UNCHANGED sctpPc
             ELSE sctpPc' = "dead" /\ UNCHANGED <<ngapQueue, known>>
        /\ UNCHANGED <<mainPc, testerVars, linkVars, initialSctpReady, ueVars, commands,
                       triggerQueue, triggerVars, down, skipped>>

\* GnbAppTask.main
gnbAppMain ==
    /\ initialSctpReady = "queued"
    /\ initialSctpReady' = "yes"
    /\ UNCHANGED <<mainPc, testerVars, linkVars, sctpVars, ngapQueue, ueVars, commands,
                   triggerQueue, triggerVars, netVars>>

\* NgapTask.main: a new association is followed by an NGSetupRequest; the response
\* is only reported.
ngapMain ==
    /\ ngapQueue # <<>> /\ ngapQueue' = Tail(ngapQueue)
    /\ LET m == Head(ngapQueue)
       IN  \/ /\ m \in Amfs
              /\ sctpQueue' = Append(sctpQueue, [from |-> "gnb", amf |-> m])
              /\ triggerQueue' = Append(triggerQueue, Event("gnb", "NGSetupRequest"))
           \/ /\ m \notin Amfs
              /\ triggerQueue' = Append(triggerQueue, Event("gnb", "NGSetupResponse"))
              /\ UNCHANGED sctpQueue
    /\ UNCHANGED <<mainPc, testerVars, linkVars, sctpPc, initialSctpReady, ueVars, commands,
                   triggerVars, netVars>>

-----------------------------------------------------------------------------
(* The UEs and the network. *)

Room == Len(triggerQueue) < MaxTriggers

\* A trigger for what happened to a UE, if anything did.
Report(queue, u, what) == IF what = NONE THEN queue ELSE Append(queue, Event(u, what))

UesCreated == initState \in {"WAITING_UE", "INIT_DONE"}

\* A search response connects the UE to the gNB, a late one once more.
attach(u) ==
    /\ UesCreated /\ Room
    /\ \/ u \notin attached /\ UNCHANGED late
       \/ u \in attached /\ late < MaxLate /\ late' = late + 1
    /\ attached' = attached \cup {u}
    /\ triggerQueue' = Report(triggerQueue, u, "UE_MR_GNB")
    /\ UNCHANGED <<mainPc, testerVars, linkVars, sctpVars, ngapQueue, initialSctpReady, commands,
                   told, triggerVars, netVars>>

\* What a command makes a UE send, if its state allows it; a ping is not signalling.
Request == [InitialRegistration |-> "RegistrationRequest",
            PeriodicRegistration |-> "RegistrationRequest",
            Deregistration |-> "DeRegistrationRequest",
            PduSessionEstablishment |-> "PduSessionEstablishmentRequest"]

\* A UE takes a command.  What it sends gets to the SCTP task by way of the gNB's MR
\* task, but is dropped while findGnbForUe does not see the gNB ready.
takeCommand(u) ==
    /\ Room /\ commands[u] # <<>>
    /\ commands' = [commands EXCEPT ![u] = Tail(@)]
    /\ \/ UNCHANGED <<told, triggerQueue, sctpQueue>>
       \/ /\ Head(commands[u]) \in DOMAIN Request
          /\ told' = [told EXCEPT ![u] = @ \cup {Request[Head(commands[u])]}]
          /\ triggerQueue' = Report(triggerQueue, u, Request[Head(commands[u])])
          /\ sctpQueue' = IF initialSctpReady = "yes"
                            THEN Append(sctpQueue, [from |-> u, amf |-> FirstAmf])
                            ELSE sctpQueue
    /\ UNCHANGED <<mainPc, testerVars, linkVars, sctpPc, ngapQueue, initialSctpReady, attached, late,
                   triggerVars, netVars>>

\* What the network sends, and what happens to the UE then: an answer, an event or nothing.
Reaction == [AuthenticationRequest |-> {NONE, "AuthenticationResponse"},
             SecurityModeCommand |-> {NONE, "SecurityModeComplete"},
             RegistrationAccept |-> {"RM_REGISTERED"},
             RegistrationReject |-> {NONE},
             DeRegistrationAccept |-> {NONE},
             PduSessionEstablishmentAccept |-> {NONE, "ANY_IPv4"}]

\* The steps of a UE that the network waits for before it sends a message.
Awaits == [AuthenticationRequest |-> {"RegistrationRequest"},
           SecurityModeCommand |-> {"AuthenticationResponse"},
           RegistrationAccept |-> {"RegistrationRequest", "SecurityModeComplete"},
           RegistrationReject |-> {"RegistrationRequest"},
           DeRegistrationAccept |-> {"DeRegistrationRequest"},
           PduSessionEstablishmentAccept |-> {"PduSessionEstablishmentRequest"}]

\* Mutant: a received message is reported after it was handled.
NasTriggersLate(u, message, reaction) ==
    Report(Report(triggerQueue, u, reaction), u, message)

\* receiveNas reports a message before it is handled, sendNas a message it has sent.
NasTriggers(u, message, reaction) ==
    Report(Report(triggerQueue, u, message), u, reaction)

\* The network sends a UE a NAS message, which need not follow what the UE sent.
receiveNas(u, message) ==
    /\ Room /\ u \in known /\ down < MaxDown /\ client[FirstAmf] = "up"
    /\ down' = down + 1
    /\ skipped' = (skipped \/ ~(Awaits[message] \subseteq told[u]))
    /\ \E reaction \in Reaction[message] :
          /\ triggerQueue' = NasTriggers(u, message, reaction)
          /\ told' = [told EXCEPT ![u] = @ \cup ({reaction} \ {NONE})]
    /\ UNCHANGED <<mainPc, testerVars, linkVars, sctpVars, ngapQueue, initialSctpReady, attached, late,
                   commands, triggerVars, known>>

-----------------------------------------------------------------------------
(* The triggering thread. *)

\* The testers send UEs a command: it is added to their queues.
Give(us, command) ==
    /\ commands' = [u \in Ues |-> IF u \in us THEN Append(commands[u], command) ELSE commands[u]]
    /\ given' = [u \in Ues |-> IF u \in us THEN Append(given[u], command) ELSE given[u]]

event == Head(triggerQueue)

\* LoadTestMessagingListener: the timer a message starts and the ones it reads.
Starts == [NGSetupRequest |-> {"ngSetup"},
           RegistrationRequest |-> {"registration", "phase1"},
           AuthenticationRequest |-> {"authentication"},
           AuthenticationResponse |-> {"phase2"},
           SecurityModeCommand |-> {"securityModeControl"},
           SecurityModeComplete |-> {"phase3"},
           DeRegistrationRequest |-> {"deRegistration"}]

Reads == [NGSetupResponse |-> {"ngSetup"},
          AuthenticationRequest |-> {"phase1"},
          AuthenticationResponse |-> {"authentication"},
          SecurityModeCommand |-> {"phase2"},
          SecurityModeComplete |-> {"securityModeControl"},
          RegistrationAccept |-> {"registration", "phase3"},
          RegistrationReject |-> {"registration"},
          DeRegistrationAccept |-> {"deRegistration"}]

At(f, what) == IF what \in DOMAIN f THEN f[what] ELSE {}

\* The second listener; a timer that is not there is a null, which ends the thread.
loadTestListener(next) ==
    LET had == timers[event.node] \cup At(Starts, event.what)
    IN  /\ timers' = [timers EXCEPT ![event.node] = had]
        /\ triggerPc' = IF At(Reads, event.what) \subseteq had THEN next ELSE "dead"

Take == triggerPc = "run" /\ triggerQueue # <<>> /\ triggerQueue' = Tail(triggerQueue)

TriggeringOnly ==
    UNCHANGED <<mainPc, linkVars, sctpVars, ngapQueue, initialSctpReady, ueVars, netVars>>

\* onConnected with the gNB's SCTP: the UEs are created, and run from now on.
onConnectedSctp ==
    /\ Take /\ event = Event("gnb", "SCTP")
    /\ IF initState = "WAITING_GNB"
         THEN initState' = "WAITING_UE" /\ waitingUes' = Ues /\ UNCHANGED missed
         ELSE missed' = TRUE /\ UNCHANGED <<initState, waitingUes>>
    /\ loadTestListener("run")
    /\ UNCHANGED <<test, tester, given, commands>> /\ TriggeringOnly

\* Mutant: one UE is enough.
NoneWaiting(rest) == TRUE

\* Mutant: the set is looked at before the removal.
NoneWaitingBefore(rest) == waitingUes = {}

\* waitingUes.isEmpty after the removal.
AllConnected(rest) == rest = {}

\* onConnected with a UE's connection to the gNB: with the last one, a test may be
\* selected, and until then the thread waits.
onConnectedUe ==
    /\ Take /\ event.what = "UE_MR_GNB"
    /\ LET rest == waitingUes \ {event.node}
       IN  IF initState = "WAITING_UE"
             THEN /\ waitingUes' = rest
                  /\ initState' = IF AllConnected(rest) THEN "INIT_DONE" ELSE initState
                  /\ loadTestListener(IF AllConnected(rest) THEN "prompt" ELSE "run")
             ELSE UNCHANGED <<waitingUes, initState>> /\ loadTestListener("run")
    /\ UNCHANGED <<test, tester, given, missed, commands>> /\ TriggeringOnly

\* onTesterInit: the selected test is started for all UEs; or no valid one is selected.
onTesterInit ==
    /\ triggerPc = "prompt" /\ triggerPc' = "run"
    /\ \/ \E t \in Tests :
             /\ test' = t
             /\ tester' = [u \in Ues |-> "first"]
             /\ Give(Ues, "InitialRegistration")
       \/ UNCHANGED <<test, tester, given, commands>>
    /\ UNCHANGED <<initState, waitingUes, missed, triggerQueue, timers>> /\ TriggeringOnly

\* Mutant: otherTester is not reset.
StaysFirst == "first"

AfterFirst == "second"

\* onSwitched with RM_REGISTERED: otherTester is done and the second command sent.
onSwitched ==
    /\ Take /\ event.what = "RM_REGISTERED"
    /\ IF /\ initState = "INIT_DONE" /\ tester[event.node] = "first"
          /\ test \in DOMAIN SecondCommand
         THEN /\ tester' = [tester EXCEPT ![event.node] = AfterFirst]
              /\ Give({event.node}, SecondCommand[test])
         ELSE UNCHANGED <<tester, given, commands>>
    /\ loadTestListener("run")
    /\ UNCHANGED <<initState, waitingUes, test, missed>> /\ TriggeringOnly

\* onConnected with ANY_IPv4: the tester of a PDU session has it pinged.
onConnectedIPv4 ==
    /\ Take /\ event.what = "ANY_IPv4"
    /\ IF /\ initState = "INIT_DONE" /\ tester[event.node] = "second"
          /\ test = "pduSessionEstablishment"
         THEN Give({event.node}, "Ping")
         ELSE UNCHANGED <<given, commands>>
    /\ loadTestListener("run")
    /\ UNCHANGED <<initState, waitingUes, test, tester, missed>> /\ TriggeringOnly

\* Messages sent or received: only the load test listener does something.
onMessage ==
    /\ Take /\ event.what \in DOMAIN Starts \cup DOMAIN Reads \cup
                           {"PduSessionEstablishmentRequest", "PduSessionEstablishmentAccept"}
    /\ loadTestListener("run")
    /\ UNCHANGED <<testerVars, commands>> /\ TriggeringOnly

Main == createGnb \/ startWaiting
Sctp == triggerSctp \/ announceReady \/ sctpSend
Connecting == \E a \in Amfs : start(a) \/ onSetup(a) \/ setupCounted(a)
Searching == \E u \in Ues : attach(u)
Triggering ==
    onConnectedSctp \/ onConnectedUe \/ onSwitched \/ onConnectedIPv4 \/ onMessage

Next ==
    \/ Main \/ Sctp \/ gnbAppMain \/ ngapMain \/ Triggering \/ onTesterInit
    \/ Connecting \/ (\E a \in Amfs : associationFails(a))
    \/ Searching
    \/ \E u \in Ues :
          \/ takeCommand(u)
          \/ \E message \in DOMAIN Reaction : receiveNas(u, message)

Spec == Init /\ [][Next]_vars

-----------------------------------------------------------------------------
Messages == DOMAIN Reaction \cup DOMAIN Starts \cup DOMAIN Reads \cup
            {"PduSessionEstablishmentRequest"}
Happenings == Messages \cup {"SCTP", "UE_MR_GNB", "RM_REGISTERED", "ANY_IPv4"}

\* What happens is not nothing, and no UE is taken for the gNB.
ASSUME EventsAssumption == NONE \notin Happenings /\ "gnb" \notin Ues

Commands == DOMAIN Request \cup {"Ping"}
Timers == UNION {Starts[m] : m \in DOMAIN Starts}

TypeOK ==
    /\ mainPc \in {"createGnb", "wait", "done"}
    /\ initState \in {"none", "WAITING_GNB", "WAITING_UE", "INIT_DONE"}
    /\ waitingUes \subseteq Ues
    /\ test \in Tests \cup {NONE}
    /\ tester \in [Ues -> {NONE, "first", "second"}]
    /\ client \in [Amfs -> {"off", "starting", "connected", "setup", "up", "failed", "lost"}]
    /\ setupCount \in Nat
    /\ sctpPc \in {"off", "wait", "announce", "loop", "dead"}
    /\ sctpQueue \in Seq([from : Ues \cup {"gnb"}, amf : Amfs])
    /\ ngapQueue \in Seq(Amfs \cup {"NGSetupResponse"})
    /\ initialSctpReady \in {"no", "queued", "yes"}
    /\ attached \subseteq Ues /\ late \in 0..MaxLate
    /\ commands \in [Ues -> Seq(Commands)] /\ given \in [Ues -> Seq(Commands)]
    /\ triggerQueue \in Seq([node : Ues \cup {"gnb"}, what : Happenings])
    /\ triggerPc \in {"run", "prompt", "dead"}
    /\ timers \in [Ues \cup {"gnb"} -> SUBSET Timers]
    /\ known \subseteq Ues /\ down \in 0..MaxDown
    /\ told \in [Ues -> SUBSET Happenings]
    /\ missed \in BOOLEAN /\ skipped \in BOOLEAN

(* The SCTP task never sends to an AMF whose association was not set up:     *)
(* only an association that is lost later can end its thread.                *)
SctpDeathExplained == sctpPc = "dead" => \E a \in Amfs : client[a] = "lost"

(* No UE gets a command before every UE is connected, and until then none    *)
(* misses the start: with the first command of one all have theirs.          *)
TestsStartTogether ==
    (\E u \in Ues : given[u] # <<>>) =>
        \A u \in Ues : u \in attached /\ given[u] # <<>> /\ given[u][1] = "InitialRegistration"

(* After its first command a UE is given the test's second one once, however *)
(* often it registers or connects again, and only after it registered; then  *)
(* pings, and only after it had an address.                                  *)
CommandsInOrder ==
    \A u \in Ues : \A i \in 2..Len(given[u]) :
        IF i = 2
          THEN test \in DOMAIN SecondCommand /\ given[u][2] = SecondCommand[test]
               /\ "RM_REGISTERED" \in told[u]
          ELSE given[u][i] = "Ping" /\ "ANY_IPv4" \in told[u]

(* The listener of the load test ends the triggering thread only if the      *)
(* network left out a step of the procedure: as events are queued in the     *)
(* order in which they happen to a node, its timers are there otherwise.     *)
ListenerDeathExplained == triggerPc = "dead" => skipped

\* The guards of Main, Sctp, gnbAppMain, ngapMain, Triggering, Connecting and Searching.
CanGoOn ==
    \/ mainPc # "done"
    \/ sctpPc = "wait" /\ AllSetup
    \/ sctpPc = "announce"
    \/ sctpPc = "loop" /\ sctpQueue # <<>>
    \/ initialSctpReady = "queued" \/ ngapQueue # <<>>
    \/ triggerPc = "run" /\ triggerQueue # <<>>
    \/ \E a \in Amfs : client[a] \in {"starting", "connected", "setup"}
    \/ UesCreated /\ Room /\ (attached # Ues \/ late < MaxLate)

\* The two reasons why the tester never asks for a test: a failed association, or an
\* SCTP event that was handled too early.
Stopped == missed \/ \E a \in Amfs : client[a] = "failed"

(* When none of these guards holds, the tester has asked for a test exactly  *)
(* if neither of the two reasons against it is there.                        *)
StallExplained == ~CanGoOn => (initState = "INIT_DONE" <=> ~Stopped)

(* Nobody waits for ever: when no thread can go on, no connection is being   *)
(* set up and no UE is searching, the tester has asked for a test, unless an *)
(* association failed or the SCTP event was handled before start had set     *)
(* initState: then it has not.  The NG setup is not waited for.  The guards  *)
(* written out above are those of the actions.                               *)
WaitExplained ==
    /\ CanGoOn <=> ENABLED (\/ Main \/ Sctp \/ gnbAppMain \/ ngapMain
                           \/ Triggering \/ Connecting \/ Searching)
    /\ StallExplained

Promise == INSTANCE ProcedureTest WITH connected <- attached

(* The threads, queues and listeners together keep the tester's promise to   *)
(* the UEs: they implement ProcedureTest.                                    *)
RefinesProcedureTest == Promise!Spec
=============================================================================
