# UERANSIM: TLA+ models, checks and proofs

UERANSIM simulates 5G user equipments (UEs) and a gNodeB against a real core
network. This directory holds TLA+ modules for its control logic, TLC
configurations, and TLAPS proofs. `PROJECT.json` lists components, runs,
mutants, findings, hazards and theorems and maps every definition to the lines
it models. Paths below are relative to
`src/ueransim/src/main/java/tr/havelsan/ueransim/app/`.

## 1. The system

Every node (UE, gNB, air interface) is a set of *tasks*. A task is one thread
with one unbounded FIFO queue (`itms/ItmsTask.java`); tasks of all nodes run
concurrently and interact by messages (`Iw...` classes), by a few shared
objects, and by *triggers*, events that a single triggering thread hands to the
listeners (`app/UeRanSim.java`). An exception that leaves a task's `main` ends
the thread; its queue is never read again and nothing restarts it.

| component | state | operations | interacts with |
|---|---|---|---|
| UE mobility management (`ue/mm`) | MM state and sub-state, RM state, stored SUCI/GUTI, last registration request, current and non-current security context | the handlers of every downlink MM message, `cycle`, timer expiries, test commands | NAS transport, timers, triggers |
| UE NAS task, transport, security (`ue/nas`) | queue, NAS COUNTs | dispatch, protect, unprotect | MM, SM, MR task |
| UE NAS timers (`ue/nas/NasTimer*.java`) | running flag, start time, interval of 21 timers | start, stop, tick (a thread of its own) | NAS task, by message and by the shared timer objects |
| UE MR task (`ue/mr`) | queue | relay NAS and data both ways, PLMN search | the gNB's MR task, UE NAS/app tasks, `UeRanSim` maps |
| UE session management (`ue/sm`) | 15 PDU sessions, 254 procedure transactions, T3580 | establishment request, accept, reject | MM (transport), app task, TUN bridge |
| UE app task, ping (`ue/app`) | connection info, outstanding pings, 16-bit counters | send ping, reply, timeout; forwards test commands | MR task, triggers |
| gNB NGAP task (`gnb/ngap`) | UE contexts (ids, streams, AMF), id counter | NG setup, NAS transport, context setup/modification/release, PDU session resources, error indication | SCTP, MR and GTP tasks; the UE contexts are a plain `HashMap` shared with the MR thread |
| gNB MR task (`gnb/mr`) | queue | relay; runs `receiveUplinkNasTransport` in its own thread | NGAP state, UE MR tasks |
| gNB SCTP and app tasks (`gnb/sctp`, `gnb/app`) | associations, setup count, ready flag | connect, receive, send | NGAP task; UEs read the ready flag from their threads |
| gNB GTP task, TUN bridge (`gnb/gtp`, `air`) | tunnel list, address routes | tunnel create, uplink, downlink | MR tasks, sockets |
| testers (`app/tester`) | start-up phase, one tester per UE | start a test, react to triggers | UE app tasks |
| simulator (`app/UeRanSim.java`) | UE and gNB maps, trigger queue | create nodes, look nodes up, dispatch triggers | everything |
| codecs, cryptography, utilities (`crypto`, `nas`, `ngap`, `gtp`, `icmp`, `sctp`, `mts`, `utils`, `native` at the top of the repository) | none of interest | | |

What is hard in it: handlers of one UE interleave with its timer thread, its MR
task and the tester; the network may send anything at any time; responses may
be late or duplicated (the PLMN search); a thread that dies silently stops a
node; flags and maps are shared without synchronisation; identifiers and
counters have limits; some things must eventually happen (the search ends, the
start-up completes). `PROJECT.json` lists these as hazards, each at its line.

What makes each part correct:

* MM: a timer that vouches for a stored value implies the value; a security
  context is used only with its keys; handlers never use what was not stored;
  RM and MM state machines agree; `cycle` knows every reachable state; the PLMN
  search ends and leaves no late traffic.
* SM: a PSI or PTI is held by at most one request; limits are hit in the order
  the code assumes.
* NGAP: NGAP ids identify one UE; a context is not used after it was released.
* User plane: data is delivered to the UE whose session it belongs to.
* Start-up: the tester starts each test exactly once and not before its UEs are
  connected.

## 2. The modules

| module | what it models | proofs |
|---|---|---|
| `UeNas` | one UE: mobility management with its NAS, MR and timers tasks and its tester (section 3) | `UeNasProofs`, `UeNasSearchProofs` |
| `UeAssociations` | abstract specification: RAN UE NGAP IDs and open associations | |
| `GnbNgap` | UE contexts between the MR and the NGAP thread of the gNB; implements `UeAssociations` (section 4) | `GnbNgapProofs` |
| `NasCount` | NAS COUNTs over a channel that loses, repeats and reorders (section 5) | `NasCountProofs` |
| `UeSm` | PSI and PTI tables, T3580, the connection of the application task (section 6) | `UeSmProofs` |
| `Ping` | pings with 16-bit numbers, replies and timeouts (section 7) | `PingProofs` |
| `UserPlane` | session set-up in the gNB, tunnels, routes, data both ways (section 8) | `UserPlaneProofs` |
| `ProcedureTest` | abstract specification: what the tester promises to the UEs | |
| `Startup` | SCTP, NG setup, testers, triggering thread, load test listener; implements `ProcedureTest` (section 9) | `StartupProofs` |

`MCUeNas`, `MCGnbNgap`, `MCUserPlane` and `MCStartup` hold values for TLC. In a
module, an operator whose comment begins with "Mutant:" is a wrong variant of the
definition that follows it; no specification uses it. `PROJECT.json` names, for
every property of a passing run, the variant with which TLC finds it violated.

The modules meet at their interfaces, which are written so that the one is free
to do whatever the other can: the network of `UeNas` sends any message at any
time, which covers what `GnbNgap` and an AMF deliver; the UEs of `GnbNgap` send
uplink messages at any time; commands come at any time in `UeSm` and `Ping`;
`UserPlane` takes from `UeSm` that a PSI is in use once (`RequestsShareNothing`)
and states it as an assumption. `Startup` leaves to the UE models what a UE does
with a command and keeps the events. What is left to write is the composition of
`UeNas` and `GnbNgap` with an AMF that follows the registration procedure, which
could show that a registration completes when nothing interferes.

The type invariant of every module is proved (that of `NasCount` as part of its
inductive invariant), and the runs leave it out.

## 3. UeNas

One UE. Each variable is a field of `MmContext`, `UeSimContext` or a task queue;
each handler of `ue/mm` is one operator with the handler's name, and its
parameters are what the handler looks at in the message.

* *Tasks.* `NasTask.main` alternates `cycle` and the handling of at most one
  message: `nasPc` records which comes next. `MrStep` is one turn of the MR
  task's loop. `Expire` is one tick of the timers task that finds a timer run
  out. A handler is one atomic step: it touches only state of its own task and
  timer objects, whose methods are synchronised; the stop in `performTick` and
  the send that follows it are one step, because the message is queued and any
  order with the NAS task's own start and stop remains possible.
* *Network.* External. Once an uplink message was relayed to a gNB
  (`gnbKnowsUe`), any downlink message, or a connection release, may arrive at
  any time, in any protection. Its content is chosen when it is handled, since
  nothing looks at it before.
* *Data.* A RAND stands for all keys derived from it; a SUCI is present or not;
  a GUTI is a model value. The outcome of the AUTN and MAC checks is an input.
  `rejectCause` keeps the code's hard-wired cause and the complete table of what
  each cause would do.
* *Exceptions.* Places where a handler dereferences null or throws set
  `nasFault`, after the assignments made before them; then the NAS task takes no
  more steps.
* *Time.* A running timer may expire at any time. `lastPlmnSearchTrigger` is
  "zero", "recent" or "due" (more than 1000 ms old).
* *Configuration.* `treat-errors-as-fatal` is false, as in the open5gs, free5gc
  and custom configurations: `Log.error` only logs. `UeNode.AUTO` is a parameter;
  the repository compiles it as false.
* *Tester.* One test per UE, started after the first `UE_MR_GNB` trigger; the
  second command follows the RM_REGISTERED trigger.

Session management messages are left to `UeSm`, the PDU session test and the
testers of several UEs to `Startup`.

### Runs

| run | constants | checks |
|---|---|---|
| `ue_safety` (`UeNas.cfg`) | 1 gNB, 1 GUTI, 2 RANDs (symmetric), the periodic and de-registration tests (the initial registration test is their common prefix), AUTO false, MaxInFlight 2, MaxSearch 1 | `SuciKeptWhileT3519Runs`, `CurrentContextIsKeyed`, `RequestStoredWhenUsed`, `RegisteredIsAnchored`, `RegisteredStatesAgree` |
| `ue_auto` (`UeNasAuto.cfg`) | AUTO true, no tests, 1 RAND, MaxInFlight 1, MaxSearch 2 | `CycleHandlesEveryState`, `SearchSucceeds`, `SearchTrafficStops`, `SearchDrains` |
| `t3521` (`UeNasT3521.cfg`) | de-registration test, MaxInFlight 1, MaxSearch 1 | `T3521GuardsDeregistration`, violated |

`MaxInFlight` bounds what the environment adds to the queues: the environment
(timers, network) adds a message only while fewer are pending. Two is enough for
every pair of environment messages to be handled in either order around a
command of the tester. `MaxSearch` bounds the search messages in flight. With 1
the MR task answers within the search interval of one second; with 2 it may be
late, so that a second response reaches a UE that has moved on. Two RANDs let
the non-current context differ from the current one. Deadlock is not checked:
after an exception ended the NAS task the UE really stops.

Finding. `sendDeregistration` tests `mmState` after switching it, so T3521 is
never started although it is documented as guarding a de-registration that is
not a switch-off.

Two exceptions of the handlers are reached and modelled without a property,
since nothing in the repository promises their absence: the warning for an EAP
message other than EAP-Success in a Security Mode Command lacks an argument, so
that formatting it throws (`SmcEapWarning`), and a de-registration after an
Authentication Reject with EAP-Failure has no security context
(`DeregistrationWithoutContext`). The invariants hold across both.

`RegisteredStatesAgree` is stated for MaxSearch = 1: with a late second search
response the code moves the MM state to MM_DEREGISTERED and leaves RM_REGISTERED
behind, because `receiveItmsMessage` does not look at the state. `SearchDrains`,
`SearchTrafficStops` and the theorem `LateResponsesBounded` say how often that can
happen: never more often than there were requests left over.

### Fairness

Weak fairness of the NAS task's steps, of the MR task's steps (threads keep
running) and of `SearchIntervalEnds` (time passes). Nothing is assumed of the
network, the timers, the gNB's readiness or the person at the tester.

### Proofs (`UeNasProofs`, `UeNasSearchProofs`)

For all sets of gNBs, GUTIs and RANDs, all test cases, both values of AUTO and
SwitchOff and all bounds:

| theorem | property |
|---|---|
| `TypeCorrect` | `TypeOK` |
| `SuciAvailable` | `SuciKeptWhileT3519Runs` |
| `CurrentContextKeyed` | `CurrentContextIsKeyed` |
| `RequestNeverMissing` | `RequestStoredWhenUsed` |
| `RegisteredAnchored` | `RegisteredIsAnchored` |
| `CycleCoversEveryState` | `CycleHandlesEveryState` |
| `StatesAgree` | `RegisteredStatesAgree` |
| `SearchOnlyDrains` | `SearchDrains` |
| `LateResponsesBounded` | a connected UE has fewer than MaxSearch search messages on their way |
| `T3521NeverRuns` | T3521 never runs: what `t3521` shows of one behaviour holds of all |
| `OnlyNetworkEndsNasTask` | the NAS task ends, and a UE has a security context, a GUTI or the registered state, only after a ready gNB took an uplink message |
| `SearchGoesOn` | a UE without a gNB is searching: its task runs, no timer does, its queues hold search messages only |
| `ServingGnbKept` | a UE never loses its gNB, and with MaxSearch = 1 never changes it; a gNB that knows the UE then means that the UE's own is ready |

Assumptions: there is at least one gNB, the test cases are those of
`ProcedureTester`, bounds are naturals, and `NONE` (null) differs from every
real value.

The inductive invariant `IInv` is the type invariant, the SUCI and key
invariants, which are inductive by themselves, and `AnchorInv`, which is needed
because the last two theorems are about the past: that a downlink message can
only arrive after an uplink one. `AnchorInv` says in which queue the evidence
sits: while the network does not know the UE, nothing from it is in the NAS
queue; a command reaches the NAS queue only after the UE was connected; an
uplink message is in the MR queue only after a request was stored. There is one
lemma per handler (what it does to types and to the anchor), one per task step,
and `NextInv` combines them.

`UeNasSearchProofs` builds on it. Its inductive invariant `SearchIInv` has three
parts. `SearchInv` counts the search requests and responses in both queues: never
more than MaxSearch, and one less as soon as an interval has passed or a response
has connected the UE, since what has been handled is in no queue. `StateInv` lists
the MM states with their sub-states. The third is `RegisteredStatesAgree` itself,
which holds only because of the first: if one message at a time is on its way, no
response can reach a connected UE. The proof needs that a queue's count changes by
one with its head or its end (`AppendCount`, `TailCount`: finite sets of positions
and their cardinality) and what each handler leaves alone (`HandlerEffect`: it
sends uplink messages only, starts no T3521, and switches the state to one of the
listed pairs).

The last three theorems rest on a third invariant, `ContactInv`: whatever only the
network can cause (`FromNetwork`) needs a gNB that knows the UE, whatever only a
connected UE does (`Underway`) needs `connectedGnb`, and each message in the NAS
task's queue is one that the contact made so far allows (`QueueFits`). Again there
is a lemma per handler. `SearchGoesOn` is the safety half of `SearchSucceeds`: in
whatever order the tasks step, a UE without a gNB stays in a state from which the
search goes on.

Of the properties of this module only the two about liveness, `SearchSucceeds` and
`SearchTrafficStops`, are model-checked only; the violation of `t3521` stays with
TLC, and `T3521NeverRuns` says why it is no accident.

## 4. GnbNgap

One gNB with its UEs and AMFs. `ueContexts` is the map of `GnbSimContext`; a
record of it holds the five fields of `GnbUeContext` that steer something, and
the attributes that are only stored are left out. `amfUeId` and `heard` belong
to the external AMFs. `owner` and `delivered`, and the fields `ran` and `stream`
of a relayed message, are history: no guard reads them.

* *Threads.* `mrPc` and `ngapPc` say where each thread is. The MR thread handles
  an uplink message in one step if the UE has no context (`MrInitialUeMessage`:
  no message can name the new id before it is sent), and otherwise in two,
  `containsKey` (`MrUplinkKnown`) and `get` (`MrSendUplink`), since the NGAP
  thread may remove the context in between. The NGAP thread looks the UE up
  (`NgapFound`, `NgapError`, `NgapDies`) and then runs the handler, one operator
  per `receive...` method. The reroute is two steps (new AMF assigned, message
  sent again) and the release three (UE told, completion sent, context removed),
  because the MR thread may run between them.
* *Unsynchronised map.* `disturbed` records that the MR thread put a context
  while the NGAP thread was handling a message; the first put into an empty map
  counts, since the iterator notes the number of changes before it looks for
  entries.
  The lookups of one message (two when streams are checked) are one interval; a
  disturbed one may find the UE, miss it, or throw
  `ConcurrentModificationException`, which ends the NGAP thread, and a `get`
  after it may miss as well. A single `put` or `remove` is atomic: what the
  library does when two of them overlap (an entry lost, a removed one back) is
  not modelled, so everything below is about maps whose changes are not lost.
* *Errors.* `NgapErrorException` is answered by an `ErrorIndication` that is not
  UE-associated and keeps what was bound before it: the AMF id stays bound when
  the stream check fails. Every other exception ends the thread.
* *AMFs.* An AMF sends any message of `AmfKinds`, in any order, for every id it
  has heard of; an `UEContextReleaseCommand` comes with both ids ("Release") or
  with the AMF id alone ("ReleaseById"). It gives an association one id, unique
  among its live ones and reusable afterwards, and may change it with a
  modification request. A message is chosen when the NGAP thread takes it, which
  covers every delay on the way.
* *Bounds.* `MaxRanId` ends the creation of contexts; `MaxQueue` holds back the
  UEs and the handlers that queue something for the MR task. Deadlock is not
  checked: the bounds, or the death of a thread, really stop the model.
* *Left out.* PDU session resources and user data are in `UserPlane`, NG setup in
  `Startup`; all associations have the same number of outbound streams.

| run | constants | checks |
|---|---|---|
| `gnb_contexts` (`GnbContexts.cfg`) | 2 UEs, 2 AMFs in sets of their own, 2 AMF ids; context setup, reroute, release, unhandled messages; MaxRanId 2, MaxQueue 2 | `NothingAfterRelease`, `RefinesUeAssociations` |
| `gnb_streams` (`GnbStreams.cfg`) | 2 UEs, 1 AMF, 3 AMF ids; downlink NAS, modification, release by both ids and by AMF id alone, unhandled messages; stream ids checked, messages on streams 0 to 2, 3 outbound streams; MaxRanId 3, MaxQueue 1 | `OneDownlinkStream`, `UplinkStreamsSpread`, `NoMisdelivery`, `ThreadDeathsExplained` |

Two UEs are enough for a message to go to the wrong one and for one UE's context
to disturb the lookup of the other's. Three RAN UE NGAP IDs let a UE be released
and come back beside the other; with two, a UE is released and comes back, or
two UEs are there at once. A queue of two lets messages of an association wait
behind its release. UEs and AMF ids are symmetric, AMFs are not (one of them is
the first configured). No fairness is stated: all properties are safety
properties.

What the runs show. Ids, delivery and streams survive every interleaving. The
threads do not: `ThreadDeathsExplained` says when not. The MR thread
ends when a release overtakes an uplink message between `containsKey` and `get`.
The UE has been told then: the last message for it, delivered or on its way, is a
release. The NGAP thread ends when the first message of some UE arrives while it
handles another message (for an association opened earlier, perhaps one of the same UE
that is gone), or when a release by AMF id visits a context that has no AMF id yet, which
`gnb_streams` exercises; so whenever it ends, a UE waits for the first answer to its
InitialUEMessage. Uplink streams are taken in turn and not by
what is free: `UplinkStreamsSpread` promises two associations different streams only
if they are opened less than a round apart. After a reroute the context keeps the id the
old AMF gave, so messages of the new AMF, which has its own, are refused as
inconsistent; and if ids of two AMFs coincide, a release by AMF id alone may hit
the other AMF's UE. `gnb_streams`, which has that release, therefore has one AMF.

### Proofs (`GnbNgapProofs`)

For all sets of UEs, AMFs, AMF ids and streams, all kinds of messages, both
values of `IgnoreStreamIds` and all bounds:

| theorem | property | |
|---|---|---|
| `GnbTypeCorrect` | `TypeOK` | |
| `GnbRefines` | `RefinesUeAssociations` | |
| `GnbDeathsExplained` | `ThreadDeathsExplained` | |
| `GnbStreamsSpread` | `UplinkStreamsSpread` | |
| `GnbDeliversToOwner` | `NoMisdelivery` | if `OneMeant` |
| `GnbNothingAfterRelease` | `NothingAfterRelease` | if `OneMeant` |
| `GnbOneDownlinkStream` | `OneDownlinkStream` | if `OneMeant` |
| `GnbReleasedWereTold` | `ReleasedWereTold`: the last message relayed to a UE whose context is gone is a release, and the MR thread ends only on such a UE | with the id of its latest association if `OneMeant` |

`OneMeant` says that AMFs release associations by RAN UE NGAP ID, or that there is
one AMF; the two runs have the one or the other. Without it the three are false:
with two AMFs in one set and releases by AMF id alone, TLC finds
that both give the same AMF UE NGAP ID, and the release of the one hits the UE of
the other, because `findAssociatedUeId` looks for the id among the UEs of all AMFs.
No run keeps that violation, since no doc, comment or test of the repository
promises otherwise.

Assumptions: the first AMF is one of the AMFs, there is at least one outbound
stream, bounds are naturals, and `NONE` and the marks "idle" and "closed" differ
from real values.

The inductive invariant `IInv` is `TypeOK` and `OwnerInv`: the id of every
context is not above the counter and belongs, by `owner`, to the UE of that
context, and ids above the counter have no owner. `TypeOK` needs it for nothing;
the refinement does, because the abstract association of an id is found by
searching the contexts, and only `OwnerInv` makes that search unambiguous. The
refinement then rests on one lemma: only `MrInitialUeMessage` and `NgapRemove`
change who has which id. The other theorems each add what their property needs
to be inductive:

* delivery: the UE the NGAP thread works on is the owner of the id in its message
  (`RouteInv`), and the MR queue and what was delivered agree with `owner`
  (`DeliveryInv`);
* thread deaths: a message the MR thread is about to send is of a UE that has had
  an id (`DeathInv`), so that the UE it dies on was told (`ToldInv` below); AMFs name
  only ids that were handed out (`HeardInv`); so a put that disturbs the handling of a
  message is that of a UE with a later id, which no step of that handling can answer,
  because the UE found for the message is not it (`PutInv`);
* uplink streams: the stream of a context is a function of its id (`StreamInv`), which
  differs for ids less than a round apart (`TurnsDiffer`), with lemmas about division
  and remainders for any number of streams;
* order of release: the context worked on is the one of the message
  (`CurrentInv`); what is on its way to a UE, the last delivered message
  included, is in the order of ids, with nothing behind a release of the same id,
  and a released context that is still there is being removed (`OrderInv`);
* downlink streams: what is on its way came on the stream its context is bound to
  (`LaneInv`);
* no silent release: a UE without a context, or whose context is about to be
  removed, has a release as the last message on its way (`ToldInv`; `LastStays`
  follows the last message through the queue), and a context has the latest id of
  its UE (`LatestInv`);
* releases by AMF id alone, from one AMF: what a context has bound is the id the
  AMF gave to its association, or nothing yet; no two contexts have the same; and
  a message names the id of the association it means (`IdInv`). So the UE that is
  found is the one that is meant (`FoundUe`), on which all three theorems rest.

## 5. NasCount

The COUNTs of a `NasSecurityContext`: `estimatedDownlinkCount`, the MAC check and
the update of the stored COUNT in `Receive`, `countOnEncrypt` in `Send`, and the
Security Mode Command, which puts a copy of the never used non-current context
into use and so restarts both COUNTs. A MAC is accepted if the keys (the number
of the context) and the COUNT agree; under a context with IA0 (`NullContexts`) every
MAC is. The widths of the
sequence number and of the overflow counter are constants.

External: the AMF numbers its messages from 0 under each context and replaces the
context before the overflow counter reaches its last value, which 24.501 demands
of it; it may repeat a Security Mode Command. Any message it has sent may arrive
at any time, again and in any order, or never; under a context with IA0 messages
arrive in order, fewer than SqnMod lost in a row, since nothing else keeps the COUNTs.

| run | constants | checks |
|---|---|---|
| `nas_count` (`NasCount.cfg`) | SqnMod 3, OverflowMod 4, 3 contexts, the second with IA0, MaxDown 8, MaxUp 13 | `UplinkCountIsSerial`, `StoredCountIsSenders`, `WindowIsAccepted`, `AcceptedNumbersMoveOn` |

MaxDown is the last message before the overflow counter would reach its end, so
the sequence number wraps twice; MaxUp exceeds the 12 values of a COUNT, so the
uplink COUNT wraps as a whole. Messages of older contexts arrive under newer ones,
and a context with IA0 comes after one with a MAC and before another. No fairness is
stated.

Proved (`NasCountProofs`), for all widths above 1 and all bounds:
`StoredCountCorrect`, `UplinkCountCorrect`, `WindowCorrect`, `AcceptedMoveOn`, one
for each property. The invariant is the type invariant with the two statements
about COUNTs. The work is in the arithmetic: division with remainder is unique,
and a number that is fewer than SqnMod ahead of another has the overflow that the
comparison of the two sequence numbers guesses. For 256 and 65536 this says that
255 messages lost in a row are recovered from, and 256 are not. That the stored COUNT
is the sender's says most under IA0, where nothing but the
estimate and the order of the messages makes it so; with a MAC only the
sender's own COUNT is accepted, and what could go wrong is that it is not
(`WindowIsAccepted`).

## 6. UeSm

The tables of `SmContext`, `T3580`, and the queue and `connectionInfo` of the
application task. `sendEstablishmentRequest` takes the first free PSI and PTI; if
there is a PSI but no PTI it stores the shared object `PduSession.RELEASED`. An
Accept marks the PTI with a sentinel that is not null, so that it is not free
again; a Reject changes nothing. `connectionSetup` gets a reference to the session
and reads it when it comes to it.

External: the network accepts or rejects what was requested, at any time and
repeatedly, but does not do both; a session is always granted the same address or
type. Commands come at any time.

| run | constants | checks |
|---|---|---|
| `ue_sm` (`UeSm.cfg`) | 3 PSIs, 3 PTIs, 2 addresses, MaxQueue 3 | `RequestsShareNothing`, `NoSharedSession`, `T3580RunsForARequest`, `ConnectionIsASession`, `AcceptedIsReported` |

With three identities all of them run out; as many PTIs as PSIs is the least for
which the code is right (the code has 254 and 15). Three messages in the
application's queue let a repeated Accept, and one of another session, come
before the first is read. Fairness: the application task handles what is in its
queue (its thread runs); nothing is assumed of the network.

Proved (`UeSmProofs`), for all numbers with MaxPsi at most MaxPti, all sets of
addresses and all bounds: `TypeCorrect`, `SharedNothing`, `NeverShared`,
`TimerGuardsRequest`, `ConnectionCorrect`, `EstablishedForGood` (the slot of an accepted
session is never given away or rewritten) and `ReportsCorrect` (the application was
told of established IPv4 sessions only, and what it was not told of is in its queue).
The inductive invariant says that for some n exactly the identities up to n are taken in both tables, and that every
request has equal ones (`Filled`); that a session is what the network grants it
(`SlotsInv`); and that the queue of the application names established sessions
only (`AppInv`).
`AcceptedIsReported` itself is model-checked only; `ReportsCorrect` is its safety half.

## 7. Ping

`PingApp`: counters of type short, `sendPing`'s loop, the table of pings by key,
`timeoutControl`, which runs after a message was taken from the queue and before
it is handled, and at most once a second, and `handleEchoReplyPacket`. The native
code reads the identifier and the number of a packet as unsigned halves. The loop
of one command is one task's, so nothing else of that task happens before it
ends, but replies may already arrive.

External: an echo request may be answered at any time, repeatedly or never.

| run | constants | checks |
|---|---|---|
| `ping` (`Ping.cfg`) | shorts of -4..3, MaxPings 3, MaxQueue 2 | `ReportedOnce`, `ReplyIsOwn`, `TimeoutMeansNoResponse`, `LimitedIsReported` |
| `ping_short` (`PingShort.cfg`) | shorts of -2..1, MaxPings 2 | `TimeoutMeansNoResponse`, violated |

In `ping` the counters stay positive; three pings give one that is answered, one
that times out and one whose reply is late, and two replies in the queue give
every order. Fairness: the task's loop goes on, seconds pass, and so do the
timeouts of pings.

Finding: from the 32768th ping on the counter is negative; the key `id << 16 | seq`
is then sign-extended, the key of the reply is not, and an answered ping is
reported as not answered.

Proved (`PingProofs`), for all widths with Half at least 2 (a short has 32768; with
Half = 1 the number 1, with which the counters start again, is not one):

| theorem | what it says | pings |
|---|---|---|
| `TypeCorrect` | `TypeOK` | any |
| `SingleReports` | `ReportedOnce` | any |
| `RepliesMatchNumbers` | a reply is reported for a ping of the same number only | any |
| `NegativeNeverAnswered` | a ping with a number below -1 is never reported as answered: the finding, for all behaviours | any |
| `RepliesAreOwn` | `ReplyIsOwn` | fewer than Width |
| `NotForgotten` | an entry leaves the table only in a step after which its ping is reported: the safety half of `LimitedIsReported` | fewer than Width |
| `TimeoutsExplained` | a ping with a reply handled in time is reported as timed out only if its number is below -1 | fewer than Width |
| `TimeoutsAreSilent` | `TimeoutMeansNoResponse` | fewer than Half |

The limits are those of the code: the Width-th ping has the number of an earlier
one, and the Half-th the first negative number. `SingleReports` rests on `OnceInv` (a
ping that is in the table was not reported, and no two entries are of one ping). The
others rest on `Number(n)`, the short that the n-th ping gets: `NumberInv` says that
counters, packets, keys and replies agree with it, and `TimeInv` that a ping that was
sent and not reported has its entry, and that a reply handled in time, unless its
number is below -1, was reported. For -1 both halves of the key are all ones on
either side, so it is found. `LimitedIsReported` itself is model-checked only.

## 8. UserPlane

The way of a session and of its packets. `receiveResourceSetupRequest` runs step by
step: tunnel to the GTP task's queue, Accept to the MR task's queue, next item,
response. An item that is refused ends the handler after the items before it.
The tasks are FIFO queues; `findFirst` is the linear search of `GtpUContext`.
The TUN bridge has two threads: its task begins a `put` into `ipRoute`
(`handleSessionEstablishment`) and completes it (`RouteEntered`), and its receiver
looks routes up in between; such a lookup may miss an entry or see the new one
(`Lookups`). `addr` puts the four octets together with their signs, as Java does.
Addresses, TEIDs and PSIs of sessions are data (`Sessions`).

External: the AMF asks for each session once; the UPF sends packets for confirmed
sessions; a packet from the TUN interface has the address of a session. There is
one gNB and, since the gNB takes the UPF's TEID for its own, one UPF.

| run | constants | checks |
|---|---|---|
| `user_plane` (`UserPlane.cfg`) | 3 sessions of 2 UEs in one /24 network, octets below and above 127; MaxItems 2, MaxData 1 | `NothingLost`, `UplinkInOwnTunnel`, `DownlinkReachesItsUe`, `DataFollowsAccept`, `AcceptedIsRouted`, `DownlinkArrives` |
| `user_plane_routes` (`UserPlaneRoutes.cfg`) | 2 sessions, addresses 10.45.0.130 and 10.45.1.130; MaxItems 1, MaxData 0 | `OverwritesSameAddress`, violated |

Two items let the second be refused after the first has its tunnel; three
sessions have two UEs with the same PSI and one UE with two. One packet is
enough: packets do not influence each other, only set-up and packet race.
Fairness: every task and the bridge's task handle what is in their queues; none
for the AMF, the UPF or the applications. Deadlock is not checked, as everything
may have been sent.

Finding: route keys are put together of signed octets, so different addresses may
have the same key, and the second session takes over the route of the first.

Proved (`UserPlaneProofs`), for any UEs and sessions and all bounds: `TypeCorrect`;
`TunnelBeforeData` (no packet comes to the GTP task before its tunnel). Its
invariant `TunnelInv` follows a session from queue to queue: whoever knows a
session, be it a queue, the table of routes or the list of confirmed ones, knows it
after its tunnel was queued, and in the GTP task's queue the tunnel is ahead of
every packet; `DownlinkCorrect` (`DownInv`);
`UplinkCorrect` for sessions with different route keys (`UpInv`), and
`OneNetworkIsDistinct`, which gives that condition for sessions in one /24 network
of any size; and `AcceptBeforeData`. Its invariant `FollowInv` says for every queue
on the way to the UE that a packet has the Accept of its session ahead of it in the
queue, or that the Accept is further on (`Follows`), and that whatever makes the UPF
send, the list of what succeeded included, is behind the Accept.

Two groups of theorems go with the finding and with the liveness properties.
`KeysCollide` says which addresses share a key: every octet they differ in is followed
by a common one of 128 or more. If the keys of the sessions differ,
`OverwritesSameAddress`, which `user_plane_routes` finds violated, holds
(`OverwritingCorrect`): the collision is its only cause. `DownlinkKept` and `UplinkKept`
say that no step drops a downlink packet, or an uplink packet that has its session,
and `AcceptNeverLost` that none drops an Accept; `AcceptedRouteKept` that the route of an
accepted session is in the bridge's queue, being put, or in the table as its own, and
`EnteredRoutesStay` that it stays there, both if the keys differ. With these, what is
left of `AcceptedIsRouted`, `DownlinkArrives` and of the uplink is that the tasks go on, which TLC
checks under fairness.

## 9. Startup

From `ProcedureTester.start` to the commands of the testers. The main thread
creates the gNB, whose threads start (`createGnb`), and only then sets
`initState` (`startWaiting`). A receiver per AMF connects, stores and counts its
association, and may fail or be lost; the SCTP task waits until all are counted,
then tells the triggering thread (`triggerSctp`) and the application task
(`announceReady`), whose flag decides whether uplink messages of UEs are relayed
or dropped. An exception in `sctpSend` ends the SCTP task. The NGAP task sends an
NGSetupRequest per association and only reports the response.

The triggering thread hands each event to the procedure tester, then to the load
test listener. With the last UE's connection it waits at the console
(`onTesterInit`). Each tester sends its second command after RM_REGISTERED, once,
and pings after an address. The load test listener starts and reads timers per
node (`Starts`, `Reads`); reading one that is not there is a null, which ends the
thread.

External: an AMF may or may not answer; the network sends a UE it knows any
message, also out of turn, in which case `skipped` is set. The UEs do what
`UeNas`, `UeSm` and `Ping` allow, reduced to commands and events: a command makes
a UE send a request or nothing, a message is followed by one of its reactions.
As in the code an InitialUEMessage may overtake the NGSetupRequest, and only
`initialSctpReady` decides whether it is sent.

| run | constants | checks |
|---|---|---|
| `startup` (`Startup.cfg`) | 2 AMFs, 2 UEs (symmetric), the de-registration and PDU session tests, MaxLate 1, MaxDown 4, MaxTriggers 1; 6,251,935 distinct states | `SctpDeathExplained`, `TestsStartTogether`, `CommandsInOrder`, `ListenerDeathExplained`, `WaitExplained`, `RefinesProcedureTest` |

Two AMFs let one association be up while the other fails; two UEs let one run
while the other connects; a late search response connects a UE again. Four
messages of the network are enough to register a UE and give it an address out
of turn, or to leave out a step of a whole registration. `WaitExplained` says who
may wait for ever: start-up ends, so it is stated of the states in which none of
its steps is enabled, and needs no fairness. Its first half has TLC compare the guards
as they are written in `CanGoOn` with those of the actions (ENABLED); its second
half, `StallExplained`, is about `CanGoOn`. `RefinesProcedureTest` is what the
testers promise as a state machine of its own: UEs connect, one test is started
for all of them at once, each proceeds once and then pings. Deadlock is not checked, as start-up
really ends.

What the run shows. Start-up stops for ever if an association fails (the SCTP
task waits for all of them) or if all associations are counted, and the event
handled, before `start` has set `initState`; there is no third reason. The SCTP
task ends only through an association that was lost. The triggering thread ends
only if the network leaves out a step of a procedure.

Proved (`StartupProofs`), for any finite set of AMFs, any non-empty set of UEs and all
bounds (at least one trigger): `TypeCorrect`; `SctpDeathCorrect` (what is sent, and what will be, goes to
an AMF whose association was up: `LinkInv`, which counts the associations with the
cardinality of the set); `TestsStartCorrect` and `CommandsCorrect` (`TesterInv`: every
queued event is one that happened, a UE that is not waited for is connected, and
what each UE was given is what its tester's state says); `ListenerDeathCorrect`
(`ListenerInv`: as long as nothing was skipped, each queued event finds its timers
there, or an event that is not behind it in the queue starts them, and every
message a UE sent has had its timers started, or will have by its queued event);
`StallCorrect` (`StallExplained`; `StartInv`: an event that start-up waits for and
that was not missed is in the queue of triggers, and each thread that others wait for
has been started; that the condition is exact needs `OneSctp`: the SCTP event comes once,
so it is either missed or not); `StoppedForGood` (neither of the two reasons goes away:
from then on no test is asked for and no UE is connected or given a command);
and `StartupRefines` (a step gives a command or starts a test
as `ProcedureTest` does, connects a UE, or changes nothing it has; that only one
test is started needs `TestInv`: a test is selected with the testers of all UEs).
That `CanGoOn` says when a step is ENABLED is model-checked only.

## 10. What the prover leaves to TLC

Liveness under fairness: `SearchSucceeds`, `SearchTrafficStops`, `AcceptedIsReported`,
`LimitedIsReported`, `AcceptedIsRouted` and `DownlinkArrives`. ENABLED: the first half
of `WaitExplained`. For each of
the six a theorem states the safety half, that nothing is lost, or added, on the way:
`SearchGoesOn`, `SearchOnlyDrains`, `ReportsCorrect`, `NotForgotten`,
`AcceptedRouteKept` and `DownlinkKept`. That the tasks then get there is TLC's. Every other property of a passing run is stated by a theorem,
three of them under `OneMeant`, `NeverShared` for at least as many PTIs as PSIs,
`UplinkCorrect` for different route keys, and two about pings for fewer than Width or
Half of them. The violations are TLC's; `T3521NeverRuns`, `NegativeNeverAnswered`,
`KeysCollide` and `OverwritingCorrect` say how far they reach. No module uses recursion.

## 11. Hazards without a property

Some entries of "hazards", or parts of them, have no property, for the reason the note gives.

* The code does something a reader would ask about, and nothing in the repository says it
  should not: the exception of a de-registration without a security context; the
  registration request that is dropped before the gNB is ready; T3510, which is never
  stopped nor acted upon; the reroute that keeps the old AMF's id; the Accept of one
  request that stops the timer of all; the uplink COUNT that wraps without a new
  context. All of them are in the models, so that everything checked and proved holds
  in their presence. So is the warning whose formatting throws, which the invariants
  of the handler are checked across, and the late search response that leaves the RM
  state behind, which `RegisteredStatesAgree` leaves out.
* The models exclude it: TEIDs that are shared by several UPFs or outlive a context
  release (one UPF, no release in `UserPlane`), and a session that is granted anew
  while the application has a reference to it (grants are fixed per session).
* It is the library's: a lookup in `ipRoute` during an entry may miss it in
  `UserPlane`, but never returns the entry of another key.

## 12. Not modelled

* NAS, NGAP, GTP and ICMP codecs, cryptography, the object mapper and utilities
  are conversions without state between calls.
* By far the most lines of the repository are the native NGAP codec under
  `native/ngap-native/src/asn_generated`, which asn1c generated from the
  standard's ASN.1 together with its runtime. They hold tables and encoders of
  types, no behaviour of the simulator, which calls them as a function from XML to
  bytes and back. The other native code is small: glue for that codec, ciphers
  with a buffer per thread, the TUN agent, which copies between sockets, and the
  ICMP packets, of which `Ping` has what matters.
* Sockets, the TUN device, configuration files and console are I/O; what arrives
  over them, and whether, is in the models. `WebApp` is commented out in the
  source, `StepperMessagingListener` is used nowhere.
* What `HashMap` does when two of its changes overlap: a put into the bucket or during
  the growth of the table in which a remove is at work may be lost, or the removed entry
  come back. `GnbNgap` has lookups disturbed by a put, and `UserPlane` lookups during an
  entry; `ThreadDeathsExplained` and `NothingAfterRelease` are about maps whose changes are
  not lost.
* Several gNBs for one UE (no handover exists in the code), several UPFs.
