------------------------------- MODULE GnbNgap -------------------------------
(***************************************************************************)
(* UE-associated signalling of one gNB: the UE contexts, a plain HashMap   *)
(* shared by the MR thread (uplink NAS) and the NGAP thread (messages of   *)
(* the AMFs).  Map accesses of the two threads interleave; everything a    *)
(* thread does between two accesses that the other one can tell apart is   *)
(* one step.  An exception other than NgapErrorException ends the thread.  *)
(*                                                                         *)
(* The UEs and the AMFs are external.  A UE sends uplink NAS messages at   *)
(* any time after the gNB's associations are up.  An AMF may send any      *)
(* message at any time for the RAN UE NGAP IDs it has seen, and gives each *)
(* of them an AMF UE NGAP ID that is unique within that AMF.               *)
(*                                                                         *)
(* PDU session resources and user data are not part of this module, nor    *)
(* are messages that are not UE-associated: they change none of its state. *)
(***************************************************************************)
EXTENDS Naturals, Sequences, FiniteSets

CONSTANTS
    Ues,
    Amfs,
    FirstAmf,          \* config.amfConfigs[0]
    AmfSetOf,          \* the AMF set of each AMF; PLMN and region are the same
    Outbound,          \* outbound streams of every SCTP association
    InStreams,         \* streams on which AMFs send UE-associated messages
    IgnoreStreamIds,   \* config.ignoreStreamIds
    AmfKinds,          \* the kinds of messages the AMFs send
    AmfUeIds,          \* AMF UE NGAP IDs
    NONE,              \* Java's null
    MaxRanId,          \* bound: RAN UE NGAP IDs are taken up to it
    MaxQueue           \* bound: messages are added to the MR queue below it

Kinds == {"DownlinkNas", "InitialContextSetup", "Modification", "Reroute",
          "Release", "ReleaseById", "Other"}

ASSUME AmfsAssumption == FirstAmf \in Amfs /\ NONE \notin Amfs
ASSUME UesAssumption == {NONE, "idle", "closed"} \cap Ues = {}
ASSUME AmfUeIdsAssumption == NONE \notin AmfUeIds
ASSUME StreamsAssumption == Outbound \in Nat \ {0} /\ InStreams \subseteq Nat
ASSUME FlagsAssumption == IgnoreStreamIds \in BOOLEAN /\ AmfKinds \subseteq Kinds
ASSUME BoundsAssumption == MaxRanId \in Nat /\ MaxQueue \in Nat

RanIds == 1..MaxRanId

VARIABLES
    ueContexts,        \* GnbSimContext.ueContexts: GnbUeContext per UE, or NONE
    ueNgapIdCounter,
    nextStream,        \* GnbAmfContext.nextStream of FirstAmf, the only one used
    mrQueue,           \* queue of the MR task
    mrPc, mrUe,        \* MR thread: "idle", "send" (containsKey was true), "dead"
    ngapPc,            \* NGAP thread: "idle", "lookup", "handle", "resend", "complete",
                       \* "remove", "dead"
    ngapMsg, ngapUe,   \* the message being handled and the UE found for it
    disturbed,         \* a context was put while the NGAP thread was iterating
    amfUeId,           \* external: the id each AMF gave to a RAN UE NGAP ID
    heard,             \* external: the AMFs that received a message for an id
    owner,             \* history: the UE an id was allocated for
    delivered          \* history: the last message relayed to each UE

mrVars == <<mrPc, mrUe>>
ngapVars == <<ngapPc, ngapMsg, ngapUe>>
idVars == <<ueNgapIdCounter, nextStream, owner>>
vars == <<ueContexts, idVars, mrQueue, mrVars, ngapVars, disturbed, amfUeId,
          heard, delivered>>

\* GnbUeContext; the attributes that are only stored are left out.
GnbUeContext ==
    [ranUeNgapId : RanIds, amfUeNgapId : AmfUeIds \cup {NONE}, associatedAmf : Amfs,
     uplinkStream : 0..(Outbound - 1), downlinkStream : InStreams \cup {0}]

\* What the MR queue holds.  "ran" and "stream" of a downlink message are history:
\* the association its AMF meant and the stream it came on.
MrMessage ==
    [kind : {"uplink", "downlink", "release"}, ue : Ues, ran : RanIds \cup {0},
     stream : InStreams \cup {0}]

AmfMessage ==
    [kind : Kinds, amf : Amfs, ran : RanIds, id : AmfUeIds \cup {NONE}, stream : InStreams]

ASSUME NoneAssumption == NONE \notin GnbUeContext /\ NONE \notin MrMessage /\ NONE \notin AmfMessage

Init ==
    /\ ueContexts = [u \in Ues |-> NONE]
    /\ ueNgapIdCounter = 0
    /\ nextStream = 0
    /\ mrQueue = <<>>
    /\ mrPc = "idle" /\ mrUe = NONE
    /\ ngapPc = "idle" /\ ngapMsg = NONE /\ ngapUe = NONE
    /\ disturbed = FALSE
    /\ amfUeId = [a \in Amfs |-> [r \in RanIds |-> NONE]]
    /\ heard = [r \in RanIds |-> {}]
    /\ owner = [r \in RanIds |-> NONE]
    /\ delivered = [u \in Ues |-> NONE]

Known == {u \in Ues : ueContexts[u] # NONE}

Enqueue(kind, u, ran, stream) ==
    mrQueue' = Append(mrQueue, [kind |-> kind, ue |-> u, ran |-> ran, stream |-> stream])

\* NgapTransfer.sendNgapUeAssociated: the message goes out on the context's stream
\* to the context's AMF, which has then seen the RAN UE NGAP ID.
sendNgapUeAssociated(c) ==
    heard' = [heard EXCEPT ![c.ranUeNgapId] = @ \cup {c.associatedAmf}]

-----------------------------------------------------------------------------
(* The UEs. *)

\* A UE's MR task relays an uplink NAS message to the gNB's MR task.
UeSends(u) ==
    /\ Len(mrQueue) < MaxQueue
    /\ Enqueue("uplink", u, 0, 0)
    /\ UNCHANGED <<ueContexts, idVars, mrVars, ngapVars, disturbed, amfUeId, heard, delivered>>

-----------------------------------------------------------------------------
(* The MR thread. *)

\* Mutant: stream 0 is not skipped.
NextStreamNoSkip(n) == (n + 1) % Outbound

\* Streams of UE-associated signalling: round robin over the streams but 0.
NextStream(n) ==
    LET next == (n + 1) % Outbound
    IN  IF next = 0 /\ Outbound > 1 THEN 1 ELSE next

\* Mutant: ids are counted by the contexts there are.
NextRanIdBySize == Cardinality(Known) + 1

\* ++ctx.ueNgapIdCounter
NextRanId == ueNgapIdCounter + 1

\* Always the first configured AMF.
selectAmfForUe == FirstAmf

\* NgapUeManagement.createUeContext and the choice of the uplink stream.
NewContext ==
    [ranUeNgapId |-> NextRanId, amfUeNgapId |-> NONE, associatedAmf |-> selectAmfForUe,
     uplinkStream |-> NextStream(nextStream), downlinkStream |-> 0]

\* ueContexts.containsKey
HasContext(u) == ueContexts[u] # NONE

\* receiveUplinkNasTransport for a UE without a context: create one and send an
\* InitialUEMessage.  Nobody removes the context before its id is on the wire, so
\* this is one step; its put disturbs the iterations and gets of a message that the
\* NGAP thread is handling.  That holds for the first put into an empty map, too: an
\* iterator notes the number of changes before it looks for entries.
MrInitialUeMessage ==
    /\ mrPc = "idle" /\ mrQueue # <<>>
    /\ Head(mrQueue).kind = "uplink"
    /\ NextRanId <= MaxRanId
    /\ LET u == Head(mrQueue).ue
       IN  /\ ~HasContext(u)
           /\ ueContexts' = [ueContexts EXCEPT ![u] = NewContext]
           /\ ueNgapIdCounter' = NextRanId
           /\ nextStream' = NextStream(nextStream)
           /\ owner' = [owner EXCEPT ![NextRanId] = u]
           /\ sendNgapUeAssociated(NewContext)
           /\ disturbed' = (disturbed \/ ngapPc \notin {"idle", "dead"})
    /\ mrQueue' = Tail(mrQueue)
    /\ UNCHANGED <<mrVars, ngapVars, amfUeId, delivered>>

\* receiveUplinkNasTransport for a UE with a context, until containsKey.
MrUplinkKnown ==
    /\ mrPc = "idle" /\ mrQueue # <<>>
    /\ Head(mrQueue).kind = "uplink"
    /\ HasContext(Head(mrQueue).ue)
    /\ mrPc' = "send" /\ mrUe' = Head(mrQueue).ue
    /\ mrQueue' = Tail(mrQueue)
    /\ UNCHANGED <<ueContexts, idVars, ngapVars, disturbed, amfUeId, heard, delivered>>

\* The get of sendNgapUeAssociated, after that containsKey: the NGAP thread may have
\* removed the context, and the null pointer ends the MR thread.
MrSendUplink ==
    /\ mrPc = "send"
    /\ IF ueContexts[mrUe] = NONE
       THEN mrPc' = "dead" /\ UNCHANGED <<mrUe, heard>>
       ELSE mrPc' = "idle" /\ mrUe' = NONE /\ sendNgapUeAssociated(ueContexts[mrUe])
    /\ UNCHANGED <<ueContexts, idVars, mrQueue, ngapVars, disturbed, amfUeId, delivered>>

\* IwDownlinkNas and IwConnectionRelease go to the MR task of the UE.
MrDeliver ==
    /\ mrPc = "idle" /\ mrQueue # <<>>
    /\ Head(mrQueue).kind # "uplink"
    /\ delivered' = [delivered EXCEPT ![Head(mrQueue).ue] = Head(mrQueue)]
    /\ mrQueue' = Tail(mrQueue)
    /\ UNCHANGED <<ueContexts, idVars, mrVars, ngapVars, disturbed, amfUeId, heard>>

MrStep == MrInitialUeMessage \/ MrUplinkKnown \/ MrSendUplink \/ MrDeliver

-----------------------------------------------------------------------------
(* The NGAP thread. *)

Live(r) == \E u \in Known : ueContexts[u].ranUeNgapId = r

\* An AMF may use an id again once the association it stood for is released.
UsedIds(a) == {amfUeId[a][r] : r \in {q \in RanIds : Live(q)}}

\* NgapTask takes a message of AMF a for the association r.  The AMF uses the id it
\* gave to r, now if this is its first message; a reroute request and an error
\* indication may come without one.  It does not use an id alone for an association
\* whose release is complete.
NgapReceive(a, r, kind, stream) ==
    /\ ngapPc = "idle"
    /\ a \in heard[r]
    /\ kind = "ReleaseById" => Live(r)
    /\ \E id \in (IF amfUeId[a][r] = NONE THEN AmfUeIds \ UsedIds(a) ELSE {amfUeId[a][r]}) :
          /\ amfUeId' = [amfUeId EXCEPT ![a][r] = id]
          /\ \E sent \in {id} \cup (IF kind \in {"Reroute", "Other"} THEN {NONE} ELSE {}) :
                ngapMsg' = [kind |-> kind, amf |-> a, ran |-> r, id |-> sent, stream |-> stream]
    /\ ngapPc' = "lookup"
    /\ disturbed' = FALSE
    /\ UNCHANGED <<ueContexts, idVars, mrQueue, mrVars, ngapUe, heard, delivered>>

\* Which messages look a UE up: those with a handler, and all when streams are checked.
LooksUp == ngapMsg.kind # "Other" \/ ~IgnoreStreamIds

\* Mutant: a context without an AMF UE NGAP ID matches whatever the RAN UE NGAP ID.
FindByAmfIdOrNull == {u \in Known : ueContexts[u].amfUeNgapId \in {NONE, ngapMsg.id}}

\* findUeByAmfId
FindByAmfId == {u \in Known : ueContexts[u].amfUeNgapId = ngapMsg.id}

\* findUeByRanId, or findUeByAmfId for a release command without a RAN UE NGAP ID.
Find ==
    IF ngapMsg.kind = "ReleaseById"
    THEN FindByAmfId
    ELSE {u \in Known : ueContexts[u].ranUeNgapId = ngapMsg.ran}

\* findUeByAmfId unboxes the id of every context it visits before a match.
VisitsNullId ==
    ngapMsg.kind = "ReleaseById" /\ \E u \in Known : ueContexts[u].amfUeNgapId = NONE

AmfIdFits(u) == ueContexts[u].amfUeNgapId \in {NONE, ngapMsg.id}

\* Mutant: no check.
StreamFitsAny(u) == TRUE

\* The stream check of NgapTask.receiveNgap.
StreamFits(u) ==
    IgnoreStreamIds \/ ueContexts[u].downlinkStream \in {0, ngapMsg.stream}

BindAmfId(u) == [ueContexts EXCEPT ![u].amfUeNgapId = ngapMsg.id]

BindStream(u) ==
    LET stream == IF IgnoreStreamIds THEN ueContexts[u].downlinkStream ELSE ngapMsg.stream
    IN  [ueContexts EXCEPT ![u].amfUeNgapId = ngapMsg.id, ![u].downlinkStream = stream]

\* On stream 0, or without an AMF id, the message is refused before any lookup.
Refused == (~IgnoreStreamIds /\ ngapMsg.stream = 0) \/ ngapMsg.id = NONE

\* The UE is found, its ids and its stream agree and are bound to the context.
NgapFound ==
    /\ ngapPc = "lookup" /\ LooksUp /\ ~Refused
    /\ \E u \in Find :
          /\ AmfIdFits(u) /\ StreamFits(u)
          /\ ueContexts' = BindStream(u)
          /\ ngapUe' = u
    /\ ngapPc' = "handle"
    /\ UNCHANGED <<idVars, mrQueue, mrVars, ngapMsg, disturbed, amfUeId, heard, delivered>>

NgapDone == ngapPc' = "idle" /\ ngapMsg' = NONE /\ ngapUe' = NONE

\* NgapErrorException: an ErrorIndication, not UE-associated, answers the message.
\* What was bound before the exception stays bound.  A lookup that a put disturbed
\* may miss the entry, also the second lookup of a message.
NgapError ==
    /\ ngapPc = "lookup" /\ LooksUp
    /\ \/ Refused /\ UNCHANGED ueContexts
       \/ ~Refused /\ Find = {} /\ ~VisitsNullId /\ UNCHANGED ueContexts
       \/ ~Refused /\ \E u \in Find : ~AmfIdFits(u) /\ UNCHANGED ueContexts
       \/ ~Refused /\ \E u \in Find : AmfIdFits(u) /\ ~StreamFits(u) /\ ueContexts' = BindAmfId(u)
       \/ ~Refused /\ disturbed /\ UNCHANGED ueContexts
       \/ ~Refused /\ disturbed
          /\ \E u \in Find : AmfIdFits(u) /\ StreamFits(u) /\ ueContexts' = BindStream(u)
    /\ NgapDone
    /\ UNCHANGED <<idVars, mrQueue, mrVars, disturbed, amfUeId, heard, delivered>>

\* ConcurrentModificationException of a disturbed iteration, an unboxed null, or a
\* get that a put made miss.
NgapDies ==
    /\ \/ ngapPc = "lookup" /\ LooksUp /\ ~Refused /\ (disturbed \/ VisitsNullId)
       \/ ngapPc \in {"handle", "resend", "complete"} /\ disturbed
    /\ ngapPc' = "dead"
    /\ UNCHANGED <<ueContexts, idVars, mrQueue, mrVars, ngapMsg, ngapUe, disturbed, amfUeId,
                   heard, delivered>>

\* ErrorIndication and unhandled messages are only logged.
NgapOther ==
    /\ \/ ngapPc = "lookup" /\ ~LooksUp
       \/ ngapPc = "handle" /\ ngapMsg.kind = "Other"
    /\ NgapDone
    /\ UNCHANGED <<ueContexts, idVars, mrQueue, mrVars, disturbed, amfUeId, heard, delivered>>

Context == ueContexts[ngapUe]

\* The NAS message an NGAP message carries, if any, is queued for the MR task.
RelayNas ==
    \/ /\ Len(mrQueue) < MaxQueue
       /\ Enqueue("downlink", ngapUe, ngapMsg.ran, ngapMsg.stream)
    \/ UNCHANGED mrQueue

receiveDownlinkNasTransport ==
    /\ ngapPc = "handle" /\ ngapMsg.kind = "DownlinkNas"
    /\ RelayNas
    /\ NgapDone
    /\ UNCHANGED <<ueContexts, idVars, mrVars, disturbed, amfUeId, heard, delivered>>

receiveInitialContextSetup ==
    /\ ngapPc = "handle" /\ ngapMsg.kind = "InitialContextSetup"
    /\ sendNgapUeAssociated(Context)
    /\ RelayNas
    /\ NgapDone
    /\ UNCHANGED <<ueContexts, idVars, mrVars, disturbed, amfUeId, delivered>>

\* The AMF may move its UE to another AMF UE NGAP ID.
receiveContextModificationRequest ==
    /\ ngapPc = "handle" /\ ngapMsg.kind = "Modification"
    /\ \/ UNCHANGED <<ueContexts, amfUeId>>
       \/ \E id \in AmfUeIds \ UsedIds(ngapMsg.amf) :
             /\ ueContexts' = [ueContexts EXCEPT ![ngapUe].amfUeNgapId = id]
             /\ amfUeId' = [amfUeId EXCEPT ![ngapMsg.amf][ngapMsg.ran] = id]
    /\ sendNgapUeAssociated(Context)
    /\ NgapDone
    /\ UNCHANGED <<idVars, mrQueue, mrVars, disturbed, delivered>>

\* selectNewAmfForReAllocation: the AMFs of the set, without the sender.
Candidates(set) == {a \in Amfs \ {ngapMsg.amf} : AmfSetOf[a] = set}

\* receiveRerouteNasRequest up to the assignment of the new AMF, if there is one.  The
\* set it names may be the set of some AMF, or one (NONE) that no AMF is in.
receiveRerouteNasRequest ==
    /\ ngapPc = "handle" /\ ngapMsg.kind = "Reroute"
    /\ \E set \in {AmfSetOf[a] : a \in Amfs} \cup {NONE} :
          \/ /\ Candidates(set) = {}
             /\ NgapDone /\ UNCHANGED ueContexts
          \/ /\ \E new \in Candidates(set) :
                   ueContexts' = [ueContexts EXCEPT ![ngapUe].associatedAmf = new]
             /\ ngapPc' = "resend" /\ UNCHANGED <<ngapMsg, ngapUe>>
    /\ UNCHANGED <<idVars, mrQueue, mrVars, disturbed, amfUeId, heard, delivered>>

\* Then the InitialUEMessage is sent again.
NgapResend ==
    /\ ngapPc = "resend"
    /\ sendNgapUeAssociated(Context)
    /\ NgapDone
    /\ UNCHANGED <<ueContexts, idVars, mrQueue, mrVars, disturbed, amfUeId, delivered>>

\* receiveContextReleaseCommand tells the UE,
receiveContextReleaseCommand ==
    /\ ngapPc = "handle" /\ ngapMsg.kind \in {"Release", "ReleaseById"}
    /\ Len(mrQueue) < MaxQueue
    /\ Enqueue("release", ngapUe, ngapMsg.ran, ngapMsg.stream)
    /\ ngapPc' = "complete"
    /\ UNCHANGED <<ueContexts, idVars, mrVars, ngapMsg, ngapUe, disturbed, amfUeId, heard,
                   delivered>>

\* sends UEContextReleaseComplete,
NgapReleaseComplete ==
    /\ ngapPc = "complete"
    /\ sendNgapUeAssociated(Context)
    /\ ngapPc' = "remove"
    /\ UNCHANGED <<ueContexts, idVars, mrQueue, mrVars, ngapMsg, ngapUe, disturbed, amfUeId,
                   delivered>>

\* Mutant: the context is left behind.
RemoveNothing == ueContexts

Remove == [ueContexts EXCEPT ![ngapUe] = NONE]

\* and removes the context.
NgapRemove ==
    /\ ngapPc = "remove"
    /\ ueContexts' = Remove
    /\ NgapDone
    /\ UNCHANGED <<idVars, mrQueue, mrVars, disturbed, amfUeId, heard, delivered>>

NgapStep ==
    \/ \E a \in Amfs, r \in RanIds, kind \in AmfKinds, stream \in InStreams :
          NgapReceive(a, r, kind, stream)
    \/ NgapFound \/ NgapError \/ NgapDies \/ NgapOther
    \/ receiveDownlinkNasTransport \/ receiveInitialContextSetup
    \/ receiveContextModificationRequest \/ receiveRerouteNasRequest \/ NgapResend
    \/ receiveContextReleaseCommand \/ NgapReleaseComplete \/ NgapRemove

Next == (\E u \in Ues : UeSends(u)) \/ MrStep \/ NgapStep

Spec == Init /\ [][Next]_vars

-----------------------------------------------------------------------------
(* Properties. *)

\* The state of the gNB, of its two threads and of their queue is well formed.
TypeOK ==
    /\ ueContexts \in [Ues -> GnbUeContext \cup {NONE}]
    /\ ueNgapIdCounter \in 0..MaxRanId
    /\ nextStream \in 0..(Outbound - 1)
    /\ mrQueue \in Seq(MrMessage)
    /\ mrPc \in {"idle", "send", "dead"}
    /\ mrUe \in Ues \cup {NONE} /\ (mrPc # "idle" => mrUe \in Ues)
    /\ ngapPc \in {"idle", "lookup", "handle", "resend", "complete", "remove", "dead"}
    /\ ngapMsg \in AmfMessage \cup {NONE} /\ (ngapPc # "idle" => ngapMsg # NONE)
    /\ ngapUe \in Ues \cup {NONE}
    /\ ngapPc \in {"handle", "resend", "complete", "remove"} =>
          ngapUe \in Ues /\ HasContext(ngapUe)
    /\ disturbed \in BOOLEAN
    /\ amfUeId \in [Amfs -> [RanIds -> AmfUeIds \cup {NONE}]]
    /\ heard \in [RanIds -> SUBSET Amfs]
    /\ owner \in [RanIds -> Ues \cup {NONE}]
    /\ delivered \in [Ues -> MrMessage \cup {NONE}]

\* A NAS message or a release goes to the UE for which the association that the AMF
\* addressed was opened, whatever was released and allocated in between
\* (findAssociatedUeId, createUeContext).
NoMisdelivery ==
    /\ \A u \in Ues : delivered[u] # NONE => owner[delivered[u].ran] = u
    /\ \A i \in DOMAIN mrQueue :
          mrQueue[i].kind # "uplink" => owner[mrQueue[i].ran] = mrQueue[i].ue

\* The messages of AMFs for UE u, by their places: 0 is the last one delivered, the
\* others are still in the MR queue.
Relayed(u) ==
    {i \in 0..Len(mrQueue) : IF i = 0 THEN delivered[u] # NONE
                             ELSE mrQueue[i].ue = u /\ mrQueue[i].kind # "uplink"}

Message(u, i) == IF i = 0 THEN delivered[u] ELSE mrQueue[i]

\* A UE gets the messages of its associations in the order in which they were opened,
\* and nothing of an association after its release, although the release is relayed
\* before the context is removed (receiveContextReleaseCommand).
NothingAfterRelease ==
    \A u \in Ues : \A i, j \in Relayed(u) :
        i < j => /\ Message(u, i).ran <= Message(u, j).ran
                 /\ Message(u, i).kind = "release" => Message(u, i).ran < Message(u, j).ran

\* With stream checking, all messages of an association that take effect came on one
\* stream, and it is not stream 0 (NgapTask.receiveNgap).
OneDownlinkStream ==
    ~IgnoreStreamIds =>
        \A u \in Ues : \A i, j \in Relayed(u) :
            /\ Message(u, i).stream # 0
            /\ Message(u, i).ran = Message(u, j).ran => Message(u, i).stream = Message(u, j).stream

\* Uplink streams are taken in turn, whether the associations before are still there or
\* not: Outbound - 1 associations opened one after the other have streams of their own,
\* and none is on stream 0 or outside the SCTP association unless there is no other
\* stream (receiveUplinkNasTransport).  Associations that were opened further apart may
\* share a stream although another one is free.
UplinkStreamsSpread ==
    /\ \A u \in Known :
          ueContexts[u].uplinkStream \in IF Outbound = 1 THEN {0} ELSE 1..(Outbound - 1)
    /\ \A u, v \in Known :
          /\ ueContexts[u].ranUeNgapId < ueContexts[v].ranUeNgapId
          /\ ueContexts[v].ranUeNgapId < ueContexts[u].ranUeNgapId + (Outbound - 1)
          => ueContexts[u].uplinkStream # ueContexts[v].uplinkStream

\* The last message of an AMF for UE u, delivered or on its way, is a release.
ReleasedLast(u) ==
    \E i \in Relayed(u) : Message(u, i).kind = "release" /\ \A j \in Relayed(u) : j <= i

\* No AMF has answered the association of UE u, as far as the gNB took notice.
Unanswered(u) == ueContexts[u].amfUeNgapId = NONE

\* The MR thread ends only on a UE that is released while its uplink message is sent:
\* the context is gone, and the UE has been told.  The NGAP thread ends only while a UE
\* is between its InitialUEMessage and the first message handled for it: one that came
\* after the UE of the message being handled, or any if that is a release command by
\* AMF UE NGAP ID alone (sendNgapUeAssociated, findUeByRanId, findUeByAmfId).
ThreadDeathsExplained ==
    /\ mrPc = "dead" => ueContexts[mrUe] = NONE /\ ReleasedLast(mrUe)
    /\ ngapPc = "dead" =>
          \E u \in Known : /\ Unanswered(u)
                           /\ \/ ueContexts[u].ranUeNgapId > ngapMsg.ran
                              \/ ngapMsg.kind = "ReleaseById"

\* How the UE contexts implement the associations of UeAssociations.
Association ==
    [r \in RanIds |->
        IF r > ueNgapIdCounter THEN "idle"
        ELSE IF Live(r) THEN CHOOSE u \in Known : ueContexts[u].ranUeNgapId = r
        ELSE "closed"]

Abstract == INSTANCE UeAssociations
                WITH Ids <- RanIds, Idle <- "idle", Closed <- "closed", association <- Association

\* RAN UE NGAP IDs are taken in order and never twice, a UE has at most one context and
\* a context names one UE: the two threads implement UeAssociations.
RefinesUeAssociations == Abstract!Spec
=============================================================================
