---------------------------- MODULE GnbNgapProofs ----------------------------
(***************************************************************************)
(* The two threads of the gNB, for any UEs, AMFs, ids, streams and bounds. *)
(***************************************************************************)
EXTENDS GnbNgap, TLAPS

USE DEF mrVars, ngapVars, idVars

(* A context has an id that was handed out, for its UE; an id that was not   *)
(* handed out has no owner.                                                *)
OwnerInv ==
    /\ \A u \in Ues : ueContexts[u] # NONE =>
          /\ ueContexts[u].ranUeNgapId <= ueNgapIdCounter
          /\ owner[ueContexts[u].ranUeNgapId] = u
    /\ \A r \in RanIds : r > ueNgapIdCounter => owner[r] = NONE

(* The inductive invariant. *)
IInv == TypeOK /\ OwnerInv

(* Contexts f agree with the present ones on which UEs have one, on ids and  *)
(* on uplink streams.                                                      *)
SameIds(f) ==
    /\ f \in [Ues -> GnbUeContext \cup {NONE}]
    /\ \A u \in Ues : /\ f[u] = NONE <=> ueContexts[u] = NONE
                      /\ ueContexts[u] # NONE => /\ f[u].ranUeNgapId = ueContexts[u].ranUeNgapId
                                                 /\ f[u].uplinkStream = ueContexts[u].uplinkStream

(* What every step but MrInitialUeMessage and NgapRemove does to contexts. *)
KeepsIds == SameIds(ueContexts') /\ UNCHANGED <<owner, ueNgapIdCounter>>

USE AmfsAssumption, UesAssumption, AmfUeIdsAssumption, StreamsAssumption,
    FlagsAssumption, BoundsAssumption, NoneAssumption

-----------------------------------------------------------------------------
(* NextStream stays within the outbound streams of the association. *)
LEMMA NextStreamType ==
    ASSUME NEW n \in 0 .. (Outbound - 1)
    PROVE  NextStream(n) \in 0 .. (Outbound - 1)
BY DEF NextStream

(* Contexts that keep their ids keep their owners. *)
LEMMA OwnersKept ==
    ASSUME TypeOK, OwnerInv, KeepsIds
    PROVE  OwnerInv'
BY DEF TypeOK, OwnerInv, KeepsIds, SameIds

(* Unchanged contexts keep their ids. *)
LEMMA UnchangedKeeps ==
    ASSUME TypeOK, UNCHANGED <<ueContexts, owner, ueNgapIdCounter>>
    PROVE  KeepsIds
BY DEF TypeOK, KeepsIds, SameIds

(* Replacing a context by one with the same id and uplink stream keeps them. *)
LEMMA ReplaceKeeps ==
    ASSUME TypeOK, NEW u \in Ues, ueContexts[u] # NONE, NEW c \in GnbUeContext,
           c.ranUeNgapId = ueContexts[u].ranUeNgapId, c.uplinkStream = ueContexts[u].uplinkStream
    PROVE  SameIds([ueContexts EXCEPT ![u] = c])
<1> DEFINE f == [ueContexts EXCEPT ![u] = c]
<1>1. f \in [Ues -> GnbUeContext \cup {NONE}] /\ f[u] = c /\ \A v \in Ues \ {u} : f[v] = ueContexts[v]
    BY DEF TypeOK
<1>2. c # NONE
    OBVIOUS
<1> QED
    BY <1>1, <1>2 DEF SameIds

(* So does each of the assignments of the NGAP thread to a context. *)
LEMMA AssignmentsKeep ==
    ASSUME TypeOK, NEW u \in Ues, ueContexts[u] # NONE,
           NEW id \in AmfUeIds \cup {NONE}, NEW amf \in Amfs, NEW stream \in InStreams \cup {0}
    PROVE  /\ SameIds([ueContexts EXCEPT ![u].amfUeNgapId = id])
           /\ SameIds([ueContexts EXCEPT ![u].associatedAmf = amf])
           /\ SameIds([ueContexts EXCEPT ![u].amfUeNgapId = id, ![u].downlinkStream = stream])
<1> DEFINE c == ueContexts[u]
           c1 == [c EXCEPT !.amfUeNgapId = id]
           c2 == [c EXCEPT !.associatedAmf = amf]
           c3 == [c EXCEPT !.amfUeNgapId = id, !.downlinkStream = stream]
<1>1. c \in GnbUeContext
    BY DEF TypeOK
<1>2. /\ c1 \in GnbUeContext /\ c1.ranUeNgapId = c.ranUeNgapId /\ c1.uplinkStream = c.uplinkStream
      /\ c2 \in GnbUeContext /\ c2.ranUeNgapId = c.ranUeNgapId /\ c2.uplinkStream = c.uplinkStream
      /\ c3 \in GnbUeContext /\ c3.ranUeNgapId = c.ranUeNgapId /\ c3.uplinkStream = c.uplinkStream
    BY <1>1 DEF GnbUeContext
<1>3. /\ SameIds([ueContexts EXCEPT ![u] = c1])
      /\ SameIds([ueContexts EXCEPT ![u] = c2])
      /\ SameIds([ueContexts EXCEPT ![u] = c3])
    <2> HIDE DEF c1, c2, c3
    <2> QED BY <1>2, ReplaceKeeps
<1>4. /\ [ueContexts EXCEPT ![u].amfUeNgapId = id] = [ueContexts EXCEPT ![u] = c1]
      /\ [ueContexts EXCEPT ![u].associatedAmf = amf] = [ueContexts EXCEPT ![u] = c2]
      /\ [ueContexts EXCEPT ![u].amfUeNgapId = id, ![u].downlinkStream = stream]
            = [ueContexts EXCEPT ![u] = c3]
    BY <1>1 DEF TypeOK, GnbUeContext
<1> QED
    BY <1>3, <1>4

(* The bindings of a lookup are such assignments. *)
LEMMA BindingsKeep ==
    ASSUME TypeOK, ngapMsg \in AmfMessage, NEW u \in Known
    PROVE  SameIds(BindAmfId(u)) /\ SameIds(BindStream(u))
<1>1. u \in Ues /\ ueContexts[u] # NONE /\ ueContexts[u] \in GnbUeContext
    BY DEF Known, TypeOK
<1>2. /\ ngapMsg.id \in AmfUeIds \cup {NONE} /\ ngapMsg.stream \in InStreams \cup {0}
      /\ ueContexts[u].downlinkStream \in InStreams \cup {0}
    BY <1>1 DEF AmfMessage, GnbUeContext
<1>3. SameIds(BindAmfId(u))
    BY <1>1, <1>2, AssignmentsKeep DEF BindAmfId
<1>4. SameIds(BindStream(u))
    BY <1>1, <1>2, AssignmentsKeep DEF BindStream
<1> QED
    BY <1>3, <1>4

(* A message sent for a well-formed context keeps "heard" well-formed. *)
LEMMA SendType ==
    ASSUME TypeOK, NEW c \in GnbUeContext, sendNgapUeAssociated(c)
    PROVE  heard' \in [RanIds -> SUBSET Amfs]
BY DEF TypeOK, GnbUeContext, sendNgapUeAssociated

(* The MR queue stays well-formed when a message is added or taken. *)
LEMMA QueueType ==
    ASSUME TypeOK
    PROVE  /\ \A kind \in {"uplink", "downlink", "release"}, u \in Ues, ran \in RanIds \cup {0},
                 stream \in InStreams \cup {0} :
                    Enqueue(kind, u, ran, stream) => mrQueue' \in Seq(MrMessage)
           /\ mrQueue # <<>> => /\ Head(mrQueue) \in MrMessage
                                /\ Tail(mrQueue) \in Seq(MrMessage)
<1>1. mrQueue \in Seq(MrMessage)
    BY DEF TypeOK
<1>2. ASSUME NEW kind \in {"uplink", "downlink", "release"}, NEW u \in Ues,
             NEW ran \in RanIds \cup {0}, NEW stream \in InStreams \cup {0},
             Enqueue(kind, u, ran, stream)
      PROVE  mrQueue' \in Seq(MrMessage)
    <2>1. [kind |-> kind, ue |-> u, ran |-> ran, stream |-> stream] \in MrMessage
        BY DEF MrMessage
    <2> QED BY <1>1, <1>2, <2>1 DEF Enqueue
<1> QED
    BY <1>1, <1>2

-----------------------------------------------------------------------------
(* One lemma per action. *)

(* The invariant holds initially: no contexts, no messages. *)
LEMMA InitInv == Init => IInv
<1> SUFFICES ASSUME Init PROVE IInv
    OBVIOUS
<1>1. /\ ueContexts \in [Ues -> GnbUeContext \cup {NONE}]
      /\ delivered \in [Ues -> MrMessage \cup {NONE}]
      /\ amfUeId \in [Amfs -> [RanIds -> AmfUeIds \cup {NONE}]]
      /\ heard \in [RanIds -> SUBSET Amfs]
      /\ owner \in [RanIds -> Ues \cup {NONE}]
    BY DEF Init
<1>2. ueNgapIdCounter \in 0..MaxRanId /\ nextStream \in 0..(Outbound - 1)
    BY DEF Init
<1>3. mrQueue \in Seq(MrMessage)
    BY DEF Init
<1>4. TypeOK
    BY <1>1, <1>2, <1>3 DEF Init, TypeOK
<1>5. OwnerInv
    BY DEF Init, OwnerInv
<1> QED
    BY <1>4, <1>5 DEF IInv

(* A UE's uplink message enters the MR queue. *)
LEMMA UeSendsInv == ASSUME IInv, NEW u \in Ues, UeSends(u) PROVE IInv' /\ KeepsIds
<1>1. mrQueue' \in Seq(MrMessage)
    BY QueueType DEF IInv, UeSends
<1>2. TypeOK'
    BY <1>1 DEF IInv, TypeOK, UeSends, HasContext
<1>3. KeepsIds
    BY UnchangedKeeps DEF IInv, UeSends
<1>4. OwnerInv'
    BY <1>3, OwnersKept DEF IInv
<1> QED
    BY <1>2, <1>3, <1>4 DEF IInv

(* The new context of a UE is well formed and has the next id. *)
LEMMA NewContextType ==
    ASSUME IInv, MrInitialUeMessage
    PROVE  /\ NextRanId \in RanIds /\ NextRanId = ueNgapIdCounter + 1
           /\ NewContext \in GnbUeContext /\ NewContext.ranUeNgapId = NextRanId
<1>1. NextRanId \in RanIds /\ NextRanId = ueNgapIdCounter + 1
    BY DEF IInv, TypeOK, MrInitialUeMessage, NextRanId, RanIds
<1>2. NextStream(nextStream) \in 0 .. (Outbound - 1)
    BY NextStreamType DEF IInv, TypeOK
<1> QED
    BY <1>1, <1>2 DEF NewContext, selectAmfForUe, GnbUeContext

(* The put and the InitialUEMessage of a UE without a context. *)
LEMMA InitialUeMessageInv == ASSUME IInv, MrInitialUeMessage PROVE IInv'
<1> DEFINE u == Head(mrQueue).ue
           c == NewContext
<1>1. u \in Ues /\ Tail(mrQueue) \in Seq(MrMessage)
    BY QueueType DEF IInv, MrInitialUeMessage, MrMessage
<1>2. NextRanId \in RanIds /\ NextRanId = ueNgapIdCounter + 1
    BY NewContextType
<1>3. NextStream(nextStream) \in 0 .. (Outbound - 1)
    BY NextStreamType DEF IInv, TypeOK
<1>4. c \in GnbUeContext /\ c.ranUeNgapId = NextRanId
    BY NewContextType
<1>5. heard' \in [RanIds -> SUBSET Amfs]
    BY <1>4, SendType DEF IInv, MrInitialUeMessage
<1> HIDE DEF c
<1>6. /\ ueContexts[u] = NONE
      /\ ueContexts' = [ueContexts EXCEPT ![u] = c]
      /\ ueNgapIdCounter' = NextRanId /\ nextStream' = NextStream(nextStream)
      /\ owner' = [owner EXCEPT ![NextRanId] = u]
      /\ mrQueue' = Tail(mrQueue)
      /\ disturbed' \in BOOLEAN
      /\ UNCHANGED <<mrVars, ngapVars, amfUeId, delivered>>
    BY DEF MrInitialUeMessage, HasContext, c, IInv, TypeOK
<1> HIDE DEF u
<1>7. TypeOK'
    <2>1. ueContexts' \in [Ues -> GnbUeContext \cup {NONE}]
        BY <1>1, <1>4, <1>6 DEF IInv, TypeOK
    <2>2. \A v \in Ues : ueContexts[v] # NONE => ueContexts'[v] # NONE
        BY <1>1, <1>4, <1>6 DEF IInv, TypeOK
    <2>3. owner' \in [RanIds -> Ues \cup {NONE}]
        BY <1>1, <1>2, <1>6 DEF IInv, TypeOK
    <2>4. ueNgapIdCounter' \in 0..MaxRanId
        BY <1>2, <1>6 DEF RanIds
    <2> QED
        BY <1>1, <1>3, <1>5, <1>6, <2>1, <2>2, <2>3, <2>4 DEF IInv, TypeOK, HasContext
<1>8. OwnerInv'
    <2>1. ASSUME NEW v \in Ues, ueContexts'[v] # NONE
          PROVE  /\ ueContexts'[v].ranUeNgapId <= ueNgapIdCounter'
                 /\ owner'[ueContexts'[v].ranUeNgapId] = v
        <3>1. CASE v = u
            BY <1>1, <1>2, <1>4, <1>6, <3>1 DEF IInv, TypeOK
        <3>2. CASE v # u
            <4>1. ueContexts'[v] = ueContexts[v] /\ ueContexts[v] \in GnbUeContext
                BY <1>1, <1>6, <2>1, <3>2 DEF IInv, TypeOK
            <4>2. /\ ueContexts[v].ranUeNgapId \in RanIds
                  /\ ueContexts[v].ranUeNgapId <= ueNgapIdCounter
                  /\ owner[ueContexts[v].ranUeNgapId] = v
                BY <2>1, <4>1 DEF IInv, OwnerInv, GnbUeContext
            <4> DEFINE r == ueContexts[v].ranUeNgapId
            <4>3. ueNgapIdCounter \in Nat /\ owner \in [RanIds -> Ues \cup {NONE}]
                BY DEF IInv, TypeOK
            <4> HIDE DEF r
            <4>4. r # NextRanId /\ r <= ueNgapIdCounter'
                BY <1>2, <1>6, <4>2, <4>3 DEF r, RanIds
            <4>5. owner'[r] = v
                BY <1>2, <1>6, <4>2, <4>3, <4>4 DEF r
            <4> QED
                BY <4>1, <4>4, <4>5 DEF r
        <3> QED
            BY <3>1, <3>2
    <2>2. \A r \in RanIds : r > ueNgapIdCounter' => owner'[r] = NONE
        BY <1>2, <1>6 DEF IInv, TypeOK, OwnerInv, RanIds
    <2> QED
        BY <2>1, <2>2 DEF OwnerInv
<1> QED
    BY <1>7, <1>8 DEF IInv

(* The other steps of the MR thread leave the contexts alone. *)
LEMMA MrOtherInv == ASSUME IInv, MrUplinkKnown \/ MrSendUplink \/ MrDeliver PROVE IInv' /\ KeepsIds
<1>0. KeepsIds
    BY UnchangedKeeps DEF IInv, MrUplinkKnown, MrSendUplink, MrDeliver
<1>1. OwnerInv'
    BY <1>0, OwnersKept DEF IInv
<1>2. CASE MrUplinkKnown
    <2>1. Head(mrQueue).ue \in Ues /\ Tail(mrQueue) \in Seq(MrMessage)
        BY <1>2, QueueType DEF IInv, MrUplinkKnown, MrMessage
    <2>9. TypeOK'
        BY <1>2, <2>1 DEF IInv, TypeOK, MrUplinkKnown, HasContext
    <2> QED
        BY <1>0, <1>1, <2>9 DEF IInv
<1>3. CASE MrSendUplink
    <2>1. mrUe \in Ues
        BY <1>3 DEF IInv, TypeOK, MrSendUplink
    <2>2. heard' \in [RanIds -> SUBSET Amfs]
        <3>1. CASE ueContexts[mrUe] = NONE
            BY <1>3, <3>1 DEF MrSendUplink, IInv, TypeOK
        <3>2. CASE ueContexts[mrUe] # NONE
            <4>1. ueContexts[mrUe] \in GnbUeContext
                BY <2>1, <3>2 DEF IInv, TypeOK
            <4> QED
                BY <1>3, <3>2, <4>1, SendType DEF MrSendUplink, IInv
        <3> QED BY <3>1, <3>2
    <2>3. mrPc' \in {"idle", "send", "dead"} /\ mrUe' \in Ues \cup {NONE} /\ (mrPc' # "idle" => mrUe' \in Ues)
        BY <1>3, <2>1 DEF MrSendUplink
    <2>9. TypeOK'
        BY <1>3, <2>2, <2>3 DEF IInv, TypeOK, MrSendUplink, HasContext
    <2> QED
        BY <1>0, <1>1, <2>9 DEF IInv
<1>4. CASE MrDeliver
    <2>1. Head(mrQueue) \in MrMessage /\ Tail(mrQueue) \in Seq(MrMessage)
        BY <1>4, QueueType DEF IInv, MrDeliver
    <2>2. delivered' \in [Ues -> MrMessage \cup {NONE}]
        BY <1>4, <2>1 DEF IInv, TypeOK, MrDeliver
    <2>9. TypeOK'
        BY <1>4, <2>1, <2>2 DEF IInv, TypeOK, MrDeliver, HasContext
    <2> QED
        BY <1>0, <1>1, <2>9 DEF IInv
<1> QED
    BY <1>0, <1>2, <1>3, <1>4

(* Taking a message of an AMF. *)
LEMMA NgapReceiveInv ==
    ASSUME IInv, NEW a \in Amfs, NEW r \in RanIds, NEW kind \in AmfKinds, NEW stream \in InStreams,
           NgapReceive(a, r, kind, stream)
    PROVE  IInv' /\ KeepsIds
<1>1. PICK id \in AmfUeIds \cup {NONE}, sent \in AmfUeIds \cup {NONE} :
          /\ amfUeId' = [amfUeId EXCEPT ![a][r] = id]
          /\ ngapMsg' = [kind |-> kind, amf |-> a, ran |-> r, id |-> sent, stream |-> stream]
    <2>1. amfUeId[a][r] \in AmfUeIds \cup {NONE}
        BY DEF IInv, TypeOK
    <2> QED
        BY <2>1 DEF NgapReceive
<1>2. ngapMsg' \in AmfMessage /\ ngapMsg' # NONE
    <2>1. ngapMsg' \in AmfMessage
        BY <1>1 DEF AmfMessage
    <2> QED BY <2>1
<1>3. amfUeId' \in [Amfs -> [RanIds -> AmfUeIds \cup {NONE}]]
    BY <1>1 DEF IInv, TypeOK
<1>4. KeepsIds
    BY UnchangedKeeps DEF IInv, NgapReceive
<1>5. OwnerInv'
    BY <1>4, OwnersKept DEF IInv
<1>6. TypeOK'
    BY <1>2, <1>3 DEF IInv, TypeOK, NgapReceive, HasContext
<1> QED
    BY <1>4, <1>5, <1>6 DEF IInv

(* What the control state of the NGAP thread must satisfy after a step. *)
NgapStateOK ==
    /\ ngapPc \in {"idle", "lookup", "handle", "resend", "complete", "remove", "dead"}
    /\ ngapMsg \in AmfMessage \cup {NONE} /\ (ngapPc # "idle" => ngapMsg # NONE)
    /\ ngapUe \in Ues \cup {NONE}
    /\ ngapPc \in {"handle", "resend", "complete", "remove"} => ngapUe \in Ues /\ HasContext(ngapUe)

(* A step of the NGAP thread that keeps the ids of the contexts. *)
LEMMA NgapKeepsInv ==
    ASSUME IInv, KeepsIds, NgapStateOK', UNCHANGED <<nextStream, mrVars, disturbed, delivered>>,
           mrQueue' \in Seq(MrMessage), heard' \in [RanIds -> SUBSET Amfs],
           amfUeId' \in [Amfs -> [RanIds -> AmfUeIds \cup {NONE}]]
    PROVE  IInv'
<1>1. OwnerInv'
    BY OwnersKept DEF IInv
<1>2. TypeOK'
    BY DEF IInv, TypeOK, KeepsIds, SameIds, NgapStateOK
<1> QED
    BY <1>1, <1>2 DEF IInv

(* A thread that is done with its message is in a good state. *)
LEMMA NgapDoneOK == NgapDone => NgapStateOK'
BY DEF NgapDone, NgapStateOK

(* What holds while a message is being looked up or handled. *)
LEMMA Handling ==
    ASSUME IInv, ngapPc # "idle"
    PROVE  /\ ngapMsg \in AmfMessage
           /\ ngapPc \in {"handle", "resend", "complete", "remove"} =>
                 ngapUe \in Ues /\ ueContexts[ngapUe] # NONE /\ Context \in GnbUeContext
BY DEF IInv, TypeOK, HasContext, Context

(* A lookup that succeeds, or fails with an error indication. *)
LEMMA NgapLookupInv == ASSUME IInv, NgapFound \/ NgapError PROVE IInv' /\ KeepsIds
<1>1. ngapMsg \in AmfMessage /\ ngapMsg # NONE
    BY Handling DEF NgapFound, NgapError
<1>2. Find \subseteq Known /\ Known \subseteq Ues
    BY DEF Find, FindByAmfId, Known
<1>3. SameIds(ueContexts)
    BY DEF IInv, TypeOK, SameIds
<1>4. KeepsIds
    <2>1. SameIds(ueContexts')
        <3>1. CASE NgapFound
            BY <1>1, <1>2, <3>1, BindingsKeep DEF IInv, NgapFound
        <3>2. CASE NgapError
            BY <1>1, <1>2, <1>3, <3>2, BindingsKeep DEF IInv, NgapError
        <3> QED BY <3>1, <3>2
    <2> QED
        BY <2>1 DEF KeepsIds, NgapFound, NgapError
<1>5. NgapStateOK'
    <2>1. CASE NgapFound
        <3>1. PICK u \in Find : ngapUe' = u
            BY <2>1 DEF NgapFound
        <3>2. u \in Ues /\ ueContexts[u] # NONE
            BY <1>2 DEF Known
        <3>3. ueContexts'[u] # NONE
            BY <1>4, <3>2 DEF KeepsIds, SameIds
        <3> QED
            BY <1>1, <2>1, <3>1, <3>2, <3>3 DEF NgapFound, NgapStateOK, HasContext
    <2>2. CASE NgapError
        BY <2>2, NgapDoneOK DEF NgapError
    <2> QED BY <2>1, <2>2
<1>6. /\ mrQueue' \in Seq(MrMessage) /\ heard' \in [RanIds -> SUBSET Amfs]
      /\ amfUeId' \in [Amfs -> [RanIds -> AmfUeIds \cup {NONE}]]
    BY DEF IInv, TypeOK, NgapFound, NgapError
<1>7. UNCHANGED <<nextStream, mrVars, disturbed, delivered>>
    BY DEF NgapFound, NgapError
<1> QED
    BY <1>4, <1>5, <1>6, <1>7, NgapKeepsInv

(* Steps that change neither the contexts nor a queue. *)
LEMMA NgapQuietInv ==
    ASSUME IInv, NgapDies \/ NgapOther \/ NgapResend \/ NgapReleaseComplete
    PROVE  IInv' /\ KeepsIds
<1>1. KeepsIds
    BY UnchangedKeeps DEF IInv, NgapDies, NgapOther, NgapResend, NgapReleaseComplete
<1>2. ngapPc # "idle"
    BY DEF NgapDies, NgapOther, NgapResend, NgapReleaseComplete
<1>3. NgapStateOK'
    <2>1. CASE NgapOther \/ NgapResend
        BY <2>1, NgapDoneOK DEF NgapOther, NgapResend
    <2>2. CASE NgapDies
        BY <1>2, <2>2, Handling DEF NgapDies, NgapStateOK, IInv, TypeOK
    <2>3. CASE NgapReleaseComplete
        BY <1>2, <2>3, Handling DEF NgapReleaseComplete, NgapStateOK, HasContext
    <2> QED BY <2>1, <2>2, <2>3
<1>4. heard' \in [RanIds -> SUBSET Amfs]
    <2>1. CASE NgapDies \/ NgapOther
        BY <2>1 DEF NgapDies, NgapOther, IInv, TypeOK
    <2>2. CASE NgapResend \/ NgapReleaseComplete
        <3>1. Context \in GnbUeContext
            BY <1>2, <2>2, Handling DEF NgapResend, NgapReleaseComplete
        <3> QED
            BY <2>2, <3>1, SendType DEF NgapResend, NgapReleaseComplete, IInv
    <2> QED BY <2>1, <2>2
<1>5. /\ mrQueue' \in Seq(MrMessage)
      /\ amfUeId' \in [Amfs -> [RanIds -> AmfUeIds \cup {NONE}]]
      /\ UNCHANGED <<nextStream, mrVars, disturbed, delivered>>
    BY DEF IInv, TypeOK, NgapDies, NgapOther, NgapResend, NgapReleaseComplete
<1> QED
    BY <1>1, <1>3, <1>4, <1>5, NgapKeepsInv

(* Handlers that relay something to the UE. *)
LEMMA NgapRelayInv ==
    ASSUME IInv, \/ receiveDownlinkNasTransport \/ receiveInitialContextSetup
                 \/ receiveContextReleaseCommand
    PROVE  IInv' /\ KeepsIds
<1>1. ngapPc = "handle" /\ KeepsIds
    BY UnchangedKeeps DEF IInv, receiveDownlinkNasTransport, receiveInitialContextSetup,
                          receiveContextReleaseCommand
<1>2. /\ ngapMsg \in AmfMessage /\ ngapUe \in Ues /\ ueContexts[ngapUe] # NONE
      /\ Context \in GnbUeContext
    BY <1>1, Handling
<1>3. mrQueue' \in Seq(MrMessage)
    <2>1. ngapMsg.ran \in RanIds \cup {0} /\ ngapMsg.stream \in InStreams \cup {0}
        BY <1>2 DEF AmfMessage
    <2>2. mrQueue \in Seq(MrMessage)
        BY DEF IInv, TypeOK
    <2> QED
        BY <1>2, <2>1, <2>2, QueueType DEF IInv, RelayNas, receiveDownlinkNasTransport,
              receiveInitialContextSetup, receiveContextReleaseCommand
<1>4. NgapStateOK'
    <2>1. CASE receiveDownlinkNasTransport \/ receiveInitialContextSetup
        BY <2>1, NgapDoneOK DEF receiveDownlinkNasTransport, receiveInitialContextSetup
    <2>2. CASE receiveContextReleaseCommand
        BY <1>2, <2>2 DEF receiveContextReleaseCommand, NgapStateOK, HasContext
    <2> QED BY <2>1, <2>2
<1>5. heard' \in [RanIds -> SUBSET Amfs]
    <2>1. CASE receiveInitialContextSetup
        BY <1>2, <2>1, SendType DEF IInv, receiveInitialContextSetup
    <2>2. CASE receiveDownlinkNasTransport \/ receiveContextReleaseCommand
        BY <2>2 DEF IInv, TypeOK, receiveDownlinkNasTransport, receiveContextReleaseCommand
    <2> QED BY <2>1, <2>2
<1>6. /\ amfUeId' \in [Amfs -> [RanIds -> AmfUeIds \cup {NONE}]]
      /\ UNCHANGED <<nextStream, mrVars, disturbed, delivered>>
    BY DEF IInv, TypeOK, receiveDownlinkNasTransport, receiveInitialContextSetup,
           receiveContextReleaseCommand
<1> QED
    BY <1>1, <1>3, <1>4, <1>5, <1>6, NgapKeepsInv

(* Handlers that assign to the context. *)
LEMMA NgapAssignInv ==
    ASSUME IInv, receiveContextModificationRequest \/ receiveRerouteNasRequest
    PROVE  IInv' /\ KeepsIds
<1>1. ngapPc = "handle"
    BY DEF receiveContextModificationRequest, receiveRerouteNasRequest
<1>2. /\ ngapMsg \in AmfMessage /\ ngapUe \in Ues /\ ueContexts[ngapUe] # NONE
      /\ Context \in GnbUeContext /\ ngapMsg.amf \in Amfs /\ ngapMsg.ran \in RanIds
    BY <1>1, Handling DEF AmfMessage
<1>3. SameIds(ueContexts)
    BY DEF IInv, TypeOK, SameIds
<1>4. KeepsIds
    <2>0. UNCHANGED <<owner, ueNgapIdCounter>>
        BY DEF receiveContextModificationRequest, receiveRerouteNasRequest
    <2>1. CASE receiveContextModificationRequest
        <3>1. \/ ueContexts' = ueContexts
              \/ \E id \in AmfUeIds : ueContexts' = [ueContexts EXCEPT ![ngapUe].amfUeNgapId = id]
            BY <2>1 DEF receiveContextModificationRequest
        <3>2. ASSUME NEW id \in AmfUeIds
              PROVE  SameIds([ueContexts EXCEPT ![ngapUe].amfUeNgapId = id])
            <4>1. id \in AmfUeIds \cup {NONE} /\ FirstAmf \in Amfs /\ 0 \in InStreams \cup {0}
                OBVIOUS
            <4> QED
                BY <1>2, <4>1, AssignmentsKeep DEF IInv
        <3> QED
            BY <1>3, <2>0, <3>1, <3>2 DEF KeepsIds
    <2>2. CASE receiveRerouteNasRequest
        <3>1. \/ ueContexts' = ueContexts
              \/ \E amf \in Amfs : ueContexts' = [ueContexts EXCEPT ![ngapUe].associatedAmf = amf]
            BY <2>2 DEF receiveRerouteNasRequest, Candidates
        <3> QED
            BY <1>2, <1>3, <2>0, <3>1, AssignmentsKeep DEF KeepsIds, IInv
    <2> QED BY <2>1, <2>2
<1>5. NgapStateOK'
    <2>1. CASE NgapDone
        BY <2>1, NgapDoneOK
    <2>2. CASE ngapPc' = "resend" /\ UNCHANGED <<ngapMsg, ngapUe>>
        <3>1. ueContexts'[ngapUe] # NONE
            BY <1>2, <1>4 DEF KeepsIds, SameIds
        <3> QED
            BY <1>2, <2>2, <3>1 DEF NgapStateOK, HasContext
    <2> QED
        BY <2>1, <2>2 DEF receiveContextModificationRequest, receiveRerouteNasRequest
<1>6. heard' \in [RanIds -> SUBSET Amfs]
    <2>1. CASE receiveContextModificationRequest
        BY <1>2, <2>1, SendType DEF IInv, receiveContextModificationRequest
    <2>2. CASE receiveRerouteNasRequest
        BY <2>2 DEF IInv, TypeOK, receiveRerouteNasRequest
    <2> QED BY <2>1, <2>2
<1>7. amfUeId' \in [Amfs -> [RanIds -> AmfUeIds \cup {NONE}]]
    <2>1. amfUeId \in [Amfs -> [RanIds -> AmfUeIds \cup {NONE}]]
        BY DEF IInv, TypeOK
    <2>2. \/ amfUeId' = amfUeId
          \/ \E id \in AmfUeIds : amfUeId' = [amfUeId EXCEPT ![ngapMsg.amf][ngapMsg.ran] = id]
        BY DEF receiveContextModificationRequest, receiveRerouteNasRequest
    <2>3. ASSUME NEW a \in Amfs, NEW r \in RanIds, NEW id \in AmfUeIds
          PROVE  [amfUeId EXCEPT ![a][r] = id] \in [Amfs -> [RanIds -> AmfUeIds \cup {NONE}]]
        BY <2>1
    <2>4. CASE \E id \in AmfUeIds : amfUeId' = [amfUeId EXCEPT ![ngapMsg.amf][ngapMsg.ran] = id]
        <3>1. PICK id \in AmfUeIds : amfUeId' = [amfUeId EXCEPT ![ngapMsg.amf][ngapMsg.ran] = id]
            BY <2>4
        <3> QED
            BY <1>2, <2>3, <3>1, Zenon
    <2> QED
        BY <2>1, <2>2, <2>4
<1>8. mrQueue' \in Seq(MrMessage) /\ UNCHANGED <<nextStream, mrVars, disturbed, delivered>>
    BY DEF IInv, TypeOK, receiveContextModificationRequest, receiveRerouteNasRequest
<1> QED
    BY <1>4, <1>5, <1>6, <1>7, <1>8, NgapKeepsInv

(* Removing the context of a released UE. *)
LEMMA NgapRemoveInv == ASSUME IInv, NgapRemove PROVE IInv'
<1>1. ueContexts' = [ueContexts EXCEPT ![ngapUe] = NONE]
    BY DEF NgapRemove, Remove
<1>2. /\ ueContexts' \in [Ues -> GnbUeContext \cup {NONE}]
      /\ \A v \in Ues : ueContexts'[v] = ueContexts[v] \/ ueContexts'[v] = NONE
    BY <1>1 DEF IInv, TypeOK
<1>3. OwnerInv'
    BY <1>2 DEF NgapRemove, IInv, OwnerInv
<1>4. NgapStateOK'
    BY NgapDoneOK DEF NgapRemove
<1>5. TypeOK'
    BY <1>2, <1>4 DEF NgapRemove, IInv, TypeOK, NgapStateOK
<1> QED
    BY <1>3, <1>5 DEF IInv

(* Every step keeps the invariant; only two kinds of steps change who has    *)
(* which id.                                                               *)
LEMMA NextInv ==
    ASSUME IInv, [Next]_vars
    PROVE  IInv' /\ (KeepsIds \/ MrInitialUeMessage \/ NgapRemove)
<1>1. CASE \E u \in Ues : UeSends(u)
    BY <1>1, UeSendsInv
<1>2. CASE MrStep
    BY <1>2, InitialUeMessageInv, MrOtherInv DEF MrStep
<1>3. CASE NgapStep
    <2>1. CASE \E a \in Amfs, r \in RanIds, kind \in AmfKinds, stream \in InStreams :
                  NgapReceive(a, r, kind, stream)
        BY <2>1, NgapReceiveInv
    <2> QED
        BY <1>3, <2>1, NgapLookupInv, NgapQuietInv, NgapRelayInv, NgapAssignInv, NgapRemoveInv
           DEF NgapStep
<1>4. CASE UNCHANGED vars
    <2>1. IInv'
        BY <1>4 DEF vars, IInv, TypeOK, OwnerInv, HasContext
    <2>2. KeepsIds
        BY <1>4, UnchangedKeeps DEF vars, IInv
    <2> QED BY <2>1, <2>2
<1> QED
    BY <1>1, <1>2, <1>3, <1>4 DEF Next

(* The invariant holds in every state. *)
LEMMA Invariance == Spec => []IInv
<1>1. IInv /\ [Next]_vars => IInv'
    BY NextInv
<1> QED
    BY <1>1, InitInv, PTL DEF Spec

(* The state of the gNB and of its two threads is always well formed; in     *)
(* particular the NGAP thread never handles a message for a UE without a     *)
(* context, whatever the MR thread does meanwhile.                         *)
THEOREM GnbTypeCorrect == Spec => []TypeOK
<1>1. IInv => TypeOK
    BY DEF IInv
<1> QED
    BY <1>1, Invariance, PTL

-----------------------------------------------------------------------------
(* The refinement of UeAssociations. *)

(* What the refinement mapping makes of an id: the context with a live id    *)
(* belongs to the id's owner.                                              *)
AssociationOK(r) ==
    /\ r > ueNgapIdCounter => Association[r] = "idle"
    /\ r <= ueNgapIdCounter /\ Live(r) =>
          /\ Association[r] = owner[r] /\ owner[r] \in Ues
          /\ ueContexts[owner[r]] # NONE /\ ueContexts[owner[r]].ranUeNgapId = r
    /\ r <= ueNgapIdCounter /\ ~Live(r) => Association[r] = "closed"

(* The mapping has this value in every state of the invariant, *)
LEMMA AssociationValue == IInv => \A r \in RanIds : AssociationOK(r)
<1> SUFFICES ASSUME IInv, NEW r \in RanIds PROVE AssociationOK(r)
    OBVIOUS
<1>1. \A u \in Known : ueContexts[u].ranUeNgapId = r => u = owner[r]
    BY DEF IInv, OwnerInv, Known
<1>2. ASSUME Live(r)
      PROVE  /\ (CHOOSE u \in Known : ueContexts[u].ranUeNgapId = r) = owner[r]
             /\ owner[r] \in Known /\ ueContexts[owner[r]].ranUeNgapId = r
    <2>1. PICK u \in Known : ueContexts[u].ranUeNgapId = r
        BY <1>2 DEF Live
    <2>2. u = owner[r]
        BY <1>1, <2>1
    <2>3. \A v \in Known : ueContexts[v].ranUeNgapId = r <=> v = u
        BY <1>1, <2>1, <2>2
    <2>4. (CHOOSE v \in Known : ueContexts[v].ranUeNgapId = r) = u
        BY <2>1, <2>3
    <2> QED BY <2>1, <2>2, <2>4
<1>3. ueNgapIdCounter \in Nat /\ r \in Nat
    BY DEF IInv, TypeOK, RanIds
<1>4. Association[r] = IF r > ueNgapIdCounter THEN "idle"
                       ELSE IF Live(r) THEN CHOOSE u \in Known : ueContexts[u].ranUeNgapId = r
                       ELSE "closed"
    BY DEF Association
<1>5. r > ueNgapIdCounter => Association[r] = "idle"
    BY <1>4
<1>6. r <= ueNgapIdCounter => ~(r > ueNgapIdCounter)
    BY <1>3
<1>7. r <= ueNgapIdCounter /\ ~Live(r) => Association[r] = "closed"
    BY <1>4, <1>6, Zenon
<1>8. ASSUME r <= ueNgapIdCounter, Live(r)
      PROVE  Association[r] = owner[r] /\ owner[r] \in Known /\ ueContexts[owner[r]].ranUeNgapId = r
    BY <1>2, <1>4, <1>6, <1>8, Zenon
<1> QED
    BY <1>5, <1>7, <1>8 DEF Known, AssociationOK

(* and so it has in the next state. *)
LEMMA AssociationValueNext == IInv' => \A r \in RanIds : AssociationOK(r)'
<1>1. IInv' => (\A r \in RanIds : AssociationOK(r))'
    BY AssociationValue, PTL
<1> QED
    BY <1>1

(* A step that keeps the ids is a stuttering step of UeAssociations. *)
LEMMA KeepsAssociation == ASSUME IInv, IInv', KeepsIds PROVE Association' = Association
<1>1. \A r \in RanIds : Live(r)' <=> Live(r)
    BY DEF KeepsIds, SameIds, Live, Known
<1>2. ASSUME NEW r \in RanIds PROVE Association'[r] = Association[r]
    <2>1. AssociationOK(r) /\ AssociationOK(r)'
        BY AssociationValue, AssociationValueNext
    <2>2. r > ueNgapIdCounter \/ r <= ueNgapIdCounter
        BY DEF IInv, TypeOK, RanIds
    <2>3. ueNgapIdCounter' = ueNgapIdCounter /\ owner' = owner
        BY DEF KeepsIds
    <2> QED
        BY <1>1, <2>1, <2>2, <2>3 DEF AssociationOK
<1>3. Association = [r \in RanIds |-> Association[r]] /\ Association' = [r \in RanIds |-> Association'[r]]
    BY DEF Association
<1> QED
    BY <1>2, <1>3

(* Creating a context opens the next id. *)
LEMMA InitialOpens ==
    ASSUME IInv, IInv', MrInitialUeMessage
    PROVE  Abstract!Open(NextRanId, Head(mrQueue).ue)
<1> DEFINE u == Head(mrQueue).ue
           n == NextRanId
<1>1. u \in Ues
    BY QueueType DEF IInv, MrInitialUeMessage, MrMessage
<1>2. n \in RanIds /\ n = ueNgapIdCounter + 1 /\ ueNgapIdCounter \in Nat
    BY DEF IInv, TypeOK, MrInitialUeMessage, NextRanId, RanIds
<1>3. /\ ueContexts[u] = NONE /\ ueContexts' = [ueContexts EXCEPT ![u] = NewContext]
      /\ ueNgapIdCounter' = n /\ owner' = [owner EXCEPT ![n] = u]
    BY DEF MrInitialUeMessage, HasContext
<1>4. NewContext.ranUeNgapId = n /\ NewContext # NONE
    <2>1. ueContexts'[u] = NewContext
        BY <1>1, <1>3 DEF IInv, TypeOK
    <2>2. NextStream(nextStream) \in 0 .. (Outbound - 1)
        BY NextStreamType DEF IInv, TypeOK
    <2>3. NewContext \in GnbUeContext /\ NewContext.ranUeNgapId = n
        BY <1>2, <2>2 DEF NewContext, selectAmfForUe, GnbUeContext
    <2> QED BY <2>3
<1> HIDE DEF u, n
<1>5. \A q \in RanIds : Live(q)' <=> (Live(q) \/ q = n)
    <2>1. \A v \in Ues : ueContexts'[v] = IF v = u THEN NewContext ELSE ueContexts[v]
        BY <1>1, <1>3 DEF IInv, TypeOK
    <2> QED
        BY <1>1, <1>3, <1>4, <2>1 DEF Live, Known
<1>6. ASSUME NEW q \in RanIds PROVE Association'[q] = IF q = n THEN u ELSE Association[q]
    <2>1. AssociationOK(q) /\ AssociationOK(q)'
        BY AssociationValue, AssociationValueNext
    <2>2. owner'[q] = IF q = n THEN u ELSE owner[q]
        BY <1>2, <1>3 DEF IInv, TypeOK
    <2>3. CASE q = n
        BY <1>2, <1>3, <1>5, <2>1, <2>2, <2>3 DEF AssociationOK
    <2>4. CASE q # n
        <3>1. q > ueNgapIdCounter' <=> q > ueNgapIdCounter
            BY <1>2, <1>3, <2>4 DEF RanIds
        <3>2. q > ueNgapIdCounter \/ q <= ueNgapIdCounter
            BY <1>2 DEF RanIds
        <3>3. q <= ueNgapIdCounter => q <= ueNgapIdCounter'
            BY <1>2, <1>3 DEF RanIds
        <3> QED
            BY <1>5, <2>1, <2>2, <2>4, <3>1, <3>2, <3>3 DEF AssociationOK
    <2> QED BY <2>3, <2>4
<1>7. Association' = [Association EXCEPT ![n] = u]
    <2>1. /\ Association = [r \in RanIds |-> Association[r]]
          /\ Association' = [r \in RanIds |-> Association'[r]]
        BY DEF Association
    <2> QED BY <1>2, <1>6, <2>1
<1>8. Association[n] = "idle"
    BY <1>2, AssociationValue DEF AssociationOK
<1>9. ASSUME NEW q \in RanIds PROVE (q < n => Association[q] # "idle") /\ Association[q] # u
    <2>1. AssociationOK(q)
        BY AssociationValue
    <2>2. q > ueNgapIdCounter \/ q <= ueNgapIdCounter
        BY <1>2 DEF RanIds
    <2>3. q < n => ~(q > ueNgapIdCounter)
        BY <1>2 DEF RanIds
    <2> QED
        BY <1>1, <1>3, <2>1, <2>2, <2>3 DEF AssociationOK
<1> QED
    BY <1>7, <1>8, <1>9 DEF Abstract!Open, n, u

(* Removing a context closes its id. *)
LEMMA RemoveCloses ==
    ASSUME IInv, IInv', NgapRemove
    PROVE  Abstract!Close(Context.ranUeNgapId) /\ Context.ranUeNgapId \in RanIds
<1> DEFINE n == Context.ranUeNgapId
<1>1. ngapUe \in Ues /\ ueContexts[ngapUe] # NONE /\ Context \in GnbUeContext
    BY Handling DEF NgapRemove
<1>2. n \in RanIds /\ n <= ueNgapIdCounter /\ Live(n) /\ owner[n] = ngapUe
    BY <1>1 DEF GnbUeContext, IInv, OwnerInv, Context, Live, Known
<1>3. UNCHANGED <<owner, ueNgapIdCounter>> /\ ueNgapIdCounter \in Nat
    BY DEF NgapRemove, IInv, TypeOK
<1>4. \A v \in Ues : ueContexts'[v] = IF v = ngapUe THEN NONE ELSE ueContexts[v]
    BY <1>1 DEF NgapRemove, Remove, IInv, TypeOK
<1>5. ASSUME NEW q \in RanIds PROVE Live(q)' <=> (Live(q) /\ q # n)
    <2>1. \A v \in Ues : ueContexts[v] # NONE /\ ueContexts[v].ranUeNgapId = q => owner[q] = v
        BY DEF IInv, OwnerInv
    <2> QED
        BY <1>1, <1>2, <1>4, <2>1 DEF Live, Known, Context
<1> HIDE DEF n
<1>6. ASSUME NEW q \in RanIds PROVE Association'[q] = IF q = n THEN "closed" ELSE Association[q]
    <2>1. AssociationOK(q) /\ AssociationOK(q)'
        BY AssociationValue, AssociationValueNext
    <2>2. q > ueNgapIdCounter \/ q <= ueNgapIdCounter
        BY <1>3 DEF RanIds
    <2> QED
        BY <1>2, <1>3, <1>5, <2>1, <2>2 DEF AssociationOK
<1>7. Association' = [Association EXCEPT ![n] = "closed"]
    <2>1. /\ Association = [r \in RanIds |-> Association[r]]
          /\ Association' = [r \in RanIds |-> Association'[r]]
        BY DEF Association
    <2> QED BY <1>2, <1>6, <2>1
<1>8. Association[n] \in Ues
    BY <1>2, AssociationValue DEF AssociationOK
<1> QED
    BY <1>2, <1>7, <1>8 DEF Abstract!Close, n

(* The contexts that the MR thread puts and the NGAP thread removes implement *)
(* UeAssociations: RAN UE NGAP IDs are taken in order and never twice, and a  *)
(* UE never has two associations (createUeContext, receiveContextRelease-     *)
(* Command).                                                                *)
THEOREM GnbRefines == Spec => RefinesUeAssociations
<1>1. Init => Abstract!Init
    <2> SUFFICES ASSUME Init PROVE Association = [r \in RanIds |-> "idle"]
        BY DEF Abstract!Init
    <2>1. \A r \in RanIds : r > ueNgapIdCounter
        BY DEF Init, RanIds
    <2> QED
        BY <2>1 DEF Association
<1>2. ASSUME IInv, [Next]_vars PROVE [Abstract!Next]_Association
    <2>1. IInv' /\ (KeepsIds \/ MrInitialUeMessage \/ NgapRemove)
        BY <1>2, NextInv
    <2>2. CASE KeepsIds
        BY <1>2, <2>1, <2>2, KeepsAssociation
    <2>3. CASE MrInitialUeMessage
        <3>1. NextRanId \in RanIds /\ Head(mrQueue).ue \in Ues
            <4>1. NextRanId \in RanIds
                BY <1>2, <2>3 DEF IInv, TypeOK, MrInitialUeMessage, NextRanId, RanIds
            <4>2. Head(mrQueue).ue \in Ues
                BY <1>2, <2>3, QueueType DEF IInv, TypeOK, MrInitialUeMessage, MrMessage
            <4> QED
                BY <4>1, <4>2
        <3> QED
            BY <1>2, <2>1, <2>3, <3>1, InitialOpens DEF Abstract!Next
    <2>4. CASE NgapRemove
        BY <1>2, <2>1, <2>4, RemoveCloses DEF Abstract!Next
    <2> QED
        BY <2>1, <2>2, <2>3, <2>4
<1> QED
    BY <1>1, <1>2, Invariance, PTL DEF Spec, RefinesUeAssociations, Abstract!Spec

-----------------------------------------------------------------------------
(* Messages reach the UE they are meant for. *)

(* The UE found for a message is the owner of the id that the AMF addressed. *)
RouteInv ==
    /\ ngapPc # "idle" => ngapMsg.kind \in AmfKinds
    /\ ngapPc \in {"handle", "resend", "complete", "remove"} => owner[ngapMsg.ran] = ngapUe

(* The association of the message being handled is that of the UE's context. *)
CurrentInv ==
    ngapPc \in {"handle", "resend", "complete", "remove"} =>
        ueContexts[ngapUe].ranUeNgapId = ngapMsg.ran

(* A message means one association: AMFs name its RAN UE NGAP ID also in their *)
(* release commands, or there is one AMF only.  Two AMFs may give the same id  *)
(* to two associations, and a release command by that id then finds either.    *)
OneMeant == "ReleaseById" \notin AmfKinds \/ Amfs = {FirstAmf}

(* The ids that the first AMF gave. *)
Given == amfUeId[FirstAmf]

(* A context has the id that its association was given, *)
IdBound ==
    \A u \in Known : ueContexts[u].amfUeNgapId \in {NONE, Given[ueContexts[u].ranUeNgapId]}

(* no two of them the same one, *)
IdUnique ==
    \A u, v \in Known :
        Given[ueContexts[u].ranUeNgapId] = Given[ueContexts[v].ranUeNgapId] =>
            u = v \/ Given[ueContexts[u].ranUeNgapId] = NONE

(* and none before the AMF has heard of the association; *)
IdFresh ==
    \A r \in RanIds : r > ueNgapIdCounter => heard[r] = {} /\ Given[r] = NONE

(* and a message names the id of the association it means. *)
IdMeant ==
    ngapPc = "lookup" =>
        /\ ngapMsg.id \in {NONE, Given[ngapMsg.ran]}
        /\ ngapMsg.kind = "ReleaseById" => Live(ngapMsg.ran)

IdInv == Amfs = {FirstAmf} => IdBound /\ IdUnique /\ IdFresh /\ IdMeant

(* The UE that is found is the one of the association that is meant. *)
LEMMA FoundUe ==
    ASSUME OneMeant, IInv, RouteInv, IdInv, ngapPc = "lookup", ~Refused, NEW u \in Find
    PROVE  u \in Known /\ ueContexts[u].ranUeNgapId = ngapMsg.ran
<1>1. u \in Known /\ ngapMsg.kind \in AmfKinds
    BY DEF Find, FindByAmfId, RouteInv
<1>2. CASE ngapMsg.kind # "ReleaseById"
    BY <1>1, <1>2 DEF Find
<1>3. CASE ngapMsg.kind = "ReleaseById"
    <2>1. IdBound /\ IdUnique /\ IdMeant
        BY <1>1, <1>3 DEF OneMeant, IdInv
    <2>2. ngapMsg.id # NONE /\ ueContexts[u].amfUeNgapId = ngapMsg.id
        BY <1>3 DEF Refused, Find, FindByAmfId
    <2>3. PICK v \in Known : ueContexts[v].ranUeNgapId = ngapMsg.ran
        BY <1>3, <2>1 DEF IdMeant, Live
    <2>4. Given[ueContexts[u].ranUeNgapId] = ngapMsg.id /\ Given[ngapMsg.ran] = ngapMsg.id
        BY <1>1, <1>3, <2>1, <2>2 DEF IdBound, IdMeant
    <2>5. u = v
        BY <1>1, <2>1, <2>2, <2>3, <2>4 DEF IdUnique
    <2> QED
        BY <1>1, <2>3, <2>5
<1> QED
    BY <1>2, <1>3

(* A step that gives no id, takes no context away and binds contexts to the  *)
(* ids of their associations only.                                         *)
LEMMA IdsKept ==
    ASSUME IInv, IdBound, IdUnique, KeepsIds, UNCHANGED amfUeId,
           \A u \in Known : ueContexts'[u].amfUeNgapId \in
              {NONE, ueContexts[u].amfUeNgapId, Given[ueContexts[u].ranUeNgapId]}
    PROVE  IdBound' /\ IdUnique'
<1>1. Given' = Given /\ Known' = Known
    BY DEF Given, Known, KeepsIds, SameIds
<1>2. \A u \in Known : ueContexts'[u].ranUeNgapId = ueContexts[u].ranUeNgapId
    BY DEF Known, KeepsIds, SameIds
<1>3. IdBound'
    BY <1>1, <1>2 DEF IdBound
<1>4. IdUnique'
    BY <1>1, <1>2 DEF IdUnique
<1> QED
    BY <1>3, <1>4

(* What is heard and given belongs to associations that were opened. *)
LEMMA IdFreshStep ==
    ASSUME IInv, IdFresh, CurrentInv, Amfs = {FirstAmf}, [Next]_vars
    PROVE  IdFresh'
<1>t. /\ heard \in [RanIds -> SUBSET Amfs] /\ amfUeId \in [Amfs -> [RanIds -> AmfUeIds \cup {NONE}]]
      /\ ueNgapIdCounter \in Nat /\ RanIds \subseteq Nat
      /\ \A u \in Known : /\ ueContexts[u] \in GnbUeContext /\ ueContexts[u].ranUeNgapId \in RanIds
                          /\ ueContexts[u].ranUeNgapId <= ueNgapIdCounter
    BY DEF IInv, TypeOK, OwnerInv, Known, GnbUeContext, RanIds
<1>1. ueNgapIdCounter' \in Nat /\ ueNgapIdCounter <= ueNgapIdCounter'
    <2>1. CASE KeepsIds \/ NgapRemove
        BY <1>t, <2>1 DEF KeepsIds, NgapRemove
    <2>2. CASE MrInitialUeMessage
        BY <1>t, <2>2 DEF MrInitialUeMessage, NextRanId
    <2> QED
        BY <2>1, <2>2, NextInv
<1>2. ASSUME UNCHANGED amfUeId,
             \/ UNCHANGED heard
             \/ \E u \in Known : sendNgapUeAssociated(ueContexts[u])
      PROVE  IdFresh'
    <2>1. Given' = Given
        BY <1>2 DEF Given
    <2>2. \A r \in RanIds : r > ueNgapIdCounter => heard'[r] = heard[r]
        BY <1>t, <1>2 DEF sendNgapUeAssociated
    <2> QED
        BY <1>t, <1>1, <2>1, <2>2 DEF IdFresh
<1>3. CASE MrInitialUeMessage
    <2>1. /\ heard' = [heard EXCEPT ![NextRanId] = @ \cup {FirstAmf}] /\ amfUeId' = amfUeId
          /\ ueNgapIdCounter' = NextRanId
        BY <1>3 DEF MrInitialUeMessage, sendNgapUeAssociated, NewContext, selectAmfForUe
    <2>2. Given' = Given
        BY <2>1 DEF Given
    <2>3. \A r \in RanIds : r > ueNgapIdCounter' => r > ueNgapIdCounter /\ heard'[r] = heard[r]
        BY <1>t, <2>1 DEF NextRanId
    <2> QED
        BY <2>2, <2>3 DEF IdFresh
<1>4. ASSUME NEW r \in RanIds, r <= ueNgapIdCounter, NEW id,
             amfUeId' = [amfUeId EXCEPT ![FirstAmf][r] = id],
             \/ UNCHANGED heard
             \/ \E u \in Known : sendNgapUeAssociated(ueContexts[u])
      PROVE  IdFresh'
    <2>1. \A q \in RanIds : q # r => Given'[q] = Given[q]
        BY <1>t, <1>4 DEF Given
    <2>2. \A q \in RanIds : q > ueNgapIdCounter => heard'[q] = heard[q]
        BY <1>t, <1>4 DEF sendNgapUeAssociated
    <2> QED
        BY <1>t, <1>1, <1>4, <2>1, <2>2 DEF IdFresh
<1>5. ASSUME NEW a \in Amfs, NEW r \in RanIds, NEW kind \in AmfKinds, NEW stream \in InStreams,
             NgapReceive(a, r, kind, stream)
      PROVE  IdFresh'
    <2>1. a = FirstAmf /\ heard[r] # {} /\ UNCHANGED heard
        BY <1>5 DEF NgapReceive
    <2>2. r <= ueNgapIdCounter
        BY <1>t, <2>1 DEF IdFresh
    <2>3. \E id : amfUeId' = [amfUeId EXCEPT ![FirstAmf][r] = id]
        BY <1>5, <2>1 DEF NgapReceive
    <2> QED
        BY <1>4, <2>1, <2>2, <2>3
<1>6. ASSUME ngapPc \in {"handle", "resend", "complete"}
      PROVE  /\ ngapUe \in Known /\ Context = ueContexts[ngapUe]
             /\ ngapMsg.amf = FirstAmf /\ ngapMsg.ran = ueContexts[ngapUe].ranUeNgapId
    BY <1>6, Handling DEF Known, Context, CurrentInv, AmfMessage
<1>7. CASE receiveContextModificationRequest
    <2>1. /\ ngapUe \in Known /\ Context = ueContexts[ngapUe]
          /\ ngapMsg.amf = FirstAmf /\ ngapMsg.ran = ueContexts[ngapUe].ranUeNgapId
        BY <1>6, <1>7 DEF receiveContextModificationRequest
    <2>2. sendNgapUeAssociated(ueContexts[ngapUe])
        BY <1>7, <2>1 DEF receiveContextModificationRequest
    <2>3. \/ UNCHANGED amfUeId
          \/ \E id : amfUeId' = [amfUeId EXCEPT ![FirstAmf][ngapMsg.ran] = id]
        BY <1>7, <2>1 DEF receiveContextModificationRequest
    <2>4. ngapMsg.ran \in RanIds /\ ngapMsg.ran <= ueNgapIdCounter
        BY <1>t, <2>1
    <2> QED
        BY <1>2, <1>4, <2>1, <2>2, <2>3, <2>4
<1>8. CASE receiveInitialContextSetup \/ NgapResend \/ NgapReleaseComplete
    <2>1. ngapUe \in Known /\ Context = ueContexts[ngapUe]
        BY <1>6, <1>8 DEF receiveInitialContextSetup, NgapResend, NgapReleaseComplete
    <2>2. sendNgapUeAssociated(ueContexts[ngapUe]) /\ UNCHANGED amfUeId
        BY <1>8, <2>1 DEF receiveInitialContextSetup, NgapResend, NgapReleaseComplete
    <2> QED
        BY <1>2, <2>1, <2>2
<1>9. CASE MrSendUplink
    <2>1. UNCHANGED amfUeId /\ mrUe \in Ues
        BY <1>9 DEF MrSendUplink, IInv, TypeOK
    <2>2. UNCHANGED heard \/ (mrUe \in Known /\ sendNgapUeAssociated(ueContexts[mrUe]))
        BY <1>9, <2>1 DEF MrSendUplink, Known
    <2> QED
        BY <1>2, <2>1, <2>2
<1>10. CASE UNCHANGED <<amfUeId, heard>>
    BY <1>2, <1>10
<1> QED
    BY <1>3, <1>5, <1>7, <1>8, <1>9, <1>10 DEF Next, vars, UeSends, MrStep, MrUplinkKnown, MrDeliver,
       NgapStep, NgapFound, NgapError, NgapDies, NgapOther, receiveDownlinkNasTransport,
       receiveRerouteNasRequest, receiveContextReleaseCommand, NgapRemove

(* The contexts and the ids that the AMF gave keep agreeing. *)
LEMMA IdContextStep ==
    ASSUME OneMeant, IInv, RouteInv, CurrentInv, IdInv, Amfs = {FirstAmf}, [Next]_vars
    PROVE  IdBound' /\ IdUnique'
<1>0. IdBound /\ IdUnique /\ IdFresh /\ IdMeant
    BY DEF IdInv
<1>t. /\ ueContexts \in [Ues -> GnbUeContext \cup {NONE}]
      /\ amfUeId \in [Amfs -> [RanIds -> AmfUeIds \cup {NONE}]]
      /\ \A u \in Known : ueContexts[u] \in GnbUeContext /\ ueContexts[u].ranUeNgapId \in RanIds
    BY DEF IInv, TypeOK, Known, GnbUeContext
<1>1. \A u, v \in Known : ueContexts[u].ranUeNgapId = ueContexts[v].ranUeNgapId => u = v
    BY DEF IInv, OwnerInv, Known
<1>2. CASE UNCHANGED <<ueContexts, amfUeId>>
    BY <1>0, <1>2 DEF IdBound, IdUnique, Given, Known
<1>3. CASE MrInitialUeMessage
    <2> DEFINE w == Head(mrQueue).ue
    <2>1. /\ NextRanId \in RanIds /\ NextRanId > ueNgapIdCounter /\ w \in Ues /\ w \notin Known
          /\ ueContexts' = [ueContexts EXCEPT ![w] = NewContext] /\ amfUeId' = amfUeId
        <3>1. Head(mrQueue) \in MrMessage /\ ueNgapIdCounter \in Nat
            BY <1>3 DEF MrInitialUeMessage, IInv, TypeOK
        <3> QED
            BY <1>3, <3>1 DEF MrInitialUeMessage, MrMessage, NextRanId, RanIds, HasContext, Known
    <2>2. Given' = Given /\ Given[NextRanId] = NONE
        BY <1>0, <2>1 DEF Given, IdFresh
    <2>3. NewContext.ranUeNgapId = NextRanId /\ NewContext.amfUeNgapId = NONE
        BY DEF NewContext
    <2> HIDE DEF w
    <2>4. \A u \in Known' : IF u = w THEN ueContexts'[u] = NewContext
                            ELSE u \in Known /\ ueContexts'[u] = ueContexts[u]
        BY <1>t, <2>1 DEF Known
    <2>5. IdBound'
        BY <1>0, <2>2, <2>3, <2>4 DEF IdBound
    <2>6. IdUnique'
        BY <1>0, <2>2, <2>3, <2>4 DEF IdUnique
    <2> QED
        BY <2>5, <2>6
<1>4. ASSUME NEW a \in Amfs, NEW r \in RanIds, NEW kind \in AmfKinds, NEW stream \in InStreams,
             NgapReceive(a, r, kind, stream)
      PROVE  IdBound' /\ IdUnique'
    <2>1. a = FirstAmf /\ ueContexts' = ueContexts /\ Known' = Known
        BY <1>4 DEF NgapReceive, Known
    <2>2. PICK id : /\ amfUeId' = [amfUeId EXCEPT ![FirstAmf][r] = id]
                    /\ id \in IF Given[r] = NONE THEN AmfUeIds \ UsedIds(FirstAmf) ELSE {Given[r]}
        BY <1>4, <2>1 DEF NgapReceive, Given
    <2>3. Given \in [RanIds -> AmfUeIds \cup {NONE}] /\ Given' = [Given EXCEPT ![r] = id]
        BY <1>t, <2>2 DEF Given
    <2>4. CASE Given[r] # NONE
        <3>1. Given' = Given
            BY <2>2, <2>3, <2>4
        <3> QED
            BY <1>0, <2>1, <3>1 DEF IdBound, IdUnique
    <2>5. CASE Given[r] = NONE
        <3>1. id \in AmfUeIds /\ \A u \in Known : Given[ueContexts[u].ranUeNgapId] # id
            BY <1>t, <2>2, <2>5 DEF UsedIds, Live, Given
        <3>2. \A u \in Known : Given'[ueContexts[u].ranUeNgapId] =
                 IF ueContexts[u].ranUeNgapId = r THEN id ELSE Given[ueContexts[u].ranUeNgapId]
            BY <1>t, <2>3
        <3>3. IdBound'
            BY <1>0, <2>1, <2>5, <3>2 DEF IdBound
        <3>4. IdUnique'
            BY <1>0, <1>1, <2>1, <3>1, <3>2 DEF IdUnique
        <3> QED
            BY <3>3, <3>4
    <2> QED
        BY <2>4, <2>5
<1>5. CASE NgapFound \/ NgapError
    <2>1. KeepsIds /\ UNCHANGED amfUeId /\ ngapPc = "lookup"
        BY <1>5, NgapLookupInv DEF NgapFound, NgapError
    <2>2. \/ UNCHANGED ueContexts
          \/ /\ ~Refused
             /\ \E u \in Find : ueContexts' = BindAmfId(u) \/ ueContexts' = BindStream(u)
        BY <1>5 DEF NgapFound, NgapError
    <2>3. CASE UNCHANGED ueContexts
        BY <1>2, <2>1, <2>3
    <2>4. CASE /\ ~Refused
               /\ \E u \in Find : ueContexts' = BindAmfId(u) \/ ueContexts' = BindStream(u)
        <3>1. PICK u \in Find : ueContexts' = BindAmfId(u) \/ ueContexts' = BindStream(u)
            BY <2>4
        <3>2. u \in Known /\ ueContexts[u].ranUeNgapId = ngapMsg.ran
            BY <2>1, <2>4, FoundUe
        <3>3. ngapMsg.id = Given[ueContexts[u].ranUeNgapId]
            BY <1>0, <2>1, <2>4, <3>2 DEF IdMeant, Refused
        <3>4. \A v \in Known : ueContexts'[v].amfUeNgapId =
                 IF v = u THEN ngapMsg.id ELSE ueContexts[v].amfUeNgapId
            <4>1. \A v \in Known : BindAmfId(u)[v].amfUeNgapId =
                     IF v = u THEN ngapMsg.id ELSE ueContexts[v].amfUeNgapId
                BY <1>t, <3>2 DEF BindAmfId, Known, GnbUeContext
            <4>2. \A v \in Known : BindStream(u)[v].amfUeNgapId =
                     IF v = u THEN ngapMsg.id ELSE ueContexts[v].amfUeNgapId
                BY <1>t, <3>2 DEF BindStream, Known, GnbUeContext
            <4> QED
                BY <3>1, <4>1, <4>2
        <3> QED
            BY <1>0, <2>1, <3>3, <3>4, IdsKept
    <2> QED
        BY <2>2, <2>3, <2>4
<1>6. ASSUME ngapPc = "handle"
      PROVE  ngapUe \in Known /\ ngapMsg.amf = FirstAmf /\ ngapMsg.ran = ueContexts[ngapUe].ranUeNgapId
    BY <1>6, Handling DEF Known, CurrentInv, AmfMessage
<1>7. CASE receiveContextModificationRequest
    <2>1. /\ ngapUe \in Known /\ ngapUe \in Ues
          /\ ngapMsg.amf = FirstAmf /\ ngapMsg.ran = ueContexts[ngapUe].ranUeNgapId
        BY <1>6, <1>7 DEF receiveContextModificationRequest, Known
    <2>2. CASE UNCHANGED <<ueContexts, amfUeId>>
        BY <1>2, <2>2
    <2>3. CASE ~UNCHANGED <<ueContexts, amfUeId>>
        <3>1. PICK id \in AmfUeIds \ UsedIds(FirstAmf) :
                 /\ ueContexts' = [ueContexts EXCEPT ![ngapUe].amfUeNgapId = id]
                 /\ amfUeId' = [amfUeId EXCEPT ![FirstAmf][ngapMsg.ran] = id]
            BY <1>7, <2>1, <2>3 DEF receiveContextModificationRequest
        <3>2. \A u \in Known : Given[ueContexts[u].ranUeNgapId] # id
            BY <1>t, <3>1 DEF UsedIds, Live, Given
        <3>3. Given \in [RanIds -> AmfUeIds \cup {NONE}] /\ Given' = [Given EXCEPT ![ngapMsg.ran] = id]
            BY <1>t, <3>1 DEF Given
        <3>4. KeepsIds
            BY <1>7, NgapAssignInv
        <3>5. /\ Known' = Known
              /\ \A u \in Known : ueContexts'[u].ranUeNgapId = ueContexts[u].ranUeNgapId
            BY <3>4 DEF KeepsIds, SameIds, Known
        <3>6. \A u \in Known : ueContexts'[u].amfUeNgapId =
                 IF u = ngapUe THEN id ELSE ueContexts[u].amfUeNgapId
            BY <1>t, <2>1, <3>1 DEF Known, GnbUeContext
        <3>7. \A u \in Known : Given'[ueContexts[u].ranUeNgapId] =
                 IF u = ngapUe THEN id ELSE Given[ueContexts[u].ranUeNgapId]
            BY <1>t, <1>1, <2>1, <3>3
        <3>8. IdBound'
            BY <1>0, <3>5, <3>6, <3>7 DEF IdBound
        <3>9. IdUnique'
            BY <1>0, <3>2, <3>5, <3>7 DEF IdUnique
        <3> QED
            BY <3>8, <3>9
    <2> QED
        BY <2>2, <2>3
<1>8. CASE receiveRerouteNasRequest
    <2>1. KeepsIds /\ UNCHANGED amfUeId
        BY <1>8, NgapAssignInv DEF receiveRerouteNasRequest
    <2>2. \/ UNCHANGED ueContexts
          \/ \E new : ueContexts' = [ueContexts EXCEPT ![ngapUe].associatedAmf = new]
        BY <1>8 DEF receiveRerouteNasRequest
    <2>3. \A u \in Known : ueContexts'[u].amfUeNgapId = ueContexts[u].amfUeNgapId
        BY <1>t, <2>2 DEF Known, GnbUeContext
    <2> QED
        BY <1>0, <2>1, <2>3, IdsKept
<1>9. CASE NgapRemove
    <2>1. ueContexts' = [ueContexts EXCEPT ![ngapUe] = NONE] /\ amfUeId' = amfUeId
        BY <1>9 DEF NgapRemove, Remove
    <2>2. Given' = Given /\ \A u \in Known' : u \in Known /\ ueContexts'[u] = ueContexts[u]
        BY <1>t, <2>1 DEF Given, Known
    <2> QED
        BY <1>0, <2>2 DEF IdBound, IdUnique
<1> QED
    BY <1>2, <1>3, <1>4, <1>5, <1>7, <1>8, <1>9 DEF Next, vars, UeSends, MrStep, MrUplinkKnown,
       MrSendUplink, MrDeliver, NgapStep, NgapDies, NgapOther, receiveDownlinkNasTransport,
       receiveInitialContextSetup, NgapResend, receiveContextReleaseCommand, NgapReleaseComplete

(* A message that was taken keeps meaning its association. *)
LEMMA IdMeantStep ==
    ASSUME IInv, IdMeant, Amfs = {FirstAmf}, [Next]_vars
    PROVE  IdMeant'
<1>1. CASE ngapPc' # "lookup"
    BY <1>1 DEF IdMeant
<1>2. ASSUME NEW a \in Amfs, NEW r \in RanIds, NEW kind \in AmfKinds, NEW stream \in InStreams,
             NgapReceive(a, r, kind, stream)
      PROVE  IdMeant'
    <2>1. a = FirstAmf /\ UNCHANGED ueContexts
        BY <1>2 DEF NgapReceive
    <2>2. PICK id, sent : /\ amfUeId' = [amfUeId EXCEPT ![FirstAmf][r] = id] /\ sent \in {id, NONE}
                          /\ ngapMsg' = [kind |-> kind, amf |-> a, ran |-> r, id |-> sent,
                                         stream |-> stream]
        BY <1>2, <2>1 DEF NgapReceive
    <2>3. Given'[r] = id
        BY <2>2 DEF IInv, TypeOK, Given
    <2>4. kind = "ReleaseById" => Live(r)'
        BY <1>2, <2>1 DEF NgapReceive, Live, Known
    <2> QED
        BY <2>2, <2>3, <2>4 DEF IdMeant
<1>3. CASE UNCHANGED <<ngapVars, amfUeId>> /\ (UNCHANGED ueContexts \/ MrInitialUeMessage)
    <2>1. Given' = Given /\ UNCHANGED <<ngapPc, ngapMsg>>
        BY <1>3 DEF Given
    <2>2. \A r : Live(r) => Live(r)'
        <3>1. CASE UNCHANGED ueContexts
            BY <3>1 DEF Live, Known
        <3>2. CASE MrInitialUeMessage
            <4>1. \A u \in Known : u \in Known' /\ ueContexts'[u] = ueContexts[u]
                BY <3>2 DEF MrInitialUeMessage, HasContext, Known, IInv, TypeOK
            <4> QED
                BY <4>1 DEF Live
        <3> QED
            BY <1>3, <3>1, <3>2
    <2> QED
        BY <2>1, <2>2 DEF IdMeant
<1> QED
    BY <1>1, <1>2, <1>3 DEF Next, vars, UeSends, MrStep, MrInitialUeMessage, MrUplinkKnown,
       MrSendUplink, MrDeliver, NgapStep, NgapFound, NgapError, NgapDies, NgapOther, NgapDone,
       receiveDownlinkNasTransport, receiveInitialContextSetup, receiveContextModificationRequest,
       receiveRerouteNasRequest, NgapResend, receiveContextReleaseCommand, NgapReleaseComplete,
       NgapRemove

LEMMA IdStep ==
    ASSUME OneMeant, IInv, RouteInv, CurrentInv, IdInv, [Next]_vars
    PROVE  IdInv'
BY IdContextStep, IdFreshStep, IdMeantStep DEF IdInv

LEMMA IdInit == Init => IdInv
<1> SUFFICES ASSUME Init PROVE IdInv
    OBVIOUS
<1>1. Known = {} /\ \A r \in RanIds : heard[r] = {} /\ Given[r] = NONE
    BY DEF Init, Known, Given
<1> QED
    BY <1>1 DEF Init, IdInv, IdBound, IdUnique, IdFresh, IdMeant

(* The owner of an id never changes. *)
LEMMA OwnersStay ==
    ASSUME IInv, [Next]_vars, NEW r \in RanIds, owner[r] \in Ues
    PROVE  owner'[r] = owner[r]
<1>1. CASE KeepsIds \/ NgapRemove
    BY <1>1 DEF KeepsIds, NgapRemove
<1>2. CASE MrInitialUeMessage
    <2>1. NextRanId > ueNgapIdCounter /\ owner' = [owner EXCEPT ![NextRanId] = Head(mrQueue).ue]
        BY <1>2 DEF IInv, TypeOK, MrInitialUeMessage, NextRanId
    <2>2. r # NextRanId
        BY <2>1 DEF IInv, OwnerInv
    <2> QED
        BY <2>1, <2>2 DEF IInv, TypeOK
<1> QED
    BY <1>1, <1>2, NextInv

(* The control state of the NGAP thread keeps to the owner. *)
LEMMA RouteStep ==
    ASSUME OneMeant, IInv, RouteInv, IdInv, [Next]_vars
    PROVE  RouteInv'
<1>1. CASE UNCHANGED ngapVars
    <2>1. ASSUME ngapPc \in {"handle", "resend", "complete", "remove"}
          PROVE  owner'[ngapMsg.ran] = ngapUe
        <3>1. ngapMsg.ran \in RanIds /\ ngapUe \in Ues
            BY <2>1, Handling DEF AmfMessage
        <3> QED
            BY <2>1, <3>1, OwnersStay DEF RouteInv
    <2> QED
        BY <1>1, <2>1 DEF RouteInv
<1>2. CASE NgapStep
    <2>1. CASE ngapPc' = "idle"
        BY <2>1 DEF RouteInv
    <2>2. CASE \E a \in Amfs, r \in RanIds, kind \in AmfKinds, stream \in InStreams :
                  NgapReceive(a, r, kind, stream)
        BY <2>2 DEF NgapReceive, RouteInv
    <2>3. CASE NgapFound
        <3>1. PICK u \in Find : ngapUe' = u
            BY <2>3 DEF NgapFound
        <3>2. ngapMsg.kind \in AmfKinds /\ ngapMsg' = ngapMsg /\ owner' = owner /\ ngapPc' = "handle"
            BY <2>3 DEF NgapFound, RouteInv
        <3>3. u \in Ues /\ ueContexts[u] # NONE /\ ueContexts[u].ranUeNgapId = ngapMsg.ran
            BY <2>3, FoundUe DEF NgapFound, Known
        <3> QED
            BY <3>1, <3>2, <3>3 DEF RouteInv, IInv, OwnerInv
    <2>4. CASE NgapDies \/ receiveContextReleaseCommand \/ NgapReleaseComplete
        BY <2>4 DEF NgapDies, receiveContextReleaseCommand, NgapReleaseComplete, RouteInv
    <2>5. CASE receiveRerouteNasRequest
        BY <2>1, <2>5 DEF receiveRerouteNasRequest, NgapDone, RouteInv
    <2> QED
        BY <1>2, <2>1, <2>2, <2>3, <2>4, <2>5 DEF NgapStep, NgapError, NgapOther, NgapDone,
              receiveDownlinkNasTransport, receiveInitialContextSetup,
              receiveContextModificationRequest, NgapResend, NgapRemove
<1> QED
    BY <1>1, <1>2 DEF Next, vars, UeSends, MrStep, MrInitialUeMessage, MrUplinkKnown,
          MrSendUplink, MrDeliver

(* The association of the message being handled stays that of the context. *)
LEMMA CurrentStep ==
    ASSUME OneMeant, IInv, RouteInv, IdInv, CurrentInv, [Next]_vars
    PROVE  CurrentInv'
<1> DEFINE busy == {"handle", "resend", "complete", "remove"}
<1>1. CASE ngapPc \in busy /\ UNCHANGED <<ngapMsg, ngapUe>> /\ ~NgapRemove
    <2>1. ngapUe \in Ues /\ ueContexts[ngapUe] # NONE
        BY <1>1, Handling
    <2>2. CASE KeepsIds
        BY <1>1, <2>1, <2>2 DEF KeepsIds, SameIds, CurrentInv
    <2>3. CASE MrInitialUeMessage
        <3>1. /\ Head(mrQueue).ue # ngapUe
              /\ ueContexts' = [ueContexts EXCEPT ![Head(mrQueue).ue] = NewContext]
            BY <2>1, <2>3 DEF MrInitialUeMessage, HasContext
        <3>2. ueContexts'[ngapUe] = ueContexts[ngapUe]
            BY <2>1, <3>1 DEF IInv, TypeOK
        <3> QED BY <1>1, <3>2 DEF CurrentInv
    <2> QED BY <1>1, <2>2, <2>3, NextInv
<1>2. CASE NgapFound
    <2>1. PICK u \in Find : ngapUe' = u /\ ngapMsg' = ngapMsg
        BY <1>2 DEF NgapFound
    <2>2. u \in Ues /\ ueContexts[u] # NONE /\ ueContexts[u].ranUeNgapId = ngapMsg.ran
        BY <1>2, FoundUe DEF NgapFound, Known
    <2>3. KeepsIds
        BY <1>2, NgapLookupInv
    <2> QED BY <2>1, <2>2, <2>3 DEF KeepsIds, SameIds, CurrentInv
<1>3. CASE ngapPc' \notin busy
    BY <1>3 DEF CurrentInv
<1> QED
    BY <1>1, <1>2, <1>3 DEF Next, vars, UeSends, MrStep, MrInitialUeMessage, MrUplinkKnown,
       MrSendUplink, MrDeliver, NgapStep, NgapReceive, NgapError, NgapDies, NgapOther, NgapDone,
       receiveDownlinkNasTransport, receiveInitialContextSetup,
       receiveContextModificationRequest, receiveRerouteNasRequest, NgapResend,
       receiveContextReleaseCommand, NgapReleaseComplete, NgapRemove

(* A message goes to the owner of its id, owners being o. *)
ToOwner(m, o) == m.ran \in RanIds /\ o[m.ran] = m.ue

(* What is queued or delivered goes to the owner. *)
DeliveryInv ==
    /\ \A u \in Ues : delivered[u] # NONE => ToOwner(delivered[u], owner) /\ delivered[u].ue = u
    /\ \A i \in 1 .. Len(mrQueue) : mrQueue[i].kind # "uplink" => ToOwner(mrQueue[i], owner)

(* A message that goes to its owner keeps doing so. *)
LEMMA ToOwnerStays ==
    ASSUME IInv, [Next]_vars, NEW m \in MrMessage, ToOwner(m, owner)
    PROVE  ToOwner(m, owner')
<1>1. m.ue \in Ues
    BY DEF MrMessage
<1> QED
    BY <1>1, OwnersStay DEF ToOwner

(* What a step does to the queue. *)
LEMMA QueueStep ==
    ASSUME IInv, RouteInv, [Next]_vars
    PROVE  \/ mrQueue' = mrQueue
           \/ mrQueue # <<>> /\ mrQueue' = Tail(mrQueue)
           \/ \E m \in MrMessage : /\ mrQueue' = Append(mrQueue, m)
                                   /\ m.kind # "uplink" => ToOwner(m, owner)
<1>1. CASE \E u \in Ues : UeSends(u)
    <2>1. PICK u \in Ues : UeSends(u)
        BY <1>1
    <2> DEFINE m == [kind |-> "uplink", ue |-> u, ran |-> 0, stream |-> 0]
    <2>2. m \in MrMessage /\ m.kind = "uplink" /\ mrQueue' = Append(mrQueue, m)
        BY <2>1 DEF MrMessage, UeSends, Enqueue
    <2> QED BY <2>2
<1>2. CASE MrStep \/ UNCHANGED vars
    BY <1>2 DEF MrStep, MrInitialUeMessage, MrUplinkKnown, MrSendUplink, MrDeliver, vars
<1>3. CASE \/ receiveDownlinkNasTransport \/ receiveInitialContextSetup
           \/ receiveContextReleaseCommand
    <2>1. /\ ngapMsg \in AmfMessage /\ ngapUe \in Ues /\ owner[ngapMsg.ran] = ngapUe
        BY <1>3, Handling DEF receiveDownlinkNasTransport, receiveInitialContextSetup,
                              receiveContextReleaseCommand, RouteInv
    <2>2. ngapMsg.ran \in RanIds /\ ngapMsg.stream \in InStreams
        BY <2>1 DEF AmfMessage
    <2>3. ASSUME NEW kind \in {"downlink", "release"},
                 Enqueue(kind, ngapUe, ngapMsg.ran, ngapMsg.stream)
          PROVE  \E m \in MrMessage : /\ mrQueue' = Append(mrQueue, m)
                                      /\ m.kind # "uplink" => ToOwner(m, owner)
        <3> DEFINE m == [kind |-> kind, ue |-> ngapUe, ran |-> ngapMsg.ran, stream |-> ngapMsg.stream]
        <3>1. m \in MrMessage /\ ToOwner(m, owner) /\ mrQueue' = Append(mrQueue, m)
            BY <2>1, <2>2, <2>3 DEF MrMessage, ToOwner, Enqueue
        <3> QED BY <3>1
    <2> QED
        BY <1>3, <2>3 DEF receiveDownlinkNasTransport, receiveInitialContextSetup,
                          receiveContextReleaseCommand, RelayNas
<1>4. CASE NgapStep
    BY <1>3, <1>4 DEF NgapStep, NgapReceive, NgapFound, NgapError, NgapDies, NgapOther,
          receiveContextModificationRequest, receiveRerouteNasRequest, NgapResend,
          NgapReleaseComplete, NgapRemove
<1> QED
    BY <1>1, <1>2, <1>4 DEF Next

(* Queued and delivered messages keep going to the owner. *)
LEMMA DeliveryStep ==
    ASSUME IInv, RouteInv, DeliveryInv, [Next]_vars
    PROVE  DeliveryInv'
<1>1. mrQueue \in Seq(MrMessage) /\ delivered \in [Ues -> MrMessage \cup {NONE}]
    BY DEF IInv, TypeOK
<1>2. \A i \in 1 .. Len(mrQueue) : mrQueue[i].kind # "uplink" => ToOwner(mrQueue[i], owner')
    BY <1>1, ToOwnerStays DEF DeliveryInv
<1>3. ASSUME NEW i \in 1 .. Len(mrQueue'), mrQueue'[i].kind # "uplink"
      PROVE  ToOwner(mrQueue'[i], owner')
    <2>1. CASE mrQueue' = mrQueue
        BY <1>2, <1>3, <2>1
    <2>2. CASE mrQueue # <<>> /\ mrQueue' = Tail(mrQueue)
        <3>1. i + 1 \in 1 .. Len(mrQueue) /\ mrQueue'[i] = mrQueue[i + 1]
            BY <1>1, <2>2
        <3> QED
            BY <1>2, <1>3, <3>1
    <2>3. CASE \E m \in MrMessage : /\ mrQueue' = Append(mrQueue, m)
                                    /\ m.kind # "uplink" => ToOwner(m, owner)
        <3>1. PICK m \in MrMessage : /\ mrQueue' = Append(mrQueue, m)
                                     /\ m.kind # "uplink" => ToOwner(m, owner)
            BY <2>3
        <3>2. \/ i \in 1 .. Len(mrQueue) /\ mrQueue'[i] = mrQueue[i]
              \/ mrQueue'[i] = m
            BY <1>1, <3>1
        <3> QED
            BY <1>2, <1>3, <3>1, <3>2, ToOwnerStays
    <2> QED
        BY <2>1, <2>2, <2>3, QueueStep
<1>4. ASSUME NEW u \in Ues, delivered'[u] # NONE
      PROVE  ToOwner(delivered'[u], owner') /\ delivered'[u].ue = u
    <2>1. CASE delivered'[u] = delivered[u]
        <3>1. delivered[u] \in MrMessage /\ ToOwner(delivered[u], owner) /\ delivered[u].ue = u
            BY <1>1, <1>4, <2>1 DEF DeliveryInv
        <3> QED
            BY <2>1, <3>1, ToOwnerStays
    <2>2. CASE MrDeliver /\ Head(mrQueue).ue = u
        <3>1. /\ Head(mrQueue) \in MrMessage /\ Head(mrQueue) = mrQueue[1] /\ 1 \in 1 .. Len(mrQueue)
              /\ Head(mrQueue).kind # "uplink"
            BY <1>1, <2>2 DEF MrDeliver
        <3>2. delivered'[u] = Head(mrQueue)
            BY <1>1, <2>2 DEF MrDeliver
        <3> QED
            BY <1>2, <2>2, <3>1, <3>2
    <2>3. delivered' = delivered \/ MrDeliver
        BY DEF Next, vars, UeSends, MrStep, MrInitialUeMessage, MrUplinkKnown, MrSendUplink,
               NgapStep, NgapReceive, NgapFound, NgapError, NgapDies, NgapOther,
               receiveDownlinkNasTransport, receiveInitialContextSetup,
               receiveContextModificationRequest, receiveRerouteNasRequest, NgapResend,
               receiveContextReleaseCommand, NgapReleaseComplete, NgapRemove
    <2> QED
        BY <1>1, <2>1, <2>2, <2>3 DEF MrDeliver
<1> QED
    BY <1>3, <1>4 DEF DeliveryInv

(* The invariants that routing rests on hold in every state. *)
LEMMA RoutingInvariance ==
    ASSUME OneMeant
    PROVE  Spec => [](IInv /\ RouteInv /\ DeliveryInv /\ CurrentInv)
<1> DEFINE Inv == IInv /\ RouteInv /\ DeliveryInv /\ CurrentInv /\ IdInv
<1>1. Init => Inv
    <2> SUFFICES ASSUME Init PROVE Inv
        OBVIOUS
    <2>1. RouteInv /\ CurrentInv /\ (\A u \in Ues : delivered[u] = NONE) /\ 1 .. Len(mrQueue) = {}
        BY DEF Init, RouteInv, CurrentInv
    <2> QED
        BY <2>1, InitInv, IdInit DEF DeliveryInv
<1>2. Inv /\ [Next]_vars => Inv'
    BY NextInv, RouteStep, DeliveryStep, CurrentStep, IdStep
<1> QED
    BY <1>1, <1>2, PTL DEF Spec

(* As long as a message of an AMF means one association, NAS messages and     *)
(* releases reach the UE whose association the AMF addressed, however         *)
(* creation, release and rerouting interleave (findAssociatedUeId).          *)
THEOREM GnbDeliversToOwner == OneMeant => (Spec => []NoMisdelivery)
<1> SUFFICES ASSUME OneMeant PROVE Spec => []NoMisdelivery
    OBVIOUS
<1>1. IInv /\ DeliveryInv => NoMisdelivery
    <2> SUFFICES ASSUME IInv, DeliveryInv PROVE NoMisdelivery
        OBVIOUS
    <2>1. DOMAIN mrQueue = 1 .. Len(mrQueue)
        BY DEF IInv, TypeOK
    <2> QED
        BY <2>1 DEF DeliveryInv, ToOwner, NoMisdelivery
<1> QED
    BY <1>1, RoutingInvariance, PTL DEF Spec

-----------------------------------------------------------------------------
(* How the threads end. *)

(* An uplink message that is sent without a further check belongs to a UE    *)
(* that has been given an id.                                              *)
DeathInv ==
    /\ mrPc # "idle" => \E r \in RanIds : owner[r] = mrUe
    /\ mrPc = "dead" => ueContexts[mrUe] = NONE

(* Every step keeps the invariant. *)
LEMMA DeathStep ==
    ASSUME IInv, DeathInv, [Next]_vars
    PROVE  DeathInv'
<1>0. ueContexts \in [Ues -> GnbUeContext \cup {NONE}] /\ (mrPc # "idle" => mrUe \in Ues)
    BY DEF IInv, TypeOK
<1>1. CASE MrInitialUeMessage
    BY <1>1 DEF MrInitialUeMessage, DeathInv
<1>2. CASE ~MrInitialUeMessage
    <2>1. owner' = owner /\ (KeepsIds \/ NgapRemove)
        BY <1>2, NextInv DEF KeepsIds, NgapRemove
    <2>2. \A u \in Ues : ueContexts[u] = NONE => ueContexts'[u] = NONE
        <3>1. CASE KeepsIds
            BY <3>1 DEF KeepsIds, SameIds
        <3>2. CASE NgapRemove
            BY <1>0, <3>2 DEF NgapRemove, Remove
        <3> QED BY <2>1, <3>1, <3>2
    <2>3. CASE UNCHANGED mrVars
        BY <1>0, <2>1, <2>2, <2>3 DEF DeathInv
    <2>4. CASE MrUplinkKnown
        <3>1. Head(mrQueue).ue \in Ues /\ ueContexts[Head(mrQueue).ue] # NONE
            BY <2>4, QueueType DEF MrUplinkKnown, HasContext, MrMessage, IInv
        <3>2. \E r \in RanIds : owner[r] = Head(mrQueue).ue
            BY <1>0, <3>1 DEF IInv, OwnerInv, GnbUeContext
        <3> QED
            BY <2>1, <2>4, <3>2 DEF MrUplinkKnown, DeathInv
    <2>5. CASE MrSendUplink
        BY <2>1, <2>5 DEF MrSendUplink, DeathInv
    <2> QED
        BY <1>2, <2>3, <2>4, <2>5 DEF Next, vars, UeSends, MrStep, MrDeliver,
           NgapStep, NgapReceive, NgapFound, NgapError, NgapDies, NgapOther,
           receiveDownlinkNasTransport, receiveInitialContextSetup,
           receiveContextModificationRequest, receiveRerouteNasRequest, NgapResend,
           receiveContextReleaseCommand, NgapReleaseComplete, NgapRemove
<1> QED
    BY <1>1, <1>2

(* AMFs hear of ids, and name ids in their messages, that were handed out. *)
HeardInv ==
    /\ \A r \in RanIds : r > ueNgapIdCounter => heard[r] = {}
    /\ ngapPc # "idle" => ngapMsg.ran <= ueNgapIdCounter

(* Every step keeps the invariant. *)
LEMMA HeardStep ==
    ASSUME IInv, HeardInv, [Next]_vars
    PROVE  HeardInv'
<1>0. /\ ueNgapIdCounter \in Nat /\ heard \in [RanIds -> SUBSET Amfs]
      /\ ngapPc # "idle" => ngapMsg.ran \in Nat
    BY Handling DEF IInv, TypeOK, AmfMessage, RanIds
<1>1. ueNgapIdCounter' \in Nat /\ ueNgapIdCounter <= ueNgapIdCounter'
    BY <1>0, NextInv DEF KeepsIds, MrInitialUeMessage, NextRanId, NgapRemove
<1>2. ASSUME NEW c, c.ranUeNgapId <= ueNgapIdCounter', sendNgapUeAssociated(c)
      PROVE  \A r \in RanIds : r > ueNgapIdCounter' => heard'[r] = {}
    BY <1>0, <1>1, <1>2 DEF sendNgapUeAssociated, HeardInv, RanIds
<1>3. \A u \in Known : ueContexts[u].ranUeNgapId <= ueNgapIdCounter
    BY DEF IInv, OwnerInv, Known
<1>4. \A r \in RanIds : r > ueNgapIdCounter' => heard'[r] = {}
    <2>1. CASE UNCHANGED heard
        BY <1>0, <1>1, <2>1 DEF HeardInv, RanIds
    <2>2. CASE MrInitialUeMessage
        <3>1. NewContext.ranUeNgapId = ueNgapIdCounter' /\ sendNgapUeAssociated(NewContext)
            BY <2>2 DEF MrInitialUeMessage, NewContext
        <3> QED BY <1>1, <1>2, <3>1
    <2>3. CASE MrSendUplink /\ ~UNCHANGED heard
        <3>1. mrUe \in Known /\ sendNgapUeAssociated(ueContexts[mrUe]) /\ UNCHANGED ueNgapIdCounter
            BY <2>3 DEF MrSendUplink, Known, IInv, TypeOK
        <3>2. ueContexts[mrUe].ranUeNgapId <= ueNgapIdCounter'
            BY <1>3, <3>1
        <3> QED BY <1>2, <3>1, <3>2
    <2>4. CASE \/ receiveInitialContextSetup \/ receiveContextModificationRequest
               \/ NgapResend \/ NgapReleaseComplete
        <3>1. ngapPc \in {"handle", "resend", "complete"} /\ sendNgapUeAssociated(Context)
              /\ UNCHANGED ueNgapIdCounter
            BY <2>4 DEF receiveInitialContextSetup, receiveContextModificationRequest, NgapResend,
               NgapReleaseComplete
        <3>2. ngapUe \in Known
            BY <3>1 DEF IInv, TypeOK, HasContext, Known
        <3>3. Context.ranUeNgapId <= ueNgapIdCounter'
            BY <1>3, <3>1, <3>2 DEF Context
        <3> QED BY <1>2, <3>1, <3>3
    <2> QED
        BY <2>1, <2>2, <2>3, <2>4 DEF Next, vars, UeSends, MrStep, MrUplinkKnown, MrDeliver,
           NgapStep, NgapReceive, NgapFound, NgapError, NgapDies, NgapOther,
           receiveDownlinkNasTransport, receiveRerouteNasRequest,
           receiveContextReleaseCommand, NgapRemove
<1>5. ngapPc' # "idle" => ngapMsg'.ran <= ueNgapIdCounter'
    <2>1. CASE \E a \in Amfs, r \in RanIds, kind \in AmfKinds, stream \in InStreams :
                  NgapReceive(a, r, kind, stream)
        <3>1. PICK a \in Amfs, r \in RanIds, kind \in AmfKinds, stream \in InStreams :
                  NgapReceive(a, r, kind, stream)
            BY <2>1
        <3>2. heard[r] # {} /\ ngapMsg'.ran = r /\ r \in Nat
            BY <3>1 DEF NgapReceive, RanIds
        <3>3. ~(r > ueNgapIdCounter)
            BY <3>2 DEF HeardInv
        <3> QED
            BY <1>0, <1>1, <3>2, <3>3
    <2>2. CASE ngapPc' = "idle" \/ (ngapPc # "idle" /\ ngapMsg' = ngapMsg)
        BY <1>0, <1>1, <2>2 DEF HeardInv
    <2>3. CASE UNCHANGED ngapVars
        BY <2>2, <2>3
    <2> QED
        BY <2>1, <2>2, <2>3 DEF Next, vars, UeSends, MrStep, MrInitialUeMessage, MrUplinkKnown,
           MrSendUplink, MrDeliver, NgapStep, NgapFound, NgapError, NgapDies, NgapOther, NgapDone,
           receiveDownlinkNasTransport, receiveInitialContextSetup,
           receiveContextModificationRequest, receiveRerouteNasRequest, NgapResend,
           receiveContextReleaseCommand, NgapReleaseComplete, NgapRemove
<1> QED
    BY <1>4, <1>5 DEF HeardInv

(* UE u came after the association of the message being handled, and waits  *)
(* for the first answer to its own.                                        *)
Newer(u) == u \in Known /\ Unanswered(u) /\ ueContexts[u].ranUeNgapId > ngapMsg.ran

(* The UE found for a message is not waiting; a put that disturbs the handling *)
(* of a message is that of a newer UE; and the thread ends only on such a UE,  *)
(* or on the unboxed null of any waiting one.                               *)
PutInv ==
    /\ ngapPc \in {"handle", "resend", "complete", "remove"} => ~Unanswered(ngapUe)
    /\ disturbed /\ ngapPc # "idle" => \E u \in Ues : Newer(u)
    /\ ngapPc = "dead" => \/ \E u \in Ues : Newer(u)
                          \/ ngapMsg.kind = "ReleaseById" /\ \E u \in Known : Unanswered(u)

(* The UE found for a message is not a newer one, and has the message's AMF id *)
(* from then on.                                                           *)
LEMMA FoundIsBound ==
    ASSUME IInv, NgapFound
    PROVE  /\ ~Unanswered(ngapUe)'
           /\ \A u \in Ues : Newer(u) => ueContexts'[u] = ueContexts[u]
<1>1. PICK f \in Find : ueContexts' = BindStream(f) /\ ngapUe' = f
    BY DEF NgapFound
<1>2. ngapMsg.id # NONE /\ f \in Ues /\ ueContexts[f] \in GnbUeContext
    BY DEF NgapFound, Refused, Find, FindByAmfId, Known, IInv, TypeOK
<1>3. ueContexts'[f].amfUeNgapId = ngapMsg.id
    BY <1>1, <1>2 DEF BindStream, IInv, TypeOK, GnbUeContext
<1>4. ASSUME NEW u \in Ues, Newer(u)
      PROVE  ueContexts'[u] = ueContexts[u]
    <2>1. ngapMsg.ran \in Nat
        BY Handling DEF NgapFound, AmfMessage, RanIds
    <2>2. u # f
        <3>1. CASE ngapMsg.kind = "ReleaseById"
            BY <1>2, <1>4, <3>1 DEF Find, FindByAmfId, Newer, Unanswered
        <3>2. CASE ngapMsg.kind # "ReleaseById"
            BY <1>4, <2>1, <3>2 DEF Find, Newer
        <3> QED BY <3>1, <3>2
    <2> QED
        BY <1>1, <2>2 DEF BindStream, IInv, TypeOK
<1> QED
    BY <1>1, <1>2, <1>3, <1>4 DEF Unanswered

(* A step that does not end the handling of a message leaves the contexts of *)
(* the newer UEs alone, and if the thread has ended, those of all UEs.      *)
LEMMA WaitingStays ==
    ASSUME IInv, PutInv, [Next]_vars, ngapPc' # "idle", ngapPc # "idle",
           NEW u \in Known, Unanswered(u), Newer(u) \/ ngapPc = "dead"
    PROVE  /\ u \in Known' /\ Unanswered(u)'
           /\ Newer(u) => Newer(u)'
<1>1. ngapMsg' = ngapMsg
    BY DEF Next, vars, UeSends, MrStep, MrInitialUeMessage, MrUplinkKnown,
       MrSendUplink, MrDeliver, NgapStep, NgapReceive, NgapFound, NgapError, NgapDies, NgapOther,
       NgapDone, receiveDownlinkNasTransport, receiveInitialContextSetup,
       receiveContextModificationRequest, receiveRerouteNasRequest, NgapResend,
       receiveContextReleaseCommand, NgapReleaseComplete, NgapRemove
<1>2. ueContexts'[u] = ueContexts[u]
    <2>0. u \in Ues /\ ueContexts[u] # NONE /\ ueContexts \in [Ues -> GnbUeContext \cup {NONE}]
        BY DEF Known, IInv, TypeOK
    <2>1. CASE UNCHANGED ueContexts
        BY <2>1
    <2>2. CASE MrInitialUeMessage
        <3>1. \E v \in Ues : ueContexts[v] = NONE /\ ueContexts' = [ueContexts EXCEPT ![v] = NewContext]
            BY <2>2, QueueType DEF MrInitialUeMessage, MrMessage, HasContext, IInv
        <3> QED BY <2>0, <3>1
    <2>3. CASE NgapFound
        <3>1. Newer(u)
            BY <2>3 DEF NgapFound
        <3> QED BY <2>0, <2>3, <3>1, FoundIsBound
    <2>4. CASE receiveRerouteNasRequest /\ ngapPc' = "resend"
        <3>1. \E a : ueContexts' = [ueContexts EXCEPT ![ngapUe].associatedAmf = a]
            BY <2>4 DEF receiveRerouteNasRequest, NgapDone
        <3>2. u # ngapUe
            BY <2>4 DEF receiveRerouteNasRequest, PutInv
        <3> QED BY <2>0, <3>1, <3>2
    <2> QED
        BY <2>1, <2>2, <2>3, <2>4 DEF Next, vars, UeSends, MrStep, MrUplinkKnown, MrSendUplink, MrDeliver,
           NgapStep, NgapReceive, NgapError, NgapDies, NgapOther, NgapDone,
           receiveDownlinkNasTransport, receiveInitialContextSetup,
           receiveContextModificationRequest, receiveRerouteNasRequest, NgapResend,
           receiveContextReleaseCommand, NgapReleaseComplete, NgapRemove
<1> QED
    BY <1>1, <1>2 DEF Known, Unanswered, Newer

(* The put of a new context is that of a newer UE. *)
LEMMA PutIsNewer ==
    ASSUME IInv, HeardInv, MrInitialUeMessage, ngapPc # "idle"
    PROVE  \E u \in Ues : Newer(u)'
<1> DEFINE u == Head(mrQueue).ue
<1>1. u \in Ues /\ ueContexts' = [ueContexts EXCEPT ![u] = NewContext] /\ ngapMsg' = ngapMsg
    BY QueueType DEF MrInitialUeMessage, MrMessage, IInv
<1> HIDE DEF u
<1>2. ueContexts'[u] = NewContext
    BY <1>1 DEF IInv, TypeOK
<1>3. NewContext.amfUeNgapId = NONE /\ NewContext.ranUeNgapId = ueNgapIdCounter + 1
    BY DEF NewContext, NextRanId
<1>4. NewContext # NONE
    BY NewContextType
<1>5. ueNgapIdCounter + 1 > ngapMsg.ran
    BY Handling DEF HeardInv, IInv, TypeOK, AmfMessage, RanIds
<1> QED
    BY <1>1, <1>2, <1>3, <1>4, <1>5 DEF Newer, Known, Unanswered

(* Every step keeps the invariant. *)
LEMMA PutStep ==
    ASSUME IInv, HeardInv, PutInv, [Next]_vars
    PROVE  PutInv'
<1>1. CASE MrInitialUeMessage
    <2>1. ngapPc' = ngapPc /\ ngapUe' = ngapUe /\ ngapMsg' = ngapMsg
        BY <1>1 DEF MrInitialUeMessage
    <2>2. ngapPc # "idle" => \E u \in Ues : Newer(u)'
        BY <1>1, PutIsNewer
    <2>3. ngapPc \in {"handle", "resend", "complete", "remove"} => ~Unanswered(ngapUe)'
        <3> SUFFICES ASSUME ngapPc \in {"handle", "resend", "complete", "remove"}
                     PROVE  ueContexts'[ngapUe] = ueContexts[ngapUe]
            BY <2>1 DEF PutInv, Unanswered
        <3>1. \E v \in Ues : ueContexts[v] = NONE /\ ueContexts' = [ueContexts EXCEPT ![v] = NewContext]
            BY <1>1, QueueType DEF MrInitialUeMessage, MrMessage, HasContext, IInv
        <3>2. ngapUe \in Ues /\ ueContexts[ngapUe] # NONE
            BY Handling
        <3> QED BY <3>1, <3>2 DEF IInv, TypeOK
    <2> QED
        BY <2>1, <2>2, <2>3 DEF PutInv
<1>2. CASE ~MrInitialUeMessage
    <2>1. ngapPc' \in {"handle", "resend", "complete", "remove"} => ~Unanswered(ngapUe)'
        <3>1. CASE NgapFound
            BY <3>1, FoundIsBound
        <3>2. CASE receiveRerouteNasRequest /\ ngapPc' = "resend"
            <4>1. /\ \E a \in Amfs : ueContexts' = [ueContexts EXCEPT ![ngapUe].associatedAmf = a]
                  /\ ngapUe' = ngapUe /\ ngapPc = "handle"
                BY <3>2 DEF receiveRerouteNasRequest, NgapDone, Candidates
            <4>2. ngapUe \in Ues /\ ueContexts[ngapUe] \in GnbUeContext
                BY <4>1, Handling DEF Context
            <4>3. ueContexts'[ngapUe].amfUeNgapId = ueContexts[ngapUe].amfUeNgapId
                BY <4>1, <4>2 DEF IInv, TypeOK, GnbUeContext
            <4> QED BY <4>1, <4>3 DEF PutInv, Unanswered
        <3>3. CASE ngapPc' \in {"idle", "lookup", "dead"}
            BY <3>3
        <3>4. CASE UNCHANGED <<ueContexts, ngapUe>> /\ ngapPc \in {"handle", "resend", "complete", "remove"}
            BY <3>4 DEF PutInv, Unanswered
        <3>5. CASE UNCHANGED <<ueContexts, ngapVars>>
            BY <3>5 DEF PutInv, Unanswered
        <3> QED
            BY <1>2, <3>1, <3>2, <3>3, <3>4, <3>5 DEF Next, vars, UeSends, MrStep, MrUplinkKnown,
               MrSendUplink, MrDeliver, NgapStep, NgapReceive, NgapError, NgapDies, NgapOther, NgapDone,
               receiveDownlinkNasTransport, receiveInitialContextSetup,
               receiveContextModificationRequest, receiveRerouteNasRequest, NgapResend,
               receiveContextReleaseCommand, NgapReleaseComplete, NgapRemove
    <2>2. disturbed' /\ ngapPc' # "idle" => disturbed /\ ngapPc # "idle"
        BY <1>2 DEF Next, vars, UeSends, MrStep, MrUplinkKnown, MrSendUplink, MrDeliver,
           NgapStep, NgapReceive, NgapFound, NgapError, NgapDies, NgapOther, NgapDone,
           receiveDownlinkNasTransport, receiveInitialContextSetup,
           receiveContextModificationRequest, receiveRerouteNasRequest, NgapResend,
           receiveContextReleaseCommand, NgapReleaseComplete, NgapRemove
    <2>3. ASSUME ngapPc # "idle", ngapPc' # "idle", \E u \in Ues : Newer(u)
          PROVE  \E u \in Ues : Newer(u)'
        <3>1. PICK u \in Ues : Newer(u)
            BY <2>3
        <3>2. Newer(u)'
            BY <2>3, <3>1, WaitingStays DEF Newer
        <3> QED BY <3>2
    <2>4. disturbed' /\ ngapPc' # "idle" => \E u \in Ues : Newer(u)'
        BY <2>2, <2>3 DEF PutInv
    <2>5. ngapPc' = "dead" => \/ \E u \in Ues : Newer(u)'
                              \/ ngapMsg'.kind = "ReleaseById" /\ \E u \in Known' : Unanswered(u)'
        <3>1. CASE NgapDies
            <4>1. ngapMsg' = ngapMsg /\ ueContexts' = ueContexts /\ ngapPc # "idle" /\ ngapPc' = "dead"
                BY <3>1 DEF NgapDies
            <4>2. CASE disturbed
                <5>1. \E u \in Ues : Newer(u)
                    BY <4>1, <4>2 DEF PutInv
                <5>2. \E u \in Ues : Newer(u)'
                    BY <2>3, <4>1, <5>1
                <5> QED BY <5>2, Zenon
            <4>3. CASE VisitsNullId
                BY <4>1, <4>3 DEF VisitsNullId, Unanswered, Known
            <4> QED BY <3>1, <4>2, <4>3 DEF NgapDies
        <3>2. CASE ngapPc = "dead" /\ ngapPc' = "dead" /\ ngapMsg' = ngapMsg
            <4>1. CASE \E u \in Ues : Newer(u)
                <5>1. \E u \in Ues : Newer(u)'
                    BY <2>3, <3>2, <4>1
                <5> QED BY <5>1, Zenon
            <4>2. CASE ngapMsg.kind = "ReleaseById" /\ \E u \in Known : Unanswered(u)
                <5>1. PICK u \in Known : Unanswered(u)
                    BY <4>2
                <5>2. u \in Known' /\ Unanswered(u)'
                    BY <3>2, <5>1, WaitingStays
                <5>3. ngapMsg'.kind = "ReleaseById"
                    BY <3>2, <4>2
                <5> QED BY <5>2, <5>3, Zenon
            <4> QED
                BY <3>2, <4>1, <4>2 DEF PutInv
        <3> QED
            BY <1>2, <3>1, <3>2 DEF Next, vars, UeSends, MrStep, MrUplinkKnown, MrSendUplink, MrDeliver,
               NgapStep, NgapReceive, NgapFound, NgapError, NgapOther, NgapDone,
               receiveDownlinkNasTransport, receiveInitialContextSetup,
               receiveContextModificationRequest, receiveRerouteNasRequest, NgapResend,
               receiveContextReleaseCommand, NgapReleaseComplete, NgapRemove
    <2> QED
        BY <2>1, <2>4, <2>5 DEF PutInv
<1> QED
    BY <1>1, <1>2

-----------------------------------------------------------------------------
(* Uplink streams. *)

(* The stream of the n-th association, 0 before the first. *)
Turn(n) == IF Outbound = 1 \/ n = 0 THEN 0 ELSE 1 + ((n - 1) % (Outbound - 1))

(* Division with remainder, for a divisor that is no literal. *)
LEMMA Division ==
    ASSUME NEW n \in Nat, NEW m \in Nat \ {0}
    PROVE  /\ n \div m \in Nat /\ n % m \in 0..(m - 1)
           /\ n = (m * (n \div m)) + (n % m)
BY Z3

(* Products keep their order. *)
LEMMA TimesOrder ==
    ASSUME NEW m \in Nat \ {0}, NEW a \in Nat, NEW b \in Nat, a + 1 <= b
    PROVE  (m * a) + m <= m * b
<1>1. m * (a + 1) <= m * b
    BY Z3
<1>2. m * (a + 1) = (m * a) + m
    BY Z3
<1> QED BY <1>1, <1>2, Z3

(* The remainder of a number is the only one in its range. *)
LEMMA RemainderUnique ==
    ASSUME NEW n \in Nat, NEW m \in Nat \ {0}, NEW q \in Nat, NEW r \in 0..(m - 1),
           n = (m * q) + r
    PROVE  n % m = r
<1> DEFINE p == n \div m
           s == n % m
<1>1. p \in Nat /\ s \in 0..(m - 1) /\ n = (m * p) + s
    BY Division, Zenon
<1> HIDE DEF p, s
<1>2. m * p \in Nat /\ m * q \in Nat
    BY <1>1, Z3
<1>3. ~ p + 1 <= q
    <2>1. p + 1 <= q => (m * p) + m <= m * q
        BY <1>1, TimesOrder
    <2> QED BY <1>1, <1>2, <2>1
<1>4. ~ q + 1 <= p
    <2>1. q + 1 <= p => (m * q) + m <= m * p
        BY <1>1, TimesOrder
    <2> QED BY <1>1, <1>2, <2>1
<1>5. p = q
    BY <1>1, <1>3, <1>4
<1>6. s = r
    BY <1>1, <1>2, <1>5
<1> QED
    BY <1>6 DEF s

(* Counting on: the remainder grows by one or starts again at 0. *)
LEMMA NextRemainder ==
    ASSUME NEW n \in Nat, NEW m \in Nat \ {0}
    PROVE  (n + 1) % m = IF (n % m) + 1 = m THEN 0 ELSE (n % m) + 1
<1> DEFINE p == n \div m
           s == n % m
<1>1. p \in Nat /\ s \in 0..(m - 1) /\ n = (m * p) + s
    BY Division, Zenon
<1> HIDE DEF p, s
<1>2. CASE s + 1 = m
    <2>1. n + 1 = (m * (p + 1)) + 0
        <3>1. m * (p + 1) = (m * p) + m
            BY <1>1, Z3
        <3>2. m * p \in Nat
            BY <1>1, Z3
        <3> QED BY <1>1, <1>2, <3>1, <3>2
    <2>2. (n + 1) % m = 0
        BY <1>1, <2>1, RemainderUnique
    <2> QED BY <1>2, <2>2 DEF s
<1>3. CASE s + 1 # m
    <2>1. n + 1 = (m * p) + (s + 1) /\ s + 1 \in 0..(m - 1)
        <3>2. m * p \in Nat
            BY <1>1, Z3
        <3> QED BY <1>1, <1>3, <3>2
    <2>2. (n + 1) % m = s + 1
        BY <1>1, <2>1, RemainderUnique
    <2> QED BY <1>3, <2>2 DEF s
<1> QED
    BY <1>2, <1>3

(* NextStream takes the turns one after the other. *)
LEMMA NextTurn == ASSUME NEW n \in Nat PROVE NextStream(Turn(n)) = Turn(n + 1)
<1> DEFINE M == Outbound - 1
<1>1. CASE Outbound = 1
    <2>1. (0 + 1) % 1 = 0
        BY Division
    <2> QED
        BY <1>1, <2>1 DEF NextStream, Turn
<1>2. CASE Outbound # 1
    <2>1. M \in Nat \ {0} /\ Outbound = M + 1
        BY <1>2
    <2> HIDE DEF M
    <2>2. ASSUME NEW s \in 0..M
          PROVE  NextStream(s) = IF s = M THEN 1 ELSE s + 1
        <3>1. CASE s = M
            <4>1. (s + 1) % Outbound = 0
                <5>1. s + 1 = (Outbound * 1) + 0
                    BY <2>1, <3>1
                <5> QED BY <2>1, <5>1, RemainderUnique
            <4> QED BY <2>1, <3>1, <4>1 DEF NextStream
        <3>2. CASE s # M
            <4>1. (s + 1) % Outbound = s + 1
                <5>1. s + 1 = (Outbound * 0) + (s + 1) /\ s + 1 \in 0..(Outbound - 1)
                    BY <2>1, <3>2
                <5> QED BY <2>1, <5>1, RemainderUnique
            <4> QED BY <2>1, <3>2, <4>1 DEF NextStream
        <3> QED BY <3>1, <3>2
    <2>3. CASE n = 0
        <3>1. Turn(n) = 0 /\ Turn(n + 1) = 1 + (0 % M)
            BY <1>2, <2>3 DEF Turn, M
        <3>2. 0 % M = 0
            <4>1. 0 = (M * 0) + 0
                BY <2>1
            <4> QED BY <2>1, <4>1, RemainderUnique
        <3> QED BY <2>1, <2>2, <3>1, <3>2
    <2>4. CASE n # 0
        <3>1. Turn(n) = 1 + ((n - 1) % M) /\ Turn(n + 1) = 1 + (n % M)
            BY <1>2, <2>4 DEF Turn, M
        <3>2. n - 1 \in Nat /\ (n - 1) + 1 = n
            BY <2>4
        <3>3. n % M = IF ((n - 1) % M) + 1 = M THEN 0 ELSE ((n - 1) % M) + 1
            <4> DEFINE k == n - 1
            <4>1. k \in Nat /\ k + 1 = n
                BY <3>2
            <4> HIDE DEF k
            <4>2. (k + 1) % M = IF (k % M) + 1 = M THEN 0 ELSE (k % M) + 1
                BY <2>1, <4>1, NextRemainder, Zenon
            <4>3. n % M = IF (k % M) + 1 = M THEN 0 ELSE (k % M) + 1
                BY <4>1, <4>2, Zenon
            <4> QED
                BY <4>3, Zenon DEF k
        <3>4. (n - 1) % M \in 0..(M - 1)
            BY <2>1, <3>2, Division
        <3> QED
            BY <2>1, <2>2, <3>1, <3>3, <3>4
    <2> QED BY <2>3, <2>4
<1> QED BY <1>1, <1>2

(* The next stream is that of the last turn; a context has that of its id. *)
StreamInv ==
    /\ nextStream = Turn(ueNgapIdCounter)
    /\ \A u \in Ues : ueContexts[u] # NONE =>
          ueContexts[u].uplinkStream = Turn(ueContexts[u].ranUeNgapId)

(* Every step keeps the invariant. *)
LEMMA StreamStep == ASSUME IInv, StreamInv, [Next]_vars PROVE StreamInv'
<1>0. ueContexts \in [Ues -> GnbUeContext \cup {NONE}] /\ ueNgapIdCounter \in Nat
    BY DEF IInv, TypeOK
<1>1. CASE MrInitialUeMessage
    <2> DEFINE u == Head(mrQueue).ue
    <2>1. /\ u \in Ues /\ ueContexts' = [ueContexts EXCEPT ![u] = NewContext]
          /\ ueNgapIdCounter' = ueNgapIdCounter + 1
          /\ nextStream' = NextStream(nextStream)
        BY <1>1, QueueType DEF MrInitialUeMessage, MrMessage, IInv, NextRanId
    <2> HIDE DEF u
    <2>2. nextStream' = Turn(ueNgapIdCounter + 1)
        BY <1>0, <2>1, NextTurn DEF StreamInv
    <2>3. /\ NewContext.ranUeNgapId = ueNgapIdCounter + 1
          /\ NewContext.uplinkStream = Turn(ueNgapIdCounter + 1)
        BY <2>1, <2>2 DEF NewContext, NextRanId
    <2>4. \A v \in Ues : ueContexts'[v] = IF v = u THEN NewContext ELSE ueContexts[v]
        BY <1>0, <2>1
    <2> HIDE DEF StreamInv
    <2>5. \A v \in Ues : ueContexts[v] # NONE =>
              ueContexts[v].uplinkStream = Turn(ueContexts[v].ranUeNgapId)
        BY DEF StreamInv
    <2>6. ASSUME NEW v \in Ues, ueContexts'[v] # NONE
          PROVE  ueContexts'[v].uplinkStream = Turn(ueContexts'[v].ranUeNgapId)
        BY <2>3, <2>4, <2>5, <2>6
    <2>7. nextStream' = Turn(ueNgapIdCounter')
        BY <2>1, <2>2
    <2> QED
        BY <2>6, <2>7 DEF StreamInv, Turn
<1>2. CASE ~MrInitialUeMessage
    <2>1. UNCHANGED <<nextStream, ueNgapIdCounter>>
        BY <1>2 DEF Next, vars, UeSends, MrStep, MrUplinkKnown, MrSendUplink, MrDeliver,
               NgapStep, NgapReceive, NgapFound, NgapError, NgapDies, NgapOther,
               receiveDownlinkNasTransport, receiveInitialContextSetup,
               receiveContextModificationRequest, receiveRerouteNasRequest, NgapResend,
               receiveContextReleaseCommand, NgapReleaseComplete, NgapRemove
    <2>2. CASE KeepsIds
        BY <2>1, <2>2 DEF KeepsIds, SameIds, StreamInv, Turn
    <2>3. CASE NgapRemove
        BY <1>0, <2>1, <2>3 DEF NgapRemove, Remove, StreamInv, Turn
    <2> QED BY <1>2, <2>2, <2>3, NextInv
<1> QED BY <1>1, <1>2

(* Turns that are less than a round apart differ, and no turn is stream 0    *)
(* unless there is no other stream.                                        *)
LEMMA TurnsDiffer ==
    ASSUME NEW a \in Nat \ {0}, Outbound # 1
    PROVE  /\ Turn(a) \in 1..(Outbound - 1)
           /\ \A b \in Nat : a < b /\ b < a + (Outbound - 1) => Turn(a) # Turn(b)
<1> DEFINE M == Outbound - 1
           p(n) == (n - 1) \div M
           s(n) == (n - 1) % M
<1>1. M \in Nat \ {0}
    OBVIOUS
<1>2. ASSUME NEW n \in Nat \ {0}
      PROVE  /\ Turn(n) = 1 + s(n) /\ s(n) \in 0..(M - 1)
             /\ p(n) \in Nat /\ n - 1 = (M * p(n)) + s(n)
    <2> DEFINE k == n - 1
    <2>1. k \in Nat
        OBVIOUS
    <2> HIDE DEF k, M
    <2>2. k \div M \in Nat /\ k % M \in 0..(M - 1) /\ k = (M * (k \div M)) + (k % M)
        BY <1>1, <2>1, Division, Zenon
    <2>3. p(n) = k \div M /\ s(n) = k % M
        BY Zenon DEF k
    <2>4. Turn(n) = 1 + s(n)
        BY Zenon DEF Turn, M
    <2>5. n - 1 = k
        BY Zenon DEF k
    <2> QED
        BY <2>2, <2>3, <2>4, <2>5, Zenon
<1>3. Turn(a) \in 1..M
    <2> HIDE DEF M, p, s
    <2> QED BY <1>1, <1>2
<1>4. ASSUME NEW b \in Nat, a < b, b < a + M
      PROVE  Turn(a) # Turn(b)
    <2> SUFFICES ASSUME Turn(a) = Turn(b) PROVE FALSE
        OBVIOUS
    <2> HIDE DEF M, p, s
    <2>0. b \in Nat \ {0}
        BY <1>4
    <2>1. s(a) = s(b) /\ p(a) \in Nat /\ p(b) \in Nat /\ s(a) \in 0..(M - 1)
        BY <1>1, <1>2, <2>0
    <2>2. /\ a - 1 = (M * p(a)) + s(a)
          /\ b - 1 = (M * p(b)) + s(a)
        BY <1>2, <2>0, <2>1
    <2>3. M * p(a) \in Nat /\ M * p(b) \in Nat
        BY <1>1, <2>1, Z3
    <2>4. ~ p(a) + 1 <= p(b)
        <3>1. p(a) + 1 <= p(b) => (M * p(a)) + M <= M * p(b)
            BY <1>1, <2>1, TimesOrder
        <3> QED BY <1>1, <1>4, <2>1, <2>2, <2>3, <3>1
    <2>5. ~ p(b) + 1 <= p(a)
        <3>1. p(b) + 1 <= p(a) => (M * p(b)) + M <= M * p(a)
            BY <1>1, <2>1, TimesOrder
        <3> QED BY <1>1, <1>4, <2>1, <2>2, <2>3, <3>1
    <2>6. p(a) = p(b)
        BY <2>1, <2>4, <2>5
    <2>7. a - 1 = b - 1
        BY <2>2, <2>6, Zenon
    <2> QED BY <1>4, <2>7
<1> QED
    BY <1>3, <1>4

(* Associations that are opened less than a round of streams apart have       *)
(* streams of their own, and none is on stream 0 unless there is no other,    *)
(* for any number of streams and whatever is released in between              *)
(* (receiveUplinkNasTransport, GnbAmfContext.nextStream).                   *)
THEOREM GnbStreamsSpread == Spec => []UplinkStreamsSpread
<1> DEFINE Inv == IInv /\ StreamInv
<1>1. Init => Inv
    BY InitInv DEF Init, StreamInv, Turn
<1>2. Inv /\ [Next]_vars => Inv'
    BY NextInv, StreamStep
<1>3. Inv => UplinkStreamsSpread
    <2> SUFFICES ASSUME Inv PROVE UplinkStreamsSpread
        OBVIOUS
    <2>1. ASSUME NEW u \in Known
          PROVE  /\ ueContexts[u].ranUeNgapId \in Nat \ {0}
                 /\ ueContexts[u].uplinkStream = Turn(ueContexts[u].ranUeNgapId)
        BY <2>1 DEF StreamInv, Known, IInv, TypeOK, GnbUeContext, RanIds
    <2>2. CASE Outbound = 1
        <3>1. \A u \in Known : ueContexts[u].uplinkStream = 0
            BY <2>1, <2>2 DEF Turn
        <3>2. \A u, v \in Known : ~ /\ ueContexts[u].ranUeNgapId < ueContexts[v].ranUeNgapId
                                    /\ ueContexts[v].ranUeNgapId < ueContexts[u].ranUeNgapId + (Outbound - 1)
            BY <2>1, <2>2
        <3> QED
            BY <2>2, <3>1, <3>2 DEF UplinkStreamsSpread
    <2>3. CASE Outbound # 1
        <3>1. \A u \in Known : ueContexts[u].uplinkStream \in 1..(Outbound - 1)
            BY <2>1, <2>3, TurnsDiffer
        <3>2. ASSUME NEW u \in Known, NEW v \in Known,
                     ueContexts[u].ranUeNgapId < ueContexts[v].ranUeNgapId,
                     ueContexts[v].ranUeNgapId < ueContexts[u].ranUeNgapId + (Outbound - 1)
              PROVE  ueContexts[u].uplinkStream # ueContexts[v].uplinkStream
            BY <2>1, <2>3, <3>2, TurnsDiffer
        <3> QED
            BY <2>3, <3>1, <3>2 DEF UplinkStreamsSpread
    <2> QED BY <2>2, <2>3
<1> QED
    BY <1>1, <1>2, <1>3, PTL DEF Spec

-----------------------------------------------------------------------------
(* The order of what a UE is sent. *)

(* The message at place i is the one that the NGAP thread has just relayed. *)
Fresh(u, i) ==
    /\ i = Len(mrQueue') /\ ngapPc = "handle" /\ ngapUe = u
    /\ Message(u, i)'.ran = ngapMsg.ran
    /\ Message(u, i)'.stream = ngapMsg.stream
    /\ Message(u, i)'.kind = "release" => ngapPc' = "complete" /\ ngapUe' = u

(* The messages for u after a step were there before it, at the places that f *)
(* gives, in the same order; one at most is fresh.                         *)
Moved(u, f) ==
    /\ \A i, j \in Nat : i < j => f[i] < f[j]
    /\ \A i \in Relayed(u)' : \/ f[i] \in Relayed(u) /\ Message(u, i)' = Message(u, f[i])
                              \/ Fresh(u, i)

(* The messages keep their places. *)
LEMMA NothingMoved ==
    ASSUME NEW u \in Ues, UNCHANGED <<mrQueue, delivered>>
    PROVE  Moved(u, [i \in Nat |-> i])
BY DEF Moved, Relayed, Message

(* The message relayed by a handler takes the last place. *)
LEMMA AppendMoved ==
    ASSUME IInv, NEW u \in Ues, UNCHANGED delivered, NEW m \in MrMessage,
           mrQueue' = Append(mrQueue, m),
           \/ m.kind = "uplink"
           \/ /\ ngapPc = "handle" /\ m.ue = ngapUe /\ m.ran = ngapMsg.ran
              /\ m.stream = ngapMsg.stream
              /\ m.kind = "release" => ngapPc' = "complete" /\ ngapUe' = ngapUe
    PROVE  Moved(u, [i \in Nat |-> i])
<1>1. mrQueue \in Seq(MrMessage) /\ Len(mrQueue) \in Nat
    BY DEF IInv, TypeOK
<1>2. /\ Len(mrQueue') = Len(mrQueue) + 1
      /\ mrQueue'[Len(mrQueue) + 1] = m
      /\ \A i \in 1..Len(mrQueue) : mrQueue'[i] = mrQueue[i]
    BY <1>1
<1>3. ASSUME NEW i \in Relayed(u)'
      PROVE  \/ i \in Relayed(u) /\ Message(u, i)' = Message(u, i)
             \/ Fresh(u, i)
    <2>1. i \in 0..(Len(mrQueue) + 1)
        BY <1>2 DEF Relayed
    <2>2. CASE i = 0
        BY <1>1, <1>3, <2>2 DEF Relayed, Message
    <2>3. CASE i \in 1..Len(mrQueue)
        BY <1>1, <1>2, <1>3, <2>3 DEF Relayed, Message
    <2>4. CASE i = Len(mrQueue) + 1
        <3>1. Message(u, i)' = m /\ m.ue = u /\ m.kind # "uplink"
            BY <1>1, <1>2, <1>3, <2>4 DEF Relayed, Message
        <3> QED BY <1>2, <2>4, <3>1 DEF Fresh
    <2> QED BY <1>1, <2>1, <2>2, <2>3, <2>4
<1>4. \A i \in Relayed(u)' : i \in Nat
    BY DEF Relayed
<1> QED
    BY <1>3, <1>4 DEF Moved

(* Taking the first message of the queue moves the others up; delivering it   *)
(* to u makes it the last one delivered.                                   *)
LEMMA TailMoved ==
    ASSUME IInv, NEW u \in Ues, mrQueue # <<>>, mrQueue' = Tail(mrQueue),
           \/ Head(mrQueue).kind = "uplink" /\ UNCHANGED delivered
           \/ /\ Head(mrQueue).kind # "uplink"
              /\ delivered' = [delivered EXCEPT ![Head(mrQueue).ue] = Head(mrQueue)]
    PROVE  \E f \in [Nat -> Nat] : Moved(u, f)
<1>1. /\ mrQueue \in Seq(MrMessage) /\ Len(mrQueue) \in Nat /\ Len(mrQueue) > 0
      /\ delivered \in [Ues -> MrMessage \cup {NONE}]
      /\ Head(mrQueue) = mrQueue[1]
    BY DEF IInv, TypeOK
<1>2. /\ Len(mrQueue') = Len(mrQueue) - 1
      /\ \A i \in 1..(Len(mrQueue) - 1) : mrQueue'[i] = mrQueue[i + 1]
    BY <1>1
<1>3. CASE Head(mrQueue).kind # "uplink" /\ Head(mrQueue).ue = u
    <2> DEFINE f == [i \in Nat |-> i + 1]
    <2>1. delivered'[u] = mrQueue[1]
        BY <1>1, <1>3
    <2>2. ASSUME NEW i \in Relayed(u)'
          PROVE  i + 1 \in Relayed(u) /\ Message(u, i)' = Message(u, i + 1)
        <3>1. i \in 0..(Len(mrQueue) - 1)
            BY <1>2 DEF Relayed
        <3>2. CASE i = 0
            BY <1>1, <1>3, <2>1, <3>2 DEF Relayed, Message
        <3>3. CASE i # 0
            <4>1. i \in 1..(Len(mrQueue) - 1) /\ i + 1 \in 0..Len(mrQueue) /\ i + 1 # 0
                BY <1>1, <3>1, <3>3
            <4>2. mrQueue'[i] = mrQueue[i + 1]
                BY <1>2, <4>1
            <4>3. mrQueue'[i].ue = u /\ mrQueue'[i].kind # "uplink"
                BY <2>2, <3>3 DEF Relayed
            <4> QED BY <3>3, <4>1, <4>2, <4>3 DEF Relayed, Message
        <3> QED BY <3>2, <3>3
    <2>3. \A i \in Relayed(u)' : i \in Nat
        BY DEF Relayed
    <2>4. f \in [Nat -> Nat] /\ (\A i \in Nat : f[i] = i + 1)
        OBVIOUS
    <2>5. \A i, j \in Nat : i < j => f[i] < f[j]
        OBVIOUS
    <2> HIDE DEF f
    <2>6. \A i \in Relayed(u)' : f[i] \in Relayed(u) /\ Message(u, i)' = Message(u, f[i])
        BY <2>2, <2>3, <2>4
    <2>7. Moved(u, f)
        BY <2>5, <2>6 DEF Moved
    <2> QED BY <2>4, <2>7
<1>4. CASE ~(Head(mrQueue).kind # "uplink" /\ Head(mrQueue).ue = u)
    <2> DEFINE f == [i \in Nat |-> IF i = 0 THEN 0 ELSE i + 1]
    <2>1. delivered'[u] = delivered[u]
        BY <1>1, <1>4
    <2>2. ASSUME NEW i \in Relayed(u)'
          PROVE  f[i] \in Relayed(u) /\ Message(u, i)' = Message(u, f[i])
        <3>1. i \in 0..(Len(mrQueue) - 1)
            BY <1>2 DEF Relayed
        <3>2. CASE i = 0
            BY <1>1, <2>1, <2>2, <3>2 DEF Relayed, Message
        <3>3. CASE i # 0
            <4>1. i \in 1..(Len(mrQueue) - 1) /\ i + 1 \in 0..Len(mrQueue) /\ i + 1 # 0 /\ f[i] = i + 1
                BY <1>1, <3>1, <3>3
            <4>2. mrQueue'[i] = mrQueue[i + 1]
                BY <1>2, <4>1
            <4>3. mrQueue'[i].ue = u /\ mrQueue'[i].kind # "uplink"
                BY <2>2, <3>3 DEF Relayed
            <4> HIDE DEF f
            <4> QED BY <3>3, <4>1, <4>2, <4>3 DEF Relayed, Message
        <3> QED BY <3>2, <3>3
    <2>3. \A i, j \in Nat : i < j => f[i] < f[j]
        OBVIOUS
    <2>4. f \in [Nat -> Nat]
        OBVIOUS
    <2> HIDE DEF f
    <2>5. Moved(u, f)
        BY <2>2, <2>3 DEF Moved
    <2> QED BY <2>4, <2>5
<1> QED BY <1>3, <1>4

(* So every step moves the messages of a UE in order. *)
LEMMA RelayedStep ==
    ASSUME IInv, [Next]_vars, NEW u \in Ues
    PROVE  \E f \in [Nat -> Nat] : Moved(u, f)
<1> DEFINE id == [i \in Nat |-> i]
<1>1. id \in [Nat -> Nat]
    OBVIOUS
<1> HIDE DEF id
<1>2. CASE UNCHANGED <<mrQueue, delivered>>
    BY <1>1, <1>2, NothingMoved DEF id
<1>3. CASE MrInitialUeMessage \/ MrUplinkKnown \/ MrDeliver
    <2>1. /\ mrQueue # <<>> /\ mrQueue' = Tail(mrQueue)
          /\ \/ Head(mrQueue).kind = "uplink" /\ UNCHANGED delivered
             \/ /\ Head(mrQueue).kind # "uplink"
                /\ delivered' = [delivered EXCEPT ![Head(mrQueue).ue] = Head(mrQueue)]
        BY <1>3 DEF MrInitialUeMessage, MrUplinkKnown, MrDeliver
    <2> QED BY <2>1, TailMoved
<1>4. CASE \E v \in Ues : UeSends(v)
    <2>1. PICK v \in Ues : UeSends(v)
        BY <1>4
    <2> DEFINE m == [kind |-> "uplink", ue |-> v, ran |-> 0, stream |-> 0]
    <2>2. m \in MrMessage /\ m.kind = "uplink" /\ mrQueue' = Append(mrQueue, m) /\ UNCHANGED delivered
        BY <2>1 DEF MrMessage, UeSends, Enqueue
    <2> HIDE DEF m
    <2> QED BY <1>1, <2>2, AppendMoved DEF id
<1>5. CASE \/ receiveDownlinkNasTransport \/ receiveInitialContextSetup
           \/ receiveContextReleaseCommand
    <2>1. ngapPc = "handle" /\ UNCHANGED delivered
        BY <1>5 DEF receiveDownlinkNasTransport, receiveInitialContextSetup,
                    receiveContextReleaseCommand
    <2>2. ngapMsg.ran \in RanIds /\ ngapMsg.stream \in InStreams /\ ngapUe \in Ues
        BY <2>1, Handling DEF AmfMessage
    <2>3. ASSUME NEW kind \in {"downlink", "release"},
                 Enqueue(kind, ngapUe, ngapMsg.ran, ngapMsg.stream),
                 kind = "release" => ngapPc' = "complete" /\ ngapUe' = ngapUe
          PROVE  Moved(u, id)
        <3> DEFINE m == [kind |-> kind, ue |-> ngapUe, ran |-> ngapMsg.ran, stream |-> ngapMsg.stream]
        <3>1. /\ m \in MrMessage /\ mrQueue' = Append(mrQueue, m)
              /\ m.ue = ngapUe /\ m.ran = ngapMsg.ran /\ m.stream = ngapMsg.stream /\ m.kind = kind
            BY <2>2, <2>3 DEF MrMessage, Enqueue
        <3> HIDE DEF m
        <3> QED BY <2>1, <2>3, <3>1, AppendMoved DEF id
    <2> QED
        BY <1>1, <1>2, <1>5, <2>1, <2>3 DEF receiveDownlinkNasTransport, receiveInitialContextSetup,
                    receiveContextReleaseCommand, RelayNas
<1> QED
    BY <1>2, <1>3, <1>4, <1>5 DEF Next, vars, MrStep, MrSendUplink, NgapStep, NgapReceive,
       NgapFound, NgapError, NgapDies, NgapOther, receiveContextModificationRequest,
       receiveRerouteNasRequest, NgapResend, NgapReleaseComplete, NgapRemove

(* What is relayed belongs to an id that was handed out to the UE. *)
LEMMA RelayedOwned ==
    ASSUME IInv, DeliveryInv, NEW u \in Ues, NEW i \in Relayed(u)
    PROVE  /\ Message(u, i) \in MrMessage /\ Message(u, i).ran \in RanIds
           /\ Message(u, i).ran <= ueNgapIdCounter
<1>1. ToOwner(Message(u, i), owner) /\ Message(u, i).ue = u /\ Message(u, i) \in MrMessage
    <2>1. mrQueue \in Seq(MrMessage) /\ delivered \in [Ues -> MrMessage \cup {NONE}]
        BY DEF IInv, TypeOK
    <2>2. CASE i = 0
        BY <2>1, <2>2 DEF Relayed, Message, DeliveryInv
    <2>3. CASE i # 0
        <3>1. i \in 1..Len(mrQueue) /\ mrQueue[i].ue = u /\ mrQueue[i].kind # "uplink"
            BY <2>1, <2>3 DEF Relayed
        <3> QED BY <2>1, <2>3, <3>1 DEF Message, DeliveryInv
    <2> QED BY <2>2, <2>3
<1>2. Message(u, i).ran \in RanIds /\ owner[Message(u, i).ran] = u
    BY <1>1 DEF ToOwner
<1>3. ueNgapIdCounter \in Nat
    BY DEF IInv, TypeOK
<1> QED
    BY <1>1, <1>2, <1>3 DEF IInv, OwnerInv, RanIds

(* The messages for a UE are in order, and come before those of its context; *)
(* while a released context is still there, it is being removed.           *)
OrderInv ==
    \A u \in Ues : \A i \in Relayed(u) :
        /\ \A j \in Relayed(u) : i < j =>
              /\ Message(u, i).ran <= Message(u, j).ran
              /\ Message(u, i).kind = "release" => Message(u, i).ran < Message(u, j).ran
        /\ ueContexts[u] # NONE =>
              /\ Message(u, i).ran <= ueContexts[u].ranUeNgapId
              /\ Message(u, i).kind = "release" /\ Message(u, i).ran = ueContexts[u].ranUeNgapId =>
                    ngapUe = u /\ ngapPc \in {"complete", "remove", "dead"}

(* A release is carried through, or the thread ends. *)
LEMMA ReleaseStays ==
    ASSUME IInv, [Next]_vars, ~NgapRemove, ngapPc \in {"complete", "remove", "dead"}
    PROVE  ngapUe' = ngapUe /\ ngapPc' \in {"complete", "remove", "dead"}
BY DEF Next, vars, UeSends, MrStep, MrInitialUeMessage, MrUplinkKnown,
       MrSendUplink, MrDeliver, NgapStep, NgapReceive, NgapFound, NgapError, NgapDies, NgapOther,
       receiveDownlinkNasTransport, receiveInitialContextSetup,
       receiveContextModificationRequest, receiveRerouteNasRequest, NgapResend,
       receiveContextReleaseCommand, NgapReleaseComplete

(* The context that a UE has after a step: the one it had, or a new one with *)
(* a higher id than any before.                                            *)
LEMMA ContextStep ==
    ASSUME IInv, [Next]_vars, NEW u \in Ues, ueContexts'[u] # NONE
    PROVE  \/ /\ ueContexts[u] # NONE
              /\ ueContexts'[u].ranUeNgapId = ueContexts[u].ranUeNgapId
              /\ NgapRemove => ngapUe # u
           \/ ueContexts[u] = NONE /\ ueContexts'[u].ranUeNgapId = ueNgapIdCounter + 1
<1>0. ueContexts \in [Ues -> GnbUeContext \cup {NONE}]
    BY DEF IInv, TypeOK
<1>1. CASE NgapRemove
    BY <1>0, <1>1 DEF NgapRemove, Remove
<1>2. CASE MrInitialUeMessage
    <2> DEFINE v == Head(mrQueue).ue
    <2>1. v \in Ues /\ ueContexts[v] = NONE /\ ueContexts' = [ueContexts EXCEPT ![v] = NewContext]
        BY <1>2, QueueType DEF MrInitialUeMessage, HasContext, MrMessage, IInv
    <2>2. ~NgapRemove
        BY <1>1, <1>2 DEF MrInitialUeMessage, NgapRemove, NgapDone, vars
    <2>3. NewContext.ranUeNgapId = ueNgapIdCounter + 1
        BY DEF NewContext, NextRanId
    <2> HIDE DEF v
    <2> QED BY <1>0, <2>1, <2>2, <2>3
<1>3. CASE KeepsIds /\ ~NgapRemove
    BY <1>3 DEF KeepsIds, SameIds
<1> QED BY <1>1, <1>2, <1>3, NextInv

(* Every step keeps the order. *)
LEMMA OrderStep ==
    ASSUME IInv, CurrentInv, DeliveryInv, OrderInv, [Next]_vars
    PROVE  OrderInv'
<1> SUFFICES ASSUME NEW u \in Ues, NEW i \in Relayed(u)'
             PROVE  /\ \A j \in Relayed(u)' : i < j =>
                          /\ Message(u, i)'.ran <= Message(u, j)'.ran
                          /\ Message(u, i)'.kind = "release" => Message(u, i)'.ran < Message(u, j)'.ran
                    /\ ueContexts'[u] # NONE =>
                          /\ Message(u, i)'.ran <= ueContexts'[u].ranUeNgapId
                          /\ Message(u, i)'.kind = "release"
                             /\ Message(u, i)'.ran = ueContexts'[u].ranUeNgapId =>
                                ngapUe' = u /\ ngapPc' \in {"complete", "remove", "dead"}
    BY DEF OrderInv
<1>1. PICK f \in [Nat -> Nat] : Moved(u, f)
    BY RelayedStep
<1>2. /\ mrQueue' \in Seq(MrMessage)
      /\ \A j \in Relayed(u)' : j \in 0..Len(mrQueue')
    BY NextInv DEF IInv, TypeOK, Relayed
<1>3. ASSUME NEW j \in Relayed(u)', Fresh(u, j)
      PROVE  /\ ngapPc = "handle" /\ ngapUe = u /\ ueContexts[u] # NONE
             /\ Message(u, j)'.ran = ueContexts[u].ranUeNgapId
             /\ ueContexts[u].ranUeNgapId \in RanIds
    <2>1. ngapPc = "handle" /\ ngapUe = u /\ Message(u, j)'.ran = ngapMsg.ran
        BY <1>3 DEF Fresh
    <2>2. ueContexts[u] # NONE /\ ueContexts[u] \in GnbUeContext
        BY <2>1, Handling DEF Context
    <2> QED BY <2>1, <2>2 DEF CurrentInv, GnbUeContext
<1>4. ASSUME NEW j \in Relayed(u)', i < j
      PROVE  /\ Message(u, i)'.ran <= Message(u, j)'.ran
             /\ Message(u, i)'.kind = "release" => Message(u, i)'.ran < Message(u, j)'.ran
    <2>1. ~Fresh(u, i)
        BY <1>2, <1>4 DEF Fresh
    <2>2. f[i] \in Relayed(u) /\ Message(u, i)' = Message(u, f[i])
        BY <1>1, <2>1 DEF Moved
    <2>3. CASE Fresh(u, j)
        <3>1. /\ ngapPc = "handle" /\ ueContexts[u] # NONE
              /\ Message(u, j)'.ran = ueContexts[u].ranUeNgapId
              /\ ueContexts[u].ranUeNgapId \in RanIds
            BY <1>3, <2>3
        <3>2. Message(u, f[i]).ran \in RanIds
            BY <2>2, RelayedOwned
        <3>3. /\ Message(u, f[i]).ran <= ueContexts[u].ranUeNgapId
              /\ Message(u, f[i]).kind = "release" => Message(u, f[i]).ran # ueContexts[u].ranUeNgapId
            BY <2>2, <3>1 DEF OrderInv
        <3>4. Message(u, f[i]).kind = "release" => Message(u, f[i]).ran < ueContexts[u].ranUeNgapId
            BY <3>1, <3>2, <3>3 DEF RanIds
        <3> QED BY <2>2, <3>1, <3>3, <3>4
    <2>4. CASE ~Fresh(u, j)
        <3>1. f[j] \in Relayed(u) /\ Message(u, j)' = Message(u, f[j])
            BY <1>1, <2>4 DEF Moved
        <3>2. f[i] < f[j]
            BY <1>1, <1>2, <1>4 DEF Moved
        <3> QED BY <2>2, <3>1, <3>2 DEF OrderInv
    <2> QED BY <2>3, <2>4
<1>5. ASSUME ueContexts'[u] # NONE
      PROVE  /\ Message(u, i)'.ran <= ueContexts'[u].ranUeNgapId
             /\ Message(u, i)'.kind = "release" /\ Message(u, i)'.ran = ueContexts'[u].ranUeNgapId =>
                    ngapUe' = u /\ ngapPc' \in {"complete", "remove", "dead"}
    <2>1. CASE Fresh(u, i)
        <3>1. ueContexts'[u].ranUeNgapId = ueContexts[u].ranUeNgapId
            BY <1>3, <1>5, <2>1, ContextStep
        <3>2. Message(u, i)'.ran = ueContexts'[u].ranUeNgapId /\ ueContexts'[u].ranUeNgapId \in RanIds
            BY <1>3, <2>1, <3>1
        <3>3. Message(u, i)'.ran <= ueContexts'[u].ranUeNgapId
            BY <3>2 DEF RanIds
        <3>4. Message(u, i)'.kind = "release" => ngapPc' = "complete" /\ ngapUe' = u
            BY <2>1 DEF Fresh
        <3> QED BY <3>3, <3>4
    <2>2. CASE ~Fresh(u, i)
        <3>1. f[i] \in Relayed(u) /\ Message(u, i)' = Message(u, f[i])
            BY <1>1, <2>2 DEF Moved
        <3>2. CASE ueContexts[u] = NONE
            <4>1. ueContexts'[u].ranUeNgapId = ueNgapIdCounter + 1
                BY <1>5, <3>2, ContextStep
            <4>2. Message(u, f[i]).ran \in Nat /\ Message(u, f[i]).ran <= ueNgapIdCounter
                BY <3>1, RelayedOwned DEF RanIds
            <4>3. ueNgapIdCounter \in Nat
                BY DEF IInv, TypeOK
            <4> QED BY <3>1, <4>1, <4>2, <4>3
        <3>3. CASE ueContexts[u] # NONE
            <4>1. /\ ueContexts'[u].ranUeNgapId = ueContexts[u].ranUeNgapId
                  /\ NgapRemove => ngapUe # u
                BY <1>5, <3>3, ContextStep
            <4>2. /\ Message(u, f[i]).ran <= ueContexts[u].ranUeNgapId
                  /\ Message(u, f[i]).kind = "release"
                     /\ Message(u, f[i]).ran = ueContexts[u].ranUeNgapId =>
                        ngapUe = u /\ ngapPc \in {"complete", "remove", "dead"}
                BY <3>1, <3>3 DEF OrderInv
            <4>3. ngapUe = u /\ ngapPc \in {"complete", "remove", "dead"} =>
                      ngapUe' = u /\ ngapPc' \in {"complete", "remove", "dead"}
                BY <4>1, ReleaseStays
            <4> QED BY <3>1, <4>1, <4>2, <4>3
        <3> QED BY <3>2, <3>3
    <2> QED BY <2>1, <2>2
<1> QED BY <1>4, <1>5

(* As long as a message of an AMF means one association, a UE gets the         *)
(* messages of its associations in order and nothing of an association after  *)
(* its release (receiveContextReleaseCommand).                              *)
THEOREM GnbNothingAfterRelease == OneMeant => (Spec => []NothingAfterRelease)
<1> SUFFICES ASSUME OneMeant PROVE Spec => []NothingAfterRelease
    OBVIOUS
<1>1. Init => OrderInv
    <2> SUFFICES ASSUME Init PROVE OrderInv
        OBVIOUS
    <2>1. \A u \in Ues : Relayed(u) = {}
        BY DEF Init, Relayed
    <2> QED BY <2>1 DEF OrderInv
<1>2. IInv /\ RouteInv /\ DeliveryInv /\ CurrentInv /\ OrderInv /\ [Next]_vars => OrderInv'
    BY OrderStep
<1>3. OrderInv => NothingAfterRelease
    BY DEF OrderInv, NothingAfterRelease
<1> QED
    BY <1>1, <1>2, <1>3, RoutingInvariance, PTL DEF Spec

-----------------------------------------------------------------------------
(* Downlink streams. *)

(* What is relayed to a UE came on the stream that its context is bound to;  *)
(* so did the message being handled.                                       *)
LaneInv ==
    /\ \A u \in Ues : \A i \in Relayed(u) :
          /\ Message(u, i).stream # 0
          /\ \A j \in Relayed(u) : Message(u, i).ran = Message(u, j).ran =>
                Message(u, i).stream = Message(u, j).stream
          /\ ueContexts[u] # NONE /\ Message(u, i).ran = ueContexts[u].ranUeNgapId =>
                Message(u, i).stream = ueContexts[u].downlinkStream
    /\ ngapPc \in {"handle", "resend", "complete", "remove"} =>
          ngapMsg.stream # 0 /\ ueContexts[ngapUe].downlinkStream = ngapMsg.stream

(* What the bindings of a lookup do to downlink streams. *)
LEMMA BindingStreams ==
    ASSUME IInv, ~IgnoreStreamIds, NEW v \in Known, NEW u \in Ues
    PROVE  /\ BindAmfId(v)[u] # NONE => BindAmfId(v)[u].downlinkStream = ueContexts[u].downlinkStream
           /\ u # v => BindStream(v)[u] = ueContexts[u]
           /\ BindStream(v)[v].downlinkStream = ngapMsg.stream
<1>1. ueContexts \in [Ues -> GnbUeContext \cup {NONE}] /\ v \in Ues /\ ueContexts[v] \in GnbUeContext
    BY DEF IInv, TypeOK, Known
<1> DEFINE c == ueContexts[v]
           b == [c EXCEPT !.amfUeNgapId = ngapMsg.id]
           s == [c EXCEPT !.amfUeNgapId = ngapMsg.id, !.downlinkStream = ngapMsg.stream]
<1>2. b.downlinkStream = c.downlinkStream /\ s.downlinkStream = ngapMsg.stream
    BY <1>1 DEF GnbUeContext
<1>3. BindAmfId(v) = [ueContexts EXCEPT ![v] = b] /\ BindStream(v) = [ueContexts EXCEPT ![v] = s]
    BY <1>1 DEF BindAmfId, BindStream, GnbUeContext
<1> HIDE DEF b, s
<1> QED
    BY <1>1, <1>2, <1>3

(* A context keeps its downlink stream, or a lookup binds it to the stream of *)
(* a message that fits.                                                    *)
LEMMA DownlinkStep ==
    ASSUME IInv, ~IgnoreStreamIds, [Next]_vars, NEW u \in Ues, ueContexts[u] # NONE,
           ueContexts'[u] # NONE
    PROVE  \/ ueContexts'[u].downlinkStream = ueContexts[u].downlinkStream
           \/ /\ ngapPc = "lookup" /\ ngapMsg.stream # 0
              /\ ueContexts[u].downlinkStream \in {0, ngapMsg.stream}
              /\ ueContexts'[u].downlinkStream = ngapMsg.stream
<1>0. ueContexts \in [Ues -> GnbUeContext \cup {NONE}] /\ ueContexts[u] \in GnbUeContext
    BY DEF IInv, TypeOK
<1>1. Find \subseteq Known
    BY DEF Find, FindByAmfId, Known
<1>2. ASSUME NEW v \in Find, StreamFits(v), ~Refused, ngapPc = "lookup", ueContexts' = BindStream(v)
      PROVE  \/ ueContexts'[u].downlinkStream = ueContexts[u].downlinkStream
             \/ /\ ngapPc = "lookup" /\ ngapMsg.stream # 0
                /\ ueContexts[u].downlinkStream \in {0, ngapMsg.stream}
                /\ ueContexts'[u].downlinkStream = ngapMsg.stream
    <2>1. CASE u = v
        BY <1>1, <1>2, <2>1, BindingStreams DEF StreamFits, Refused
    <2>2. CASE u # v
        BY <1>1, <1>2, <2>2, BindingStreams
    <2> QED BY <2>1, <2>2
<1>3. CASE NgapFound
    BY <1>2, <1>3 DEF NgapFound
<1>4. CASE NgapError
    BY <1>1, <1>2, <1>4, BindingStreams DEF NgapError
<1>5. CASE MrInitialUeMessage
    <2>1. ueContexts[Head(mrQueue).ue] = NONE /\ ueContexts' = [ueContexts EXCEPT ![Head(mrQueue).ue] = NewContext]
        BY <1>5 DEF MrInitialUeMessage, HasContext
    <2>2. ueContexts'[u] = ueContexts[u]
        BY <1>0, <2>1
    <2> QED BY <2>2
<1>6. CASE receiveContextModificationRequest \/ receiveRerouteNasRequest
    <2>0. ngapPc = "handle"
        BY <1>6 DEF receiveContextModificationRequest, receiveRerouteNasRequest
    <2>1. ngapUe \in Ues /\ Context \in GnbUeContext
        BY <2>0, Handling
    <2>2. ASSUME NEW x, ueContexts' = [ueContexts EXCEPT ![ngapUe].amfUeNgapId = x]
          PROVE  ueContexts'[u].downlinkStream = ueContexts[u].downlinkStream
        BY <1>0, <2>1, <2>2 DEF GnbUeContext, Context
    <2>3. ASSUME NEW x, ueContexts' = [ueContexts EXCEPT ![ngapUe].associatedAmf = x]
          PROVE  ueContexts'[u].downlinkStream = ueContexts[u].downlinkStream
        BY <1>0, <2>1, <2>3 DEF GnbUeContext, Context
    <2>4. \/ ueContexts' = ueContexts
          \/ \E x : ueContexts' = [ueContexts EXCEPT ![ngapUe].amfUeNgapId = x]
          \/ \E x : ueContexts' = [ueContexts EXCEPT ![ngapUe].associatedAmf = x]
        BY <1>6 DEF receiveContextModificationRequest, receiveRerouteNasRequest
    <2> QED BY <2>2, <2>3, <2>4
<1>7. CASE NgapRemove
    BY <1>0, <1>7 DEF NgapRemove, Remove
<1> QED
    BY <1>3, <1>4, <1>5, <1>6, <1>7 DEF Next, vars, UeSends, MrStep, MrUplinkKnown,
       MrSendUplink, MrDeliver, NgapStep, NgapReceive, NgapDies, NgapOther,
       receiveDownlinkNasTransport, receiveInitialContextSetup, NgapResend,
       receiveContextReleaseCommand, NgapReleaseComplete

(* Every step keeps the message being handled on the stream of its context. *)
LEMMA HandledStreamStep ==
    ASSUME IInv, ~IgnoreStreamIds, LaneInv, [Next]_vars,
           ngapPc' \in {"handle", "resend", "complete", "remove"}
    PROVE  ngapMsg'.stream # 0 /\ ueContexts'[ngapUe'].downlinkStream = ngapMsg'.stream
<1> DEFINE busy == {"handle", "resend", "complete", "remove"}
<1>1. CASE ngapPc \in busy /\ UNCHANGED <<ngapMsg, ngapUe>>
    <2>1. ngapUe \in Ues /\ ueContexts[ngapUe] # NONE
        BY <1>1, Handling
    <2>2. ueContexts'[ngapUe] # NONE
        BY <1>1, NextInv DEF IInv, TypeOK, HasContext
    <2>3. ueContexts'[ngapUe].downlinkStream = ueContexts[ngapUe].downlinkStream
        BY <1>1, <2>1, <2>2, DownlinkStep
    <2> QED BY <1>1, <2>3 DEF LaneInv
<1>2. CASE NgapFound
    <2>1. PICK u \in Find : ngapUe' = u /\ ngapMsg' = ngapMsg /\ ueContexts' = BindStream(u)
        BY <1>2 DEF NgapFound
    <2>2. u \in Known /\ u \in Ues
        BY DEF Find, FindByAmfId, Known
    <2>3. ngapMsg.stream # 0
        BY <1>2 DEF NgapFound, Refused
    <2> QED BY <2>1, <2>2, <2>3, BindingStreams
<1> QED
    BY <1>1, <1>2 DEF Next, vars, UeSends, MrStep, MrInitialUeMessage, MrUplinkKnown,
       MrSendUplink, MrDeliver, NgapStep, NgapReceive, NgapError, NgapDies, NgapOther, NgapDone,
       receiveDownlinkNasTransport, receiveInitialContextSetup,
       receiveContextModificationRequest, receiveRerouteNasRequest, NgapResend,
       receiveContextReleaseCommand, NgapReleaseComplete, NgapRemove

(* Every step keeps the invariant. *)
LEMMA LaneStep ==
    ASSUME IInv, ~IgnoreStreamIds, CurrentInv, DeliveryInv, LaneInv, [Next]_vars
    PROVE  LaneInv'
<1>1. ASSUME NEW u \in Ues, NEW i \in Relayed(u)'
      PROVE  /\ Message(u, i)'.stream # 0
             /\ \A j \in Relayed(u)' : Message(u, i)'.ran = Message(u, j)'.ran =>
                   Message(u, i)'.stream = Message(u, j)'.stream
             /\ ueContexts'[u] # NONE /\ Message(u, i)'.ran = ueContexts'[u].ranUeNgapId =>
                   Message(u, i)'.stream = ueContexts'[u].downlinkStream
    <2>1. PICK f \in [Nat -> Nat] : Moved(u, f)
        BY RelayedStep
    <2>2. ASSUME NEW j \in Relayed(u)', Fresh(u, j)
          PROVE  /\ ngapPc = "handle" /\ ueContexts[u] # NONE
                 /\ Message(u, j)'.ran = ueContexts[u].ranUeNgapId
                 /\ Message(u, j)'.stream = ueContexts[u].downlinkStream
                 /\ Message(u, j)'.stream # 0
        <3>1. /\ ngapPc = "handle" /\ ngapUe = u /\ Message(u, j)'.ran = ngapMsg.ran
              /\ Message(u, j)'.stream = ngapMsg.stream
            BY <2>2 DEF Fresh
        <3>2. ueContexts[u] # NONE
            BY <3>1, Handling
        <3> QED BY <3>1, <3>2 DEF CurrentInv, LaneInv
    <2>3. ASSUME NEW j \in Relayed(u)', ~Fresh(u, j)
          PROVE  f[j] \in Relayed(u) /\ Message(u, j)' = Message(u, f[j])
        BY <2>1, <2>3 DEF Moved
    <2>4. Message(u, i)'.stream # 0
        BY <2>2, <2>3 DEF LaneInv
    <2>5. ASSUME NEW j \in Relayed(u)', Message(u, i)'.ran = Message(u, j)'.ran
          PROVE  Message(u, i)'.stream = Message(u, j)'.stream
        <3>1. CASE Fresh(u, i) /\ Fresh(u, j)
            BY <2>2, <3>1
        <3>2. CASE Fresh(u, i) /\ ~Fresh(u, j)
            BY <2>2, <2>3, <2>5, <3>2 DEF LaneInv
        <3>3. CASE ~Fresh(u, i) /\ Fresh(u, j)
            BY <2>2, <2>3, <2>5, <3>3 DEF LaneInv
        <3>4. CASE ~Fresh(u, i) /\ ~Fresh(u, j)
            BY <2>3, <2>5, <3>4 DEF LaneInv
        <3> QED BY <3>1, <3>2, <3>3, <3>4
    <2>6. ASSUME ueContexts'[u] # NONE, Message(u, i)'.ran = ueContexts'[u].ranUeNgapId
          PROVE  Message(u, i)'.stream = ueContexts'[u].downlinkStream
        <3>1. CASE Fresh(u, i)
            <4>1. ueContexts'[u].downlinkStream = ueContexts[u].downlinkStream
                BY <2>2, <2>6, <3>1, DownlinkStep
            <4> QED BY <2>2, <3>1, <4>1
        <3>2. CASE ~Fresh(u, i)
            <4>1. f[i] \in Relayed(u) /\ Message(u, i)' = Message(u, f[i])
                BY <2>3, <3>2
            <4>2. ueContexts[u] # NONE /\ ueContexts'[u].ranUeNgapId = ueContexts[u].ranUeNgapId
                <5>1. Message(u, f[i]).ran \in Nat /\ Message(u, f[i]).ran <= ueNgapIdCounter
                    BY <4>1, RelayedOwned DEF RanIds
                <5>2. ueNgapIdCounter \in Nat
                    BY DEF IInv, TypeOK
                <5> QED BY <2>6, <4>1, <5>1, <5>2, ContextStep
            <4>3. /\ Message(u, f[i]).stream = ueContexts[u].downlinkStream
                  /\ Message(u, f[i]).stream # 0
                BY <2>6, <4>1, <4>2 DEF LaneInv
            <4> QED BY <2>6, <4>1, <4>2, <4>3, DownlinkStep
        <3> QED BY <3>1, <3>2
    <2> QED BY <2>4, <2>5, <2>6
<1> QED
    BY <1>1, HandledStreamStep DEF LaneInv

(* With stream checking, and as long as a message of an AMF means one          *)
(* association, all messages of an association that take effect came on one   *)
(* stream, and not on stream 0 (NgapTask.receiveNgap).                      *)
THEOREM GnbOneDownlinkStream == OneMeant => (Spec => []OneDownlinkStream)
<1> SUFFICES ASSUME OneMeant PROVE Spec => []OneDownlinkStream
    OBVIOUS
<1> DEFINE Inv == ~IgnoreStreamIds => LaneInv
<1>1. Init => Inv
    <2> SUFFICES ASSUME Init PROVE LaneInv
        OBVIOUS
    <2>1. (\A u \in Ues : Relayed(u) = {}) /\ ngapPc = "idle"
        BY DEF Init, Relayed
    <2> QED BY <2>1 DEF LaneInv
<1>2. IInv /\ RouteInv /\ DeliveryInv /\ CurrentInv /\ Inv /\ [Next]_vars => Inv'
    BY LaneStep
<1>3. Inv => OneDownlinkStream
    BY DEF LaneInv, OneDownlinkStream
<1> QED
    BY <1>1, <1>2, <1>3, RoutingInvariance, PTL DEF Spec

-----------------------------------------------------------------------------
(* What a UE without a context has been told. *)

(* The message at place i is the last one for u. *)
Last(u, i) == i \in Relayed(u) /\ \A j \in Relayed(u) : j <= i

(* Message m ends the latest association of u. *)
Ends(u, m) ==
    /\ m.kind = "release"
    /\ OneMeant => \A r \in RanIds : owner[r] = u => r <= m.ran

(* The last thing that u was told, or will be when the MR task comes to it,  *)
(* is that its latest association is released.                             *)
Told(u) == \E i \in Relayed(u) : Last(u, i) /\ Ends(u, Message(u, i))

(* u had an association and has none, or is about to lose it. *)
Leaving(u) ==
    \/ ueContexts[u] = NONE /\ \E r \in RanIds : owner[r] = u
    \/ ngapPc \in {"complete", "remove"} /\ ngapUe = u

(* Whoever is leaving knows it. *)
ToldInv == \A u \in Ues : Leaving(u) => Told(u)

(* The id of a context is the latest that its UE was given. *)
LatestInv ==
    \A u \in Ues : ueContexts[u] # NONE =>
        \A r \in RanIds : owner[r] = u => r <= ueContexts[u].ranUeNgapId

(* Only a UE that is given a context is given an id. *)
LEMMA NewOwner ==
    ASSUME IInv, [Next]_vars, NEW u \in Ues, NEW r \in RanIds, owner'[r] = u, owner[r] # u
    PROVE  /\ MrInitialUeMessage /\ r = ueNgapIdCounter + 1
           /\ ueContexts[u] = NONE /\ ueContexts'[u] # NONE /\ ueContexts'[u].ranUeNgapId = r
<1>1. MrInitialUeMessage
    BY NextInv DEF KeepsIds, NgapRemove
<1> DEFINE v == Head(mrQueue).ue
<1>2. /\ v \in Ues /\ ueContexts[v] = NONE /\ ueContexts' = [ueContexts EXCEPT ![v] = NewContext]
      /\ owner' = [owner EXCEPT ![NextRanId] = v] /\ NextRanId \in RanIds
    BY <1>1, QueueType DEF MrInitialUeMessage, HasContext, MrMessage, IInv, TypeOK, NextRanId, RanIds
<1> HIDE DEF v
<1>3. r = NextRanId /\ u = v
    BY <1>2 DEF IInv, TypeOK
<1>4. ueContexts'[u] = NewContext /\ NewContext.ranUeNgapId = NextRanId
    BY <1>2, <1>3 DEF IInv, TypeOK, NewContext
<1>5. NewContext \in GnbUeContext
    <2>1. IInv'
        BY NextInv
    <2>2. ueContexts'[u] \in GnbUeContext \cup {NONE}
        BY <2>1 DEF IInv, TypeOK
    <2>3. NextStream(nextStream) \in 0 .. (Outbound - 1)
        BY <1>1, <2>1 DEF MrInitialUeMessage, IInv, TypeOK
    <2> QED
        BY <1>2, <2>3 DEF NewContext, GnbUeContext, selectAmfForUe
<1>6. NewContext # NONE
    BY <1>5
<1> QED
    BY <1>1, <1>2, <1>3, <1>4, <1>6 DEF NextRanId

(* Every step keeps it. *)
LEMMA LatestStep == ASSUME IInv, LatestInv, [Next]_vars PROVE LatestInv'
<1> SUFFICES ASSUME NEW u \in Ues, ueContexts'[u] # NONE, NEW r \in RanIds, owner'[r] = u
             PROVE  r <= ueContexts'[u].ranUeNgapId
    BY DEF LatestInv
<1>1. IInv'
    BY NextInv
<1>2. ueContexts'[u].ranUeNgapId \in Nat
    BY <1>1 DEF IInv, TypeOK, GnbUeContext, RanIds
<1>3. CASE owner[r] # u
    BY <1>2, <1>3, NewOwner
<1>4. CASE owner[r] = u /\ ueContexts[u] # NONE
    BY <1>4, ContextStep, <1>2 DEF LatestInv, IInv, TypeOK, RanIds
<1>5. CASE owner[r] = u /\ ueContexts[u] = NONE
    <2>1. ueContexts'[u].ranUeNgapId = ueNgapIdCounter + 1
        BY <1>5, ContextStep
    <2>2. r <= ueNgapIdCounter
        BY <1>5 DEF IInv, TypeOK, OwnerInv, RanIds
    <2> QED
        BY <2>1, <2>2 DEF IInv, TypeOK, RanIds
<1> QED
    BY <1>3, <1>4, <1>5

(* Whatever is not relayed to u leaves the last message for u the last. *)
LEMMA AppendLast ==
    ASSUME IInv, NEW u \in Ues, UNCHANGED delivered, NEW m \in MrMessage,
           mrQueue' = Append(mrQueue, m), m.kind = "uplink" \/ m.ue # u,
           NEW i \in Relayed(u), Last(u, i)
    PROVE  i \in Relayed(u)' /\ Last(u, i)' /\ Message(u, i)' = Message(u, i)
<1>1. mrQueue \in Seq(MrMessage) /\ Len(mrQueue) \in Nat
    BY DEF IInv, TypeOK
<1>2. /\ Len(mrQueue') = Len(mrQueue) + 1
      /\ mrQueue'[Len(mrQueue) + 1] = m
      /\ \A j \in 1..Len(mrQueue) : mrQueue'[j] = mrQueue[j]
    BY <1>1
<1>3. i \in 0..Len(mrQueue)
    BY DEF Relayed
<1>4. i \in Relayed(u)' /\ Message(u, i)' = Message(u, i)
    BY <1>1, <1>2, <1>3 DEF Relayed, Message
<1>5. ASSUME NEW j \in Relayed(u)' PROVE j \in Relayed(u)
    <2>1. j \in 0..(Len(mrQueue) + 1) /\ j # Len(mrQueue) + 1
        BY <1>1, <1>2, <1>5 DEF Relayed
    <2> QED
        BY <1>1, <1>2, <1>5, <2>1 DEF Relayed
<1> QED
    BY <1>4, <1>5 DEF Last

(* Taking the first message of the queue moves the last one for u up, or      *)
(* delivers it.                                                            *)
LEMMA TailLast ==
    ASSUME IInv, NEW u \in Ues, mrQueue # <<>>, mrQueue' = Tail(mrQueue),
           \/ Head(mrQueue).kind = "uplink" /\ UNCHANGED delivered
           \/ /\ Head(mrQueue).kind # "uplink"
              /\ delivered' = [delivered EXCEPT ![Head(mrQueue).ue] = Head(mrQueue)],
           NEW i \in Relayed(u), Last(u, i)
    PROVE  \E k \in Relayed(u)' : Last(u, k)' /\ Message(u, k)' = Message(u, i)
<1>1. /\ mrQueue \in Seq(MrMessage) /\ Len(mrQueue) \in Nat /\ Len(mrQueue) > 0
      /\ delivered \in [Ues -> MrMessage \cup {NONE}]
      /\ Head(mrQueue) = mrQueue[1] /\ mrQueue[1] \in MrMessage
    BY DEF IInv, TypeOK
<1>2. /\ Len(mrQueue') = Len(mrQueue) - 1
      /\ \A j \in 1..(Len(mrQueue) - 1) : mrQueue'[j] = mrQueue[j + 1]
    BY <1>1
<1>3. i \in 0..Len(mrQueue)
    BY DEF Relayed
(* A message that stays in the queue moves up, and so do those before it. *)
<1>4. ASSUME NEW j \in Relayed(u)', j # 0 PROVE j + 1 \in Relayed(u) /\ j \in Nat
    <2>1. j \in 1..(Len(mrQueue) - 1)
        BY <1>1, <1>2, <1>4 DEF Relayed
    <2>2. mrQueue'[j].ue = u /\ mrQueue'[j].kind # "uplink"
        BY <1>4 DEF Relayed
    <2> QED
        BY <1>1, <1>2, <2>1, <2>2 DEF Relayed
<1>5. CASE i > 1
    <2> DEFINE k == i - 1
    <2>1. k \in 1..(Len(mrQueue) - 1) /\ k + 1 = i /\ i # 0 /\ k # 0
        BY <1>1, <1>3, <1>5
    <2> HIDE DEF k
    <2>2. mrQueue'[k] = mrQueue[i] /\ mrQueue[i].ue = u /\ mrQueue[i].kind # "uplink"
        BY <1>2, <2>1 DEF Relayed
    <2>3. k \in Relayed(u)' /\ Message(u, k)' = Message(u, i)
        BY <1>1, <1>2, <2>1, <2>2 DEF Relayed, Message
    <2>4. ASSUME NEW j \in Relayed(u)' PROVE j <= k
        <3>1. CASE j = 0
            BY <2>1, <3>1
        <3>2. CASE j # 0
            BY <1>4, <2>1, <3>2 DEF Last
        <3> QED BY <3>1, <3>2
    <2> QED
        BY <2>3, <2>4 DEF Last
<1>6. CASE i <= 1
    <2>1. ASSUME NEW j \in Relayed(u)' PROVE j = 0
        BY <1>3, <1>4, <1>6 DEF Last
    <2>2. CASE i = 1
        <3>1. Head(mrQueue).ue = u /\ Head(mrQueue).kind # "uplink"
            BY <1>1, <2>2 DEF Relayed
        <3>2. delivered'[u] = mrQueue[1] /\ mrQueue[1] # NONE
            BY <1>1, <3>1
        <3>3. 0 \in Relayed(u)' /\ Message(u, 0)' = Message(u, i)
            BY <1>1, <1>2, <2>2, <3>2 DEF Relayed, Message
        <3> QED
            BY <2>1, <3>3 DEF Last
    <2>3. CASE i = 0
        <3>1. ~(Head(mrQueue).ue = u /\ Head(mrQueue).kind # "uplink")
            <4> SUFFICES ASSUME Head(mrQueue).ue = u, Head(mrQueue).kind # "uplink" PROVE FALSE
                OBVIOUS
            <4>1. 1 \in Relayed(u)
                BY <1>1 DEF Relayed
            <4> QED BY <2>3, <4>1 DEF Last
        <3>2. delivered'[u] = delivered[u]
            BY <1>1, <3>1
        <3>3. 0 \in Relayed(u)' /\ Message(u, 0)' = Message(u, i)
            BY <1>1, <1>2, <2>3, <3>2 DEF Relayed, Message
        <3> QED
            BY <2>1, <3>3 DEF Last
    <2> QED BY <1>3, <1>6, <2>2, <2>3
<1> QED BY <1>3, <1>5, <1>6

(* So the last message for u stays the last, unless the thread handles one    *)
(* for u.                                                                  *)
LEMMA LastStays ==
    ASSUME IInv, [Next]_vars, NEW u \in Ues, ~(ngapPc = "handle" /\ ngapUe = u),
           NEW i \in Relayed(u), Last(u, i)
    PROVE  \E k \in Relayed(u)' : Last(u, k)' /\ Message(u, k)' = Message(u, i)
<1>2. CASE UNCHANGED <<mrQueue, delivered>>
    BY <1>2 DEF Relayed, Message, Last
<1>3. CASE MrInitialUeMessage \/ MrUplinkKnown \/ MrDeliver
    <2>1. /\ mrQueue # <<>> /\ mrQueue' = Tail(mrQueue)
          /\ \/ Head(mrQueue).kind = "uplink" /\ UNCHANGED delivered
             \/ /\ Head(mrQueue).kind # "uplink"
                /\ delivered' = [delivered EXCEPT ![Head(mrQueue).ue] = Head(mrQueue)]
        BY <1>3 DEF MrInitialUeMessage, MrUplinkKnown, MrDeliver
    <2> QED BY <2>1, TailLast
<1>4. CASE \E v \in Ues : UeSends(v)
    <2>1. PICK v \in Ues : UeSends(v)
        BY <1>4
    <2> DEFINE m == [kind |-> "uplink", ue |-> v, ran |-> 0, stream |-> 0]
    <2>2. m \in MrMessage /\ m.kind = "uplink" /\ mrQueue' = Append(mrQueue, m) /\ UNCHANGED delivered
        BY <2>1 DEF MrMessage, UeSends, Enqueue
    <2> HIDE DEF m
    <2> QED BY <2>2, AppendLast
<1>5. CASE \/ receiveDownlinkNasTransport \/ receiveInitialContextSetup
           \/ receiveContextReleaseCommand
    <2>1. ngapPc = "handle" /\ UNCHANGED delivered /\ ngapUe # u
        BY <1>5 DEF receiveDownlinkNasTransport, receiveInitialContextSetup,
                    receiveContextReleaseCommand
    <2>2. ngapMsg.ran \in RanIds /\ ngapMsg.stream \in InStreams /\ ngapUe \in Ues
        BY <2>1, Handling DEF AmfMessage
    <2>3. ASSUME NEW kind \in {"downlink", "release"},
                 Enqueue(kind, ngapUe, ngapMsg.ran, ngapMsg.stream)
          PROVE  \E k \in Relayed(u)' : Last(u, k)' /\ Message(u, k)' = Message(u, i)
        <3> DEFINE m == [kind |-> kind, ue |-> ngapUe, ran |-> ngapMsg.ran, stream |-> ngapMsg.stream]
        <3>1. /\ m \in MrMessage /\ mrQueue' = Append(mrQueue, m) /\ m.ue = ngapUe
            BY <2>2, <2>3 DEF MrMessage, Enqueue
        <3> HIDE DEF m
        <3> QED BY <2>1, <3>1, AppendLast
    <2> QED
        BY <1>2, <1>5, <2>1, <2>3 DEF receiveDownlinkNasTransport, receiveInitialContextSetup,
                    receiveContextReleaseCommand, RelayNas
<1> QED
    BY <1>2, <1>3, <1>4, <1>5 DEF Next, vars, MrStep, MrSendUplink, NgapStep, NgapReceive,
       NgapFound, NgapError, NgapDies, NgapOther, receiveContextModificationRequest,
       receiveRerouteNasRequest, NgapResend, NgapReleaseComplete, NgapRemove

(* The release command that a handler passes on is the last message. *)
LEMMA ReleaseRelayed ==
    ASSUME IInv, LatestInv, OneMeant => CurrentInv, receiveContextReleaseCommand,
           NEW u \in Ues, ngapUe = u
    PROVE  Told(u)'
<1> DEFINE m == [kind |-> "release", ue |-> u, ran |-> ngapMsg.ran, stream |-> ngapMsg.stream]
<1>1. ngapPc = "handle" /\ mrQueue' = Append(mrQueue, m) /\ UNCHANGED <<delivered, owner>>
    BY DEF receiveContextReleaseCommand, Enqueue
<1>2. ngapMsg.ran \in RanIds /\ ngapMsg.stream \in InStreams /\ ueContexts[u] # NONE
    BY <1>1, Handling DEF AmfMessage
<1>3. mrQueue \in Seq(MrMessage) /\ Len(mrQueue) \in Nat /\ m \in MrMessage
    BY <1>2 DEF IInv, TypeOK, MrMessage
<1>4. m.kind = "release" /\ m.ue = u /\ m.ran = ngapMsg.ran
    OBVIOUS
<1>5. OneMeant => \A r \in RanIds : owner'[r] = u => r <= m.ran
    BY <1>1, <1>2, <1>4 DEF CurrentInv, LatestInv
<1> HIDE DEF m
<1>6. PICK n \in Nat : Len(mrQueue') = n /\ mrQueue'[n] = m /\ n # 0
    <2>1. Len(mrQueue') = Len(mrQueue) + 1 /\ mrQueue'[Len(mrQueue) + 1] = m
        BY <1>1, <1>3
    <2> QED BY <1>3, <2>1
<1>7. n \in Relayed(u)' /\ Message(u, n)' = m
    BY <1>1, <1>4, <1>6 DEF Relayed, Message
<1>8. Last(u, n)'
    BY <1>6, <1>7 DEF Relayed, Last
<1>9. Ends(u, Message(u, n))'
    BY <1>4, <1>5, <1>7 DEF Ends, OneMeant
<1> QED
    BY <1>7, <1>8, <1>9 DEF Told

(* What was the last word stays it, as long as no context is created. *)
LEMMA ToldStays ==
    ASSUME IInv, [Next]_vars, NEW u \in Ues, Told(u), ~(ngapPc = "handle" /\ ngapUe = u),
           \A r \in RanIds : owner'[r] = u => owner[r] = u
    PROVE  Told(u)'
<1>1. PICK i \in Relayed(u) : Last(u, i) /\ Ends(u, Message(u, i))
    BY DEF Told
<1>2. PICK k \in Relayed(u)' : Last(u, k)' /\ Message(u, k)' = Message(u, i)
    BY <1>1, LastStays
<1>3. Ends(u, Message(u, k))'
    BY <1>1, <1>2 DEF Ends, OneMeant
<1> QED
    BY <1>2, <1>3 DEF Told

(* Who is leaving after a step was leaving before it, or is just being told. *)
LEMMA LeavingStep ==
    ASSUME IInv, [Next]_vars, NEW u \in Ues, Leaving(u)'
    PROVE  \/ Leaving(u) /\ \A r \in RanIds : owner'[r] = u => owner[r] = u
           \/ receiveContextReleaseCommand /\ ngapUe = u
<1>1. CASE ueContexts'[u] = NONE /\ \E r \in RanIds : owner'[r] = u
    <2>1. \A r \in RanIds : owner'[r] = u => owner[r] = u
        BY <1>1, NewOwner
    <2>2. CASE ueContexts[u] = NONE
        BY <1>1, <2>1, <2>2 DEF Leaving
    <2>3. CASE ueContexts[u] # NONE
        <3>1. NgapRemove
            <4>1. CASE MrInitialUeMessage
                <5>1. /\ Head(mrQueue).ue \in Ues /\ ueContexts[Head(mrQueue).ue] = NONE
                      /\ ueContexts' = [ueContexts EXCEPT ![Head(mrQueue).ue] = NewContext]
                    BY <4>1, QueueType DEF MrInitialUeMessage, HasContext, MrMessage, IInv
                <5> QED BY <1>1, <2>3, <5>1 DEF IInv, TypeOK
            <4>2. CASE KeepsIds
                BY <1>1, <2>3, <4>2 DEF KeepsIds, SameIds
            <4> QED BY <4>1, <4>2, NextInv
        <3>2. ngapPc = "remove" /\ ngapUe = u
            BY <1>1, <2>3, <3>1 DEF NgapRemove, Remove, IInv, TypeOK
        <3> QED
            BY <2>1, <3>2 DEF Leaving
    <2> QED BY <2>2, <2>3
<1>2. CASE ngapPc' \in {"complete", "remove"} /\ ngapUe' = u
    <2>1. \/ receiveContextReleaseCommand /\ ngapUe = u
          \/ ngapPc \in {"complete", "remove"} /\ ngapUe = u
        BY <1>2 DEF Next, vars, UeSends, MrStep, MrInitialUeMessage, MrUplinkKnown, MrDeliver,
       MrSendUplink, NgapStep, NgapReceive, NgapFound, NgapError, NgapDies, NgapOther, NgapDone,
       receiveDownlinkNasTransport, receiveInitialContextSetup,
       receiveContextModificationRequest, receiveRerouteNasRequest, NgapResend,
       receiveContextReleaseCommand, NgapReleaseComplete, NgapRemove
    <2>2. CASE ngapPc \in {"complete", "remove"} /\ ngapUe = u
        <3>1. ueContexts[u] # NONE
            BY <2>2 DEF IInv, TypeOK, HasContext
        <3> QED
            BY <2>2, <3>1, NewOwner DEF Leaving
    <2> QED BY <2>1, <2>2
<1> QED BY <1>1, <1>2 DEF Leaving

(* Every step keeps the invariant. *)
LEMMA ToldStep ==
    ASSUME IInv, LatestInv, OneMeant => CurrentInv, ToldInv, [Next]_vars
    PROVE  ToldInv'
<1> SUFFICES ASSUME NEW u \in Ues, Leaving(u)' PROVE Told(u)'
    BY DEF ToldInv
<1>1. CASE receiveContextReleaseCommand /\ ngapUe = u
    BY <1>1, ReleaseRelayed
<1>2. CASE Leaving(u) /\ \A r \in RanIds : owner'[r] = u => owner[r] = u
    <2>1. ~(ngapPc = "handle" /\ ngapUe = u)
        BY <1>2 DEF Leaving, IInv, TypeOK, HasContext
    <2> QED
        BY <1>2, <2>1, ToldStays DEF ToldInv
<1> QED BY <1>1, <1>2, LeavingStep

(* A UE that lost its context was told so last, and so was the UE whose       *)
(* missing context ended the MR thread.                                     *)
ReleasedWereTold ==
    /\ \A u \in Ues : ueContexts[u] = NONE /\ (\E r \in RanIds : owner[r] = u) => Told(u)
    /\ mrPc = "dead" => Told(mrUe)

(* No context is removed silently: whatever is relayed, released and created   *)
(* in between, the last message relayed to a UE whose context is gone is a     *)
(* release (receiveContextReleaseCommand), that of its latest association if   *)
(* messages mean one; and the MR thread ends only on such a UE.                *)
THEOREM GnbReleasedWereTold == Spec => []ReleasedWereTold
<1>1. Init => ToldInv /\ LatestInv /\ DeathInv
    BY DEF Init, ToldInv, Leaving, LatestInv, DeathInv
<1>2. Spec => [](OneMeant => CurrentInv)
    <2>1. CASE OneMeant
        BY <2>1, RoutingInvariance, PTL
    <2>2. CASE ~OneMeant
        <3>1. OneMeant => CurrentInv
            BY <2>2
        <3> QED BY <3>1, PTL
    <2> QED BY <2>1, <2>2
<1>3. IInv /\ LatestInv /\ (OneMeant => CurrentInv) /\ ToldInv /\ [Next]_vars => ToldInv'
    BY ToldStep
<1>4. IInv /\ LatestInv /\ [Next]_vars => LatestInv'
    BY LatestStep
<1>5. IInv /\ DeathInv /\ [Next]_vars => DeathInv'
    BY DeathStep
<1>6. IInv /\ DeathInv /\ ToldInv => ReleasedWereTold
    BY DEF ReleasedWereTold, ToldInv, Leaving, DeathInv, IInv, TypeOK
<1> QED
    BY <1>1, <1>2, <1>3, <1>4, <1>5, <1>6, Invariance, PTL DEF Spec

(* The MR thread ends only on a UE that was released while its uplink message *)
(* was sent, and was told so (the get after containsKey); the NGAP thread ends *)
(* only while a UE waits for the first answer to its InitialUEMessage: one     *)
(* that came after the UE of the message being handled (the unsynchronised     *)
(* iterations of findUeByAmfId and findUeByRanId), or any if the message is a  *)
(* release command by AMF UE NGAP ID alone (the unboxed null).               *)
THEOREM GnbDeathsExplained == Spec => []ThreadDeathsExplained
<1>1. Init => HeardInv /\ PutInv
    BY DEF Init, HeardInv, PutInv
<1>2. IInv /\ HeardInv /\ [Next]_vars => HeardInv'
    BY HeardStep
<1>3. IInv /\ HeardInv /\ PutInv /\ [Next]_vars => PutInv'
    BY PutStep
<1>4. ASSUME NEW u \in Ues, Told(u) PROVE ReleasedLast(u)
    BY <1>4 DEF Told, Last, Ends, ReleasedLast
<1>5. Spec => [](mrPc = "dead" => ueContexts[mrUe] = NONE /\ Told(mrUe))
    <2>1. Init => DeathInv
        BY DEF Init, DeathInv
    <2>2. IInv /\ DeathInv /\ [Next]_vars => DeathInv'
        BY DeathStep
    <2>3. DeathInv /\ ReleasedWereTold => (mrPc = "dead" => ueContexts[mrUe] = NONE /\ Told(mrUe))
        BY DEF DeathInv, ReleasedWereTold
    <2> QED
        BY <2>1, <2>2, <2>3, Invariance, GnbReleasedWereTold, PTL DEF Spec
<1>6. /\ IInv /\ PutInv
      /\ mrPc = "dead" => ueContexts[mrUe] = NONE /\ Told(mrUe)
      => ThreadDeathsExplained
    <2> SUFFICES ASSUME IInv, PutInv, mrPc = "dead" => ueContexts[mrUe] = NONE /\ Told(mrUe)
                 PROVE  ThreadDeathsExplained
        OBVIOUS
    <2>1. mrPc = "dead" => ueContexts[mrUe] = NONE /\ ReleasedLast(mrUe)
        BY <1>4 DEF IInv, TypeOK
    <2>2. ngapPc = "dead" =>
              \E u \in Known : /\ Unanswered(u)
                               /\ \/ ueContexts[u].ranUeNgapId > ngapMsg.ran
                                  \/ ngapMsg.kind = "ReleaseById"
        BY DEF PutInv, Newer
    <2> QED
        BY <2>1, <2>2 DEF ThreadDeathsExplained
<1> QED
    BY <1>1, <1>2, <1>3, <1>5, <1>6, Invariance, PTL DEF Spec
=============================================================================
