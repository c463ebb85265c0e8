--------------------------- MODULE UserPlaneProofs ---------------------------
(***************************************************************************)
(* Proofs about UserPlane, for any sessions and any number of packets.     *)
(***************************************************************************)
EXTENDS UserPlane, WellFoundedInduction, TLAPS

-----------------------------------------------------------------------------
(* Queues. *)

Elems(q) == {q[i] : i \in 1..Len(q)}

LEMMA ElemsAppend ==
    ASSUME NEW S, NEW q \in Seq(S), NEW x
    PROVE  Elems(Append(q, x)) = Elems(q) \cup {x}
<1>1. Len(Append(q, x)) = Len(q) + 1 /\ Append(q, x)[Len(q) + 1] = x /\ Len(q) \in Nat
  OBVIOUS
<1>2. \A i \in 1..Len(q) : Append(q, x)[i] = q[i]
  OBVIOUS
<1> QED
  BY <1>1, <1>2 DEF Elems

LEMMA ElemsTail ==
    ASSUME NEW S, NEW q \in Seq(S), q # <<>>
    PROVE  Elems(q) = {Head(q)} \cup Elems(Tail(q))
<1>1. Len(Tail(q)) = Len(q) - 1 /\ Len(q) \in Nat \ {0} /\ Head(q) = q[1]
  OBVIOUS
<1>2. \A i \in 1..Len(Tail(q)) : Tail(q)[i] = q[i + 1]
  OBVIOUS
<1>3. ASSUME NEW i \in 1..Len(q) PROVE q[i] \in {Head(q)} \cup Elems(Tail(q))
  <2>1. CASE i = 1
    BY <1>1, <2>1
  <2>2. CASE i # 1
    <3>1. i - 1 \in 1..Len(Tail(q)) /\ (i - 1) + 1 = i
      BY <1>1, <2>2
    <3>2. Tail(q)[i - 1] = q[i]
      BY <1>2, <3>1
    <3> QED
      BY <3>1, <3>2 DEF Elems
  <2> QED
    BY <2>1, <2>2
<1>4. ASSUME NEW i \in 1..Len(Tail(q)) PROVE Tail(q)[i] \in Elems(q)
  <2>1. i + 1 \in 1..Len(q) /\ Tail(q)[i] = q[i + 1]
    BY <1>1, <1>2
  <2> QED
    BY <2>1 DEF Elems
<1>5. Head(q) \in Elems(q)
  <2>1. 1 \in 1..Len(q)
    BY <1>1
  <2> QED
    BY <1>1, <2>1 DEF Elems
<1>6. Elems(q) \subseteq {Head(q)} \cup Elems(Tail(q))
  BY <1>3 DEF Elems
<1>7. Elems(Tail(q)) \subseteq Elems(q)
  BY <1>4 DEF Elems
<1> QED
  BY <1>5, <1>6, <1>7

LEMMA ElemsType ==
    ASSUME NEW S, NEW q \in Seq(S)
    PROVE  Elems(q) \subseteq S
  BY DEF Elems

(* A tunnel serves a packet. *)
Serves(s, m) ==
    \/ m.type = "uplink" /\ s.ue = m.ue /\ s.psi = m.psi
    \/ m.type = "gpdu" /\ s.teid = m.teid

(* Every packet in the queue q of the GTP task finds a tunnel when its turn  *)
(* comes, with the tunnels T there now.                                      *)
Served(q, T) ==
    \A i \in 1..Len(q) :
        \/ q[i].type = "create"
        \/ \E s \in Sessions : /\ Serves(s, q[i])
                               /\ s \in T \/ \E j \in 1..(i - 1) : q[j] = Create(s)

LEMMA ServedAppend ==
    ASSUME NEW S, NEW q \in Seq(S), NEW T, Served(q, T), NEW x,
           \/ x.type = "create"
           \/ \E s \in Sessions : Serves(s, x) /\ (s \in T \/ Create(s) \in Elems(q))
    PROVE  Served(Append(q, x), T)
<1> DEFINE r == Append(q, x)
<1>1. Len(r) = Len(q) + 1 /\ r[Len(q) + 1] = x /\ Len(q) \in Nat
  OBVIOUS
<1>2. \A i \in 1..Len(q) : r[i] = q[i]
  OBVIOUS
<1> HIDE DEF r
<1>3. ASSUME NEW i \in 1..Len(q)
      PROVE  \/ r[i].type = "create"
             \/ \E s \in Sessions : /\ Serves(s, r[i])
                                    /\ s \in T \/ \E j \in 1..(i - 1) : r[j] = Create(s)
  <2>1. r[i] = q[i] /\ \A j \in 1..(i - 1) : r[j] = q[j]
    BY <1>1, <1>2
  <2> QED
    BY <2>1 DEF Served
<1>4. \/ x.type = "create"
      \/ \E s \in Sessions : /\ Serves(s, x)
                             /\ s \in T \/ \E j \in 1..Len(q) : r[j] = Create(s)
  BY <1>2 DEF Elems
<1>5. ASSUME NEW i \in 1..Len(r)
      PROVE  \/ r[i].type = "create"
             \/ \E s \in Sessions : /\ Serves(s, r[i])
                                    /\ s \in T \/ \E j \in 1..(i - 1) : r[j] = Create(s)
  <2>1. CASE i \in 1..Len(q)
    BY <1>3, <2>1
  <2>2. CASE i = Len(q) + 1
    <3>1. i - 1 = Len(q) /\ r[i] = x
      BY <1>1, <2>2
    <3> QED
      BY <1>4, <3>1
  <2> QED
    BY <1>1, <2>1, <2>2
<1> QED
  BY <1>5 DEF Served, r

LEMMA ServedTail ==
    ASSUME NEW S, NEW q \in Seq(S), q # <<>>, NEW T, NEW U, Served(q, T), T \subseteq U,
           \A s \in Sessions : Head(q) = Create(s) => s \in U
    PROVE  Served(Tail(q), U)
<1> DEFINE r == Tail(q)
<1>1. Len(r) = Len(q) - 1 /\ Len(q) \in Nat \ {0} /\ Head(q) = q[1]
  OBVIOUS
<1>2. \A i \in 1..Len(r) : r[i] = q[i + 1]
  OBVIOUS
<1> HIDE DEF r
<1>3. ASSUME NEW i \in 1..Len(r), r[i].type # "create"
      PROVE  \E s \in Sessions : /\ Serves(s, r[i])
                                 /\ s \in U \/ \E j \in 1..(i - 1) : r[j] = Create(s)
  <2>1. i + 1 \in 1..Len(q) /\ r[i] = q[i + 1] /\ (i + 1) - 1 = i
    BY <1>1, <1>2
  <2>2. PICK s \in Sessions : /\ Serves(s, q[i + 1])
                              /\ s \in T \/ \E j \in 1..i : q[j] = Create(s)
    <3>1. \E s \in Sessions : /\ Serves(s, q[i + 1])
                              /\ s \in T \/ \E j \in 1..((i + 1) - 1) : q[j] = Create(s)
      BY <1>3, <2>1 DEF Served
    <3> QED
      BY <2>1, <3>1
  <2>3. s \in U \/ \E j \in 1..(i - 1) : r[j] = Create(s)
    <3>1. CASE s \in T
      BY <3>1
    <3>2. ASSUME NEW j \in 1..i, q[j] = Create(s)
          PROVE  s \in U \/ \E k \in 1..(i - 1) : r[k] = Create(s)
      <4>1. CASE j = 1
        BY <1>1, <3>2, <4>1
      <4>2. CASE j # 1
        <5>1. j - 1 \in 1..(i - 1) /\ j - 1 \in 1..Len(r) /\ (j - 1) + 1 = j
          BY <1>1, <4>2
        <5>2. r[j - 1] = Create(s)
          BY <1>2, <3>2, <5>1
        <5> QED
          BY <5>1, <5>2
      <4> QED
        BY <4>1, <4>2
    <3> QED
      BY <2>2, <3>1, <3>2
  <2> QED
    BY <2>1, <2>2, <2>3
<1> QED
  BY <1>3 DEF Served, r

(* A nonempty set of places in a list has a first. *)
LEMMA FirstPlace ==
    ASSUME NEW found \in SUBSET Nat, found # {}
    PROVE  (CHOOSE i \in found : \A j \in found : i <= j) \in found
<1> DEFINE R == OpToRel(<, Nat)
<1>1. IsWellFoundedOn(R, Nat)
  BY NatLessThanWellFounded, Zenon
<1>2. \A x, y \in Nat : x < y => <<x, y>> \in R
  BY Zenon DEF OpToRel
<1> HIDE DEF R
<1>3. \E x \in found : \A y \in found : ~(<<y, x>> \in R)
  BY <1>1, WFMin
<1>4. \E i \in found : \A j \in found : i <= j
  <2>1. PICK x \in found : \A y \in found : ~(<<y, x>> \in R)
    BY <1>3
  <2>2. \A y \in found : ~(y < x)
    BY <1>2, <2>1
  <2> QED
    BY <2>2
<1> QED
  BY <1>4

LEMMA FindFirst ==
    ASSUME pduSessions \in Seq(Sessions), NEW found \in SUBSET (DOMAIN pduSessions)
    PROVE  /\ found = {} => findFirst(found) = NONE
           /\ found # {} => \E i \in found : findFirst(found) = pduSessions[i]
<1>1. DOMAIN pduSessions \subseteq Nat
  OBVIOUS
<1> QED
  BY <1>1, FirstPlace DEF findFirst

(* The tunnel taken for an uplink packet is one that serves it; there is one *)
(* if the packet's session has a tunnel.                                     *)
LEMMA UplinkTunnel ==
    ASSUME pduSessions \in Seq(Sessions), NEW m
    PROVE  /\ uplinkTunnel(m) \in Sessions \cup {NONE}
           /\ uplinkTunnel(m) # NONE => uplinkTunnel(m).ue = m.ue /\ uplinkTunnel(m).psi = m.psi
           /\ \A s \in Elems(pduSessions) : s.ue = m.ue /\ s.psi = m.psi => uplinkTunnel(m) # NONE
<1> DEFINE found == {i \in DOMAIN pduSessions : pduSessions[i].ue = m.ue /\ pduSessions[i].psi = m.psi}
<1>1. uplinkTunnel(m) = findFirst(found)
  BY DEF uplinkTunnel
<1>2. \A i \in DOMAIN pduSessions : pduSessions[i] \in Sessions
  OBVIOUS
<1>3. CASE found = {}
  <2>1. uplinkTunnel(m) = NONE
    BY <1>1, <1>3, FindFirst
  <2>2. \A s \in Elems(pduSessions) : ~(s.ue = m.ue /\ s.psi = m.psi)
    BY <1>3 DEF Elems
  <2> QED
    BY <2>1, <2>2
<1>4. CASE found # {}
  <2>1. PICK i \in found : uplinkTunnel(m) = pduSessions[i]
    <3> HIDE DEF found
    <3>1. found \in SUBSET (DOMAIN pduSessions)
      BY DEF found
    <3> QED
      BY <1>1, <1>4, <3>1, FindFirst
  <2>2. uplinkTunnel(m) \in Sessions /\ uplinkTunnel(m) # NONE
    BY <1>2, <2>1, NoneAssumption
  <2> QED
    BY <2>1, <2>2
<1> QED
  BY <1>3, <1>4

LEMMA DownlinkTunnel ==
    ASSUME pduSessions \in Seq(Sessions), NEW m
    PROVE  /\ downlinkTunnel(m) \in Sessions \cup {NONE}
           /\ downlinkTunnel(m) # NONE => downlinkTunnel(m).teid = m.teid
           /\ \A s \in Elems(pduSessions) : s.teid = m.teid => downlinkTunnel(m) # NONE
<1> DEFINE found == {i \in DOMAIN pduSessions : pduSessions[i].teid = m.teid}
<1>1. downlinkTunnel(m) = findFirst(found)
  BY DEF downlinkTunnel
<1>2. \A i \in DOMAIN pduSessions : pduSessions[i] \in Sessions
  OBVIOUS
<1>3. CASE found = {}
  <2>1. downlinkTunnel(m) = NONE
    BY <1>1, <1>3, FindFirst
  <2>2. \A s \in Elems(pduSessions) : ~(s.teid = m.teid)
    BY <1>3 DEF Elems
  <2> QED
    BY <2>1, <2>2
<1>4. CASE found # {}
  <2>1. PICK i \in found : downlinkTunnel(m) = pduSessions[i]
    <3> HIDE DEF found
    <3>1. found \in SUBSET (DOMAIN pduSessions)
      BY DEF found
    <3> QED
      BY <1>1, <1>4, <3>1, FindFirst
  <2>2. downlinkTunnel(m) \in Sessions /\ downlinkTunnel(m) # NONE
    BY <1>2, <2>1, NoneAssumption
  <2> QED
    BY <2>1, <2>2
<1> QED
  BY <1>3, <1>4

-----------------------------------------------------------------------------
(* Types. *)

GtpMessages == Creates \cup Uplinks \cup Gpdus
MrMessages == Accepts \cup Uplinks \cup Downlinks
TbMessages == {Establishment(s) : s \in Sessions} \cup Downlinks

LEMMA QueueTypes ==
    ASSUME TypeOK
    PROVE  /\ gtp \in Seq(GtpMessages) /\ gnbMr \in Seq(MrMessages) /\ tb \in Seq(TbMessages)
           /\ ueMr \in [Ues -> Seq(MrMessages)] /\ nas \in [Ues -> Seq(Accepts)]
           /\ pduSessions \in Seq(Sessions)
  BY DEF TypeOK, GtpMessages, MrMessages, TbMessages

LEMMA SessionUe == \A s \in Sessions : s.ue \in Ues /\ s.psi \in Psis
  BY DEF Ues, Psis

LEMMA UplinkType ==
    ASSUME NEW s \in Sessions, NEW of \in Sessions, NEW n \in 1..MaxData
    PROVE  Uplink(s, of, n) \in Uplinks
  BY SessionUe DEF Uplink, Uplinks

LEMMA MessageTypes ==
    /\ \A m \in Creates : m.type = "create" /\ m.session \in Sessions /\ m = Create(m.session)
    /\ \A m \in Accepts : m.type = "accept" /\ m.session \in Sessions /\ m = Accept(m.session)
    /\ \A m \in Uplinks : m.type = "uplink" /\ m.ue \in Ues /\ m.psi \in Psis /\ m.of \in Sessions
                          /\ m.id \in 1..MaxData
    /\ \A m \in Gpdus : m.type = "gpdu" /\ m.of \in Sessions /\ m.teid = m.of.teid
                        /\ m.id \in 1..MaxData
    /\ \A m \in Downlinks : m.type = "downlink" /\ m.ue \in Ues /\ m.of \in Sessions
                            /\ m.id \in 1..MaxData
<1>1. \A m \in Creates : m.type = "create" /\ m.session \in Sessions /\ m = Create(m.session)
  BY DEF Creates, Create
<1>2. \A m \in Accepts : m.type = "accept" /\ m.session \in Sessions /\ m = Accept(m.session)
  BY DEF Accepts, Accept
<1>3. \A m \in Uplinks : m.type = "uplink" /\ m.ue \in Ues /\ m.psi \in Psis /\ m.of \in Sessions
                         /\ m.id \in 1..MaxData
  BY DEF Uplinks
<1>4. \A m \in Gpdus : m.type = "gpdu" /\ m.of \in Sessions /\ m.teid = m.of.teid
                       /\ m.id \in 1..MaxData
  BY DEF Gpdus, Gpdu
<1>5. \A m \in Downlinks : m.type = "downlink" /\ m.ue \in Ues /\ m.of \in Sessions
                           /\ m.id \in 1..MaxData
  BY DEF Downlinks
<1> QED
  BY <1>1, <1>2, <1>3, <1>4, <1>5

(* Which kind of message is at the head of a queue. *)
LEMMA GtpHead ==
    ASSUME TypeOK, gtp # <<>>
    PROVE  /\ Head(gtp) \in GtpMessages
           /\ Head(gtp).type = "create" => Head(gtp) \in Creates
           /\ Head(gtp).type = "uplink" => Head(gtp) \in Uplinks
           /\ Head(gtp).type = "gpdu" => Head(gtp) \in Gpdus
<1>1. Head(gtp) \in GtpMessages
  BY QueueTypes
<1> QED
  BY <1>1, MessageTypes DEF GtpMessages

LEMMA MrKinds ==
    ASSUME NEW m \in MrMessages
    PROVE  /\ m.type = "accept" => m \in Accepts
           /\ m.type = "uplink" => m \in Uplinks
           /\ m.type = "downlink" => m \in Downlinks
           /\ m.type \in {"accept", "uplink", "downlink"}
  BY MessageTypes DEF MrMessages

LEMMA TbKinds ==
    ASSUME NEW m \in TbMessages
    PROVE  /\ m.type = "establishment" => m.session \in Sessions /\ m = Establishment(m.session)
           /\ m.type = "downlink" => m \in Downlinks
<1>1. \A s \in Sessions : Establishment(s).type = "establishment" /\ Establishment(s).session = s
  BY DEF Establishment
<1> QED
  BY <1>1, MessageTypes DEF TbMessages

Items == [session : Sessions, ok : BOOLEAN]

LEMMA SeqOf ==
    ASSUME NEW S, NEW n \in Nat, NEW q \in [1..n -> S]
    PROVE  q \in Seq(S)
  OBVIOUS

LEMMA HeadTail ==
    ASSUME NEW S, NEW q \in Seq(S), q # <<>>
    PROVE  Head(q) \in S /\ Tail(q) \in Seq(S)
  OBVIOUS

LEMMA Enqueue ==
    ASSUME NEW S, NEW f \in [Ues -> Seq(S)], NEW u \in Ues, NEW x \in S
    PROVE  [f EXCEPT ![u] = Append(@, x)] \in [Ues -> Seq(S)]
<1>1. Append(f[u], x) \in Seq(S)
  OBVIOUS
<1> QED
  BY <1>1

LEMMA NextTypeOK == TypeOK /\ [Next]_vars => TypeOK'
<1> SUFFICES ASSUME TypeOK, [Next]_vars PROVE TypeOK'
  OBVIOUS
<1> USE QueueTypes
<1>1. ASSUME NEW items \in ItemLists, AmfRequests(items) PROVE TypeOK'
  <2>1. PICK n \in 1..MaxItems : items \in [1..n -> Items]
    BY <1>1 DEF ItemLists, Items
  <2>2. n \in Nat
    BY BoundsAssumption
  <2>3. items \in Seq(Items)
    BY <2>1, <2>2, SeqOf
  <2>4. {items[i].session : i \in DOMAIN items} \subseteq Sessions
    BY <2>1 DEF Items
  <2> QED
    BY <1>1, <2>3, <2>4 DEF Items, AmfRequests, TypeOK, tableVars, sinkVars
<1>2. CASE refuseItem
  BY <1>2 DEF refuseItem, TypeOK, netVars, tableVars, sinkVars
<1>3. CASE pduResourceSetup
  <2>1. Head(request).session \in Sessions
    <3>1. request \in Seq(Items) /\ request # <<>>
      BY <1>3 DEF pduResourceSetup, TypeOK, Items
    <3>2. Head(request) \in Items
      BY <3>1, HeadTail
    <3> QED
      BY <3>2 DEF Items
  <2>2. gtp' \in Seq(Creates \cup Uplinks \cup Gpdus)
    BY <1>3, <2>1 DEF pduResourceSetup, Creates, GtpMessages
  <2> QED
    BY <1>3, <2>2 DEF pduResourceSetup, TypeOK, netVars, tableVars, sinkVars
<1>4. CASE sendAccept
  <2>1. Head(request).session \in Sessions /\ Tail(request) \in Seq([session : Sessions, ok : BOOLEAN])
    <3>1. request \in Seq(Items) /\ request # <<>>
      BY <1>4 DEF sendAccept, TypeOK, Items
    <3>2. Head(request) \in Items /\ Tail(request) \in Seq(Items)
      BY <3>1, HeadTail
    <3> QED
      BY <3>2 DEF Items
  <2>2. gnbMr' \in Seq(Accepts \cup Uplinks \cup Downlinks)
    BY <1>4, <2>1 DEF sendAccept, Accepts, MrMessages
  <2> QED
    BY <1>4, <2>1, <2>2 DEF sendAccept, TypeOK, netVars, tableVars, sinkVars
<1>5. CASE sendResponse
  BY <1>5 DEF sendResponse, TypeOK, tableVars, sinkVars
<1>6. CASE handleTunnelCreate
  <2>1. Head(gtp).session \in Sessions /\ Tail(gtp) \in Seq(GtpMessages)
    BY <1>6, GtpHead, MessageTypes DEF handleTunnelCreate, Is
  <2>2. pduSessions' \in Seq(Sessions)
    BY <1>6, <2>1 DEF handleTunnelCreate
  <2> QED
    BY <1>6, <2>1, <2>2 DEF handleTunnelCreate, TypeOK, GtpMessages, setupVars, netVars, sinkVars
<1>7. CASE gtpHandleUplinkData
  <2>1. gtp' \in Seq(GtpMessages)
    BY <1>7 DEF gtpHandleUplinkData, Is
  <2> QED
    BY <1>7, <2>1 DEF gtpHandleUplinkData, TypeOK, GtpMessages, setupVars, netVars, tableVars
<1>8. CASE handleDownlinkGtp
  <2> DEFINE m == Head(gtp)
             tunnel == downlinkTunnel(m)
  <2>1. gtp' \in Seq(GtpMessages) /\ m \in Gpdus
    BY <1>8, GtpHead DEF handleDownlinkGtp, Is
  <2>2. gnbMr' \in Seq(MrMessages)
    <3>1. CASE tunnel = NONE
      BY <1>8, <3>1 DEF handleDownlinkGtp
    <3>2. CASE tunnel # NONE
      <4>1. tunnel.ue \in Ues
        BY <3>2, DownlinkTunnel, SessionUe
      <4>2. Downlink(tunnel.ue, m.of, m.id) \in MrMessages
        BY <2>1, <4>1, MessageTypes DEF Downlink, Downlinks, MrMessages
      <4>3. gnbMr' = Append(gnbMr, Downlink(tunnel.ue, m.of, m.id))
        BY <1>8, <3>2 DEF handleDownlinkGtp
      <4> QED
        BY <4>2, <4>3
    <3> QED
      BY <3>1, <3>2
  <2> QED
    BY <1>8, <2>1, <2>2
       DEF handleDownlinkGtp, TypeOK, GtpMessages, MrMessages, setupVars, netVars, tableVars
<1>9. CASE handleSessionEstablishment
  <2>1. Head(tb).session \in Sessions /\ tb' \in Seq(TbMessages)
    BY <1>9, TbKinds DEF handleSessionEstablishment, Is
  <2> QED
    BY <1>9, <2>1 DEF handleSessionEstablishment, TypeOK, TbMessages, setupVars, netVars, sinkVars
<1>10. CASE RouteEntered
  <2>1. putting \in Sessions
    BY <1>10 DEF RouteEntered, TypeOK
  <2>2. \A k \in DOMAIN ipRoute' : ipRoute'[k] \in Sessions
    BY <1>10, <2>1 DEF RouteEntered, TypeOK
  <2> QED
    BY <1>10, <2>2 DEF RouteEntered, TypeOK, setupVars, netVars, sinkVars
<1>11. CASE handleDownlinkData
  <2>1. tb' \in Seq(TbMessages)
    BY <1>11 DEF handleDownlinkData, Is
  <2> QED
    BY <1>11, <2>1 DEF handleDownlinkData, TypeOK, TbMessages, setupVars, netVars, tableVars
<1>12. CASE gnbMrMain
  <2> DEFINE m == Head(gnbMr)
  <2>1. m \in MrMessages /\ gnbMr' \in Seq(MrMessages)
    <3>1. gnbMr # <<>> /\ gnbMr' = Tail(gnbMr)
      BY <1>12 DEF gnbMrMain
    <3> QED
      BY <3>1, HeadTail
  <2>2. ASSUME m.type = "accept"
        PROVE  gtp' \in Seq(GtpMessages) /\ tb' \in Seq(TbMessages) /\ ueMr' \in [Ues -> Seq(MrMessages)]
    <3>1. m.session.ue \in Ues
      BY <2>1, <2>2, MrKinds, MessageTypes, SessionUe
    <3>2. ueMr' = [ueMr EXCEPT ![m.session.ue] = Append(@, m)] /\ gtp' = gtp /\ tb' = tb
      BY <1>12, <2>2 DEF gnbMrMain
    <3>3. ueMr' \in [Ues -> Seq(MrMessages)]
      BY <2>1, <3>1, <3>2, Enqueue
    <3> QED
      BY <3>2, <3>3
  <2>3. ASSUME m.type = "uplink"
        PROVE  gtp' \in Seq(GtpMessages) /\ tb' \in Seq(TbMessages) /\ ueMr' \in [Ues -> Seq(MrMessages)]
    <3>1. ueMr' = ueMr /\ gtp' = Append(gtp, m) /\ tb' = tb
      BY <1>12, <2>3 DEF gnbMrMain
    <3>2. m \in GtpMessages
      BY <2>1, <2>3, MrKinds DEF GtpMessages
    <3> QED
      BY <3>1, <3>2
  <2>4. ASSUME m.type = "downlink"
        PROVE  gtp' \in Seq(GtpMessages) /\ tb' \in Seq(TbMessages) /\ ueMr' \in [Ues -> Seq(MrMessages)]
    <3>1. m.ue \in Ues /\ m \in TbMessages
      BY <2>1, <2>4, MrKinds, MessageTypes DEF TbMessages
    <3>2. ueMr' = [ueMr EXCEPT ![m.ue] = Append(@, m)] /\ gtp' = gtp /\ tb' = Append(tb, m)
      BY <1>12, <2>4 DEF gnbMrMain
    <3>3. ueMr' \in [Ues -> Seq(MrMessages)]
      BY <2>1, <3>1, <3>2, Enqueue
    <3> QED
      BY <3>1, <3>2, <3>3
  <2>5. gtp' \in Seq(GtpMessages) /\ tb' \in Seq(TbMessages) /\ ueMr' \in [Ues -> Seq(MrMessages)]
    BY <2>1, <2>2, <2>3, <2>4, MrKinds
  <2> QED
    BY <1>12, <2>1, <2>5
       DEF gnbMrMain, TypeOK, GtpMessages, MrMessages, TbMessages, setupVars, netVars, tableVars,
           sinkVars
<1>13. ASSUME NEW u \in Ues, ueMrMain(u) PROVE TypeOK'
  <2> DEFINE m == Head(ueMr[u])
  <2>1. m \in MrMessages /\ ueMr' \in [Ues -> Seq(MrMessages)]
    BY <1>13 DEF ueMrMain
  <2>2. gnbMr' = gnbMr \/ gnbMr' = Append(gnbMr, m)
    BY <1>13 DEF ueMrMain
  <2>3. gnbMr' \in Seq(MrMessages)
    <3>1. gnbMr \in Seq(MrMessages) /\ m \in MrMessages
      BY <2>1
    <3> HIDE DEF m
    <3>2. Append(gnbMr, m) \in Seq(MrMessages)
      BY <3>1
    <3> QED
      BY <2>2, <3>1, <3>2
  <2>4. nas' \in [Ues -> Seq(Accepts)]
    <3>1. CASE m.type = "accept"
      <4>1. m \in Accepts /\ nas' = [nas EXCEPT ![u] = Append(@, m)]
        BY <1>13, <2>1, <3>1, MrKinds DEF ueMrMain
      <4> QED
        BY <4>1, Enqueue
    <3>2. CASE m.type # "accept"
      BY <1>13, <3>2 DEF ueMrMain
    <3> QED
      BY <3>1, <3>2
  <2> QED
    BY <1>13, <2>1, <2>3, <2>4 DEF ueMrMain, TypeOK, MrMessages, setupVars, netVars, tableVars
<1>14. ASSUME NEW u \in Ues, receiveEstablishmentAccept(u) PROVE TypeOK'
  <2>1. Head(nas[u]) \in Accepts /\ nas' \in [Ues -> Seq(Accepts)]
    BY <1>14 DEF receiveEstablishmentAccept
  <2>2. Head(nas[u]).session \in Sessions
    BY <2>1, MessageTypes
  <2>3. tb' \in Seq(TbMessages)
    BY <1>14, <2>2 DEF receiveEstablishmentAccept, TbMessages
  <2> QED
    BY <1>14, <2>1, <2>2, <2>3
       DEF receiveEstablishmentAccept, TypeOK, TbMessages, setupVars, netVars, tableVars, sinkVars
<1>15. ASSUME NEW of \in Sessions, handleUplinkData(of) PROVE TypeOK'
  <2>1. data' \in 0..MaxData /\ data + 1 \in 1..MaxData
    BY <1>15, BoundsAssumption DEF handleUplinkData, TypeOK
  <2>2. ueMr' \in [Ues -> Seq(MrMessages)]
    <3>1. PICK target \in Lookups(addr(of.address)) :
             IF target = NONE THEN UNCHANGED ueMr
             ELSE ueMr' = [ueMr EXCEPT ![target.ue] = Append(@, Uplink(target, of, data + 1))]
      BY <1>15 DEF handleUplinkData
    <3>2. target = NONE \/ target \in Sessions
      BY <3>1 DEF Lookups, TypeOK
    <3>3. CASE target = NONE
      BY <3>1, <3>3
    <3>4. CASE target \in Sessions /\ target # NONE
      <4>1. target.ue \in Ues /\ Uplink(target, of, data + 1) \in MrMessages
        BY <2>1, <3>4, SessionUe, UplinkType DEF MrMessages
      <4>2. ueMr' = [ueMr EXCEPT ![target.ue] = Append(@, Uplink(target, of, data + 1))]
        BY <3>1, <3>4
      <4> QED
        BY <4>1, <4>2, Enqueue
    <3> QED
      BY <3>2, <3>3, <3>4
  <2> QED
    BY <1>15, <2>1, <2>2 DEF handleUplinkData, TypeOK, MrMessages, setupVars, netVars, tableVars, sinkVars
<1>16. ASSUME NEW s \in Sessions, AppSends(s) PROVE TypeOK'
  <2>1. data' \in 0..MaxData /\ data + 1 \in 1..MaxData
    BY <1>16, BoundsAssumption DEF AppSends, TypeOK
  <2>2. ueMr' \in [Ues -> Seq(MrMessages)]
    <3>1. s.ue \in Ues /\ Uplink(s, s, data + 1) \in MrMessages
      BY <2>1, SessionUe, UplinkType DEF MrMessages
    <3> QED
      BY <1>16, <3>1 DEF AppSends
  <2> QED
    BY <1>16, <2>1, <2>2 DEF AppSends, TypeOK, MrMessages, setupVars, netVars, tableVars, sinkVars
<1>17. ASSUME NEW s \in Sessions, UpfSends(s) PROVE TypeOK'
  <2>1. data' \in 0..MaxData /\ data + 1 \in 1..MaxData
    BY <1>17, BoundsAssumption DEF UpfSends, TypeOK
  <2>2. gtp' \in Seq(GtpMessages)
    <3>1. Gpdu(s.teid, s, data + 1) \in GtpMessages
      BY <2>1 DEF Gpdus, GtpMessages
    <3> QED
      BY <1>17, <3>1 DEF UpfSends
  <2> QED
    BY <1>17, <2>1, <2>2 DEF UpfSends, TypeOK, GtpMessages, setupVars, netVars, tableVars, sinkVars
<1>18. CASE UNCHANGED vars
  BY <1>18 DEF vars, TypeOK, setupVars, netVars, tableVars, sinkVars
<1> QED
  BY <1>1, <1>2, <1>3, <1>4, <1>5, <1>6, <1>7, <1>8, <1>9, <1>10, <1>11, <1>12, <1>13, <1>14,
     <1>15, <1>16, <1>17, <1>18 DEF Next, Ngap, Gtp, Bridge

(* The state keeps its types, for any sessions and any number of packets.    *)
THEOREM TypeCorrect == Spec => []TypeOK
<1>1. Init => TypeOK
  <2> SUFFICES ASSUME Init PROVE TypeOK
    OBVIOUS
  <2>1. DOMAIN ipRoute = {}
    BY DEF Init
  <2>2. data \in 0..MaxData
    BY BoundsAssumption DEF Init
  <2>3. /\ request \in Seq([session : Sessions, ok : BOOLEAN]) /\ pduSessions \in Seq(Sessions)
        /\ gtp \in Seq(Creates \cup Uplinks \cup Gpdus)
        /\ gnbMr \in Seq(Accepts \cup Uplinks \cup Downlinks)
        /\ tb \in Seq({Establishment(s) : s \in Sessions} \cup Downlinks)
    BY DEF Init
  <2>4. /\ ueMr \in [Ues -> Seq(Accepts \cup Uplinks \cup Downlinks)]
        /\ nas \in [Ues -> Seq(Accepts)]
    BY DEF Init
  <2> QED
    BY <2>1, <2>2, <2>3, <2>4 DEF Init, TypeOK
<1> QED
  BY <1>1, NextTypeOK, PTL DEF Spec

-----------------------------------------------------------------------------
(* Tunnels come before packets. *)

(* Sessions that have a tunnel, or have one when the GTP task gets to it. *)
Known == {s \in Sessions : s \in Elems(pduSessions) \/ Create(s) \in Elems(gtp)}

(* A message of the control or the user plane is about such a session. *)
Backed(m, K) ==
    /\ m.type = "accept" => m.session \in K
    /\ m.type = "uplink" => \E s \in K : s.ue = m.ue /\ s.psi = m.psi

SetupInv ==
    /\ created => request # <<>> /\ Head(request).session \in Known
    /\ successList \subseteq Known /\ confirmed \subseteq Known /\ accepted \subseteq Known

MrInv ==
    /\ \A m \in Elems(gnbMr) : Backed(m, Known)
    /\ \A u \in Ues : /\ \A m \in Elems(ueMr[u]) : Backed(m, Known)
                      /\ \A m \in Elems(nas[u]) : Backed(m, Known)

(* What the bridge knows was accepted. *)
RouteInv ==
    /\ \A m \in Elems(tb) : m.type = "establishment" => m.session \in accepted
    /\ putting # NONE => putting \in accepted
    /\ \A k \in DOMAIN ipRoute : ipRoute[k] \in accepted

GtpInv == Served(gtp, Elems(pduSessions)) /\ lost = {}

TunnelInv == SetupInv /\ MrInv /\ RouteInv /\ GtpInv

LEMMA KnownGrows == TypeOK /\ [Next]_vars => Known \subseteq Known'
<1> SUFFICES ASSUME TypeOK, [Next]_vars PROVE Known \subseteq Known'
  OBVIOUS
<1> USE QueueTypes
<1>1. CASE UNCHANGED <<gtp, pduSessions>>
  BY <1>1 DEF Known
<1>2. ASSUME NEW x, gtp' = Append(gtp, x), pduSessions' = pduSessions PROVE Known \subseteq Known'
  <2>1. Elems(gtp') = Elems(gtp) \cup {x}
    BY <1>2, ElemsAppend
  <2> QED
    BY <1>2, <2>1 DEF Known
<1>3. CASE gtp # <<>> /\ gtp' = Tail(gtp) /\ pduSessions' = pduSessions /\ Head(gtp).type # "create"
  <2>1. Elems(gtp) = {Head(gtp)} \cup Elems(gtp')
    BY <1>3, ElemsTail
  <2>2. \A s \in Sessions : Create(s) # Head(gtp)
    BY <1>3 DEF Create
  <2> QED
    BY <1>3, <2>1, <2>2 DEF Known
<1>4. CASE handleTunnelCreate
  <2>1. gtp # <<>> /\ gtp' = Tail(gtp) /\ pduSessions' = Append(pduSessions, Head(gtp).session)
    BY <1>4 DEF handleTunnelCreate, Is
  <2>2. Elems(gtp) = {Head(gtp)} \cup Elems(gtp')
    BY <2>1, ElemsTail
  <2>3. Elems(pduSessions') = Elems(pduSessions) \cup {Head(gtp).session}
    BY <2>1, ElemsAppend
  <2>4. \A s \in Sessions : Create(s) = Head(gtp) => Head(gtp).session = s
    BY DEF Create
  <2> QED
    BY <2>2, <2>3, <2>4 DEF Known
<1>5. CASE gtpHandleUplinkData
  BY <1>3, <1>5 DEF gtpHandleUplinkData, Is, tableVars
<1>6. CASE handleDownlinkGtp
  BY <1>3, <1>6 DEF handleDownlinkGtp, Is, tableVars
<1>7. CASE pduResourceSetup
  BY <1>2, <1>7 DEF pduResourceSetup, tableVars
<1>8. CASE gnbMrMain
  BY <1>1, <1>2, <1>8 DEF gnbMrMain, tableVars
<1>9. ASSUME NEW s \in Sessions, UpfSends(s) PROVE Known \subseteq Known'
  BY <1>2, <1>9 DEF UpfSends, tableVars
<1>10. CASE \/ \E items \in ItemLists : AmfRequests(items)
            \/ refuseItem \/ sendAccept \/ sendResponse \/ Bridge
            \/ \E u \in Ues : ueMrMain(u) \/ receiveEstablishmentAccept(u)
            \/ \E s \in Sessions : handleUplinkData(s) \/ AppSends(s)
            \/ UNCHANGED vars
  BY <1>1, <1>10
     DEF AmfRequests, refuseItem, sendAccept, sendResponse, Bridge, handleSessionEstablishment,
         RouteEntered, handleDownlinkData, ueMrMain, receiveEstablishmentAccept, handleUplinkData,
         AppSends, vars, tableVars
<1> QED
  BY <1>4, <1>5, <1>6, <1>7, <1>8, <1>9, <1>10 DEF Next, Ngap, Gtp

LEMMA BackedGrows ==
    ASSUME NEW K, NEW L, K \subseteq L, NEW m, Backed(m, K)
    PROVE  Backed(m, L)
  BY DEF Backed

LEMMA RouteStep == TypeOK /\ RouteInv /\ [Next]_vars => RouteInv'
<1> SUFFICES ASSUME TypeOK, RouteInv, [Next]_vars PROVE RouteInv'
  OBVIOUS
<1> USE QueueTypes
<1>1. CASE UNCHANGED <<tb, putting, ipRoute, accepted>>
  BY <1>1 DEF RouteInv
<1>2. CASE gnbMrMain
  <2>1. UNCHANGED <<putting, ipRoute, accepted>>
    BY <1>2 DEF gnbMrMain, tableVars
  <2>2. CASE tb' = tb
    BY <1>1, <2>1, <2>2
  <2>3. CASE Head(gnbMr).type = "downlink" /\ tb' = Append(tb, Head(gnbMr))
    <3>1. Elems(tb') = Elems(tb) \cup {Head(gnbMr)}
      BY <2>3, ElemsAppend
    <3> QED
      BY <2>1, <2>3, <3>1 DEF RouteInv
  <2> QED
    BY <1>2, <2>2, <2>3 DEF gnbMrMain
<1>3. ASSUME NEW u \in Ues, receiveEstablishmentAccept(u) PROVE RouteInv'
  <2> DEFINE s == Head(nas[u]).session
  <2>1. /\ UNCHANGED <<putting, ipRoute>> /\ accepted' = accepted \cup {s}
        /\ tb' = Append(tb, Establishment(s))
    BY <1>3 DEF receiveEstablishmentAccept, tableVars
  <2> HIDE DEF s
  <2>2. Elems(tb') = Elems(tb) \cup {Establishment(s)}
    BY <2>1, ElemsAppend
  <2>3. Establishment(s).session = s
    BY DEF Establishment
  <2> QED
    BY <2>1, <2>2, <2>3 DEF RouteInv
<1>4. CASE handleSessionEstablishment
  <2>1. /\ tb # <<>> /\ tb' = Tail(tb) /\ Head(tb).type = "establishment"
        /\ putting' = Head(tb).session /\ UNCHANGED <<ipRoute, accepted>>
    BY <1>4 DEF handleSessionEstablishment, Is
  <2>2. Elems(tb) = {Head(tb)} \cup Elems(tb')
    BY <2>1, ElemsTail
  <2> QED
    BY <2>1, <2>2 DEF RouteInv
<1>5. CASE RouteEntered
  <2>1. putting \in accepted
    BY <1>5 DEF RouteEntered, RouteInv
  <2> QED
    BY <1>5, <2>1 DEF RouteEntered, RouteInv
<1>6. CASE handleDownlinkData
  <2>1. tb # <<>> /\ tb' = Tail(tb) /\ UNCHANGED <<putting, ipRoute, accepted>>
    BY <1>6 DEF handleDownlinkData, Is, tableVars
  <2>2. Elems(tb) = {Head(tb)} \cup Elems(tb')
    BY <2>1, ElemsTail
  <2> QED
    BY <2>1, <2>2 DEF RouteInv
<1>7. CASE \/ \E items \in ItemLists : AmfRequests(items)
           \/ Ngap \/ Gtp \/ UNCHANGED vars
           \/ \E u \in Ues : ueMrMain(u)
           \/ \E s \in Sessions : handleUplinkData(s) \/ AppSends(s) \/ UpfSends(s)
  BY <1>1, <1>7
     DEF AmfRequests, Ngap, refuseItem, pduResourceSetup, sendAccept, sendResponse, Gtp,
         handleTunnelCreate, gtpHandleUplinkData, handleDownlinkGtp, ueMrMain, handleUplinkData,
         AppSends, UpfSends, vars, tableVars
<1> QED
  BY <1>2, <1>3, <1>4, <1>5, <1>6, <1>7 DEF Next, Bridge

LEMMA SetupStep == TypeOK /\ SetupInv /\ MrInv /\ [Next]_vars => SetupInv'
<1> SUFFICES ASSUME TypeOK, SetupInv, MrInv, [Next]_vars PROVE SetupInv'
  OBVIOUS
<1> USE QueueTypes
<1>0. Known \subseteq Known'
  BY KnownGrows
<1>1. CASE UNCHANGED <<request, created, successList, confirmed, accepted>>
  BY <1>0, <1>1 DEF SetupInv
<1>2. ASSUME NEW items \in ItemLists, AmfRequests(items) PROVE SetupInv'
  <2>1. ~created /\ created' = created
    BY <1>2 DEF AmfRequests, SetupInv
  <2> QED
    BY <1>0, <1>2, <2>1 DEF AmfRequests, SetupInv
<1>3. CASE refuseItem
  BY <1>0, <1>3 DEF refuseItem, SetupInv, netVars
<1>4. CASE pduResourceSetup
  <2>1. Head(request).session \in Known'
    <3>1. Elems(gtp') = Elems(gtp) \cup {Create(Head(request).session)}
      BY <1>4, ElemsAppend DEF pduResourceSetup
    <3>2. request \in Seq(Items) /\ request # <<>>
      BY <1>4 DEF pduResourceSetup, TypeOK, Items
    <3>3. Head(request).session \in Sessions
      <4>1. Head(request) \in Items
        BY <3>2, HeadTail, Zenon
      <4> QED
        BY <4>1 DEF Items
    <3> QED
      BY <3>1, <3>3 DEF Known
  <2> QED
    BY <1>0, <1>4, <2>1 DEF pduResourceSetup, SetupInv, netVars
<1>5. CASE sendAccept
  BY <1>0, <1>5 DEF sendAccept, SetupInv, netVars
<1>6. CASE sendResponse
  BY <1>0, <1>6 DEF sendResponse, SetupInv
<1>7. ASSUME NEW u \in Ues, receiveEstablishmentAccept(u) PROVE SetupInv'
  <2>1. Elems(nas[u]) = {Head(nas[u])} \cup Elems(Tail(nas[u])) /\ Head(nas[u]) \in Accepts
    BY <1>7, ElemsTail, HeadTail DEF receiveEstablishmentAccept
  <2>2. Head(nas[u]).session \in Known
    BY <2>1, MessageTypes DEF MrInv, Backed
  <2> QED
    BY <1>0, <1>7, <2>2 DEF receiveEstablishmentAccept, SetupInv, setupVars, netVars
<1>8. CASE \/ Gtp \/ Bridge \/ gnbMrMain \/ UNCHANGED vars
           \/ \E u \in Ues : ueMrMain(u)
           \/ \E s \in Sessions : handleUplinkData(s) \/ AppSends(s) \/ UpfSends(s)
  BY <1>1, <1>8
     DEF Gtp, handleTunnelCreate, gtpHandleUplinkData, handleDownlinkGtp, Bridge,
         handleSessionEstablishment, RouteEntered, handleDownlinkData, gnbMrMain, ueMrMain,
         handleUplinkData, AppSends, UpfSends, vars, setupVars, netVars
<1> QED
  BY <1>2, <1>3, <1>4, <1>5, <1>6, <1>7, <1>8 DEF Next, Ngap

LEMMA EnqueueElems ==
    ASSUME NEW S, NEW f \in [Ues -> Seq(S)], NEW u \in Ues, NEW x
    PROVE  \A v \in Ues : Elems([f EXCEPT ![u] = Append(@, x)][v]) =
                             IF v = u THEN Elems(f[v]) \cup {x} ELSE Elems(f[v])
<1>1. Elems(Append(f[u], x)) = Elems(f[u]) \cup {x}
  BY ElemsAppend
<1> QED
  BY <1>1

LEMMA DequeueElems ==
    ASSUME NEW S, NEW f \in [Ues -> Seq(S)], NEW u \in Ues, f[u] # <<>>
    PROVE  /\ Elems(f[u]) = {Head(f[u])} \cup Elems(Tail(f[u]))
           /\ Head(f[u]) \in S
           /\ \A v \in Ues : Elems([f EXCEPT ![u] = Tail(@)][v]) =
                                IF v = u THEN Elems(Tail(f[v])) ELSE Elems(f[v])
<1>1. Elems(f[u]) = {Head(f[u])} \cup Elems(Tail(f[u])) /\ Head(f[u]) \in S
  BY ElemsTail, HeadTail
<1> QED
  BY <1>1

LEMMA MrStep == TypeOK /\ SetupInv /\ MrInv /\ RouteInv /\ [Next]_vars => MrInv'
<1> SUFFICES ASSUME TypeOK, SetupInv, MrInv, RouteInv, [Next]_vars PROVE MrInv'
  OBVIOUS
<1> USE QueueTypes
<1>0. \A m : Backed(m, Known) => Backed(m, Known')
  BY KnownGrows, BackedGrows
<1>1. CASE UNCHANGED <<gnbMr, ueMr, nas>>
  BY <1>0, <1>1 DEF MrInv
<1>2. CASE sendAccept
  <2> DEFINE x == Accept(Head(request).session)
  <2>1. Elems(gnbMr') = Elems(gnbMr) \cup {x} /\ UNCHANGED <<ueMr, nas>>
    BY <1>2, ElemsAppend DEF sendAccept
  <2>2. Backed(x, Known)
    BY <1>2 DEF sendAccept, SetupInv, Accept, Backed
  <2> QED
    BY <1>0, <2>1, <2>2 DEF MrInv
<1>3. CASE handleDownlinkGtp
  <2>1. UNCHANGED <<ueMr, nas>>
    BY <1>3 DEF handleDownlinkGtp
  <2>2. CASE gnbMr' = gnbMr
    BY <1>1, <2>1, <2>2
  <2>3. ASSUME NEW ue, NEW of, NEW n, gnbMr' = Append(gnbMr, Downlink(ue, of, n)) PROVE MrInv'
    <3>1. Elems(gnbMr') = Elems(gnbMr) \cup {Downlink(ue, of, n)}
      BY <2>3, ElemsAppend
    <3>2. Backed(Downlink(ue, of, n), Known)
      BY DEF Downlink, Backed
    <3> QED
      BY <1>0, <2>1, <3>1, <3>2 DEF MrInv
  <2> QED
    BY <1>3, <2>2, <2>3 DEF handleDownlinkGtp
<1>4. CASE gnbMrMain
  <2> DEFINE m == Head(gnbMr)
  <2>1. gnbMr # <<>> /\ gnbMr' = Tail(gnbMr) /\ UNCHANGED nas /\ m \in MrMessages
    BY <1>4, HeadTail DEF gnbMrMain
  <2>2. Elems(gnbMr) = {m} \cup Elems(gnbMr')
    BY <2>1, ElemsTail
  <2>3. Backed(m, Known)
    BY <2>2 DEF MrInv
  <2>4. CASE ueMr' = ueMr
    BY <1>0, <2>1, <2>2, <2>4 DEF MrInv
  <2>5. ASSUME NEW u \in Ues, ueMr' = [ueMr EXCEPT ![u] = Append(@, m)] PROVE MrInv'
    <3> HIDE DEF m
    <3>1. \A v \in Ues : Elems(ueMr'[v]) \subseteq Elems(ueMr[v]) \cup {m}
      BY <2>5, EnqueueElems
    <3> QED
      BY <1>0, <2>1, <2>2, <2>3, <3>1 DEF MrInv
  <2>6. m.type = "accept" => m.session.ue \in Ues
    BY <2>1, MrKinds, MessageTypes, SessionUe
  <2>7. m.type = "downlink" => m.ue \in Ues
    BY <2>1, MrKinds, MessageTypes
  <2> QED
    BY <1>4, <2>4, <2>5, <2>6, <2>7 DEF gnbMrMain
<1>5. ASSUME NEW u \in Ues, ueMrMain(u) PROVE MrInv'
  <2> DEFINE m == Head(ueMr[u])
  <2>1. ueMr[u] # <<>> /\ ueMr' = [ueMr EXCEPT ![u] = Tail(@)]
    BY <1>5 DEF ueMrMain
  <2>2. m \in Elems(ueMr[u]) /\ \A v \in Ues : Elems(ueMr'[v]) \subseteq Elems(ueMr[v])
    <3>1. /\ Elems(ueMr[u]) = {m} \cup Elems(Tail(ueMr[u]))
          /\ \A v \in Ues : Elems([ueMr EXCEPT ![u] = Tail(@)][v]) =
                                IF v = u THEN Elems(Tail(ueMr[v])) ELSE Elems(ueMr[v])
      BY <2>1, DequeueElems
    <3> QED
      BY <2>1, <3>1
  <2>3. Backed(m, Known)
    BY <2>2 DEF MrInv
  <2>4. gnbMr' = gnbMr \/ gnbMr' = Append(gnbMr, m)
    BY <1>5 DEF ueMrMain
  <2>5. nas' = nas \/ nas' = [nas EXCEPT ![u] = Append(@, m)]
    BY <1>5 DEF ueMrMain
  <2> HIDE DEF m
  <2>6. Elems(gnbMr') \subseteq Elems(gnbMr) \cup {m}
    BY <2>4, ElemsAppend
  <2>7. \A v \in Ues : Elems(nas'[v]) \subseteq Elems(nas[v]) \cup {m}
    <3>1. \A v \in Ues : Elems([nas EXCEPT ![u] = Append(@, m)][v]) =
                            IF v = u THEN Elems(nas[v]) \cup {m} ELSE Elems(nas[v])
      BY EnqueueElems
    <3> QED
      BY <2>5, <3>1
  <2> QED
    BY <1>0, <2>2, <2>3, <2>6, <2>7 DEF MrInv
<1>6. ASSUME NEW u \in Ues, receiveEstablishmentAccept(u) PROVE MrInv'
  <2>1. nas[u] # <<>> /\ nas' = [nas EXCEPT ![u] = Tail(@)] /\ UNCHANGED <<gnbMr, ueMr>>
    BY <1>6 DEF receiveEstablishmentAccept
  <2>2. \A v \in Ues : Elems(nas'[v]) \subseteq Elems(nas[v])
    <3>1. /\ Elems(nas[u]) = {Head(nas[u])} \cup Elems(Tail(nas[u]))
          /\ \A v \in Ues : Elems([nas EXCEPT ![u] = Tail(@)][v]) =
                                IF v = u THEN Elems(Tail(nas[v])) ELSE Elems(nas[v])
      BY <2>1, DequeueElems
    <3> QED
      BY <2>1, <3>1
  <2> QED
    BY <1>0, <2>1, <2>2 DEF MrInv
<1>7. ASSUME NEW s \in Known, NEW of, NEW n, s \in Sessions,
             ueMr' = [ueMr EXCEPT ![s.ue] = Append(@, Uplink(s, of, n))], UNCHANGED <<gnbMr, nas>>
      PROVE  MrInv'
  <2>1. Backed(Uplink(s, of, n), Known)
    BY DEF Backed, Uplink
  <2>2. \A v \in Ues : Elems(ueMr'[v]) \subseteq Elems(ueMr[v]) \cup {Uplink(s, of, n)}
    <3>1. \A v \in Ues : Elems([ueMr EXCEPT ![s.ue] = Append(@, Uplink(s, of, n))][v]) =
                            IF v = s.ue THEN Elems(ueMr[v]) \cup {Uplink(s, of, n)} ELSE Elems(ueMr[v])
      BY <1>7, EnqueueElems, SessionUe
    <3> QED
      BY <1>7, <3>1, Zenon
  <2> QED
    BY <1>0, <1>7, <2>1, <2>2 DEF MrInv
<1>8. ASSUME NEW of \in Sessions, handleUplinkData(of) PROVE MrInv'
  <2>1. UNCHANGED <<gnbMr, nas>>
    BY <1>8 DEF handleUplinkData
  <2>2. PICK target \in Lookups(addr(of.address)) :
           IF target = NONE THEN UNCHANGED ueMr
           ELSE ueMr' = [ueMr EXCEPT ![target.ue] = Append(@, Uplink(target, of, data + 1))]
    BY <1>8 DEF handleUplinkData
  <2>3. target # NONE => target \in accepted
    BY <2>2 DEF Lookups, RouteInv
  <2>4. accepted \subseteq Known /\ Known \subseteq Sessions
    BY DEF SetupInv, Known
  <2> QED
    BY <1>1, <1>7, <2>1, <2>2, <2>3, <2>4
<1>9. ASSUME NEW s \in Sessions, AppSends(s) PROVE MrInv'
  <2>1. s \in Known
    BY <1>9 DEF AppSends, SetupInv
  <2> QED
    BY <1>7, <1>9, <2>1 DEF AppSends
<1>10. CASE \/ \E items \in ItemLists : AmfRequests(items)
            \/ refuseItem \/ pduResourceSetup \/ sendResponse
            \/ handleTunnelCreate \/ gtpHandleUplinkData \/ Bridge \/ UNCHANGED vars
            \/ \E s \in Sessions : UpfSends(s)
  BY <1>1, <1>10
     DEF AmfRequests, refuseItem, pduResourceSetup, sendResponse, handleTunnelCreate,
         gtpHandleUplinkData, Bridge, handleSessionEstablishment, RouteEntered, handleDownlinkData,
         UpfSends, vars
<1> QED
  BY <1>2, <1>3, <1>4, <1>5, <1>6, <1>8, <1>9, <1>10 DEF Next, Ngap, Gtp

LEMMA GtpStep == TypeOK /\ SetupInv /\ MrInv /\ GtpInv /\ [Next]_vars => GtpInv'
<1> SUFFICES ASSUME TypeOK, SetupInv, MrInv, GtpInv, [Next]_vars PROVE GtpInv'
  OBVIOUS
<1> USE QueueTypes
<1>1. CASE UNCHANGED <<gtp, pduSessions, lost>>
  BY <1>1 DEF GtpInv
<1>2. CASE pduResourceSetup
  <2>1. gtp' = Append(gtp, Create(Head(request).session)) /\ UNCHANGED <<pduSessions, lost>>
    BY <1>2 DEF pduResourceSetup, tableVars, sinkVars
  <2>2. Create(Head(request).session).type = "create"
    BY DEF Create
  <2> QED
    BY <2>1, <2>2, ServedAppend DEF GtpInv
<1>3. CASE gnbMrMain
  <2> DEFINE m == Head(gnbMr)
  <2>1. UNCHANGED <<pduSessions, lost>>
    BY <1>3 DEF gnbMrMain, tableVars, sinkVars
  <2>2. CASE gtp' = gtp
    BY <1>1, <2>1, <2>2
  <2>3. CASE m.type = "uplink" /\ gtp' = Append(gtp, m)
    <3>1. m \in Elems(gnbMr)
      BY <1>3, ElemsTail DEF gnbMrMain
    <3>2. PICK s \in Known : s.ue = m.ue /\ s.psi = m.psi
      BY <2>3, <3>1 DEF MrInv, Backed
    <3>3. s \in Sessions /\ Serves(s, m) /\ (s \in Elems(pduSessions) \/ Create(s) \in Elems(gtp))
      BY <2>3, <3>2 DEF Known, Serves
    <3> HIDE DEF m
    <3>4. Served(Append(gtp, m), Elems(pduSessions))
      BY <3>3, ServedAppend DEF GtpInv
    <3> QED
      BY <2>1, <2>3, <3>4 DEF GtpInv
  <2> QED
    BY <1>3, <2>2, <2>3 DEF gnbMrMain
<1>4. ASSUME NEW s \in Sessions, UpfSends(s) PROVE GtpInv'
  <2> DEFINE m == Gpdu(s.teid, s, data + 1)
  <2>1. s \in Known
    BY <1>4 DEF UpfSends, SetupInv
  <2>2. Serves(s, m) /\ (s \in Elems(pduSessions) \/ Create(s) \in Elems(gtp))
    BY <2>1 DEF Known, Serves, Gpdu
  <2>3. gtp' = Append(gtp, m) /\ UNCHANGED <<pduSessions, lost>>
    BY <1>4 DEF UpfSends, tableVars, sinkVars
  <2> HIDE DEF m
  <2>4. Served(Append(gtp, m), Elems(pduSessions))
    BY <2>2, ServedAppend DEF GtpInv
  <2> QED
    BY <2>3, <2>4 DEF GtpInv
<1>5. CASE handleTunnelCreate
  <2>1. /\ gtp # <<>> /\ gtp' = Tail(gtp) /\ lost' = lost
        /\ pduSessions' = Append(pduSessions, Head(gtp).session)
    BY <1>5 DEF handleTunnelCreate, Is, sinkVars
  <2>2. Elems(pduSessions') = Elems(pduSessions) \cup {Head(gtp).session}
    BY <2>1, ElemsAppend
  <2>3. \A s \in Sessions : Head(gtp) = Create(s) => s \in Elems(pduSessions')
    BY <2>2 DEF Create
  <2>4. Served(Tail(gtp), Elems(pduSessions'))
    BY <2>1, <2>2, <2>3, ServedTail DEF GtpInv
  <2> QED
    BY <2>1, <2>4 DEF GtpInv
<1>6. ASSUME gtp # <<>>, Head(gtp).type # "create"
      PROVE  /\ \E s \in Elems(pduSessions) : Serves(s, Head(gtp))
             /\ Served(Tail(gtp), Elems(pduSessions))
  <2>1. 1 \in 1..Len(gtp) /\ Head(gtp) = gtp[1] /\ 1 - 1 = 0 /\ 1..0 = {}
    BY <1>6
  <2>2. \E s \in Sessions : /\ Serves(s, gtp[1])
                            /\ s \in Elems(pduSessions) \/ \E j \in 1..(1 - 1) : gtp[j] = Create(s)
    BY <1>6, <2>1 DEF GtpInv, Served
  <2>3. \E s \in Elems(pduSessions) : Serves(s, Head(gtp))
    BY <2>1, <2>2
  <2>4. \A s \in Sessions : Head(gtp) # Create(s)
    BY <1>6 DEF Create
  <2>5. Served(Tail(gtp), Elems(pduSessions))
    BY <1>6, <2>4, ServedTail DEF GtpInv
  <2> QED
    BY <2>3, <2>5
<1>7. CASE gtpHandleUplinkData
  <2> DEFINE m == Head(gtp)
  <2>1. gtp # <<>> /\ m.type = "uplink" /\ gtp' = Tail(gtp) /\ UNCHANGED pduSessions
    BY <1>7 DEF gtpHandleUplinkData, Is, tableVars
  <2>2. PICK s \in Elems(pduSessions) : Serves(s, m)
    BY <1>6, <2>1
  <2>3. s.ue = m.ue /\ s.psi = m.psi
    BY <2>1, <2>2 DEF Serves
  <2>4. uplinkTunnel(m) # NONE
    BY <2>3, UplinkTunnel
  <2>5. lost' = lost
    BY <1>7, <2>4 DEF gtpHandleUplinkData
  <2> QED
    BY <1>6, <2>1, <2>5 DEF GtpInv
<1>8. CASE handleDownlinkGtp
  <2> DEFINE m == Head(gtp)
  <2>1. gtp # <<>> /\ m.type = "gpdu" /\ gtp' = Tail(gtp) /\ UNCHANGED pduSessions
    BY <1>8 DEF handleDownlinkGtp, Is, tableVars
  <2>2. PICK s \in Elems(pduSessions) : Serves(s, m)
    BY <1>6, <2>1
  <2>3. s.teid = m.teid
    BY <2>1, <2>2 DEF Serves
  <2>4. downlinkTunnel(m) # NONE
    BY <2>3, DownlinkTunnel
  <2>5. lost' = lost
    BY <1>8, <2>4 DEF handleDownlinkGtp
  <2> QED
    BY <1>6, <2>1, <2>5 DEF GtpInv
<1>9. CASE \/ \E items \in ItemLists : AmfRequests(items)
           \/ refuseItem \/ sendAccept \/ sendResponse \/ Bridge
           \/ \E u \in Ues : ueMrMain(u) \/ receiveEstablishmentAccept(u)
           \/ \E s \in Sessions : handleUplinkData(s) \/ AppSends(s)
           \/ UNCHANGED vars
  BY <1>1, <1>9
     DEF AmfRequests, refuseItem, sendAccept, sendResponse, Bridge, handleSessionEstablishment,
         RouteEntered, handleDownlinkData, ueMrMain, receiveEstablishmentAccept, handleUplinkData,
         AppSends, vars, tableVars, sinkVars
<1> QED
  BY <1>2, <1>3, <1>4, <1>5, <1>7, <1>8, <1>9 DEF Next, Ngap, Gtp

LEMMA InitTunnelInv == Init => TunnelInv
<1> SUFFICES ASSUME Init PROVE TunnelInv
  OBVIOUS
<1>1. Elems(<<>>) = {}
  BY DEF Elems
<1>2. DOMAIN ipRoute = {} /\ putting = NONE
  BY DEF Init
<1>3. SetupInv
  BY DEF Init, SetupInv
<1>4. MrInv
  BY <1>1 DEF Init, MrInv
<1>5. RouteInv
  BY <1>1, <1>2 DEF Init, RouteInv
<1>6. GtpInv
  BY DEF Init, GtpInv, Served
<1> QED
  BY <1>3, <1>4, <1>5, <1>6 DEF TunnelInv

LEMMA SpecTunnelInv == Spec => [](TypeOK /\ TunnelInv)
<1>1. TypeOK /\ TunnelInv /\ [Next]_vars => TunnelInv'
  BY SetupStep, MrStep, RouteStep, GtpStep DEF TunnelInv
<1> QED
  BY <1>1, InitTunnelInv, TypeCorrect, PTL DEF Spec

(* No packet comes to the GTP task before the tunnel of its session, for any *)
(* sessions, requests and packets.                                           *)
THEOREM TunnelBeforeData == Spec => []NothingLost
<1>1. TunnelInv => NothingLost
  BY DEF TunnelInv, GtpInv, NothingLost
<1> QED
  BY <1>1, SpecTunnelInv, PTL

-----------------------------------------------------------------------------
(* Downlink packets. *)

DownInv ==
    /\ \A m \in Elems(gnbMr) : m.type = "downlink" => m.ue = m.of.ue
    /\ \A u \in Ues : \A m \in Elems(ueMr[u]) : m.type = "downlink" => u = m.of.ue
    /\ \A m \in app : m.ue = m.of.ue

LEMMA SameTeid == \A s, t \in Sessions : s.teid = t.teid => s = t
  BY SessionsAssumption

LEMMA SamePsi == \A s, t \in Sessions : s.ue = t.ue /\ s.psi = t.psi => s = t
  BY SessionsAssumption

LEMMA DownStep == TypeOK /\ DownInv /\ [Next]_vars => DownInv'
<1> SUFFICES ASSUME TypeOK, DownInv, [Next]_vars PROVE DownInv'
  OBVIOUS
<1> USE QueueTypes
<1>1. CASE UNCHANGED <<gnbMr, ueMr, app>>
  BY <1>1 DEF DownInv
<1>2. CASE sendAccept
  <2>1. Elems(gnbMr') = Elems(gnbMr) \cup {Accept(Head(request).session)} /\ UNCHANGED <<ueMr, app>>
    BY <1>2, ElemsAppend DEF sendAccept, sinkVars
  <2>2. Accept(Head(request).session).type = "accept"
    BY DEF Accept
  <2> QED
    BY <2>1, <2>2 DEF DownInv
<1>3. CASE handleDownlinkGtp
  <2> DEFINE m == Head(gtp)
             tunnel == downlinkTunnel(m)
  <2>1. UNCHANGED <<ueMr, app>> /\ m \in Gpdus
    BY <1>3, GtpHead DEF handleDownlinkGtp, Is
  <2>2. CASE tunnel = NONE
    BY <1>1, <1>3, <2>1, <2>2 DEF handleDownlinkGtp
  <2>3. CASE tunnel # NONE
    <3>1. tunnel = m.of
      <4>1. tunnel \in Sessions /\ tunnel.teid = m.teid
        BY <2>3, DownlinkTunnel
      <4>2. m.of \in Sessions /\ m.teid = m.of.teid
        BY <2>1, MessageTypes
      <4> QED
        BY <4>1, <4>2, SameTeid
    <3>2. Elems(gnbMr') = Elems(gnbMr) \cup {Downlink(tunnel.ue, m.of, m.id)}
      BY <1>3, <2>3, ElemsAppend DEF handleDownlinkGtp
    <3> HIDE DEF m, tunnel
    <3>3. Downlink(tunnel.ue, m.of, m.id).ue = Downlink(tunnel.ue, m.of, m.id).of.ue
      BY <3>1 DEF Downlink
    <3> QED
      BY <2>1, <3>2, <3>3 DEF DownInv
  <2> QED
    BY <2>2, <2>3
<1>4. CASE gnbMrMain
  <2> DEFINE m == Head(gnbMr)
  <2>1. gnbMr # <<>> /\ gnbMr' = Tail(gnbMr) /\ UNCHANGED app /\ m \in MrMessages
    BY <1>4, HeadTail DEF gnbMrMain, sinkVars
  <2>2. Elems(gnbMr) = {m} \cup Elems(gnbMr')
    BY <2>1, ElemsTail
  <2>3. CASE ueMr' = ueMr
    BY <2>1, <2>2, <2>3 DEF DownInv
  <2>4. ASSUME NEW u \in Ues, m.type = "downlink" => u = m.of.ue,
               ueMr' = [ueMr EXCEPT ![u] = Append(@, m)]
        PROVE  DownInv'
    <3> HIDE DEF m
    <3>1. \A v \in Ues : Elems([ueMr EXCEPT ![u] = Append(@, m)][v]) =
                            IF v = u THEN Elems(ueMr[v]) \cup {m} ELSE Elems(ueMr[v])
      BY EnqueueElems
    <3>2. \A x \in Elems(gnbMr') : x.type = "downlink" => x.ue = x.of.ue
      BY <2>2 DEF DownInv
    <3>3. \A v \in Ues : \A x \in Elems(ueMr'[v]) : x \in Elems(ueMr[v]) \/ (v = u /\ x = m)
      BY <2>4, <3>1
    <3>4. \A v \in Ues : \A x \in Elems(ueMr'[v]) : x.type = "downlink" => v = x.of.ue
      BY <2>4, <3>3 DEF DownInv
    <3>5. \A x \in app' : x.ue = x.of.ue
      BY <2>1 DEF DownInv
    <3> QED
      BY <3>2, <3>4, <3>5 DEF DownInv
  <2>5. m.type = "accept" => m.session.ue \in Ues
    BY <2>1, MrKinds, MessageTypes, SessionUe
  <2>6. m.type = "downlink" => m.ue \in Ues /\ m.ue = m.of.ue
    BY <2>1, <2>2, MrKinds, MessageTypes DEF DownInv
  <2> QED
    BY <1>4, <2>3, <2>4, <2>5, <2>6 DEF gnbMrMain
<1>5. ASSUME NEW u \in Ues, ueMrMain(u) PROVE DownInv'
  <2> DEFINE m == Head(ueMr[u])
  <2>1. ueMr[u] # <<>> /\ ueMr' = [ueMr EXCEPT ![u] = Tail(@)]
    BY <1>5 DEF ueMrMain
  <2>2. m \in Elems(ueMr[u]) /\ \A v \in Ues : Elems(ueMr'[v]) \subseteq Elems(ueMr[v])
    <3>1. /\ Elems(ueMr[u]) = {m} \cup Elems(Tail(ueMr[u]))
          /\ \A v \in Ues : Elems([ueMr EXCEPT ![u] = Tail(@)][v]) =
                                IF v = u THEN Elems(Tail(ueMr[v])) ELSE Elems(ueMr[v])
      BY <2>1, DequeueElems
    <3> QED
      BY <2>1, <3>1
  <2>3. gnbMr' = gnbMr \/ (gnbMr' = Append(gnbMr, m) /\ m.type = "uplink")
    BY <1>5 DEF ueMrMain
  <2>4. app' = app \/ (m.type = "downlink" /\ app' = app \cup {[ue |-> u, of |-> m.of, id |-> m.id]})
    BY <1>5 DEF ueMrMain
  <2> HIDE DEF m
  <2>5. \A x \in Elems(gnbMr') : x \in Elems(gnbMr) \/ x.type = "uplink"
    <3>1. Elems(Append(gnbMr, m)) = Elems(gnbMr) \cup {m}
      BY ElemsAppend
    <3> QED
      BY <2>3, <3>1
  <2>6. \A x \in app' : x.ue = x.of.ue
    <3>1. m.type = "downlink" => u = m.of.ue
      BY <2>2 DEF DownInv
    <3>2. CASE app' = app
      BY <3>2 DEF DownInv
    <3>3. CASE m.type = "downlink" /\ app' = app \cup {[ue |-> u, of |-> m.of, id |-> m.id]}
      <4>1. \A x \in app : x.ue = x.of.ue
        BY DEF DownInv
      <4> DEFINE of == m.of
                 y == [ue |-> u, of |-> of, id |-> m.id]
      <4>2. y.ue = u /\ y.of = of
        OBVIOUS
      <4>3. of.ue = u
        BY <3>1, <3>3
      <4>4. app' = app \cup {y}
        BY <3>3
      <4> HIDE DEF of, y
      <4> QED
        BY <4>1, <4>2, <4>3, <4>4
    <3> QED
      BY <2>4, <3>2, <3>3
  <2> QED
    BY <2>2, <2>5, <2>6 DEF DownInv
<1>6. ASSUME NEW s \in Sessions, NEW of, NEW n,
             ueMr' = [ueMr EXCEPT ![s.ue] = Append(@, Uplink(s, of, n))], UNCHANGED <<gnbMr, app>>
      PROVE  DownInv'
  <2>1. Uplink(s, of, n).type = "uplink"
    BY DEF Uplink
  <2>2. \A v \in Ues : Elems(ueMr'[v]) \subseteq Elems(ueMr[v]) \cup {Uplink(s, of, n)}
    <3>1. \A v \in Ues : Elems([ueMr EXCEPT ![s.ue] = Append(@, Uplink(s, of, n))][v]) =
                            IF v = s.ue THEN Elems(ueMr[v]) \cup {Uplink(s, of, n)} ELSE Elems(ueMr[v])
      BY <1>6, EnqueueElems, SessionUe
    <3> QED
      BY <1>6, <3>1, Zenon
  <2> QED
    BY <1>6, <2>1, <2>2 DEF DownInv
<1>7. ASSUME NEW of \in Sessions, handleUplinkData(of) PROVE DownInv'
  <2>1. UNCHANGED <<gnbMr, app>>
    BY <1>7 DEF handleUplinkData, sinkVars
  <2>2. PICK target \in Lookups(addr(of.address)) :
           IF target = NONE THEN UNCHANGED ueMr
           ELSE ueMr' = [ueMr EXCEPT ![target.ue] = Append(@, Uplink(target, of, data + 1))]
    BY <1>7 DEF handleUplinkData
  <2>3. target # NONE => target \in Sessions
    BY <2>2 DEF Lookups, TypeOK
  <2> QED
    BY <1>1, <1>6, <2>1, <2>2, <2>3
<1>8. ASSUME NEW s \in Sessions, AppSends(s) PROVE DownInv'
  BY <1>6, <1>8 DEF AppSends, sinkVars
<1>9. CASE \/ \E items \in ItemLists : AmfRequests(items)
           \/ refuseItem \/ pduResourceSetup \/ sendResponse
           \/ handleTunnelCreate \/ gtpHandleUplinkData \/ Bridge \/ UNCHANGED vars
           \/ \E u \in Ues : receiveEstablishmentAccept(u)
           \/ \E s \in Sessions : UpfSends(s)
  BY <1>1, <1>9
     DEF AmfRequests, refuseItem, pduResourceSetup, sendResponse, handleTunnelCreate,
         gtpHandleUplinkData, Bridge, handleSessionEstablishment, RouteEntered, handleDownlinkData,
         receiveEstablishmentAccept, UpfSends, vars, sinkVars
<1> QED
  BY <1>2, <1>3, <1>4, <1>5, <1>7, <1>8, <1>9 DEF Next, Ngap, Gtp

LEMMA InitDown == Init => DownInv
<1>1. Elems(<<>>) = {}
  BY DEF Elems
<1> QED
  BY <1>1 DEF Init, DownInv

(* Downlink packets reach the UE whose session they are for.                 *)
THEOREM DownlinkCorrect == Spec => []DownlinkReachesItsUe
<1>1. DownInv => DownlinkReachesItsUe
  BY DEF DownInv, DownlinkReachesItsUe
<1> QED
  BY <1>1, InitDown, DownStep, TypeCorrect, PTL DEF Spec

-----------------------------------------------------------------------------
(* Uplink packets. *)

(* No two sessions have addresses with the same key in the bridge. *)
KeysDistinct == \A s, t \in Sessions : addr(s.address) = addr(t.address) => s = t

OfOwn(m) == m.type = "uplink" => m.ue = m.of.ue /\ m.psi = m.of.psi

UpInv ==
    /\ \A m \in Elems(gnbMr) : OfOwn(m)
    /\ \A m \in Elems(gtp) : OfOwn(m)
    /\ \A u \in Ues : \A m \in Elems(ueMr[u]) : OfOwn(m)
    /\ \A k \in DOMAIN ipRoute : k = addr(ipRoute[k].address)
    /\ \A m \in upf : m.teid = m.of.teid

LEMMA UpStep == KeysDistinct => (TypeOK /\ UpInv /\ [Next]_vars => UpInv')
<1> SUFFICES ASSUME KeysDistinct, TypeOK, UpInv, [Next]_vars PROVE UpInv'
  OBVIOUS
<1> USE QueueTypes
<1>1. CASE UNCHANGED <<gnbMr, gtp, ueMr, ipRoute, upf>>
  BY <1>1 DEF UpInv
<1>2. CASE pduResourceSetup
  <2>1. Elems(gtp') = Elems(gtp) \cup {Create(Head(request).session)}
        /\ UNCHANGED <<gnbMr, ueMr, ipRoute, upf>>
    BY <1>2, ElemsAppend DEF pduResourceSetup, tableVars, sinkVars
  <2>2. OfOwn(Create(Head(request).session))
    BY DEF Create, OfOwn
  <2> QED
    BY <2>1, <2>2 DEF UpInv
<1>3. CASE sendAccept
  <2>1. Elems(gnbMr') = Elems(gnbMr) \cup {Accept(Head(request).session)}
        /\ UNCHANGED <<gtp, ueMr, ipRoute, upf>>
    BY <1>3, ElemsAppend DEF sendAccept, tableVars, sinkVars
  <2>2. OfOwn(Accept(Head(request).session))
    BY DEF Accept, OfOwn
  <2> QED
    BY <2>1, <2>2 DEF UpInv
<1>4. CASE handleTunnelCreate
  <2>1. gtp # <<>> /\ gtp' = Tail(gtp) /\ UNCHANGED <<gnbMr, ueMr, ipRoute, upf>>
    BY <1>4 DEF handleTunnelCreate, Is, sinkVars
  <2>2. Elems(gtp) = {Head(gtp)} \cup Elems(gtp')
    BY <2>1, ElemsTail
  <2> QED
    BY <2>1, <2>2 DEF UpInv
<1>5. CASE gtpHandleUplinkData
  <2> DEFINE m == Head(gtp)
             tunnel == uplinkTunnel(m)
  <2>1. gtp # <<>> /\ gtp' = Tail(gtp) /\ UNCHANGED <<gnbMr, ueMr, ipRoute>> /\ m.type = "uplink"
    BY <1>5 DEF gtpHandleUplinkData, Is, tableVars
  <2>2. Elems(gtp) = {m} \cup Elems(gtp')
    BY <2>1, ElemsTail
  <2>3. m.of \in Sessions /\ m.ue = m.of.ue /\ m.psi = m.of.psi
    BY <2>1, <2>2, GtpHead, MessageTypes DEF UpInv, OfOwn
  <2>4. tunnel # NONE => tunnel = m.of
    BY <2>3, UplinkTunnel, SamePsi
  <2>5. upf' = upf \/ (tunnel # NONE /\ upf' = upf \cup {Gpdu(tunnel.teid, m.of, m.id)})
    BY <1>5 DEF gtpHandleUplinkData
  <2> HIDE DEF m, tunnel
  <2>6. \A x \in upf' : x.teid = x.of.teid
    BY <2>4, <2>5 DEF UpInv, Gpdu
  <2> QED
    BY <2>1, <2>2, <2>6 DEF UpInv
<1>6. CASE handleDownlinkGtp
  <2>1. gtp # <<>> /\ gtp' = Tail(gtp) /\ UNCHANGED <<ueMr, ipRoute, upf>>
    BY <1>6 DEF handleDownlinkGtp, Is, tableVars
  <2>2. Elems(gtp) = {Head(gtp)} \cup Elems(gtp')
    BY <2>1, ElemsTail
  <2>3. CASE gnbMr' = gnbMr
    BY <2>1, <2>2, <2>3 DEF UpInv
  <2>4. ASSUME NEW ue, NEW of, NEW n, gnbMr' = Append(gnbMr, Downlink(ue, of, n)) PROVE UpInv'
    <3>1. Elems(gnbMr') = Elems(gnbMr) \cup {Downlink(ue, of, n)}
      BY <2>4, ElemsAppend
    <3>2. OfOwn(Downlink(ue, of, n))
      BY DEF Downlink, OfOwn
    <3> QED
      BY <2>1, <2>2, <3>1, <3>2 DEF UpInv
  <2> QED
    BY <1>6, <2>3, <2>4 DEF handleDownlinkGtp
<1>7. CASE gnbMrMain
  <2> DEFINE m == Head(gnbMr)
  <2>1. gnbMr # <<>> /\ gnbMr' = Tail(gnbMr) /\ UNCHANGED <<ipRoute, upf>> /\ m \in MrMessages
    BY <1>7, HeadTail DEF gnbMrMain, tableVars, sinkVars
  <2>2. Elems(gnbMr) = {m} \cup Elems(gnbMr')
    BY <2>1, ElemsTail
  <2>3. OfOwn(m)
    BY <2>2 DEF UpInv
  <2>4. ueMr' = ueMr \/ \E u \in Ues : ueMr' = [ueMr EXCEPT ![u] = Append(@, m)]
    <3>1. m.type = "accept" => m.session.ue \in Ues
      BY <2>1, MrKinds, MessageTypes, SessionUe
    <3>2. m.type = "downlink" => m.ue \in Ues
      BY <2>1, MrKinds, MessageTypes
    <3> QED
      BY <1>7, <3>1, <3>2 DEF gnbMrMain
  <2>5. gtp' = gtp \/ gtp' = Append(gtp, m)
    BY <1>7 DEF gnbMrMain
  <2> HIDE DEF m
  <2>6. \A v \in Ues : Elems(ueMr'[v]) \subseteq Elems(ueMr[v]) \cup {m}
    <3>1. CASE ueMr' = ueMr
      BY <3>1
    <3>2. ASSUME NEW u \in Ues, ueMr' = [ueMr EXCEPT ![u] = Append(@, m)]
          PROVE  \A v \in Ues : Elems(ueMr'[v]) \subseteq Elems(ueMr[v]) \cup {m}
      <4>1. \A v \in Ues : Elems([ueMr EXCEPT ![u] = Append(@, m)][v]) =
                              IF v = u THEN Elems(ueMr[v]) \cup {m} ELSE Elems(ueMr[v])
        BY EnqueueElems
      <4> QED
        BY <3>2, <4>1
    <3> QED
      BY <2>4, <3>1, <3>2
  <2>7. Elems(gtp') \subseteq Elems(gtp) \cup {m}
    BY <2>5, ElemsAppend
  <2> QED
    BY <2>1, <2>2, <2>3, <2>6, <2>7 DEF UpInv
<1>8. ASSUME NEW u \in Ues, ueMrMain(u) PROVE UpInv'
  <2> DEFINE m == Head(ueMr[u])
  <2>1. ueMr[u] # <<>> /\ ueMr' = [ueMr EXCEPT ![u] = Tail(@)] /\ UNCHANGED <<gtp, ipRoute, upf>>
    BY <1>8 DEF ueMrMain, tableVars
  <2>2. m \in Elems(ueMr[u]) /\ \A v \in Ues : Elems(ueMr'[v]) \subseteq Elems(ueMr[v])
    <3>1. /\ Elems(ueMr[u]) = {m} \cup Elems(Tail(ueMr[u]))
          /\ \A v \in Ues : Elems([ueMr EXCEPT ![u] = Tail(@)][v]) =
                                IF v = u THEN Elems(Tail(ueMr[v])) ELSE Elems(ueMr[v])
      BY <2>1, DequeueElems
    <3> QED
      BY <2>1, <3>1
  <2>3. gnbMr' = gnbMr \/ gnbMr' = Append(gnbMr, m)
    BY <1>8 DEF ueMrMain
  <2> HIDE DEF m
  <2>4. Elems(gnbMr') \subseteq Elems(gnbMr) \cup {m}
    BY <2>3, ElemsAppend
  <2> QED
    BY <2>1, <2>2, <2>4 DEF UpInv
<1>9. CASE RouteEntered
  <2>1. \A k \in DOMAIN ipRoute' : k = addr(ipRoute'[k].address)
    BY <1>9 DEF RouteEntered, UpInv
  <2> QED
    BY <1>9, <2>1 DEF RouteEntered, UpInv, sinkVars
<1>10. ASSUME NEW s \in Sessions, NEW n, UNCHANGED <<gnbMr, gtp, ipRoute, upf>>,
              ueMr' = [ueMr EXCEPT ![s.ue] = Append(@, Uplink(s, s, n))]
       PROVE  UpInv'
  <2>1. OfOwn(Uplink(s, s, n))
    BY DEF Uplink, OfOwn
  <2>2. \A v \in Ues : Elems(ueMr'[v]) \subseteq Elems(ueMr[v]) \cup {Uplink(s, s, n)}
    <3>1. \A v \in Ues : Elems([ueMr EXCEPT ![s.ue] = Append(@, Uplink(s, s, n))][v]) =
                            IF v = s.ue THEN Elems(ueMr[v]) \cup {Uplink(s, s, n)} ELSE Elems(ueMr[v])
      BY <1>10, EnqueueElems, SessionUe
    <3> QED
      BY <1>10, <3>1, Zenon
  <2> QED
    BY <1>10, <2>1, <2>2 DEF UpInv
<1>11. ASSUME NEW of \in Sessions, handleUplinkData(of) PROVE UpInv'
  <2>1. UNCHANGED <<gnbMr, gtp, ipRoute, upf>>
    BY <1>11 DEF handleUplinkData, tableVars, sinkVars
  <2>2. PICK target \in Lookups(addr(of.address)) :
           IF target = NONE THEN UNCHANGED ueMr
           ELSE ueMr' = [ueMr EXCEPT ![target.ue] = Append(@, Uplink(target, of, data + 1))]
    BY <1>11 DEF handleUplinkData
  <2>3. target # NONE => target \in Sessions /\ addr(target.address) = addr(of.address)
    BY <2>2 DEF Lookups, TypeOK, UpInv
  <2>4. target # NONE => target = of
    BY <2>3 DEF KeysDistinct
  <2> QED
    BY <1>1, <1>10, <2>1, <2>2, <2>4
<1>12. ASSUME NEW s \in Sessions, AppSends(s) PROVE UpInv'
  BY <1>10, <1>12 DEF AppSends, tableVars, sinkVars
<1>13. ASSUME NEW s \in Sessions, UpfSends(s) PROVE UpInv'
  <2>1. Elems(gtp') = Elems(gtp) \cup {Gpdu(s.teid, s, data + 1)} /\ UNCHANGED <<gnbMr, ueMr, ipRoute, upf>>
    BY <1>13, ElemsAppend DEF UpfSends, tableVars, sinkVars
  <2>2. OfOwn(Gpdu(s.teid, s, data + 1))
    BY DEF Gpdu, OfOwn
  <2> QED
    BY <2>1, <2>2 DEF UpInv
<1>14. CASE \/ \E items \in ItemLists : AmfRequests(items)
            \/ refuseItem \/ sendResponse
            \/ handleSessionEstablishment \/ handleDownlinkData \/ UNCHANGED vars
            \/ \E u \in Ues : receiveEstablishmentAccept(u)
  BY <1>1, <1>14
     DEF AmfRequests, refuseItem, sendResponse, handleSessionEstablishment, handleDownlinkData,
         receiveEstablishmentAccept, vars, tableVars, sinkVars
<1> QED
  BY <1>2, <1>3, <1>4, <1>5, <1>6, <1>7, <1>8, <1>9, <1>11, <1>12, <1>13, <1>14
     DEF Next, Ngap, Gtp, Bridge

LEMMA InitUp == Init => UpInv
<1> SUFFICES ASSUME Init PROVE UpInv
  OBVIOUS
<1>1. Elems(<<>>) = {} /\ DOMAIN ipRoute = {}
  BY DEF Elems, Init
<1> QED
  BY <1>1 DEF Init, UpInv

(* If no two sessions' addresses have the same key, packets leave in the     *)
(* tunnel of the session whose address they have.                            *)
THEOREM UplinkCorrect == KeysDistinct => (Spec => []UplinkInOwnTunnel)
<1> SUFFICES ASSUME KeysDistinct PROVE Spec => []UplinkInOwnTunnel
  OBVIOUS
<1>1. UpInv => UplinkInOwnTunnel
  BY DEF UpInv, UplinkInOwnTunnel
<1>2. TypeOK /\ UpInv /\ [Next]_vars => UpInv'
  BY UpStep
<1> QED
  BY <1>1, <1>2, InitUp, TypeCorrect, PTL DEF Spec

(* Addresses of one /24 network have different keys.                         *)
THEOREM OneNetworkIsDistinct ==
    ASSUME \A s, t \in Sessions : \A i \in 1..3 : s.address[i] = t.address[i]
    PROVE  KeysDistinct
<1> SUFFICES ASSUME NEW s \in Sessions, NEW t \in Sessions, addr(s.address) = addr(t.address)
             PROVE  s = t
  BY DEF KeysDistinct
<1>1. s.address \in [1..4 -> Octets] /\ t.address \in [1..4 -> Octets]
  BY SessionsAssumption DEF SessionType
<1>2. addr(s.address)[4] = s.address[4] /\ addr(t.address)[4] = t.address[4]
  BY DEF addr
<1>3. s.address[4] = t.address[4]
  BY <1>2
<1>4. \A i \in 1..4 : s.address[i] = t.address[i]
  <2>1. \A i \in 1..4 : i \in 1..3 \/ i = 4
    OBVIOUS
  <2> QED
    BY <1>3, <2>1
<1>5. s.address = t.address
  BY <1>1, <1>4
<1> QED
  BY <1>5, SessionsAssumption

(* Which addresses have the same key: an octet of theirs may only differ     *)
(* when a later one, which they share, is 128 or more.                       *)
THEOREM KeysCollide ==
    \A a, b \in [1..4 -> Octets] :
        addr(a) = addr(b) <=>
            \A i \in 1..4 : a[i] = b[i] \/ \E j \in (i + 1)..4 : a[j] >= 128 /\ a[j] = b[j]
<1> SUFFICES ASSUME NEW a \in [1..4 -> Octets], NEW b \in [1..4 -> Octets]
             PROVE  addr(a) = addr(b) <=>
                       \A i \in 1..4 : a[i] = b[i] \/ \E j \in (i + 1)..4 : a[j] >= 128 /\ a[j] = b[j]
  OBVIOUS
<1>1. /\ a[1] \in 0..255 /\ a[2] \in 0..255 /\ a[3] \in 0..255 /\ a[4] \in 0..255
      /\ b[1] \in 0..255 /\ b[2] \in 0..255 /\ b[3] \in 0..255 /\ b[4] \in 0..255
  BY DEF Octets
<1>2. \A i \in 1..4 : i = 1 \/ i = 2 \/ i = 3 \/ i = 4
  OBVIOUS
<1>3. /\ \A j : j \in 2..4 <=> j = 2 \/ j = 3 \/ j = 4
      /\ \A j : j \in 3..4 <=> j = 3 \/ j = 4
      /\ \A j : j \in 4..4 <=> j = 4
      /\ \A j : j \notin 5..4
  OBVIOUS
<1>4. ASSUME NEW c \in [1..4 -> Octets]
      PROVE  /\ addr(c)[1] = IF c[2] >= 128 \/ c[3] >= 128 \/ c[4] >= 128 THEN 255 ELSE c[1]
             /\ addr(c)[2] = IF c[3] >= 128 \/ c[4] >= 128 THEN 255 ELSE c[2]
             /\ addr(c)[3] = IF c[4] >= 128 THEN 255 ELSE c[3]
             /\ addr(c)[4] = c[4]
  <2>1. \A i \in 1..4 : addr(c)[i] = IF \E j \in (i + 1)..4 : c[j] >= 128 THEN 255 ELSE c[i]
    BY DEF addr
  <2> QED
    BY <1>3, <2>1
<1>5. addr(a) = addr(b) <=> \A i \in 1..4 : addr(a)[i] = addr(b)[i]
  BY DEF addr
<1>6. addr(a) = addr(b) <=> /\ addr(a)[1] = addr(b)[1] /\ addr(a)[2] = addr(b)[2]
                            /\ addr(a)[3] = addr(b)[3] /\ addr(a)[4] = addr(b)[4]
  BY <1>2, <1>5
<1> DEFINE Same(i) == a[i] = b[i]
           High(j) == a[j] >= 128 /\ a[j] = b[j]
<1>7. (\A i \in 1..4 : Same(i) \/ \E j \in (i + 1)..4 : High(j)) <=>
         /\ Same(1) \/ High(2) \/ High(3) \/ High(4)
         /\ Same(2) \/ High(3) \/ High(4)
         /\ Same(3) \/ High(4)
         /\ Same(4)
  <2> HIDE DEF Same, High
  <2> QED
    BY <1>2, <1>3
<1>8. (addr(a) = addr(b)) <=>
         /\ Same(1) \/ High(2) \/ High(3) \/ High(4)
         /\ Same(2) \/ High(3) \/ High(4)
         /\ Same(3) \/ High(4)
         /\ Same(4)
  BY <1>1, <1>4, <1>6
<1> QED
  BY <1>7, <1>8

-----------------------------------------------------------------------------
(* The Accept comes before the data. *)

(* Sessions whose Accept the UE's NAS task has or had in its queue, ...       *)
Handed == {s \in Sessions : s \in accepted \/ Accept(s) \in Elems(nas[s.ue])}

(* ... whose Accept is that far or in the queue of the UE's MR task, ...      *)
AtUe == {s \in Sessions : s \in Handed \/ Accept(s) \in Elems(ueMr[s.ue])}

(* ... and whose Accept was sent at all.                                     *)
Sent == {s \in Sessions : s \in AtUe \/ Accept(s) \in Elems(gnbMr)}

(* A downlink packet in queue q follows the Accept of its session, which is   *)
(* ahead of it in q or belongs to a session in A, whose Accept is further on. *)
Follows(q, A) ==
    \A i \in 1..Len(q), s \in Sessions :
        q[i].type = "downlink" /\ q[i].of = s
            => s \in A \/ \E j \in 1..(i - 1) : q[j] = Accept(s)

FollowInv ==
    /\ successList \cup confirmed \subseteq Sent
    /\ \A m \in Elems(gtp) : m.type = "gpdu" => m.of \in Sent
    /\ Follows(gnbMr, AtUe)
    /\ \A u \in Ues : Follows(ueMr[u], Handed)
    /\ \A m \in app : m.of \in Handed

(* The order only gets easier to keep as Accepts move on. *)
LEMMA FollowsGrows ==
    ASSUME NEW q, NEW A, NEW U, A \subseteq U, Follows(q, A)
    PROVE  Follows(q, U)
  BY DEF Follows

(* A packet may join a queue behind the Accept of its session. *)
LEMMA FollowsAppend ==
    ASSUME NEW S, NEW q \in Seq(S), NEW A, Follows(q, A), NEW x,
           x.type = "downlink" => x.of \in A \/ Accept(x.of) \in Elems(q)
    PROVE  Follows(Append(q, x), A)
<1> DEFINE r == Append(q, x)
<1>1. Len(r) = Len(q) + 1 /\ r[Len(q) + 1] = x /\ Len(q) \in Nat
  OBVIOUS
<1>2. \A i \in 1..Len(q) : r[i] = q[i]
  OBVIOUS
<1> HIDE DEF r
<1>3. ASSUME NEW i \in 1..Len(r), NEW s \in Sessions, r[i].type = "downlink", r[i].of = s
      PROVE  s \in A \/ \E j \in 1..(i - 1) : r[j] = Accept(s)
  <2>1. CASE i \in 1..Len(q)
    <3>1. r[i] = q[i] /\ \A j \in 1..(i - 1) : r[j] = q[j]
      BY <1>1, <1>2, <2>1
    <3> QED
      BY <1>3, <2>1, <3>1 DEF Follows
  <2>2. CASE i = Len(q) + 1
    <3>1. i - 1 = Len(q) /\ r[i] = x
      BY <1>1, <2>2
    <3>2. Accept(s) \in Elems(q) => \E j \in 1..Len(q) : r[j] = Accept(s)
      BY <1>2 DEF Elems
    <3> QED
      BY <1>3, <3>1, <3>2
  <2> QED
    BY <1>1, <2>1, <2>2
<1> QED
  BY <1>3 DEF Follows, r

(* An Accept that leaves a queue at its head has moved on. *)
LEMMA FollowsTail ==
    ASSUME NEW S, NEW q \in Seq(S), q # <<>>, NEW A, NEW U, Follows(q, A), A \subseteq U,
           \A s \in Sessions : Head(q) = Accept(s) => s \in U
    PROVE  Follows(Tail(q), U)
<1> DEFINE r == Tail(q)
<1>1. Len(r) = Len(q) - 1 /\ Len(q) \in Nat \ {0} /\ Head(q) = q[1]
  OBVIOUS
<1>2. \A i \in 1..Len(r) : r[i] = q[i + 1]
  OBVIOUS
<1> HIDE DEF r
<1>3. ASSUME NEW i \in 1..Len(r), NEW s \in Sessions, r[i].type = "downlink", r[i].of = s
      PROVE  s \in U \/ \E j \in 1..(i - 1) : r[j] = Accept(s)
  <2>1. i + 1 \in 1..Len(q) /\ r[i] = q[i + 1] /\ (i + 1) - 1 = i
    BY <1>1, <1>2
  <2>2. s \in A \/ \E j \in 1..i : q[j] = Accept(s)
    <3>1. s \in A \/ \E j \in 1..((i + 1) - 1) : q[j] = Accept(s)
      BY <1>3, <2>1 DEF Follows
    <3> QED
      BY <2>1, <3>1
  <2>3. ASSUME NEW j \in 1..i, q[j] = Accept(s)
        PROVE  s \in U \/ \E k \in 1..(i - 1) : r[k] = Accept(s)
    <3>1. CASE j = 1
      BY <1>1, <2>3, <3>1
    <3>2. CASE j # 1
      <4>1. j - 1 \in 1..(i - 1) /\ j - 1 \in 1..Len(r) /\ (j - 1) + 1 = j
        BY <1>1, <3>2
      <4>2. r[j - 1] = Accept(s)
        BY <1>2, <2>3, <4>1
      <4> QED
        BY <4>1, <4>2
    <3> QED
      BY <3>1, <3>2
  <2> QED
    BY <2>2, <2>3
<1> QED
  BY <1>3 DEF Follows, r

(* The first packet of a queue follows an Accept that is further on. *)
LEMMA FollowsHead ==
    ASSUME NEW S, NEW q \in Seq(S), q # <<>>, NEW A, Follows(q, A),
           Head(q).type = "downlink", Head(q).of \in Sessions
    PROVE  Head(q).of \in A
<1>1. Head(q) = q[1] /\ 1 \in 1..Len(q) /\ 1..(1 - 1) = {}
  OBVIOUS
<1> QED
  BY <1>1 DEF Follows

(* The Accept in a message. *)
LEMMA AcceptSession == \A s, t : Accept(s) = Accept(t) => s = t
<1>1. \A s : Accept(s).session = s
  BY DEF Accept
<1> QED
  BY <1>1

(* An Accept only moves on. *)
LEMMA AcceptMovesOn ==
    ASSUME TypeOK, [Next]_vars
    PROVE  Handed \subseteq Handed' /\ AtUe \subseteq AtUe' /\ Sent \subseteq Sent'
<1> USE QueueTypes, SessionUe
<1>1. CASE UNCHANGED <<gnbMr, ueMr, nas, accepted>>
  BY <1>1 DEF Handed, AtUe, Sent
<1>2. ASSUME NEW x, gnbMr' = Append(gnbMr, x), UNCHANGED <<ueMr, nas, accepted>>
      PROVE  Handed \subseteq Handed' /\ AtUe \subseteq AtUe' /\ Sent \subseteq Sent'
  <2>1. Elems(gnbMr') = Elems(gnbMr) \cup {x}
    BY <1>2, ElemsAppend
  <2> QED
    BY <1>2, <2>1 DEF Handed, AtUe, Sent
<1>3. CASE sendAccept
  BY <1>2, <1>3 DEF sendAccept
<1>4. CASE handleDownlinkGtp
  BY <1>1, <1>2, <1>4 DEF handleDownlinkGtp
<1>5. CASE gnbMrMain
  <2> DEFINE m == Head(gnbMr)
  <2>1. /\ gnbMr # <<>> /\ gnbMr' = Tail(gnbMr) /\ m \in MrMessages
        /\ UNCHANGED <<nas, accepted>>
    BY <1>5, HeadTail DEF gnbMrMain
  <2>2. Elems(gnbMr) = {m} \cup Elems(gnbMr')
    BY <2>1, ElemsTail
  <2>3. Handed' = Handed
    BY <2>1 DEF Handed
  <2>4. CASE m.type = "accept"
    <3>1. m.session \in Sessions /\ m = Accept(m.session)
      BY <2>1, <2>4, MrKinds, MessageTypes
    <3>2. ueMr' = [ueMr EXCEPT ![m.session.ue] = Append(@, m)]
      BY <1>5, <2>4 DEF gnbMrMain
    <3>3. \A v \in Ues : Elems(ueMr'[v]) = IF v = m.session.ue THEN Elems(ueMr[v]) \cup {m}
                                                              ELSE Elems(ueMr[v])
      BY <3>1, <3>2, EnqueueElems
    <3>4. AtUe \subseteq AtUe' /\ m.session \in AtUe'
      BY <2>3, <3>1, <3>3 DEF AtUe
    <3>5. \A s \in Sessions : Accept(s) = m => s = m.session
      BY <3>1, AcceptSession
    <3> HIDE DEF m
    <3> QED
      BY <2>2, <2>3, <3>4, <3>5 DEF Sent
  <2>5. CASE m.type # "accept"
    <3>1. \A s \in Sessions : Accept(s) # m
      BY <2>5 DEF Accept
    <3>2. \A v \in Ues : Elems(ueMr[v]) \subseteq Elems(ueMr'[v])
      <4>1. CASE ueMr' = ueMr
        BY <4>1
      <4>2. ASSUME m.type = "downlink", ueMr' = [ueMr EXCEPT ![m.ue] = Append(@, m)]
            PROVE  \A v \in Ues : Elems(ueMr[v]) \subseteq Elems(ueMr'[v])
        <5>1. m.ue \in Ues
          BY <2>1, <4>2, MrKinds, MessageTypes
        <5> HIDE DEF m
        <5>2. \A v \in Ues : Elems([ueMr EXCEPT ![m.ue] = Append(@, m)][v]) =
                                IF v = m.ue THEN Elems(ueMr[v]) \cup {m} ELSE Elems(ueMr[v])
          BY <5>1, EnqueueElems
        <5> QED
          BY <4>2, <5>2
      <4> QED
        BY <1>5, <2>5, <4>1, <4>2 DEF gnbMrMain
    <3>3. AtUe \subseteq AtUe'
      BY <2>3, <3>2 DEF AtUe
    <3> HIDE DEF m
    <3> QED
      BY <2>2, <2>3, <3>1, <3>3 DEF Sent
  <2> QED
    BY <2>4, <2>5
<1>6. ASSUME NEW u \in Ues, ueMrMain(u)
      PROVE  Handed \subseteq Handed' /\ AtUe \subseteq AtUe' /\ Sent \subseteq Sent'
  <2> DEFINE m == Head(ueMr[u])
  <2>1. /\ ueMr[u] # <<>> /\ ueMr' = [ueMr EXCEPT ![u] = Tail(@)] /\ UNCHANGED accepted
        /\ gnbMr' = gnbMr \/ gnbMr' = Append(gnbMr, m)
    BY <1>6 DEF ueMrMain
  <2>2. /\ Elems(ueMr[u]) = {m} \cup Elems(Tail(ueMr[u])) /\ m \in MrMessages
        /\ \A v \in Ues : Elems(ueMr'[v]) = IF v = u THEN Elems(Tail(ueMr[v])) ELSE Elems(ueMr[v])
    <3>1. /\ Elems(ueMr[u]) = {m} \cup Elems(Tail(ueMr[u])) /\ m \in MrMessages
          /\ \A v \in Ues : Elems([ueMr EXCEPT ![u] = Tail(@)][v]) =
                                IF v = u THEN Elems(Tail(ueMr[v])) ELSE Elems(ueMr[v])
      BY <2>1, DequeueElems
    <3> QED
      BY <2>1, <3>1
  <2>3. Elems(gnbMr) \subseteq Elems(gnbMr')
    BY <2>1, ElemsAppend
  <2>4. /\ m.type = "accept" => nas' = [nas EXCEPT ![u] = Append(@, m)]
        /\ m.type # "accept" => nas' = nas
    BY <1>6 DEF ueMrMain
  <2>5. \A v \in Ues : Elems([nas EXCEPT ![u] = Append(@, m)][v]) =
                          IF v = u THEN Elems(nas[v]) \cup {m} ELSE Elems(nas[v])
    BY EnqueueElems
  <2>6. m.type # "accept" => \A s \in Sessions : Accept(s) # m
    BY DEF Accept
  <2> HIDE DEF m
  <2>7. \A v \in Ues : Elems(nas[v]) \subseteq Elems(nas'[v])
    BY <2>4, <2>5
  <2>8. Handed \subseteq Handed'
    BY <2>1, <2>7 DEF Handed
  <2>9. ASSUME NEW s \in Sessions, Accept(s) \in Elems(ueMr[s.ue])
        PROVE  Accept(s) \in Elems(ueMr'[s.ue]) \/ Accept(s) \in Elems(nas'[s.ue])
    <3>1. CASE s.ue = u /\ Accept(s) = m
      BY <2>4, <2>5, <2>6, <3>1
    <3>2. CASE ~(s.ue = u /\ Accept(s) = m)
      BY <2>2, <2>9, <3>2
    <3> QED
      BY <3>1, <3>2
  <2>10. AtUe \subseteq AtUe'
    BY <2>8, <2>9 DEF AtUe, Handed
  <2> QED
    BY <2>3, <2>8, <2>10 DEF Sent
<1>7. ASSUME NEW u \in Ues, receiveEstablishmentAccept(u)
      PROVE  Handed \subseteq Handed' /\ AtUe \subseteq AtUe' /\ Sent \subseteq Sent'
  <2>1. /\ nas[u] # <<>> /\ nas' = [nas EXCEPT ![u] = Tail(@)] /\ UNCHANGED <<gnbMr, ueMr>>
        /\ accepted' = accepted \cup {Head(nas[u]).session}
    BY <1>7 DEF receiveEstablishmentAccept
  <2>2. /\ Elems(nas[u]) = {Head(nas[u])} \cup Elems(Tail(nas[u]))
        /\ \A v \in Ues : Elems([nas EXCEPT ![u] = Tail(@)][v]) =
                              IF v = u THEN Elems(Tail(nas[v])) ELSE Elems(nas[v])
    BY <2>1, DequeueElems
  <2>3. \A s \in Sessions : Accept(s) = Head(nas[u]) => s \in accepted'
    BY <2>1 DEF Accept
  <2>4. Handed \subseteq Handed'
    BY <2>1, <2>2, <2>3 DEF Handed
  <2> QED
    BY <2>1, <2>4 DEF AtUe, Sent
<1>8. ASSUME NEW u \in Ues, NEW x, ueMr' = [ueMr EXCEPT ![u] = Append(@, x)],
             UNCHANGED <<gnbMr, nas, accepted>>
      PROVE  Handed \subseteq Handed' /\ AtUe \subseteq AtUe' /\ Sent \subseteq Sent'
  <2>1. \A v \in Ues : Elems([ueMr EXCEPT ![u] = Append(@, x)][v]) =
                          IF v = u THEN Elems(ueMr[v]) \cup {x} ELSE Elems(ueMr[v])
    BY EnqueueElems
  <2> QED
    BY <1>8, <2>1 DEF Handed, AtUe, Sent
<1>9. ASSUME NEW of \in Sessions, handleUplinkData(of)
      PROVE  Handed \subseteq Handed' /\ AtUe \subseteq AtUe' /\ Sent \subseteq Sent'
  <2>1. UNCHANGED <<gnbMr, nas, accepted>>
    BY <1>9 DEF handleUplinkData
  <2>2. PICK target \in Lookups(addr(of.address)) :
           IF target = NONE THEN UNCHANGED ueMr
           ELSE ueMr' = [ueMr EXCEPT ![target.ue] = Append(@, Uplink(target, of, data + 1))]
    BY <1>9 DEF handleUplinkData
  <2>3. target # NONE => target \in Sessions
    BY <2>2 DEF Lookups, TypeOK
  <2> QED
    BY <1>1, <1>8, <2>1, <2>2, <2>3
<1>10. ASSUME NEW s \in Sessions, AppSends(s)
       PROVE  Handed \subseteq Handed' /\ AtUe \subseteq AtUe' /\ Sent \subseteq Sent'
  BY <1>8, <1>10 DEF AppSends
<1>11. CASE \/ \E items \in ItemLists : AmfRequests(items)
            \/ refuseItem \/ pduResourceSetup \/ sendResponse
            \/ handleTunnelCreate \/ gtpHandleUplinkData \/ Bridge \/ UNCHANGED vars
            \/ \E s \in Sessions : UpfSends(s)
  BY <1>1, <1>11
     DEF AmfRequests, refuseItem, pduResourceSetup, sendResponse, handleTunnelCreate,
         gtpHandleUplinkData, Bridge, handleSessionEstablishment, RouteEntered, handleDownlinkData,
         UpfSends, vars
<1> QED
  BY <1>3, <1>4, <1>5, <1>6, <1>7, <1>9, <1>10, <1>11 DEF Next, Ngap, Gtp
(* Each step keeps the order of Accept and data: the confirmation, and with    *)
(* it the data, comes after the Accept was sent, and both take the same way.  *)
LEMMA FollowStep == TypeOK /\ DownInv /\ FollowInv /\ [Next]_vars => FollowInv'
<1> SUFFICES ASSUME TypeOK, DownInv, FollowInv, [Next]_vars PROVE FollowInv'
  OBVIOUS
<1> USE QueueTypes
<1>0. Handed \subseteq Handed' /\ AtUe \subseteq AtUe' /\ Sent \subseteq Sent'
  BY AcceptMovesOn
<1>1. /\ successList \cup confirmed \subseteq Sent'
      /\ \A m \in Elems(gtp) : m.type = "gpdu" => m.of \in Sent'
      /\ Follows(gnbMr, AtUe')
      /\ \A u \in Ues : Follows(ueMr[u], Handed')
      /\ \A m \in app : m.of \in Handed'
  <2>1. Follows(gnbMr, AtUe') /\ \A u \in Ues : Follows(ueMr[u], Handed')
    BY <1>0, FollowsGrows DEF FollowInv
  <2> QED
    BY <1>0, <2>1 DEF FollowInv
<1>2. CASE UNCHANGED <<gtp, gnbMr, ueMr, app>> /\ successList' \cup confirmed' \subseteq Sent'
  BY <1>1, <1>2 DEF FollowInv
<1>3. ASSUME NEW x, gtp' = Append(gtp, x), x.type = "gpdu" => x.of \in Sent',
             UNCHANGED <<gnbMr, ueMr, app, successList, confirmed>>
      PROVE  FollowInv'
  <2>1. Elems(gtp') = Elems(gtp) \cup {x}
    BY <1>3, ElemsAppend
  <2> QED
    BY <1>1, <1>3, <2>1 DEF FollowInv
<1>4. CASE pduResourceSetup
  BY <1>3, <1>4 DEF pduResourceSetup, Create, netVars, sinkVars
<1>5. CASE sendAccept
  <2> DEFINE s == Head(request).session
  <2>1. /\ gnbMr' = Append(gnbMr, Accept(s)) /\ successList' = successList \cup {s}
        /\ UNCHANGED <<gtp, ueMr, app, confirmed>>
    BY <1>5 DEF sendAccept, netVars, sinkVars
  <2>2. s \in Sessions
    <3>1. request \in Seq(Items) /\ request # <<>>
      BY <1>5 DEF sendAccept, TypeOK, Items
    <3>2. Head(request) \in Items
      BY <3>1, HeadTail
    <3> QED
      BY <3>2 DEF Items
  <2>3. Accept(s).type # "downlink"
    BY DEF Accept
  <2> HIDE DEF s
  <2>4. Elems(gnbMr') = Elems(gnbMr) \cup {Accept(s)}
    BY <2>1, ElemsAppend
  <2>5. s \in Sent'
    BY <2>2, <2>4 DEF Sent
  <2>6. Follows(gnbMr', AtUe')
    BY <1>1, <2>1, <2>3, FollowsAppend
  <2> QED
    BY <1>1, <2>1, <2>5, <2>6 DEF FollowInv
<1>6. CASE handleTunnelCreate \/ gtpHandleUplinkData
  <2>1. gtp # <<>> /\ gtp' = Tail(gtp) /\ UNCHANGED <<gnbMr, ueMr, app, successList, confirmed>>
    BY <1>6 DEF handleTunnelCreate, gtpHandleUplinkData, Is, setupVars, netVars, sinkVars
  <2>2. Elems(gtp) = {Head(gtp)} \cup Elems(gtp')
    BY <2>1, ElemsTail
  <2> QED
    BY <1>1, <2>1, <2>2 DEF FollowInv
<1>7. CASE handleDownlinkGtp
  <2> DEFINE m == Head(gtp)
             tunnel == downlinkTunnel(m)
             x == Downlink(tunnel.ue, m.of, m.id)
  <2>1. /\ gtp # <<>> /\ gtp' = Tail(gtp) /\ m.type = "gpdu"
        /\ UNCHANGED <<ueMr, app, successList, confirmed>>
        /\ gnbMr' = gnbMr \/ gnbMr' = Append(gnbMr, x)
    BY <1>7 DEF handleDownlinkGtp, Is, setupVars, netVars
  <2>2. Elems(gtp) = {m} \cup Elems(gtp')
    BY <2>1, ElemsTail
  <2>3. m.of \in AtUe \/ Accept(m.of) \in Elems(gnbMr)
    BY <2>1, <2>2 DEF FollowInv, Sent
  <2>4. x.of = m.of
    BY DEF Downlink
  <2> HIDE DEF m, x
  <2>5. Follows(gnbMr', AtUe')
    BY <1>0, <1>1, <2>1, <2>3, <2>4, FollowsAppend
  <2> QED
    BY <1>1, <2>1, <2>2, <2>5 DEF FollowInv
<1>8. CASE gnbMrMain
  <2> DEFINE m == Head(gnbMr)
  <2>1. /\ gnbMr # <<>> /\ gnbMr' = Tail(gnbMr) /\ m \in MrMessages
        /\ UNCHANGED <<nas, app, accepted, successList, confirmed>>
    BY <1>8, HeadTail DEF gnbMrMain, setupVars, netVars, sinkVars
  <2>2. Elems(gnbMr) = {m} \cup Elems(gnbMr')
    BY <2>1, ElemsTail
  <2>3. \A n \in Elems(gtp') : n.type = "gpdu" => n.of \in Sent'
    <3>1. gtp' = gtp \/ (m.type = "uplink" /\ gtp' = Append(gtp, m))
      BY <1>8 DEF gnbMrMain
    <3> HIDE DEF m
    <3>2. gtp' = gtp \/ (m.type = "uplink" /\ Elems(gtp') = Elems(gtp) \cup {m})
      BY <3>1, ElemsAppend
    <3> QED
      BY <1>1, <3>2
  <2>4. \A s \in Sessions : m = Accept(s) => s \in AtUe'
    <3>1. ASSUME NEW s \in Sessions, m = Accept(s) PROVE s \in AtUe'
      <4>1. m.type = "accept" /\ m.session = s
        BY <3>1 DEF Accept
      <4>2. ueMr' = [ueMr EXCEPT ![s.ue] = Append(@, m)] /\ s.ue \in Ues
        BY <1>8, <4>1, SessionUe DEF gnbMrMain
      <4>3. m \in Elems(ueMr'[s.ue])
        <5> HIDE DEF m
        <5>1. \A v \in Ues : Elems([ueMr EXCEPT ![s.ue] = Append(@, m)][v]) =
                                IF v = s.ue THEN Elems(ueMr[v]) \cup {m} ELSE Elems(ueMr[v])
          BY <4>2, EnqueueElems
        <5> QED
          BY <4>2, <5>1
      <4> QED
        BY <3>1, <4>3 DEF AtUe
    <3> QED
      BY <3>1
  <2>5. Follows(gnbMr', AtUe')
    <3> HIDE DEF m
    <3>1. Follows(gnbMr, AtUe)
      BY DEF FollowInv
    <3>2. \A s \in Sessions : Head(gnbMr) = Accept(s) => s \in AtUe'
      BY <2>4 DEF m
    <3>3. Follows(Tail(gnbMr), AtUe')
      BY <1>0, <2>1, <3>1, <3>2, FollowsTail
    <3> QED
      BY <2>1, <3>3
  <2>6. ASSUME NEW u \in Ues PROVE Follows(ueMr'[u], Handed')
    <3>1. CASE ueMr'[u] = ueMr[u]
      BY <1>1, <3>1
    <3>2. ASSUME ueMr'[u] = Append(ueMr[u], m), m.type = "accept" PROVE Follows(ueMr'[u], Handed')
      BY <1>1, <3>2, FollowsAppend
    <3>3. ASSUME ueMr'[u] = Append(ueMr[u], m), m.type = "downlink", m.ue = u
          PROVE  Follows(ueMr'[u], Handed')
      <4>1. m.of \in Sessions /\ m.of.ue = u
        BY <2>1, <2>2, <3>3, MrKinds, MessageTypes DEF DownInv
      <4>2. m.of \in AtUe
        BY <2>1, <3>3, <4>1, FollowsHead DEF FollowInv
      <4>3. m.of \in Handed' \/ Accept(m.of) \in Elems(ueMr[u])
        BY <1>0, <4>1, <4>2 DEF AtUe
      <4> HIDE DEF m
      <4> QED
        BY <1>1, <3>3, <4>3, FollowsAppend
    <3>4. \/ ueMr'[u] = ueMr[u]
          \/ ueMr'[u] = Append(ueMr[u], m) /\ m.type = "accept"
          \/ ueMr'[u] = Append(ueMr[u], m) /\ m.type = "downlink" /\ m.ue = u
      BY <1>8 DEF gnbMrMain
    <3> QED
      BY <3>1, <3>2, <3>3, <3>4
  <2> QED
    BY <1>1, <2>1, <2>3, <2>5, <2>6 DEF FollowInv
<1>9. ASSUME NEW u \in Ues, ueMrMain(u) PROVE FollowInv'
  <2> DEFINE m == Head(ueMr[u])
  <2>1. /\ ueMr[u] # <<>> /\ ueMr' = [ueMr EXCEPT ![u] = Tail(@)]
        /\ UNCHANGED <<gtp, accepted, successList, confirmed>>
    BY <1>9 DEF ueMrMain, setupVars, netVars
  <2>2. m \in MrMessages /\ Elems(ueMr[u]) = {m} \cup Elems(Tail(ueMr[u]))
    <3>1. ueMr[u] \in Seq(MrMessages)
      OBVIOUS
    <3> QED
      BY <2>1, <3>1, ElemsTail, HeadTail
  <2>3. Follows(gnbMr', AtUe')
    <3>1. gnbMr' = gnbMr \/ (m.type = "uplink" /\ gnbMr' = Append(gnbMr, m))
      BY <1>9 DEF ueMrMain
    <3> HIDE DEF m
    <3> QED
      BY <1>1, <3>1, FollowsAppend
  <2>4. ASSUME NEW v \in Ues PROVE Follows(ueMr'[v], Handed')
    <3>1. CASE v # u
      BY <1>1, <2>1, <3>1
    <3>2. CASE v = u
      <4>1. ueMr'[u] = Tail(ueMr[u])
        BY <2>1
      <4>2. ASSUME NEW i \in 1..Len(Tail(ueMr[u])), NEW s \in Sessions,
                   Tail(ueMr[u])[i].type = "downlink", Tail(ueMr[u])[i].of = s, m = Accept(s)
            PROVE  s \in Handed'
        <5>1. Tail(ueMr[u])[i] \in Elems(ueMr[u])
          <6>1. Tail(ueMr[u])[i] \in Elems(Tail(ueMr[u]))
            BY DEF Elems
          <6> QED
            BY <2>2, <6>1
        <5>2. s.ue = u
          BY <4>2, <5>1 DEF DownInv
        <5>3. m.type = "accept" /\ nas' = [nas EXCEPT ![u] = Append(@, m)]
          BY <1>9, <4>2 DEF ueMrMain, Accept
        <5>4. m \in Elems(nas'[u])
          <6> HIDE DEF m
          <6>1. \A w \in Ues : Elems([nas EXCEPT ![u] = Append(@, m)][w]) =
                                  IF w = u THEN Elems(nas[w]) \cup {m} ELSE Elems(nas[w])
            BY EnqueueElems
          <6> QED
            BY <5>3, <6>1
        <5> QED
          BY <4>2, <5>2, <5>4 DEF Handed
      <4> DEFINE U == Handed' \cup {s \in Sessions : m = Accept(s)}
      <4>3. Follows(Tail(ueMr[u]), U)
        <5>1. Follows(ueMr[u], Handed) /\ ueMr[u] \in Seq(MrMessages)
          BY DEF FollowInv
        <5>2. Handed \subseteq U /\ \A s \in Sessions : Head(ueMr[u]) = Accept(s) => s \in U
          BY <1>0
        <5> HIDE DEF U, m
        <5> QED
          BY <2>1, <5>1, <5>2, FollowsTail
      <4>4. Follows(Tail(ueMr[u]), Handed')
        BY <4>2, <4>3 DEF Follows
      <4> QED
        BY <3>2, <4>1, <4>4
    <3> QED
      BY <3>1, <3>2
  <2>5. \A n \in app' : n.of \in Handed'
    <3>1. CASE m.type = "downlink"
      <4>1. m.of \in Sessions
        BY <2>2, <3>1, MrKinds, MessageTypes
      <4>2. m.of \in Handed
        BY <2>1, <3>1, <4>1, FollowsHead DEF FollowInv
      <4>3. app' = app \cup {[ue |-> u, of |-> m.of, id |-> m.id]}
        BY <1>9, <3>1 DEF ueMrMain
      <4> QED
        BY <1>0, <1>1, <4>2, <4>3
    <3>2. CASE m.type # "downlink"
      BY <1>1, <1>9, <3>2 DEF ueMrMain
    <3> QED
      BY <3>1, <3>2
  <2> QED
    BY <1>1, <2>1, <2>3, <2>4, <2>5 DEF FollowInv
<1>10. ASSUME NEW s \in Sessions, NEW of, NEW n, UNCHANGED <<gtp, gnbMr, app, successList, confirmed>>,
              ueMr' = [ueMr EXCEPT ![s.ue] = Append(@, Uplink(s, of, n))]
       PROVE  FollowInv'
  <2>1. Uplink(s, of, n).type # "downlink"
    BY DEF Uplink
  <2>2. ASSUME NEW v \in Ues PROVE Follows(ueMr'[v], Handed')
    <3>1. ueMr'[v] = ueMr[v] \/ ueMr'[v] = Append(ueMr[v], Uplink(s, of, n))
      BY <1>10
    <3> QED
      BY <1>1, <2>1, <3>1, FollowsAppend
  <2> QED
    BY <1>1, <1>10, <2>2 DEF FollowInv
<1>11. ASSUME NEW of \in Sessions, handleUplinkData(of) PROVE FollowInv'
  <2>1. UNCHANGED <<gtp, gnbMr, app, successList, confirmed>>
    BY <1>11 DEF handleUplinkData, setupVars, netVars, sinkVars
  <2>2. PICK target \in Lookups(addr(of.address)) :
           IF target = NONE THEN UNCHANGED ueMr
           ELSE ueMr' = [ueMr EXCEPT ![target.ue] = Append(@, Uplink(target, of, data + 1))]
    BY <1>11 DEF handleUplinkData
  <2>3. target # NONE => target \in Sessions
    BY <2>2 DEF Lookups, TypeOK
  <2>4. CASE UNCHANGED ueMr
    BY <1>1, <2>1, <2>4 DEF FollowInv
  <2> QED
    BY <1>10, <2>1, <2>2, <2>3, <2>4
<1>12. ASSUME NEW s \in Sessions, AppSends(s) PROVE FollowInv'
  BY <1>10, <1>12 DEF AppSends, setupVars, netVars, sinkVars
<1>13. ASSUME NEW s \in Sessions, UpfSends(s) PROVE FollowInv'
  <2>1. s \in Sent'
    BY <1>1, <1>13 DEF UpfSends
  <2>2. Gpdu(s.teid, s, data + 1).of = s
    BY DEF Gpdu
  <2> QED
    BY <1>3, <1>13, <2>1, <2>2 DEF UpfSends, setupVars, netVars, sinkVars
<1>14. ASSUME NEW u \in Ues, receiveEstablishmentAccept(u) PROVE FollowInv'
  BY <1>1, <1>2, <1>14 DEF receiveEstablishmentAccept, setupVars, netVars, sinkVars
<1>15. CASE \/ \E items \in ItemLists : AmfRequests(items)
            \/ refuseItem \/ sendResponse \/ Bridge \/ UNCHANGED vars
  BY <1>1, <1>2, <1>15
     DEF AmfRequests, refuseItem, sendResponse, Bridge, handleSessionEstablishment, RouteEntered,
         handleDownlinkData, vars, setupVars, netVars, sinkVars
<1> QED
  BY <1>4, <1>5, <1>6, <1>7, <1>8, <1>9, <1>11, <1>12, <1>13, <1>14, <1>15
     DEF Next, Ngap, Gtp, Bridge

(* Nothing is on its way at first. *)
LEMMA InitFollow == Init => FollowInv
<1> SUFFICES ASSUME Init PROVE FollowInv
  OBVIOUS
<1>1. Elems(<<>>) = {} /\ \A A : Follows(<<>>, A)
  BY DEF Elems, Follows
<1> QED
  BY <1>1 DEF Init, FollowInv

(* Data never overtakes the Accept of its session: the gNB confirms a session *)
(* after sending its Accept, and the packets take the way the Accept took.     *)
THEOREM AcceptBeforeData == Spec => []DataFollowsAccept
<1>1. TypeOK /\ DownInv /\ FollowInv => DataFollowsAccept
  <2> SUFFICES ASSUME TypeOK, DownInv, FollowInv, NEW m \in app
               PROVE  m.of \in accepted \/ \E i \in DOMAIN nas[m.ue] : nas[m.ue][i] = Accept(m.of)
    BY DEF DataFollowsAccept
  <2>1. m.of \in Handed /\ m.ue = m.of.ue
    BY DEF FollowInv, DownInv
  <2>2. m.of.ue \in Ues /\ nas[m.of.ue] \in Seq(Accepts)
    BY <2>1, QueueTypes, SessionUe DEF Handed
  <2>3. DOMAIN nas[m.of.ue] = 1..Len(nas[m.of.ue])
    BY <2>2
  <2> QED
    BY <2>1, <2>3 DEF Handed, Elems
<1> QED
  BY <1>1, InitDown, DownStep, InitFollow, FollowStep, TypeCorrect, PTL DEF Spec

-----------------------------------------------------------------------------
(* Routes. *)

RouteKeys == \A k \in DOMAIN ipRoute : k = addr(ipRoute[k].address)

(* A session that was accepted has its route, or it will be entered.         *)
Routed(s) ==
    \/ Establishment(s) \in Elems(tb) \/ putting = s
    \/ addr(s.address) \in DOMAIN ipRoute

KeptInv == RouteKeys /\ \A s \in accepted : Routed(s)

LEMMA KeptStep == TypeOK /\ KeptInv /\ [Next]_vars => KeptInv'
<1> SUFFICES ASSUME TypeOK, KeptInv, [Next]_vars PROVE KeptInv'
  OBVIOUS
<1> USE QueueTypes
<1>1. CASE UNCHANGED <<tb, putting, ipRoute, accepted>>
  BY <1>1 DEF KeptInv, RouteKeys, Routed
<1>2. CASE gnbMrMain
  <2>1. UNCHANGED <<putting, ipRoute, accepted>> /\ (tb' = tb \/ tb' = Append(tb, Head(gnbMr)))
    BY <1>2 DEF gnbMrMain, tableVars
  <2>2. Elems(tb) \subseteq Elems(tb')
    BY <2>1, ElemsAppend
  <2> QED
    BY <2>1, <2>2 DEF KeptInv, RouteKeys, Routed
<1>3. ASSUME NEW u \in Ues, receiveEstablishmentAccept(u) PROVE KeptInv'
  <2> DEFINE s == Head(nas[u]).session
  <2>1. /\ UNCHANGED <<putting, ipRoute>> /\ accepted' = accepted \cup {s}
        /\ tb' = Append(tb, Establishment(s))
    BY <1>3 DEF receiveEstablishmentAccept, tableVars
  <2> HIDE DEF s
  <2>2. Elems(tb') = Elems(tb) \cup {Establishment(s)}
    BY <2>1, ElemsAppend
  <2> QED
    BY <2>1, <2>2 DEF KeptInv, RouteKeys, Routed
<1>4. CASE handleSessionEstablishment
  <2>1. /\ tb # <<>> /\ tb' = Tail(tb) /\ Head(tb).type = "establishment" /\ putting = NONE
        /\ putting' = Head(tb).session /\ UNCHANGED <<ipRoute, accepted>>
    BY <1>4 DEF handleSessionEstablishment, Is
  <2>2. Elems(tb) = {Head(tb)} \cup Elems(tb')
    BY <2>1, ElemsTail
  <2>3. \A s \in accepted : s \in Sessions /\ s # NONE /\ Establishment(s).session = s
    BY NoneAssumption DEF TypeOK, Establishment
  <2> QED
    BY <2>1, <2>2, <2>3 DEF KeptInv, RouteKeys, Routed
<1>5. CASE RouteEntered
  BY <1>5 DEF RouteEntered, KeptInv, RouteKeys, Routed
<1>6. CASE handleDownlinkData
  <2>1. /\ tb # <<>> /\ tb' = Tail(tb) /\ Head(tb).type = "downlink"
        /\ UNCHANGED <<putting, ipRoute, accepted>>
    BY <1>6 DEF handleDownlinkData, Is, tableVars
  <2>2. Elems(tb) = {Head(tb)} \cup Elems(tb')
    BY <2>1, ElemsTail
  <2>3. \A s : Establishment(s) # Head(tb)
    BY <2>1 DEF Establishment
  <2> QED
    BY <2>1, <2>2, <2>3 DEF KeptInv, RouteKeys, Routed
<1>7. CASE \/ \E items \in ItemLists : AmfRequests(items)
           \/ Ngap \/ Gtp \/ UNCHANGED vars
           \/ \E u \in Ues : ueMrMain(u)
           \/ \E s \in Sessions : handleUplinkData(s) \/ AppSends(s) \/ UpfSends(s)
  BY <1>1, <1>7
     DEF AmfRequests, Ngap, refuseItem, pduResourceSetup, sendAccept, sendResponse, Gtp,
         handleTunnelCreate, gtpHandleUplinkData, handleDownlinkGtp, ueMrMain, handleUplinkData,
         AppSends, UpfSends, vars, tableVars
<1> QED
  BY <1>2, <1>3, <1>4, <1>5, <1>6, <1>7 DEF Next, Bridge

LEMMA KeptHolds == Spec => [](TypeOK /\ KeptInv)
<1>1. Init => KeptInv
  BY DEF Init, KeptInv, RouteKeys
<1> QED
  BY <1>1, KeptStep, TypeCorrect, PTL DEF Spec

(* The route of an accepted session is on its way or entered, whatever the   *)
(* order in which Accepts, packets and the routes of others are handled.     *)
RouteKept ==
    \A s \in accepted :
        \/ Establishment(s) \in Elems(tb) \/ putting = s
        \/ addr(s.address) \in DOMAIN ipRoute /\ ipRoute[addr(s.address)] = s

(* With distinct keys no accepted session's route is forgotten.              *)
THEOREM AcceptedRouteKept == KeysDistinct => (Spec => []RouteKept)
<1> SUFFICES ASSUME KeysDistinct PROVE Spec => []RouteKept
  OBVIOUS
<1>1. TypeOK /\ KeptInv => RouteKept
  <2> SUFFICES ASSUME TypeOK, KeptInv, NEW s \in accepted, addr(s.address) \in DOMAIN ipRoute
               PROVE  ipRoute[addr(s.address)] = s
    BY DEF KeptInv, Routed, RouteKept
  <2>1. s \in Sessions /\ ipRoute[addr(s.address)] \in Sessions
    BY DEF TypeOK
  <2>2. addr(ipRoute[addr(s.address)].address) = addr(s.address)
    BY DEF KeptInv, RouteKeys
  <2> QED
    BY <2>1, <2>2 DEF KeysDistinct
<1> QED
  BY <1>1, KeptHolds, PTL

(* A route that was entered stays.                                           *)
RoutesStay == \A k \in DOMAIN ipRoute : k \in DOMAIN ipRoute' /\ ipRoute'[k] = ipRoute[k]

(* With distinct keys no other session takes a route over.                   *)
THEOREM EnteredRoutesStay == KeysDistinct => (Spec => [][RoutesStay]_vars)
<1> SUFFICES ASSUME KeysDistinct PROVE Spec => [][RoutesStay]_vars
  OBVIOUS
<1>1. TypeOK /\ KeptInv /\ [Next]_vars => [RoutesStay]_vars
  <2> SUFFICES ASSUME TypeOK, KeptInv, [Next]_vars PROVE RoutesStay
    OBVIOUS
  <2>1. CASE RouteEntered
    <3>1. putting \in Sessions
      BY <2>1 DEF RouteEntered, TypeOK
    <3>2. \A k \in DOMAIN ipRoute : k = addr(putting.address) => ipRoute[k] = putting
      BY <3>1 DEF KeptInv, RouteKeys, KeysDistinct, TypeOK
    <3> QED
      BY <2>1, <3>2 DEF RouteEntered, RoutesStay
  <2>2. CASE UNCHANGED ipRoute
    BY <2>2 DEF RoutesStay
  <2> QED
    BY <2>1, <2>2
       DEF Next, AmfRequests, Ngap, refuseItem, pduResourceSetup, sendAccept, sendResponse, Gtp,
           handleTunnelCreate, gtpHandleUplinkData, handleDownlinkGtp, Bridge,
           handleSessionEstablishment, handleDownlinkData, gnbMrMain, ueMrMain,
           receiveEstablishmentAccept, handleUplinkData, AppSends, UpfSends, vars, tableVars
<1> QED
  BY <1>1, KeptHolds, PTL DEF Spec

(* Without collisions of keys a session is only announced as overwriting the *)
(* route of its own address.                                                 *)
THEOREM OverwritingCorrect == KeysDistinct => (Spec => []OverwritesSameAddress)
<1> SUFFICES ASSUME KeysDistinct PROVE Spec => []OverwritesSameAddress
  OBVIOUS
<1>1. TypeOK /\ KeptInv /\ OverwritesSameAddress /\ [Next]_vars => OverwritesSameAddress'
  <2> SUFFICES ASSUME TypeOK, KeptInv, OverwritesSameAddress, [Next]_vars
               PROVE  OverwritesSameAddress'
    OBVIOUS
  <2>1. CASE handleSessionEstablishment
    <3> DEFINE s == Head(tb).session
    <3>1. s \in Sessions
      <4>1. tb # <<>> /\ Head(tb).type = "establishment"
        BY <2>1 DEF handleSessionEstablishment, Is
      <4>2. Head(tb) \in TbMessages
        BY <4>1, QueueTypes, HeadTail
      <4> QED
        BY <4>1, <4>2, TbKinds
    <3>2. overwritten' = overwritten \cup
             {[new |-> s, old |-> ipRoute[k]] : k \in DOMAIN ipRoute \cap {addr(s.address)}}
      BY <2>1 DEF handleSessionEstablishment
    <3> HIDE DEF s
    <3>3. \A k \in DOMAIN ipRoute \cap {addr(s.address)} : ipRoute[k] = s
      BY <3>1 DEF KeptInv, RouteKeys, KeysDistinct, TypeOK
    <3>4. \A w \in overwritten' : w \in overwritten \/ (w.new = s /\ w.old = s)
      BY <3>2, <3>3
    <3> QED
      BY <3>4 DEF OverwritesSameAddress
  <2>2. CASE UNCHANGED overwritten
    BY <2>2 DEF OverwritesSameAddress
  <2> QED
    BY <2>1, <2>2
       DEF Next, AmfRequests, Ngap, refuseItem, pduResourceSetup, sendAccept, sendResponse, Gtp,
           handleTunnelCreate, gtpHandleUplinkData, handleDownlinkGtp, Bridge, RouteEntered,
           handleDownlinkData, gnbMrMain, ueMrMain, receiveEstablishmentAccept,
           handleUplinkData, AppSends, UpfSends, vars, tableVars
<1>2. Init => OverwritesSameAddress
  BY DEF Init, OverwritesSameAddress
<1> QED
  BY <1>1, <1>2, KeptHolds, PTL DEF Spec
-----------------------------------------------------------------------------
(* Packets on their way. *)

LEMMA QueueStep ==
    ASSUME NEW S, NEW q \in Seq(S), NEW x \in Elems(q), NEW r,
           r = q \/ (\E y : r = Append(q, y)) \/ (q # <<>> /\ r = Tail(q))
    PROVE  x \in Elems(r) \/ (q # <<>> /\ r = Tail(q) /\ x = Head(q))
<1>1. CASE r = q
  BY <1>1
<1>2. ASSUME NEW y, r = Append(q, y) PROVE x \in Elems(r)
  BY <1>2, ElemsAppend
<1>3. CASE q # <<>> /\ r = Tail(q)
  BY <1>3, ElemsTail
<1> QED
  BY <1>1, <1>2, <1>3

(* A message leaves a queue only when its turn comes. *)
LEMMA GtpWaits ==
    ASSUME TypeOK, [Next]_vars, NEW x \in Elems(gtp)
    PROVE  x \in Elems(gtp') \/ (gtp # <<>> /\ x = Head(gtp) /\ Gtp)
<1> USE QueueTypes
<1>1. CASE Gtp
  <2>1. gtp # <<>> /\ gtp' = Tail(gtp)
    BY <1>1 DEF Gtp, handleTunnelCreate, gtpHandleUplinkData, handleDownlinkGtp, Is
  <2> QED
    BY <1>1, <2>1, QueueStep
<1>2. CASE ~Gtp
  <2>1. gtp' = gtp \/ \E y : gtp' = Append(gtp, y)
    BY <1>2
       DEF Next, AmfRequests, Ngap, refuseItem, pduResourceSetup, sendAccept, sendResponse, Bridge,
           handleSessionEstablishment, RouteEntered, handleDownlinkData, gnbMrMain, ueMrMain,
           receiveEstablishmentAccept, handleUplinkData, AppSends, UpfSends, vars
  <2>2. ASSUME NEW y, gtp' = Append(gtp, y) PROVE x \in Elems(gtp')
    BY <2>2, ElemsAppend
  <2> QED
    BY <2>1, <2>2
<1> QED
  BY <1>1, <1>2

LEMMA GnbMrWaits ==
    ASSUME TypeOK, [Next]_vars, NEW x \in Elems(gnbMr)
    PROVE  x \in Elems(gnbMr') \/ (gnbMr # <<>> /\ x = Head(gnbMr) /\ gnbMrMain)
<1> USE QueueTypes
<1>1. CASE gnbMrMain
  <2>1. gnbMr # <<>> /\ gnbMr' = Tail(gnbMr)
    BY <1>1 DEF gnbMrMain
  <2> QED
    BY <1>1, <2>1, QueueStep
<1>2. CASE ~gnbMrMain
  <2>1. gnbMr' = gnbMr \/ \E y : gnbMr' = Append(gnbMr, y)
    BY <1>2
       DEF Next, AmfRequests, Ngap, refuseItem, pduResourceSetup, sendAccept, sendResponse, Bridge,
           handleSessionEstablishment, RouteEntered, handleDownlinkData, Gtp, handleTunnelCreate,
           gtpHandleUplinkData, handleDownlinkGtp, ueMrMain, receiveEstablishmentAccept,
           handleUplinkData, AppSends, UpfSends, vars
  <2>2. ASSUME NEW y, gnbMr' = Append(gnbMr, y) PROVE x \in Elems(gnbMr')
    BY <2>2, ElemsAppend
  <2> QED
    BY <2>1, <2>2
<1> QED
  BY <1>1, <1>2

LEMMA TbWaits ==
    ASSUME TypeOK, [Next]_vars, NEW x \in Elems(tb)
    PROVE  x \in Elems(tb') \/ (tb # <<>> /\ x = Head(tb) /\ Bridge)
<1> USE QueueTypes
<1>1. CASE Bridge
  <2>1. tb' = tb \/ (tb # <<>> /\ tb' = Tail(tb))
    BY <1>1 DEF Bridge, handleSessionEstablishment, RouteEntered, handleDownlinkData, Is
  <2> QED
    BY <1>1, <2>1, QueueStep
<1>2. CASE ~Bridge
  <2>1. tb' = tb \/ \E y : tb' = Append(tb, y)
    BY <1>2
       DEF Next, AmfRequests, Ngap, refuseItem, pduResourceSetup, sendAccept, sendResponse, Gtp,
           handleTunnelCreate, gtpHandleUplinkData, handleDownlinkGtp, gnbMrMain, ueMrMain,
           receiveEstablishmentAccept, handleUplinkData, AppSends, UpfSends, vars
  <2>2. ASSUME NEW y, tb' = Append(tb, y) PROVE x \in Elems(tb')
    BY <2>2, ElemsAppend
  <2> QED
    BY <2>1, <2>2
<1> QED
  BY <1>1, <1>2

LEMMA UeMrWaits ==
    ASSUME TypeOK, [Next]_vars, NEW u \in Ues, NEW x \in Elems(ueMr[u])
    PROVE  x \in Elems(ueMr'[u]) \/ (x = Head(ueMr[u]) /\ ueMrMain(u))
<1> USE QueueTypes
<1>1. CASE ueMrMain(u)
  <2>1. ueMr[u] # <<>> /\ ueMr'[u] = Tail(ueMr[u])
    BY <1>1 DEF ueMrMain
  <2> QED
    BY <1>1, <2>1, QueueStep
<1>2. ASSUME NEW v \in Ues, NEW y, ueMr' = [ueMr EXCEPT ![v] = Append(@, y)]
      PROVE  x \in Elems(ueMr'[u])
  <2>1. Elems([ueMr EXCEPT ![v] = Append(@, y)][u]) =
           IF u = v THEN Elems(ueMr[u]) \cup {y} ELSE Elems(ueMr[u])
    BY EnqueueElems
  <2> QED
    BY <1>2, <2>1
<1>3. CASE ueMr' = ueMr
  BY <1>3
<1>4. ASSUME NEW v \in Ues, v # u, ueMrMain(v) PROVE x \in Elems(ueMr'[u])
  <2>1. ueMr'[u] = ueMr[u]
    BY <1>4 DEF ueMrMain
  <2> QED
    BY <2>1
<1>5. CASE gnbMrMain
  <2> DEFINE m == Head(gnbMr)
  <2>1. m \in MrMessages
    BY <1>5, HeadTail DEF gnbMrMain
  <2>2. (m.type = "accept" => m.session.ue \in Ues) /\ (m.type = "downlink" => m.ue \in Ues)
    BY <2>1, MrKinds, MessageTypes, SessionUe
  <2> QED
    BY <1>2, <1>3, <1>5, <2>2 DEF gnbMrMain
<1>6. ASSUME NEW of \in Sessions, handleUplinkData(of) PROVE x \in Elems(ueMr'[u])
  <2>1. PICK target \in Lookups(addr(of.address)) :
           IF target = NONE THEN UNCHANGED ueMr
           ELSE ueMr' = [ueMr EXCEPT ![target.ue] = Append(@, Uplink(target, of, data + 1))]
    BY <1>6 DEF handleUplinkData
  <2>2. target # NONE => target \in Sessions
    BY <2>1 DEF Lookups, TypeOK
  <2> QED
    BY <1>2, <1>3, <2>1, <2>2, SessionUe
<1>7. ASSUME NEW s \in Sessions, AppSends(s) PROVE x \in Elems(ueMr'[u])
  BY <1>2, <1>7, SessionUe DEF AppSends
<1>8. CASE \/ \E items \in ItemLists : AmfRequests(items)
           \/ Ngap \/ Gtp \/ Bridge \/ UNCHANGED vars
           \/ \E v \in Ues : receiveEstablishmentAccept(v)
           \/ \E s \in Sessions : UpfSends(s)
  BY <1>3, <1>8
     DEF AmfRequests, Ngap, refuseItem, pduResourceSetup, sendAccept, sendResponse, Gtp,
         handleTunnelCreate, gtpHandleUplinkData, handleDownlinkGtp, Bridge,
         handleSessionEstablishment, RouteEntered, handleDownlinkData,
         receiveEstablishmentAccept, UpfSends, vars
<1> QED
  BY <1>1, <1>4, <1>5, <1>6, <1>7, <1>8 DEF Next

LEMMA SinksGrow == [Next]_vars => app \subseteq app' /\ tun \subseteq tun' /\ upf \subseteq upf'
<1> SUFFICES ASSUME [Next]_vars
             PROVE  app \subseteq app' /\ tun \subseteq tun' /\ upf \subseteq upf'
  OBVIOUS
<1>1. CASE UNCHANGED <<app, tun, upf>>
  BY <1>1
<1>2. CASE gtpHandleUplinkData
  BY <1>2 DEF gtpHandleUplinkData
<1>3. CASE handleDownlinkData
  BY <1>3 DEF handleDownlinkData
<1>4. ASSUME NEW u \in Ues, ueMrMain(u) PROVE app \subseteq app' /\ tun \subseteq tun' /\ upf \subseteq upf'
  BY <1>4 DEF ueMrMain
<1> QED
  BY <1>1, <1>2, <1>3, <1>4
     DEF Next, AmfRequests, Ngap, refuseItem, pduResourceSetup, sendAccept, sendResponse, Gtp,
         handleTunnelCreate, handleDownlinkGtp, Bridge, handleSessionEstablishment, RouteEntered,
         gnbMrMain, receiveEstablishmentAccept, handleUplinkData, AppSends, UpfSends, vars,
         sinkVars

Received(s, n) == [ue |-> s.ue, of |-> s, id |-> n]

(* A downlink packet is in a queue, or copied to both its receivers. *)
DownOnWay(s, n) ==
    \/ Gpdu(s.teid, s, n) \in Elems(gtp)
    \/ Downlink(s.ue, s, n) \in Elems(gnbMr)
    \/ /\ Downlink(s.ue, s, n) \in Elems(ueMr[s.ue]) \/ Received(s, n) \in app
       /\ Downlink(s.ue, s, n) \in Elems(tb) \/ [of |-> s, id |-> n] \in tun

(* A downlink packet that the gNB got, however many sessions, UEs and other  *)
(* packets there are, stays on its way until both the UE's application and   *)
(* the TUN interface have it.                                                *)
DownKept == \A s \in Sessions, n \in 1..MaxData : DownOnWay(s, n) => DownOnWay(s, n)'

LEMMA DownStays == TypeOK /\ lost' = {} /\ [Next]_vars => DownKept
<1> SUFFICES ASSUME TypeOK, lost' = {}, [Next]_vars,
                    NEW s \in Sessions, NEW n \in 1..MaxData, DownOnWay(s, n)
             PROVE  DownOnWay(s, n)'
  BY DEF DownKept
<1> USE QueueTypes
<1> DEFINE g == Gpdu(s.teid, s, n)
           d == Downlink(s.ue, s, n)
<1>1. /\ g.type = "gpdu" /\ g.teid = s.teid /\ g.of = s /\ g.id = n
      /\ d.type = "downlink" /\ d.ue = s.ue /\ d.of = s /\ d.id = n
  BY DEF Gpdu, Downlink
<1>2. s.ue \in Ues
  BY SessionUe
<1> HIDE DEF g, d
<1>3. CASE g \in Elems(gtp)
  <2>1. CASE g \in Elems(gtp')
    BY <2>1 DEF DownOnWay, g
  <2>2. CASE gtp # <<>> /\ g = Head(gtp) /\ Gtp
    <3>1. handleDownlinkGtp
      BY <1>1, <2>2 DEF Gtp, handleTunnelCreate, gtpHandleUplinkData, Is
    <3>2. downlinkTunnel(g) # NONE
      <4>1. downlinkTunnel(g) = NONE => lost' = lost \cup {g.id}
        BY <2>2, <3>1 DEF handleDownlinkGtp
      <4> QED
        BY <4>1
    <3>3. downlinkTunnel(g) = s
      BY <1>1, <3>2, DownlinkTunnel, SameTeid
    <3>4. gnbMr' = Append(gnbMr, Downlink(s.ue, s, n))
      BY <1>1, <2>2, <3>1, <3>2, <3>3 DEF handleDownlinkGtp
    <3>5. d \in Elems(gnbMr')
      BY <3>4, ElemsAppend DEF d
    <3> QED
      BY <3>5 DEF DownOnWay, d
  <2> QED
    BY <1>3, <2>1, <2>2, GtpWaits
<1>4. CASE d \in Elems(gnbMr)
  <2>1. CASE d \in Elems(gnbMr')
    BY <2>1 DEF DownOnWay, d
  <2>2. CASE d = Head(gnbMr) /\ gnbMrMain
    <3>1. tb' = Append(tb, d) /\ ueMr' = [ueMr EXCEPT ![s.ue] = Append(@, d)]
      BY <1>1, <2>2 DEF gnbMrMain
    <3>2. d \in Elems(tb')
      BY <3>1, ElemsAppend
    <3>3. d \in Elems(ueMr'[s.ue])
      <4>1. Elems([ueMr EXCEPT ![s.ue] = Append(@, d)][s.ue]) = Elems(ueMr[s.ue]) \cup {d}
        BY <1>2, EnqueueElems
      <4> QED
        BY <3>1, <4>1
    <3> QED
      BY <3>2, <3>3 DEF DownOnWay, d
  <2> QED
    BY <1>4, <2>1, <2>2, GnbMrWaits
<1>5. CASE /\ d \in Elems(ueMr[s.ue]) \/ Received(s, n) \in app
           /\ d \in Elems(tb) \/ [of |-> s, id |-> n] \in tun
  <2>1. d \in Elems(ueMr'[s.ue]) \/ Received(s, n) \in app'
    <3>1. CASE Received(s, n) \in app
      BY <3>1, SinksGrow
    <3>2. CASE d = Head(ueMr[s.ue]) /\ ueMrMain(s.ue)
      <4>1. app' = app \cup {[ue |-> s.ue, of |-> s, id |-> n]}
        BY <1>1, <3>2 DEF ueMrMain
      <4> QED
        BY <4>1 DEF Received
    <3> QED
      BY <1>2, <1>5, <3>1, <3>2, UeMrWaits
  <2>2. d \in Elems(tb') \/ [of |-> s, id |-> n] \in tun'
    <3>1. CASE [of |-> s, id |-> n] \in tun
      BY <3>1, SinksGrow
    <3>2. CASE d \in Elems(tb) /\ tb # <<>> /\ d = Head(tb) /\ Bridge
      <4>1. CASE RouteEntered
        BY <3>2, <4>1 DEF RouteEntered
      <4>2. CASE handleDownlinkData
        <5>1. tun' = tun \cup {[of |-> s, id |-> n]}
          BY <1>1, <3>2, <4>2 DEF handleDownlinkData
        <5> QED
          BY <5>1
      <4>3. ~handleSessionEstablishment
        BY <1>1, <3>2 DEF handleSessionEstablishment, Is
      <4> QED
        BY <3>2, <4>1, <4>2, <4>3 DEF Bridge
    <3> QED
      BY <1>5, <3>1, <3>2, TbWaits
  <2> QED
    BY <2>1, <2>2 DEF DownOnWay, d
<1> QED
  BY <1>3, <1>4, <1>5 DEF DownOnWay, g, d

(* No downlink packet is dropped on its way through the four tasks.          *)
THEOREM DownlinkKept == Spec => [][DownKept]_vars
<1>1. TypeOK /\ TunnelInv /\ TunnelInv' /\ [Next]_vars => [DownKept]_vars
  BY DownStays DEF TunnelInv, GtpInv
<1> QED
  BY <1>1, SpecTunnelInv, PTL DEF Spec

(* An uplink packet that the bridge or the application gave a session to is  *)
(* in a queue or left in the session's tunnel.                               *)
UpOnWay(s, of, n) ==
    \/ Uplink(s, of, n) \in Elems(ueMr[s.ue])
    \/ Uplink(s, of, n) \in Elems(gnbMr)
    \/ Uplink(s, of, n) \in Elems(gtp)
    \/ Gpdu(s.teid, of, n) \in upf

(* It stays on its way until it leaves for the UPF in that tunnel.           *)
UpKept == \A s \in Sessions, of \in Sessions, n \in 1..MaxData :
              UpOnWay(s, of, n) => UpOnWay(s, of, n)'

LEMMA UpStays == TypeOK /\ lost' = {} /\ [Next]_vars => UpKept
<1> SUFFICES ASSUME TypeOK, lost' = {}, [Next]_vars, NEW s \in Sessions, NEW of \in Sessions,
                    NEW n \in 1..MaxData, UpOnWay(s, of, n)
             PROVE  UpOnWay(s, of, n)'
  BY DEF UpKept
<1> USE QueueTypes
<1> DEFINE m == Uplink(s, of, n)
<1>1. m.type = "uplink" /\ m.ue = s.ue /\ m.psi = s.psi /\ m.of = of /\ m.id = n
  BY DEF Uplink
<1>2. s.ue \in Ues
  BY SessionUe
<1> HIDE DEF m
<1>3. CASE m \in Elems(ueMr[s.ue])
  <2>1. CASE m \in Elems(ueMr'[s.ue])
    BY <2>1 DEF UpOnWay, m
  <2>2. CASE m = Head(ueMr[s.ue]) /\ ueMrMain(s.ue)
    <3>1. gnbMr' = Append(gnbMr, m)
      BY <1>1, <2>2 DEF ueMrMain
    <3>2. m \in Elems(gnbMr')
      BY <3>1, ElemsAppend
    <3> QED
      BY <3>2 DEF UpOnWay, m
  <2> QED
    BY <1>2, <1>3, <2>1, <2>2, UeMrWaits
<1>4. CASE m \in Elems(gnbMr)
  <2>1. CASE m \in Elems(gnbMr')
    BY <2>1 DEF UpOnWay, m
  <2>2. CASE m = Head(gnbMr) /\ gnbMrMain
    <3>1. gtp' = Append(gtp, m)
      BY <1>1, <2>2 DEF gnbMrMain
    <3>2. m \in Elems(gtp')
      BY <3>1, ElemsAppend
    <3> QED
      BY <3>2 DEF UpOnWay, m
  <2> QED
    BY <1>4, <2>1, <2>2, GnbMrWaits
<1>5. CASE m \in Elems(gtp)
  <2>1. CASE m \in Elems(gtp')
    BY <2>1 DEF UpOnWay, m
  <2>2. CASE gtp # <<>> /\ m = Head(gtp) /\ Gtp
    <3>1. gtpHandleUplinkData
      BY <1>1, <2>2 DEF Gtp, handleTunnelCreate, handleDownlinkGtp, Is
    <3>2. uplinkTunnel(m) # NONE
      <4>1. uplinkTunnel(m) = NONE => lost' = lost \cup {m.id}
        BY <2>2, <3>1 DEF gtpHandleUplinkData
      <4> QED
        BY <4>1
    <3>3. uplinkTunnel(m) = s
      BY <1>1, <3>2, UplinkTunnel, SamePsi
    <3>4. upf' = upf \cup {Gpdu(s.teid, of, n)}
      BY <1>1, <2>2, <3>1, <3>2, <3>3 DEF gtpHandleUplinkData
    <3> QED
      BY <3>4 DEF UpOnWay
  <2> QED
    BY <1>5, <2>1, <2>2, GtpWaits
<1>6. CASE Gpdu(s.teid, of, n) \in upf
  BY <1>6, SinksGrow DEF UpOnWay
<1> QED
  BY <1>3, <1>4, <1>5, <1>6 DEF UpOnWay, m

(* No uplink packet that has a session is dropped on its way.                *)
THEOREM UplinkKept == Spec => [][UpKept]_vars
<1>1. TypeOK /\ TunnelInv /\ TunnelInv' /\ [Next]_vars => [UpKept]_vars
  BY UpStays DEF TunnelInv, GtpInv
<1> QED
  BY <1>1, SpecTunnelInv, PTL DEF Spec

(* An Accept that the gNB sent is never lost: it is in one of the queues to  *)
(* the UE's NAS task until that task has handled it.                         *)
AcceptKept == Sent \subseteq Sent'

(* Accepts move on and are never dropped.                                    *)
THEOREM AcceptNeverLost == Spec => [][AcceptKept]_vars
<1>1. TypeOK /\ [Next]_vars => [AcceptKept]_vars
  BY AcceptMovesOn DEF AcceptKept
<1> QED
  BY <1>1, TypeCorrect, PTL DEF Spec
=============================================================================
