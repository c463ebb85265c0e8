------------------------------ MODULE UserPlane ------------------------------
(***************************************************************************)
(* The user plane of the simulator: how a session that the AMF sets up     *)
(* gets its GTP tunnel in the gNB, its Accept at the UE and its route in   *)
(* the TUN bridge, and the way of the packets between the bridge, the UEs, *)
(* the gNB and the UPF.  Each task has a queue and a thread; the bridge    *)
(* has a second thread, which shares the table of routes with the first.   *)
(*                                                                         *)
(* The AMF and the UPF are external.  The AMF sets a session up once, with *)
(* the Accept in the session's item; the UPF sends packets for it when the *)
(* gNB has confirmed it.  One gNB.                                         *)
(***************************************************************************)
EXTENDS Naturals, Sequences, FiniteSets

CONSTANTS
    Sessions,      \* external: what UEs request and the network grants
    NONE,          \* Java's null
    MaxItems,      \* bound: items of a setup request
    MaxData        \* bound: packets sent

Octets == 0..255
SessionType == [ue : {s.ue : s \in Sessions}, psi : {s.psi : s \in Sessions},
                teid : {s.teid : s \in Sessions}, address : [1..4 -> Octets]]

\* A UE's PSIs are in use once (see UeSm), and so are addresses and, with one UPF, TEIDs.
ASSUME SessionsAssumption ==
    /\ Sessions \subseteq SessionType
    /\ \A s, t \in Sessions :
          (s.ue = t.ue /\ s.psi = t.psi) \/ s.teid = t.teid \/ s.address = t.address => s = t
ASSUME BoundsAssumption == MaxItems \in Nat /\ MaxData \in Nat
ASSUME NoneAssumption == NONE \notin Sessions

Ues == {s.ue : s \in Sessions}

VARIABLES
    requested,   \* external: sessions the AMF has asked the gNB for
    request,     \* the items receiveResourceSetupRequest has yet to handle
    created,     \* it has created the tunnel of the first of them
    successList, \* of receiveResourceSetupRequest
    confirmed,   \* external: sessions the gNB has confirmed to the AMF
    pduSessions, \* of GtpUContext
    accepted,    \* sessions whose Accept the UE's NAS task has handled
    ipRoute,     \* of TunBridgeTask: the session under each key
    putting,     \* the session the bridge's task is entering into ipRoute
    gtp, gnbMr, ueMr, nas, tb,   \* the queues of the tasks
    data,        \* number of packets sent, which numbers them
    upf,         \* external: what reached the UPF
    app, tun,    \* what reached the UEs' applications and the TUN interface
    lost,        \* history: packets for which the gNB found no tunnel
    overwritten  \* history: sessions announced as overwriting the route of another

setupVars == <<request, created, successList>>
tableVars == <<pduSessions, ipRoute, putting, overwritten>>
netVars == <<requested, confirmed>>
sinkVars == <<upf, app, tun, lost>>
vars == <<setupVars, netVars, tableVars, accepted, gtp, gnbMr, ueMr, nas, tb, data, sinkVars>>

\* Messages; "of" is the session whose address a packet has.
Create(s) == [type |-> "create", session |-> s]
Accept(s) == [type |-> "accept", session |-> s]
Establishment(s) == [type |-> "establishment", session |-> s]
Uplink(s, of, n) == [type |-> "uplink", ue |-> s.ue, psi |-> s.psi, of |-> of, id |-> n]
Gpdu(teid, of, n) == [type |-> "gpdu", teid |-> teid, of |-> of, id |-> n]
Downlink(ue, of, n) == [type |-> "downlink", ue |-> ue, of |-> of, id |-> n]

Init ==
    /\ requested = {} /\ request = <<>> /\ created = FALSE /\ successList = {} /\ confirmed = {}
    /\ pduSessions = <<>> /\ accepted = {}
    /\ ipRoute = [k \in {} |-> NONE] /\ putting = NONE /\ overwritten = {}
    /\ gtp = <<>> /\ gnbMr = <<>> /\ tb = <<>>
    /\ ueMr = [u \in Ues |-> <<>>] /\ nas = [u \in Ues |-> <<>>]
    /\ data = 0 /\ upf = {} /\ app = {} /\ tun = {} /\ lost = {}

Is(queue, type) == queue # <<>> /\ Head(queue).type = type

-----------------------------------------------------------------------------
(* The NGAP task: receiveResourceSetupRequest, its loop step by step. *)

\* External: a request for sessions of one UE; an item may lack what the gNB needs or be
\* of a type it does not have.
AmfRequests(items) ==
    /\ request = <<>> /\ successList = {}
    /\ \A i \in DOMAIN items : items[i].session \notin requested
    /\ request' = items
    /\ requested' = requested \cup {items[i].session : i \in DOMAIN items}
    /\ UNCHANGED <<created, successList, confirmed, tableVars, accepted, gtp, gnbMr, ueMr, nas, tb,
                   data, sinkVars>>

\* The item is refused: the exception ends the handler, and the items before it keep
\* their tunnels without being confirmed.
refuseItem ==
    /\ request # <<>> /\ ~created /\ ~Head(request).ok
    /\ request' = <<>> /\ successList' = {}
    /\ UNCHANGED <<created, netVars, tableVars, accepted, gtp, gnbMr, ueMr, nas, tb, data, sinkVars>>

\* Mutant: the tunnel is forgotten.
SetupForgotten ==
    /\ request # <<>> /\ ~created /\ Head(request).ok
    /\ created' = TRUE
    /\ UNCHANGED <<request, successList, netVars, tableVars, accepted, gtp, gnbMr, ueMr, nas, tb,
                   data, sinkVars>>

pduResourceSetup ==
    /\ request # <<>> /\ ~created /\ Head(request).ok
    /\ created' = TRUE
    /\ gtp' = Append(gtp, Create(Head(request).session))
    /\ UNCHANGED <<request, successList, netVars, tableVars, accepted, gnbMr, ueMr, nas, tb, data,
                   sinkVars>>

sendAccept ==
    /\ request # <<>> /\ created
    /\ gnbMr' = Append(gnbMr, Accept(Head(request).session))
    /\ successList' = successList \cup {Head(request).session}
    /\ request' = Tail(request) /\ created' = FALSE
    /\ UNCHANGED <<netVars, tableVars, accepted, gtp, ueMr, nas, tb, data, sinkVars>>

\* Mutant: the request is confirmed while it is being handled.
RespondEarly ==
    /\ request # <<>> /\ created
    /\ confirmed' = confirmed \cup {Head(request).session}
    /\ successList' = {}
    /\ UNCHANGED <<request, created, requested, tableVars, accepted, gtp, gnbMr, ueMr, nas, tb,
                   data, sinkVars>>

sendResponse ==
    /\ request = <<>> /\ successList # {}
    /\ confirmed' = confirmed \cup successList
    /\ successList' = {}
    /\ UNCHANGED <<request, created, requested, tableVars, accepted, gtp, gnbMr, ueMr, nas, tb,
                   data, sinkVars>>

-----------------------------------------------------------------------------
(* The GTP task. *)

\* The first of the tunnels at some places of the list.
findFirst(found) ==
    IF found = {} THEN NONE ELSE pduSessions[CHOOSE i \in found : \A j \in found : i <= j]

handleTunnelCreate ==
    /\ Is(gtp, "create")
    /\ pduSessions' = Append(pduSessions, Head(gtp).session)
    /\ gtp' = Tail(gtp)
    /\ UNCHANGED <<setupVars, netVars, ipRoute, putting, overwritten, accepted, gnbMr, ueMr, nas,
                   tb, data, sinkVars>>

\* Mutant: the tunnel is looked for by the PSI alone.
TunnelByPsi(m) == findFirst({i \in DOMAIN pduSessions : pduSessions[i].psi = m.psi})

\* The tunnel for an uplink packet.
uplinkTunnel(m) ==
    findFirst({i \in DOMAIN pduSessions : pduSessions[i].ue = m.ue /\ pduSessions[i].psi = m.psi})

gtpHandleUplinkData ==
    LET m == Head(gtp)
        tunnel == uplinkTunnel(m)
    IN  /\ Is(gtp, "uplink")
        /\ gtp' = Tail(gtp)
        /\ IF tunnel = NONE
             THEN lost' = lost \cup {m.id} /\ UNCHANGED upf
             ELSE upf' = upf \cup {Gpdu(tunnel.teid, m.of, m.id)} /\ UNCHANGED lost
        /\ UNCHANGED <<setupVars, netVars, tableVars, accepted, gnbMr, ueMr, nas, tb, data, app, tun>>

\* Mutant: the newest tunnel is taken.
NewestTunnel(m) == IF pduSessions = <<>> THEN NONE ELSE pduSessions[Len(pduSessions)]

\* The tunnel of a downlink packet.
downlinkTunnel(m) == findFirst({i \in DOMAIN pduSessions : pduSessions[i].teid = m.teid})

handleDownlinkGtp ==
    LET m == Head(gtp)
        tunnel == downlinkTunnel(m)
    IN  /\ Is(gtp, "gpdu")
        /\ gtp' = Tail(gtp)
        /\ IF tunnel = NONE
             THEN lost' = lost \cup {m.id} /\ UNCHANGED gnbMr
             ELSE gnbMr' = Append(gnbMr, Downlink(tunnel.ue, m.of, m.id)) /\ UNCHANGED lost
        /\ UNCHANGED <<setupVars, netVars, tableVars, accepted, ueMr, nas, tb, data, upf, app, tun>>

-----------------------------------------------------------------------------
(* The MR tasks of the gNB and the UEs, and the Accept in the UE's NAS task. *)

gnbMrMain ==
    LET m == Head(gnbMr)
    IN  /\ gnbMr # <<>>
        /\ gnbMr' = Tail(gnbMr)
        /\ \/ /\ m.type = "accept"
              /\ ueMr' = [ueMr EXCEPT ![m.session.ue] = Append(@, m)]
              /\ UNCHANGED <<gtp, tb>>
           \/ /\ m.type = "uplink"
              /\ gtp' = Append(gtp, m)
              /\ UNCHANGED <<ueMr, tb>>
           \/ /\ m.type = "downlink"
              /\ tb' = Append(tb, m)
              /\ ueMr' = [ueMr EXCEPT ![m.ue] = Append(@, m)]
              /\ UNCHANGED gtp
        /\ UNCHANGED <<setupVars, netVars, tableVars, accepted, nas, data, sinkVars>>

\* Mutant: downlink packets go to the bridge only.
MrWithoutApp(u) ==
    LET m == Head(ueMr[u])
    IN  /\ ueMr[u] # <<>>
        /\ ueMr' = [ueMr EXCEPT ![u] = Tail(@)]
        /\ \/ /\ m.type = "accept"
              /\ nas' = [nas EXCEPT ![u] = Append(@, m)]
              /\ UNCHANGED <<gnbMr, app>>
           \/ /\ m.type = "uplink"
              /\ gnbMr' = Append(gnbMr, m)
              /\ UNCHANGED <<nas, app>>
           \/ /\ m.type = "downlink"
              /\ UNCHANGED <<gnbMr, nas, app>>
        /\ UNCHANGED <<setupVars, netVars, tableVars, accepted, gtp, tb, data, upf, tun, lost>>

ueMrMain(u) ==
    LET m == Head(ueMr[u])
    IN  /\ ueMr[u] # <<>>
        /\ ueMr' = [ueMr EXCEPT ![u] = Tail(@)]
        /\ \/ /\ m.type = "accept"
              /\ nas' = [nas EXCEPT ![u] = Append(@, m)]
              /\ UNCHANGED <<gnbMr, app>>
           \/ /\ m.type = "uplink"
              /\ gnbMr' = Append(gnbMr, m)
              /\ UNCHANGED <<nas, app>>
           \/ /\ m.type = "downlink"
              /\ app' = app \cup {[ue |-> u, of |-> m.of, id |-> m.id]}
              /\ UNCHANGED <<gnbMr, nas>>
        /\ UNCHANGED <<setupVars, netVars, tableVars, accepted, gtp, tb, data, upf, tun, lost>>

receiveEstablishmentAccept(u) ==
    /\ nas[u] # <<>>
    /\ nas' = [nas EXCEPT ![u] = Tail(@)]
    /\ accepted' = accepted \cup {Head(nas[u]).session}
    /\ tb' = Append(tb, Establishment(Head(nas[u]).session))
    /\ UNCHANGED <<setupVars, netVars, tableVars, gtp, gnbMr, ueMr, data, sinkVars>>

-----------------------------------------------------------------------------
(* The TUN bridge. *)

\* Mutant: the last octet is left out.
KeyOfNet(a) == [i \in 1..4 |-> IF i = 4 THEN 0 ELSE a[i]]

\* An address as a Java int put together of signed octets: one from 128 on fills the
\* octets before it with ones.
addr(a) == [i \in 1..4 |-> IF \E j \in (i + 1)..4 : a[j] >= 128 THEN 255 ELSE a[i]]

\* The bridge's task begins to enter a route ...
handleSessionEstablishment ==
    /\ putting = NONE /\ Is(tb, "establishment")
    /\ putting' = Head(tb).session
    /\ overwritten' = overwritten \cup
          {[new |-> Head(tb).session, old |-> ipRoute[k]] :
              k \in DOMAIN ipRoute \cap {addr(Head(tb).session.address)}}
    /\ tb' = Tail(tb)
    /\ UNCHANGED <<setupVars, netVars, pduSessions, ipRoute, accepted, gtp, gnbMr, ueMr, nas, data,
                   sinkVars>>

\* ... and has entered it.
RouteEntered ==
    /\ putting # NONE
    /\ ipRoute' = [k \in DOMAIN ipRoute \cup {addr(putting.address)} |->
                      IF k = addr(putting.address) THEN putting ELSE ipRoute[k]]
    /\ putting' = NONE
    /\ UNCHANGED <<setupVars, netVars, pduSessions, overwritten, accepted, gtp, gnbMr, ueMr, nas,
                   tb, data, sinkVars>>

handleDownlinkData ==
    /\ putting = NONE /\ Is(tb, "downlink")
    /\ tun' = tun \cup {[of |-> Head(tb).of, id |-> Head(tb).id]}
    /\ tb' = Tail(tb)
    /\ UNCHANGED <<setupVars, netVars, tableVars, accepted, gtp, gnbMr, ueMr, nas, data, upf, app,
                   lost>>

\* What a lookup in the unsynchronised table may give: while an entry is made, it may
\* miss any entry or already see the new one.
Lookups(k) ==
    (IF k \in DOMAIN ipRoute THEN {ipRoute[k]} ELSE {NONE})
        \cup (IF putting = NONE THEN {}
              ELSE {NONE} \cup (IF addr(putting.address) = k THEN {putting} ELSE {}))

\* The bridge's receiver thread: a packet with the address of a session comes from the
\* TUN interface; without a route it is dropped.
handleUplinkData(of) ==
    /\ data < MaxData
    /\ data' = data + 1
    /\ \E target \in Lookups(addr(of.address)) :
          IF target = NONE THEN UNCHANGED ueMr
          ELSE ueMr' = [ueMr EXCEPT ![target.ue] = Append(@, Uplink(target, of, data + 1))]
    /\ UNCHANGED <<setupVars, netVars, tableVars, accepted, gtp, gnbMr, nas, tb, sinkVars>>

-----------------------------------------------------------------------------
\* The UE's application sends a packet of an accepted session.
AppSends(s) ==
    /\ s \in accepted /\ data < MaxData
    /\ data' = data + 1
    /\ ueMr' = [ueMr EXCEPT ![s.ue] = Append(@, Uplink(s, s, data + 1))]
    /\ UNCHANGED <<setupVars, netVars, tableVars, accepted, gtp, gnbMr, nas, tb, sinkVars>>

\* External: a packet of the UPF for a confirmed session; the receiver thread of the GTP
\* task puts it into the task's queue.
UpfSends(s) ==
    /\ s \in confirmed /\ data < MaxData
    /\ data' = data + 1
    /\ gtp' = Append(gtp, Gpdu(s.teid, s, data + 1))
    /\ UNCHANGED <<setupVars, netVars, tableVars, accepted, gnbMr, ueMr, nas, tb, sinkVars>>

\* Lists of different sessions of one UE.
ItemLists ==
    {items \in UNION {[1..n -> [session : Sessions, ok : BOOLEAN]] : n \in 1..MaxItems} :
        \A i, j \in DOMAIN items :
            /\ items[i].session.ue = items[j].session.ue
            /\ items[i].session = items[j].session => i = j}

Ngap == refuseItem \/ pduResourceSetup \/ sendAccept \/ sendResponse
Gtp == handleTunnelCreate \/ gtpHandleUplinkData \/ handleDownlinkGtp
Bridge == handleSessionEstablishment \/ RouteEntered \/ handleDownlinkData

Next ==
    \/ \E items \in ItemLists : AmfRequests(items)
    \/ Ngap \/ Gtp \/ Bridge
    \/ gnbMrMain
    \/ \E u \in Ues : ueMrMain(u) \/ receiveEstablishmentAccept(u)
    \/ \E s \in Sessions : handleUplinkData(s) \/ AppSends(s) \/ UpfSends(s)

Spec == Init /\ [][Next]_vars

\* Every task handles what is in its queue.
FairSpec ==
    /\ Spec
    /\ WF_vars(Ngap) /\ WF_vars(Gtp) /\ WF_vars(Bridge) /\ WF_vars(gnbMrMain)
    /\ \A u \in Ues : WF_vars(ueMrMain(u)) /\ WF_vars(receiveEstablishmentAccept(u))

-----------------------------------------------------------------------------
Psis == {s.psi : s \in Sessions}
Creates == {Create(s) : s \in Sessions}
Accepts == {Accept(s) : s \in Sessions}
Uplinks == [type : {"uplink"}, ue : Ues, psi : Psis, of : Sessions, id : 1..MaxData]
Gpdus == {Gpdu(s.teid, s, n) : s \in Sessions, n \in 1..MaxData}
Downlinks == [type : {"downlink"}, ue : Ues, of : Sessions, id : 1..MaxData]

TypeOK ==
    /\ requested \subseteq Sessions /\ confirmed \subseteq Sessions
    /\ request \in Seq([session : Sessions, ok : BOOLEAN])
    /\ created \in BOOLEAN /\ successList \subseteq Sessions
    /\ pduSessions \in Seq(Sessions) /\ accepted \subseteq Sessions
    /\ \A k \in DOMAIN ipRoute : ipRoute[k] \in Sessions
    /\ putting \in Sessions \cup {NONE}
    /\ gtp \in Seq(Creates \cup Uplinks \cup Gpdus)
    /\ gnbMr \in Seq(Accepts \cup Uplinks \cup Downlinks)
    /\ ueMr \in [Ues -> Seq(Accepts \cup Uplinks \cup Downlinks)]
    /\ nas \in [Ues -> Seq(Accepts)]
    /\ tb \in Seq({Establishment(s) : s \in Sessions} \cup Downlinks)
    /\ data \in 0..MaxData

(* A packet of a session, in either direction, never comes to the GTP task   *)
(* before the tunnel of its session: the Accept and the tunnel take          *)
(* different ways through the tasks, and the Accept's is started second.     *)
NothingLost == lost = {}

(* What leaves for the UPF is in the tunnel of the session whose address it  *)
(* has: neither the bridge's routes nor the search for tunnels mixes up the  *)
(* UEs or their sessions, also while routes are being entered.               *)
UplinkInOwnTunnel == \A m \in upf : m.teid = m.of.teid

(* A downlink packet reaches the UE whose session it is for.                 *)
DownlinkReachesItsUe == \A m \in app : m.ue = m.of.ue

(* When a downlink packet reaches the UE's application, the Accept of its    *)
(* session has been handed to the UE's NAS task: the confirmation that lets  *)
(* the UPF send is given after the Accept.                                   *)
DataFollowsAccept ==
    \A m \in app :
        m.of \in accepted \/ \E i \in DOMAIN nas[m.ue] : nas[m.ue][i] = Accept(m.of)

(* A session announced as overwriting the route of its address overwrites    *)
(* the route of a session with that address.                                 *)
OverwritesSameAddress == \A w \in overwritten : w.new.address = w.old.address

(* Every session a UE has accepted gets its route in the bridge.             *)
AcceptedIsRouted ==
    \A s \in Sessions :
        s \in accepted ~> addr(s.address) \in DOMAIN ipRoute /\ ipRoute[addr(s.address)] = s

(* Every downlink packet reaches both its UE's application and the TUN       *)
(* interface.                                                                *)
DownlinkArrives ==
    \A s \in Sessions, n \in 1..MaxData :
        (\E i \in DOMAIN gtp : gtp[i] = Gpdu(s.teid, s, n))
            ~> [ue |-> s.ue, of |-> s, id |-> n] \in app /\ [of |-> s, id |-> n] \in tun
=============================================================================
