---------------------------------- MODULE Ping ----------------------------------
(***************************************************************************)
(* The pings of a UE's application task: a loop that receives a message or *)
(* waits for a second, looks for pings that timed out, and then handles    *)
(* the message.  A ping is found again by a key made of the identifier and *)
(* the sequence number of its echo request, two Java shorts.               *)
(*                                                                         *)
(* The network is external: an echo request may be answered at any time,   *)
(* repeatedly or never.                                                    *)
(***************************************************************************)
EXTENDS Integers, Sequences

CONSTANTS
    Half,       \* a short is in -Half..Half-1; 32768
    TIMEOUT,    \* in a ping's reports: its timeout
    MaxPings,   \* bound: pings sent
    MaxQueue    \* bound: replies arrive while the task's queue is below it

ASSUME HalfAssumption == Half \in Nat \ {0, 1}   \* 1 is a short
ASSUME BoundsAssumption == MaxPings \in Nat /\ MaxQueue \in Nat
Pings == 1..MaxPings
ASSUME TimeoutAssumption == TIMEOUT \notin Pings

VARIABLES
    idCounter, seqCounter,   \* of PingApp
    pingEntries,             \* of PingApp
    remaining,               \* pings the loop of sendPing has yet to send
    limited,                 \* whether the pings of that loop have a timeout
    due,                     \* more than a second passed since timeoutControl looked
    overdue,                 \* pings whose timeout has passed
    downlink,                \* replies in the task's queue
    echoes,                  \* external: the echo requests sent
    sent,                    \* history: the number of pings sent
    reported,                \* history: each ping's reports, timeouts or replies
    responses                \* history: pings answered before their first report

counters == <<idCounter, seqCounter>>
clock == <<due, overdue>>
loop == <<remaining, limited>>
vars == <<counters, pingEntries, loop, clock, downlink, echoes, sent, reported, responses>>

Width == 2 * Half
Shorts == (-Half)..(Half - 1)
Unsigned == 0..(Width - 1)
Keys == [hi : Unsigned, lo : Unsigned]

\* An ICMP echo packet; which ping it belongs to is not in it and only read by properties.
Packets == [id : Unsigned, seq : Unsigned, ping : Pings]

Init ==
    /\ idCounter = 0 /\ seqCounter = 0
    /\ pingEntries = [k \in {} |-> 0]
    /\ remaining = 0 /\ limited = FALSE
    /\ due = TRUE /\ overdue = {}
    /\ downlink = <<>> /\ echoes = {}
    /\ sent = 0
    /\ reported = [p \in Pings |-> <<>>]
    /\ responses = {}

\* The value of a short after an addition that may overflow.
short(n) == ((n + Half) % Width) - Half

\* Mutant: the counters are the loop's own, and each command begins with 1.
NumberedAnew(counter) == 1

\* The identifier after the counter's; 0 is replaced, but not in the counter.
numbered(counter) == IF short(counter + 1) = 0 THEN 1 ELSE short(counter + 1)

\* Mutant: the identifier alone is the key's upper half and the lower one is lost.
KeyOfId(id, seq) == [hi |-> id % Width, lo |-> 0]

\* id << 16 | seq: the sign of seq fills the upper half.
key(id, seq) == [hi |-> IF seq < 0 THEN Width - 1 ELSE id % Width, lo |-> seq % Width]

Without(entries, keys) == [k \in DOMAIN entries \ keys |-> entries[k]]

\* Mutant: pings without a timeout are not left out, and those with one are.
ExpiredUnlimited == {k \in DOMAIN pingEntries :
                        due /\ pingEntries[k].ping \in overdue /\ ~pingEntries[k].limited}

\* The entries timeoutControl deletes: none if it looked less than a second ago.
expired == {k \in DOMAIN pingEntries :
               due /\ pingEntries[k].limited /\ pingEntries[k].ping \in overdue}

\* Its effect but for the deletion.
ReportExpired ==
    [p \in Pings |-> IF \E k \in expired : pingEntries[k].ping = p
                       THEN Append(reported[p], TIMEOUT) ELSE reported[p]]

\* The wait ends without a message.
timeoutControl ==
    /\ remaining = 0 /\ downlink = <<>>
    /\ pingEntries' = Without(pingEntries, expired)
    /\ reported' = ReportExpired
    /\ due' = FALSE
    /\ UNCHANGED <<counters, loop, overdue, downlink, echoes, sent, responses>>

\* A TestCmd_Ping: sendPing's loop begins, with a connection that is set up (see UeSm).
Command(count, withTimeout) ==
    /\ remaining = 0 /\ sent + count <= MaxPings
    /\ remaining' = count /\ limited' = withTimeout
    /\ pingEntries' = Without(pingEntries, expired)
    /\ reported' = ReportExpired
    /\ due' = FALSE
    /\ UNCHANGED <<counters, overdue, downlink, echoes, sent, responses>>

\* A turn of sendPing's loop.
sendPing ==
    LET id == numbered(idCounter)
        seq == numbered(seqCounter)
        new == key(id, seq)
        entry == [ping |-> sent + 1, limited |-> limited]
    IN  /\ remaining > 0
        /\ remaining' = remaining - 1
        /\ idCounter' = short(idCounter + 1) /\ seqCounter' = short(seqCounter + 1)
        /\ pingEntries' = [k \in DOMAIN pingEntries \cup {new} |->
                              IF k = new THEN entry ELSE pingEntries[k]]
        /\ echoes' = echoes \cup {[id |-> id % Width, seq |-> seq % Width, ping |-> sent + 1]}
        /\ sent' = sent + 1
        /\ UNCHANGED <<limited, clock, downlink, reported, responses>>

\* Mutant: the entry of an answered ping stays.
HandleKeepsEntry ==
    LET r == Head(downlink)
        k == [hi |-> r.id, lo |-> r.seq]
        kept == Without(pingEntries, expired)
    IN  /\ remaining = 0 /\ downlink # <<>>
        /\ downlink' = Tail(downlink)
        /\ due' = FALSE
        /\ pingEntries' = kept
        /\ reported' = IF k \in DOMAIN kept
                         THEN [ReportExpired EXCEPT ![kept[k].ping] = Append(@, r.ping)]
                         ELSE ReportExpired
        /\ responses' = IF ReportExpired[r.ping] = <<>> THEN responses \cup {r.ping} ELSE responses
        /\ UNCHANGED <<counters, loop, overdue, echoes, sent>>

\* The task takes an echo reply from its queue, looks for timeouts, and then looks the
\* reply's unsigned numbers up; handleEchoReplyPacket checks neither address nor data.
handlePacket ==
    LET r == Head(downlink)
        k == [hi |-> r.id, lo |-> r.seq]
        kept == Without(pingEntries, expired)
    IN  /\ remaining = 0 /\ downlink # <<>>
        /\ downlink' = Tail(downlink)
        /\ due' = FALSE
        /\ pingEntries' = Without(kept, {k})
        /\ reported' = IF k \in DOMAIN kept
                         THEN [ReportExpired EXCEPT ![kept[k].ping] = Append(@, r.ping)]
                         ELSE ReportExpired
        /\ responses' = IF ReportExpired[r.ping] = <<>> THEN responses \cup {r.ping} ELSE responses
        /\ UNCHANGED <<counters, loop, overdue, echoes, sent>>

\* External: a reply to an echo request gets into the task's queue.
Reply(packet) ==
    /\ Len(downlink) < MaxQueue
    /\ downlink' = Append(downlink, packet)
    /\ UNCHANGED <<counters, pingEntries, loop, clock, echoes, sent, reported, responses>>

\* Time passes: a second for timeoutControl, or a ping's timeout.
SecondPasses ==
    /\ due' = TRUE
    /\ UNCHANGED <<counters, pingEntries, loop, overdue, downlink, echoes, sent, reported, responses>>

Elapses(p) ==
    /\ p <= sent
    /\ overdue' = overdue \cup {p}
    /\ UNCHANGED <<counters, pingEntries, loop, due, downlink, echoes, sent, reported, responses>>

Main == timeoutControl \/ sendPing \/ handlePacket

Next ==
    \/ Main
    \/ \E count \in Pings, withTimeout \in BOOLEAN : Command(count, withTimeout)
    \/ \E packet \in echoes : Reply(packet)
    \/ SecondPasses
    \/ \E p \in Pings : Elapses(p)

Spec == Init /\ [][Next]_vars

\* The task's thread runs, and time passes.
FairSpec ==
    /\ Spec
    /\ WF_vars(Main) /\ WF_vars(SecondPasses)
    /\ \A p \in Pings : WF_vars(Elapses(p))

-----------------------------------------------------------------------------
TypeOK ==
    /\ idCounter \in Shorts /\ seqCounter \in Shorts
    /\ DOMAIN pingEntries \subseteq Keys
    /\ \A k \in DOMAIN pingEntries : pingEntries[k] \in [ping : Pings, limited : BOOLEAN]
    /\ remaining \in Nat /\ limited \in BOOLEAN
    /\ due \in BOOLEAN /\ overdue \subseteq Pings
    /\ downlink \in Seq(Packets) /\ echoes \subseteq Packets
    /\ sent \in 0..MaxPings /\ sent + remaining <= MaxPings
    /\ reported \in [Pings -> Seq(Pings \cup {TIMEOUT})]
    /\ responses \subseteq Pings

(* A ping is reported at most once, as answered or as timed out, however     *)
(* late, often or out of order its replies come, and also after the counters *)
(* wrapped.                                                                  *)
ReportedOnce == \A p \in Pings : Len(reported[p]) <= 1

(* A reply that is reported is the reply to the ping it is reported for: the *)
(* round-trip time in the log is a ping's own.                               *)
ReplyIsOwn == \A p \in Pings : \A i \in DOMAIN reported[p] : reported[p][i] \in {p, TIMEOUT}

(* A ping is reported as timed out, with "no response", only if no reply to  *)
(* it was handled until then.                                                *)
TimeoutMeansNoResponse ==
    \A p \in responses : \A i \in DOMAIN reported[p] : reported[p][i] # TIMEOUT

(* A ping with a timeout is reported in the end, whatever happens to its     *)
(* packets and however many replies to others the task is busy with.         *)
LimitedIsReported ==
    \A p \in Pings :
        (\E k \in DOMAIN pingEntries : pingEntries[k].ping = p /\ pingEntries[k].limited)
            ~> reported[p] # <<>>
=============================================================================
