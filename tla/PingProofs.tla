------------------------------ MODULE PingProofs ------------------------------
(***************************************************************************)
(* Proofs about Ping, for shorts of any width.  Types, single reports and  *)
(* what replies and timeouts say of a ping's number hold for any number of *)
(* pings; that the number is the ping's own needs fewer than Width pings,  *)
(* and that it is positive fewer than Half.                                *)
(***************************************************************************)
EXTENDS Ping, TLAPS

LEMMA Remainder == \A n \in Int, m \in Nat \ {0} : n % m \in 0..(m - 1)
  BY Z3

LEMMA SmallRemainder == \A n \in Nat, m \in Nat \ {0} : n < m => n % m = n
  BY Z3

(* Remainders are unique. *)
LEMMA RemainderUnique ==
    ASSUME NEW m \in Nat \ {0}, NEW q1 \in Int, NEW q2 \in Int,
           NEW r1 \in 0..(m - 1), NEW r2 \in 0..(m - 1), (m * q1) + r1 = (m * q2) + r2
    PROVE  r1 = r2
<1>1. ASSUME NEW a \in Int, NEW b \in Int, NEW s \in 0..(m - 1), NEW t \in 0..(m - 1),
             (m * a) + s = (m * b) + t
      PROVE  ~ a < b
  <2>1. SUFFICES ASSUME a + 1 <= b PROVE FALSE
    OBVIOUS
  <2>2. m * (a + 1) <= m * b
    BY <2>1, Z3
  <2>3. m * (a + 1) = m * a + m
    BY Z3
  <2> QED
    BY <1>1, <2>2, <2>3, Z3
<1>2. q1 = q2
  BY <1>1
<1> QED
  BY <1>2, Z3

(* Division with remainder, also of negative numbers. *)
LEMMA DivisionInt ==
    ASSUME NEW n \in Int, NEW m \in Nat \ {0}
    PROVE  /\ n \div m \in Int /\ n % m \in 0..(m - 1)
           /\ n = (m * (n \div m)) + (n % m)
  BY Z3

(* A number that differs from another by a multiple of the modulus. *)
LEMMA Congruent ==
    ASSUME NEW m \in Nat \ {0}, NEW n \in Int, NEW k \in Int
    PROVE  (n + m * k) % m = n % m
<1> DEFINE q == n \div m
           r == n % m
           s == (n + m * k) \div m
           t == (n + m * k) % m
<1>1. m * k \in Int /\ n + m * k \in Int
  BY Z3
<1>2. q \in Int /\ r \in 0..(m - 1) /\ n = (m * q) + r
  BY DivisionInt, Zenon
<1>3. s \in Int /\ t \in 0..(m - 1) /\ n + m * k = (m * s) + t
  BY <1>1, DivisionInt, Zenon
<1> HIDE DEF q, r, s, t
<1>4. q + k \in Int /\ m * (q + k) = m * q + m * k
  BY <1>2, Z3
<1>5. (m * (q + k)) + r = (m * s) + t
  BY <1>1, <1>2, <1>3, <1>4, Z3
<1>6. r = t
  BY <1>2, <1>3, <1>4, <1>5, RemainderUnique
<1> QED
  BY <1>6 DEF r, t

(* Counting on from a counter, wrapped or not, as from what it counted.      *)
LEMMA ShortSucc == \A n \in Nat : short(short(n) + 1) = short(n + 1)
<1> SUFFICES ASSUME NEW n \in Nat PROVE short(short(n) + 1) = short(n + 1)
  OBVIOUS
<1> DEFINE x == n + Half
           q == x \div Width
           r == x % Width
<1>1. Half \in Nat \ {0} /\ Width \in Nat \ {0} /\ x \in Int
  BY HalfAssumption DEF Width
<1>2. q \in Int /\ r \in 0..(Width - 1) /\ x = (Width * q) + r
  BY <1>1, DivisionInt, Zenon
<1>3. short(n) = r - Half
  BY DEF short
<1> HIDE DEF q, r
<1>4. short(n) + 1 + Half = r + 1
  BY <1>1, <1>2, <1>3
<1>5. n + 1 + Half = (r + 1) + Width * q
  BY <1>1, <1>2, Z3
<1>6. (n + 1 + Half) % Width = (r + 1) % Width
  <2>1. r + 1 \in Int
    BY <1>2
  <2> HIDE DEF x
  <2>2. ((r + 1) + Width * q) % Width = (r + 1) % Width
    BY <1>1, <1>2, <2>1, Congruent, Zenon
  <2> QED
    BY <1>5, <2>2, Zenon
<1> QED
  BY <1>4, <1>6 DEF short

(* What the counters show for the first Width - 1 numbers. *)
LEMMA ShortSmall ==
    \A n \in 1..(Width - 1) : short(n) = IF n < Half THEN n ELSE n - Width
<1> SUFFICES ASSUME NEW n \in 1..(Width - 1)
             PROVE  short(n) = IF n < Half THEN n ELSE n - Width
  OBVIOUS
<1>1. Half \in Nat \ {0} /\ Width \in Nat \ {0} /\ Width = 2 * Half
  BY HalfAssumption DEF Width
<1>2. CASE n < Half
  <2>1. n + Half \in Nat /\ n + Half < Width
    BY <1>1, <1>2
  <2>2. (n + Half) % Width = n + Half
    BY <1>1, <2>1, SmallRemainder
  <2> QED
    BY <1>1, <1>2, <2>2 DEF short
<1>3. CASE ~ n < Half
  <2>1. n + Half = (n - Half) + Width * 1 /\ n - Half \in Int /\ n - Half \in Nat /\ n - Half < Width
    BY <1>1, <1>3
  <2>2. (n + Half) % Width = (n - Half) % Width
    <3>1. ((n - Half) + Width * 1) % Width = (n - Half) % Width
      BY <1>1, <2>1, 1 \in Int, Congruent, Zenon
    <3> QED
      BY <2>1, <3>1, Zenon
  <2>3. (n - Half) % Width = n - Half
    BY <1>1, <2>1, SmallRemainder
  <2> QED
    BY <1>1, <1>3, <2>2, <2>3 DEF short
<1> QED
  BY <1>2, <1>3

(* A short is known by its unsigned value. *)
LEMMA UnsignedKnown == \A a, b \in Shorts : a % Width = b % Width => a = b
<1> SUFFICES ASSUME NEW a \in Shorts, NEW b \in Shorts, a % Width = b % Width PROVE a = b
  OBVIOUS
<1>1. Half \in Nat \ {0} /\ Width \in Nat \ {0} /\ Width = 2 * Half
  BY HalfAssumption DEF Width
<1>2. ASSUME NEW n \in Shorts PROVE n % Width = IF n < 0 THEN n + Width ELSE n
  <2>1. n \in Int /\ -Half <= n /\ n < Half
    BY <1>1, <1>2 DEF Shorts
  <2>2. CASE n < 0
    <3>1. n = (n + Width) + Width * (-1) /\ n + Width \in Int /\ n + Width \in Nat /\ n + Width < Width
      BY <1>1, <2>1, <2>2
    <3>2. n % Width = (n + Width) % Width
      <4>1. ((n + Width) + Width * (-1)) % Width = (n + Width) % Width
        BY <1>1, <3>1, -1 \in Int, Congruent, Zenon
      <4> QED
        BY <3>1, <4>1, Zenon
    <3>3. (n + Width) % Width = n + Width
      BY <1>1, <3>1, SmallRemainder
    <3> QED
      BY <2>2, <3>2, <3>3
  <2>3. CASE ~ n < 0
    <3>1. n \in Nat /\ n < Width
      BY <1>1, <2>1, <2>3
    <3> QED
      BY <1>1, <2>3, <3>1, SmallRemainder
  <2> QED
    BY <2>2, <2>3
<1>3. a % Width = (IF a < 0 THEN a + Width ELSE a) /\ b % Width = (IF b < 0 THEN b + Width ELSE b)
  BY <1>2
<1>4. a \in Int /\ b \in Int /\ -Half <= a /\ a < Half /\ -Half <= b /\ b < Half
  BY <1>1 DEF Shorts
<1> QED
  BY <1>1, <1>3, <1>4

LEMMA ShortType == \A n \in Int : short(n) \in Shorts
<1> SUFFICES ASSUME NEW n \in Int PROVE short(n) \in Shorts
  OBVIOUS
<1>1. Half \in Nat \ {0} /\ Width \in Nat \ {0} /\ Width = 2 * Half
  BY HalfAssumption DEF Width
<1>2. (n + Half) % Width \in 0..(Width - 1)
  BY <1>1, Remainder
<1> QED
  BY <1>1, <1>2 DEF short, Shorts

LEMMA UnsignedType == \A n \in Int : n % Width \in Unsigned
<1>1. Width \in Nat \ {0}
  BY HalfAssumption DEF Width
<1> QED
  BY <1>1, Remainder DEF Unsigned

LEMMA NumberedType == \A c \in Shorts : numbered(c) \in Int
<1> SUFFICES ASSUME NEW c \in Shorts PROVE numbered(c) \in Int
  OBVIOUS
<1>1. c + 1 \in Int
  BY HalfAssumption DEF Shorts
<1>2. short(c + 1) \in Int
  BY <1>1, ShortType, HalfAssumption DEF Shorts
<1> QED
  BY <1>2 DEF numbered

LEMMA KeyType == \A id, seq \in Int : key(id, seq) \in Keys
<1> SUFFICES ASSUME NEW id \in Int, NEW seq \in Int PROVE key(id, seq) \in Keys
  OBVIOUS
<1>1. Width - 1 \in Unsigned
  BY HalfAssumption DEF Width, Unsigned
<1>2. id % Width \in Unsigned /\ seq % Width \in Unsigned
  BY UnsignedType
<1> QED
  BY <1>1, <1>2 DEF key, Keys

\* What timeoutControl leaves of the entries and adds to the reports.
LEMMA ExpiredType ==
    ASSUME TypeOK
    PROVE  /\ expired \subseteq DOMAIN pingEntries
           /\ DOMAIN Without(pingEntries, expired) \subseteq DOMAIN pingEntries
           /\ \A k \in DOMAIN Without(pingEntries, expired) :
                 Without(pingEntries, expired)[k] = pingEntries[k] /\ k \notin expired
           /\ ReportExpired \in [Pings -> Seq(Pings \cup {TIMEOUT})]
<1>1. /\ expired \subseteq DOMAIN pingEntries
      /\ DOMAIN Without(pingEntries, expired) \subseteq DOMAIN pingEntries
      /\ \A k \in DOMAIN Without(pingEntries, expired) :
            Without(pingEntries, expired)[k] = pingEntries[k] /\ k \notin expired
  BY DEF expired, Without
<1>2. ASSUME NEW p \in Pings
      PROVE  ReportExpired[p] \in Seq(Pings \cup {TIMEOUT})
  <2>1. reported[p] \in Seq(Pings \cup {TIMEOUT})
    BY DEF TypeOK
  <2>2. Append(reported[p], TIMEOUT) \in Seq(Pings \cup {TIMEOUT})
    BY <2>1
  <2> QED
    BY <2>1, <2>2 DEF ReportExpired
<1>3. ReportExpired = [p \in Pings |-> ReportExpired[p]]
  BY DEF ReportExpired
<1> QED
  BY <1>1, <1>2, <1>3

(* The state keeps its types for every width of the counters and any number  *)
(* of pings.                                                                 *)
THEOREM TypeCorrect == Spec => []TypeOK
<1>1. Init => TypeOK
  <2> SUFFICES ASSUME Init PROVE TypeOK
    OBVIOUS
  <2>1. 0 \in Shorts
    BY HalfAssumption DEF Shorts
  <2>2. reported \in [Pings -> Seq(Pings \cup {TIMEOUT})]
    BY DEF Init
  <2>3. DOMAIN pingEntries = {} /\ downlink \in Seq(Packets)
    BY DEF Init
  <2>4. remaining \in Nat /\ sent \in 0..MaxPings /\ sent + remaining <= MaxPings
    BY BoundsAssumption DEF Init
  <2> QED
    BY <2>1, <2>2, <2>3, <2>4 DEF Init, TypeOK
<1>2. TypeOK /\ [Next]_vars => TypeOK'
  <2> SUFFICES ASSUME TypeOK, [Next]_vars PROVE TypeOK'
    OBVIOUS
  <2>1. CASE timeoutControl
    <3>1. /\ DOMAIN pingEntries' \subseteq Keys
          /\ \A k \in DOMAIN pingEntries' : pingEntries'[k] \in [ping : Pings, limited : BOOLEAN]
      BY <2>1, ExpiredType DEF timeoutControl, TypeOK
    <3>2. reported' \in [Pings -> Seq(Pings \cup {TIMEOUT})]
      BY <2>1, ExpiredType DEF timeoutControl
    <3> QED
      BY <2>1, <3>1, <3>2 DEF timeoutControl, TypeOK, counters, loop
  <2>2. CASE sendPing
    <3> DEFINE id == numbered(idCounter)
               seq == numbered(seqCounter)
               new == key(id, seq)
    <3>1. id \in Int /\ seq \in Int
      BY NumberedType DEF TypeOK
    <3>2. new \in Keys
      BY <3>1, KeyType
    <3>3. sent + 1 \in Pings /\ sent' \in 0..MaxPings /\ remaining' \in Nat
          /\ sent' + remaining' <= MaxPings
      BY <2>2, BoundsAssumption DEF sendPing, TypeOK, Pings
    <3>4. idCounter' \in Shorts /\ seqCounter' \in Shorts
      <4>1. idCounter + 1 \in Int /\ seqCounter + 1 \in Int
        BY HalfAssumption DEF TypeOK, Shorts
      <4> QED
        BY <2>2, <4>1, ShortType DEF sendPing
    <3>5. [ping |-> sent + 1, limited |-> limited] \in [ping : Pings, limited : BOOLEAN]
      BY <3>3 DEF TypeOK
    <3>6. /\ DOMAIN pingEntries' \subseteq Keys
          /\ \A k \in DOMAIN pingEntries' : pingEntries'[k] \in [ping : Pings, limited : BOOLEAN]
      BY <2>2, <3>2, <3>5 DEF sendPing, TypeOK
    <3>7. [id |-> id % Width, seq |-> seq % Width, ping |-> sent + 1] \in Packets
      BY <3>1, <3>3, UnsignedType DEF Packets
    <3>8. echoes' \subseteq Packets
      BY <2>2, <3>7 DEF sendPing, TypeOK
    <3> QED
      BY <2>2, <3>3, <3>4, <3>6, <3>8 DEF sendPing, TypeOK, clock
  <2>3. CASE handlePacket
    <3> DEFINE r == Head(downlink)
               k == [hi |-> r.id, lo |-> r.seq]
               kept == Without(pingEntries, expired)
    <3>1. r \in Packets /\ Tail(downlink) \in Seq(Packets)
      <4>1. downlink \in Seq(Packets) /\ downlink # <<>>
        BY <2>3 DEF handlePacket, TypeOK
      <4> QED
        BY <4>1
    <3>2. r.ping \in Pings
      BY <3>1 DEF Packets
    <3>3. /\ DOMAIN pingEntries' \subseteq Keys
          /\ \A x \in DOMAIN pingEntries' : pingEntries'[x] \in [ping : Pings, limited : BOOLEAN]
      <4>1. pingEntries' = Without(kept, {k})
        BY <2>3 DEF handlePacket
      <4>2. \A x \in DOMAIN kept : x \in Keys /\ kept[x] \in [ping : Pings, limited : BOOLEAN]
        BY ExpiredType DEF TypeOK
      <4> HIDE DEF kept, k
      <4>3. DOMAIN pingEntries' \subseteq DOMAIN kept /\ \A x \in DOMAIN pingEntries' : pingEntries'[x] = kept[x]
        BY <4>1 DEF Without
      <4> QED
        BY <4>2, <4>3
    <3>4. reported' \in [Pings -> Seq(Pings \cup {TIMEOUT})]
      <4>1. ASSUME k \in DOMAIN kept
            PROVE  [ReportExpired EXCEPT ![kept[k].ping] = Append(@, r.ping)]
                      \in [Pings -> Seq(Pings \cup {TIMEOUT})]
        <5>1. kept[k].ping \in Pings
          BY <4>1, ExpiredType DEF TypeOK
        <5>2. ReportExpired[kept[k].ping] \in Seq(Pings \cup {TIMEOUT})
          BY <5>1, ExpiredType
        <5>3. Append(ReportExpired[kept[k].ping], r.ping) \in Seq(Pings \cup {TIMEOUT})
          BY <3>2, <5>2
        <5> HIDE DEF kept, k
        <5> QED
          BY <5>3, ExpiredType
      <4> QED
        BY <2>3, <4>1, ExpiredType DEF handlePacket
    <3>5. responses' \subseteq Pings
      BY <2>3, <3>2 DEF handlePacket, TypeOK
    <3>6. downlink' \in Seq(Packets)
      BY <2>3, <3>1 DEF handlePacket
    <3> QED
      BY <2>3, <3>3, <3>4, <3>5, <3>6 DEF handlePacket, TypeOK, counters, loop
  <2>4. ASSUME NEW count \in Pings, NEW withTimeout \in BOOLEAN, Command(count, withTimeout)
        PROVE  TypeOK'
    <3>1. /\ DOMAIN pingEntries' \subseteq Keys
          /\ \A k \in DOMAIN pingEntries' : pingEntries'[k] \in [ping : Pings, limited : BOOLEAN]
      BY <2>4, ExpiredType DEF Command, TypeOK
    <3>2. reported' \in [Pings -> Seq(Pings \cup {TIMEOUT})]
      BY <2>4, ExpiredType DEF Command
    <3>3. remaining' \in Nat /\ sent' + remaining' <= MaxPings
      BY <2>4, BoundsAssumption DEF Command, Pings
    <3> QED
      BY <2>4, <3>1, <3>2, <3>3 DEF Command, TypeOK, counters
  <2>5. ASSUME NEW packet \in echoes, Reply(packet) PROVE TypeOK'
    BY <2>5 DEF Reply, TypeOK, counters, loop, clock
  <2>6. CASE SecondPasses
    BY <2>6 DEF SecondPasses, TypeOK, counters, loop
  <2>7. ASSUME NEW p \in Pings, Elapses(p) PROVE TypeOK'
    BY <2>7 DEF Elapses, TypeOK, counters, loop
  <2>8. CASE UNCHANGED vars
    BY <2>8 DEF TypeOK, vars, counters, loop, clock
  <2> QED
    BY <2>1, <2>2, <2>3, <2>4, <2>5, <2>6, <2>7, <2>8 DEF Next, Main
<1> QED
  BY <1>1, <1>2, PTL DEF Spec

-----------------------------------------------------------------------------
(* Entries are of pings that were sent and not reported, one of each; with   *)
(* n pings sent.                                                             *)
Once(entries, reports, n) ==
    /\ \A k \in DOMAIN entries : entries[k].ping <= n /\ reports[entries[k].ping] = <<>>
    /\ \A k, l \in DOMAIN entries : entries[k].ping = entries[l].ping => k = l
    /\ \A p \in Pings : p > n => reports[p] = <<>>
    /\ \A p \in Pings : reports[p] = <<>> \/ \E x \in Pings \cup {TIMEOUT} : reports[p] = <<x>>

OnceInv == Once(pingEntries, reported, sent)

\* What timeoutControl reports, with its entries.
LEMMA ReportedByControl ==
    ASSUME TypeOK, OnceInv, NEW p \in Pings
    PROVE  /\ ReportExpired[p] = reported[p] \/ (reported[p] = <<>> /\ ReportExpired[p] = <<TIMEOUT>>)
           /\ (~ \E k \in expired : pingEntries[k].ping = p) => ReportExpired[p] = reported[p]
<1>1. CASE \E k \in expired : pingEntries[k].ping = p
  <2>1. reported[p] = <<>>
    BY <1>1 DEF OnceInv, Once, expired
  <2>2. ReportExpired[p] = Append(reported[p], TIMEOUT)
    BY <1>1 DEF ReportExpired
  <2> QED
    BY <1>1, <2>1, <2>2
<1>2. CASE ~ \E k \in expired : pingEntries[k].ping = p
  <2>1. ReportExpired[p] = reported[p]
    BY <1>2, Zenon DEF ReportExpired
  <2> QED
    BY <2>1
<1> QED
  BY <1>1, <1>2

LEMMA ControlOnce ==
    ASSUME TypeOK, OnceInv
    PROVE  Once(Without(pingEntries, expired), ReportExpired, sent)
<1> DEFINE kept == Without(pingEntries, expired)
<1>1. DOMAIN kept \subseteq DOMAIN pingEntries
      /\ \A k \in DOMAIN kept : kept[k] = pingEntries[k] /\ k \notin expired
  BY ExpiredType
<1>2. expired \subseteq DOMAIN pingEntries
  BY ExpiredType
<1>3. \A k \in DOMAIN kept : pingEntries[k].ping \in Pings
  BY <1>1 DEF TypeOK
<1> HIDE DEF kept
<1>4. ASSUME NEW k \in DOMAIN kept
      PROVE  kept[k].ping <= sent /\ ReportExpired[kept[k].ping] = <<>>
  <2>1. ~ \E l \in expired : pingEntries[l].ping = pingEntries[k].ping
    BY <1>1, <1>2 DEF OnceInv, Once
  <2>2. ReportExpired[pingEntries[k].ping] = reported[pingEntries[k].ping]
    BY <1>3, <2>1, ReportedByControl
  <2> QED
    BY <1>1, <2>2 DEF OnceInv, Once
<1>5. \A k, l \in DOMAIN kept : kept[k].ping = kept[l].ping => k = l
  BY <1>1 DEF OnceInv, Once
<1>6. ASSUME NEW p \in Pings, p > sent
      PROVE  ReportExpired[p] = <<>>
  <2>1. ~ \E l \in expired : pingEntries[l].ping = p
    <3>1. \A l \in DOMAIN pingEntries : pingEntries[l].ping \in Int /\ pingEntries[l].ping <= sent
      BY DEF OnceInv, Once, TypeOK, Pings
    <3>2. p \in Int /\ sent \in Int
      BY DEF TypeOK, Pings
    <3> QED
      BY <1>2, <1>6, <3>1, <3>2
  <2>2. ReportExpired[p] = reported[p]
    BY <2>1, ReportedByControl
  <2> QED
    BY <1>6, <2>2 DEF OnceInv, Once
<1>7. ASSUME NEW p \in Pings
      PROVE  ReportExpired[p] = <<>> \/ \E x \in Pings \cup {TIMEOUT} : ReportExpired[p] = <<x>>
  <2>1. CASE ReportExpired[p] = reported[p]
    BY <2>1 DEF OnceInv, Once
  <2>2. CASE ReportExpired[p] = <<TIMEOUT>>
    BY <2>2
  <2> QED
    BY <2>1, <2>2, ReportedByControl
<1> QED
  BY <1>4, <1>5, <1>6, <1>7 DEF Once, kept

LEMMA NextOnce == TypeOK /\ OnceInv /\ [Next]_vars => OnceInv'
<1> SUFFICES ASSUME TypeOK, OnceInv, [Next]_vars PROVE OnceInv'
  OBVIOUS
<1>1. CASE timeoutControl
  BY <1>1, ControlOnce DEF timeoutControl, OnceInv
<1>2. CASE sendPing
  <2> DEFINE new == key(numbered(idCounter), numbered(seqCounter))
             entry == [ping |-> sent + 1, limited |-> limited]
  <2>1. DOMAIN pingEntries' = DOMAIN pingEntries \cup {new}
        /\ \A k \in DOMAIN pingEntries' : pingEntries'[k] = IF k = new THEN entry ELSE pingEntries[k]
    BY <1>2 DEF sendPing
  <2>2. sent' = sent + 1 /\ reported' = reported /\ sent \in Nat /\ sent + 1 \in Pings
    BY <1>2, BoundsAssumption DEF sendPing, TypeOK, Pings
  <2>3. \A k \in DOMAIN pingEntries : pingEntries[k].ping \in Int /\ pingEntries[k].ping <= sent
    BY DEF OnceInv, Once, TypeOK, Pings
  <2>4. reported[sent + 1] = <<>>
    BY <2>2 DEF OnceInv, Once
  <2> HIDE DEF new
  <2>5. \A k \in DOMAIN pingEntries' :
            pingEntries'[k].ping <= sent + 1 /\ reported[pingEntries'[k].ping] = <<>>
    BY <2>1, <2>2, <2>3, <2>4 DEF OnceInv, Once
  <2>6. \A k, l \in DOMAIN pingEntries' : pingEntries'[k].ping = pingEntries'[l].ping => k = l
    <3>1. \A k \in DOMAIN pingEntries : pingEntries[k].ping # sent + 1
      BY <2>2, <2>3
    <3> QED
      BY <2>1, <3>1 DEF OnceInv, Once
  <2>7. \A p \in Pings : p > sent + 1 => reported[p] = <<>>
    <3>1. \A p \in Pings : p > sent + 1 => p > sent
      BY <2>2 DEF Pings
    <3> QED
      BY <3>1 DEF OnceInv, Once
  <2> QED
    BY <2>2, <2>5, <2>6, <2>7 DEF OnceInv, Once
<1>3. CASE handlePacket
  <2> DEFINE r == Head(downlink)
             k == [hi |-> r.id, lo |-> r.seq]
             kept == Without(pingEntries, expired)
             reports == IF k \in DOMAIN kept
                          THEN [ReportExpired EXCEPT ![kept[k].ping] = Append(@, r.ping)]
                          ELSE ReportExpired
  <2>1. Once(kept, ReportExpired, sent)
    BY ControlOnce
  <2>2. pingEntries' = Without(kept, {k}) /\ reported' = reports /\ sent' = sent
    BY <1>3 DEF handlePacket
  <2>3. r.ping \in Pings
    <3>1. downlink \in Seq(Packets)
      BY Zenon DEF TypeOK
    <3>2. downlink # <<>>
      BY <1>3, Zenon DEF handlePacket
    <3>3. r \in Packets
      BY <3>1, <3>2
    <3> QED
      BY <3>3 DEF Packets
  <2>4. \A l \in DOMAIN kept : kept[l].ping \in Pings
    BY ExpiredType DEF TypeOK
  <2>5. ReportExpired \in [Pings -> Seq(Pings \cup {TIMEOUT})]
    BY ExpiredType
  <2> HIDE DEF r, k, kept
  <2>6. /\ DOMAIN pingEntries' = DOMAIN kept \ {k}
        /\ \A l \in DOMAIN pingEntries' : pingEntries'[l] = kept[l]
    BY <2>2 DEF Without
  <2>7. CASE k \in DOMAIN kept
    <3>1. \A p \in Pings : p # kept[k].ping => reports[p] = ReportExpired[p]
      BY <2>5, <2>7
    <3>2. reports[kept[k].ping] = <<r.ping>>
      <4>1. ReportExpired[kept[k].ping] = <<>>
        BY <2>1, <2>7 DEF Once
      <4>2. reports[kept[k].ping] = Append(<<>>, r.ping)
        BY <2>4, <2>5, <2>7, <4>1
      <4> QED
        BY <4>2
    <3>3. kept[k].ping \in Pings /\ kept[k].ping <= sent
      BY <2>1, <2>4, <2>7 DEF Once
    <3> HIDE DEF reports
    <3>4. \A l \in DOMAIN pingEntries' :
              pingEntries'[l].ping <= sent /\ reports[pingEntries'[l].ping] = <<>>
      BY <2>1, <2>4, <2>6, <2>7, <3>1 DEF Once
    <3>5. \A l, m \in DOMAIN pingEntries' : pingEntries'[l].ping = pingEntries'[m].ping => l = m
      BY <2>1, <2>6 DEF Once
    <3>6. \A p \in Pings : p > sent => reports[p] = <<>>
      <4>1. \A p \in Pings : p > sent => p # kept[k].ping
        BY <3>3 DEF Pings, TypeOK
      <4> QED
        BY <2>1, <3>1, <4>1 DEF Once
    <3>7. \A p \in Pings : reports[p] = <<>> \/ \E x \in Pings \cup {TIMEOUT} : reports[p] = <<x>>
      BY <2>1, <2>3, <3>1, <3>2 DEF Once
    <3> QED
      BY <2>2, <3>4, <3>5, <3>6, <3>7 DEF OnceInv, Once
  <2>8. CASE k \notin DOMAIN kept
    <3>1. reports = ReportExpired
      BY <2>8
    <3> HIDE DEF reports
    <3>2. \A l \in DOMAIN pingEntries' :
              pingEntries'[l].ping <= sent /\ reports[pingEntries'[l].ping] = <<>>
      BY <2>1, <2>6, <3>1 DEF Once
    <3>3. \A l, m \in DOMAIN pingEntries' : pingEntries'[l].ping = pingEntries'[m].ping => l = m
      BY <2>1, <2>6 DEF Once
    <3>4. /\ \A p \in Pings : p > sent => reports[p] = <<>>
          /\ \A p \in Pings : reports[p] = <<>> \/ \E x \in Pings \cup {TIMEOUT} : reports[p] = <<x>>
      BY <2>1, <3>1 DEF Once
    <3> QED
      BY <2>2, <3>2, <3>3, <3>4 DEF OnceInv, Once
  <2> QED
    BY <2>7, <2>8
<1>4. ASSUME NEW count \in Pings, NEW withTimeout \in BOOLEAN, Command(count, withTimeout)
      PROVE  OnceInv'
  BY <1>4, ControlOnce DEF Command, OnceInv
<1>5. ASSUME NEW packet \in echoes, Reply(packet) PROVE OnceInv'
  BY <1>5 DEF Reply, OnceInv
<1>6. CASE SecondPasses
  BY <1>6 DEF SecondPasses, OnceInv
<1>7. ASSUME NEW p \in Pings, Elapses(p) PROVE OnceInv'
  BY <1>7 DEF Elapses, OnceInv
<1>8. CASE UNCHANGED vars
  BY <1>8 DEF OnceInv, vars
<1> QED
  BY <1>1, <1>2, <1>3, <1>4, <1>5, <1>6, <1>7, <1>8 DEF Next, Main

LEMMA InitOnce == Init => OnceInv
<1> SUFFICES ASSUME Init PROVE OnceInv
  OBVIOUS
<1>1. DOMAIN pingEntries = {} /\ \A p \in Pings : reported[p] = <<>>
  BY DEF Init
<1> QED
  BY <1>1 DEF OnceInv, Once

(* No ping is reported twice, for any number of pings and any width of the   *)
(* counters, across their wraps.                                             *)
THEOREM SingleReports == Spec => []ReportedOnce
<1>1. OnceInv => ReportedOnce
  <2> SUFFICES ASSUME OnceInv, NEW p \in Pings PROVE Len(reported[p]) <= 1
    BY DEF ReportedOnce
  <2>1. CASE reported[p] = <<>>
    BY <2>1
  <2>2. ASSUME NEW x, reported[p] = <<x>> PROVE Len(reported[p]) <= 1
    BY <2>2
  <2> QED
    BY <2>1, <2>2 DEF OnceInv, Once
<1> QED
  BY <1>1, InitOnce, NextOnce, TypeCorrect, PTL DEF Spec

-----------------------------------------------------------------------------
(* The identifier and sequence number of the n-th ping. *)
Number(n) == IF short(n) = 0 THEN 1 ELSE short(n)

Negative == (-Half)..(-2)

LEMMA NumberType == \A n \in Nat : Number(n) \in Shorts /\ Number(n) # 0
<1> SUFFICES ASSUME NEW n \in Nat PROVE Number(n) \in Shorts /\ Number(n) # 0
  OBVIOUS
<1>1. short(n) \in Shorts
  BY ShortType
<1>2. 1 \in Shorts
  BY HalfAssumption DEF Shorts
<1> QED
  BY <1>1, <1>2 DEF Number

(* Fewer than Width pings have numbers of their own. *)
LEMMA NumberDistinct ==
    MaxPings < Width => \A p, q \in Pings : Number(p) = Number(q) => p = q
<1> SUFFICES ASSUME MaxPings < Width, NEW p \in Pings, NEW q \in Pings, Number(p) = Number(q)
             PROVE  p = q
  OBVIOUS
<1>1. Half \in Nat \ {0} /\ Width \in Nat \ {0} /\ Width = 2 * Half
  BY HalfAssumption DEF Width
<1>2. p \in 1..(Width - 1) /\ q \in 1..(Width - 1)
  BY <1>1, BoundsAssumption DEF Pings
<1>3. /\ short(p) = IF p < Half THEN p ELSE p - Width
      /\ short(q) = IF q < Half THEN q ELSE q - Width
  BY <1>2, ShortSmall
<1>4. Number(p) = short(p) /\ Number(q) = short(q)
  BY <1>1, <1>2, <1>3 DEF Number
<1>5. short(p) = short(q)
  BY <1>4, Zenon
<1> HIDE DEF Width, short
<1> QED
  BY <1>1, <1>2, <1>3, <1>5, Z3

NumberKey(n) == key(Number(n), Number(n))

LEMMA MinusOne == (-1) % Width = Width - 1
<1>1. Width \in Nat \ {0}
  BY HalfAssumption DEF Width
<1>2. -1 = (Width - 1) + Width * (-1) /\ Width - 1 \in Nat /\ Width - 1 < Width
      /\ Width - 1 \in Int /\ -1 \in Int
  BY <1>1
<1>3. ((Width - 1) + Width * (-1)) % Width = (Width - 1) % Width
  BY <1>1, <1>2, Congruent, Zenon
<1>4. (Width - 1) % Width = Width - 1
  BY <1>1, <1>2, SmallRemainder
<1> QED
  BY <1>2, <1>3, <1>4, Zenon

(* A key gives the number away; so does the key that a reply's unsigned      *)
(* numbers make, but a number below -1 is not found with it.                 *)
LEMMA KeyKnown ==
    ASSUME NEW p \in Nat, NEW q \in Nat
    PROVE  /\ NumberKey(p) = NumberKey(q) => Number(p) = Number(q)
           /\ NumberKey(p) = [hi |-> Number(q) % Width, lo |-> Number(q) % Width]
                 => Number(p) = Number(q) /\ Number(p) \notin Negative
<1> DEFINE a == Number(p)
           b == Number(q)
<1>1. Half \in Nat \ {0} /\ Width \in Nat \ {0} /\ Width = 2 * Half
  BY HalfAssumption DEF Width
<1>2. a \in Shorts /\ b \in Shorts
  BY NumberType
<1>3. /\ NumberKey(p) = [hi |-> IF a < 0 THEN Width - 1 ELSE a % Width, lo |-> a % Width]
      /\ NumberKey(q) = [hi |-> IF b < 0 THEN Width - 1 ELSE b % Width, lo |-> b % Width]
  BY DEF NumberKey, key
<1> HIDE DEF a, b
<1>4. NumberKey(p) = NumberKey(q) => a = b
  BY <1>2, <1>3, UnsignedKnown
<1>5. ASSUME NumberKey(p) = [hi |-> b % Width, lo |-> b % Width]
      PROVE  a = b /\ a \notin Negative
  <2>1. a = b
    BY <1>2, <1>3, <1>5, UnsignedKnown
  <2>2. a < 0 => a % Width = Width - 1
    BY <1>3, <1>5, <2>1
  <2>3. ASSUME a < 0 PROVE a = -1
    <3>1. -1 \in Shorts
      BY <1>1 DEF Shorts
    <3> QED
      BY <1>2, <2>2, <2>3, <3>1, MinusOne, UnsignedKnown
  <2>4. a \in Int
    BY <1>1, <1>2 DEF Shorts
  <2> QED
    BY <1>1, <2>1, <2>3, <2>4 DEF Negative
<1> QED
  BY <1>4, <1>5 DEF a, b

(* A number that is no less than -1 has the key that replies to it make. *)
LEMMA KeyReplied ==
    ASSUME NEW p \in Nat, Number(p) \notin Negative
    PROVE  NumberKey(p) = [hi |-> Number(p) % Width, lo |-> Number(p) % Width]
<1> DEFINE a == Number(p)
<1>1. Half \in Nat \ {0} /\ Width \in Nat \ {0} /\ Width = 2 * Half
  BY HalfAssumption DEF Width
<1>2. a \in Int /\ (a = -1 \/ ~ a < 0)
  BY <1>1, NumberType DEF Shorts, Negative
<1>3. NumberKey(p) = [hi |-> IF a < 0 THEN Width - 1 ELSE a % Width, lo |-> a % Width]
  BY DEF NumberKey, key
<1> HIDE DEF a
<1>4. NumberKey(p) = [hi |-> a % Width, lo |-> a % Width]
  <2>1. a < 0 => a % Width = Width - 1
    <3>1. a < 0 => a = -1
      BY <1>2
    <3> QED
      BY <3>1, MinusOne, Zenon
  <2> QED
    BY <1>3, <2>1, Zenon
<1> QED
  BY <1>4 DEF a

-----------------------------------------------------------------------------
(* An entry has the key of its ping's number, and so have the packets; a     *)
(* reply is only reported for a ping of the same number, and for none whose  *)
(* number is below -1.                                                       *)
Fits(p, q) == Number(q) = Number(p) /\ Number(p) \notin Negative

Fitting(entries, reports) ==
    /\ \A k \in DOMAIN entries : k = NumberKey(entries[k].ping)
    /\ \A p \in Pings : \/ reports[p] = <<>> \/ reports[p] = <<TIMEOUT>>
                        \/ \E q \in Pings : reports[p] = <<q>> /\ Fits(p, q)

PacketsNumbered ==
    /\ \A packet \in echoes : /\ packet.id = Number(packet.ping) % Width
                              /\ packet.seq = Number(packet.ping) % Width
    /\ \A i \in 1..Len(downlink) : downlink[i] \in echoes

NumberInv ==
    /\ idCounter = short(sent) /\ seqCounter = short(sent)
    /\ PacketsNumbered
    /\ Fitting(pingEntries, reported)

LEMMA ControlFitting ==
    ASSUME TypeOK, OnceInv, NumberInv
    PROVE  Fitting(Without(pingEntries, expired), ReportExpired)
<1> DEFINE kept == Without(pingEntries, expired)
<1>1. \A k \in DOMAIN kept : k = NumberKey(kept[k].ping)
  BY ExpiredType DEF NumberInv, Fitting
<1>2. ASSUME NEW p \in Pings
      PROVE  \/ ReportExpired[p] = <<>> \/ ReportExpired[p] = <<TIMEOUT>>
             \/ \E q \in Pings : ReportExpired[p] = <<q>> /\ Fits(p, q)
  <2>1. \/ reported[p] = <<>> \/ reported[p] = <<TIMEOUT>>
        \/ \E q \in Pings : reported[p] = <<q>> /\ Fits(p, q)
    BY DEF NumberInv, Fitting
  <2>2. ReportExpired[p] = reported[p] \/ ReportExpired[p] = <<TIMEOUT>>
    BY ReportedByControl
  <2> QED
    BY <2>1, <2>2
<1> QED
  BY <1>1, <1>2 DEF Fitting

(* What the loop of sendPing makes of the counters. *)
LEMMA NumberedNext ==
    ASSUME TypeOK, NumberInv, sendPing
    PROVE  /\ sent \in Nat /\ sent + 1 \in Pings /\ sent' = sent + 1
           /\ numbered(idCounter) = Number(sent + 1) /\ numbered(seqCounter) = Number(sent + 1)
           /\ idCounter' = short(sent + 1) /\ seqCounter' = short(sent + 1)
           /\ DOMAIN pingEntries' = DOMAIN pingEntries \cup {NumberKey(sent + 1)}
           /\ \A k \in DOMAIN pingEntries' :
                 pingEntries'[k] = IF k = NumberKey(sent + 1)
                                     THEN [ping |-> sent + 1, limited |-> limited]
                                     ELSE pingEntries[k]
<1>1. sent \in Nat /\ sent + 1 \in Pings /\ sent' = sent + 1
  BY BoundsAssumption DEF sendPing, TypeOK, Pings
<1>2. short(idCounter + 1) = short(sent + 1) /\ short(seqCounter + 1) = short(sent + 1)
  BY <1>1, ShortSucc DEF NumberInv
<1>3. numbered(idCounter) = Number(sent + 1) /\ numbered(seqCounter) = Number(sent + 1)
  BY <1>2 DEF numbered, Number
<1>4. key(numbered(idCounter), numbered(seqCounter)) = NumberKey(sent + 1)
  BY <1>3 DEF NumberKey
<1> QED
  BY <1>1, <1>2, <1>3, <1>4 DEF sendPing

(* The ping of the entry that a reply finds has the number of the reply's.   *)
LEMMA FoundFits ==
    ASSUME TypeOK, NumberInv, NEW r, r \in echoes, r.ping \in Pings,
           NEW p \in Pings, [hi |-> r.id, lo |-> r.seq] = NumberKey(p)
    PROVE  Fits(p, r.ping)
<1>1. r.id = Number(r.ping) % Width /\ r.seq = Number(r.ping) % Width
  BY DEF NumberInv, PacketsNumbered
<1>2. NumberKey(p) = [hi |-> Number(r.ping) % Width, lo |-> Number(r.ping) % Width]
  BY <1>1
<1>3. p \in Nat /\ r.ping \in Nat
  BY DEF Pings
<1> QED
  BY <1>2, <1>3, KeyKnown DEF Fits

LEMMA NextNumber == TypeOK /\ OnceInv /\ NumberInv /\ [Next]_vars => NumberInv'
<1> SUFFICES ASSUME TypeOK, OnceInv, NumberInv, [Next]_vars PROVE NumberInv'
  OBVIOUS
<1>1. CASE timeoutControl
  <2>1. Fitting(pingEntries', reported')
    BY <1>1, ControlFitting DEF timeoutControl
  <2> QED
    BY <1>1, <2>1 DEF timeoutControl, NumberInv, PacketsNumbered, counters
<1>2. CASE sendPing
  <2>1. PacketsNumbered'
    <3>1. echoes' = echoes \cup {[id |-> Number(sent + 1) % Width, seq |-> Number(sent + 1) % Width,
                                  ping |-> sent + 1]}
      BY <1>2, NumberedNext DEF sendPing
    <3>2. downlink' = downlink
      BY <1>2 DEF sendPing
    <3> QED
      BY <3>1, <3>2 DEF NumberInv, PacketsNumbered
  <2>2. \A k \in DOMAIN pingEntries' : k = NumberKey(pingEntries'[k].ping)
    BY <1>2, NumberedNext DEF NumberInv, Fitting
  <2>3. reported' = reported
    BY <1>2 DEF sendPing
  <2>4. Fitting(pingEntries', reported')
    BY <2>2, <2>3 DEF NumberInv, Fitting
  <2>5. idCounter' = short(sent') /\ seqCounter' = short(sent')
    BY <1>2, NumberedNext
  <2> QED
    BY <2>1, <2>4, <2>5 DEF NumberInv
<1>3. CASE handlePacket
  <2> DEFINE r == Head(downlink)
             k == [hi |-> r.id, lo |-> r.seq]
             kept == Without(pingEntries, expired)
             reports == IF k \in DOMAIN kept
                          THEN [ReportExpired EXCEPT ![kept[k].ping] = Append(@, r.ping)]
                          ELSE ReportExpired
  <2>1. Fitting(kept, ReportExpired) /\ Once(kept, ReportExpired, sent)
    BY ControlFitting, ControlOnce
  <2>2. pingEntries' = Without(kept, {k}) /\ reported' = reports
    BY <1>3 DEF handlePacket
  <2>3. downlink \in Seq(Packets) /\ downlink # <<>> /\ downlink' = Tail(downlink) /\ echoes' = echoes
    BY <1>3 DEF handlePacket, TypeOK
  <2>4. r \in Packets /\ r \in echoes
    <3>1. 1 \in 1..Len(downlink) /\ r = downlink[1] /\ r \in Packets
      BY <2>3
    <3> QED
      BY <3>1 DEF NumberInv, PacketsNumbered
  <2>5. r.ping \in Pings
    BY <2>4 DEF Packets
  <2>6. ReportExpired \in [Pings -> Seq(Pings \cup {TIMEOUT})]
    BY ExpiredType
  <2>7. \A l \in DOMAIN kept : kept[l].ping \in Pings
    BY ExpiredType DEF TypeOK
  <2>8. ASSUME k \in DOMAIN kept PROVE Fits(kept[k].ping, r.ping)
    <3>1. k = NumberKey(kept[k].ping)
      BY <2>1, <2>8 DEF Fitting
    <3> QED
      BY <2>4, <2>5, <2>7, <2>8, <3>1, FoundFits
  <2>9. PacketsNumbered'
    <3>1. Len(downlink') = Len(downlink) - 1 /\ \A i \in 1..Len(downlink') : downlink'[i] = downlink[i + 1]
      BY <2>3
    <3>2. \A i \in 1..Len(downlink') : i + 1 \in 1..Len(downlink)
      BY <2>3, <3>1
    <3> QED
      BY <2>3, <3>1, <3>2 DEF NumberInv, PacketsNumbered
  <2>10. UNCHANGED <<idCounter, seqCounter, sent>>
    BY <1>3 DEF handlePacket, counters
  <2> HIDE DEF r, k, kept
  <2>11. \A l \in DOMAIN pingEntries' : l = NumberKey(pingEntries'[l].ping)
    BY <2>1, <2>2 DEF Fitting, Without
  <2>12. ASSUME NEW p \in Pings
         PROVE  \/ reports[p] = <<>> \/ reports[p] = <<TIMEOUT>>
                \/ \E q \in Pings : reports[p] = <<q>> /\ Fits(p, q)
    <3>1. CASE k \in DOMAIN kept /\ p = kept[k].ping
      <4>1. ReportExpired[p] = <<>>
        BY <2>1, <3>1 DEF Once
      <4>2. reports[p] = Append(<<>>, r.ping)
        BY <2>6, <3>1, <4>1
      <4>3. reports[p] = <<r.ping>>
        BY <4>2
      <4> QED
        BY <2>5, <2>8, <3>1, <4>3
    <3>2. CASE ~ (k \in DOMAIN kept /\ p = kept[k].ping)
      <4>1. reports[p] = ReportExpired[p]
        BY <2>6, <3>2
      <4> QED
        BY <2>1, <4>1 DEF Fitting
    <3> QED
      BY <3>1, <3>2
  <2> HIDE DEF reports
  <2>13. Fitting(pingEntries', reported')
    BY <2>2, <2>11, <2>12 DEF Fitting
  <2> QED
    BY <2>9, <2>10, <2>13 DEF NumberInv
<1>4. ASSUME NEW count \in Pings, NEW withTimeout \in BOOLEAN, Command(count, withTimeout)
      PROVE  NumberInv'
  <2>1. Fitting(pingEntries', reported')
    BY <1>4, ControlFitting DEF Command
  <2> QED
    BY <1>4, <2>1 DEF Command, NumberInv, PacketsNumbered, counters
<1>5. ASSUME NEW packet \in echoes, Reply(packet) PROVE NumberInv'
  <2>1. PacketsNumbered'
    <3>1. downlink \in Seq(Packets) /\ downlink' = Append(downlink, packet) /\ echoes' = echoes
      BY <1>5 DEF Reply, TypeOK
    <3>2. \A i \in 1..Len(downlink') : (i \in 1..Len(downlink) /\ downlink'[i] = downlink[i])
                                       \/ downlink'[i] = packet
      BY <3>1
    <3> QED
      BY <3>1, <3>2 DEF NumberInv, PacketsNumbered
  <2> QED
    BY <1>5, <2>1 DEF Reply, NumberInv, counters
<1>6. CASE SecondPasses
  BY <1>6 DEF SecondPasses, NumberInv, PacketsNumbered, counters
<1>7. ASSUME NEW p \in Pings, Elapses(p) PROVE NumberInv'
  BY <1>7 DEF Elapses, NumberInv, PacketsNumbered, counters
<1>8. CASE UNCHANGED vars
  BY <1>8 DEF NumberInv, PacketsNumbered, vars, counters
<1> QED
  BY <1>1, <1>2, <1>3, <1>4, <1>5, <1>6, <1>7, <1>8 DEF Next, Main

LEMMA InitNumber == Init => NumberInv
<1> SUFFICES ASSUME Init PROVE NumberInv
  OBVIOUS
<1>1. short(0) = 0
  <2>1. Half \in Nat /\ Width \in Nat \ {0} /\ Half < Width
    BY HalfAssumption DEF Width
  <2>2. Half % Width = Half
    BY <2>1, SmallRemainder
  <2> QED
    BY <2>1, <2>2 DEF short
<1>2. DOMAIN pingEntries = {} /\ \A p \in Pings : reported[p] = <<>>
  BY DEF Init
<1>3. Fitting(pingEntries, reported)
  BY <1>2 DEF Fitting
<1>4. PacketsNumbered
  BY DEF Init, PacketsNumbered
<1> QED
  BY <1>1, <1>3, <1>4 DEF Init, NumberInv

LEMMA NumberHolds == Spec => [](TypeOK /\ OnceInv /\ NumberInv)
<1>1. Spec => [](TypeOK /\ OnceInv)
  BY InitOnce, NextOnce, TypeCorrect, PTL DEF Spec
<1> QED
  BY <1>1, InitNumber, NextNumber, PTL DEF Spec

(* A reported reply is to a ping of the same number, that is the same short, *)
(* however many pings are sent: after the counters wrapped only the pings    *)
(* Width apart, and those that got 1 for 0, are mistaken for each other.     *)
NumbersMatch ==
    \A p \in Pings : \A i \in DOMAIN reported[p] :
        reported[p][i] = TIMEOUT \/ Number(reported[p][i]) = Number(p)

(* Replies are matched by number, for any number of pings.                   *)
THEOREM RepliesMatchNumbers == Spec => []NumbersMatch
<1>1. NumberInv => NumbersMatch
  <2> SUFFICES ASSUME NumberInv, NEW p \in Pings, NEW i \in DOMAIN reported[p]
               PROVE  reported[p][i] = TIMEOUT \/ Number(reported[p][i]) = Number(p)
    BY DEF NumbersMatch
  <2>1. \/ reported[p] = <<>> \/ reported[p] = <<TIMEOUT>>
        \/ \E q \in Pings : reported[p] = <<q>> /\ Number(q) = Number(p)
    BY DEF NumberInv, Fitting, Fits
  <2>2. CASE reported[p] = <<>>
    BY <2>2
  <2>3. CASE reported[p] = <<TIMEOUT>>
    BY <2>3
  <2>4. ASSUME NEW q \in Pings, reported[p] = <<q>>, Number(q) = Number(p)
        PROVE  Number(reported[p][i]) = Number(p)
    <3>1. reported[p][i] = q
      BY <2>4
    <3> QED
      BY <2>4, <3>1
  <2> QED
    BY <2>1, <2>2, <2>3, <2>4
<1> QED
  BY <1>1, NumberHolds, PTL

(* A ping whose number is below -1 is never reported as answered, however    *)
(* many replies come: the key of its entry has the sign of its sequence      *)
(* number in the identifier's half, and no reply makes that key.             *)
NegativeSilent ==
    \A p \in Pings : short(p) \in Negative =>
        \A i \in DOMAIN reported[p] : reported[p][i] = TIMEOUT

(* So pings with such numbers are reported as timed out or not at all.       *)
THEOREM NegativeNeverAnswered == Spec => []NegativeSilent
<1>1. NumberInv => NegativeSilent
  <2> SUFFICES ASSUME NumberInv, NEW p \in Pings, short(p) \in Negative,
                      NEW i \in DOMAIN reported[p]
               PROVE  reported[p][i] = TIMEOUT
    BY DEF NegativeSilent
  <2>1. Number(p) \in Negative
    BY HalfAssumption DEF Number, Negative
  <2>2. reported[p] = <<>> \/ reported[p] = <<TIMEOUT>>
    BY <2>1 DEF NumberInv, Fitting, Fits
  <2> QED
    BY <2>2
<1> QED
  BY <1>1, NumberHolds, PTL

(* With fewer than Width pings, so that no number is given twice, a reported *)
(* reply is the reported ping's own, however replies are delayed, repeated   *)
(* and reordered.                                                            *)
THEOREM RepliesAreOwn == MaxPings < Width => (Spec => []ReplyIsOwn)
<1> SUFFICES ASSUME MaxPings < Width PROVE Spec => []ReplyIsOwn
  OBVIOUS
<1>1. NumberInv => ReplyIsOwn
  <2> SUFFICES ASSUME NumberInv, NEW p \in Pings, NEW i \in DOMAIN reported[p]
               PROVE  reported[p][i] \in {p, TIMEOUT}
    BY DEF ReplyIsOwn
  <2>1. \/ reported[p] = <<>> \/ reported[p] = <<TIMEOUT>>
        \/ \E q \in Pings : reported[p] = <<q>> /\ Number(q) = Number(p)
    BY DEF NumberInv, Fitting, Fits
  <2>2. reported[p] = <<>> \/ reported[p] = <<TIMEOUT>> \/ reported[p] = <<p>>
    BY <2>1, NumberDistinct
  <2> QED
    BY <2>2
<1> QED
  BY <1>1, NumberHolds, PTL

(* With fewer than Width pings the entry of a ping goes only in a step that  *)
(* leaves the ping reported: no later ping takes its place, and timeouts and *)
(* replies to others leave it alone.                                         *)
ForgottenWhenReported ==
    \A k \in DOMAIN pingEntries :
        \/ k \in DOMAIN pingEntries' /\ pingEntries'[k] = pingEntries[k]
        \/ reported'[pingEntries[k].ping] # <<>>

LEMMA ExpiredOrKept ==
    ASSUME TypeOK, NEW k \in DOMAIN pingEntries
    PROVE  \/ k \in DOMAIN Without(pingEntries, expired)
              /\ Without(pingEntries, expired)[k] = pingEntries[k]
           \/ ReportExpired[pingEntries[k].ping] # <<>>
<1>1. CASE k \in expired
  <2>1. pingEntries[k].ping \in Pings
    BY DEF TypeOK
  <2>2. ReportExpired[pingEntries[k].ping] = Append(reported[pingEntries[k].ping], TIMEOUT)
    BY <1>1, <2>1 DEF ReportExpired
  <2>3. reported[pingEntries[k].ping] \in Seq(Pings \cup {TIMEOUT})
    BY <2>1 DEF TypeOK
  <2>4. Append(reported[pingEntries[k].ping], TIMEOUT) # <<>>
    BY <2>3
  <2> QED
    BY <2>2, <2>4
<1>2. CASE k \notin expired
  BY <1>2 DEF Without
<1> QED
  BY <1>1, <1>2

LEMMA StepForgets ==
    MaxPings < Width => (TypeOK /\ OnceInv /\ NumberInv /\ [Next]_vars => ForgottenWhenReported)
<1> SUFFICES ASSUME MaxPings < Width, TypeOK, OnceInv, NumberInv, [Next]_vars,
                    NEW k \in DOMAIN pingEntries
             PROVE  \/ k \in DOMAIN pingEntries' /\ pingEntries'[k] = pingEntries[k]
                    \/ reported'[pingEntries[k].ping] # <<>>
  BY DEF ForgottenWhenReported
<1>1. CASE timeoutControl
  BY <1>1, ExpiredOrKept DEF timeoutControl
<1>2. CASE sendPing
  <2>1. pingEntries[k].ping \in Pings /\ pingEntries[k].ping <= sent
    BY DEF TypeOK, OnceInv, Once
  <2>2. sent \in Nat /\ sent + 1 \in Pings
    BY <1>2, NumberedNext
  <2>3. pingEntries[k].ping # sent + 1
    BY <2>1, <2>2 DEF Pings
  <2>4. Number(pingEntries[k].ping) # Number(sent + 1)
    BY <2>1, <2>2, <2>3, NumberDistinct
  <2>5. k # NumberKey(sent + 1)
    <3>1. k = NumberKey(pingEntries[k].ping)
      BY DEF NumberInv, Fitting
    <3>2. pingEntries[k].ping \in Nat /\ sent + 1 \in Nat
      BY <2>1, <2>2 DEF Pings
    <3> QED
      BY <2>4, <3>1, <3>2, KeyKnown
  <2> QED
    BY <1>2, <2>5, NumberedNext
<1>3. CASE handlePacket
  <2> DEFINE r == Head(downlink)
             n == [hi |-> r.id, lo |-> r.seq]
             kept == Without(pingEntries, expired)
             p == pingEntries[k].ping
  <2>1. /\ pingEntries' = Without(kept, {n})
        /\ reported' = IF n \in DOMAIN kept
                         THEN [ReportExpired EXCEPT ![kept[n].ping] = Append(@, r.ping)]
                         ELSE ReportExpired
    BY <1>3 DEF handlePacket
  <2>2. (k \in DOMAIN kept /\ kept[k] = pingEntries[k]) \/ ReportExpired[p] # <<>>
    BY ExpiredOrKept
  <2>3. ReportExpired \in [Pings -> Seq(Pings \cup {TIMEOUT})] /\ p \in Pings
    BY ExpiredType DEF TypeOK
  <2> HIDE DEF r, n, kept
  <2>4. \A x, y : Append(ReportExpired[p], x) # <<>>
    <3>1. ReportExpired[p] \in Seq(Pings \cup {TIMEOUT})
      BY <2>3
    <3> QED
      BY <3>1
  <2>5. reported'[p] = ReportExpired[p] \/ \E x : reported'[p] = Append(ReportExpired[p], x)
    <3>1. CASE n \in DOMAIN kept /\ kept[n].ping = p
      <4>1. reported'[p] = Append(ReportExpired[p], r.ping)
        BY <2>1, <2>3, <3>1
      <4> QED
        BY <4>1
    <3>2. CASE ~ (n \in DOMAIN kept /\ kept[n].ping = p)
      <4>1. reported'[p] = ReportExpired[p]
        BY <2>1, <2>3, <3>2
      <4> QED
        BY <4>1
    <3> QED
      BY <3>1, <3>2
  <2>6. CASE ReportExpired[p] # <<>>
    BY <2>4, <2>5, <2>6
  <2>7. CASE k \in DOMAIN kept /\ kept[k] = pingEntries[k]
    <3>1. CASE k = n
      <4>1. reported'[p] = Append(ReportExpired[p], r.ping)
        BY <2>1, <2>3, <2>7, <3>1
      <4> QED
        BY <2>4, <4>1
    <3>2. CASE k # n
      <4>1. k \in DOMAIN pingEntries' /\ pingEntries'[k] = kept[k]
        BY <2>1, <2>7, <3>2 DEF Without
      <4> QED
        BY <2>7, <4>1
    <3> QED
      BY <3>1, <3>2
  <2> QED
    BY <2>2, <2>6, <2>7
<1>4. ASSUME NEW count \in Pings, NEW withTimeout \in BOOLEAN, Command(count, withTimeout)
      PROVE  \/ k \in DOMAIN pingEntries' /\ pingEntries'[k] = pingEntries[k]
             \/ reported'[pingEntries[k].ping] # <<>>
  BY <1>4, ExpiredOrKept DEF Command
<1>5. CASE UNCHANGED pingEntries
  BY <1>5
<1> QED
  BY <1>1, <1>2, <1>3, <1>4, <1>5 DEF Next, Main, Reply, SecondPasses, Elapses, vars

(* No ping that waits for its reply is forgotten.                            *)
THEOREM NotForgotten == MaxPings < Width => (Spec => [][ForgottenWhenReported]_vars)
<1> SUFFICES ASSUME MaxPings < Width PROVE Spec => [][ForgottenWhenReported]_vars
  OBVIOUS
<1>1. TypeOK /\ OnceInv /\ NumberInv /\ [Next]_vars => [ForgottenWhenReported]_vars
  BY StepForgets
<1> QED
  BY <1>1, NumberHolds, PTL DEF Spec
-----------------------------------------------------------------------------
(* Replies in time, for fewer than Width pings. *)

(* A ping that was sent and not reported has its entry, and one that was     *)
(* answered in time, with a number that replies can find, is reported as     *)
(* answered by its own reply.                                                *)
InTime(entries, reports, n, resp) ==
    /\ \A p \in 1..n : reports[p] = <<>> =>
          NumberKey(p) \in DOMAIN entries /\ entries[NumberKey(p)].ping = p
    /\ \A p \in resp : Number(p) \notin Negative => reports[p] = <<p>>

PacketsSent == \A packet \in echoes : packet.ping <= sent

TimeInv == PacketsSent /\ InTime(pingEntries, reported, sent, responses)

LEMMA ControlInTime ==
    ASSUME TypeOK, OnceInv, TimeInv
    PROVE  InTime(Without(pingEntries, expired), ReportExpired, sent, responses)
<1> DEFINE kept == Without(pingEntries, expired)
<1>1. /\ DOMAIN kept = DOMAIN pingEntries \ expired
      /\ \A k \in DOMAIN kept : kept[k] = pingEntries[k]
  BY DEF Without
<1> HIDE DEF kept
<1>2. \A p \in 1..sent : p \in Pings
  BY BoundsAssumption DEF TypeOK, Pings
<1>3. ASSUME NEW p \in 1..sent, ReportExpired[p] = <<>>
      PROVE  NumberKey(p) \in DOMAIN kept /\ kept[NumberKey(p)].ping = p
  <2>1. reported[p] = <<>> /\ ReportExpired[p] # <<TIMEOUT>>
    BY <1>2, <1>3, ReportedByControl
  <2>2. NumberKey(p) \in DOMAIN pingEntries /\ pingEntries[NumberKey(p)].ping = p
    BY <2>1 DEF TimeInv, InTime
  <2>3. ASSUME NumberKey(p) \in expired PROVE FALSE
    <3>1. ReportExpired[p] = Append(reported[p], TIMEOUT)
      BY <1>2, <2>2, <2>3 DEF ReportExpired
    <3>2. Append(reported[p], TIMEOUT) # <<>>
      BY <2>1
    <3> QED
      BY <1>3, <3>1, <3>2
  <2> QED
    BY <1>1, <2>2, <2>3
<1>4. ASSUME NEW p \in responses, Number(p) \notin Negative PROVE ReportExpired[p] = <<p>>
  <2>1. p \in Pings /\ reported[p] = <<p>>
    BY <1>4 DEF TypeOK, TimeInv, InTime
  <2>2. reported[p] # <<>>
    BY <2>1
  <2> QED
    BY <2>1, <2>2, ReportedByControl
<1> QED
  BY <1>3, <1>4 DEF InTime, kept

LEMMA NextInTime ==
    MaxPings < Width => (TypeOK /\ OnceInv /\ NumberInv /\ TimeInv /\ [Next]_vars => TimeInv')
<1> SUFFICES ASSUME MaxPings < Width, TypeOK, OnceInv, NumberInv, TimeInv, [Next]_vars
             PROVE  TimeInv'
  OBVIOUS
<1>1. CASE timeoutControl
  <2>1. InTime(pingEntries', reported', sent', responses')
    BY <1>1, ControlInTime DEF timeoutControl
  <2> QED
    BY <1>1, <2>1 DEF timeoutControl, TimeInv, PacketsSent
<1>2. CASE sendPing
  <2>1. sent \in Nat /\ sent + 1 \in Pings /\ sent' = sent + 1
    BY <1>2, NumberedNext
  <2>2. reported' = reported /\ responses' = responses
    BY <1>2 DEF sendPing
  <2>3. ASSUME NEW p \in 1..(sent + 1), reported[p] = <<>>
        PROVE  NumberKey(p) \in DOMAIN pingEntries' /\ pingEntries'[NumberKey(p)].ping = p
    <3>1. CASE p = sent + 1
      BY <1>2, <3>1, NumberedNext
    <3>2. CASE p # sent + 1
      <4>1. p \in 1..sent /\ p \in Pings
        BY <2>1, <3>2, BoundsAssumption DEF Pings
      <4>2. Number(p) # Number(sent + 1)
        BY <2>1, <3>2, <4>1, NumberDistinct
      <4>3. NumberKey(p) # NumberKey(sent + 1)
        BY <2>1, <4>1, <4>2, KeyKnown DEF Pings
      <4>4. NumberKey(p) \in DOMAIN pingEntries /\ pingEntries[NumberKey(p)].ping = p
        BY <2>3, <4>1 DEF TimeInv, InTime
      <4> QED
        BY <1>2, <4>3, <4>4, NumberedNext
    <3> QED
      BY <3>1, <3>2
  <2>4. InTime(pingEntries', reported', sent', responses')
    BY <2>1, <2>2, <2>3 DEF TimeInv, InTime
  <2>5. PacketsSent'
    <3>1. \A packet \in echoes' : packet.ping = sent + 1 \/ packet \in echoes
      BY <1>2 DEF sendPing
    <3>2. \A packet \in echoes : packet.ping \in Int /\ packet.ping <= sent
      BY DEF TimeInv, PacketsSent, TypeOK, Packets, Pings
    <3> QED
      BY <2>1, <3>1, <3>2 DEF PacketsSent
  <2> QED
    BY <2>4, <2>5 DEF TimeInv
<1>3. CASE handlePacket
  <2> DEFINE r == Head(downlink)
             k == [hi |-> r.id, lo |-> r.seq]
             kept == Without(pingEntries, expired)
             reports == IF k \in DOMAIN kept
                          THEN [ReportExpired EXCEPT ![kept[k].ping] = Append(@, r.ping)]
                          ELSE ReportExpired
  <2>1. /\ InTime(kept, ReportExpired, sent, responses)
        /\ Once(kept, ReportExpired, sent)
        /\ Fitting(kept, ReportExpired)
    BY ControlInTime, ControlOnce, ControlFitting
  <2>2. /\ pingEntries' = Without(kept, {k}) /\ reported' = reports
        /\ responses' = IF ReportExpired[r.ping] = <<>> THEN responses \cup {r.ping} ELSE responses
        /\ echoes' = echoes /\ sent' = sent
    BY <1>3 DEF handlePacket
  <2>3. r \in Packets /\ r \in echoes
    <3>1. downlink \in Seq(Packets) /\ downlink # <<>>
      BY <1>3 DEF handlePacket, TypeOK
    <3>2. 1 \in 1..Len(downlink) /\ r = downlink[1] /\ r \in Packets
      BY <3>1
    <3> QED
      BY <3>2 DEF NumberInv, PacketsNumbered
  <2>4. r.ping \in Pings /\ r.ping \in 1..sent
    <3>1. r.ping \in Pings /\ r.ping <= sent
      BY <2>3 DEF Packets, TimeInv, PacketsSent
    <3> QED
      BY <3>1 DEF Pings, TypeOK
  <2>5. ReportExpired \in [Pings -> Seq(Pings \cup {TIMEOUT})]
    BY ExpiredType
  <2>6. \A l \in DOMAIN kept : kept[l].ping \in Pings
    BY ExpiredType DEF TypeOK
  <2>7. ASSUME k \in DOMAIN kept PROVE kept[k].ping = r.ping
    <3>1. k = NumberKey(kept[k].ping)
      BY <2>1, <2>7 DEF Fitting
    <3>2. Fits(kept[k].ping, r.ping)
      BY <2>3, <2>4, <2>6, <2>7, <3>1, FoundFits
    <3> QED
      BY <2>4, <2>6, <2>7, <3>2, NumberDistinct DEF Fits
  <2>8. ASSUME Number(r.ping) \notin Negative, ReportExpired[r.ping] = <<>>
        PROVE  k \in DOMAIN kept
    <3>1. NumberKey(r.ping) \in DOMAIN kept
      BY <2>1, <2>4, <2>8 DEF InTime
    <3>2. k = [hi |-> Number(r.ping) % Width, lo |-> Number(r.ping) % Width]
      BY <2>3 DEF NumberInv, PacketsNumbered
    <3>3. NumberKey(r.ping) = k
      BY <2>4, <2>8, <3>2, KeyReplied DEF Pings, Negative
    <3> QED
      BY <3>1, <3>3
  <2>9. \A p \in 1..sent : p \in Pings
    BY BoundsAssumption DEF TypeOK, Pings
  <2>10. \A p \in Pings : p # r.ping \/ k \notin DOMAIN kept => reports[p] = ReportExpired[p]
    BY <2>5, <2>7
  <2>11. k \in DOMAIN kept => ReportExpired[r.ping] = <<>> /\ reports[r.ping] = <<r.ping>>
    <3> SUFFICES ASSUME k \in DOMAIN kept
                 PROVE  ReportExpired[r.ping] = <<>> /\ reports[r.ping] = <<r.ping>>
      OBVIOUS
    <3>1. ReportExpired[r.ping] = <<>>
      BY <2>1, <2>7 DEF Once
    <3>2. reports[r.ping] = Append(<<>>, r.ping)
      BY <2>4, <2>5, <2>7, <3>1
    <3> QED
      BY <3>1, <3>2
  <2> HIDE DEF r, k, kept, reports
  <2>12. ASSUME NEW p \in 1..sent, reports[p] = <<>>
         PROVE  NumberKey(p) \in DOMAIN pingEntries' /\ pingEntries'[NumberKey(p)].ping = p
    <3>1. k \notin DOMAIN kept \/ p # r.ping
      <4>1. <<r.ping>> # <<>>
        OBVIOUS
      <4> QED
        BY <2>11, <2>12, <4>1, Zenon
    <3>2. ReportExpired[p] = <<>>
      BY <2>9, <2>10, <2>12, <3>1
    <3>3. NumberKey(p) \in DOMAIN kept /\ kept[NumberKey(p)].ping = p
      BY <2>1, <3>2 DEF InTime
    <3>4. NumberKey(p) # k
      BY <2>7, <3>1, <3>3
    <3> QED
      BY <2>2, <3>3, <3>4 DEF Without
  <2>13. ASSUME NEW p \in responses', Number(p) \notin Negative PROVE reports[p] = <<p>>
    <3>1. CASE p = r.ping /\ ReportExpired[p] = <<>>
      BY <2>8, <2>11, <2>13, <3>1
    <3>2. CASE p \in responses
      <4>1. ReportExpired[p] = <<p>> /\ p \in Pings
        BY <2>1, <2>13, <3>2 DEF InTime, TypeOK
      <4>2. ReportExpired[p] # <<>>
        BY <4>1
      <4> QED
        BY <2>10, <2>11, <4>1, <4>2
    <3> QED
      BY <2>2, <3>1, <3>2
  <2>14. InTime(pingEntries', reported', sent', responses')
    BY <2>2, <2>12, <2>13 DEF InTime
  <2> QED
    BY <2>2, <2>14 DEF TimeInv, PacketsSent
<1>4. ASSUME NEW count \in Pings, NEW withTimeout \in BOOLEAN, Command(count, withTimeout)
      PROVE  TimeInv'
  <2>1. InTime(pingEntries', reported', sent', responses')
    BY <1>4, ControlInTime DEF Command
  <2> QED
    BY <1>4, <2>1 DEF Command, TimeInv, PacketsSent
<1>5. ASSUME NEW packet \in echoes, Reply(packet) PROVE TimeInv'
  BY <1>5 DEF Reply, TimeInv, PacketsSent
<1>6. CASE SecondPasses
  BY <1>6 DEF SecondPasses, TimeInv, PacketsSent
<1>7. ASSUME NEW p \in Pings, Elapses(p) PROVE TimeInv'
  BY <1>7 DEF Elapses, TimeInv, PacketsSent
<1>8. CASE UNCHANGED vars
  BY <1>8 DEF TimeInv, PacketsSent, vars
<1> QED
  BY <1>1, <1>2, <1>3, <1>4, <1>5, <1>6, <1>7, <1>8 DEF Next, Main

LEMMA InitInTime == Init => TimeInv
<1> SUFFICES ASSUME Init PROVE TimeInv
  OBVIOUS
<1>1. echoes = {} /\ sent = 0 /\ responses = {}
  BY DEF Init
<1> QED
  BY <1>1 DEF TimeInv, PacketsSent, InTime

(* A ping that is reported as timed out although a reply to it was handled   *)
(* in time has a number below -1; with fewer than Width pings there is no    *)
(* other cause.                                                              *)
SilentUnlessNegative ==
    \A p \in responses : Number(p) \notin Negative =>
        \A i \in DOMAIN reported[p] : reported[p][i] # TIMEOUT

(* Timeouts are silent but for the negative numbers.                         *)
THEOREM TimeoutsExplained == MaxPings < Width => (Spec => []SilentUnlessNegative)
<1> SUFFICES ASSUME MaxPings < Width PROVE Spec => []SilentUnlessNegative
  OBVIOUS
<1>1. TypeOK /\ TimeInv => SilentUnlessNegative
  <2> SUFFICES ASSUME TypeOK, TimeInv, NEW p \in responses, Number(p) \notin Negative,
                      NEW i \in DOMAIN reported[p]
               PROVE  reported[p][i] # TIMEOUT
    BY DEF SilentUnlessNegative
  <2>1. reported[p] = <<p>> /\ p \in Pings
    BY DEF TimeInv, InTime, TypeOK
  <2>2. reported[p][i] = p
    BY <2>1
  <2> QED
    BY <2>1, <2>2, TimeoutAssumption
<1>2. TypeOK /\ OnceInv /\ NumberInv /\ TimeInv /\ [Next]_vars => TimeInv'
  BY NextInTime
<1> QED
  BY <1>1, <1>2, InitInTime, NumberHolds, PTL DEF Spec

(* With fewer than Half pings, whose numbers are all positive, a ping        *)
(* reported as timed out had no response handled before.                     *)
THEOREM TimeoutsAreSilent == MaxPings < Half => (Spec => []TimeoutMeansNoResponse)
<1> SUFFICES ASSUME MaxPings < Half PROVE Spec => []TimeoutMeansNoResponse
  OBVIOUS
<1>1. MaxPings < Width
  BY HalfAssumption, BoundsAssumption DEF Width
<1>2. ASSUME NEW p \in Pings PROVE Number(p) \notin Negative
  <2>1. Half \in Nat \ {0} /\ Width = 2 * Half /\ p \in 1..(Width - 1) /\ p < Half
    BY HalfAssumption, BoundsAssumption DEF Width, Pings
  <2>2. short(p) = p
    BY <2>1, ShortSmall
  <2>3. Number(p) = p
    BY <2>1, <2>2 DEF Number
  <2> QED
    BY <2>1, <2>3 DEF Negative
<1>3. TypeOK /\ SilentUnlessNegative => TimeoutMeansNoResponse
  BY <1>2 DEF SilentUnlessNegative, TimeoutMeansNoResponse, TypeOK
<1> QED
  BY <1>1, <1>3, TimeoutsExplained, TypeCorrect, PTL
=============================================================================
