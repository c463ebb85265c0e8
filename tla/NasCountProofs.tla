--------------------------- MODULE NasCountProofs ---------------------------
(***************************************************************************)
(* NAS COUNTs of any width: the lemmas relate the COUNT a receiver guesses *)
(* to the numbers the sender gave its messages.                            *)
(***************************************************************************)
EXTENDS NasCount, TLAPS



(* Division with remainder, for a divisor that is no literal. *)
LEMMA Division ==
    ASSUME NEW n \in Nat, NEW m \in Nat, m > 1
    PROVE  /\ n \div m \in Nat /\ n % m \in 0..(m - 1)
           /\ n = (m * (n \div m)) + (n % m)
BY Z3

(* Quotient and remainder are unique. *)
LEMMA Unique ==
    ASSUME NEW m \in Nat, m > 1, NEW q1 \in Nat, NEW q2 \in Nat,
           NEW r1 \in 0..(m - 1), NEW r2 \in 0..(m - 1), (m * q1) + r1 = (m * q2) + r2
    PROVE  q1 = q2 /\ r1 = r2
<1>1. ~ q1 < q2
  <2>1. SUFFICES ASSUME q1 + 1 <= q2 PROVE FALSE
    OBVIOUS
  <2>2. m * (q1 + 1) <= m * q2
    BY <2>1, Z3
  <2>3. m * (q1 + 1) = m * q1 + m
    BY Z3
  <2> QED
    BY <2>2, <2>3, Z3
<1>2. ~ q2 < q1
  <2>1. SUFFICES ASSUME q2 + 1 <= q1 PROVE FALSE
    OBVIOUS
  <2>2. m * (q2 + 1) <= m * q1
    BY <2>1, Z3
  <2>3. m * (q2 + 1) = m * q2 + m
    BY Z3
  <2> QED
    BY <2>2, <2>3, Z3
<1> QED
  BY <1>1, <1>2, Z3
(* The same with the conditions behind one name, for the values that are sums. *)
Splits(m, n, q, r) == q \in Nat /\ r \in 0..(m - 1) /\ n = (m * q) + r

(* A number splits in one way only. *)
LEMMA SplitsOnce ==
    ASSUME NEW m \in Nat, m > 1, NEW n, NEW q1, NEW r1, NEW q2, NEW r2,
           Splits(m, n, q1, r1), Splits(m, n, q2, r2)
    PROVE  r1 = r2
<1>1. q1 \in Nat /\ r1 \in 0..(m - 1) /\ n = (m * q1) + r1
    BY Zenon DEF Splits
<1>2. q2 \in Nat /\ r2 \in 0..(m - 1) /\ n = (m * q2) + r2
    BY Zenon DEF Splits
<1>3. (m * q1) + r1 = (m * q2) + r2
    BY <1>1, <1>2, Zenon
<1> QED
    BY <1>1, <1>2, <1>3, Unique

(* A value below the modulus stays, the modulus itself gives 0. *)
LEMMA SmallMod ==
    ASSUME NEW m \in Nat, m > 1, NEW x \in 0..m
    PROVE  x % m = IF x = m THEN 0 ELSE x
<1> DEFINE q == x \div m
           r == x % m
<1>0. x \in Nat
    OBVIOUS
<1>1. q \in Nat /\ r \in 0..(m - 1) /\ x = (m * q) + r
    BY <1>0, Division, Zenon
<1> SUFFICES r = IF x = m THEN 0 ELSE x
    OBVIOUS
<1> HIDE DEF q, r
<1>2. CASE x = m
  <2>1. (m * 1) + 0 = (m * q) + r /\ 1 \in Nat /\ 0 \in 0..(m - 1)
    BY <1>1, <1>2
  <2> QED
    BY <2>1, <1>1, <1>2, Unique
<1>3. CASE x # m
  <2>1. (m * 0) + x = (m * q) + r /\ 0 \in Nat /\ x \in 0..(m - 1)
    BY <1>1, <1>3
  <2> QED
    BY <2>1, <1>1, <1>3, Unique
<1> QED
    BY <1>2, <1>3

(* Counting on, modulo m. *)
LEMMA Successor ==
    ASSUME NEW n \in Nat, NEW m \in Nat, m > 1
    PROVE  (n + 1) % m = IF n % m = m - 1 THEN 0 ELSE (n % m) + 1
<1> DEFINE q == n \div m
           r == n % m
           t == (n + 1) \div m
           s == (n + 1) % m
<1>1. q \in Nat /\ r \in 0..(m - 1) /\ n = (m * q) + r
    BY Division, Zenon
<1>2. n + 1 \in Nat
    OBVIOUS
<1>3. t \in Nat /\ s \in 0..(m - 1) /\ n + 1 = (m * t) + s
    BY <1>2, Division, Zenon
<1> SUFFICES s = IF r = m - 1 THEN 0 ELSE r + 1
    OBVIOUS
<1> HIDE DEF q, r, t, s
<1> DEFINE k == n + 1
<1>6. Splits(m, k, t, s)
    BY <1>3, Zenon DEF Splits
<1>4. CASE r = m - 1
  <2>1. m * (q + 1) = (m * q) + m
    BY <1>1, Z3
  <2>2. q + 1 \in Nat /\ 0 \in 0..(m - 1) /\ k = (m * (q + 1)) + 0
    BY <1>1, <1>4, <2>1, Z3
  <2>3. Splits(m, k, q + 1, 0)
    BY <2>2, Zenon DEF Splits
  <2>4. s = 0
    BY <1>6, <2>3, SplitsOnce, Zenon
  <2> QED
    BY <2>4, <1>4
<1>5. CASE r # m - 1
  <2>1. r + 1 \in 0..(m - 1) /\ k = (m * q) + (r + 1)
    BY <1>1, <1>5, Z3
  <2>2. Splits(m, k, q, r + 1)
    BY <1>1, <2>1, Zenon DEF Splits
  <2>3. s = r + 1
    BY <1>6, <2>2, SplitsOnce, Zenon
  <2> QED
    BY <2>3, <1>5
<1> QED
    BY <1>4, <1>5

-----------------------------------------------------------------------------
(* A number below the bound, in the terms the estimate is made of: its COUNT *)
(* does not reach the overflow counter's last value.                         *)
LEMMA Parts ==
    ASSUME NEW n \in 0..MaxDown
    PROVE  /\ n \div SqnMod \in 0..(OverflowMod - 2) /\ n % SqnMod \in 0..(SqnMod - 1)
           /\ n = (SqnMod * (n \div SqnMod)) + (n % SqnMod)
           /\ (n \div SqnMod) + 1 \in 0..(OverflowMod - 1)
           /\ ((n \div SqnMod) + 1) % OverflowMod = (n \div SqnMod) + 1
<1> DEFINE q == n \div SqnMod
           r == n % SqnMod
<1>0. n \in Nat /\ SqnMod \in Nat /\ SqnMod > 1
    BY ModsAssumption, BoundsAssumption
<1>1. q \in Nat /\ r \in 0..(SqnMod - 1) /\ n = (SqnMod * q) + r
    BY <1>0, Division, Zenon
<1>2. q < OverflowMod - 1
  <2>1. SUFFICES ASSUME OverflowMod - 1 <= q PROVE FALSE
    BY <1>1, ModsAssumption
  <2> HIDE DEF q, r
  <2>2. SqnMod * (OverflowMod - 1) <= SqnMod * q
    BY <1>1, <2>1, ModsAssumption, Z3
  <2>3. SqnMod * q <= n /\ n <= MaxDown
    BY <1>1, ModsAssumption, Z3
  <2> QED
    BY <1>1, <2>2, <2>3, ModsAssumption, BoundsAssumption, Z3
<1> HIDE DEF q
<1>3. q + 1 \in 0..(OverflowMod - 1) /\ (q + 1) % OverflowMod = q + 1
    BY <1>1, <1>2, ModsAssumption, Z3
<1> QED
    BY <1>1, <1>2, <1>3, ModsAssumption DEF q

(* The COUNT of a number below the bound is a COUNT. *)
LEMMA CountOfType ==
    ASSUME NEW n \in 0..MaxDown
    PROVE  CountOf(n) \in NasCounts
<1>1. n \div SqnMod \in 0..(OverflowMod - 1) /\ n % SqnMod \in 0..(SqnMod - 1)
    BY Parts, ModsAssumption
<1> QED
    BY <1>1 DEF CountOf, NasCounts

(* A COUNT that was guessed right belongs to a number within the window. *)
LEMMA GuessedWithinWindow ==
    ASSUME NEW l \in 0..MaxDown, NEW n \in 0..MaxDown,
           estimatedDownlinkCount(CountOf(l), CountOf(n).sqn) = CountOf(n)
    PROVE  n \in l..(l + SqnMod - 1)
<1> DEFINE ql == l \div SqnMod
           rl == l % SqnMod
           qn == n \div SqnMod
           rn == n % SqnMod
<1>1. /\ ql \in Nat /\ rl \in 0..(SqnMod - 1) /\ l = (SqnMod * ql) + rl
      /\ (ql + 1) % OverflowMod = ql + 1
    BY Parts, ModsAssumption
<1>2. qn \in Nat /\ rn \in 0..(SqnMod - 1) /\ n = (SqnMod * qn) + rn
    BY Parts, ModsAssumption
<1>3. qn = IF rl > rn THEN (ql + 1) % OverflowMod ELSE ql
    BY DEF estimatedDownlinkCount, CountOf
<1> HIDE DEF ql, rl, qn, rn
<1>4. CASE rl > rn
  <2>1. n = (SqnMod * ql) + SqnMod + rn
    BY <1>1, <1>2, <1>3, <1>4, ModsAssumption, Z3
  <2> DEFINE p == SqnMod * ql
  <2>2. p \in Int
    BY <1>1, ModsAssumption
  <2> HIDE DEF p
  <2> QED
    BY <1>1, <1>2, <1>4, <2>1, <2>2, ModsAssumption, Z3 DEF p
<1>5. CASE ~(rl > rn)
  <2>1. n = (SqnMod * ql) + rn
    BY <1>2, <1>3, <1>5
  <2> DEFINE p == SqnMod * ql
  <2>2. p \in Int
    BY <1>1, ModsAssumption
  <2> HIDE DEF p
  <2> QED
    BY <1>1, <1>2, <1>5, <2>1, <2>2, ModsAssumption, Z3 DEF p
<1> QED
    BY <1>4, <1>5

(* The COUNT of every number within the window is guessed right. *)
LEMMA WindowIsGuessed ==
    ASSUME NEW l \in 0..MaxDown, NEW n \in 0..MaxDown, l <= n, n < l + SqnMod
    PROVE  estimatedDownlinkCount(CountOf(l), CountOf(n).sqn) = CountOf(n)
<1> DEFINE ql == l \div SqnMod
           rl == l % SqnMod
           qn == n \div SqnMod
           rn == n % SqnMod
<1>1. /\ ql \in Nat /\ rl \in 0..(SqnMod - 1) /\ l = (SqnMod * ql) + rl
      /\ (ql + 1) % OverflowMod = ql + 1
    BY Parts, ModsAssumption
<1>2. qn \in Nat /\ rn \in 0..(SqnMod - 1) /\ n = (SqnMod * qn) + rn
    BY Parts, ModsAssumption
<1>3. SUFFICES qn = IF rl > rn THEN ql + 1 ELSE ql
    BY <1>1 DEF estimatedDownlinkCount, CountOf
<1> HIDE DEF ql, rl, qn, rn
<1>4. CASE rl > rn
  <2> DEFINE w == (SqnMod * (ql + 1)) + rn
  <2>1. w = (SqnMod * ql) + SqnMod + rn
    BY <1>1, <1>2, ModsAssumption, Z3
  <2>2. ~ qn < ql + 1
    <3>1. SUFFICES ASSUME qn <= ql PROVE FALSE
      BY <1>1, <1>2
    <3>2. SqnMod * qn <= SqnMod * ql
      BY <3>1, <1>1, <1>2, ModsAssumption, Z3
    <3> QED
      BY <3>2, <1>1, <1>2, <1>4, ModsAssumption, Z3
  <2>3. ~ qn > ql + 1
    <3>1. SUFFICES ASSUME qn >= ql + 2 PROVE FALSE
      BY <1>1, <1>2
    <3>2. SqnMod * qn >= (SqnMod * ql) + SqnMod + SqnMod
      BY <3>1, <1>1, <1>2, ModsAssumption, Z3
    <3> QED
      BY <3>2, <1>1, <1>2, <1>4, ModsAssumption, Z3
  <2> QED
    BY <1>1, <1>2, <1>4, <2>2, <2>3, Z3
<1>5. CASE ~(rl > rn)
  <2>2. ~ qn < ql
    <3>1. SUFFICES ASSUME qn + 1 <= ql PROVE FALSE
      BY <1>1, <1>2
    <3>2. (SqnMod * qn) + SqnMod <= SqnMod * ql
      BY <3>1, <1>1, <1>2, ModsAssumption, Z3
    <3> QED
      BY <3>2, <1>1, <1>2, <1>5, ModsAssumption, Z3
  <2>3. ~ qn > ql
    <3>1. SUFFICES ASSUME qn >= ql + 1 PROVE FALSE
      BY <1>1, <1>2
    <3>2. SqnMod * qn >= (SqnMod * ql) + SqnMod
      BY <3>1, <1>1, <1>2, ModsAssumption, Z3
    <3> QED
      BY <3>2, <1>1, <1>2, <1>5, ModsAssumption, Z3
  <2> QED
    BY <1>1, <1>2, <1>5, <2>2, <2>3, Z3
<1> QED
    BY <1>4, <1>5

-----------------------------------------------------------------------------
(* Protecting a message keeps the COUNT a COUNT, equal to its number. *)
LEMMA CountOnEncryptCounts ==
    ASSUME NEW c \in NasCounts, NEW n \in Nat,
           (SqnMod * c.overflow) + c.sqn = n % (SqnMod * OverflowMod)
    PROVE  /\ countOnEncrypt(c) \in NasCounts
           /\ (SqnMod * countOnEncrypt(c).overflow) + countOnEncrypt(c).sqn
                 = (n + 1) % (SqnMod * OverflowMod)
<1> DEFINE o == c.overflow
           r == c.sqn
           o2 == countOnEncrypt(c).overflow
           r2 == countOnEncrypt(c).sqn
           m == SqnMod * OverflowMod
<1>1. o \in 0..(OverflowMod - 1) /\ r \in 0..(SqnMod - 1)
    BY DEF NasCounts
<1>2. /\ r2 = (r + 1) % SqnMod
      /\ o2 = IF (r + 1) % SqnMod = 0 THEN (o + 1) % OverflowMod ELSE o
      /\ countOnEncrypt(c) = [overflow |-> o2, sqn |-> r2]
    BY DEF countOnEncrypt
<1>3. (r + 1) % SqnMod = IF r = SqnMod - 1 THEN 0 ELSE r + 1
  <2>1. r + 1 \in 0..SqnMod /\ (r + 1 = SqnMod <=> r = SqnMod - 1)
    BY <1>1, ModsAssumption
  <2> QED
    BY <2>1, SmallMod, ModsAssumption
<1>4. (o + 1) % OverflowMod = IF o = OverflowMod - 1 THEN 0 ELSE o + 1
  <2>1. o + 1 \in 0..OverflowMod /\ (o + 1 = OverflowMod <=> o = OverflowMod - 1)
    BY <1>1, ModsAssumption
  <2> QED
    BY <2>1, SmallMod, ModsAssumption
<1>5. r2 = IF r = SqnMod - 1 THEN 0 ELSE r + 1
    BY <1>2, <1>3
<1>6. o2 = IF r = SqnMod - 1 THEN (IF o = OverflowMod - 1 THEN 0 ELSE o + 1) ELSE o
    BY <1>1, <1>2, <1>3, <1>4
<1>7. m \in Nat /\ m > 1
    BY ModsAssumption, Z3
<1>8. (n + 1) % m = IF n % m = m - 1 THEN 0 ELSE (n % m) + 1
    BY <1>7, Successor, Zenon
<1>9. n % m = (SqnMod * o) + r
    OBVIOUS
<1>10. countOnEncrypt(c) \in NasCounts
  <2>1. o2 \in 0..(OverflowMod - 1) /\ r2 \in 0..(SqnMod - 1)
    BY <1>1, <1>5, <1>6, ModsAssumption
  <2> QED
    BY <2>1, <1>2 DEF NasCounts
<1> SUFFICES (SqnMod * o2) + r2 = (n + 1) % m
    BY <1>10
<1> DEFINE v == n % m
           v2 == (n + 1) % m
<1>11. v2 = (IF v = m - 1 THEN 0 ELSE v + 1) /\ v = (SqnMod * o) + r
    BY <1>8, <1>9
<1> SUFFICES (SqnMod * o2) + r2 = v2
    OBVIOUS
<1>12. m = SqnMod * OverflowMod
    OBVIOUS
<1> HIDE DEF o, r, o2, r2, m, v, v2
<1>13. CASE r = SqnMod - 1 /\ o = OverflowMod - 1
  <2>1. v = m - 1
    BY <1>11, <1>12, <1>13, ModsAssumption, Z3
  <2>2. o2 = 0 /\ r2 = 0
    BY <1>5, <1>6, <1>13
  <2> QED
    BY <2>1, <2>2, <1>11, ModsAssumption, Z3
<1>14. CASE r = SqnMod - 1 /\ o # OverflowMod - 1
  <2>1. SqnMod * (o + 1) = (SqnMod * o) + SqnMod
    BY <1>1, ModsAssumption, Z3
  <2>2. o2 = o + 1 /\ r2 = 0
    BY <1>5, <1>6, <1>14
  <2>3. SqnMod * (o + 1) <= SqnMod * (OverflowMod - 1)
    BY <1>1, <1>14, ModsAssumption, Z3
  <2>4. SqnMod * (OverflowMod - 1) = m - SqnMod
    BY <1>12, ModsAssumption, Z3
  <2>5. v # m - 1
    BY <1>1, <1>7, <1>11, <1>14, <2>1, <2>3, <2>4, ModsAssumption, Z3
  <2> QED
    BY <1>1, <2>1, <2>2, <2>5, <1>11, <1>14, ModsAssumption, Z3
<1>15. CASE r # SqnMod - 1
  <2>1. o2 = o /\ r2 = r + 1
    BY <1>5, <1>6, <1>15
  <2>2. SqnMod * o <= SqnMod * (OverflowMod - 1)
    BY <1>1, ModsAssumption, Z3
  <2>3. SqnMod * (OverflowMod - 1) = m - SqnMod
    BY <1>12, ModsAssumption, Z3
  <2>4. v # m - 1
    BY <1>1, <1>7, <1>11, <1>15, <2>2, <2>3, ModsAssumption, Z3
  <2> QED
    BY <1>1, <2>1, <2>4, <1>11, ModsAssumption, Z3
<1> QED
    BY <1>13, <1>14, <1>15

-----------------------------------------------------------------------------
(* The inductive invariant: the types, and what the two COUNTs stand for. *)
IInv == TypeOK /\ StoredCountIsSenders /\ UplinkCountIsSerial

LEMMA ZeroIsCountOfZero == ZeroCount = CountOf(0) /\ ZeroCount \in NasCounts
<1>1. 0 \in 0..SqnMod /\ 0 # SqnMod /\ 0 \in Nat /\ 0 \in 0..MaxDown
    BY ModsAssumption, BoundsAssumption
<1>2. 0 % SqnMod = 0
    BY <1>1, SmallMod, ModsAssumption
<1>3. 0 = (SqnMod * (0 \div SqnMod)) + 0 /\ 0 \div SqnMod \in Nat
    BY <1>1, <1>2, Division, ModsAssumption
<1>4. (SqnMod * 0) + 0 = (SqnMod * (0 \div SqnMod)) + 0 /\ 0 \in 0..(SqnMod - 1)
    BY <1>3, ModsAssumption
<1>5. 0 \div SqnMod = 0
    BY <1>3, <1>4, Unique, ModsAssumption
<1> QED
    BY <1>1, <1>2, <1>5, CountOfType DEF ZeroCount, CountOf

(* With no message protected, the COUNT is zero. *)
LEMMA ZeroIsSerial ==
    (SqnMod * ZeroCount.overflow) + ZeroCount.sqn = 0 % (SqnMod * OverflowMod)
<1>1. SqnMod * OverflowMod \in Nat /\ SqnMod * OverflowMod > 1
    BY ModsAssumption, Z3
<1>2. 0 % (SqnMod * OverflowMod) = 0
    BY <1>1, SmallMod
<1> QED
    BY <1>2, ModsAssumption DEF ZeroCount

LEMMA InitIInv == Init => IInv
<1> SUFFICES ASSUME Init PROVE IInv
    OBVIOUS
<1>1. TypeOK
    BY ZeroIsCountOfZero, BoundsAssumption DEF Init, TypeOK, Contexts
<1>2. StoredCountIsSenders
    BY ZeroIsCountOfZero DEF Init, StoredCountIsSenders
<1>3. UplinkCountIsSerial
    BY ZeroIsSerial DEF Init, UplinkCountIsSerial
<1> QED
    BY <1>1, <1>2, <1>3 DEF IInv

(* What an accepted message says of its number, whatever accepted it. *)
LEMMA AcceptedInWindow ==
    ASSUME IInv, NEW k \in Contexts, NEW n \in 1..sent[k], Receive(k, n)
    PROVE  /\ n \in 0..MaxDown
           /\ downlinkCount' = CountOf(n)
           /\ n \in last..(last + SqnMod - 1)
<1>1. n \in 0..MaxDown /\ last \in 0..MaxDown /\ last \in Nat /\ n \in Nat
    BY BoundsAssumption DEF IInv, TypeOK
<1>2. downlinkCount = CountOf(last)
    BY DEF IInv, StoredCountIsSenders
<1> DEFINE e == estimatedDownlinkCount(CountOf(last), CountOf(n).sqn)
<1>3. downlinkCount' = e /\ macAccepted(k, n, e) /\ (context \in NullContexts => n > last /\ n < last + SqnMod)
    BY <1>2 DEF Receive
<1>4. CASE context \notin NullContexts
  <2>1. e = CountOf(n)
    BY <1>3, <1>4 DEF macAccepted
  <2> QED
    BY <1>1, <1>3, <2>1, GuessedWithinWindow
<1>5. CASE context \in NullContexts
  <2>1. e = CountOf(n)
    BY <1>1, <1>3, <1>5, WindowIsGuessed
  <2> QED
    BY <1>1, <1>3, <1>5, <2>1, ModsAssumption
<1> QED
    BY <1>4, <1>5

LEMMA NextIInv == IInv /\ [Next]_vars => IInv'
<1> SUFFICES ASSUME IInv, [Next]_vars PROVE IInv'
    OBVIOUS
<1> USE DEF IInv
<1>1. ASSUME NEW k \in Contexts, NEW n \in 1..sent[k], Receive(k, n) PROVE IInv'
  <2>1. n \in 0..MaxDown /\ downlinkCount' = CountOf(n)
    BY <1>1, AcceptedInWindow
  <2>2. TypeOK'
    BY <1>1, <2>1, CountOfType DEF Receive, TypeOK
  <2>3. StoredCountIsSenders'
    BY <1>1, <2>1 DEF Receive, StoredCountIsSenders, CountOf
  <2>4. UplinkCountIsSerial'
    BY <1>1 DEF Receive, UplinkCountIsSerial
  <2> QED
    BY <2>2, <2>3, <2>4
<1>2. ASSUME Send PROVE IInv'
  <2>1. /\ uplinkCount \in NasCounts /\ protected \in Nat
        /\ (SqnMod * uplinkCount.overflow) + uplinkCount.sqn = protected % (SqnMod * OverflowMod)
    BY BoundsAssumption DEF TypeOK, UplinkCountIsSerial
  <2>2. /\ countOnEncrypt(uplinkCount) \in NasCounts
        /\ (SqnMod * countOnEncrypt(uplinkCount).overflow) + countOnEncrypt(uplinkCount).sqn
              = (protected + 1) % (SqnMod * OverflowMod)
    BY <2>1, CountOnEncryptCounts
  <2>3. TypeOK'
    BY <1>2, <2>2, BoundsAssumption DEF Send, TypeOK
  <2>4. StoredCountIsSenders'
    BY <1>2 DEF Send, StoredCountIsSenders, CountOf
  <2>5. UplinkCountIsSerial'
    BY <1>2, <2>2 DEF Send, UplinkCountIsSerial
  <2> QED
    BY <2>3, <2>4, <2>5
<1>3. ASSUME NEW k \in Contexts, receiveSecurityModeCommand(k) PROVE IInv'
  <2>1. TypeOK'
    BY <1>3, ZeroIsCountOfZero, BoundsAssumption DEF receiveSecurityModeCommand, TypeOK
  <2>2. StoredCountIsSenders'
    BY <1>3, ZeroIsCountOfZero DEF receiveSecurityModeCommand, StoredCountIsSenders, CountOf
  <2>3. UplinkCountIsSerial'
    BY <1>3, ZeroIsSerial DEF receiveSecurityModeCommand, UplinkCountIsSerial
  <2> QED
    BY <2>1, <2>2, <2>3
<1>4. ASSUME AmfSends PROVE IInv'
  <2>1. TypeOK'
    BY <1>4, BoundsAssumption DEF AmfSends, TypeOK
  <2>2. StoredCountIsSenders' /\ UplinkCountIsSerial'
    BY <1>4 DEF AmfSends, StoredCountIsSenders, UplinkCountIsSerial, CountOf
  <2> QED
    BY <2>1, <2>2
<1>5. ASSUME UNCHANGED vars PROVE IInv'
    BY <1>5 DEF vars, TypeOK, StoredCountIsSenders, UplinkCountIsSerial, CountOf
<1> QED
    BY <1>1, <1>2, <1>3, <1>4, <1>5 DEF Next

LEMMA SpecIInv == Spec => []IInv
    BY InitIInv, NextIInv, PTL DEF Spec

(* The stored downlink COUNT is the one the AMF used for the last accepted   *)
(* message, whatever was lost, repeated or overtaken (NasEncryption.decrypt).*)
THEOREM StoredCountCorrect == Spec => []StoredCountIsSenders
    BY SpecIInv, PTL DEF IInv

(* The uplink COUNT is the number of messages protected under the context,   *)
(* across both wraps (NasSecurityContext.countOnEncrypt).                    *)
THEOREM UplinkCountCorrect == Spec => []UplinkCountIsSerial
    BY SpecIInv, PTL DEF IInv

(* Whatever arrived before, the UE accepts any message of the context in use *)
(* that is less than SqnMod ahead of the last accepted one.                  *)
THEOREM WindowCorrect == Spec => []WindowIsAccepted
<1>1. IInv => WindowIsAccepted
  <2> SUFFICES ASSUME IInv, NEW n \in last..sent[context], n < last + SqnMod
               PROVE  macAccepted(context, n, estimatedDownlinkCount(downlinkCount, CountOf(n).sqn))
    BY DEF WindowIsAccepted
  <2>1. n \in 0..MaxDown /\ last \in 0..MaxDown /\ last <= n
    BY BoundsAssumption DEF IInv, TypeOK
  <2>2. estimatedDownlinkCount(CountOf(last), CountOf(n).sqn) = CountOf(n)
    BY <2>1, WindowIsGuessed
  <2> QED
    BY <2>2 DEF IInv, StoredCountIsSenders, macAccepted
<1> QED
    BY <1>1, SpecIInv, PTL

(* Between Security Mode Commands the accepted numbers never move back and   *)
(* never leave the window.                                                   *)
THEOREM AcceptedMoveOn == Spec => AcceptedNumbersMoveOn
<1> DEFINE A == \/ \E k \in Contexts : receiveSecurityModeCommand(k)
                \/ last' \in last..(last + SqnMod - 1)
<1>1. IInv /\ [Next]_vars => [A]_vars
  <2> SUFFICES ASSUME IInv, Next PROVE A
    OBVIOUS
  <2>1. last \in Nat
    BY BoundsAssumption DEF IInv, TypeOK
  <2>2. last \in last..(last + SqnMod - 1)
    BY <2>1, ModsAssumption
  <2>3. ASSUME NEW k \in Contexts, NEW n \in 1..sent[k], Receive(k, n) PROVE A
    BY <2>3, AcceptedInWindow DEF Receive
  <2>4. ASSUME Send \/ AmfSends PROVE A
    BY <2>2, <2>4 DEF Send, AmfSends
  <2> QED
    BY <2>3, <2>4 DEF Next
<1> QED
    BY <1>1, SpecIInv, PTL DEF Spec, AcceptedNumbersMoveOn
=============================================================================
