------------------------------ MODULE NasCount ------------------------------
(***************************************************************************)
(* NAS COUNTs of a UE's security context.  A COUNT is an overflow counter  *)
(* and a sequence number; a message carries the sequence number only, and  *)
(* the receiver guesses the overflow from its stored COUNT.  The UE counts *)
(* what it protects (uplink) and estimates what it receives (downlink).    *)
(*                                                                         *)
(* The AMF and the way from it are external.  The AMF numbers its messages *)
(* under each context from 0, the Security Mode Command that takes the     *)
(* context into use, and replaces the context before the overflow counter  *)
(* reaches its last value, as 24.501 demands of it; it may repeat a        *)
(* Security Mode Command.  What it sent may be lost, and may arrive late,  *)
(* repeatedly and in any order.                                            *)
(*                                                                         *)
(* A MAC is abstracted to what it depends on: the keys, which a context's  *)
(* number stands for, and the COUNT.  With IA0 every MAC is right, and only *)
(* the order of the messages keeps the COUNTs: under such a context they   *)
(* come in order, and fewer than SqnMod are lost in a row.                 *)
(***************************************************************************)
EXTENDS Integers

CONSTANTS
    SqnMod,        \* values of the sequence number, 256
    OverflowMod,   \* values of the overflow counter, 65536
    NullContexts,  \* external: contexts for which the AMF selects IA0
    MaxContext,    \* bound: security contexts
    MaxDown,       \* bound: downlink messages of a context
    MaxUp          \* bound: uplink messages between Security Mode Commands

ASSUME ModsAssumption == SqnMod \in Nat /\ SqnMod > 1 /\ OverflowMod \in Nat /\ OverflowMod > 1
ASSUME BoundsAssumption == /\ MaxContext \in Nat \ {0} /\ MaxDown \in Nat /\ MaxUp \in Nat
                           /\ MaxDown < SqnMod * (OverflowMod - 1)

VARIABLES
    downlinkCount, uplinkCount,  \* of NasSecurityContext
    context,                     \* the context in use, by its number
    sent,                        \* external: number of the last message sent under each context
    last,                        \* history: number of the last message accepted
    protected                    \* history: uplink messages since the Security Mode Command

vars == <<downlinkCount, uplinkCount, context, sent, last, protected>>

NasCounts == [overflow : 0..(OverflowMod - 1), sqn : 0..(SqnMod - 1)]
ZeroCount == [overflow |-> 0, sqn |-> 0]

Contexts == 1..MaxContext

\* External: the COUNT of the n-th message.
CountOf(n) == [overflow |-> n \div SqnMod, sqn |-> n % SqnMod]

Init ==
    /\ downlinkCount = ZeroCount /\ uplinkCount = ZeroCount
    /\ context = 1
    /\ sent = [k \in Contexts |-> 0]
    /\ last = 0 /\ protected = 0

\* Mutant: an equal sequence number counts as wrapped.
EstimateEqualWraps(stored, sqn) ==
    [overflow |-> IF stored.sqn >= sqn THEN (stored.overflow + 1) % OverflowMod ELSE stored.overflow,
     sqn |-> sqn]

\* Mutant: the overflow counter is taken as it is.
EstimateWithoutWrap(stored, sqn) == [overflow |-> stored.overflow, sqn |-> sqn]

estimatedDownlinkCount(stored, sqn) ==
    [overflow |-> IF stored.sqn > sqn THEN (stored.overflow + 1) % OverflowMod ELSE stored.overflow,
     sqn |-> sqn]

\* Mutant: the overflow moves one message early.
CountOnEncryptEarly(count) ==
    LET sqn == (count.sqn + 1) % SqnMod
    IN  [overflow |-> IF sqn = SqnMod - 1 THEN (count.overflow + 1) % OverflowMod ELSE count.overflow,
         sqn |-> sqn]

countOnEncrypt(count) ==
    LET sqn == (count.sqn + 1) % SqnMod
    IN  [overflow |-> IF sqn = 0 THEN (count.overflow + 1) % OverflowMod ELSE count.overflow,
         sqn |-> sqn]

\* Mutant: MACs are not looked at.
NoMacCheck(k, n, estimated) == TRUE

\* decrypt's check: the MAC of message n of context k, computed by the AMF, against
\* the one computed with the current keys and the estimated COUNT.
macAccepted(k, n, estimated) ==
    \/ k = context /\ estimated = CountOf(n)
    \/ context \in NullContexts

\* The n-th message of context k reaches the UE; one that is not accepted is dropped.
Receive(k, n) ==
    LET estimated == estimatedDownlinkCount(downlinkCount, CountOf(n).sqn)
    IN  /\ context \in NullContexts => k = context /\ n > last /\ n < last + SqnMod
        /\ macAccepted(k, n, estimated)
        /\ downlinkCount' = estimated
        /\ last' = n
        /\ UNCHANGED <<uplinkCount, context, sent, protected>>

\* NasSecurity.encryptNasMessage with a context that has keys.
Send ==
    /\ protected < MaxUp
    /\ uplinkCount' = countOnEncrypt(uplinkCount)
    /\ protected' = protected + 1
    /\ UNCHANGED <<downlinkCount, context, sent, last>>

\* A Security Mode Command is not unprotected and not counted: it puts a copy of the
\* non-current context, whose COUNTs were never used, into use.  The context is a new
\* one after an authentication, and the same one if the AMF repeats the command.
receiveSecurityModeCommand(k) ==
    /\ k \in Contexts \cap {context, context + 1}
    /\ context' = k
    /\ downlinkCount' = ZeroCount /\ uplinkCount' = ZeroCount
    /\ last' = 0 /\ protected' = 0
    /\ UNCHANGED sent

\* External: the AMF sends a message, or a repeated Security Mode Command, under the
\* context in use.
AmfSends ==
    /\ sent[context] < MaxDown
    /\ sent' = [sent EXCEPT ![context] = @ + 1]
    /\ UNCHANGED <<downlinkCount, uplinkCount, context, last, protected>>

Next ==
    \/ \E k \in Contexts : \E n \in 1..sent[k] : Receive(k, n)
    \/ Send
    \/ \E k \in Contexts : receiveSecurityModeCommand(k)
    \/ AmfSends

Spec == Init /\ [][Next]_vars

-----------------------------------------------------------------------------
TypeOK ==
    /\ downlinkCount \in NasCounts /\ uplinkCount \in NasCounts
    /\ context \in Contexts
    /\ sent \in [Contexts -> 0..MaxDown]
    /\ last \in 0..MaxDown /\ protected \in 0..MaxUp

(* The COUNT a message is protected with is its number since the context was *)
(* taken into use, at every wrap of the two counters: the AMF deciphers with *)
(* that number.                                                              *)
UplinkCountIsSerial ==
    (SqnMod * uplinkCount.overflow) + uplinkCount.sqn = protected % (SqnMod * OverflowMod)

(* The stored COUNT is the one the sender of the last accepted message used, *)
(* with which it must be deciphered.  Under a context with IA0 no MAC stands *)
(* between a wrong estimate and the stored COUNT: the estimate must be right *)
(* for every gap, at every wrap, and after a Security Mode Command, repeated *)
(* or not, whatever the context before had.                                  *)
StoredCountIsSenders == downlinkCount = CountOf(last)

(* Whatever was lost before, a message that is fewer than SqnMod numbers     *)
(* ahead of the last accepted one is accepted.                               *)
WindowIsAccepted ==
    \A n \in last..sent[context] :
        n < last + SqnMod =>
            macAccepted(context, n, estimatedDownlinkCount(downlinkCount, CountOf(n).sqn))

(* A message older than the last accepted one is never accepted after it,    *)
(* nor one so far ahead that its number was guessed wrong: until the next    *)
(* Security Mode Command the accepted numbers only move on, within the       *)
(* window.  So after SqnMod losses in a row nothing sent later is accepted.  *)
AcceptedNumbersMoveOn ==
    [][\/ \E k \in Contexts : receiveSecurityModeCommand(k)
       \/ last' \in last..(last + SqnMod - 1)]_vars
=============================================================================
