--------------------------- MODULE UeAssociations ---------------------------
(***************************************************************************)
(* What the gNB promises about UE-associated signalling: a RAN UE NGAP ID  *)
(* names one association of one UE.  Ids are taken in order, an id is      *)
(* never taken twice, and a UE has at most one open association.           *)
(***************************************************************************)
EXTENDS Naturals

CONSTANTS
    Ues,
    Ids,             \* a set of naturals
    Idle, Closed     \* marks of an id that is not, or no longer, taken

VARIABLE association    \* per id: Idle, the UE it is open for, or Closed

Init == association = [r \in Ids |-> Idle]

Open(r, u) ==
    /\ association[r] = Idle
    /\ \A q \in Ids : q < r => association[q] # Idle
    /\ \A q \in Ids : association[q] # u
    /\ association' = [association EXCEPT ![r] = u]

Close(r) ==
    /\ association[r] \in Ues
    /\ association' = [association EXCEPT ![r] = Closed]

Next == \E r \in Ids : Close(r) \/ \E u \in Ues : Open(r, u)

Spec == Init /\ [][Next]_association
=============================================================================
