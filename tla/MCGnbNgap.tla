------------------------------ MODULE MCGnbNgap ------------------------------
(* Values for the constants of GnbNgap, for TLC. *)
EXTENDS GnbNgap, TLC

\* AMFs of the same set, and each in a set of its own.
OneSet == [a \in Amfs |-> "set"]
OwnSets == [a \in Amfs |-> a]

Stream1 == {1}
Streams012 == {0, 1, 2}

\* UEs, and AMF UE NGAP IDs, are only compared with each other.
Symmetry == Permutations(Ues) \cup Permutations(AmfUeIds)
=============================================================================
