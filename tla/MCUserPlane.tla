----------------------------- MODULE MCUserPlane -----------------------------
(* Instances of UserPlane: two sessions of one UE and one of another, with   *)
(* addresses in one /24 network, and two sessions in different ones.         *)
EXTENDS UserPlane

Session(ue, psi, teid, address) == [ue |-> ue, psi |-> psi, teid |-> teid, address |-> address]

OneNetwork == {Session("ue1", 1, 1, <<10, 45, 0, 2>>),
               Session("ue1", 2, 2, <<10, 45, 0, 130>>),
               Session("ue2", 1, 3, <<10, 45, 0, 131>>)}

TwoNetworks == {Session("ue1", 1, 1, <<10, 45, 0, 130>>), Session("ue2", 1, 2, <<10, 45, 1, 130>>)}
=============================================================================
