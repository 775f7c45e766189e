---------------------------- MODULE MCPossession ----------------------------
(* Instances of Possession for TLC: the shapes of the mesh.                *)
EXTENDS Possession

CONSTANTS replica, relay

(* Everyone is everyone's peer. *)
FullMesh == [n \in Node |-> Node \ {n}]

AllLinks == {l \in Node \X Node : l[1] # l[2]}

(* Only the replica pulls. *)
OneLink == {<<replica, Origin>>}

(* The replica reaches the Origin only through the relay. *)
ChainLinks == {<<relay, Origin>>, <<replica, relay>>}
=============================================================================
