----------------------------- MODULE MCDialing ------------------------------
(* Two Nodes, each of which wants the other in its mesh. *)
EXTENDS Dialing

Both == {<<1, 2>>, <<2, 1>>}
=============================================================================
