----------------------------- MODULE MCHostRoom -----------------------------
(* HostRoom for TLC: the first party is on one Title, the second on another. *)
EXTENDS HostRoom

CONSTANTS film1, film2

MCTitleOf == [k \in Parties |-> IF k = 1 THEN film1 ELSE film2]
=============================================================================
