--------------------------- MODULE MCSwarmSession ---------------------------
(***************************************************************************)
(* SwarmSession for TLC: concurrent fetches are interchangeable, and so    *)
(* are concurrent upload requests. Used by the safety runs only.           *)
(***************************************************************************)
EXTENDS SwarmSession, TLC

Symmetry == Permutations(Fetchers) \cup Permutations(Servers)
=============================================================================
