---------------------------- MODULE MCViewerSeat ----------------------------
(***************************************************************************)
(* ViewerSeat for TLC: the Hosts are interchangeable, and so are the       *)
(* concurrent UI requests.                                                 *)
(***************************************************************************)
EXTENDS ViewerSeat, TLC

Symmetry == Permutations(Hosts) \cup Permutations(Calls)
=============================================================================
