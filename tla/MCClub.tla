------------------------------- MODULE MCClub -------------------------------
(***************************************************************************)
(* The instance of Club that TLC checks.                                   *)
(***************************************************************************)
EXTENDS Club, TLC

Symmetry ==
  UNION {Permutations(S) : S \in {Left, Right, Request}}
=============================================================================
