--------------------------- MODULE MCPrivateImages ---------------------------
(***************************************************************************)
(* Small instances of PrivateImages for TLC.                               *)
(***************************************************************************)
EXTENDS PrivateImages, TLC

CONSTANTS o1

(* Every image was uploaded for the same record: they compete for it.      *)
SameOwner == [m \in Media |-> o1]

Symmetry ==
  UNION {Permutations(S) :
           S \in {Media, Uploaders, Committers, Collectors, Reconcilers}}
=============================================================================
