----------------------------- MODULE MCServices -----------------------------
(***************************************************************************)
(* The instance of Services that TLC checks.                               *)
(***************************************************************************)
EXTENDS Services

(* The digits after the point: none, one and three.                        *)
MCFraction == {<<>>, <<5>>, <<1, 2, 7>>}
=============================================================================
