----------------------------- MODULE MCUserFifo -----------------------------
(* Instances of UserFifo.                                                  *)
EXTENDS UserFifo

CONSTANTS u1, u2

BackAndForth == {<<u1, u2>>, <<u2, u1>>}
=============================================================================
