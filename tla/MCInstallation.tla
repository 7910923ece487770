--------------------------- MODULE MCInstallation ---------------------------
(***************************************************************************)
(* Two domains, so that the environment's may be the wrong one, and three  *)
(* root CAs: two installations and a removal between them, and one more.   *)
(***************************************************************************)
EXTENDS Installation, TLC

CONSTANTS d1, d2

MCDomains == {d1, d2}

Symmetry == Permutations(MCDomains)

=============================================================================
