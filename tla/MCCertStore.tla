----------------------------- MODULE MCCertStore -----------------------------
(***************************************************************************)
(* Two processes and two domains; one host under the first domain.  A leaf *)
(* lives three units and is renewed in its last one, as 90 and 30 days.    *)
(* Four keys: two roots and two leaves, or one root and three leaves.      *)
(***************************************************************************)
EXTENDS CertStore, TLC

CONSTANTS p1, p2, d1, d2, h1

MCProcs == {p1, p2}
MCDomains == {d1, d2}
MCHosts == {h1}
MCDomainOf == h1 :> d1

Symmetry == Permutations(MCProcs)

=============================================================================
