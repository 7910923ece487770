-------------------------- MODULE MCRegistryStore ---------------------------
(***************************************************************************)
(* An instance of RegistryStore for TLC: two requests at a time on an app  *)
(* with up to two services.  The names and services include the ones that  *)
(* are refused, and a mount that loses its trailing slash.                 *)
(***************************************************************************)
EXTENDS RegistryStore

CONSTANTS h1, h2

MCHandlers == {h1, h2}

MCRequested == {[port |-> 3000, path |-> <<"/", "a", "/">>, pid |-> 0],
                [port |-> 0, path |-> <<>>, pid |-> 0]}

=============================================================================
