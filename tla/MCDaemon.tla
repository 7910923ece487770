------------------------------ MODULE MCDaemon ------------------------------
(***************************************************************************)
(* Instances of Daemon for TLC: two daemons, alike.                        *)
(***************************************************************************)
EXTENDS Daemon

CONSTANTS old, new, web, api

TwoPorts == <<"dns", "https">>

=============================================================================
