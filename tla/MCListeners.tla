---------------------------- MODULE MCListeners -----------------------------
(* An instance of Listeners for TLC. *)
EXTENDS Listeners, TLC

CONSTANTS tcp, udp, a1, x1, x2

\* Two sessions of one address, one after the other.
SessionAddrs == (x1 :> a1) @@ (x2 :> a1)

=============================================================================
