-------------------------- MODULE MCRuntimeStreams --------------------------
(* Instances of RuntimeStreams for TLC. *)
EXTENDS RuntimeStreams, TLC

CONSTANTS exec, logs, forward, s1

\* An operation of each kind, all with the same sid.
OneSid == [o \in Ops |-> s1]
Kinds == (exec :> "stdin") @@ (logs :> "plain") @@ (forward :> "forward")

=============================================================================
