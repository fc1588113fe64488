--------------------------- MODULE MCStreamOutput ---------------------------
(* Instances of StreamOutput for TLC. *)
EXTENDS StreamOutput

CONSTANTS stdout, stderr

=============================================================================
