--------------------------- MODULE NumberContract ---------------------------
(***************************************************************************)
(* What the messages of one stream operation promise the receiver about    *)
(* their numbers (the Ack field, extruntime/handler_stream.go), as if      *)
(* nextSeq were one atomic step: numbers are taken in order, each is used  *)
(* for one message, and the last message takes the last number when all    *)
(* others have been used.  StreamOutput, with its CompareAndSwap loop,     *)
(* implements this.                                                        *)
(***************************************************************************)
EXTENDS Naturals

CONSTANT None    \* no last message yet

VARIABLES
    next,        \* the number to be taken next
    held,        \* numbers taken and not used
    used,        \* numbers of the output messages
    last         \* the number of the last message

vars == <<next, held, used, last>>

Init ==
    /\ next = 0
    /\ held = {} /\ used = {}
    /\ last = None

Take ==
    /\ last = None
    /\ next' = next + 1
    /\ held' = held \cup {next}
    /\ UNCHANGED <<used, last>>

Use(n) ==
    /\ n \in held
    /\ held' = held \ {n}
    /\ used' = used \cup {n}
    /\ UNCHANGED <<next, last>>

Finish ==
    /\ last = None
    /\ last' \in held /\ next = last' + 1
    /\ held = {last'} /\ held' = {}
    /\ UNCHANGED <<next, used>>

Next == Take \/ (\E n \in held : Use(n)) \/ Finish

Spec == Init /\ [][Next]_vars

=============================================================================
