--------------------------- MODULE StreamContract ---------------------------
(***************************************************************************)
(* The agreement between Client.ProcessNewStream and the owner of the two  *)
(* channels it is called with (client.go:124-131): the channels are fresh, *)
(* commands go into cmdCh and messages come out of msgCh only while a      *)
(* connection exists, a connection that existed ends with cmdCh closed,    *)
(* and only the owner closes msgCh, once.  A send on a closed channel and a *)
(* second close are panics: no channel is ever misused that way, but for a *)
(* message that comes too late, after the end of its stream.  ClientStream *)
(* implements the stream's side, Controller uses it for every bundle.      *)
(***************************************************************************)
EXTENDS Naturals

VARIABLES
    phase,               \* new, stream (connected) or over (returned)
    cmdCh, msgCh,        \* the number of values in each channel, capacity 1
    cmdClosed, msgClosed,
    misuse               \* none, or the panic: send (when closed), close (twice)

vars == <<phase, cmdCh, msgCh, cmdClosed, msgClosed, misuse>>

Init ==
    /\ phase = "new"
    /\ cmdCh = 0 /\ msgCh = 0
    /\ cmdClosed = FALSE /\ msgClosed = FALSE
    /\ misuse = "none"

-----------------------------------------------------------------------------
(* The stream.                                                             *)

\* No connection: cmdCh is not closed.
Fail ==
    /\ phase = "new" /\ phase' = "over"
    /\ UNCHANGED <<cmdCh, msgCh, cmdClosed, msgClosed, misuse>>

Connect ==
    /\ phase = "new" /\ phase' = "stream"
    /\ UNCHANGED <<cmdCh, msgCh, cmdClosed, msgClosed, misuse>>

Command ==
    /\ phase = "stream" /\ ~cmdClosed
    /\ cmdCh = 0 /\ cmdCh' = 1
    /\ UNCHANGED <<phase, msgCh, cmdClosed, msgClosed, misuse>>

Message ==
    /\ phase = "stream"
    /\ msgCh = 1 /\ msgCh' = 0
    /\ UNCHANGED <<phase, cmdCh, cmdClosed, msgClosed, misuse>>

CloseCmd ==
    /\ phase = "stream"
    /\ ~cmdClosed /\ cmdClosed' = TRUE
    /\ UNCHANGED <<phase, cmdCh, msgCh, msgClosed, misuse>>

Return ==
    /\ phase = "stream" /\ cmdClosed
    /\ phase' = "over"
    /\ UNCHANGED <<cmdCh, msgCh, cmdClosed, msgClosed, misuse>>

-----------------------------------------------------------------------------
(* The owner of the channels.                                              *)

TakeCmd == cmdCh = 1 /\ cmdCh' = 0 /\ UNCHANGED <<phase, msgCh, cmdClosed, msgClosed, misuse>>

PutMsg ==
    /\ ~msgClosed
    /\ msgCh = 0 /\ msgCh' = 1
    /\ UNCHANGED <<phase, cmdCh, cmdClosed, msgClosed, misuse>>

CloseMsg ==
    /\ ~msgClosed /\ msgClosed' = TRUE
    /\ UNCHANGED <<phase, cmdCh, msgCh, cmdClosed, misuse>>

\* A message for a connection that no longer exists meets a closed msgCh.
LateSend ==
    /\ phase = "over" /\ msgClosed
    /\ misuse = "none" /\ misuse' = "send"
    /\ UNCHANGED <<phase, cmdCh, msgCh, cmdClosed, msgClosed>>

StreamStep == Fail \/ Connect \/ Command \/ Message \/ CloseCmd \/ Return
OwnerStep  == TakeCmd \/ PutMsg \/ CloseMsg \/ LateSend

Next == StreamStep \/ OwnerStep

Spec == Init /\ [][Next]_vars

=============================================================================
