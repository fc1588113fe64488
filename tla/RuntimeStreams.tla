--------------------------- MODULE RuntimeStreams ---------------------------
(***************************************************************************)
(* The input side of runtime operations: StreamManager                     *)
(* (extutil/streaming.go), the commands that use it (extruntime/handler.go) *)
(* and the operations that add and remove its sessions (handle_action.go,  *)
(* handler_stream.go).                                                     *)
(*                                                                         *)
(*   dispatcher  the session goroutine in HandleCmd: it starts a goroutine *)
(*               for every operation and writes input itself               *)
(*   operations  "stdin"   exec or attach with stdin                       *)
(*               "plain"   logs, exec or attach without stdin              *)
(*               "forward" port forwarding                                 *)
(*                                                                         *)
(* An operation stands for the stream it adds.  Input for a sid is numbered *)
(* from 0; number MaxSeq is the empty one that closes it.  A pipe is the   *)
(* number of chunks in it.  Output is the subject of StreamOutput.         *)
(***************************************************************************)
EXTENDS Naturals

CONSTANTS
    Ops, NoOp,    \* operations; no operation
    Sids, SidOf,  \* the session id of each operation
    KindOf,
    MaxSeq,       \* bound: the number of input chunks of a sid
    PipeCap,      \* the chunks a pipe has room for
    PendingSizes  \* bytes that may be left in the pipe of a port forwarding

ASSUME StreamsAssumption ==
    /\ NoOp \notin Ops
    /\ SidOf \in [Ops -> Sids]
    /\ KindOf \in [Ops -> {"stdin", "plain", "forward"}]
    /\ MaxSeq \in Nat /\ PipeCap \in Nat
    /\ PendingSizes \subseteq Nat

Seqs == 0..MaxSeq
NoMax == MaxSeq + 1

VARIABLES
    opc,         \* where the goroutine of each operation is
    lock,        \* StreamManager._working: the operation in create, or NoOp
    sessions,    \* StreamManager.sessions
    todo,        \* input of each sid that has not arrived yet
    dop,         \* the stream the dispatcher writes to, or NoOp
    next, held, max, \* the sequence queue of each stream
    room, written, \* free space of each pipe, chunks written to it
    wclosed,     \* pipes whose writing end is closed
    closer       \* forwardings with a goroutine that will close everything

queueVars == <<next, held, max>>
pipeVars == <<room, written, wclosed, closer>>
dispVars == <<todo, dop>>
vars == <<opc, lock, sessions, dispVars, queueVars, pipeVars>>

TypeOK ==
    /\ opc \in [Ops -> {"idle", "add", "create", "run", "end", "del", "done"}]
    /\ lock \in Ops \cup {NoOp}
    /\ sessions \in [Sids -> Ops \cup {NoOp}]
    /\ todo \in [Sids -> SUBSET Seqs]
    /\ dop \in Ops \cup {NoOp}
    /\ next \in [Ops -> 0..NoMax] /\ held \in [Ops -> SUBSET Seqs] /\ max \in [Ops -> 0..NoMax]
    /\ room \in [Ops -> 0..PipeCap] /\ written \in [Ops -> 0..MaxSeq]
    /\ wclosed \subseteq Ops /\ closer \subseteq Ops

Init ==
    /\ opc = [o \in Ops |-> "idle"]
    /\ lock = NoOp
    /\ sessions = [s \in Sids |-> NoOp]
    /\ todo = [s \in Sids |-> Seqs]
    /\ dop = NoOp
    /\ next = [o \in Ops |-> 0] /\ held = [o \in Ops |-> {}] /\ max = [o \in Ops |-> NoMax]
    /\ room = [o \in Ops |-> PipeCap] /\ written = [o \in Ops |-> 0]
    /\ wclosed = {} /\ closer = {}

-----------------------------------------------------------------------------
(* stream.close: the pipe of an exec or attach is closed.  A forwarding    *)
(* waits for what is left in the pipe, "assume 100 KB/s", in a goroutine   *)
(* that then closes the pipe and the connection; no wait, no goroutine.    *)

CloseDelay(n) == (n \div 1024) \div 100

StreamClose(o) ==
    \/ /\ KindOf[o] # "forward"
       /\ wclosed' = wclosed \cup {o} /\ UNCHANGED closer
    \/ /\ KindOf[o] = "forward"
       /\ \E n \in PendingSizes :
             closer' = IF CloseDelay(n) > 0 THEN closer \cup {o} ELSE closer
       /\ UNCHANGED wclosed

\* time.Sleep is over: pw.Close, closeWrite, downstream.Close.
DelayedClose(o) ==
    /\ o \in closer
    /\ closer' = closer \ {o} /\ wclosed' = wclosed \cup {o}
    /\ UNCHANGED <<opc, lock, sessions, dispVars, queueVars, room, written>>

-----------------------------------------------------------------------------
(* HandleCmd, in the session goroutine.                                    *)

\* A runtime command: its handler runs in a goroutine.
Start(o) ==
    /\ dop = NoOp /\ opc[o] = "idle"
    /\ opc' = [opc EXCEPT ![o] = IF KindOf[o] = "plain" THEN "run" ELSE "add"]
    /\ UNCHANGED <<lock, sessions, dispVars, queueVars, pipeVars>>

InputCloses(s, q) ==
    /\ dop = NoOp /\ lock = NoOp
    /\ q \in todo[s] /\ todo' = [todo EXCEPT ![s] = @ \ {q}]
    /\ \/ sessions[s] = NoOp /\ UNCHANGED <<dop, held, max, wclosed, closer>>
       \/ /\ sessions[s] # NoOp
          /\ dop' = sessions[s]
          /\ held' = [held EXCEPT ![dop'] = @ \cup {q}]
          /\ \/ q = MaxSeq /\ max' = [max EXCEPT ![dop'] = q] /\ StreamClose(dop')
             \/ q # MaxSeq /\ UNCHANGED <<max, wclosed, closer>>
    /\ UNCHANGED <<opc, lock, sessions, next, room, written>>

\* CMD_DATA_INPUT or CMD_DATA_CLOSE: StreamManager.Write looks the stream up;
\* without one the input is dropped.  stream.write, no longer under the lock,
\* offers it to the sequence queue; empty data also sets the last number.
Input(s, q) ==
    /\ dop = NoOp /\ lock = NoOp
    /\ q \in todo[s] /\ todo' = [todo EXCEPT ![s] = @ \ {q}]
    /\ \/ sessions[s] = NoOp /\ UNCHANGED <<dop, held, max>>
       \/ /\ sessions[s] # NoOp
          /\ dop' = sessions[s]
          /\ held' = [held EXCEPT ![dop'] = @ \cup {q}]
          /\ max' = IF q = MaxSeq THEN [max EXCEPT ![dop'] = q] ELSE max
    /\ UNCHANGED <<opc, lock, sessions, next, pipeVars>>

\* The sequence queue hands over the next number: w.Write blocks while the
\* pipe is full, and fails when it is closed.
Deliver ==
    /\ dop # NoOp /\ next[dop] \in held[dop]
    /\ next' = [next EXCEPT ![dop] = @ + 1]
    /\ held' = [held EXCEPT ![dop] = @ \ {next[dop]}]
    /\ \/ (dop \in wclosed \/ next[dop] = MaxSeq) /\ UNCHANGED <<room, written>>
       \/ /\ dop \notin wclosed /\ next[dop] # MaxSeq /\ room[dop] > 0
          /\ room' = [room EXCEPT ![dop] = @ - 1]
          /\ written' = [written EXCEPT ![dop] = @ + 1]
    /\ UNCHANGED <<opc, lock, sessions, dispVars, max, wclosed, closer>>

\* Nothing more can be handed over; the stream is closed if it is complete.
Delivered ==
    /\ dop # NoOp /\ next[dop] \notin held[dop]
    /\ dop' = NoOp
    /\ \/ next[dop] > max[dop] /\ StreamClose(dop)
       \/ next[dop] <= max[dop] /\ UNCHANGED <<wclosed, closer>>
    /\ UNCHANGED <<opc, lock, sessions, todo, queueVars, room, written>>

-----------------------------------------------------------------------------
(* The goroutine of an operation.                                          *)

otherThanOp == <<dispVars, queueVars, room, written>>

\* StreamManager.Add with a sid in use: ErrAlreadyExists.
AddExists(o) ==
    /\ opc[o] = "add" /\ lock = NoOp
    /\ sessions[SidOf[o]] # NoOp
    /\ opc' = [opc EXCEPT ![o] = "end"]
    /\ UNCHANGED <<otherThanOp, lock, sessions, wclosed, closer>>

\* Otherwise create, which starts the operation, runs under the spin lock.
AddCreate(o) ==
    /\ opc[o] = "add" /\ lock = NoOp
    /\ sessions[SidOf[o]] = NoOp
    /\ opc' = [opc EXCEPT ![o] = "create"] /\ lock' = o
    /\ UNCHANGED <<otherThanOp, sessions, wclosed, closer>>

\* The stream is entered; if create fails, exec and attach close its pipe.
AddReturns(o) ==
    /\ opc[o] = "create"
    /\ \/ /\ sessions' = [sessions EXCEPT ![SidOf[o]] = o]
          /\ opc' = [opc EXCEPT ![o] = "run"]
          /\ UNCHANGED wclosed
       \/ /\ wclosed' = IF KindOf[o] = "stdin" THEN wclosed \cup {o} ELSE wclosed
          /\ opc' = [opc EXCEPT ![o] = "end"]
          /\ UNCHANGED sessions
    /\ lock' = NoOp
    /\ UNCHANGED <<otherThanOp, closer>>

\* The runtime reads its input.
RuntimeRead(o) ==
    /\ opc[o] = "run" /\ room[o] < PipeCap
    /\ room' = [room EXCEPT ![o] = @ + 1]
    /\ UNCHANGED <<opc, lock, sessions, dispVars, queueVars, written, wclosed, closer>>

\* The runtime is finished with it, or the context is done.
RunReturns(o) ==
    /\ opc[o] = "run"
    /\ opc' = [opc EXCEPT ![o] = "end"]
    /\ UNCHANGED <<otherThanOp, lock, sessions, wclosed, closer>>

FinishLeavesOpen(o) ==
    /\ opc[o] = "end"
    /\ opc' = [opc EXCEPT ![o] = "del"]
    /\ UNCHANGED <<otherThanOp, lock, sessions, wclosed, closer>>

\* The deferred function, up to the last message.  A port forwarding closes
\* its pipe first.
Finish(o) ==
    /\ opc[o] = "end"
    /\ wclosed' = IF KindOf[o] = "forward" THEN wclosed \cup {o} ELSE wclosed
    /\ opc' = [opc EXCEPT ![o] = "del"]
    /\ UNCHANGED <<otherThanOp, lock, sessions, closer>>

DelLeavesOpen(o) ==
    /\ opc[o] = "del" /\ lock = NoOp
    /\ sessions' = [sessions EXCEPT ![SidOf[o]] = NoOp]
    /\ opc' = [opc EXCEPT ![o] = "done"]
    /\ UNCHANGED <<otherThanOp, lock, wclosed, closer>>

\* StreamManager.Del(sid) closes and removes whatever stream is there.
Del(o) ==
    /\ opc[o] = "del" /\ lock = NoOp
    /\ \/ sessions[SidOf[o]] = NoOp /\ UNCHANGED <<sessions, wclosed, closer>>
       \/ /\ sessions[SidOf[o]] # NoOp
          /\ StreamClose(sessions[SidOf[o]])
          /\ sessions' = [sessions EXCEPT ![SidOf[o]] = NoOp]
    /\ opc' = [opc EXCEPT ![o] = "done"]
    /\ UNCHANGED <<otherThanOp, lock>>

-----------------------------------------------------------------------------
OpNext(o) == AddExists(o) \/ AddCreate(o) \/ AddReturns(o) \/ Finish(o) \/ Del(o)

Next ==
    \/ Deliver \/ Delivered
    \/ \E s \in Sids, q \in Seqs : Input(s, q)
    \/ \E o \in Ops :
          OpNext(o) \/ Start(o) \/ RuntimeRead(o) \/ RunReturns(o) \/ DelayedClose(o)

Spec == Init /\ [][Next]_vars

(* Goroutines that can run do, and the runtime's Exec, Attach and          *)
(* PortForward return.  An operation may run for ever and may never read   *)
(* its input.                                                              *)
FairSpec ==
    /\ Spec
    /\ WF_vars(Deliver \/ Delivered)
    /\ \A o \in Ops : WF_vars(OpNext(o)) /\ WF_vars(DelayedClose(o))

-----------------------------------------------------------------------------
(* Properties.                                                             *)

\* "close this session locally (no more input data should be delivered to
\* this session)" (extruntime/handle_action.go:218): nothing is written to the
\* pipe of an operation that is done, although the dispatcher may still hold
\* its stream and have input for it, and whoever took it out of the table.
NothingDeliveredAfterEnd ==
    [][\A o \in Ops : opc[o] = "done" => written'[o] = written[o]]_vars

\* A running exec or attach never waits for input that cannot come: as long as
\* it is open, its stream is in the table.  When another operation with the
\* same sid takes it out, which Del does after a failed Add, its input ends.
OpenInputIsReachable ==
    \A o \in Ops : KindOf[o] = "stdin" /\ opc[o] = "run" /\ o \notin wclosed
                      => sessions[SidOf[o]] = o

\* An operation in the table sees the end of its input only after every chunk
\* that was numbered before it, in whatever order they arrived and whatever
\* other operations with its sid do.
EofIsComplete ==
    \A o \in Ops : opc[o] = "run" /\ sessions[SidOf[o]] = o /\ o \in wclosed
                      => written[o] = MaxSeq

\* Input that waits for an operation which does not read is given up when the
\* operation ends: the session goroutine can go on with other commands.
BlockedInputReleased ==
    \A o \in Ops : (dop = o /\ opc[o] \in {"end", "del", "done"}) ~> (dop # o)

\* Input is handed over whatever the operation does.
InputNeverBlocks == (dop # NoOp) ~> (dop = NoOp)

\* When all input of a running operation has been sent, its input is closed.
InputCloseArrives ==
    \A o \in Ops : (opc[o] = "run" /\ todo[SidOf[o]] = {} /\ KindOf[o] # "plain")
                      ~> (o \in wclosed \/ opc[o] # "run")

=============================================================================
