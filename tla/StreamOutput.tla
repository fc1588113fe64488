---------------------------- MODULE StreamOutput ----------------------------
(***************************************************************************)
(* The output of one exec, attach or logs stream of the runtime extension: *)
(* handleStreamOperation, its uploader goroutines and nextSeq, all of      *)
(* extruntime/handler_stream.go.                                           *)
(*                                                                         *)
(* The runtime writes to pipes; an uploader per pipe reads chunks, numbers *)
(* each with nextSeq and sends it.  When run returns the pipes are closed, *)
(* the uploaders are waited for, and the operation (Main) sends the last   *)
(* message, numbered by the same counter.  The numbers are uint64 in the   *)
(* code; that many messages are out of reach, and they are Nat here.       *)
(*                                                                         *)
(* preRun is nil in every caller and left out.  iohelper's pipe and        *)
(* TimeoutReader are external: a reader sees end of file once its pipe is  *)
(* closed and empty.                                                       *)
(***************************************************************************)
EXTENDS Integers

CONSTANTS
    Uploaders,   \* the pipes in use: stdout, stderr
    Main,        \* the goroutine of handleStreamOperation
    None,        \* no last message yet
    Faults,      \* {"cancel", "drop"}: what may happen in this instance
    MaxWrites    \* bound: how many chunks the runtime writes

ASSUME OutputAssumption ==
    /\ Main \notin Uploaders
    /\ None \notin Nat
    /\ MaxWrites \in Nat

Procs == Uploaders \cup {Main}

VARIABLES
    pc,
    seq,         \* the shared counter
    got,         \* nextSeq's local seq
    pending,     \* chunks in each pipe
    pipeClosed,  \* pipes whose write end is closed
    written,
    sent, lost,  \* numbers of output messages that were, and were not, delivered
    final,       \* the number of the last message
    ctxDone

vars == <<pc, seq, got, pending, pipeClosed, written, sent, lost, final, ctxDone>>

TypeOK ==
    /\ pc \in [Procs -> {"run", "close", "wait", "read", "load", "cas", "send", "done"}]
    /\ seq \in Nat
    /\ got \in [Procs -> Nat]
    /\ pending \in [Uploaders -> 0..MaxWrites]
    /\ pipeClosed \subseteq Uploaders
    /\ written \in 0..MaxWrites
    /\ sent \subseteq Nat /\ lost \subseteq Nat
    /\ final \in Nat \cup {None}
    /\ ctxDone \in BOOLEAN

\* createTerminalStream has made the pipes and started the uploaders.
Init ==
    /\ pc = [p \in Procs |-> IF p = Main THEN "run" ELSE "read"]
    /\ seq = 0
    /\ got = [p \in Procs |-> 0]
    /\ pending = [u \in Uploaders |-> 0]
    /\ pipeClosed = {}
    /\ written = 0
    /\ sent = {} /\ lost = {}
    /\ final = None
    /\ ctxDone = FALSE

Goto(p, label) == pc' = [pc EXCEPT ![p] = label]

-----------------------------------------------------------------------------
(* nextSeq.                                                                *)

LoadSeq(p) ==
    /\ pc[p] = "load"
    /\ got' = [got EXCEPT ![p] = seq]
    /\ Goto(p, "cas")
    /\ UNCHANGED <<seq, pending, pipeClosed, written, sent, lost, final, ctxDone>>

StoreSeq(p) ==
    /\ pc[p] = "cas"
    /\ seq' = got[p] + 1
    /\ Goto(p, "send")
    /\ UNCHANGED <<got, pending, pipeClosed, written, sent, lost, final, ctxDone>>

\* One round of the CompareAndSwap loop.
CasSeq(p) ==
    /\ pc[p] = "cas"
    /\ \/ seq = got[p] /\ seq' = seq + 1 /\ Goto(p, "send") /\ UNCHANGED got
       \/ /\ seq # got[p]
          /\ got' = [got EXCEPT ![p] = @ + 1]
          /\ UNCHANGED <<pc, seq>>
    /\ UNCHANGED <<pending, pipeClosed, written, sent, lost, final, ctxDone>>

-----------------------------------------------------------------------------
(* uploadDataOutput.                                                       *)

\* Some of the waiting data, as much as a payload holds.
UploadRead(u) ==
    /\ pc[u] = "read"
    /\ pending[u] > 0
    /\ \E rest \in 0..(pending[u] - 1) : pending' = [pending EXCEPT ![u] = rest]
    /\ Goto(u, "load")
    /\ UNCHANGED <<seq, got, pipeClosed, written, sent, lost, final, ctxDone>>

UploadEndEarly(u) ==
    /\ pc[u] = "read"
    /\ u \in pipeClosed \/ ctxDone
    /\ Goto(u, "done")
    /\ UNCHANGED <<seq, got, pending, pipeClosed, written, sent, lost, final, ctxDone>>

\* End of file, or WaitForData gives up with the context; then wg.Done().
UploadEnd(u) ==
    /\ pc[u] = "read"
    /\ (u \in pipeClosed /\ pending[u] = 0) \/ ctxDone
    /\ Goto(u, "done")
    /\ UNCHANGED <<seq, got, pending, pipeClosed, written, sent, lost, final, ctxDone>>

\* SendMsg delivers the message, drops it because the connection was
\* replaced, or fails with the context.
UploadSend(u) ==
    /\ pc[u] = "send"
    /\ \/ sent' = sent \cup {got[u]} /\ Goto(u, "read") /\ UNCHANGED lost
       \/ "drop" \in Faults /\ lost' = lost \cup {got[u]} /\ Goto(u, "read") /\ UNCHANGED sent
       \/ ctxDone /\ lost' = lost \cup {got[u]} /\ Goto(u, "done") /\ UNCHANGED sent
    /\ UNCHANGED <<seq, got, pending, pipeClosed, written, final, ctxDone>>

-----------------------------------------------------------------------------
(* The runtime engine (external), and handleStreamOperation.               *)

RuntimeWrite(u) ==
    /\ pc[Main] = "run" /\ u \notin pipeClosed
    /\ written < MaxWrites
    /\ written' = written + 1
    /\ pending' = [pending EXCEPT ![u] = @ + 1]
    /\ UNCHANGED <<pc, seq, got, pipeClosed, sent, lost, final, ctxDone>>

RuntimeClose(u) ==
    /\ pc[Main] = "run" /\ u \notin pipeClosed
    /\ pipeClosed' = pipeClosed \cup {u}
    /\ UNCHANGED <<pc, seq, got, pending, written, sent, lost, final, ctxDone>>

RunReturns ==
    /\ pc[Main] = "run"
    /\ Goto(Main, "close")
    /\ UNCHANGED <<seq, got, pending, pipeClosed, written, sent, lost, final, ctxDone>>

CloseNothing ==
    /\ pc[Main] = "close"
    /\ Goto(Main, "wait")
    /\ UNCHANGED <<seq, got, pending, pipeClosed, written, sent, lost, final, ctxDone>>

\* The deferred closeStream.
CloseStream ==
    /\ pc[Main] = "close"
    /\ pipeClosed' = Uploaders
    /\ Goto(Main, "wait")
    /\ UNCHANGED <<seq, got, pending, written, sent, lost, final, ctxDone>>

WaitNobody ==
    /\ pc[Main] = "wait"
    /\ Goto(Main, "load")
    /\ UNCHANGED <<seq, got, pending, pipeClosed, written, sent, lost, final, ctxDone>>

\* wg.Wait()
WaitUploaders ==
    /\ pc[Main] = "wait"
    /\ \A u \in Uploaders : pc[u] = "done"
    /\ Goto(Main, "load")
    /\ UNCHANGED <<seq, got, pending, pipeClosed, written, sent, lost, final, ctxDone>>

\* h.SendMsg(lastMsg), best effort.
SendFinal ==
    /\ pc[Main] = "send"
    /\ final' = got[Main]
    /\ Goto(Main, "done")
    /\ UNCHANGED <<seq, got, pending, pipeClosed, written, sent, lost, ctxDone>>

Cancel ==
    /\ "cancel" \in Faults /\ ~ctxDone
    /\ ctxDone' = TRUE
    /\ UNCHANGED <<pc, seq, got, pending, pipeClosed, written, sent, lost, final>>

Terminated == pc[Main] = "done" /\ UNCHANGED vars

UploaderNext(u) == LoadSeq(u) \/ CasSeq(u) \/ UploadRead(u) \/ UploadEnd(u) \/ UploadSend(u)

MainNext == LoadSeq(Main) \/ CasSeq(Main) \/ CloseStream \/ WaitUploaders \/ SendFinal

Next ==
    \/ \E u \in Uploaders : UploaderNext(u) \/ RuntimeWrite(u) \/ RuntimeClose(u)
    \/ MainNext \/ RunReturns \/ Cancel
    \/ Terminated

Spec == Init /\ [][Next]_vars

\* The goroutines run on; the runtime need not ever return.
FairSpec == Spec /\ WF_vars(MainNext) /\ \A u \in Uploaders : WF_vars(UploaderNext(u))

-----------------------------------------------------------------------------
(* Properties.                                                             *)

\* nextSeq never gives the same number twice: a number about to be sent was
\* not sent before and no other goroutine holds it.
NumbersAreUnique ==
    \A p \in Procs : pc[p] = "send" =>
        /\ got[p] \notin sent \cup lost
        /\ \A q \in Procs \ {p} : pc[q] = "send" => got[q] # got[p]

\* Numbers that nextSeq has returned and SendMsg has not been given yet.
Held == {got[p] : p \in {q \in Procs : pc[q] = "send"}}

Numbers == INSTANCE NumberContract WITH
    next <- seq, held <- Held, used <- sent \cup lost, last <- final

\* nextSeq, called by the uploaders and the operation at any time, acts as one
\* step: the messages of a stream keep NumberContract.
KeepsNumbering == Numbers!Spec

\* A caller of nextSeq never runs ahead of the counter; from there the loop,
\* which only counts upwards, would not find it again.
NeverAhead == \A p \in Procs : pc[p] = "cas" => got[p] <= seq

\* The last message carries the highest number, and every lower number was
\* used for output before it: the receiver may wait for all of them.
LastIsComplete == final # None => sent \cup lost = 0..(final - 1)

\* Everything the runtime wrote was read and given to SendMsg before the last
\* message, unless the context was cancelled.
OutputBeforeLast == final # None /\ ~ctxDone => \A u \in Uploaders : pending[u] = 0

\* Once run has returned the last message is sent.
LastIsSent == (pc[Main] = "close") ~> (final # None)

=============================================================================
