---------------------------- MODULE ClientStream ----------------------------
(***************************************************************************)
(* Client.ProcessNewStream (client.go): dialling, the register message,    *)
(* and the two goroutines of an established connection,                    *)
(*   writer   keepaliveCh, msgCh -> connection (PONG and messages)         *)
(*   reader   connection -> keepaliveCh (for PING) or cmdCh                *)
(* in an errgroup.  keepaliveCh has no buffer, so a PING is a rendezvous   *)
(* of the two.  What a goroutine defers runs before errgroup sees its      *)
(* error.  The owner of cmdCh and msgCh, the peer and the context are the  *)
(* environment.                                                            *)
(***************************************************************************)
EXTENDS Naturals

VARIABLES
    cpc,                  \* ProcessNewStream: dial, register, wait, done
    conn,                 \* none, open, or closed by this side
    lost,                 \* the peer is gone or the network has failed
    wpc, werr,            \* the writer goroutine, the error it returns
    rpc, rerr,            \* the reader goroutine, the error it returns
    cmdCh, msgCh, cmdClosed, msgClosed, \* as in StreamContract
    ctx,                  \* live, or cancelled by the parent or the group
    groupErr,             \* the first error returned to errgroup
    result                \* what ProcessNewStream returns

chanVars == <<cmdCh, msgCh, cmdClosed, msgClosed>>
groupVars == <<ctx, groupErr>>
vars == <<cpc, conn, lost, wpc, werr, rpc, rerr, chanVars, groupVars, result>>

\* Errors of Decode: io.EOF, a *net.OpError for a closed connection or for
\* anything else, another error that mentions "closed" or does not.
ReadErrors == {"EOF", "opClosed", "opOther", "saysClosed", "other"}
Errors     == ReadErrors \cup {"nil", "encode"}

TypeOK ==
    /\ cpc \in {"dial", "register", "wait", "done"}
    /\ conn \in {"none", "open", "closed"} /\ lost \in BOOLEAN
    /\ wpc \in {"select", "pong", "msg", "close", "return", "exit"} /\ werr \in Errors
    /\ rpc \in {"decode", "ping", "cmd", "close", "closeCmd", "return", "exit"}
    /\ rerr \in Errors
    /\ cmdCh \in {0, 1} /\ msgCh \in {0, 1}
    /\ cmdClosed \in BOOLEAN /\ msgClosed \in BOOLEAN
    /\ ctx \in {"live", "parent", "group"} /\ groupErr \in Errors
    /\ result \in {"none", "nil", "error"}

Init ==
    /\ cpc = "dial" /\ conn = "none" /\ lost = FALSE
    /\ wpc = "select" /\ werr = "nil"
    /\ rpc = "decode" /\ rerr = "nil"
    /\ cmdCh = 0 /\ msgCh = 0 /\ cmdClosed = FALSE /\ msgClosed = FALSE
    /\ ctx = "live" /\ groupErr = "nil"
    /\ result = "none"

ctxDone == ctx # "live"

GroupReturn(err) ==
    /\ groupErr' = IF groupErr = "nil" THEN err ELSE groupErr
    /\ ctx' = IF ctx = "live" THEN "group" ELSE ctx

ReadErrOpOnly(err) == IF err = "opClosed" THEN "EOF" ELSE err

checkNetworkReadErr(err) == IF err \in {"opClosed", "saysClosed"} THEN "EOF" ELSE err

-----------------------------------------------------------------------------
(* ProcessNewStream itself.                                                *)

goroutines == <<wpc, werr, rpc, rerr>>

DialFails ==
    /\ cpc = "dial"
    /\ cpc' = "done" /\ result' = "error"
    /\ UNCHANGED <<goroutines, chanVars, groupVars, conn, lost>>

\* Dialling with a cancelled context fails.
Dial ==
    /\ cpc = "dial" /\ ~ctxDone
    /\ cpc' = "register" /\ conn' = "open"
    /\ UNCHANGED <<goroutines, chanVars, groupVars, lost, result>>

\* The deferred conn.Close runs, cmdCh stays open.
RegisterFails ==
    /\ cpc = "register" /\ lost
    /\ cpc' = "done" /\ conn' = "closed" /\ result' = "error"
    /\ UNCHANGED <<goroutines, chanVars, groupVars, lost>>

\* The register message is written and the goroutines are started.
Register ==
    /\ cpc = "register"
    /\ cpc' = "wait"
    /\ UNCHANGED <<goroutines, chanVars, groupVars, conn, lost, result>>

WaitWriterOnly ==
    /\ cpc = "wait" /\ wpc = "exit"
    /\ cpc' = "done" /\ conn' = "closed"
    /\ result' = IF groupErr \in {"nil", "EOF"} THEN "nil" ELSE "error"
    /\ UNCHANGED <<goroutines, chanVars, groupVars, lost>>

Wait ==
    /\ cpc = "wait" /\ wpc = "exit" /\ rpc = "exit"
    /\ cpc' = "done" /\ conn' = "closed"
    /\ result' = IF groupErr \in {"nil", "EOF"} THEN "nil" ELSE "error"
    /\ UNCHANGED <<goroutines, chanVars, groupVars, lost>>

-----------------------------------------------------------------------------
(* The writer goroutine.                                                   *)

otherThanWriter == <<cpc, lost, rpc, rerr, cmdCh, cmdClosed, msgClosed, result>>

\* The reader's deferred function has closed keepaliveCh.
KeepaliveClosed == rpc \in {"closeCmd", "return", "exit"}

WriterTakeAfterClose ==
    /\ cpc = "wait" /\ wpc = "select" /\ msgClosed
    /\ msgCh = 1 /\ msgCh' = 0
    /\ wpc' = "msg"
    /\ UNCHANGED <<otherThanWriter, groupVars, conn, werr>>

WriterTake ==
    /\ cpc = "wait" /\ wpc = "select"
    /\ msgCh = 1 /\ msgCh' = 0
    /\ wpc' = "msg"
    /\ UNCHANGED <<otherThanWriter, groupVars, conn, werr>>

\* A closed keepaliveCh, a closed and empty msgCh, or the context.
WriterStop ==
    /\ cpc = "wait" /\ wpc = "select"
    /\ KeepaliveClosed \/ (msgClosed /\ msgCh = 0) \/ ctxDone
    /\ wpc' = "close" /\ werr' = "EOF"
    /\ UNCHANGED <<otherThanWriter, groupVars, conn, msgCh>>

WriterEncode ==
    /\ wpc \in {"pong", "msg"}
    /\ wpc' = "select"
    /\ UNCHANGED <<otherThanWriter, groupVars, conn, werr, msgCh>>

WriterEncodeFails ==
    /\ wpc \in {"pong", "msg"} /\ lost
    /\ wpc' = "close" /\ werr' = "encode"
    /\ UNCHANGED <<otherThanWriter, groupVars, conn, msgCh>>

WriterLeaveOpen ==
    /\ wpc = "close"
    /\ wpc' = "return"
    /\ UNCHANGED <<otherThanWriter, groupVars, conn, werr, msgCh>>

\* The deferred conn.Close ends a Decode that is in progress.
WriterClose ==
    /\ wpc = "close"
    /\ conn' = "closed" /\ wpc' = "return"
    /\ UNCHANGED <<otherThanWriter, groupVars, werr, msgCh>>

WriterReturn ==
    /\ wpc = "return"
    /\ GroupReturn(werr) /\ wpc' = "exit"
    /\ UNCHANGED <<otherThanWriter, conn, werr, msgCh>>

-----------------------------------------------------------------------------
(* The reader goroutine.                                                   *)

otherThanReader == <<cpc, conn, lost, werr, msgCh, msgClosed, result>>

\* The decoder may hold commands that arrived before the connection ended.
ReaderDecode ==
    /\ cpc = "wait" /\ rpc = "decode"
    /\ \E kind \in {"ping", "cmd"} : rpc' = kind
    /\ UNCHANGED <<otherThanReader, groupVars, wpc, rerr, cmdCh, cmdClosed>>

\* What Decode reports of a connection closed here, or lost.
DecodeErrors ==
    (IF conn = "closed" THEN {"opClosed", "saysClosed", "EOF"} ELSE {})
    \cup (IF lost THEN {"EOF", "opOther", "other"} ELSE {})

ReaderFails ==
    /\ cpc = "wait" /\ rpc = "decode"
    /\ \E err \in DecodeErrors : rerr' = checkNetworkReadErr(err)
    /\ rpc' = "close"
    /\ UNCHANGED <<otherThanReader, groupVars, wpc, cmdCh, cmdClosed>>

\* keepaliveCh <- struct{}{} meets the writer in its select.
ReaderPing ==
    /\ rpc = "ping" /\ wpc = "select"
    /\ rpc' = "decode" /\ wpc' = "pong"
    /\ UNCHANGED <<otherThanReader, groupVars, rerr, cmdCh, cmdClosed>>

ReaderCommand ==
    /\ rpc = "cmd" /\ cmdCh = 0
    /\ cmdCh' = 1 /\ rpc' = "decode"
    /\ UNCHANGED <<otherThanReader, groupVars, wpc, rerr, cmdClosed>>

\* Both selects of the reader also watch the context.
ReaderCancel ==
    /\ rpc \in {"ping", "cmd"} /\ ctxDone
    /\ rpc' = "close" /\ rerr' = "EOF"
    /\ UNCHANGED <<otherThanReader, groupVars, wpc, cmdCh, cmdClosed>>

\* The deferred close(keepaliveCh) and close(cmdCh).
ReaderCloseKeepalive ==
    /\ rpc = "close"
    /\ rpc' = "closeCmd"
    /\ UNCHANGED <<otherThanReader, groupVars, wpc, rerr, cmdCh, cmdClosed>>

ReaderCloseCmd ==
    /\ rpc = "closeCmd"
    /\ cmdClosed' = TRUE /\ rpc' = "return"
    /\ UNCHANGED <<otherThanReader, groupVars, wpc, rerr, cmdCh>>

ReaderReturn ==
    /\ rpc = "return"
    /\ GroupReturn(rerr) /\ rpc' = "exit"
    /\ UNCHANGED <<otherThanReader, wpc, rerr, cmdCh, cmdClosed>>

-----------------------------------------------------------------------------
(* The environment: the owner of the channels, the context, the network.   *)

otherThanEnv == <<cpc, conn, goroutines, groupErr, cmdClosed, result>>

OwnerTake == cmdCh = 1 /\ cmdCh' = 0 /\ UNCHANGED <<otherThanEnv, msgCh, msgClosed, ctx, lost>>

OwnerPut ==
    /\ ~msgClosed /\ msgCh = 0
    /\ msgCh' = 1
    /\ UNCHANGED <<otherThanEnv, cmdCh, msgClosed, ctx, lost>>

OwnerClose ==
    /\ ~msgClosed
    /\ msgClosed' = TRUE
    /\ UNCHANGED <<otherThanEnv, cmdCh, msgCh, ctx, lost>>

Cancel ==
    /\ ctx = "live" /\ ctx' = "parent"
    /\ UNCHANGED <<otherThanEnv, cmdCh, msgCh, msgClosed, lost>>

Lose ==
    /\ conn = "open" /\ ~lost
    /\ lost' = TRUE
    /\ UNCHANGED <<otherThanEnv, cmdCh, msgCh, msgClosed, ctx>>

Returned == cpc = "done" /\ UNCHANGED vars

-----------------------------------------------------------------------------
ProcessNext == DialFails \/ Dial \/ RegisterFails \/ Register \/ Wait

WriterNext ==
    WriterTake \/ WriterStop \/ WriterEncode \/ WriterEncodeFails \/ WriterClose \/ WriterReturn

ReaderNext ==
    \/ ReaderDecode \/ ReaderFails \/ ReaderPing \/ ReaderCommand \/ ReaderCancel
    \/ ReaderCloseKeepalive \/ ReaderCloseCmd \/ ReaderReturn

EnvNext == OwnerTake \/ OwnerPut \/ OwnerClose \/ Cancel \/ Lose

Next == ProcessNext \/ WriterNext \/ ReaderNext \/ EnvNext \/ Returned

Spec == Init /\ [][Next]_vars

(* Fairness.  Goroutines that can run do.  The peer reads or is lost, so   *)
(* Encode ends.  A select takes a case that is ready again and again, and  *)
(* the decoder's buffer is finite, so a failed connection is noticed (SF). *)
(* The owner takes the commands it is given.                               *)
Fairness ==
    /\ WF_vars(ProcessNext)
    /\ SF_vars(WriterTake) /\ SF_vars(WriterStop)
    /\ WF_vars(WriterEncode \/ WriterEncodeFails) /\ WF_vars(WriterClose \/ WriterReturn)
    /\ SF_vars(ReaderFails) /\ SF_vars(ReaderPing)
    /\ WF_vars(ReaderCommand \/ ReaderCancel \/ ReaderCloseKeepalive
               \/ ReaderCloseCmd \/ ReaderReturn)
    /\ WF_vars(OwnerTake)

FairSpec == Spec /\ Fairness

-----------------------------------------------------------------------------
(* Properties.                                                             *)

\* The contract's phase of this stream.
Phase == CASE cpc \in {"dial", "register"} -> "new"
           [] cpc = "wait" -> "stream"
           [] OTHER -> "over"

Contract == INSTANCE StreamContract WITH phase <- Phase, misuse <- "none"

\* The channels are used as Controller expects: in particular cmdCh is closed
\* once, after the last command, and before ProcessNewStream returns.
KeepsContract == Contract!Spec

\* A stream that was ended on this side, by closing msgCh or by the context,
\* is not reported as an error: closing the connection under the reader is
\* recognised by checkNetworkReadErr, whichever goroutine returns first.
LocalEndIsClean == cpc = "done" /\ result = "error" => lost \/ conn = "none"

\* "handles message stream until connection lost or msgCh closed"
\* (client.go:124): then, or when the context is done, the stream ends.
StreamEnds == (cpc = "wait" /\ (lost \/ msgClosed \/ ctxDone)) ~> (cpc = "done")

\* A message in msgCh is taken while the stream lasts, however many PINGs the
\* peer sends.
MessagesTaken == (cpc = "wait" /\ msgCh = 1) ~> (msgCh = 0 \/ cpc = "done")

=============================================================================
