-------------------------- MODULE ExtensionSession --------------------------
(***************************************************************************)
(* One extension connection as the server sees it: the goroutines that     *)
(* ExtensionManager.HandleStream starts (server/extension.go), the sendCmd *)
(* calls that run beside them, and the msgWaitValue each call waits on     *)
(* (server/extension_util.go).                                             *)
(*                                                                         *)
(*   writer    keepaliveCh, cmdWriteCh -> stream                           *)
(*   timer     timeout queue -> keepaliveCh, expiry of pending calls       *)
(*   receiver  stream -> the pending call with the message's key, or the   *)
(*             out-of-band handler                                         *)
(*   handler   the user's ExtensionHandleFunc                              *)
(*                                                                         *)
(* A call of sendCmd is identified with the msgWaitValue it creates.  A    *)
(* command and a message are represented by their msgWaitKey, and a channel *)
(* of capacity one by its content.                                         *)
(***************************************************************************)
EXTENDS Naturals

CONSTANTS
    Calls,      \* the calls of ExtensionContext.SendCmd, from any goroutine
    Posts,      \* those that may be made with waitForResponse = false
    Keys,       \* the pairs (id, seq) of commands, (id, ack) of messages
    KeyOf,      \* the key of the command each call sends
    Keepalive,  \* the keepalive entry of the timeout queue (its string key)
    NoCall,     \* no msgWaitValue / no command in a channel
    NoKey,      \* no message
    Ends,       \* what may end the session in this instance
    MaxPerKey   \* bound: how many messages the peer sends for one key

ASSUME SessionAssumption ==
    /\ Posts \subseteq Calls
    /\ KeyOf \in [Calls -> Keys]
    /\ Keepalive \notin Calls
    /\ NoCall \notin Calls
    /\ NoKey \notin Keys
    /\ Ends \subseteq {"handler", "close", "parent", "peer", "encode"}
    /\ MaxPerKey \in Nat

VARIABLES
    pc,          \* where each call of sendCmd is
    msgWait,     \* the sync.Map from keys to msgWaitValues
    msgCh,       \* msgWaitValue.msgCh, capacity 1
    closed,      \* msgWaitValue.closed
    working,     \* msgWaitValue.working, the spin lock
    cmdWriteCh,  \* capacity 1
    keepaliveCh, \* capacity 1: the number of pings queued
    tq,          \* entries of the timeout queue; a call stands for its key
    wpc,         \* the writer goroutine
    tpc, tkey, tval, draining, todo, \* the timer goroutine
    rpc, rmsg, rval,                 \* the receiver goroutine
    hpc,         \* the handler goroutine; "closed" after ExtensionContext.Close
    ctx,         \* the errgroup's context: live, or cancelled by whom
    groupErr,    \* the error errgroup keeps: the first one returned
    peerSent     \* how many messages the peer has sent for each key

waitVars   == <<msgCh, closed, working>>
timerVars  == <<tpc, tkey, tval, draining, todo>>
recvVars   == <<rpc, rmsg, rval, peerSent>>
groupVars  == <<ctx, groupErr>>
vars == <<pc, waitVars, timerVars, recvVars, groupVars, msgWait, cmdWriteCh,
          keepaliveCh, tq, wpc, hpc>>

CallStates  == {"idle", "arm", "send", "wait", "remove", "close", "delete", "post", "done"}
TimerStates == {"start", "select", "load", "close", "delete", "ping", "range",
                "return", "exit"}
\* "keepalive" is the io.ErrUnexpectedEOF of a closed keepaliveCh, "failure"
\* any error of Encode or Decode.
GroupErrors == {"nil", "EOF", "keepalive", "failure"}

TypeOK ==
    /\ pc \in [Calls -> CallStates]
    /\ msgWait \in [Keys -> Calls \cup {NoCall}]
    /\ msgCh \in [Calls -> Keys \cup {NoKey}]
    /\ closed \in [Calls -> BOOLEAN]
    /\ working \in [Calls -> {0, 1}]
    /\ cmdWriteCh \in Calls \cup {NoCall}
    /\ keepaliveCh \in {0, 1}
    /\ tq \subseteq Calls \cup {Keepalive}
    /\ wpc \in {"select", "ping", "cmd", "exit"}
    /\ tpc \in TimerStates
    /\ tkey \in Keys \cup {NoKey}
    /\ tval \in Calls \cup {NoCall}
    /\ draining \in BOOLEAN
    /\ todo \subseteq Keys
    /\ rpc \in {"decode", "lookup", "oob", "acquire", "send", "exit"}
    /\ rmsg \in Keys \cup {NoKey}
    /\ rval \in Calls \cup {NoCall}
    /\ hpc \in {"running", "closed", "exit"}
    /\ ctx \in {"live", "parent", "group"}
    /\ groupErr \in GroupErrors
    /\ peerSent \in [Keys -> 0..MaxPerKey]

\* All goroutines are started, no command has been sent.
Init ==
    /\ pc = [c \in Calls |-> "idle"]
    /\ msgWait = [k \in Keys |-> NoCall]
    /\ msgCh = [c \in Calls |-> NoKey]
    /\ closed = [c \in Calls |-> FALSE]
    /\ working = [c \in Calls |-> 0]
    /\ cmdWriteCh = NoCall
    /\ keepaliveCh = 0
    /\ tq = {}
    /\ wpc = "select"
    /\ tpc = "start" /\ tkey = NoKey /\ tval = NoCall /\ draining = FALSE /\ todo = {}
    /\ rpc = "decode" /\ rmsg = NoKey /\ rval = NoCall
    /\ hpc = "running"
    /\ ctx = "live" /\ groupErr = "nil"
    /\ peerSent = [k \in Keys |-> 0]

\* A function of the errgroup returns err: the first error is kept and
\* cancels the group's context.
GroupReturn(err) ==
    /\ groupErr' = IF groupErr = "nil" THEN err ELSE groupErr
    /\ ctx' = IF ctx = "live" THEN "group" ELSE ctx

ctxDone == ctx # "live"

-----------------------------------------------------------------------------
(* msgWaitValue.  close() takes the spin lock, closes msgCh unless it is   *)
(* closed, and releases the lock; nothing in between blocks, so it is one  *)
(* step that has to wait while the lock is held.                           *)

CloseWithoutLock(v) ==
    /\ closed' = [closed EXCEPT ![v] = TRUE]
    /\ UNCHANGED <<msgCh, working>>

CloseWait(v) ==
    /\ working[v] = 0
    /\ closed' = [closed EXCEPT ![v] = TRUE]
    /\ UNCHANGED <<msgCh, working>>

-----------------------------------------------------------------------------
(* sendCmd.                                                                *)

otherThanCall == <<timerVars, recvVars, groupVars, wpc, hpc, keepaliveCh>>

Goto(c, label) == pc' = [pc EXCEPT ![c] = label]

\* waitForResponse: LoadOrStore of a fresh msgWaitValue.
CallStore(c) ==
    /\ pc[c] = "idle"
    /\ msgWait[KeyOf[c]] = NoCall
    /\ msgWait' = [msgWait EXCEPT ![KeyOf[c]] = c]
    /\ Goto(c, "arm")
    /\ UNCHANGED <<otherThanCall, waitVars, cmdWriteCh, tq>>

\* "cmd sent before, no response yet"; the fresh msgWaitValue is closed.
CallDuplicate(c) ==
    /\ pc[c] = "idle"
    /\ msgWait[KeyOf[c]] # NoCall
    /\ CloseWait(c)
    /\ Goto(c, "done")
    /\ UNCHANGED <<otherThanCall, msgWait, cmdWriteCh, tq>>

CallArm(c) ==
    /\ pc[c] = "arm"
    /\ tq' = tq \cup {c}
    /\ Goto(c, "send")
    /\ UNCHANGED <<otherThanCall, waitVars, msgWait, cmdWriteCh>>

CallSend(c) ==
    /\ pc[c] = "send"
    /\ cmdWriteCh = NoCall
    /\ cmdWriteCh' = c
    /\ Goto(c, "wait")
    /\ UNCHANGED <<otherThanCall, waitVars, msgWait, tq>>

CallReceive(c) ==
    /\ pc[c] = "wait"
    /\ msgCh[c] # NoKey
    /\ msgCh' = [msgCh EXCEPT ![c] = NoKey]
    /\ Goto(c, "remove")
    /\ UNCHANGED <<otherThanCall, closed, working, msgWait, cmdWriteCh, tq>>

CallTimeoutEarly(c) ==
    /\ pc[c] = "wait"
    /\ msgCh[c] = NoKey
    /\ Goto(c, "remove")
    /\ UNCHANGED <<otherThanCall, waitVars, msgWait, cmdWriteCh, tq>>

\* msgCh is closed and empty.
CallTimeout(c) ==
    /\ pc[c] = "wait"
    /\ msgCh[c] = NoKey /\ closed[c]
    /\ Goto(c, "remove")
    /\ UNCHANGED <<otherThanCall, waitVars, msgWait, cmdWriteCh, tq>>

\* ctx.Done() in the select that sends or in the one that waits.
CallCancel(c) ==
    /\ pc[c] \in {"send", "wait"}
    /\ ctxDone
    /\ Goto(c, "remove")
    /\ UNCHANGED <<otherThanCall, waitVars, msgWait, cmdWriteCh, tq>>

CallRemoveNothing(c) ==
    /\ pc[c] = "remove"
    /\ Goto(c, "close")
    /\ UNCHANGED <<otherThanCall, waitVars, msgWait, cmdWriteCh, tq>>

\* The deferred function: tq.Remove(key) takes an entry with this key out of
\* the queue, whoever offered it; then waitV.close() and msgWait.Delete(key).
CallRemove(c) ==
    /\ pc[c] = "remove"
    /\ LET mine == {e \in tq \cap Calls : KeyOf[e] = KeyOf[c]}
       IN  \/ mine = {} /\ tq' = tq
           \/ \E e \in mine : tq' = tq \ {e}
    /\ Goto(c, "close")
    /\ UNCHANGED <<otherThanCall, waitVars, msgWait, cmdWriteCh>>

CallClose(c) ==
    /\ pc[c] = "close"
    /\ CloseWait(c)
    /\ Goto(c, "delete")
    /\ UNCHANGED <<otherThanCall, msgWait, cmdWriteCh, tq>>

CallDelete(c) ==
    /\ pc[c] = "delete"
    /\ msgWait' = [msgWait EXCEPT ![KeyOf[c]] = NoCall]
    /\ Goto(c, "done")
    /\ UNCHANGED <<otherThanCall, waitVars, cmdWriteCh, tq>>

\* waitForResponse is false: the call only queues the command.
CallPost(c) ==
    /\ pc[c] = "idle" /\ c \in Posts
    /\ Goto(c, "post")
    /\ UNCHANGED <<otherThanCall, waitVars, msgWait, cmdWriteCh, tq>>

CallPosted(c) ==
    /\ pc[c] = "post"
    /\ \/ cmdWriteCh = NoCall /\ cmdWriteCh' = c
       \/ ctxDone /\ cmdWriteCh' = cmdWriteCh
    /\ Goto(c, "done")
    /\ UNCHANGED <<otherThanCall, waitVars, msgWait, tq>>

CallSteps(c) ==
    \/ CallArm(c) \/ CallSend(c) \/ CallReceive(c) \/ CallTimeout(c) \/ CallCancel(c)
    \/ CallRemove(c) \/ CallClose(c) \/ CallDelete(c) \/ CallPosted(c)

-----------------------------------------------------------------------------
(* The writer goroutine.  It watches its two channels only, not the        *)
(* context.  Encode blocks while the peer does not read.                   *)

otherThanWriter == <<pc, waitVars, timerVars, recvVars, msgWait, tq, hpc>>

\* The timer goroutine has closed keepaliveCh on its way out.
KeepaliveClosed == tpc \in {"return", "exit"}

WriterTakePing ==
    /\ wpc = "select"
    /\ keepaliveCh = 1
    /\ keepaliveCh' = 0
    /\ wpc' = "ping"
    /\ UNCHANGED <<otherThanWriter, groupVars, cmdWriteCh>>

WriterTakeCmd ==
    /\ wpc = "select"
    /\ cmdWriteCh # NoCall
    /\ cmdWriteCh' = NoCall
    /\ wpc' = "cmd"
    /\ UNCHANGED <<otherThanWriter, groupVars, keepaliveCh>>

WriterKeepaliveUnseen ==
    /\ wpc = "select"
    /\ keepaliveCh = 0 /\ KeepaliveClosed
    /\ wpc' = "ping"
    /\ UNCHANGED <<otherThanWriter, groupVars, cmdWriteCh, keepaliveCh>>

WriterKeepaliveClosed ==
    /\ wpc = "select"
    /\ keepaliveCh = 0 /\ KeepaliveClosed
    /\ GroupReturn("keepalive")
    /\ wpc' = "exit"
    /\ UNCHANGED <<otherThanWriter, cmdWriteCh, keepaliveCh>>

WriterEncode ==
    /\ wpc \in {"ping", "cmd"}
    /\ wpc' = "select"
    /\ UNCHANGED <<otherThanWriter, groupVars, cmdWriteCh, keepaliveCh>>

\* groupErr names the failure by where it came from: Encode of a PING and of a
\* command fail with the connection, although the former returns the
\* io.ErrUnexpectedEOF of a closed keepaliveCh.
WriterEncodeFails ==
    /\ "encode" \in Ends
    /\ wpc \in {"ping", "cmd"}
    /\ GroupReturn("failure")
    /\ wpc' = "exit"
    /\ UNCHANGED <<otherThanWriter, cmdWriteCh, keepaliveCh>>

-----------------------------------------------------------------------------
(* The timer goroutine.                                                    *)

otherThanTimer == <<pc, recvVars, wpc, hpc, cmdWriteCh>>

TimerStart ==
    /\ tpc = "start"
    /\ tq' = tq \cup {Keepalive}
    /\ tpc' = "select"
    /\ UNCHANGED <<otherThanTimer, groupVars, waitVars, msgWait, keepaliveCh,
                   tkey, tval, draining, todo>>

\* The deadline of e has passed and the queue hands it over.
TimerTake(e) ==
    /\ tpc = "select"
    /\ e \in tq
    /\ tq' = tq \ {e}
    /\ \/ /\ e = Keepalive
          /\ tpc' = "ping"
          /\ UNCHANGED tkey
       \/ /\ e # Keepalive
          /\ tpc' = "load" /\ tkey' = KeyOf[e]
    /\ UNCHANGED <<otherThanTimer, groupVars, waitVars, msgWait, keepaliveCh,
                   tval, draining, todo>>

\* v, _ := msgWait.Load(td.Key)
TimerLoad ==
    /\ tpc = "load"
    /\ tval' = msgWait[tkey]
    /\ tpc' = IF tval' = NoCall THEN "delete" ELSE "close"
    /\ UNCHANGED <<otherThanTimer, groupVars, waitVars, msgWait, keepaliveCh, tq,
                   tkey, draining, todo>>

TimerSkipClose ==
    /\ tpc = "close"
    /\ tpc' = "delete"
    /\ UNCHANGED <<otherThanTimer, groupVars, waitVars, msgWait, keepaliveCh, tq,
                   tkey, tval, draining, todo>>

\* closeMsgWait(v)
TimerClose ==
    /\ tpc = "close"
    /\ CloseWait(tval)
    /\ tpc' = "delete"
    /\ UNCHANGED <<otherThanTimer, groupVars, msgWait, keepaliveCh, tq,
                   tkey, tval, draining, todo>>

\* msgWait.Delete(key), after a timeout and for each key of the final Range.
TimerDelete ==
    /\ tpc = "delete"
    /\ msgWait' = [msgWait EXCEPT ![tkey] = NoCall]
    /\ tpc' = IF draining THEN "range" ELSE "select"
    /\ tkey' = NoKey /\ tval' = NoCall
    /\ UNCHANGED <<otherThanTimer, groupVars, waitVars, keepaliveCh, tq,
                   draining, todo>>

TimerPingOnce ==
    /\ tpc = "ping"
    /\ keepaliveCh = 0
    /\ keepaliveCh' = 1
    /\ tpc' = "select"
    /\ UNCHANGED <<otherThanTimer, groupVars, waitVars, msgWait, tq,
                   tkey, tval, draining, todo>>

\* Queue a ping for the writer and arm the keepalive again.
TimerPing ==
    /\ tpc = "ping"
    /\ keepaliveCh = 0
    /\ keepaliveCh' = 1
    /\ tq' = tq \cup {Keepalive}
    /\ tpc' = "select"
    /\ UNCHANGED <<otherThanTimer, groupVars, waitVars, msgWait,
                   tkey, tval, draining, todo>>

TimerPingCancel ==
    /\ tpc = "ping"
    /\ ctxDone
    /\ tpc' = "select"
    /\ UNCHANGED <<otherThanTimer, groupVars, waitVars, msgWait, keepaliveCh, tq,
                   tkey, tval, draining, todo>>

TimerCancelAnytime ==
    /\ tpc = "select"
    /\ draining' = TRUE
    /\ todo' = {k \in Keys : msgWait[k] # NoCall}
    /\ tpc' = "range"
    /\ UNCHANGED <<otherThanTimer, groupVars, waitVars, msgWait, keepaliveCh, tq,
                   tkey, tval>>

\* ctx.Done(): Range visits the keys that are in the map now, each once.
TimerCancel ==
    /\ tpc = "select"
    /\ ctxDone
    /\ draining' = TRUE
    /\ todo' = {k \in Keys : msgWait[k] # NoCall}
    /\ tpc' = "range"
    /\ UNCHANGED <<otherThanTimer, groupVars, waitVars, msgWait, keepaliveCh, tq,
                   tkey, tval>>

\* The next key of Range, with the value it has now; a key that is gone is
\* skipped.
TimerRange(k) ==
    /\ tpc = "range"
    /\ k \in todo
    /\ todo' = todo \ {k}
    /\ \/ /\ msgWait[k] = NoCall
          /\ UNCHANGED <<tpc, tkey, tval>>
       \/ /\ msgWait[k] # NoCall
          /\ tpc' = "close" /\ tkey' = k /\ tval' = msgWait[k]
    /\ UNCHANGED <<otherThanTimer, groupVars, waitVars, msgWait, keepaliveCh, tq,
                   draining>>

\* The deferred close(keepaliveCh) and tq.Clear() ...
TimerExit ==
    /\ tpc = "range"
    /\ todo = {}
    /\ tq' = {}
    /\ tpc' = "return"
    /\ UNCHANGED <<otherThanTimer, groupVars, waitVars, msgWait, keepaliveCh,
                   tkey, tval, draining, todo>>

\* ... run before errgroup sees the error.
TimerReturn ==
    /\ tpc = "return"
    /\ GroupReturn("EOF")
    /\ tpc' = "exit"
    /\ UNCHANGED <<otherThanTimer, waitVars, msgWait, keepaliveCh, tq,
                   tkey, tval, draining, todo>>

-----------------------------------------------------------------------------
(* The receiver goroutine.                                                 *)

otherThanReceiver == <<pc, timerVars, msgWait, cmdWriteCh, keepaliveCh, tq,
                       wpc, hpc>>

\* Decode returns a message with key k; the context is looked at before the
\* message is.
RecvDecode(k) ==
    /\ rpc = "decode"
    /\ peerSent[k] < MaxPerKey
    /\ peerSent' = [peerSent EXCEPT ![k] = @ + 1]
    /\ \/ ~ctxDone /\ rpc' = "lookup" /\ rmsg' = k /\ UNCHANGED groupVars
       \/ ctxDone /\ rpc' = "exit" /\ UNCHANGED rmsg /\ GroupReturn("EOF")
    /\ UNCHANGED <<otherThanReceiver, waitVars, rval>>

\* The peer closed the stream, or Decode failed.
RecvFails ==
    /\ "peer" \in Ends \/ ctxDone
    /\ rpc = "decode"
    /\ \E err \in {"EOF", "failure"} : GroupReturn(err)
    /\ rpc' = "exit"
    /\ UNCHANGED <<otherThanReceiver, waitVars, rmsg, rval, peerSent>>

RecvLookupAny ==
    /\ rpc = "lookup"
    /\ \E k \in Keys : rval' = msgWait[k]
    /\ rpc' = IF rval' = NoCall THEN "oob" ELSE "acquire"
    /\ UNCHANGED <<otherThanReceiver, groupVars, waitVars, rmsg, peerSent>>

\* onMsgRecv: msgWait.Load(key)
RecvLookup ==
    /\ rpc = "lookup"
    /\ rval' = msgWait[rmsg]
    /\ rpc' = IF rval' = NoCall THEN "oob" ELSE "acquire"
    /\ UNCHANGED <<otherThanReceiver, groupVars, waitVars, rmsg, peerSent>>

\* The user's out-of-band handler returns.
RecvOutOfBand ==
    /\ rpc = "oob"
    /\ rpc' = "decode" /\ rmsg' = NoKey
    /\ UNCHANGED <<otherThanReceiver, groupVars, waitVars, rval, peerSent>>

\* msgWaitValue.send takes the spin lock; on a closed value it returns.
RecvAcquire ==
    /\ rpc = "acquire"
    /\ working[rval] = 0
    /\ \/ /\ closed[rval]
          /\ rpc' = "decode" /\ rmsg' = NoKey /\ rval' = NoCall
          /\ UNCHANGED working
       \/ /\ ~closed[rval]
          /\ working' = [working EXCEPT ![rval] = 1]
          /\ rpc' = "send"
          /\ UNCHANGED <<rmsg, rval>>
    /\ UNCHANGED <<otherThanReceiver, groupVars, msgCh, closed, peerSent>>

\* The select of send, under the lock: it blocks while msgCh is full.
RecvSend ==
    /\ rpc = "send"
    /\ \/ msgCh[rval] = NoKey /\ msgCh' = [msgCh EXCEPT ![rval] = rmsg]
       \/ ctxDone /\ UNCHANGED msgCh
    /\ working' = [working EXCEPT ![rval] = 0]
    /\ rpc' = "decode" /\ rmsg' = NoKey /\ rval' = NoCall
    /\ UNCHANGED <<otherThanReceiver, groupVars, closed, peerSent>>

-----------------------------------------------------------------------------
(* The handler goroutine, the contexts and the end of HandleStream.        *)

otherThanGroup == <<pc, waitVars, timerVars, recvVars, msgWait, cmdWriteCh,
                    keepaliveCh, tq, wpc>>

HandlerReturnNil ==
    /\ hpc # "exit"
    /\ "handler" \in Ends \/ hpc = "closed" \/ ctxDone
    /\ hpc' = "exit"
    /\ ctx' = IF ctx = "live" THEN "group" ELSE ctx
    /\ UNCHANGED <<otherThanGroup, groupErr>>

HandlerReturn ==
    /\ hpc # "exit"
    /\ "handler" \in Ends \/ hpc = "closed" \/ ctxDone
    /\ hpc' = "exit"
    /\ GroupReturn("EOF")
    /\ UNCHANGED otherThanGroup

\* ExtensionContext.Close cancels the context given to the handler, a child
\* of the group's context, and nothing else.
ExtensionClose ==
    /\ "close" \in Ends
    /\ hpc = "running"
    /\ hpc' = "closed"
    /\ UNCHANGED <<otherThanGroup, groupVars>>

ParentCancel ==
    /\ "parent" \in Ends
    /\ ctx = "live"
    /\ ctx' = "parent"
    /\ UNCHANGED <<otherThanGroup, hpc, groupErr>>

\* wg.Wait() has returned: the name is unregistered and the connection closed.
Returned == wpc = "exit" /\ tpc = "exit" /\ rpc = "exit" /\ hpc = "exit"

\* Nothing is left to do: the stream is over and no call is in progress.
Terminated ==
    /\ Returned
    /\ \A c \in Calls : pc[c] \in {"idle", "done"}
    /\ UNCHANGED vars

-----------------------------------------------------------------------------
CallNext == \E c \in Calls : CallStore(c) \/ CallDuplicate(c) \/ CallPost(c) \/ CallSteps(c)

WriterNext ==
    \/ WriterTakePing \/ WriterTakeCmd \/ WriterKeepaliveClosed
    \/ WriterEncode \/ WriterEncodeFails

TimerNext ==
    \/ TimerStart \/ TimerLoad \/ TimerClose \/ TimerDelete \/ TimerPing
    \/ TimerPingCancel \/ TimerCancel \/ TimerExit \/ TimerReturn
    \/ \E e \in tq : TimerTake(e)
    \/ \E k \in Keys : TimerRange(k)

ReceiverNext ==
    \/ \E k \in Keys : RecvDecode(k)
    \/ RecvFails \/ RecvLookup \/ RecvOutOfBand \/ RecvAcquire \/ RecvSend

GroupNext == HandlerReturn \/ ExtensionClose \/ ParentCancel

Next == CallNext \/ WriterNext \/ TimerNext \/ ReceiverNext \/ GroupNext \/ Terminated

Spec == Init /\ [][Next]_vars

-----------------------------------------------------------------------------
(* Fairness.  A goroutine that can run does (WF).  Where several goroutines *)
(* compete for a channel, Go queues them, and a select with several ready   *)
(* cases picks at random (SF).  The timeout queue delivers its entries by   *)
(* deadline, so none is passed over for ever (SF).  A handler returns once  *)
(* its context is done, as those of examples/server_example_test.go do.     *)

GoroutineFairness ==
    /\ \A c \in Calls : WF_vars(CallSteps(c)) /\ SF_vars(CallSend(c)) /\ SF_vars(CallPosted(c))
    /\ SF_vars(WriterTakeCmd) /\ WF_vars(WriterTakePing \/ WriterKeepaliveClosed)
    /\ WF_vars(\/ TimerStart \/ TimerLoad \/ TimerClose \/ TimerDelete \/ TimerPing
               \/ TimerPingCancel \/ TimerExit \/ TimerReturn
               \/ \E k \in Keys : TimerRange(k))
    /\ SF_vars(TimerCancel)
    /\ \A e \in Calls \cup {Keepalive} : SF_vars(TimerTake(e))
    /\ WF_vars(RecvLookup \/ RecvOutOfBand \/ RecvAcquire \/ RecvSend)
    /\ WF_vars((ctxDone \/ hpc = "closed") /\ HandlerReturn)

\* The peer keeps reading, or the connection breaks: Encode ends.
EncodeFairness == WF_vars(WriterEncode \/ WriterEncodeFails)

\* Sessions with a peer that may stop reading, and with one that does not.
StallSpec == Spec /\ GoroutineFairness
FairSpec  == StallSpec /\ EncodeFairness

-----------------------------------------------------------------------------
(* Properties.                                                             *)

\* The hypothesis under which calls do not interfere: no two calls of the
\* session use the same (id, seq).
UniqueKeys == \A c, d \in Calls : KeyOf[c] = KeyOf[d] => c = d

\* A weaker one: a key may be used again, by a call that begins after the one
\* before has returned and the timer goroutine is not handling a timeout of it.
InUse(c) == pc[c] \in {"arm", "send", "wait", "remove", "close", "delete"}

KeysTakeTurns ==
    \A c \in Calls :
        /\ \A d \in Calls : InUse(c) /\ InUse(d) /\ KeyOf[c] = KeyOf[d] => c = d
        /\ pc[c] = "arm" /\ ~ctxDone =>
              ~(tpc \in {"load", "close", "delete"} /\ tkey = KeyOf[c])

\* A call that waits for its response can still be woken: its context is
\* done, its value is closed, or the receiver can find it in msgWait and its
\* timeout is in the queue or being handled ("timeout queue for slow
\* responses and keepalive", server/extension.go:144).
NoStrandedWaiter ==
    \A c \in Calls : pc[c] \in {"send", "wait"} =>
        \/ ctxDone
        \/ closed[c]
        \/ /\ msgWait[KeyOf[c]] = c
           /\ c \in tq \/ (tpc \in {"load", "close"} /\ tkey = KeyOf[c])

\* A call is made to time out only by its own timeout or by the end of the
\* session: its msgWaitValue is not closed while its entry is in the queue.
NoSpuriousTimeout ==
    \A c \in Calls : pc[c] \in {"arm", "send", "wait"} /\ closed[c] =>
        ctxDone \/ (pc[c] # "arm" /\ c \notin tq)

\* A call that has returned leaves nothing behind: its deferred function has
\* taken its entry out of msgWait and out of the timeout queue.
NoLeftovers ==
    \A c \in Calls : pc[c] = "done" => c \notin tq /\ msgWait[KeyOf[c]] # c

\* The receiver, inside msgWaitValue.send, never sends on a closed msgCh (a
\* panic): the spin lock keeps every close() out until send is over.
NoSendOnClosed == rpc = "send" => ~closed[rval]

\* A second message for a key never makes the receiver wait for ever with the
\* spin lock taken: when msgCh is full and send has to wait for room
\* (server/extension_util.go:64), the call has yet to take its answer, and is
\* not already in its cleanup, where close() needs the lock.  (A third message
\* for the key can find it there.)
FullChannelIsRead ==
    rpc = "send" /\ msgCh[rval] # NoKey /\ peerSent[rmsg] <= 2 /\ ~ctxDone =>
        pc[rval] \in {"arm", "send", "wait"}

\* A message waiting in the channel of a call is an answer to its command.
RoutedByKey == \A c \in Calls : msgCh[c] \in {NoKey, KeyOf[c]}

\* The io.ErrUnexpectedEOF that a closed keepaliveCh causes (a PING that could
\* not be sent is a failure of the connection) becomes the result of
\* HandleStream only if the manager's own context was cancelled: when the
\* handler returns or the peer hangs up, that end is reported, although the
\* writer goroutine always ends with this error.
CleanExit == groupErr = "keepalive" => ctx = "parent"

\* The out-of-band handler gets a message only "without previous command
\* request" (server/extension.go:71): no call has used its key.
OutOfBandIsUnrequested ==
    rpc = "oob" => \A c \in Calls : KeyOf[c] = rmsg => pc[c] = "idle"

\* Every call of sendCmd returns.
CallReturns == \A c \in Calls : (pc[c] # "idle") ~> (pc[c] = "done")

\* A call whose command has been queued stops waiting, by an answer or by the
\* timeout "for slow responses" (server/extension.go:144).
WaitEnds == \A c \in Calls : (pc[c] = "wait") ~> (pc[c] # "wait")

\* When the group's context is done, the timer goroutine, then the writer,
\* and every call that is in progress come to an end.
ShutdownCompletes ==
    ctxDone ~> /\ tpc = "exit" /\ wpc = "exit"
               /\ \A c \in Calls : pc[c] \in {"idle", "done"}

\* While the session lasts, the peer is pinged again and again.
KeepaliveContinues == []<>(wpc = "ping" \/ ctxDone)

\* "Close extension connection" (server/extension.go:61): after
\* ExtensionContext.Close the stream is given up, HandleStream returns.
CloseEndsStream == (hpc = "closed") ~> Returned

=============================================================================
