----------------------------- MODULE Controller -----------------------------
(***************************************************************************)
(* The extension's side of the connection: Controller (controller.go), the *)
(* channel bundles it hands out (channel_bundle.go), the message send      *)
(* function a handler keeps (extutil/handler.go), and the loop             *)
(*      for { client.ProcessNewStream(ctrl.RefreshChannels()) }            *)
(* of examples/client_example_test.go that drives them.                    *)
(*                                                                         *)
(*   loop     RefreshChannels, then the stream of client.go as promised by *)
(*            StreamContract: commands go in, messages come out, and cmdCh *)
(*            is closed when a connection that was established ends        *)
(*   session  handleSession, the goroutine that serves one bundle after    *)
(*            the other                                                    *)
(*   workers  goroutines of the handler that send messages on their own    *)
(*                                                                         *)
(* Bundles are numbered in the order they are made; 0 stands for nil.  A   *)
(* channel of capacity one is the number of values it holds.  A Go panic   *)
(* ends the process.                                                       *)
(***************************************************************************)
EXTENDS Naturals

CONSTANTS
    Workers,     \* goroutines started by HandleCmd for asynchronous commands
    FaultSets,   \* the combinations of faults and requests to consider
    MaxRefresh   \* bound: how many bundles are made

ASSUME ControllerAssumption ==
    /\ FaultSets \subseteq SUBSET {"dial", "marshal", "cancel", "close"}
    /\ MaxRefresh \in Nat

Bundles == 1..MaxRefresh
Optional == 0..MaxRefresh

VARIABLES
    faults,      \* what may go wrong, or be asked for, in this behaviour
    made,        \* the number of bundles made so far
    cmdCh, msgCh,                   \* the buffers of the bundles' channels
    cmdClosed, cbClosed, msgClosed, \* bundles whose cmdCh, closed, msgCh is closed
    chRefreshed, \* capacity 1: the bundle in it, or 0
    currentCB,
    ctlClosed,   \* Controller.closed; chRefreshed is closed with it
    mu,          \* the mutex is held by RefreshChannels
    lpc, lcb,    \* the loop, and the bundle of its stream
    spc, scb,    \* the session goroutine, and the bundle it serves
    sendFn,      \* BaseHandler.msgSendFuncStore: the bundle its function uses
    wpc, wfn,    \* the workers, and the function each has loaded
    ctxDone,
    panic        \* what panicked, a send or a close, and on which bundle

NoPanic == <<"none", 0>>
Panics == {NoPanic} \cup ({"send", "close"} \X Bundles)

chanVars == <<cmdCh, msgCh, cmdClosed, cbClosed, msgClosed>>
ctlVars == <<made, chRefreshed, currentCB, ctlClosed, mu>>
vars == <<faults, chanVars, ctlVars, lpc, lcb, spc, scb, sendFn, wpc, wfn, ctxDone, panic>>

TypeOK ==
    /\ faults \in FaultSets
    /\ made \in Optional
    /\ cmdCh \in [Bundles -> {0, 1}] /\ msgCh \in [Bundles -> {0, 1}]
    /\ cmdClosed \subseteq Bundles /\ cbClosed \subseteq Bundles
    /\ msgClosed \subseteq Bundles
    /\ chRefreshed \in Optional /\ currentCB \in Optional
    /\ ctlClosed \in BOOLEAN /\ mu \in BOOLEAN
    /\ lpc \in {"idle", "offer", "closeOld", "closeOldMsg", "dial", "stream", "ending"}
    /\ lcb \in Optional
    /\ spc \in {"select", "register", "range", "handle", "reply", "fail", "failMsg", "exit"}
    /\ scb \in Optional
    /\ sendFn \in Optional
    /\ wpc \in [Workers -> {"idle", "ready", "send"}]
    /\ wfn \in [Workers -> Optional]
    /\ ctxDone \in BOOLEAN
    /\ panic \in Panics

Init ==
    /\ faults \in FaultSets
    /\ made = 0
    /\ cmdCh = [b \in Bundles |-> 0] /\ msgCh = [b \in Bundles |-> 0]
    /\ cmdClosed = {} /\ cbClosed = {} /\ msgClosed = {}
    /\ chRefreshed = 0 /\ currentCB = 0
    /\ ctlClosed = FALSE /\ mu = FALSE
    /\ lpc = "idle" /\ lcb = 0
    /\ spc = "select" /\ scb = 0
    /\ sendFn = 0
    /\ wpc = [w \in Workers |-> "idle"] /\ wfn = [w \in Workers |-> 0]
    /\ ctxDone = FALSE
    /\ panic = NoPanic

-----------------------------------------------------------------------------
(* RefreshChannels and Close.                                              *)

otherThanLoop == <<faults, spc, scb, sendFn, wpc, wfn, ctxDone>>

\* The lock is taken, a bundle is made.  A closed controller closes it and
\* returns it.
Refresh ==
    /\ lpc = "idle" /\ ~mu
    /\ made < MaxRefresh
    /\ made' = made + 1 /\ lcb' = made + 1
    /\ \/ /\ ~ctlClosed
          /\ mu' = TRUE /\ lpc' = "offer"
          /\ UNCHANGED <<cbClosed, msgClosed>>
       \/ /\ ctlClosed
          /\ cbClosed' = cbClosed \cup {lcb'} /\ msgClosed' = msgClosed \cup {lcb'}
          /\ lpc' = "dial"
          /\ UNCHANGED mu
    /\ UNCHANGED <<otherThanLoop, cmdCh, msgCh, cmdClosed, chRefreshed, currentCB,
                   ctlClosed, panic>>

\* ctx.Done(): nil channels are returned.
RefreshCancelled ==
    /\ lpc = "offer"
    /\ ctxDone
    /\ lcb' = 0 /\ mu' = FALSE /\ lpc' = "dial"
    /\ UNCHANGED <<otherThanLoop, chanVars, made, chRefreshed, currentCB, ctlClosed, panic>>

RefreshOfferSwap ==
    /\ lpc = "offer"
    /\ chRefreshed = 0
    /\ chRefreshed' = lcb
    /\ currentCB' = lcb
    /\ \/ currentCB # 0 /\ lpc' = "closeOld" /\ UNCHANGED mu
       \/ currentCB = 0 /\ mu' = FALSE /\ lpc' = "dial"
    /\ UNCHANGED <<otherThanLoop, chanVars, made, lcb, ctlClosed, panic>>

\* c.chRefreshed <- cb blocks while the session has not taken the last one.
RefreshOffer ==
    /\ lpc = "offer"
    /\ chRefreshed = 0
    /\ chRefreshed' = lcb
    /\ \/ /\ currentCB # 0
          /\ lpc' = "closeOld"
          /\ UNCHANGED <<currentCB, mu>>
       \/ /\ currentCB = 0
          /\ currentCB' = lcb /\ mu' = FALSE /\ lpc' = "dial"
    /\ UNCHANGED <<otherThanLoop, chanVars, made, lcb, ctlClosed, panic>>

\* channelBundle.Close of the old bundle: close(cb.closed) ...
RefreshCloseOld ==
    /\ lpc = "closeOld"
    /\ \/ /\ currentCB \in cbClosed
          /\ panic' = <<"close", currentCB>>
          /\ UNCHANGED <<cbClosed, lpc>>
       \/ /\ currentCB \notin cbClosed
          /\ cbClosed' = cbClosed \cup {currentCB} /\ lpc' = "closeOldMsg"
          /\ UNCHANGED panic
    /\ UNCHANGED <<otherThanLoop, ctlVars, cmdCh, msgCh, cmdClosed, msgClosed, lcb>>

RefreshKeepOld ==
    /\ lpc = "closeOldMsg"
    /\ msgClosed' = msgClosed \cup {currentCB}
    /\ mu' = FALSE /\ lpc' = "dial"
    /\ UNCHANGED <<otherThanLoop, made, chRefreshed, currentCB, ctlClosed, cmdCh, msgCh,
                   cmdClosed, cbClosed, lcb, panic>>

\* ... and close(cb.msgCh).  The new bundle becomes the current one.
RefreshCloseOldMsg ==
    /\ lpc = "closeOldMsg"
    /\ \/ /\ currentCB \in msgClosed
          /\ panic' = <<"close", currentCB>>
          /\ UNCHANGED <<msgClosed, currentCB, mu, lpc>>
       \/ /\ currentCB \notin msgClosed
          /\ msgClosed' = msgClosed \cup {currentCB}
          /\ currentCB' = lcb /\ mu' = FALSE /\ lpc' = "dial"
          /\ UNCHANGED panic
    /\ UNCHANGED <<otherThanLoop, made, chRefreshed, ctlClosed, cmdCh, msgCh, cmdClosed,
                   cbClosed, lcb>>

CloseUnlocked ==
    /\ "close" \in faults
    /\ ~ctlClosed
    /\ ctlClosed' = TRUE
    /\ UNCHANGED <<otherThanLoop, chanVars, made, chRefreshed, currentCB, mu, lpc, lcb, panic>>

\* Controller.Close, from any goroutine.
Close ==
    /\ "close" \in faults
    /\ ~mu /\ ~ctlClosed
    /\ ctlClosed' = TRUE
    /\ UNCHANGED <<otherThanLoop, chanVars, made, chRefreshed, currentCB, mu, lpc, lcb, panic>>

-----------------------------------------------------------------------------
(* Client.ProcessNewStream, from its channels.                             *)

\* Dialling or writing the register message fails: cmdCh is left as it is.
\* With a cancelled context dialling always fails.
StreamFails ==
    /\ lpc = "dial"
    /\ "dial" \in faults \/ ctxDone
    /\ lpc' = "idle"
    /\ UNCHANGED <<otherThanLoop, ctlVars, chanVars, lcb, panic>>

StreamStarts ==
    /\ lpc = "dial" /\ ~ctxDone
    /\ lpc' = "stream"
    /\ UNCHANGED <<otherThanLoop, ctlVars, chanVars, lcb, panic>>

\* The reader passes a command on.
StreamCommand ==
    /\ lpc = "stream" /\ cmdCh[lcb] = 0
    /\ cmdCh' = [cmdCh EXCEPT ![lcb] = 1]
    /\ UNCHANGED <<otherThanLoop, ctlVars, msgCh, cmdClosed, cbClosed, msgClosed, lpc, lcb,
                   panic>>

\* The writer takes a message to the connection; it may still do so when the
\* reader has ended.
StreamMessage ==
    /\ lpc \in {"stream", "ending"} /\ msgCh[lcb] = 1
    /\ msgCh' = [msgCh EXCEPT ![lcb] = 0]
    /\ UNCHANGED <<otherThanLoop, ctlVars, cmdCh, cmdClosed, cbClosed, msgClosed, lpc, lcb,
                   panic>>

StreamLeavesOpen ==
    /\ lpc = "stream"
    /\ lpc' = "ending"
    /\ UNCHANGED <<otherThanLoop, ctlVars, chanVars, lcb, panic>>

\* The connection is lost, msgCh is closed or the context is done; the
\* reader closes cmdCh on its way out ...
StreamCloses ==
    /\ lpc = "stream"
    /\ cmdClosed' = cmdClosed \cup {lcb} /\ lpc' = "ending"
    /\ UNCHANGED <<otherThanLoop, ctlVars, cmdCh, msgCh, cbClosed, msgClosed, lcb, panic>>

\* ... and ProcessNewStream returns.
StreamReturns ==
    /\ lpc = "ending"
    /\ lpc' = "idle"
    /\ UNCHANGED <<otherThanLoop, ctlVars, chanVars, lcb, panic>>

-----------------------------------------------------------------------------
(* sendMsg of a session: a select over cb.closed, cb.msgCh and the context. *)
(* All ready cases compete; a send on a closed channel is one that is      *)
(* ready, and panics.                                                      *)

SendMsg(b) ==
    \/ b \in cbClosed /\ UNCHANGED <<msgCh, panic>>
    \/ b \notin msgClosed /\ msgCh[b] = 0 /\ msgCh' = [msgCh EXCEPT ![b] = 1]
       /\ UNCHANGED panic
    \/ b \in msgClosed /\ panic' = <<"send", b>> /\ UNCHANGED msgCh

-----------------------------------------------------------------------------
(* handleSession.                                                          *)

otherThanSession == <<faults, ctlVars, cmdClosed, lpc, lcb, wfn, ctxDone>>

SessionTake ==
    /\ spc = "select"
    /\ chRefreshed # 0
    /\ scb' = chRefreshed /\ chRefreshed' = 0
    /\ spc' = "register"
    /\ UNCHANGED <<chanVars, faults, made, currentCB, ctlClosed, mu, lpc, lcb, sendFn, wpc,
                   wfn, ctxDone, panic>>

SessionExit ==
    /\ spc = "select"
    /\ ctxDone \/ (ctlClosed /\ chRefreshed = 0)
    /\ spc' = "exit"
    /\ UNCHANGED <<otherThanSession, cmdCh, msgCh, cbClosed, msgClosed, scb, sendFn, wpc, panic>>

\* handler.SetMsgSendFunc(sendMsg)
SessionRegister ==
    /\ spc = "register"
    /\ sendFn' = scb
    /\ spc' = "range"
    /\ UNCHANGED <<otherThanSession, cmdCh, msgCh, cbClosed, msgClosed, scb, wpc, panic>>

SessionCommand ==
    /\ spc = "range"
    /\ cmdCh[scb] = 1
    /\ cmdCh' = [cmdCh EXCEPT ![scb] = 0]
    /\ spc' = "handle"
    /\ UNCHANGED <<otherThanSession, msgCh, cbClosed, msgClosed, scb, sendFn, wpc, panic>>

SessionEndsUnseen ==
    /\ spc = "range"
    /\ cmdCh[scb] = 0 /\ scb \in cmdClosed
    /\ spc' = "handle"
    /\ UNCHANGED <<otherThanSession, cmdCh, msgCh, cbClosed, msgClosed, scb, sendFn, wpc, panic>>

\* The range over cmdCh is over: it is closed and drained.
SessionEnds ==
    /\ spc = "range"
    /\ cmdCh[scb] = 0 /\ scb \in cmdClosed
    /\ spc' = "select"
    /\ UNCHANGED <<otherThanSession, cmdCh, msgCh, cbClosed, msgClosed, scb, sendFn, wpc, panic>>

\* HandleCmd: a result or an error to send back, a result that cannot be
\* marshalled, or none because a goroutine will send messages later.
SessionHandle ==
    /\ spc = "handle"
    /\ \/ spc' = "reply" /\ UNCHANGED wpc
       \/ "marshal" \in faults /\ spc' = "fail" /\ UNCHANGED wpc
       \/ \E w \in Workers :
             wpc[w] = "idle" /\ wpc' = [wpc EXCEPT ![w] = "ready"] /\ spc' = "range"
    /\ UNCHANGED <<otherThanSession, cmdCh, msgCh, cbClosed, msgClosed, scb, sendFn, panic>>

SessionReply ==
    /\ spc = "reply"
    /\ \/ SendMsg(scb) /\ spc' = "range"
       \/ ctxDone /\ spc' = "fail" /\ UNCHANGED <<msgCh, panic>>
    /\ UNCHANGED <<otherThanSession, cmdCh, cbClosed, msgClosed, scb, sendFn, wpc>>

\* cb.Close() after an error, without the mutex.
SessionFail ==
    /\ spc = "fail"
    /\ \/ scb \in cbClosed /\ panic' = <<"close", scb>> /\ UNCHANGED <<cbClosed, spc>>
       \/ scb \notin cbClosed /\ cbClosed' = cbClosed \cup {scb} /\ spc' = "failMsg"
          /\ UNCHANGED panic
    /\ UNCHANGED <<otherThanSession, cmdCh, msgCh, msgClosed, scb, sendFn, wpc>>

SessionFailMsg ==
    /\ spc = "failMsg"
    /\ \/ scb \in msgClosed /\ panic' = <<"close", scb>> /\ UNCHANGED <<msgClosed, spc>>
       \/ scb \notin msgClosed /\ msgClosed' = msgClosed \cup {scb} /\ spc' = "select"
          /\ UNCHANGED panic
    /\ UNCHANGED <<otherThanSession, cmdCh, msgCh, cbClosed, scb, sendFn, wpc>>

-----------------------------------------------------------------------------
(* BaseHandler.SendMsg in the goroutines of the handler.                   *)

otherThanWorker == <<faults, ctlVars, cmdCh, cmdClosed, cbClosed, msgClosed, lpc, lcb, spc, scb,
                     sendFn, ctxDone>>

WorkerLoad(w) ==
    /\ wpc[w] = "ready"
    /\ wpc' = [wpc EXCEPT ![w] = "send"] /\ wfn' = [wfn EXCEPT ![w] = sendFn]
    /\ UNCHANGED <<otherThanWorker, msgCh, panic>>

\* Then it sends another message or is done.
WorkerSend(w) ==
    /\ wpc[w] = "send"
    /\ SendMsg(wfn[w]) \/ (ctxDone /\ UNCHANGED <<msgCh, panic>>)
    /\ \E next \in {"ready", "idle"} : wpc' = [wpc EXCEPT ![w] = next]
    /\ wfn' = [wfn EXCEPT ![w] = 0]
    /\ UNCHANGED otherThanWorker

-----------------------------------------------------------------------------
Cancel ==
    /\ "cancel" \in faults
    /\ ~ctxDone
    /\ ctxDone' = TRUE
    /\ UNCHANGED <<faults, chanVars, ctlVars, lpc, lcb, spc, scb, sendFn, wpc, wfn, panic>>

\* The process has crashed, or the bound on bundles is reached.
Terminated ==
    /\ panic # NoPanic \/ (lpc = "idle" /\ made = MaxRefresh)
    /\ UNCHANGED vars

LoopNext ==
    \/ Refresh \/ RefreshCancelled \/ RefreshOffer \/ RefreshCloseOld \/ RefreshCloseOldMsg
    \/ StreamFails \/ StreamStarts \/ StreamCommand \/ StreamMessage
    \/ StreamCloses \/ StreamReturns

SessionNext ==
    \/ SessionTake \/ SessionExit \/ SessionRegister \/ SessionCommand \/ SessionEnds
    \/ SessionHandle \/ SessionReply \/ SessionFail \/ SessionFailMsg

WorkerNext == \E w \in Workers : WorkerLoad(w) \/ WorkerSend(w)

Next ==
    \/ panic = NoPanic /\ (LoopNext \/ SessionNext \/ WorkerNext \/ Close \/ Cancel)
    \/ Terminated

Spec == Init /\ [][Next]_vars

-----------------------------------------------------------------------------
(* Fairness.  Every goroutine that can run does: HandleCmd returns and      *)
(* dialling ends.  That the stream's writer keeps taking messages and that *)
(* a stream whose msgCh is closed or whose context is done ends is shown   *)
(* for ClientStream.  A connection may last for ever, and nobody has to    *)
(* call Close.                                                             *)

Fairness ==
    /\ WF_vars(panic = NoPanic /\ (Refresh \/ RefreshCancelled \/ RefreshOffer
                                  \/ RefreshCloseOld \/ RefreshCloseOldMsg))
    /\ WF_vars(panic = NoPanic /\ (StreamFails \/ StreamStarts))
    /\ WF_vars(panic = NoPanic /\ StreamMessage)
    /\ WF_vars(panic = NoPanic /\ (lcb \in msgClosed \/ ctxDone) /\ StreamCloses)
    /\ WF_vars(panic = NoPanic /\ StreamReturns)
    /\ WF_vars(panic = NoPanic /\ SessionNext)
    /\ \A w \in Workers : WF_vars(panic = NoPanic /\ (WorkerLoad(w) \/ WorkerSend(w)))

FairSpec == Spec /\ Fairness

-----------------------------------------------------------------------------
(* Properties.                                                             *)

\* The session closes bundles only after an error of HandleCmd's result or of
\* a cancelled send.
SessionNeverFails == faults \cap {"marshal", "cancel"} = {}

\* The stream of bundle b as StreamContract sees it.
PhaseOf(b) ==
    CASE b = lcb /\ lpc \in {"stream", "ending"} -> "stream"
      [] b < made \/ (b = made /\ lpc = "idle") -> "over"
      [] OTHER                                   -> "new"

MisuseOf(b) == IF panic[2] = b THEN panic[1] ELSE "none"

Contract(b) == INSTANCE StreamContract WITH
    phase <- PhaseOf(b), cmdCh <- cmdCh[b], msgCh <- msgCh[b],
    cmdClosed <- b \in cmdClosed, msgClosed <- b \in msgClosed, misuse <- MisuseOf(b)

\* Every bundle is used for one stream as ProcessNewStream expects: its
\* channels are "freshly created" (client.go:126), its msgCh is closed once,
\* and whatever the order of refreshes, replies and handler goroutines, no
\* message meets a closed msgCh before the stream of its bundle is over.
\* Excepted are the panics of a session that failed, which closes the bundle
\* it serves while RefreshChannels, or its stream, still uses it.
KeepsContract ==
    /\ \A b \in Bundles : Contract(b)!Init
    /\ [][\A b \in Bundles : \/ [Contract(b)!Next]_(Contract(b)!vars)
                             \/ ~SessionNeverFails /\ panic' # NoPanic]_vars

\* A message sent after the channels have been refreshed is dropped, not a
\* panic: "no return message means async operation, will send message later"
\* (controller.go:118).
LateSendIsSafe == panic[1] # "send"

\* RefreshChannels never sends on a closed chRefreshed (a panic), although it
\* waits for room between its check of c.closed and the send.
OfferNeedsOpen == lpc = "offer" => ~ctlClosed

\* A bundle's msgCh is closed after its closed channel, so whoever finds
\* msgCh closed could have known.
ClosedBeforeMsg == msgClosed \subseteq cbClosed

\* While a stream runs, its bundle is the controller's current one, and open
\* unless the session gave it up: RefreshChannels only closes bundles whose
\* stream is over.
LiveStreamIsOpen ==
    lpc = "stream" /\ ~ctlClosed =>
        lcb = currentCB /\ (SessionNeverFails => lcb \notin cbClosed)

\* "cmdCh will be closed once RefreshChannels called" (controller.go:109):
\* when dialling never fails, the command channels of all bundles before the
\* current one are closed, as long as the context is not done.
OldCommandsClosed ==
    "dial" \notin faults /\ ~ctxDone => \A b \in Bundles : b < currentCB => b \in cmdClosed

\* "Close controller, will not handle incoming commands anymore"
\* (controller.go:142).
ClosedHandlesNothing == [][ctlClosed /\ spc = "range" => spc' # "handle"]_vars

\* When dialling never fails, a bundle that RefreshChannels has handed over is
\* served.
BundleServed ==
    \A b \in Bundles : (chRefreshed = b /\ "dial" \notin faults)
                          ~> (scb = b \/ ctxDone \/ panic # NoPanic)

\* When dialling never fails, RefreshChannels returns: "creates a new cmd and
\* msg channel pair for new connection" (controller.go:153).
RefreshReturns ==
    (lpc = "offer" /\ "dial" \notin faults) ~> (lpc # "offer" \/ panic # NoPanic)

\* A goroutine that waits for room in the msgCh of a bundle whose stream is
\* over does not wait for ever: the next RefreshChannels closes the bundle,
\* whichever dials fail.  After Close nobody does, and the bundle made last
\* waits for the next connection.
LateSendReturns ==
    \A w \in Workers : (wpc[w] = "send" /\ PhaseOf(wfn[w]) = "over")
        ~> (wpc[w] # "send" \/ ctlClosed \/ wfn[w] = MaxRefresh \/ panic # NoPanic)

=============================================================================
