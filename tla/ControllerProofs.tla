-------------------------- MODULE ControllerProofs --------------------------
(***************************************************************************)
(* Proofs of the safety properties of Controller, for any number of        *)
(* bundles, workers and combinations of faults, and that every bundle is   *)
(* used as StreamContract says.                                            *)
(***************************************************************************)
EXTENDS Controller, TLAPS

Refreshing == {"offer", "closeOld", "closeOldMsg"}
Streaming == {"stream", "ending"}

\* RefreshChannels holds the mutex, so nobody closes the controller meanwhile.
LockInv == lpc \in Refreshing => mu = TRUE /\ ctlClosed = FALSE

\* The loop works on the bundle made last, or on nil channels when the context
\* is done; while it refreshes, that bundle is not the current one yet.
LoopInv ==
    /\ currentCB <= made /\ lcb <= made
    /\ lpc \in Refreshing => lcb = made /\ currentCB < made
    /\ lpc \in {"closeOld", "closeOldMsg"} => currentCB # 0
    /\ lpc \in Streaming => lcb = made /\ made # 0
    /\ lpc = "dial" => \/ lcb = made /\ made # 0
                       \/ ctxDone = TRUE
    /\ lpc \in Streaming /\ ctlClosed = FALSE => lcb = currentCB
    /\ lpc = "dial" /\ ctlClosed = FALSE /\ ctxDone = FALSE => lcb = currentCB

\* Bundles not handed over yet are known to nobody, and fresh.
Unknown(b) ==
    /\ chRefreshed # b /\ scb # b /\ sendFn # b
    /\ \A w \in Workers : wfn[w] # b
    /\ b \notin cmdClosed /\ b \notin cbClosed /\ b \notin msgClosed
    /\ cmdCh[b] = 0 /\ msgCh[b] = 0

FreshInv == \A b \in Bundles : (b > made \/ (b = made /\ lpc = "offer")) => Unknown(b)

\* Who serves a bundle or sends to one has got it.
KnownInv ==
    /\ spc \notin {"select", "exit"} => scb # 0
    /\ spc \notin {"select", "exit", "register"} => sendFn # 0
    /\ \A w \in Workers : wpc[w] = "ready" => sendFn # 0
    /\ \A w \in Workers : wpc[w] = "send" => wfn[w] # 0 /\ sendFn # 0

\* Unless the session fails, only RefreshChannels closes bundles, each once.
CloseInv ==
    SessionNeverFails =>
        /\ ctxDone = FALSE /\ spc \notin {"fail", "failMsg"} /\ panic[1] # "close"
        /\ \A b \in cbClosed : \/ b < currentCB
                               \/ b = currentCB /\ lpc = "closeOldMsg"
                               \/ b > currentCB /\ ctlClosed = TRUE
        /\ \A b \in msgClosed : b < currentCB \/ (b > currentCB /\ ctlClosed = TRUE)

\* cmdCh of a bundle is closed by its stream, at its end, and always if
\* dialling never fails.
CmdInv ==
    /\ \A b \in cmdClosed : b < made \/ (b = made /\ lpc \in {"ending", "idle"})
    /\ lpc = "ending" => lcb \in cmdClosed
    /\ "dial" \notin faults /\ ctxDone = FALSE =>
          \A b \in Bundles : b < made \/ (b = made /\ lpc \in {"ending", "idle"})
                                => b \in cmdClosed

IInv == TypeOK /\ LockInv /\ LoopInv /\ FreshInv /\ KnownInv /\ CloseInv /\ CmdInv

\* A panic says what was done, and to which bundle.
LEMMA PanicType ==
    /\ NoPanic \in Panics /\ NoPanic[1] = "none" /\ NoPanic[2] = 0
    /\ \A b \in Bundles : <<"send", b>> \in Panics /\ <<"close", b>> \in Panics
BY DEF Panics, NoPanic

\* The controller starts without bundles.
LEMMA InitHolds == Init => IInv
<1> SUFFICES ASSUME Init PROVE IInv
  OBVIOUS
<1>1. 0 \in Optional
  BY ControllerAssumption DEF Optional
<1>2. TypeOK
  BY Zenon, <1>1, PanicType DEF Init, TypeOK
<1> QED
  BY <1>2, PanicType, ControllerAssumption DEF Init, IInv, LockInv, LoopInv, FreshInv, Unknown, KnownInv,
     CloseInv, CmdInv, Bundles, Refreshing, Streaming

\* Steps of RefreshChannels keep the invariant.
LEMMA RefreshStep ==
    ASSUME IInv, panic = NoPanic,
           Refresh \/ RefreshCancelled \/ RefreshOffer \/ RefreshCloseOld \/ RefreshCloseOldMsg
    PROVE  IInv'
<1> USE ControllerAssumption DEF IInv, TypeOK, Bundles, Optional, otherThanLoop, ctlVars, chanVars
<1>1. CASE Refresh
  <2>1. TypeOK'
    <3>1. made + 1 \in Bundles /\ made + 1 \in Optional
      BY <1>1 DEF Refresh
    <3> QED
      BY Zenon, <1>1, <3>1 DEF Refresh
  <2>2. LockInv'
    BY <1>1 DEF Refresh, LockInv, Refreshing
  <2>3. LoopInv'
    BY <1>1 DEF Refresh, LockInv, LoopInv, Refreshing, Streaming
  <2>4. FreshInv'
    BY <1>1 DEF Refresh, LoopInv, FreshInv, Unknown, KnownInv, Refreshing, Streaming
  <2>5. KnownInv'
    BY <1>1 DEF Refresh, KnownInv
  <2>6. CloseInv'
    <3> SUFFICES ASSUME SessionNeverFails'  PROVE CloseInv'
      BY Zenon DEF CloseInv
    <3>1. SessionNeverFails /\ ctxDone' = ctxDone /\ spc' = spc /\ ctlClosed' = ctlClosed
      BY <1>1 DEF Refresh, SessionNeverFails
    <3>2. currentCB' = currentCB /\ panic' = panic /\ lpc # "closeOldMsg" /\ made + 1 > currentCB
      BY <1>1 DEF Refresh, LoopInv
    <3>3. \/ cbClosed' = cbClosed /\ msgClosed' = msgClosed
          \/ /\ ctlClosed = TRUE
             /\ cbClosed' = cbClosed \cup {made + 1} /\ msgClosed' = msgClosed \cup {made + 1}
      BY <1>1 DEF Refresh
    <3> QED
      BY ZenonT(30), <3>1, <3>2, <3>3 DEF CloseInv
  <2>7. CmdInv'
    BY <1>1 DEF Refresh, LoopInv, FreshInv, Unknown, CmdInv, Refreshing, Streaming
  <2> QED
    BY <2>1, <2>2, <2>3, <2>4, <2>5, <2>6, <2>7
<1>2. CASE RefreshCancelled
  <2>1. TypeOK'
    <3>1. 0 \in Optional
      OBVIOUS
    <3> QED
      BY Zenon, <1>2, <3>1 DEF RefreshCancelled
  <2>2. LockInv'
    BY <1>2 DEF RefreshCancelled, LockInv, Refreshing
  <2>3. LoopInv'
    BY <1>2 DEF RefreshCancelled, LockInv, LoopInv, Refreshing, Streaming
  <2>4. FreshInv'
    BY <1>2 DEF RefreshCancelled, LoopInv, FreshInv, Unknown, KnownInv, Refreshing, Streaming
  <2>5. KnownInv'
    BY <1>2 DEF RefreshCancelled, KnownInv
  <2>6. CloseInv'
    BY <1>2 DEF RefreshCancelled, LockInv, LoopInv, FreshInv, Unknown, CloseInv,
       SessionNeverFails, Refreshing, Streaming
  <2>7. CmdInv'
    BY <1>2 DEF RefreshCancelled, LoopInv, FreshInv, Unknown, CmdInv, Refreshing, Streaming
  <2> QED
    BY <2>1, <2>2, <2>3, <2>4, <2>5, <2>6, <2>7
<1>3. CASE RefreshOffer
  <2>1. TypeOK'
    BY Zenon, <1>3 DEF RefreshOffer
  <2>2. LockInv'
    BY Zenon, <1>3 DEF RefreshOffer, LockInv, Refreshing
  <2>3. LoopInv'
    <3>1. /\ lpc = "offer" /\ UNCHANGED <<made, lcb, ctlClosed, ctxDone>>
          /\ \/ lpc' = "closeOld" /\ currentCB # 0 /\ currentCB' = currentCB
             \/ lpc' = "dial" /\ currentCB' = lcb
      BY <1>3 DEF RefreshOffer
    <3> QED
      BY <3>1 DEF LoopInv, Refreshing, Streaming
  <2>4. FreshInv'
    BY <1>3 DEF RefreshOffer, LoopInv, FreshInv, Unknown, KnownInv, Refreshing, Streaming
  <2>5. KnownInv'
    BY <1>3 DEF RefreshOffer, KnownInv
  <2>6. CloseInv'
    <3> SUFFICES ASSUME SessionNeverFails'  PROVE CloseInv'
      BY Zenon DEF CloseInv
    <3>1. SessionNeverFails /\ ctxDone' = ctxDone /\ spc' = spc /\ ctlClosed' = ctlClosed
      BY <1>3 DEF RefreshOffer, SessionNeverFails
    <3>2. /\ panic' = panic /\ cbClosed' = cbClosed /\ msgClosed' = msgClosed
          /\ lpc = "offer" /\ currentCB' \in Optional /\ currentCB <= currentCB'
      BY <1>3 DEF RefreshOffer, LoopInv, Refreshing
    <3>3. ctlClosed = FALSE
      BY <3>2 DEF LockInv, Refreshing
    <3>4. \A b \in cbClosed \cup msgClosed : b < currentCB
      BY <3>1, <3>2, <3>3 DEF CloseInv
    <3>5. \A b \in cbClosed \cup msgClosed : b < currentCB'
      BY <3>2, <3>4
    <3> QED
      BY <3>1, <3>2, <3>5 DEF CloseInv
  <2>7. CmdInv'
    BY <1>3 DEF RefreshOffer, LoopInv, FreshInv, Unknown, CmdInv, Refreshing, Streaming
  <2> QED
    BY <2>1, <2>2, <2>3, <2>4, <2>5, <2>6, <2>7
<1>4. CASE RefreshCloseOld
  <2>1. TypeOK'
    <3>1. currentCB \in Bundles
      BY <1>4 DEF RefreshCloseOld, LoopInv
    <3> QED
      <4>1. <<"close", currentCB>> \in Panics
        BY Zenon, <3>1, PanicType
      <4> QED
        BY Zenon, <1>4, <3>1, <4>1 DEF RefreshCloseOld
  <2>2. LockInv'
    BY <1>4 DEF RefreshCloseOld, LockInv, Refreshing
  <2>3. LoopInv'
    BY <1>4 DEF RefreshCloseOld, LockInv, LoopInv, Refreshing, Streaming
  <2>4. FreshInv'
    BY <1>4 DEF RefreshCloseOld, LoopInv, FreshInv, Unknown, KnownInv, Refreshing, Streaming
  <2>5. KnownInv'
    BY <1>4 DEF RefreshCloseOld, KnownInv
  <2>6. CloseInv'
    <3> SUFFICES ASSUME SessionNeverFails'  PROVE CloseInv'
      BY Zenon DEF CloseInv
    <3>1. SessionNeverFails /\ ctxDone' = ctxDone /\ spc' = spc /\ ctlClosed' = ctlClosed
      BY <1>4 DEF RefreshCloseOld, SessionNeverFails
    <3>2. lpc = "closeOld" /\ currentCB' = currentCB /\ msgClosed' = msgClosed
      BY <1>4 DEF RefreshCloseOld
    <3>3. ctlClosed = FALSE
      BY <3>2 DEF LockInv, Refreshing
    <3>4. \A b \in cbClosed \cup msgClosed : b < currentCB
      BY <3>1, <3>2, <3>3 DEF CloseInv
    <3>5. currentCB \notin cbClosed
      BY <3>4
    <3>6. /\ cbClosed' = cbClosed \cup {currentCB} /\ lpc' = "closeOldMsg" /\ panic' = panic
      BY <1>4, <3>5 DEF RefreshCloseOld
    <3> QED
      BY <3>1, <3>2, <3>4, <3>6 DEF CloseInv
  <2>7. CmdInv'
    BY <1>4 DEF RefreshCloseOld, LoopInv, FreshInv, Unknown, CmdInv, Refreshing, Streaming
  <2> QED
    BY <2>1, <2>2, <2>3, <2>4, <2>5, <2>6, <2>7
<1>5. CASE RefreshCloseOldMsg
  <2>1. TypeOK'
    <3>1. currentCB \in Bundles
      BY <1>5 DEF RefreshCloseOldMsg, LoopInv
    <3> QED
      <4>1. <<"close", currentCB>> \in Panics
        BY Zenon, <3>1, PanicType
      <4> QED
        BY Zenon, <1>5, <3>1, <4>1 DEF RefreshCloseOldMsg
  <2>2. LockInv'
    BY Zenon, <1>5 DEF RefreshCloseOldMsg, LockInv, Refreshing
  <2>3. LoopInv'
    <3>1. /\ lpc = "closeOldMsg" /\ UNCHANGED <<made, lcb, ctlClosed, ctxDone>>
          /\ \/ lpc' = lpc /\ currentCB' = currentCB
             \/ lpc' = "dial" /\ currentCB' = lcb
      BY <1>5 DEF RefreshCloseOldMsg
    <3> QED
      BY <3>1 DEF LoopInv, Refreshing, Streaming
  <2>4. FreshInv'
    BY <1>5 DEF RefreshCloseOldMsg, LoopInv, FreshInv, Unknown, KnownInv, Refreshing, Streaming
  <2>5. KnownInv'
    BY <1>5 DEF RefreshCloseOldMsg, KnownInv
  <2>6. CloseInv'
    <3> SUFFICES ASSUME SessionNeverFails'  PROVE CloseInv'
      BY Zenon DEF CloseInv
    <3>1. SessionNeverFails /\ ctxDone' = ctxDone /\ spc' = spc /\ ctlClosed' = ctlClosed
      BY <1>5 DEF RefreshCloseOldMsg, SessionNeverFails
    <3>2. lpc = "closeOldMsg" /\ cbClosed' = cbClosed /\ lcb = made /\ currentCB < made
      BY <1>5 DEF RefreshCloseOldMsg, LoopInv, Refreshing
    <3>3. ctlClosed = FALSE
      BY <3>2 DEF LockInv, Refreshing
    <3>4. \A b \in msgClosed : b < currentCB
      BY <3>1, <3>3 DEF CloseInv
    <3>5. \A b \in cbClosed : b <= currentCB
      BY <3>1, <3>3 DEF CloseInv
    <3>6. /\ msgClosed' = msgClosed \cup {currentCB} /\ currentCB' = made /\ panic' = panic
      BY <1>5, <3>2, <3>4 DEF RefreshCloseOldMsg
    <3>7. \A b \in cbClosed' \cup msgClosed' : b < currentCB'
      BY <3>2, <3>4, <3>5, <3>6
    <3> QED
      BY <3>1, <3>6, <3>7 DEF CloseInv
  <2>7. CmdInv'
    BY <1>5 DEF RefreshCloseOldMsg, LoopInv, FreshInv, Unknown, CmdInv, Refreshing, Streaming
  <2> QED
    BY <2>1, <2>2, <2>3, <2>4, <2>5, <2>6, <2>7
<1> QED
  BY <1>1, <1>2, <1>3, <1>4, <1>5

\* Steps of the stream keep the invariant.
LEMMA StreamStep ==
    ASSUME IInv, panic = NoPanic,
           StreamFails \/ StreamStarts \/ StreamCommand \/ StreamMessage \/ StreamCloses
           \/ StreamReturns
    PROVE  IInv'
<1> USE ControllerAssumption DEF IInv, TypeOK, Bundles, Optional, otherThanLoop, ctlVars, chanVars
<1>1. CASE StreamFails
  <2>1. TypeOK'
    BY <1>1 DEF StreamFails
  <2>2. LockInv'
    BY <1>1 DEF StreamFails, LockInv, Refreshing
  <2>3. LoopInv'
    BY <1>1 DEF StreamFails, LockInv, LoopInv, Refreshing, Streaming
  <2>4. FreshInv'
    BY <1>1 DEF StreamFails, LoopInv, FreshInv, Unknown, KnownInv, Refreshing, Streaming
  <2>5. KnownInv'
    BY <1>1 DEF StreamFails, KnownInv
  <2>6. CloseInv'
    BY <1>1 DEF StreamFails, LockInv, LoopInv, FreshInv, Unknown, CloseInv,
       SessionNeverFails, Refreshing, Streaming
  <2>7. CmdInv'
    BY <1>1 DEF StreamFails, LoopInv, FreshInv, Unknown, CmdInv, Refreshing, Streaming
  <2> QED
    BY <2>1, <2>2, <2>3, <2>4, <2>5, <2>6, <2>7
<1>2. CASE StreamStarts
  <2>1. TypeOK'
    BY <1>2 DEF StreamStarts
  <2>2. LockInv'
    BY <1>2 DEF StreamStarts, LockInv, Refreshing
  <2>3. LoopInv'
    BY <1>2 DEF StreamStarts, LockInv, LoopInv, Refreshing, Streaming
  <2>4. FreshInv'
    BY <1>2 DEF StreamStarts, LoopInv, FreshInv, Unknown, KnownInv, Refreshing, Streaming
  <2>5. KnownInv'
    BY <1>2 DEF StreamStarts, KnownInv
  <2>6. CloseInv'
    BY <1>2 DEF StreamStarts, LockInv, LoopInv, FreshInv, Unknown, CloseInv,
       SessionNeverFails, Refreshing, Streaming
  <2>7. CmdInv'
    BY <1>2 DEF StreamStarts, LoopInv, FreshInv, Unknown, CmdInv, Refreshing, Streaming
  <2> QED
    BY <2>1, <2>2, <2>3, <2>4, <2>5, <2>6, <2>7
<1>3. CASE StreamCommand
  <2>1. TypeOK'
    BY <1>3 DEF StreamCommand, LoopInv, KnownInv, Streaming
  <2>2. LockInv'
    BY <1>3 DEF StreamCommand, LockInv, Refreshing
  <2>3. LoopInv'
    BY <1>3 DEF StreamCommand, LockInv, LoopInv, Refreshing, Streaming
  <2>4. FreshInv'
    BY <1>3 DEF StreamCommand, LoopInv, FreshInv, Unknown, KnownInv, Refreshing, Streaming
  <2>5. KnownInv'
    BY <1>3 DEF StreamCommand, KnownInv
  <2>6. CloseInv'
    BY <1>3 DEF StreamCommand, LockInv, LoopInv, FreshInv, Unknown, CloseInv,
       SessionNeverFails, Refreshing, Streaming
  <2>7. CmdInv'
    BY <1>3 DEF StreamCommand, LoopInv, FreshInv, Unknown, CmdInv, Refreshing, Streaming
  <2> QED
    BY <2>1, <2>2, <2>3, <2>4, <2>5, <2>6, <2>7
<1>4. CASE StreamMessage
  <2>1. TypeOK'
    BY <1>4 DEF StreamMessage, LoopInv, KnownInv, Streaming
  <2>2. LockInv'
    BY <1>4 DEF StreamMessage, LockInv, Refreshing
  <2>3. LoopInv'
    BY <1>4 DEF StreamMessage, LockInv, LoopInv, Refreshing, Streaming
  <2>4. FreshInv'
    BY <1>4 DEF StreamMessage, LoopInv, FreshInv, Unknown, KnownInv, Refreshing, Streaming
  <2>5. KnownInv'
    BY <1>4 DEF StreamMessage, KnownInv
  <2>6. CloseInv'
    BY <1>4 DEF StreamMessage, LockInv, LoopInv, FreshInv, Unknown, CloseInv,
       SessionNeverFails, Refreshing, Streaming
  <2>7. CmdInv'
    BY <1>4 DEF StreamMessage, LoopInv, FreshInv, Unknown, CmdInv, Refreshing, Streaming
  <2> QED
    BY <2>1, <2>2, <2>3, <2>4, <2>5, <2>6, <2>7
<1>5. CASE StreamCloses
  <2>1. TypeOK'
    <3>1. lcb \in Bundles
      BY <1>5 DEF StreamCloses, LoopInv, Streaming
    <3> QED
      BY <1>5, <3>1 DEF StreamCloses
  <2>2. LockInv'
    BY <1>5 DEF StreamCloses, LockInv, Refreshing
  <2>3. LoopInv'
    BY <1>5 DEF StreamCloses, LockInv, LoopInv, Refreshing, Streaming
  <2>4. FreshInv'
    BY <1>5 DEF StreamCloses, LoopInv, FreshInv, Unknown, KnownInv, Refreshing, Streaming
  <2>5. KnownInv'
    BY <1>5 DEF StreamCloses, KnownInv
  <2>6. CloseInv'
    BY <1>5 DEF StreamCloses, LockInv, LoopInv, FreshInv, Unknown, CloseInv,
       SessionNeverFails, Refreshing, Streaming
  <2>7. CmdInv'
    BY <1>5 DEF StreamCloses, LoopInv, FreshInv, Unknown, CmdInv, Refreshing, Streaming
  <2> QED
    BY <2>1, <2>2, <2>3, <2>4, <2>5, <2>6, <2>7
<1>6. CASE StreamReturns
  <2>1. TypeOK'
    BY <1>6 DEF StreamReturns
  <2>2. LockInv'
    BY <1>6 DEF StreamReturns, LockInv, Refreshing
  <2>3. LoopInv'
    BY <1>6 DEF StreamReturns, LockInv, LoopInv, Refreshing, Streaming
  <2>4. FreshInv'
    BY <1>6 DEF StreamReturns, LoopInv, FreshInv, Unknown, KnownInv, Refreshing, Streaming
  <2>5. KnownInv'
    BY <1>6 DEF StreamReturns, KnownInv
  <2>6. CloseInv'
    BY <1>6 DEF StreamReturns, LockInv, LoopInv, FreshInv, Unknown, CloseInv,
       SessionNeverFails, Refreshing, Streaming
  <2>7. CmdInv'
    BY <1>6 DEF StreamReturns, LoopInv, FreshInv, Unknown, CmdInv, Refreshing, Streaming
  <2> QED
    BY <2>1, <2>2, <2>3, <2>4, <2>5, <2>6, <2>7
<1> QED
  BY Zenon, <1>1, <1>2, <1>3, <1>4, <1>5, <1>6

\* Steps of handleSession keep the invariant.
LEMMA SessionStep ==
    ASSUME IInv, panic = NoPanic,
           SessionTake \/ SessionExit \/ SessionRegister \/ SessionCommand
           \/ SessionEnds \/ SessionHandle \/ SessionReply \/ SessionFail \/ SessionFailMsg
    PROVE  IInv'
<1> USE ControllerAssumption DEF IInv, TypeOK, Bundles, Optional, otherThanSession, ctlVars, chanVars
<1>1. CASE SessionTake
  <2>1. TypeOK'
    BY <1>1 DEF SessionTake
  <2>2. LockInv'
    BY <1>1 DEF SessionTake, LockInv, Refreshing
  <2>3. LoopInv'
    BY <1>1 DEF SessionTake, LockInv, LoopInv, Refreshing, Streaming
  <2>4. FreshInv'
    <3>1. /\ scb' = chRefreshed /\ chRefreshed' = 0
          /\ UNCHANGED <<made, lpc, sendFn, wfn, cmdClosed, cbClosed, msgClosed, cmdCh, msgCh>>
      BY <1>1 DEF SessionTake
    <3> QED
      BY <3>1 DEF FreshInv, Unknown
  <2>5. KnownInv'
    BY <1>1 DEF SessionTake, KnownInv
  <2>6. CloseInv'
    BY <1>1 DEF SessionTake, LockInv, LoopInv, FreshInv, Unknown, CloseInv,
       SessionNeverFails, Refreshing, Streaming
  <2>7. CmdInv'
    BY <1>1 DEF SessionTake, LoopInv, FreshInv, Unknown, CmdInv, Refreshing, Streaming
  <2> QED
    BY <2>1, <2>2, <2>3, <2>4, <2>5, <2>6, <2>7
<1>2. CASE SessionExit
  <2>1. TypeOK'
    BY <1>2 DEF SessionExit
  <2>2. LockInv'
    BY <1>2 DEF SessionExit, LockInv, Refreshing
  <2>3. LoopInv'
    BY <1>2 DEF SessionExit, LockInv, LoopInv, Refreshing, Streaming
  <2>4. FreshInv'
    BY <1>2 DEF SessionExit, LoopInv, FreshInv, Unknown, KnownInv, Refreshing, Streaming
  <2>5. KnownInv'
    BY <1>2 DEF SessionExit, KnownInv
  <2>6. CloseInv'
    BY <1>2 DEF SessionExit, LockInv, LoopInv, FreshInv, Unknown, CloseInv,
       SessionNeverFails, Refreshing, Streaming
  <2>7. CmdInv'
    BY <1>2 DEF SessionExit, LoopInv, FreshInv, Unknown, CmdInv, Refreshing, Streaming
  <2> QED
    BY <2>1, <2>2, <2>3, <2>4, <2>5, <2>6, <2>7
<1>3. CASE SessionRegister
  <2>1. TypeOK'
    BY <1>3 DEF SessionRegister
  <2>2. LockInv'
    BY <1>3 DEF SessionRegister, LockInv, Refreshing
  <2>3. LoopInv'
    BY <1>3 DEF SessionRegister, LockInv, LoopInv, Refreshing, Streaming
  <2>4. FreshInv'
    BY <1>3 DEF SessionRegister, LoopInv, FreshInv, Unknown, KnownInv, Refreshing, Streaming
  <2>5. KnownInv'
    BY <1>3 DEF SessionRegister, KnownInv
  <2>6. CloseInv'
    BY <1>3 DEF SessionRegister, LockInv, LoopInv, FreshInv, Unknown, CloseInv,
       SessionNeverFails, Refreshing, Streaming
  <2>7. CmdInv'
    BY <1>3 DEF SessionRegister, LoopInv, FreshInv, Unknown, CmdInv, Refreshing, Streaming
  <2> QED
    BY <2>1, <2>2, <2>3, <2>4, <2>5, <2>6, <2>7
<1>4. CASE SessionCommand
  <2>1. TypeOK'
    BY <1>4 DEF SessionCommand, LoopInv, KnownInv, Streaming
  <2>2. LockInv'
    BY <1>4 DEF SessionCommand, LockInv, Refreshing
  <2>3. LoopInv'
    BY <1>4 DEF SessionCommand, LockInv, LoopInv, Refreshing, Streaming
  <2>4. FreshInv'
    BY <1>4 DEF SessionCommand, LoopInv, FreshInv, Unknown, KnownInv, Refreshing, Streaming
  <2>5. KnownInv'
    BY <1>4 DEF SessionCommand, KnownInv
  <2>6. CloseInv'
    BY <1>4 DEF SessionCommand, LockInv, LoopInv, FreshInv, Unknown, CloseInv,
       SessionNeverFails, Refreshing, Streaming
  <2>7. CmdInv'
    BY <1>4 DEF SessionCommand, LoopInv, FreshInv, Unknown, CmdInv, Refreshing, Streaming
  <2> QED
    BY <2>1, <2>2, <2>3, <2>4, <2>5, <2>6, <2>7
<1>5. CASE SessionEnds
  <2>1. TypeOK'
    BY <1>5 DEF SessionEnds
  <2>2. LockInv'
    BY <1>5 DEF SessionEnds, LockInv, Refreshing
  <2>3. LoopInv'
    BY <1>5 DEF SessionEnds, LockInv, LoopInv, Refreshing, Streaming
  <2>4. FreshInv'
    BY <1>5 DEF SessionEnds, LoopInv, FreshInv, Unknown, KnownInv, Refreshing, Streaming
  <2>5. KnownInv'
    BY <1>5 DEF SessionEnds, KnownInv
  <2>6. CloseInv'
    BY <1>5 DEF SessionEnds, LockInv, LoopInv, FreshInv, Unknown, CloseInv,
       SessionNeverFails, Refreshing, Streaming
  <2>7. CmdInv'
    BY <1>5 DEF SessionEnds, LoopInv, FreshInv, Unknown, CmdInv, Refreshing, Streaming
  <2> QED
    BY <2>1, <2>2, <2>3, <2>4, <2>5, <2>6, <2>7
<1>6. CASE SessionHandle
  <2>1. TypeOK'
    BY <1>6 DEF SessionHandle
  <2>2. LockInv'
    BY <1>6 DEF SessionHandle, LockInv, Refreshing
  <2>3. LoopInv'
    BY <1>6 DEF SessionHandle, LockInv, LoopInv, Refreshing, Streaming
  <2>4. FreshInv'
    BY <1>6 DEF SessionHandle, LoopInv, FreshInv, Unknown, KnownInv, Refreshing, Streaming
  <2>5. KnownInv'
    BY <1>6 DEF SessionHandle, KnownInv
  <2>6. CloseInv'
    BY <1>6 DEF SessionHandle, LockInv, LoopInv, FreshInv, Unknown, CloseInv,
       SessionNeverFails, Refreshing, Streaming
  <2>7. CmdInv'
    BY <1>6 DEF SessionHandle, LoopInv, FreshInv, Unknown, CmdInv, Refreshing, Streaming
  <2> QED
    BY <2>1, <2>2, <2>3, <2>4, <2>5, <2>6, <2>7
<1>7. CASE SessionReply
  <2>1. TypeOK'
    <3>1. scb \in Bundles
      BY <1>7 DEF SessionReply, KnownInv
    <3>2. <<"send", scb>> \in Panics
      BY Zenon, <3>1, PanicType
    <3>3. panic' \in Panics
      BY Zenon, <1>7, <3>2 DEF SessionReply, SendMsg
    <3>4. msgCh' \in [Bundles -> {0, 1}]
      BY <1>7, <3>1 DEF SessionReply, SendMsg
    <3>5. spc' \in {"range", "fail"}
      BY <1>7 DEF SessionReply
    <3> QED
      BY Zenon, <1>7, <3>3, <3>4, <3>5 DEF SessionReply
  <2>2. LockInv'
    BY <1>7 DEF SessionReply, LockInv, Refreshing, SendMsg
  <2>3. LoopInv'
    BY <1>7 DEF SessionReply, LockInv, LoopInv, Refreshing, Streaming, SendMsg
  <2>4. FreshInv'
    BY <1>7 DEF SessionReply, LoopInv, FreshInv, Unknown, KnownInv, Refreshing, Streaming,
       SendMsg
  <2>5. KnownInv'
    BY <1>7 DEF SessionReply, KnownInv, SendMsg
  <2>6. CloseInv'
    BY <1>7 DEF SessionReply, LockInv, LoopInv, FreshInv, Unknown, CloseInv,
       SessionNeverFails, Refreshing, Streaming, SendMsg
  <2>7. CmdInv'
    BY <1>7 DEF SessionReply, LoopInv, FreshInv, Unknown, CmdInv, Refreshing, Streaming, SendMsg
  <2> QED
    BY <2>1, <2>2, <2>3, <2>4, <2>5, <2>6, <2>7
<1>8. CASE SessionFail
  <2>1. TypeOK'
    <3>1. scb \in Bundles
      BY <1>8 DEF SessionFail, KnownInv
    <3> QED
      <4>1. <<"close", scb>> \in Panics
        BY Zenon, <3>1, PanicType
      <4> QED
        BY Zenon, <1>8, <3>1, <4>1 DEF SessionFail
  <2>2. LockInv'
    BY <1>8 DEF SessionFail, LockInv, Refreshing
  <2>3. LoopInv'
    BY <1>8 DEF SessionFail, LockInv, LoopInv, Refreshing, Streaming
  <2>4. FreshInv'
    BY <1>8 DEF SessionFail, LoopInv, FreshInv, Unknown, KnownInv, Refreshing, Streaming
  <2>5. KnownInv'
    BY <1>8 DEF SessionFail, KnownInv
  <2>6. CloseInv'
    BY <1>8 DEF SessionFail, LockInv, LoopInv, FreshInv, Unknown, CloseInv,
       SessionNeverFails, Refreshing, Streaming
  <2>7. CmdInv'
    BY <1>8 DEF SessionFail, LoopInv, FreshInv, Unknown, CmdInv, Refreshing, Streaming
  <2> QED
    BY <2>1, <2>2, <2>3, <2>4, <2>5, <2>6, <2>7
<1>9. CASE SessionFailMsg
  <2>1. TypeOK'
    <3>1. scb \in Bundles
      BY <1>9 DEF SessionFailMsg, KnownInv
    <3> QED
      <4>1. <<"close", scb>> \in Panics
        BY Zenon, <3>1, PanicType
      <4> QED
        BY Zenon, <1>9, <3>1, <4>1 DEF SessionFailMsg
  <2>2. LockInv'
    BY <1>9 DEF SessionFailMsg, LockInv, Refreshing
  <2>3. LoopInv'
    BY <1>9 DEF SessionFailMsg, LockInv, LoopInv, Refreshing, Streaming
  <2>4. FreshInv'
    BY <1>9 DEF SessionFailMsg, LoopInv, FreshInv, Unknown, KnownInv
  <2>5. KnownInv'
    BY <1>9 DEF SessionFailMsg, KnownInv
  <2>6. CloseInv'
    BY <1>9 DEF SessionFailMsg, LockInv, LoopInv, FreshInv, Unknown, CloseInv,
       SessionNeverFails, Refreshing, Streaming
  <2>7. CmdInv'
    BY <1>9 DEF SessionFailMsg, LoopInv, FreshInv, Unknown, CmdInv, Refreshing, Streaming
  <2> QED
    BY <2>1, <2>2, <2>3, <2>4, <2>5, <2>6, <2>7
<1> QED
  BY Zenon, <1>1, <1>2, <1>3, <1>4, <1>5, <1>6, <1>7, <1>8, <1>9

\* Steps of the handler's goroutines touch only messages.
LEMMA WorkerStep ==
    ASSUME IInv, panic = NoPanic, NEW w \in Workers, WorkerLoad(w) \/ WorkerSend(w)
    PROVE  IInv'
<1> USE ControllerAssumption DEF IInv, TypeOK, Bundles, Optional, otherThanWorker, ctlVars
<1>1. CASE WorkerLoad(w)
  <2>1. TypeOK'
    BY <1>1 DEF WorkerLoad
  <2>2. FreshInv' /\ KnownInv'
    BY <1>1 DEF WorkerLoad, FreshInv, Unknown, KnownInv
  <2>3. LockInv' /\ LoopInv' /\ CmdInv'
    BY <1>1 DEF WorkerLoad, LockInv, LoopInv, CmdInv
  <2>4. CloseInv'
    BY <1>1 DEF WorkerLoad, CloseInv, SessionNeverFails
  <2> QED
    BY <2>1, <2>2, <2>3, <2>4
<1>2. CASE WorkerSend(w)
  <2>1. wfn[w] \in Bundles
    BY <1>2 DEF WorkerSend, KnownInv
  <2>2. TypeOK'
    <3>1. <<"send", wfn[w]>> \in Panics
      BY Zenon, <2>1, PanicType
    <3>2. panic' \in Panics
      BY Zenon, <1>2, <3>1 DEF WorkerSend, SendMsg
    <3>3. msgCh' \in [Bundles -> {0, 1}]
      BY <1>2, <2>1 DEF WorkerSend, SendMsg
    <3>4. wpc' \in [Workers -> {"idle", "ready", "send"}] /\ wfn' \in [Workers -> Optional]
      BY <1>2 DEF WorkerSend
    <3> QED
      BY Zenon, <1>2, <3>2, <3>3, <3>4 DEF WorkerSend
  <2>3. FreshInv'
    BY <1>2, <2>1 DEF WorkerSend, SendMsg, FreshInv, Unknown
  <2>4. KnownInv'
    BY <1>2 DEF WorkerSend, KnownInv
  <2>5. LockInv' /\ LoopInv' /\ CmdInv'
    BY <1>2 DEF WorkerSend, LockInv, LoopInv, CmdInv
  <2>6. CloseInv'
    BY <1>2 DEF WorkerSend, SendMsg, CloseInv, SessionNeverFails
  <2> QED
    BY <2>2, <2>3, <2>4, <2>5, <2>6
<1> QED
  BY <1>1, <1>2

\* Controller.Close needs the mutex, so it comes between two refreshes.
LEMMA CloseStep == ASSUME IInv, Close PROVE IInv'
<1> USE ControllerAssumption DEF IInv, TypeOK, Bundles, Optional, Close, otherThanLoop, chanVars
<1>1. TypeOK' /\ LockInv'
  BY DEF LockInv
<1>2. LoopInv'
  BY DEF LoopInv, LockInv, Refreshing
<1>3. FreshInv' /\ KnownInv' /\ CmdInv'
  BY DEF FreshInv, Unknown, KnownInv, CmdInv
<1>4. CloseInv'
  BY DEF CloseInv, SessionNeverFails
<1> QED
  BY <1>1, <1>2, <1>3, <1>4

\* The context, and steps that change nothing.
LEMMA OtherStep == ASSUME IInv, Cancel \/ Terminated \/ UNCHANGED vars PROVE IInv'
<1> USE DEF IInv, TypeOK, chanVars, ctlVars
<1>1. CASE Cancel
  <2>1. TypeOK' /\ LockInv' /\ KnownInv'
    BY <1>1 DEF Cancel, LockInv, KnownInv
  <2>4. FreshInv'
    BY Zenon, <1>1 DEF Cancel, FreshInv, Unknown
  <2>2. LoopInv' /\ CmdInv'
    BY <1>1 DEF Cancel, LoopInv, CmdInv
  <2>3. CloseInv'
    BY <1>1 DEF Cancel, CloseInv, SessionNeverFails
  <2> QED
    BY Zenon, <2>1, <2>2, <2>3, <2>4
<1>2. CASE Terminated \/ UNCHANGED vars
  <2>1. UNCHANGED vars
    BY <1>2 DEF Terminated
  <2>2. TypeOK' /\ LockInv' /\ KnownInv' /\ FreshInv'
    BY <2>1 DEF vars, LockInv, KnownInv, FreshInv, Unknown
  <2>3. LoopInv' /\ CmdInv' /\ CloseInv'
    BY <2>1 DEF vars, LoopInv, CmdInv, CloseInv, SessionNeverFails
  <2> QED
    BY <2>2, <2>3
<1> QED
  BY <1>1, <1>2

\* The inductive invariant holds in every reachable state.
LEMMA InvariantHolds == Spec => []IInv
<1>1. IInv /\ [Next]_vars => IInv'
  BY RefreshStep, StreamStep, SessionStep, WorkerStep, CloseStep, OtherStep
     DEF Next, LoopNext, SessionNext, WorkerNext
<1> QED
  BY InitHolds, <1>1, PTL DEF Spec

\* Type correctness of the controller.
THEOREM TypeCorrect == Spec => []TypeOK
BY InvariantHolds, PTL DEF IInv

\* OfferNeedsOpen: RefreshChannels never sends on the chRefreshed that Close
\* has closed.
THEOREM OffersAreSafe == Spec => []OfferNeedsOpen
<1>1. IInv => OfferNeedsOpen
  BY DEF IInv, LockInv, Refreshing, OfferNeedsOpen
<1> QED
  BY InvariantHolds, <1>1, PTL

\* LiveStreamIsOpen: RefreshChannels closes only bundles whose stream is over.
THEOREM StreamsAreCurrent == Spec => []LiveStreamIsOpen
<1>1. IInv => LiveStreamIsOpen
  <2> SUFFICES ASSUME IInv, lpc = "stream", ~ctlClosed
               PROVE  lcb = currentCB /\ (SessionNeverFails => lcb \notin cbClosed)
    BY DEF LiveStreamIsOpen
  <2>1. ctlClosed = FALSE
    BY DEF IInv, TypeOK
  <2>2. lcb = currentCB /\ lcb \in Nat
    BY <2>1, ControllerAssumption DEF IInv, TypeOK, LoopInv, Streaming, Optional
  <2>3. SessionNeverFails => lcb \notin cbClosed
    BY <2>1, <2>2 DEF IInv, CloseInv
  <2> QED
    BY <2>2, <2>3
<1> QED
  BY InvariantHolds, <1>1, PTL

\* OldCommandsClosed: if dialling never fails, every bundle that RefreshChannels
\* has replaced has its cmdCh closed.
THEOREM OldBundlesEnd == Spec => []OldCommandsClosed
<1>1. IInv => OldCommandsClosed
  <2> SUFFICES ASSUME IInv, "dial" \notin faults, ~ctxDone, NEW b \in Bundles, b < currentCB
               PROVE  b \in cmdClosed
    BY DEF OldCommandsClosed
  <2>1. ctxDone = FALSE
    BY DEF IInv, TypeOK
  <2>2. b < made
    BY ControllerAssumption DEF IInv, TypeOK, LoopInv, Optional, Bundles
  <2> QED
    BY <2>1, <2>2 DEF IInv, CmdInv
<1> QED
  BY InvariantHolds, <1>1, PTL

-----------------------------------------------------------------------------
(* The refinement: for every bundle the controller takes only steps of     *)
(* StreamContract, or a panic after the session failed.  ClientStreamProofs *)
(* has the stream's side of it.                                            *)

\* Nobody has got a bundle that a closed controller made: what the session and
\* its handler use was the current bundle once, or is about to be.
Handed(b) == b <= currentCB \/ (lpc \in {"closeOld", "closeOldMsg"} /\ b = lcb)

HandedInv ==
    /\ Handed(chRefreshed) /\ Handed(scb) /\ Handed(sendFn)
    /\ \A w \in Workers : Handed(wfn[w])

\* RefreshOffer hands a bundle over; it becomes the current one before the
\* mutex is released.
LEMMA HandedStep == ASSUME IInv, HandedInv, [Next]_vars PROVE HandedInv'
<1> USE ControllerAssumption DEF IInv, TypeOK, Optional
<1>1. ASSUME NEW b \in Optional, Handed(b) PROVE Handed(b)'
  <2> USE <1>1 DEF Handed
  <2>1. CASE Refresh \/ RefreshCancelled
    BY <2>1 DEF Refresh, RefreshCancelled
  <2>2. CASE RefreshOffer
    BY <2>2 DEF RefreshOffer, LoopInv, Refreshing
  <2>3. CASE RefreshCloseOld
    BY <2>3 DEF RefreshCloseOld, ctlVars
  <2>4. CASE RefreshCloseOldMsg
    BY <2>4 DEF RefreshCloseOldMsg, LoopInv, Refreshing
  <2>5. CASE /\ lpc \notin {"closeOld", "closeOldMsg"}
             /\ currentCB' = currentCB
    BY <2>5
  <2>6. CASE UNCHANGED <<lpc, lcb, currentCB>>
    BY <2>6
  <2>7. CASE StreamFails \/ StreamStarts \/ StreamCloses \/ StreamReturns
    <3>1. lpc \notin {"closeOld", "closeOldMsg"} /\ currentCB' = currentCB
      BY <2>7 DEF StreamFails, StreamStarts, StreamCloses, StreamReturns, ctlVars
    <3> QED
      BY <2>5, <3>1
  <2>8. CASE StreamCommand \/ StreamMessage \/ Close \/ Cancel \/ Terminated \/ UNCHANGED vars
    <3>1. UNCHANGED <<lpc, lcb, currentCB>>
      BY Zenon, <2>8 DEF StreamCommand, StreamMessage, Close, Cancel, Terminated, vars, ctlVars
    <3> QED
      BY <2>6, <3>1
  <2>9. CASE SessionNext \/ WorkerNext
    <3>1. UNCHANGED <<lpc, lcb, currentCB>>
      BY Zenon, <2>9 DEF SessionNext, SessionTake, SessionExit, SessionRegister, SessionCommand,
         SessionEnds, SessionHandle, SessionReply, SessionFail, SessionFailMsg, WorkerNext,
         WorkerLoad, WorkerSend, otherThanSession, otherThanWorker, ctlVars
    <3> QED
      BY <2>6, <3>1
  <2> QED
    BY Zenon, <2>1, <2>2, <2>3, <2>4, <2>7, <2>8, <2>9 DEF Next, LoopNext
<1>2. Handed(0)
  BY DEF Handed
<1>3. Handed(chRefreshed)'
  <2>1. CASE RefreshOffer
    <3>1. chRefreshed' = lcb /\ lcb' = lcb
      BY <2>1 DEF RefreshOffer
    <3>2. lpc' = "closeOld" \/ currentCB' = lcb
      BY <2>1 DEF RefreshOffer
    <3> QED
      BY <3>1, <3>2 DEF Handed
  <2>2. CASE ~RefreshOffer
    <3>1. chRefreshed' \in {0, chRefreshed}
      BY Zenon, <2>2 DEF Next, LoopNext, Refresh, RefreshCancelled, RefreshCloseOld,
         RefreshCloseOldMsg, StreamFails, StreamStarts, StreamCommand, StreamMessage,
         StreamCloses, StreamReturns, Close, Cancel, Terminated, SessionNext, SessionTake,
         SessionExit, SessionRegister, SessionCommand, SessionEnds, SessionHandle, SessionReply,
         SessionFail, SessionFailMsg, WorkerNext, WorkerLoad, WorkerSend, otherThanSession,
         otherThanWorker, ctlVars, vars
    <3> QED
      BY <1>1, <1>2, <3>1 DEF HandedInv
  <2> QED
    BY <2>1, <2>2
<1>4. Handed(scb)' /\ Handed(sendFn)'
  <2>1. scb' \in {scb, chRefreshed} /\ sendFn' \in {sendFn, scb}
    BY Zenon DEF Next, LoopNext, Refresh, RefreshCancelled, RefreshOffer, RefreshCloseOld,
       RefreshCloseOldMsg, StreamFails, StreamStarts, StreamCommand, StreamMessage,
       StreamCloses, StreamReturns, Close, Cancel, Terminated, SessionNext, SessionTake,
       SessionExit, SessionRegister, SessionCommand, SessionEnds, SessionHandle, SessionReply,
       SessionFail, SessionFailMsg, WorkerNext, WorkerLoad, WorkerSend, otherThanWorker,
       otherThanLoop, vars
  <2> QED
    BY <1>1, <2>1 DEF HandedInv
<1>5. ASSUME NEW w \in Workers PROVE Handed(wfn[w])'
  <2>1. wfn'[w] \in {0, wfn[w], sendFn}
    <3>1. CASE WorkerNext
      BY <3>1 DEF WorkerNext, WorkerLoad, WorkerSend
    <3>2. CASE wfn' = wfn
      BY <3>2
    <3>3. WorkerNext \/ wfn' = wfn
      BY Zenon DEF Next, LoopNext, Refresh, RefreshCancelled, RefreshOffer, RefreshCloseOld,
         RefreshCloseOldMsg, StreamFails, StreamStarts, StreamCommand, StreamMessage,
         StreamCloses, StreamReturns, Close, Cancel, Terminated, SessionNext, SessionTake,
         SessionExit, SessionRegister, SessionCommand, SessionEnds, SessionHandle, SessionReply,
         SessionFail, SessionFailMsg, otherThanSession, otherThanLoop, vars
    <3> QED
      BY <3>1, <3>2, <3>3
  <2> QED
    BY <1>1, <1>2, <2>1 DEF HandedInv
<1> QED
  BY <1>3, <1>4, <1>5 DEF HandedInv

\* Every bundle starts fresh.
LEMMA BundlesFresh == Init => \A b \in Bundles : Contract(b)!Init
<1> SUFFICES ASSUME Init, NEW b \in Bundles PROVE Contract(b)!Init
  OBVIOUS
<1>1. PhaseOf(b) = "new"
  BY ControllerAssumption DEF Init, PhaseOf, Bundles
<1> QED
  BY <1>1, PanicType DEF Init, Contract!Init, MisuseOf

\* The current bundle's msgCh is open unless the session fails.
LEMMA CurrentIsOpen == ASSUME IInv, SessionNeverFails PROVE currentCB \notin msgClosed
<1>1. currentCB \in Nat
  BY ControllerAssumption DEF IInv, TypeOK, Optional, Bundles
<1>2. \A b \in msgClosed : b < currentCB \/ b > currentCB
  BY Zenon DEF IInv, CloseInv
<1> QED
  BY <1>1, <1>2

\* Steps of RefreshChannels only ever close msgCh, and only once.
LEMMA RefreshKeeps ==
    ASSUME IInv, panic = NoPanic, NEW b \in Bundles,
           \/ Refresh \/ RefreshCancelled \/ RefreshOffer
           \/ RefreshCloseOld \/ RefreshCloseOldMsg,
           panic' = NoPanic \/ SessionNeverFails
    PROVE  [Contract(b)!Next]_(Contract(b)!vars)
<1> USE ControllerAssumption DEF IInv, TypeOK, Bundles, Optional, otherThanLoop, ctlVars, chanVars
<1>1. PhaseOf(b)' = PhaseOf(b)
  BY DEF PhaseOf, Refresh, RefreshCancelled, RefreshOffer, RefreshCloseOld,
     RefreshCloseOldMsg, LoopInv, Refreshing
<1>2. cmdCh' = cmdCh /\ msgCh' = msgCh /\ cmdClosed' = cmdClosed
  BY Zenon DEF Refresh, RefreshCancelled, RefreshOffer, RefreshCloseOld, RefreshCloseOldMsg
<1>3. (b \in msgClosed)' = (b \in msgClosed) \/ (b \notin msgClosed /\ (b \in msgClosed)')
  <2>1. msgClosed \subseteq msgClosed'
    BY Zenon DEF Refresh, RefreshCancelled, RefreshOffer, RefreshCloseOld, RefreshCloseOldMsg
  <2> QED
    BY <2>1
<1>4. MisuseOf(b)' = MisuseOf(b)
  <2>1. panic' = panic
    <3>1. CASE SessionNeverFails
      <4>1. CASE RefreshCloseOld
        <5>1. lpc = "closeOld" => currentCB \notin cbClosed
          BY <3>1 DEF CloseInv
        <5> QED
          BY Zenon, <4>1, <5>1 DEF RefreshCloseOld
      <4>2. CASE RefreshCloseOldMsg
        <5>1. currentCB \notin msgClosed
          BY Zenon, <3>1, CurrentIsOpen
        <5> QED
          BY Zenon, <4>2, <5>1 DEF RefreshCloseOldMsg
      <4>3. CASE Refresh \/ RefreshCancelled \/ RefreshOffer
        BY <4>3 DEF Refresh, RefreshCancelled, RefreshOffer
      <4> QED
        BY <4>1, <4>2, <4>3
    <3> QED
      BY <3>1
  <2> QED
    BY <2>1 DEF MisuseOf
<1>5. CASE (b \in msgClosed)' = (b \in msgClosed)
  BY <1>1, <1>2, <1>4, <1>5 DEF Contract!vars
<1>6. CASE b \notin msgClosed /\ (b \in msgClosed)'
  <2>1. Contract(b)!CloseMsg
    BY <1>1, <1>2, <1>4, <1>6 DEF Contract!CloseMsg
  <2> QED
    BY <2>1 DEF Contract!Next, Contract!OwnerStep
<1> QED
  BY <1>3, <1>5, <1>6

\* Steps of the loop's stream are those of the contract for its own bundle, and
\* no steps for the others.
LEMMA StreamKeeps ==
    ASSUME IInv, NEW b \in Bundles,
           \/ StreamFails \/ StreamStarts \/ StreamCommand \/ StreamMessage
           \/ StreamCloses \/ StreamReturns
    PROVE  [Contract(b)!Next]_(Contract(b)!vars)
<1> USE ControllerAssumption
        DEF IInv, TypeOK, Bundles, Optional, LoopInv, Streaming, otherThanLoop, ctlVars, chanVars
<1>0. MisuseOf(b)' = MisuseOf(b)
  <2>1. panic' = panic
    BY Zenon DEF StreamFails, StreamStarts, StreamCommand, StreamMessage, StreamCloses, StreamReturns
  <2> QED
    BY Zenon, <2>1 DEF MisuseOf
<1>1. CASE StreamFails
  <2>1. CASE b = made
    <3>1. Contract(b)!Fail
      BY <1>0, <1>1, <2>1 DEF StreamFails, PhaseOf, Contract!Fail
    <3> QED
      BY <3>1 DEF Contract!Next, Contract!StreamStep
  <2>2. CASE b # made
    BY <1>0, <1>1, <2>2 DEF StreamFails, PhaseOf, Contract!vars
  <2> QED
    BY <2>1, <2>2
<1>2. CASE StreamStarts
  <2>1. lcb = made
    BY <1>2 DEF StreamStarts
  <2>2. CASE b = made
    <3>1. Contract(b)!Connect
      BY <1>0, <1>2, <2>1, <2>2 DEF StreamStarts, PhaseOf, Contract!Connect
    <3> QED
      BY <3>1 DEF Contract!Next, Contract!StreamStep
  <2>3. CASE b # made
    BY <1>0, <1>2, <2>1, <2>3 DEF StreamStarts, PhaseOf, Contract!vars
  <2> QED
    BY <2>2, <2>3
<1>3. CASE StreamCommand
  <2>1. CASE b = lcb
    <3>1. lcb \notin cmdClosed
      BY <1>3 DEF StreamCommand, CmdInv
    <3>2. Contract(b)!Command
      BY <1>0, <1>3, <2>1, <3>1 DEF StreamCommand, PhaseOf, Contract!Command
    <3> QED
      BY <3>2 DEF Contract!Next, Contract!StreamStep
  <2>2. CASE b # lcb
    BY <1>0, <1>3, <2>2 DEF StreamCommand, PhaseOf, Contract!vars
  <2> QED
    BY <2>1, <2>2
<1>4. CASE StreamMessage
  <2>1. CASE b = lcb
    <3>1. Contract(b)!Message
      BY <1>0, <1>4, <2>1 DEF StreamMessage, PhaseOf, Contract!Message
    <3> QED
      BY <3>1 DEF Contract!Next, Contract!StreamStep
  <2>2. CASE b # lcb
    BY <1>0, <1>4, <2>2 DEF StreamMessage, PhaseOf, Contract!vars
  <2> QED
    BY <2>1, <2>2
<1>5. CASE StreamCloses
  <2>1. CASE b = lcb
    <3>1. lcb \notin cmdClosed
      BY <1>5 DEF StreamCloses, CmdInv
    <3>2. Contract(b)!CloseCmd
      BY <1>0, <1>5, <2>1, <3>1 DEF StreamCloses, PhaseOf, Contract!CloseCmd
    <3> QED
      BY <3>2 DEF Contract!Next, Contract!StreamStep
  <2>2. CASE b # lcb
    <3>1. PhaseOf(b)' = PhaseOf(b)
      BY <1>0, <1>5, <2>2 DEF StreamCloses, PhaseOf
    <3> QED
      BY <1>0, <1>5, <2>2, <3>1 DEF StreamCloses, Contract!vars
  <2> QED
    BY <2>1, <2>2
<1>6. CASE StreamReturns
  <2>1. CASE b = lcb
    <3>1. lcb \in cmdClosed
      BY <1>6 DEF StreamReturns, CmdInv
    <3>2. Contract(b)!Return
      BY <1>0, <1>6, <2>1, <3>1 DEF StreamReturns, PhaseOf, Contract!Return
    <3> QED
      BY <3>2 DEF Contract!Next, Contract!StreamStep
  <2>2. CASE b # lcb
    BY <1>0, <1>6, <2>2 DEF StreamReturns, PhaseOf, Contract!vars
  <2> QED
    BY <2>1, <2>2
<1> QED
  BY <1>1, <1>2, <1>3, <1>4, <1>5, <1>6

\* sendMsg puts a message into an open channel, or nothing; a closed channel
\* is one whose stream is over.
LEMMA SendKeeps ==
    ASSUME IInv, panic = NoPanic, NEW b \in Bundles, NEW d \in Bundles, Handed(d), SendMsg(d),
           UNCHANGED <<made, lpc, lcb, cmdCh, cmdClosed, msgClosed>>,
           panic' = NoPanic \/ SessionNeverFails
    PROVE  [Contract(b)!Next]_(Contract(b)!vars)
<1>1. PhaseOf(b)' = PhaseOf(b)
  BY DEF PhaseOf
<1>2. CASE msgCh' = msgCh /\ panic' = panic
  BY <1>1, <1>2 DEF Contract!vars, MisuseOf
<1>3. CASE /\ d \notin msgClosed /\ msgCh[d] = 0 /\ msgCh' = [msgCh EXCEPT ![d] = 1]
           /\ panic' = panic
  <2>1. MisuseOf(b)' = MisuseOf(b)
    BY <1>3 DEF MisuseOf
  <2>2. CASE b = d
    <3>1. Contract(b)!PutMsg
      BY <1>1, <1>3, <2>1, <2>2 DEF Contract!PutMsg, IInv, TypeOK
    <3> QED
      BY <3>1 DEF Contract!Next, Contract!OwnerStep
  <2>3. CASE b # d
    BY <1>1, <1>3, <2>1, <2>3 DEF Contract!vars, IInv, TypeOK
  <2> QED
    BY <2>2, <2>3
<1>4. CASE d \in msgClosed /\ panic' = <<"send", d>> /\ msgCh' = msgCh
  <2>1. <<"send", d>>[1] = "send" /\ <<"send", d>>[2] = d /\ NoPanic = <<"none", 0>>
    BY DEF NoPanic
  <2>2. SessionNeverFails
    BY <1>4, <2>1
  <2>3. CASE b = d
    <3>1. PhaseOf(b) = "over"
      <4>1. d < currentCB \/ (d > currentCB /\ ctlClosed = TRUE)
        BY <1>4, <2>2 DEF IInv, CloseInv
      <4>2. ctlClosed = TRUE => lpc \notin {"closeOld", "closeOldMsg"}
        BY DEF IInv, LockInv, Refreshing
      <4>3. d < currentCB
        BY <4>1, <4>2, ControllerAssumption DEF Handed, IInv, TypeOK, Optional, Bundles
      <4>4. d < made /\ (lpc \in Streaming => lcb = made)
        BY <4>3, ControllerAssumption DEF IInv, TypeOK, LoopInv, Optional, Bundles
      <4> QED
        BY <4>4, <2>3, ControllerAssumption
           DEF PhaseOf, Streaming, IInv, TypeOK, Optional, Bundles
    <3>2. MisuseOf(b) = "none" /\ MisuseOf(b)' = "send"
      BY Zenon, <1>4, <2>1, <2>3, PanicType DEF MisuseOf
    <3>3. Contract(b)!LateSend
      BY Zenon, <1>1, <1>4, <2>3, <3>1, <3>2 DEF Contract!LateSend
    <3> QED
      BY <3>3 DEF Contract!Next, Contract!OwnerStep
  <2>4. CASE b # d
    <3>1. MisuseOf(b) = "none" /\ MisuseOf(b)' = "none"
      BY <1>4, <2>1, <2>4, PanicType DEF MisuseOf
    <3> QED
      BY <1>1, <1>4, <3>1 DEF Contract!vars
  <2> QED
    BY <2>3, <2>4
<1> QED
  BY <1>2, <1>3, <1>4 DEF SendMsg

\* The session takes commands, sends messages and, when it fails, closes msgCh.
LEMMA SessionKeeps ==
    ASSUME IInv, HandedInv, panic = NoPanic, NEW b \in Bundles, SessionNext,
           panic' = NoPanic \/ SessionNeverFails
    PROVE  [Contract(b)!Next]_(Contract(b)!vars)
<1> USE ControllerAssumption DEF IInv, TypeOK, Bundles, Optional, otherThanSession, ctlVars, chanVars
<1>1. PhaseOf(b)' = PhaseOf(b)
  BY DEF PhaseOf, SessionNext, SessionTake, SessionExit, SessionRegister, SessionCommand,
     SessionEnds, SessionHandle, SessionReply, SessionFail, SessionFailMsg
<1>0. panic' = panic => MisuseOf(b)' = MisuseOf(b)
  BY DEF MisuseOf
<1>2. CASE SessionTake \/ SessionExit \/ SessionRegister \/ SessionEnds \/ SessionHandle
  <2>1. UNCHANGED <<cmdCh, msgCh, cmdClosed, msgClosed, panic>>
    BY Zenon, <1>2 DEF SessionTake, SessionExit, SessionRegister, SessionEnds, SessionHandle
  <2> QED
    BY Zenon, <1>0, <1>1, <2>1 DEF Contract!vars
<1>3. CASE SessionCommand
  <2>1. CASE b = scb
    <3>1. Contract(b)!TakeCmd
      BY <1>0, <1>1, <1>3, <2>1 DEF SessionCommand, Contract!TakeCmd
    <3> QED
      BY <3>1 DEF Contract!Next, Contract!OwnerStep
  <2>2. CASE b # scb
    BY <1>0, <1>1, <1>3, <2>2 DEF SessionCommand, Contract!vars
  <2> QED
    BY <2>1, <2>2
<1>4. CASE SessionReply
  <2>1. scb \in Bundles
    BY <1>4 DEF SessionReply, KnownInv
  <2>2. CASE SendMsg(scb)
    <3>1. Handed(scb) /\ UNCHANGED <<made, lpc, lcb, cmdCh, cmdClosed, msgClosed>>
      BY <1>4 DEF SessionReply, HandedInv
    <3> QED
      BY Zenon, <2>1, <2>2, <3>1, SendKeeps DEF Bundles
  <2>3. CASE msgCh' = msgCh /\ panic' = panic
    BY <1>0, <1>1, <1>4, <2>3 DEF SessionReply, Contract!vars
  <2> QED
    BY <1>4, <2>2, <2>3 DEF SessionReply
<1>5. CASE SessionFail
  <2>1. panic' = panic
    BY <1>5 DEF SessionFail, CloseInv
  <2> QED
    BY <1>0, <1>1, <1>5, <2>1 DEF SessionFail, Contract!vars
<1>6. CASE SessionFailMsg
  <2>1. /\ cmdCh' = cmdCh /\ msgCh' = msgCh /\ cmdClosed' = cmdClosed
        /\ panic' = panic
    BY <1>6 DEF SessionFailMsg, CloseInv
  <2>2. CASE b = scb /\ b \notin msgClosed
    <3>1. Contract(b)!CloseMsg
      BY <1>0, <1>1, <1>6, <2>1, <2>2 DEF SessionFailMsg, Contract!CloseMsg
    <3> QED
      BY <3>1 DEF Contract!Next, Contract!OwnerStep
  <2>3. CASE b # scb \/ b \in msgClosed
    <3>1. (b \in msgClosed)' = (b \in msgClosed)
      BY <1>6, <2>3 DEF SessionFailMsg
    <3> QED
      BY <1>0, <1>1, <2>1, <3>1 DEF Contract!vars
  <2> QED
    BY <2>2, <2>3
<1> QED
  BY <1>2, <1>3, <1>4, <1>5, <1>6 DEF SessionNext

\* Every other step leaves the contract alone, or sends a message.
LEMMA OthersKeep ==
    ASSUME IInv, HandedInv, NEW b \in Bundles,
           \/ panic = NoPanic /\ (WorkerNext \/ Close \/ Cancel)
           \/ Terminated \/ UNCHANGED vars,
           panic' = NoPanic \/ SessionNeverFails
    PROVE  [Contract(b)!Next]_(Contract(b)!vars)
<1>1. ASSUME NEW w \in Workers, panic = NoPanic, WorkerSend(w), SendMsg(wfn[w])
      PROVE  [Contract(b)!Next]_(Contract(b)!vars)
  <2>1. wfn[w] \in Bundles
    BY <1>1, ControllerAssumption DEF WorkerSend, IInv, TypeOK, KnownInv, Bundles, Optional
  <2>2. UNCHANGED <<made, lpc, lcb, cmdCh, cmdClosed, msgClosed>>
    BY <1>1 DEF WorkerSend, otherThanWorker, ctlVars
  <2>3. Handed(wfn[w])
    BY DEF HandedInv
  <2> QED
    BY Zenon, <1>1, <2>1, <2>2, <2>3, SendKeeps
<1>2. CASE UNCHANGED <<made, lpc, lcb, cmdCh, msgCh, cmdClosed, msgClosed, panic>>
  <2>1. PhaseOf(b)' = PhaseOf(b)
    BY <1>2 DEF PhaseOf
  <2> QED
    BY Zenon, <1>2, <2>1 DEF Contract!vars, MisuseOf
<1>3. \/ panic = NoPanic /\ \E w \in Workers : WorkerSend(w) /\ SendMsg(wfn[w])
      \/ UNCHANGED <<made, lpc, lcb, cmdCh, msgCh, cmdClosed, msgClosed, panic>>
  BY Zenon DEF WorkerNext, WorkerLoad, WorkerSend, Close, Cancel, Terminated, vars,
     otherThanWorker, otherThanLoop, ctlVars, chanVars
<1> QED
  BY <1>1, <1>2, <1>3

\* KeepsContract for every bundle: what ClientStream expects of the owner of
\* its channels is what RefreshChannels, handleSession and sendMsg do, in any
\* interleaving; unless the session fails, msgCh is closed once, and hit after
\* that only by messages whose stream is over.
THEOREM BundlesKeepContract == Spec => KeepsContract
<1>1. Spec => []HandedInv
  <2>1. Init => HandedInv
    BY DEF Init, HandedInv, Handed
  <2> QED
    BY <2>1, InvariantHolds, HandedStep, PTL DEF Spec
<1>2. IInv /\ HandedInv /\ [Next]_vars
        => [\A b \in Bundles : \/ [Contract(b)!Next]_(Contract(b)!vars)
                               \/ ~SessionNeverFails /\ panic' # NoPanic]_vars
  <2> SUFFICES ASSUME IInv, HandedInv, [Next]_vars, NEW b \in Bundles,
                      panic' = NoPanic \/ SessionNeverFails
               PROVE  [Contract(b)!Next]_(Contract(b)!vars)
    OBVIOUS
  <2> QED
    BY Zenon, RefreshKeeps, StreamKeeps, SessionKeeps, OthersKeep DEF Next, LoopNext
<1> QED
  BY InvariantHolds, BundlesFresh, <1>1, <1>2, PTL DEF Spec, KeepsContract

=============================================================================
