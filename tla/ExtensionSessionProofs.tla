----------------------- MODULE ExtensionSessionProofs -----------------------
(***************************************************************************)
(* Proofs about ExtensionSession, for any sets of calls and keys.          *)
(***************************************************************************)
EXTENDS ExtensionSession, TLAPS

(***************************************************************************)
(* Types.  TypeOK alone is not inductive: what the receiver and the timer  *)
(* goroutine look up in msgWait is a value only if they hold a key.        *)
(***************************************************************************)
TypeInv ==
    /\ TypeOK
    /\ rpc \in {"lookup", "oob", "acquire", "send"} => rmsg \in Keys
    /\ tpc \in {"load", "close", "delete"} => tkey \in Keys

\* One step of any goroutine keeps the types: every assignment of sendCmd and
\* of the four goroutines of HandleStream is within its variable's range.
LEMMA TypeStep == TypeInv /\ [Next]_vars => TypeInv'
<1> SUFFICES ASSUME TypeInv, [Next]_vars PROVE TypeInv'
  OBVIOUS
<1> USE SessionAssumption DEF TypeInv, TypeOK, CallStates, TimerStates, GroupErrors
<1>1. CASE CallNext
  <2> SUFFICES ASSUME NEW c \in Calls,
                      CallStore(c) \/ CallDuplicate(c) \/ CallPost(c) \/ CallSteps(c)
               PROVE  TypeInv'
    BY <1>1 DEF CallNext
  <2> USE DEF otherThanCall, Goto, CloseWait, waitVars, timerVars, recvVars, groupVars
  <2>1. CASE CallStore(c)      BY <2>1 DEF CallStore
  <2>2. CASE CallDuplicate(c)  BY <2>2 DEF CallDuplicate
  <2>3. CASE CallPost(c)       BY <2>3 DEF CallPost
  <2>4. CASE CallArm(c)        BY <2>4 DEF CallArm
  <2>5. CASE CallSend(c)       BY <2>5 DEF CallSend
  <2>6. CASE CallReceive(c)    BY <2>6 DEF CallReceive
  <2>7. CASE CallTimeout(c)    BY <2>7 DEF CallTimeout
  <2>8. CASE CallCancel(c)     BY <2>8 DEF CallCancel
  <2>9. CASE CallRemove(c)     BY <2>9 DEF CallRemove
  <2>10. CASE CallClose(c)     BY <2>10 DEF CallClose
  <2>11. CASE CallDelete(c)    BY <2>11 DEF CallDelete
  <2>12. CASE CallPosted(c)    BY <2>12 DEF CallPosted
  <2> QED
    BY Zenon, <2>1, <2>2, <2>3, <2>4, <2>5, <2>6, <2>7, <2>8, <2>9, <2>10, <2>11, <2>12
       DEF CallSteps
<1>2. CASE WriterNext
  <2> USE DEF otherThanWriter, GroupReturn, waitVars, timerVars, recvVars, groupVars
  <2>1. CASE WriterTakePing         BY <2>1 DEF WriterTakePing
  <2>2. CASE WriterTakeCmd          BY <2>2 DEF WriterTakeCmd
  <2>3. CASE WriterKeepaliveClosed  BY <2>3 DEF WriterKeepaliveClosed
  <2>4. CASE WriterEncode           BY <2>4 DEF WriterEncode
  <2>5. CASE WriterEncodeFails      BY <2>5 DEF WriterEncodeFails
  <2> QED  BY <1>2, <2>1, <2>2, <2>3, <2>4, <2>5 DEF WriterNext
<1>3. CASE TimerNext
  <2> USE DEF otherThanTimer, GroupReturn, CloseWait, waitVars, recvVars, groupVars
  <2>1. CASE TimerStart       BY <2>1 DEF TimerStart
  <2>2. CASE TimerLoad        BY <2>2 DEF TimerLoad
  <2>3. CASE TimerClose
    <3>1. closed' \in [Calls -> BOOLEAN]
      BY <2>3, Zenon DEF TimerClose
    <3> QED  BY <2>3, <3>1 DEF TimerClose
  <2>4. CASE TimerDelete      BY <2>4 DEF TimerDelete
  <2>5. CASE TimerPing        BY <2>5 DEF TimerPing
  <2>6. CASE TimerPingCancel  BY <2>6 DEF TimerPingCancel
  <2>7. CASE TimerCancel      BY <2>7 DEF TimerCancel
  <2>8. CASE TimerExit        BY <2>8 DEF TimerExit
  <2>9. CASE TimerReturn      BY <2>9 DEF TimerReturn
  <2>10. ASSUME NEW e \in tq, TimerTake(e) PROVE TypeInv'
    BY <2>10 DEF TimerTake
  <2>11. ASSUME NEW k \in Keys, TimerRange(k) PROVE TypeInv'
    BY <2>11 DEF TimerRange
  <2> QED
    BY Zenon, <1>3, <2>1, <2>2, <2>3, <2>4, <2>5, <2>6, <2>7, <2>8, <2>9, <2>10, <2>11
       DEF TimerNext
<1>4. CASE ReceiverNext
  <2> USE DEF otherThanReceiver, GroupReturn, waitVars, timerVars, groupVars
  <2>1. ASSUME NEW k \in Keys, RecvDecode(k) PROVE TypeInv'
    BY <2>1 DEF RecvDecode
  <2>2. CASE RecvFails      BY <2>2 DEF RecvFails
  <2>3. CASE RecvLookup     BY <2>3 DEF RecvLookup
  <2>4. CASE RecvOutOfBand  BY <2>4 DEF RecvOutOfBand
  <2>5. CASE RecvAcquire    BY <2>5 DEF RecvAcquire
  <2>6. CASE RecvSend
    <3>1. msgCh' \in [Calls -> Keys \cup {NoKey}]
      BY <2>6 DEF RecvSend
    <3>2. working' \in [Calls -> {0, 1}]
      BY Zenon, <2>6 DEF RecvSend
    <3> QED  BY <2>6, <3>1, <3>2 DEF RecvSend
  <2> QED  BY <1>4, <2>1, <2>2, <2>3, <2>4, <2>5, <2>6 DEF ReceiverNext
<1>5. CASE GroupNext
  BY <1>5 DEF GroupNext, HandlerReturn, ExtensionClose, ParentCancel, otherThanGroup,
              GroupReturn, waitVars, timerVars, recvVars, groupVars
<1>6. CASE Terminated \/ UNCHANGED vars
  BY <1>6 DEF Terminated, vars, waitVars, timerVars, recvVars, groupVars
<1> QED  BY <1>1, <1>2, <1>3, <1>4, <1>5, <1>6 DEF Next

\* A session starts with empty channels, maps and queue: all within the types.
LEMMA TypeInit == Init => TypeInv
<1> SUFFICES ASSUME Init PROVE TypeInv
  OBVIOUS
<1> USE SessionAssumption DEF Init
<1>1. closed \in [Calls -> BOOLEAN]
  BY Zenon
<1>2. working \in [Calls -> {0, 1}] /\ peerSent \in [Keys -> 0..MaxPerKey]
  OBVIOUS
<1>3. pc \in [Calls -> CallStates] /\ msgWait \in [Keys -> Calls \cup {NoCall}]
      /\ msgCh \in [Calls -> Keys \cup {NoKey}]
  BY DEF CallStates
<1> QED  BY Zenon, <1>1, <1>2, <1>3 DEF TypeInv, TypeOK, TimerStates, GroupErrors

\* Type correctness of the session for any number of calls and keys.
THEOREM TypeCorrect == Spec => []TypeOK
<1>1. Init => TypeInv
  BY TypeInit
<1>2. TypeInv => TypeOK
  BY DEF TypeInv
<1> QED  BY <1>1, <1>2, TypeStep, PTL DEF Spec

-----------------------------------------------------------------------------
(***************************************************************************)
(* The spin lock of msgWaitValue.  Only the receiver keeps it over several *)
(* steps, between RecvAcquire and RecvSend, and it enters on open values   *)
(* only; a close() needs the lock, so the value stays open meanwhile.      *)
(***************************************************************************)
LockInv ==
    /\ rpc \in {"acquire", "send"} => rval \in Calls
    /\ rpc = "send" => working[rval] = 1 /\ ~closed[rval]
    /\ \A c \in Calls : working[c] = 1 => rpc = "send" /\ rval = c

\* The spin lock of a msgWaitValue is held by the receiver alone, and only
\* while it is in send on a value that is not closed.
LEMMA LockStep == TypeInv /\ LockInv /\ [Next]_vars => LockInv'
<1> SUFFICES ASSUME TypeInv, LockInv, [Next]_vars PROVE LockInv'
  OBVIOUS
<1> USE SessionAssumption DEF TypeInv, TypeOK, LockInv
<1>1. CASE CallNext
  <2> SUFFICES ASSUME NEW c \in Calls,
                      CallStore(c) \/ CallDuplicate(c) \/ CallPost(c) \/ CallSteps(c)
               PROVE  LockInv'
    BY <1>1 DEF CallNext
  <2>1. CASE CallDuplicate(c) \/ CallClose(c)
    BY <2>1 DEF CallDuplicate, CallClose, CloseWait, otherThanCall, recvVars
  <2>2. CASE \/ CallStore(c) \/ CallPost(c) \/ CallArm(c) \/ CallSend(c) \/ CallReceive(c)
             \/ CallTimeout(c) \/ CallCancel(c) \/ CallRemove(c) \/ CallDelete(c)
             \/ CallPosted(c)
    BY <2>2 DEF CallStore, CallPost, CallArm, CallSend, CallReceive, CallTimeout,
                CallCancel, CallRemove, CallDelete, CallPosted, otherThanCall,
                recvVars, waitVars
  <2> QED  BY <2>1, <2>2 DEF CallSteps
<1>2. CASE WriterNext
  BY <1>2 DEF WriterNext, WriterTakePing, WriterTakeCmd, WriterKeepaliveClosed,
              WriterEncode, WriterEncodeFails, otherThanWriter, recvVars, waitVars
<1>3. CASE TimerNext
  <2>1. CASE TimerClose
    BY <2>1 DEF TimerClose, CloseWait, otherThanTimer, recvVars
  <2>2. UNCHANGED <<waitVars, recvVars>> \/ TimerClose
    BY <1>3 DEF TimerNext, TimerStart, TimerLoad, TimerDelete, TimerPing,
                TimerPingCancel, TimerCancel, TimerExit, TimerReturn, TimerTake,
                TimerRange, otherThanTimer
  <2> QED  BY <2>1, <2>2 DEF waitVars, recvVars
<1>4. CASE ReceiverNext
  <2> USE DEF otherThanReceiver, waitVars
  <2>1. ASSUME NEW k \in Keys, RecvDecode(k) PROVE LockInv'
    BY <2>1 DEF RecvDecode
  <2>2. CASE RecvFails      BY <2>2 DEF RecvFails
  <2>3. CASE RecvLookup     BY <2>3 DEF RecvLookup
  <2>4. CASE RecvOutOfBand  BY <2>4 DEF RecvOutOfBand
  <2>5. CASE RecvAcquire    BY <2>5 DEF RecvAcquire
  <2>6. CASE RecvSend       BY <2>6 DEF RecvSend
  <2> QED  BY <1>4, <2>1, <2>2, <2>3, <2>4, <2>5, <2>6 DEF ReceiverNext
<1>5. CASE GroupNext
  BY <1>5 DEF GroupNext, HandlerReturn, ExtensionClose, ParentCancel, otherThanGroup,
              waitVars, recvVars
<1>6. CASE Terminated \/ UNCHANGED vars
  BY <1>6 DEF Terminated, vars, waitVars, recvVars
<1> QED  BY <1>1, <1>2, <1>3, <1>4, <1>5, <1>6 DEF Next

\* msgWaitValue.send never sends on a closed msgCh, also when calls repeat
\* keys and the timer goroutine closes values at any time.
THEOREM SendIsOpen == Spec => []NoSendOnClosed
<1>1. Init => TypeInv /\ LockInv
  BY TypeInit DEF Init, LockInv
<1>2. TypeInv /\ LockInv /\ [Next]_vars => (TypeInv /\ LockInv)'
  BY TypeStep, LockStep
<1>3. LockInv => NoSendOnClosed
  BY DEF LockInv, NoSendOnClosed
<1> QED  BY <1>1, <1>2, <1>3, PTL DEF Spec

-----------------------------------------------------------------------------
(***************************************************************************)
(* The errgroup.  A cancelled context without an error can only come from  *)
(* the parent, and the timer goroutine gives up, and closes keepaliveCh,   *)
(* only once the context is done.                                          *)
(***************************************************************************)
GroupInv ==
    /\ ctx = "live" => groupErr = "nil"
    /\ ctx = "group" => groupErr # "nil"
    /\ draining \/ tpc \in {"range", "return", "exit"} => ctxDone
    /\ tpc = "range" => draining
    /\ CleanExit

\* The timer goroutine ends, and so closes keepaliveCh, only once the context
\* is done: an error is recorded by then, or the parent was cancelled.
LEMMA GroupStep == TypeInv /\ GroupInv /\ [Next]_vars => GroupInv'
<1> SUFFICES ASSUME TypeInv, GroupInv, [Next]_vars PROVE GroupInv'
  OBVIOUS
<1> USE DEF GroupInv, CleanExit, ctxDone, groupVars
<1>1. CASE CallNext
  <2>1. UNCHANGED <<groupVars, timerVars>>
    BY <1>1 DEF CallNext, CallSteps, CallStore, CallDuplicate, CallPost, CallArm, CallSend,
                CallReceive, CallTimeout, CallCancel, CallRemove, CallClose, CallDelete,
                CallPosted, otherThanCall
  <2> QED  BY <2>1 DEF timerVars
<1>2. CASE WriterNext
  BY <1>2 DEF WriterNext, WriterTakePing, WriterTakeCmd, WriterKeepaliveClosed,
              WriterEncode, WriterEncodeFails, otherThanWriter, timerVars, GroupReturn,
              KeepaliveClosed, TypeInv, TypeOK
<1>3. CASE TimerNext
  <2>1. CASE TimerReturn  BY <2>1 DEF TimerReturn, GroupReturn
  <2>2. CASE TimerCancel  BY <2>2 DEF TimerCancel
  <2>3. CASE TimerExit    BY <2>3 DEF TimerExit
  <2>4. CASE TimerDelete  BY <2>4 DEF TimerDelete
  <2>5. CASE TimerStart \/ TimerLoad \/ TimerClose \/ TimerPing \/ TimerPingCancel
    BY <2>5 DEF TimerStart, TimerLoad, TimerClose, TimerPing, TimerPingCancel
  <2>6. ASSUME NEW e \in tq, TimerTake(e) PROVE GroupInv'
    BY <2>6 DEF TimerTake
  <2>7. ASSUME NEW k \in Keys, TimerRange(k) PROVE GroupInv'
    BY <2>7 DEF TimerRange
  <2> QED
    BY <1>3, <2>1, <2>2, <2>3, <2>4, <2>5, <2>6, <2>7 DEF TimerNext
<1>4. CASE ReceiverNext
  BY <1>4 DEF ReceiverNext, RecvDecode, RecvFails, RecvLookup, RecvOutOfBand, RecvAcquire,
              RecvSend, otherThanReceiver, timerVars, GroupReturn
<1>5. CASE GroupNext
  BY <1>5 DEF GroupNext, HandlerReturn, ExtensionClose, ParentCancel, otherThanGroup,
              timerVars, GroupReturn
<1>6. CASE Terminated \/ UNCHANGED vars
  BY <1>6 DEF Terminated, vars, timerVars
<1> QED  BY <1>1, <1>2, <1>3, <1>4, <1>5, <1>6 DEF Next

\* HandleStream reports the writer's io.ErrUnexpectedEOF for a closed
\* keepaliveCh only after a cancellation from outside, whatever the order in
\* which its goroutines end.
THEOREM ExitIsClean == Spec => []CleanExit
<1>1. Init => TypeInv /\ GroupInv
  BY TypeInit DEF Init, GroupInv, CleanExit, ctxDone
<1>2. TypeInv /\ GroupInv /\ [Next]_vars => (TypeInv /\ GroupInv)'
  BY TypeStep, GroupStep
<1>3. GroupInv => CleanExit
  BY DEF GroupInv
<1> QED  BY <1>1, <1>2, <1>3, PTL DEF Spec

-----------------------------------------------------------------------------
(***************************************************************************)
(* Calls whose keys take turns.  What makes NoStrandedWaiter inductive is  *)
(* that the timer goroutine, from the moment it takes an entry until it    *)
(* deletes the key, deals with a call that has started, has no other entry *)
(* in the queue, and is closed before its key is deleted.                  *)
(***************************************************************************)
Pending == {"arm", "send", "wait"}

\* A value in msgWait is that of a call with this key which has not ended; what
\* the timer goroutine is about to close belongs to the key it will delete.
MapInv ==
    /\ \A k \in Keys : msgWait[k] # NoCall =>
          /\ KeyOf[msgWait[k]] = k
          /\ pc[msgWait[k]] \in Pending \cup {"remove", "close", "delete"}
    /\ tpc = "close" => tval \in Calls /\ KeyOf[tval] = tkey /\ pc[tval] \notin {"idle", "post"}

\* The timer goroutine is at the key of call c.
TimerAt(c) == tpc \in {"load", "close", "delete"} /\ tkey = KeyOf[c]

\* One call, and the timer goroutine while it is at the call's key.
CallInv(c) ==
    /\ pc[c] = "idle" => ~closed[c]
    /\ c \in tq => pc[c] \in {"send", "wait", "remove"}
    /\ ctx = "live" =>
          /\ pc[c] \in Pending => msgWait[KeyOf[c]] = c \/ closed[c]
          /\ TimerAt(c) => pc[c] # "arm" /\ c \notin tq
          /\ TimerAt(c) /\ tpc = "close" /\ pc[c] \in Pending => tval = c \/ closed[c]
          /\ TimerAt(c) /\ tpc = "delete" /\ pc[c] \in Pending => closed[c]
          /\ pc[c] \in {"send", "wait"} =>
                closed[c] \/ c \in tq \/ (TimerAt(c) /\ tpc # "delete")
          /\ pc[c] \in Pending /\ closed[c] => pc[c] # "arm" /\ c \notin tq

WaitInv == MapInv /\ \A c \in Calls : CallInv(c)

\* The types the proofs about calls need, and what GroupInv says of the timer.
WaitTypes ==
    /\ pc \in [Calls -> CallStates] /\ closed \in [Calls -> BOOLEAN]
    /\ msgWait \in [Keys -> Calls \cup {NoCall}]
    /\ tq \subseteq Calls \cup {Keepalive}
    /\ tpc \in {"load", "close", "delete"} => tkey \in Keys
    /\ draining \/ tpc \in {"range", "return", "exit"} => ctx # "live"
    /\ tpc = "range" => draining

\* With keys of their own, no call takes another one's entry in msgWait, and
\* the timer goroutine closes the value of the key it deletes.
LEMMA MapStep ==
    ASSUME WaitTypes, WaitInv, [Next]_vars
    PROVE  MapInv'
<1> USE SessionAssumption
    DEF WaitTypes, CallStates, WaitInv, MapInv, Pending, ctxDone
<1>1. CASE CallNext
  <2> SUFFICES ASSUME NEW c \in Calls,
                      CallStore(c) \/ CallDuplicate(c) \/ CallPost(c) \/ CallSteps(c)
               PROVE  MapInv'
    BY Zenon, <1>1 DEF CallNext
  <2> USE DEF otherThanCall, Goto, CloseWait, waitVars, timerVars, groupVars
  <2>1. CASE CallStore(c)      BY <2>1 DEF CallStore
  <2>2. CASE CallDuplicate(c)  BY <2>2 DEF CallDuplicate
  <2>3. CASE CallPost(c)       BY <2>3 DEF CallPost
  <2>4. CASE CallArm(c)        BY <2>4 DEF CallArm
  <2>5. CASE CallSend(c)       BY <2>5 DEF CallSend
  <2>6. CASE CallReceive(c)    BY <2>6 DEF CallReceive
  <2>7. CASE CallTimeout(c)    BY <2>7 DEF CallTimeout
  <2>8. CASE CallCancel(c)     BY <2>8 DEF CallCancel
  <2>9. CASE CallRemove(c)     BY <2>9 DEF CallRemove
  <2>10. CASE CallClose(c)     BY <2>10 DEF CallClose
  <2>11. CASE CallDelete(c)    BY <2>11 DEF CallDelete
  <2>12. CASE CallPosted(c)    BY <2>12 DEF CallPosted
  <2> QED
    BY Zenon, <2>1, <2>2, <2>3, <2>4, <2>5, <2>6, <2>7, <2>8, <2>9, <2>10, <2>11, <2>12
       DEF CallSteps
<1>3. CASE TimerNext
  <2> USE DEF otherThanTimer, CloseWait, waitVars, groupVars, GroupReturn
  <2>1. CASE TimerStart       BY <2>1 DEF TimerStart
  <2>2. CASE TimerLoad        BY <2>2 DEF TimerLoad
  <2>3. CASE TimerClose       BY <2>3 DEF TimerClose
  <2>4. CASE TimerDelete      BY <2>4 DEF TimerDelete
  <2>5. CASE TimerPing        BY <2>5 DEF TimerPing
  <2>6. CASE TimerPingCancel  BY <2>6 DEF TimerPingCancel
  <2>7. CASE TimerCancel      BY <2>7 DEF TimerCancel
  <2>8. CASE TimerExit        BY <2>8 DEF TimerExit
  <2>9. CASE TimerReturn      BY <2>9 DEF TimerReturn
  <2>10. ASSUME NEW e \in tq, TimerTake(e) PROVE MapInv'
    BY <2>10 DEF TimerTake
  <2>11. ASSUME NEW k \in Keys, TimerRange(k) PROVE MapInv'
    BY <2>11 DEF TimerRange
  <2> QED
    BY Zenon, <1>3, <2>1, <2>2, <2>3, <2>4, <2>5, <2>6, <2>7, <2>8, <2>9, <2>10, <2>11
       DEF TimerNext
<1>4. CASE WriterNext \/ ReceiverNext \/ GroupNext \/ Terminated \/ UNCHANGED vars
  <2>1. /\ UNCHANGED <<pc, closed, msgWait, tq, timerVars>>
        /\ ctx # "live" => ctx' # "live"
    BY Zenon, <1>4 DEF WriterNext, WriterTakePing, WriterTakeCmd, WriterKeepaliveClosed,
         WriterEncode, WriterEncodeFails, otherThanWriter, ReceiverNext, RecvDecode,
         RecvFails, RecvLookup, RecvOutOfBand, RecvAcquire, RecvSend, otherThanReceiver,
         GroupNext, HandlerReturn, ExtensionClose, ParentCancel, otherThanGroup,
         GroupReturn, Terminated, vars, waitVars, groupVars
  <2> QED  BY <2>1 DEF timerVars
<1> QED  BY <1>1, <1>3, <1>4 DEF Next

\* A call that has not finished keeps its entry in msgWait and its timeout
\* armed, or is already closed by the timer goroutine.
LEMMA CallStep ==
    ASSUME KeysTakeTurns, KeysTakeTurns', WaitTypes, WaitInv, [Next]_vars, NEW d \in Calls
    PROVE  CallInv(d)'
<1>inv. MapInv /\ CallInv(d)
  BY DEF WaitInv
<1>turn. ASSUME NEW c \in Calls, KeyOf[c] = KeyOf[d], InUse(c), InUse(d)
         PROVE  c = d
  BY Zenon, <1>turn DEF KeysTakeTurns
<1>next. ASSUME NEW c \in Calls, KeyOf[c] = KeyOf[d], InUse(c)', InUse(d)'
         PROVE  c = d
  BY Zenon, <1>next DEF KeysTakeTurns, InUse
<1>all. \A c, e \in Calls : InUse(e) /\ InUse(c) /\ KeyOf[e] = KeyOf[c] => e = c
  BY Zenon DEF KeysTakeTurns
<1>armed. \A e \in Calls : e \in tq => InUse(e) /\ pc[e] # "arm"
  BY Zenon DEF WaitInv, CallInv, InUse
<1> USE SessionAssumption, <1>inv
    DEF WaitTypes, CallStates, MapInv, CallInv, TimerAt, Pending, ctxDone
<1>1. CASE CallNext
  <2> SUFFICES ASSUME NEW c \in Calls,
                      CallStore(c) \/ CallDuplicate(c) \/ CallPost(c) \/ CallSteps(c)
               PROVE  CallInv(d)'
    BY Zenon, <1>1 DEF CallNext
  <2> USE DEF otherThanCall, Goto, CloseWait, waitVars, timerVars, groupVars
  <2>1. CASE CallStore(c)
    <3>1. /\ UNCHANGED <<closed, tq, tpc, tkey, tval, draining, ctx>>
          /\ pc' = [pc EXCEPT ![c] = "arm"] /\ pc[c] = "idle"
          /\ msgWait' = [msgWait EXCEPT ![KeyOf[c]] = c]
      BY Zenon, <2>1 DEF CallStore
    <3>2. pc'[c] = "arm"
      BY <3>1
    <3>3. CASE d = c
      <4>1. ctx = "live" => ~(tpc \in {"load", "close", "delete"} /\ tkey = KeyOf[c])
        BY Zenon, <3>1, <3>2 DEF KeysTakeTurns
      <4> QED  BY <3>1, <3>2, <3>3, <4>1
    <3>4. CASE d # c
      <4>1. pc'[d] = pc[d] /\ closed'[d] = closed[d]
        BY <3>1, <3>4
      <4>2. pc[d] \in Pending => KeyOf[c] # KeyOf[d]
        BY ZenonT(30), <3>2, <3>4, <4>1, <1>next DEF InUse
      <4>3. pc[d] \in Pending => msgWait'[KeyOf[d]] = msgWait[KeyOf[d]]
        BY <3>1, <4>2
      <4> QED  BY <3>1, <4>1, <4>3
    <3> QED  BY Zenon, <3>3, <3>4
  <2>2. CASE CallDuplicate(c)
    <3>1. /\ UNCHANGED <<msgWait, tq, tpc, tkey, tval, draining, ctx>>
          /\ pc' = [pc EXCEPT ![c] = "done"]
          /\ closed' = [closed EXCEPT ![c] = TRUE]
      BY Zenon, <2>2 DEF CallDuplicate
    <3>2. CASE d = c
      <4>1. pc'[d] = "done" /\ closed'[d]
        BY <3>1, <3>2
      <4> QED  BY Zenon, <2>2, <3>1, <3>2, <4>1 DEF CallDuplicate
    <3>3. CASE d # c
      <4>1. pc'[d] = pc[d] /\ closed'[d] = closed[d]
        BY <3>1, <3>3
      <4> QED  BY <3>1, <4>1
    <3> QED  BY Zenon, <3>2, <3>3
  <2>3. CASE CallPost(c)       BY <2>3 DEF CallPost
  <2>4. CASE CallArm(c)        BY <2>4 DEF CallArm
  <2>5. CASE CallSend(c)       BY <2>5 DEF CallSend
  <2>6. CASE CallReceive(c)    BY <2>6 DEF CallReceive
  <2>7. CASE CallTimeout(c)
    <3>1. /\ UNCHANGED <<msgWait, tq, tpc, tkey, tval, draining, ctx>>
          /\ pc' = [pc EXCEPT ![c] = "remove"]
          /\ closed' = closed /\ pc[c] = "wait"
      BY Zenon, <2>7 DEF CallTimeout
    <3>2. CASE d = c
      <4>1. pc'[d] = "remove"
        BY <3>1, <3>2
      <4> QED  BY <3>1, <4>1
    <3>3. CASE d # c
      <4>1. pc'[d] = pc[d] /\ closed'[d] = closed[d]
        BY <3>1, <3>3
      <4> QED  BY <3>1, <4>1
    <3> QED  BY Zenon, <3>2, <3>3
  <2>8. CASE CallCancel(c)     BY <2>8 DEF CallCancel
  <2>9. CASE CallRemove(c)
    <3>1. /\ UNCHANGED <<closed, msgWait, tpc, tkey, tval, draining, ctx>>
          /\ pc' = [pc EXCEPT ![c] = "close"] /\ pc[c] = "remove"
          /\ tq' \subseteq tq
      BY Zenon, <2>9 DEF CallRemove
    <3>2. \A e \in tq \cap Calls : KeyOf[e] = KeyOf[c] => e = c
      <4>1. InUse(c)
        BY Zenon, <3>1 DEF InUse
      <4> QED  BY Zenon, <4>1, <1>all, <1>armed
    <3>3. tq' = tq \ {c}
      BY <2>9, <3>2 DEF CallRemove
    <3>4. CASE d = c
      <4>1. pc'[d] = "close" /\ d \notin tq'
        BY <3>1, <3>3, <3>4
      <4> QED  BY <3>1, <4>1
    <3>5. CASE d # c
      <4>1. pc'[d] = pc[d] /\ (d \in tq' <=> d \in tq)
        BY <3>1, <3>3, <3>5
      <4> QED  BY <3>1, <4>1
    <3> QED  BY Zenon, <3>4, <3>5
  <2>10. CASE CallClose(c)
    <3>1. /\ UNCHANGED <<msgWait, tq, tpc, tkey, tval, draining, ctx>>
          /\ pc' = [pc EXCEPT ![c] = "delete"]
          /\ closed' = [closed EXCEPT ![c] = TRUE]
      BY Zenon, <2>10 DEF CallClose
    <3>2. CASE d = c
      <4>1. pc'[d] = "delete" /\ closed'[d]
        BY <3>1, <3>2
      <4> QED  BY Zenon, <2>10, <3>1, <3>2, <4>1 DEF CallClose
    <3>3. CASE d # c
      <4>1. pc'[d] = pc[d] /\ closed'[d] = closed[d]
        BY <3>1, <3>3
      <4> QED  BY <3>1, <4>1
    <3> QED  BY Zenon, <3>2, <3>3
  <2>11. CASE CallDelete(c)
    <3>1. /\ UNCHANGED <<closed, tq, tpc, tkey, tval, draining, ctx>>
          /\ pc' = [pc EXCEPT ![c] = "done"] /\ pc[c] = "delete"
          /\ msgWait' = [msgWait EXCEPT ![KeyOf[c]] = NoCall]
      BY Zenon, <2>11 DEF CallDelete
    <3>2. CASE d = c
      <4>1. pc'[d] = "done" /\ d \notin tq
        BY <3>1, <3>2
      <4> QED  BY <3>1, <4>1
    <3>3. CASE d # c
      <4>1. pc'[d] = pc[d]
        BY <3>1, <3>3
      <4>2. pc[d] \in Pending => KeyOf[c] # KeyOf[d]
        BY Zenon, <3>1, <3>3, <1>turn DEF InUse
      <4>3. pc[d] \in Pending => msgWait'[KeyOf[d]] = msgWait[KeyOf[d]]
        BY <3>1, <4>2
      <4> QED  BY <3>1, <4>1, <4>3
    <3> QED  BY Zenon, <3>2, <3>3
  <2>12. CASE CallPosted(c)    BY <2>12 DEF CallPosted
  <2> QED
    BY Zenon, <2>1, <2>2, <2>3, <2>4, <2>5, <2>6, <2>7, <2>8, <2>9, <2>10, <2>11, <2>12
       DEF CallSteps
<1>3. CASE TimerNext
  <2> USE DEF otherThanTimer, CloseWait, waitVars, groupVars, GroupReturn
  <2>1. CASE TimerStart       BY <2>1 DEF TimerStart
  <2>2. CASE TimerLoad        BY <2>2 DEF TimerLoad
  <2>3. CASE TimerClose       BY <2>3 DEF TimerClose
  <2>4. CASE TimerDelete      BY <2>4 DEF TimerDelete
  <2>5. CASE TimerPing        BY <2>5 DEF TimerPing
  <2>6. CASE TimerPingCancel  BY <2>6 DEF TimerPingCancel
  <2>7. CASE TimerCancel      BY <2>7 DEF TimerCancel
  <2>8. CASE TimerExit        BY <2>8 DEF TimerExit
  <2>9. CASE TimerReturn      BY <2>9 DEF TimerReturn
  <2>10. ASSUME NEW e \in tq, TimerTake(e) PROVE CallInv(d)'
    <3>1. /\ UNCHANGED <<pc, closed, msgWait, ctx>>
          /\ tpc = "select" /\ tq' = tq \ {e}
          /\ \/ e = Keepalive /\ tpc' = "ping"
             \/ e \in Calls /\ tpc' = "load" /\ tkey' = KeyOf[e]
      BY <2>10 DEF TimerTake
    <3>2. CASE e = Keepalive
      BY <3>1, <3>2
    <3>3. CASE e \in Calls /\ KeyOf[e] = KeyOf[d]
      <4>1. InUse(d) => e = d
        BY Zenon, <3>3, <1>turn, <1>armed, <2>10
      <4>2. pc[d] # "arm" /\ d \notin tq'
        BY <3>1, <3>3, <4>1, <1>armed DEF InUse
      <4> QED  BY <3>1, <3>3, <4>1, <4>2 DEF InUse
    <3>4. CASE e \in Calls /\ KeyOf[e] # KeyOf[d]
      BY <3>1, <3>4
    <3> QED  BY Zenon, <3>1, <3>2, <3>3, <3>4
  <2>11. ASSUME NEW k \in Keys, TimerRange(k) PROVE CallInv(d)'
    BY <2>11 DEF TimerRange
  <2> QED
    BY Zenon, <1>3, <2>1, <2>2, <2>3, <2>4, <2>5, <2>6, <2>7, <2>8, <2>9, <2>10, <2>11
       DEF TimerNext
<1>4. CASE WriterNext \/ ReceiverNext \/ GroupNext \/ Terminated \/ UNCHANGED vars
  <2>1. /\ UNCHANGED <<pc, closed, msgWait, tq, timerVars>>
        /\ ctx # "live" => ctx' # "live"
    BY Zenon, <1>4 DEF WriterNext, WriterTakePing, WriterTakeCmd, WriterKeepaliveClosed,
         WriterEncode, WriterEncodeFails, otherThanWriter, ReceiverNext, RecvDecode,
         RecvFails, RecvLookup, RecvOutOfBand, RecvAcquire, RecvSend, otherThanReceiver,
         GroupNext, HandlerReturn, ExtensionClose, ParentCancel, otherThanGroup,
         GroupReturn, Terminated, vars, waitVars, groupVars
  <2> QED  BY <2>1 DEF timerVars
<1> QED  BY Zenon, <1>1, <1>3, <1>4 DEF Next

\* TypeInv and GroupInv give the types.
LEMMA TypesOfCalls == TypeInv /\ GroupInv => WaitTypes
BY DEF TypeInv, TypeOK, GroupInv, WaitTypes, ctxDone

\* The two together, for keys that take turns.
LEMMA WaitStep ==
    ASSUME KeysTakeTurns, KeysTakeTurns', TypeInv, GroupInv, WaitInv, [Next]_vars
    PROVE  WaitInv'
BY TypesOfCalls, MapStep, CallStep DEF WaitInv

\* Before any call of sendCmd there is nothing to be stranded.
LEMMA WaitInit == Init => TypeInv /\ GroupInv /\ WaitInv
BY TypeInit, SessionAssumption
   DEF Init, GroupInv, CleanExit, WaitInv, MapInv, CallInv, TimerAt, Pending, ctxDone

\* A call that is neither closed nor cancelled has its entry in msgWait and its
\* timeout in the queue or with the timer goroutine.
LEMMA WaitSafe ==
    TypeInv /\ GroupInv /\ WaitInv => NoStrandedWaiter /\ NoSpuriousTimeout /\ NoLeftovers
<1>1. WaitInv => NoStrandedWaiter
  BY SessionAssumption DEF WaitInv, CallInv, TimerAt, Pending, NoStrandedWaiter, ctxDone
<1>2. WaitInv => NoSpuriousTimeout
  BY SessionAssumption DEF WaitInv, CallInv, TimerAt, Pending, NoSpuriousTimeout, ctxDone
<1>3. TypeInv /\ WaitInv => NoLeftovers
  BY SessionAssumption DEF WaitInv, MapInv, CallInv, Pending, NoLeftovers,
     TypeInv, TypeOK
<1> QED  BY <1>1, <1>2, <1>3

\* Keys may be used again.  As long as they take turns - the next call with a
\* key begins when the one before has left sendCmd and the timer goroutine is
\* not at that key - a call that waits can be woken, only its own timeout or the
\* end of the session closes it, and it leaves no entry behind.
THEOREM ReusedKeysAreSafe ==
    Spec /\ []KeysTakeTurns => [](NoStrandedWaiter /\ NoSpuriousTimeout /\ NoLeftovers)
<1> DEFINE IInv == TypeInv /\ GroupInv /\ WaitInv
<1>1. Init => IInv
  BY WaitInit
<1>2. IInv /\ KeysTakeTurns /\ KeysTakeTurns' /\ [Next]_vars => IInv'
  BY TypeStep, GroupStep, WaitStep
<1>3. IInv => NoStrandedWaiter /\ NoSpuriousTimeout /\ NoLeftovers
  BY WaitSafe
<1> HIDE DEF IInv
<1> QED  BY <1>1, <1>2, <1>3, PTL DEF Spec

\* When no two calls share a key, keys take turns: the timer goroutine is at
\* the key of a call only after that call has armed its timeout.
OwnInv == \A c \in Calls : ctx = "live" /\ TimerAt(c) => pc[c] \notin {"idle", "arm"}

LEMMA OwnTurns == UniqueKeys /\ OwnInv => KeysTakeTurns
<1> SUFFICES ASSUME UniqueKeys, OwnInv
             PROVE  KeysTakeTurns
  OBVIOUS
<1>1. ASSUME NEW c \in Calls, NEW d \in Calls, KeyOf[c] = KeyOf[d]
      PROVE  c = d
  BY <1>1 DEF UniqueKeys
<1>2. ASSUME NEW c \in Calls, pc[c] = "arm", ~ctxDone
      PROVE  ~(tpc \in {"load", "close", "delete"} /\ tkey = KeyOf[c])
  BY <1>2 DEF OwnInv, TimerAt, ctxDone
<1> QED  BY Zenon, <1>1, <1>2 DEF KeysTakeTurns

\* No call comes back to its beginning, and the timer goroutine gets to its key
\* with its entry of the queue.
LEMMA OwnStep ==
    ASSUME UniqueKeys, WaitTypes, WaitInv, OwnInv, [Next]_vars
    PROVE  OwnInv'
<1> SUFFICES ASSUME NEW d \in Calls, ctx' = "live", TimerAt(d)'
             PROVE  pc'[d] \notin {"idle", "arm"}
  BY Zenon DEF OwnInv, TimerAt
<1>inv. /\ ctx = "live" /\ TimerAt(d) => pc[d] \notin {"idle", "arm"}
        /\ d \in tq => pc[d] \notin {"idle", "arm"}
  BY DEF OwnInv, WaitInv, CallInv
<1>1. CASE CallNext
  <2> PICK c \in Calls : CallStore(c) \/ CallDuplicate(c) \/ CallPost(c) \/ CallSteps(c)
    BY Zenon, <1>1 DEF CallNext
  <2>1. UNCHANGED <<tpc, tkey, ctx>>
    BY Zenon DEF CallSteps, CallStore, CallDuplicate, CallPost, CallArm, CallSend, CallReceive,
         CallTimeout, CallCancel, CallRemove, CallClose, CallDelete, CallPosted,
         otherThanCall, timerVars, groupVars
  <2>2. \/ pc' = [pc EXCEPT ![c] = "arm"] /\ pc[c] = "idle"
        \/ \E s \in CallStates \ {"idle", "arm"} : pc' = [pc EXCEPT ![c] = s]
    <3> USE DEF Goto, CallStates
    <3>1. CASE CallStore(c) \/ CallDuplicate(c) \/ CallPost(c) \/ CallArm(c)
      BY <3>1 DEF CallStore, CallDuplicate, CallPost, CallArm
    <3>2. CASE CallSend(c) \/ CallReceive(c) \/ CallTimeout(c) \/ CallCancel(c)
      BY <3>2 DEF CallSend, CallReceive, CallTimeout, CallCancel
    <3>3. CASE CallRemove(c) \/ CallClose(c) \/ CallDelete(c) \/ CallPosted(c)
      <4>1. PICK s \in {"close", "delete", "done"} : pc' = [pc EXCEPT ![c] = s]
        BY Zenon, <3>3 DEF CallRemove, CallClose, CallDelete, CallPosted
      <4>2. s \in CallStates \ {"idle", "arm"}
        OBVIOUS
      <4> QED  BY Zenon, <4>1, <4>2
    <3> QED  BY Zenon, <3>1, <3>2, <3>3 DEF CallSteps
  <2>3. TimerAt(d) /\ ctx = "live"
    BY Zenon, <2>1 DEF TimerAt
  <2>4. pc \in [Calls -> CallStates]
    BY DEF WaitTypes
  <2> QED  BY <1>inv, <2>2, <2>3, <2>4
<1>2. CASE TimerNext
  <2>1. pc' = pc /\ ctx = "live"
    BY Zenon, <1>2 DEF TimerNext, TimerStart, TimerLoad, TimerClose, TimerDelete, TimerPing,
         TimerPingCancel, TimerCancel, TimerExit, TimerReturn, TimerTake, TimerRange,
         otherThanTimer, groupVars, GroupReturn
  <2>2. CASE TimerAt(d)
    BY Zenon, <1>inv, <2>1, <2>2
  <2>3. CASE ~TimerAt(d)
    <3>1. PICK e \in tq : TimerTake(e)
      <4>1. tpc # "range"
        BY <2>1 DEF WaitTypes
      <4>2. CASE TimerStart \/ TimerLoad \/ TimerClose \/ TimerDelete
        BY <2>1, <2>3, <4>2
           DEF TimerAt, TimerStart, TimerLoad, TimerClose, TimerDelete, WaitTypes
      <4>3. CASE TimerPing \/ TimerPingCancel \/ TimerCancel \/ TimerExit \/ TimerReturn
        BY <4>3 DEF TimerAt, TimerPing, TimerPingCancel, TimerCancel, TimerExit, TimerReturn
      <4>4. CASE \E k \in Keys : TimerRange(k)
        BY <4>1, <4>4 DEF TimerRange
      <4> QED  BY Zenon, <1>2, <4>2, <4>3, <4>4 DEF TimerNext
    <3>2. d = e
      BY <3>1 DEF TimerTake, TimerAt, UniqueKeys, WaitTypes
    <3> QED  BY Zenon, <1>inv, <2>1, <3>1, <3>2
  <2> QED  BY Zenon, <2>2, <2>3
<1>3. CASE WriterNext \/ ReceiverNext \/ GroupNext \/ Terminated \/ UNCHANGED vars
  <2>1. /\ UNCHANGED <<pc, timerVars>>
        /\ ctx # "live" => ctx' # "live"
    BY Zenon, <1>3 DEF WriterNext, WriterTakePing, WriterTakeCmd, WriterKeepaliveClosed,
         WriterEncode, WriterEncodeFails, otherThanWriter, ReceiverNext, RecvDecode,
         RecvFails, RecvLookup, RecvOutOfBand, RecvAcquire, RecvSend, otherThanReceiver,
         GroupNext, HandlerReturn, ExtensionClose, ParentCancel, otherThanGroup,
         GroupReturn, Terminated, vars, waitVars, groupVars
  <2> QED  BY <1>inv, <2>1 DEF timerVars, TimerAt
<1> QED  BY Zenon, <1>1, <1>2, <1>3 DEF Next

\* The invariant of calls with keys of their own, in every state.
LEMMA CallsInvariant ==
    UniqueKeys => (Spec => [](NoStrandedWaiter /\ NoSpuriousTimeout /\ NoLeftovers))
<1> SUFFICES ASSUME UniqueKeys
             PROVE  Spec => [](NoStrandedWaiter /\ NoSpuriousTimeout /\ NoLeftovers)
  OBVIOUS
<1> DEFINE IInv == TypeInv /\ GroupInv /\ WaitInv /\ OwnInv
<1>1. Init => IInv
  BY WaitInit DEF Init, OwnInv, TimerAt
<1>2. IInv /\ [Next]_vars => IInv'
  <2> SUFFICES ASSUME IInv, [Next]_vars
               PROVE  IInv'
    OBVIOUS
  <2>1. OwnInv'
    BY TypesOfCalls, OwnStep
  <2>2. KeysTakeTurns /\ KeysTakeTurns'
    <3>1. KeysTakeTurns
      BY OwnTurns
    <3>2. KeysTakeTurns'
      BY <2>1 DEF UniqueKeys, OwnInv, TimerAt, KeysTakeTurns, ctxDone
    <3> QED  BY <3>1, <3>2
  <2> QED  BY <2>1, <2>2, TypeStep, GroupStep, WaitStep
<1>3. IInv => NoStrandedWaiter /\ NoSpuriousTimeout /\ NoLeftovers
  BY WaitSafe
<1> HIDE DEF IInv
<1> QED  BY <1>1, <1>2, <1>3, PTL DEF Spec

\* When no two calls of a session share a key, a call that waits can always be
\* woken: the timer goroutine, the receiver and the cleanup of other calls
\* never take away its entry in msgWait together with its timeout.
THEOREM WaitersCanBeWoken == UniqueKeys => (Spec => []NoStrandedWaiter)
BY CallsInvariant, PTL

\* Such a call is closed by its own timeout or by the end of the session only,
\* not by a timeout of another call that the timer goroutine is handling.
THEOREM TimeoutsAreOwn == UniqueKeys => (Spec => []NoSpuriousTimeout)
BY CallsInvariant, PTL

\* When such a call has returned, its key is neither in msgWait nor in the
\* timeout queue, also if its timeout was being handled while it cleaned up.
THEOREM CallsLeaveNothing == UniqueKeys => (Spec => []NoLeftovers)
BY CallsInvariant, PTL

-----------------------------------------------------------------------------
(***************************************************************************)
(* Routing, for calls that may repeat keys.  The value the receiver holds  *)
(* was found under the key of its message.                                 *)
(***************************************************************************)
RouteInv ==
    /\ \A k \in Keys : msgWait[k] # NoCall => KeyOf[msgWait[k]] = k
    /\ rpc \in {"acquire", "send"} => rval \in Calls /\ KeyOf[rval] = rmsg
    /\ RoutedByKey

\* The sync.Map holds every value under its own key, from LoadOrStore to
\* Delete, so that what onMsgRecv loads fits the message.
LEMMA RouteStep == TypeInv /\ RouteInv /\ [Next]_vars => RouteInv'
<1> SUFFICES ASSUME TypeInv, RouteInv, [Next]_vars PROVE RouteInv'
  OBVIOUS
<1> USE SessionAssumption DEF TypeInv, TypeOK, RouteInv, RoutedByKey
<1>1. CASE CallNext
  <2> SUFFICES ASSUME NEW c \in Calls,
                      CallStore(c) \/ CallDuplicate(c) \/ CallPost(c) \/ CallSteps(c)
               PROVE  RouteInv'
    BY Zenon, <1>1 DEF CallNext
  <2> USE DEF otherThanCall, recvVars
  <2>1. CASE CallStore(c)    BY <2>1 DEF CallStore, waitVars
  <2>2. CASE CallReceive(c)  BY <2>2 DEF CallReceive
  <2>3. CASE CallDelete(c)   BY <2>3 DEF CallDelete, waitVars
  <2>4. CASE \/ CallDuplicate(c) \/ CallPost(c) \/ CallArm(c) \/ CallSend(c) \/ CallTimeout(c)
             \/ CallCancel(c) \/ CallRemove(c) \/ CallClose(c) \/ CallPosted(c)
    <3>1. UNCHANGED <<msgWait, msgCh, rpc, rmsg, rval>>
      BY Zenon, <2>4 DEF CallDuplicate, CallPost, CallArm, CallSend, CallTimeout, CallCancel,
         CallRemove, CallClose, CallPosted, CloseWait, waitVars
    <3> QED  BY <3>1
  <2> QED  BY Zenon, <2>1, <2>2, <2>3, <2>4 DEF CallSteps
<1>2. CASE TimerNext
  <2>1. CASE TimerDelete
    BY <2>1 DEF TimerDelete, otherThanTimer, waitVars, recvVars
  <2>2. UNCHANGED <<msgWait, msgCh, recvVars>> \/ TimerDelete
    BY Zenon, <1>2 DEF TimerNext, TimerStart, TimerLoad, TimerClose, CloseWait, TimerPing,
       TimerPingCancel, TimerCancel, TimerExit, TimerReturn, TimerTake, TimerRange,
       otherThanTimer, waitVars
  <2> QED  BY <2>1, <2>2 DEF recvVars
<1>3. CASE ReceiverNext
  <2> USE DEF otherThanReceiver, waitVars
  <2>1. ASSUME NEW k \in Keys, RecvDecode(k) PROVE RouteInv'
    BY <2>1 DEF RecvDecode
  <2>2. CASE RecvFails      BY <2>2 DEF RecvFails
  <2>3. CASE RecvLookup     BY <2>3 DEF RecvLookup
  <2>4. CASE RecvOutOfBand  BY <2>4 DEF RecvOutOfBand
  <2>5. CASE RecvAcquire    BY <2>5 DEF RecvAcquire
  <2>6. CASE RecvSend       BY <2>6 DEF RecvSend
  <2> QED  BY Zenon, <1>3, <2>1, <2>2, <2>3, <2>4, <2>5, <2>6 DEF ReceiverNext
<1>4. CASE WriterNext \/ GroupNext \/ Terminated \/ UNCHANGED vars
  <2>1. UNCHANGED <<msgWait, msgCh, recvVars>>
    BY Zenon, <1>4 DEF WriterNext, WriterTakePing, WriterTakeCmd, WriterKeepaliveClosed,
       WriterEncode, WriterEncodeFails, otherThanWriter, GroupNext, HandlerReturn,
       ExtensionClose, ParentCancel, otherThanGroup, Terminated, vars, waitVars
  <2> QED  BY <2>1 DEF recvVars
<1> QED  BY Zenon, <1>1, <1>2, <1>3, <1>4 DEF Next

\* A session starts without pending calls and messages.
LEMMA RouteInit == Init => RouteInv
BY SessionAssumption DEF Init, RouteInv, RoutedByKey

\* A message is only ever put into the channel of a call with its key, even if
\* several calls use that key and entries of msgWait come and go between the
\* receiver's lookup and its send.
THEOREM MessagesAreRouted == Spec => []RoutedByKey
<1>1. TypeInv /\ RouteInv /\ [Next]_vars => (TypeInv /\ RouteInv)'
  BY TypeStep, RouteStep
<1>2. RouteInv => RoutedByKey
  BY DEF RouteInv
<1> QED  BY TypeInit, RouteInit, <1>1, <1>2, PTL DEF Spec

-----------------------------------------------------------------------------
(***************************************************************************)
(* A full channel.  What a call has taken, what is in its channel and what *)
(* the receiver holds for its key are messages the peer has sent for it.   *)
(***************************************************************************)
Took(c)   == IF pc[c] \in {"remove", "close"} THEN 1 ELSE 0
InBox(c)  == IF msgCh[c] # NoKey THEN 1 ELSE 0
Flight(c) == IF rpc \in {"lookup", "acquire", "send"} /\ rmsg = KeyOf[c] THEN 1 ELSE 0

\* A call that cleans up, while its value is open and the session goes on, has
\* taken a message.
CountInv(c) ==
    ctx = "live" /\ ~closed[c] => Took(c) + InBox(c) + Flight(c) <= peerSent[KeyOf[c]]

\* The call has stored its msgWaitValue, and if its cleanup is past close(),
\* the value is closed.
Stored(c) == pc[c] \in Pending \cup {"remove", "close"} \/ closed[c]

BoxInv ==
    /\ \A k \in Keys : msgWait[k] # NoCall => Stored(msgWait[k])
    /\ rpc \in {"acquire", "send"} => Stored(rval)
    /\ \A c \in Calls : CountInv(c)

\* What the lemmas on full channels need of the other invariants.
BoxTypes ==
    /\ pc \in [Calls -> CallStates] /\ closed \in [Calls -> BOOLEAN]
    /\ msgWait \in [Keys -> Calls \cup {NoCall}]
    /\ msgCh \in [Calls -> Keys \cup {NoKey}]
    /\ peerSent \in [Keys -> Nat]
    /\ rpc = "lookup" => rmsg \in Keys
    /\ rpc \in {"acquire", "send"} => rval \in Calls /\ KeyOf[rval] = rmsg

\* The value of a call that is past close() stays closed.
LEMMA StoredStays ==
    ASSUME BoxTypes, [Next]_vars, NEW d \in Calls, Stored(d)
    PROVE  Stored(d)'
<1> USE SessionAssumption DEF BoxTypes, CallStates, Stored, Pending
<1>1. CASE CallNext
  <2> SUFFICES ASSUME NEW c \in Calls,
                      CallStore(c) \/ CallDuplicate(c) \/ CallPost(c) \/ CallSteps(c)
               PROVE  Stored(d)'
    BY Zenon, <1>1 DEF CallNext
  <2> USE DEF Goto, CloseWait, waitVars
  <2>1. CASE CallDuplicate(c) \/ CallClose(c)
    <3>1. closed' = [closed EXCEPT ![c] = TRUE]
      BY Zenon, <2>1 DEF CallDuplicate, CallClose
    <3>2. CASE d = c  BY <3>1, <3>2
    <3>3. CASE d # c
      <4>1. \E label \in CallStates : pc' = [pc EXCEPT ![c] = label]
        BY <2>1 DEF CallDuplicate, CallClose
      <4>2. pc'[d] = pc[d]  BY <3>3, <4>1
      <4>3. closed'[d] = closed[d]  BY <3>1, <3>3
      <4> QED  BY Zenon, <4>2, <4>3
    <3> QED  BY <3>2, <3>3
  <2>2. CASE CallStore(c)    BY <2>2 DEF CallStore
  <2>3. CASE CallPost(c)     BY <2>3 DEF CallPost
  <2>4. CASE CallArm(c)      BY <2>4 DEF CallArm
  <2>5. CASE CallSend(c)     BY <2>5 DEF CallSend
  <2>6. CASE CallReceive(c)  BY <2>6 DEF CallReceive
  <2>7. CASE CallTimeout(c)  BY <2>7 DEF CallTimeout
  <2>8. CASE CallCancel(c)   BY <2>8 DEF CallCancel
  <2>9. CASE CallRemove(c)   BY <2>9 DEF CallRemove
  <2>10. CASE CallDelete(c)  BY <2>10 DEF CallDelete
  <2>11. CASE CallPosted(c)  BY <2>11 DEF CallPosted
  <2> QED
    BY Zenon, <2>1, <2>2, <2>3, <2>4, <2>5, <2>6, <2>7, <2>8, <2>9, <2>10, <2>11
       DEF CallSteps
<1>2. CASE TimerClose
  <2>1. pc' = pc /\ closed' = [closed EXCEPT ![tval] = TRUE]
    BY Zenon, <1>2 DEF TimerClose, CloseWait, otherThanTimer
  <2>2. CASE d = tval  BY <2>1, <2>2
  <2>3. CASE d # tval
    <3>1. closed'[d] = closed[d]  BY <2>1, <2>3
    <3> QED  BY Zenon, <2>1, <3>1
  <2> QED  BY <2>2, <2>3
<1>3. CASE TimerNext \/ WriterNext \/ ReceiverNext \/ GroupNext \/ Terminated \/ UNCHANGED vars
  <2>1. UNCHANGED <<pc, closed>> \/ TimerClose
    BY Zenon, <1>3 DEF TimerNext, TimerStart, TimerLoad, TimerDelete, TimerPing,
       TimerPingCancel, TimerCancel, TimerExit, TimerReturn, TimerTake, TimerRange,
       otherThanTimer, WriterNext, WriterTakePing, WriterTakeCmd, WriterKeepaliveClosed,
       WriterEncode, WriterEncodeFails, otherThanWriter, ReceiverNext, RecvDecode,
       RecvFails, RecvLookup, RecvOutOfBand, RecvAcquire, RecvSend, otherThanReceiver,
       GroupNext, HandlerReturn, ExtensionClose, ParentCancel, otherThanGroup,
       Terminated, vars, waitVars
  <2> QED  BY Zenon, <1>2, <2>1
<1> QED  BY Zenon, <1>1, <1>3 DEF Next

\* The receiver and msgWait only ever name values of calls that have stored
\* them.
LEMMA StoredStep ==
    ASSUME BoxTypes, BoxInv, [Next]_vars
    PROVE  /\ \A k \in Keys : msgWait'[k] # NoCall => Stored(msgWait[k])'
           /\ rpc' \in {"acquire", "send"} => Stored(rval)'
<1> DEFINE StoredNext(c) == pc'[c] \in Pending \cup {"remove", "close"} \/ closed'[c]
<1>a. /\ \A k \in Keys : msgWait[k] # NoCall => StoredNext(msgWait[k])
      /\ rpc \in {"acquire", "send"} => StoredNext(rval)
  <2>1. \A d \in Calls : Stored(d) => StoredNext(d)
    BY Zenon, StoredStays DEF Stored
  <2>2. \A k \in Keys : msgWait[k] # NoCall => msgWait[k] \in Calls /\ Stored(msgWait[k])
    BY DEF BoxTypes, BoxInv
  <2>3. rpc \in {"acquire", "send"} => rval \in Calls /\ Stored(rval)
    BY ZenonT(30) DEF BoxTypes, BoxInv
  <2> QED  BY Zenon, <2>1, <2>2, <2>3
<1> USE SessionAssumption, <1>a DEF BoxTypes, Stored, Pending
<1>1. CASE CallNext
  <2> SUFFICES ASSUME NEW c \in Calls,
                      CallStore(c) \/ CallDuplicate(c) \/ CallPost(c) \/ CallSteps(c)
               PROVE  /\ \A k \in Keys : msgWait'[k] # NoCall => Stored(msgWait[k])'
                      /\ rpc' \in {"acquire", "send"} => Stored(rval)'
    BY Zenon, <1>1 DEF CallNext
  <2>r. UNCHANGED <<rpc, rval>>
    BY ZenonT(30) DEF CallStore, CallDuplicate, CallPost, CallSteps, CallArm, CallSend, CallReceive,
       CallTimeout, CallCancel, CallRemove, CallClose, CallDelete, CallPosted,
       otherThanCall, recvVars
  <2>1. CASE CallStore(c)
    <3>1. StoredNext(c)
      <4>1. pc' = [pc EXCEPT ![c] = "arm"]
        BY Zenon, <2>1 DEF CallStore, Goto
      <4> QED  BY Zenon, <4>1
    <3>2. \A k \in Keys : msgWait'[k] \in {c, msgWait[k]}
      <4>1. msgWait' = [msgWait EXCEPT ![KeyOf[c]] = c]
        BY Zenon, <2>1 DEF CallStore
      <4> QED  BY Zenon, <4>1
    <3> QED  BY Zenon, <1>a, <2>r, <3>1, <3>2
  <2>2. CASE CallDelete(c)   BY <2>2, <2>r DEF CallDelete
  <2>3. UNCHANGED msgWait \/ CallStore(c) \/ CallDelete(c)
    BY Zenon DEF CallDuplicate, CallPost, CallSteps, CallArm, CallSend, CallReceive,
       CallTimeout, CallCancel, CallRemove, CallClose, CallPosted
  <2> QED  BY <2>1, <2>2, <2>3, <2>r
<1>2. CASE TimerNext
  <2>1. UNCHANGED <<rpc, rval>> /\ (UNCHANGED msgWait \/ TimerDelete)
    BY ZenonT(30), <1>2 DEF TimerNext, TimerStart, TimerLoad, TimerClose, TimerDelete, TimerPing,
       TimerPingCancel, TimerCancel, TimerExit, TimerReturn, TimerTake, TimerRange,
       otherThanTimer, recvVars
  <2>2. CASE TimerDelete  BY <2>1, <2>2 DEF TimerDelete
  <2> QED  BY <2>1, <2>2
<1>3. CASE ReceiverNext
  <2>1. UNCHANGED msgWait
    BY Zenon, <1>3 DEF ReceiverNext, RecvDecode, RecvFails, RecvLookup, RecvOutOfBand,
       RecvAcquire, RecvSend, otherThanReceiver
  <2>2. CASE RecvLookup
    <3>1. rpc' \in {"acquire", "send"} => rmsg \in Keys /\ rval' # NoCall /\ rval' = msgWait[rmsg]
      BY Zenon, <2>2 DEF RecvLookup
    <3> QED  BY <2>1, <3>1
  <2>3. rpc' \in {"acquire", "send"} => RecvLookup \/ (rpc \in {"acquire", "send"} /\ rval' = rval)
    BY Zenon, <1>3 DEF ReceiverNext, RecvDecode, RecvFails, RecvOutOfBand, RecvAcquire,
       RecvSend
  <2> QED  BY <2>1, <2>2, <2>3
<1>4. CASE WriterNext \/ GroupNext \/ Terminated \/ UNCHANGED vars
  <2>1. UNCHANGED <<msgWait, rpc, rval>>
    BY Zenon, <1>4 DEF WriterNext, WriterTakePing, WriterTakeCmd, WriterKeepaliveClosed,
       WriterEncode, WriterEncodeFails, otherThanWriter, GroupNext, HandlerReturn,
       ExtensionClose, ParentCancel, otherThanGroup, Terminated, vars, recvVars
  <2> QED  BY <2>1
<1> QED  BY Zenon, <1>1, <1>2, <1>3, <1>4 DEF Next

\* A call gets into its cleanup with an open value and a live context only by
\* taking a message.
LEMMA CountStep ==
    ASSUME BoxTypes, RouteInv, [Next]_vars, NEW d \in Calls, CountInv(d)
    PROVE  CountInv(d)'
<1> USE SessionAssumption DEF BoxTypes, CallStates, CountInv, Took, InBox, Flight
<1>1. CASE CallNext
  <2> SUFFICES ASSUME NEW c \in Calls,
                      CallStore(c) \/ CallDuplicate(c) \/ CallPost(c) \/ CallSteps(c)
               PROVE  CountInv(d)'
    BY Zenon, <1>1 DEF CallNext
  <2> USE DEF Goto, CloseWait, waitVars, otherThanCall, recvVars, groupVars
  <2>1. CASE CallDuplicate(c) \/ CallClose(c)
    <3>1. /\ closed' = [closed EXCEPT ![c] = TRUE]
          /\ UNCHANGED <<msgCh, rpc, rmsg, peerSent, ctx>>
      BY Zenon, <2>1 DEF CallDuplicate, CallClose
    <3>2. CASE d = c
      <4>1. closed'[d]  BY <3>1, <3>2
      <4> QED  BY Zenon, <4>1
    <3>3. CASE d # c
      <4>1. \E label \in CallStates : pc' = [pc EXCEPT ![c] = label]
        BY <2>1 DEF CallDuplicate, CallClose
      <4>2. pc'[d] = pc[d]  BY <3>3, <4>1
      <4>3. closed'[d] = closed[d]  BY <3>1, <3>3
      <4> QED  BY ZenonT(30), <3>1, <4>2, <4>3
    <3> QED  BY <3>2, <3>3
  <2>2. CASE CallStore(c)    BY <2>2 DEF CallStore
  <2>3. CASE CallPost(c)     BY <2>3 DEF CallPost
  <2>4. CASE CallArm(c)      BY <2>4 DEF CallArm
  <2>5. CASE CallSend(c)     BY <2>5 DEF CallSend
  <2>6. CASE CallReceive(c)  BY <2>6 DEF CallReceive
  <2>7. CASE CallTimeout(c)  BY <2>7 DEF CallTimeout
  <2>8. CASE CallCancel(c)   BY <2>8 DEF CallCancel, ctxDone
  <2>9. CASE CallRemove(c)   BY <2>9 DEF CallRemove
  <2>10. CASE CallDelete(c)  BY <2>10 DEF CallDelete
  <2>11. CASE CallPosted(c)  BY <2>11 DEF CallPosted
  <2> QED
    BY Zenon, <2>1, <2>2, <2>3, <2>4, <2>5, <2>6, <2>7, <2>8, <2>9, <2>10, <2>11
       DEF CallSteps
<1>2. CASE TimerNext
  <2>1. UNCHANGED <<pc, msgCh, recvVars>> /\ (ctx # "live" => ctx' # "live")
    BY Zenon, <1>2 DEF TimerNext, TimerStart, TimerLoad, TimerClose, CloseWait, TimerDelete,
       TimerPing, TimerPingCancel, TimerCancel, TimerExit, TimerReturn, TimerTake,
       TimerRange, otherThanTimer, waitVars, groupVars, GroupReturn
  <2>2. UNCHANGED closed \/ TimerClose
    BY Zenon, <1>2 DEF TimerNext, TimerStart, TimerLoad, TimerDelete, TimerPing,
       TimerPingCancel, TimerCancel, TimerExit, TimerReturn, TimerTake, TimerRange,
       waitVars
  <2>3. closed'[d] \/ closed'[d] = closed[d]
    <3>1. CASE TimerClose
      <4>1. closed' = [closed EXCEPT ![tval] = TRUE]
        BY Zenon, <3>1 DEF TimerClose, CloseWait
      <4> QED  BY <4>1
    <3> QED  BY Zenon, <2>2, <3>1
  <2> QED  BY Zenon, <2>1, <2>3 DEF recvVars
<1>3. CASE ReceiverNext
  <2> USE DEF otherThanReceiver, waitVars, groupVars, ctxDone
  <2>1. ASSUME NEW k \in Keys, RecvDecode(k) PROVE CountInv(d)'
    BY <2>1 DEF RecvDecode, GroupReturn
  <2>2. CASE RecvFails      BY <2>2 DEF RecvFails, GroupReturn
  <2>3. CASE RecvLookup     BY <2>3 DEF RecvLookup
  <2>4. CASE RecvOutOfBand  BY <2>4 DEF RecvOutOfBand
  <2>5. CASE RecvAcquire    BY <2>5 DEF RecvAcquire
  <2>6. CASE RecvSend       BY <2>6 DEF RecvSend, RouteInv
  <2> QED  BY Zenon, <1>3, <2>1, <2>2, <2>3, <2>4, <2>5, <2>6 DEF ReceiverNext
<1>4. CASE WriterNext \/ GroupNext \/ Terminated \/ UNCHANGED vars
  <2>1. UNCHANGED <<pc, closed, msgCh, recvVars>> /\ (ctx # "live" => ctx' # "live")
    BY Zenon, <1>4 DEF WriterNext, WriterTakePing, WriterTakeCmd, WriterKeepaliveClosed,
       WriterEncode, WriterEncodeFails, otherThanWriter, GroupNext, HandlerReturn,
       ExtensionClose, ParentCancel, otherThanGroup, Terminated, vars, waitVars, groupVars,
       GroupReturn
  <2> QED  BY Zenon, <2>1 DEF recvVars
<1> QED  BY Zenon, <1>1, <1>2, <1>3, <1>4 DEF Next

\* The receiver is never stuck on a full channel whose call is in its cleanup,
\* waiting for the spin lock the receiver holds, before the peer has sent a
\* third message for the key; for any number of calls, also with equal keys.
THEOREM SecondMessageIsHarmless == Spec => []FullChannelIsRead
<1> DEFINE IInv == TypeInv /\ LockInv /\ RouteInv /\ BoxInv
<1>1. Init => IInv
  <2> SUFFICES ASSUME Init PROVE IInv
    OBVIOUS
  <2>1. TypeInv /\ LockInv /\ RouteInv
    BY TypeInit, RouteInit DEF Init, LockInv
  <2>2. BoxInv
    BY SessionAssumption DEF Init, BoxInv, CountInv, Took, InBox, Flight
  <2> QED  BY <2>1, <2>2
<1>2. IInv /\ [Next]_vars => IInv'
  <2> SUFFICES ASSUME IInv, [Next]_vars PROVE IInv'
    OBVIOUS
  <2>1. (TypeInv /\ LockInv /\ RouteInv)'
    BY TypeStep, LockStep, RouteStep
  <2>2. BoxTypes
    BY SessionAssumption DEF TypeInv, TypeOK, RouteInv, BoxTypes
  <2>3. \A d \in Calls : CountInv(d)'
    BY Zenon, <2>2, CountStep DEF BoxInv
  <2>4. BoxInv'
    BY Zenon, <2>2, <2>3, StoredStep DEF BoxInv
  <2> QED  BY <2>1, <2>4
<1>3. IInv => FullChannelIsRead
  BY SessionAssumption DEF TypeInv, TypeOK, LockInv, RouteInv, BoxInv, CountInv, Took,
     InBox, Flight, Stored, Pending, FullChannelIsRead, ctxDone
<1> QED  BY <1>1, <1>2, <1>3, PTL DEF Spec

=============================================================================
