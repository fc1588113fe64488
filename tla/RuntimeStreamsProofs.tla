------------------------ MODULE RuntimeStreamsProofs ------------------------
(***************************************************************************)
(* Proofs of the safety properties of RuntimeStreams, for any operations,  *)
(* session ids and amounts of input.                                       *)
(***************************************************************************)
EXTENDS RuntimeStreams, TLAPS

\* A stream is in the table under its own sid only, from the end of its Add on,
\* and not when its operation is done; its sid stays free while create runs.
Before == {"idle", "add", "create"}

TableInv ==
    /\ \A s \in Sids : sessions[s] # NoOp => SidOf[sessions[s]] = s
    /\ \A o \in Ops : opc[o] \in Before \cup {"done"} => sessions[SidOf[o]] # o
    /\ \A o \in Ops : opc[o] \in Before => dop # o /\ o \notin closer /\ o \notin wclosed
    /\ \A o \in Ops : opc[o] = "create" => lock = o /\ sessions[SidOf[o]] = NoOp

\* The last number of a stream, once known, is the number of its last input;
\* until its pipe is closed every number handed over before has been written,
\* and the pipe is closed when all have.
Count(n) == IF n <= MaxSeq THEN n ELSE MaxSeq
Reading(o) == opc[o] \in Before \/ (opc[o] = "run" /\ sessions[SidOf[o]] = o)

InputInv ==
    /\ \A o \in Ops : max[o] \in {MaxSeq, NoMax} /\ written[o] <= next[o]
    /\ \A o \in Ops : Reading(o) =>
          /\ written[o] = Count(next[o])
          /\ o \in wclosed \/ o \in closer => next[o] = NoMax

\* Nobody can write to an operation that has ended: it never had a stream,
\* or its pipe is closed, by Finish or by the Del that took it out.
EndInv ==
    /\ \A o \in Ops : KindOf[o] = "plain" =>
          /\ opc[o] \notin {"add", "create"}
          /\ dop # o /\ sessions[SidOf[o]] # o
    /\ \A o \in Ops : KindOf[o] = "forward" /\ opc[o] \in {"del", "done"} => o \in wclosed
    /\ \A o \in Ops : KindOf[o] = "stdin" /\ o \notin wclosed /\ sessions[SidOf[o]] # o
                        => dop # o /\ opc[o] # "run"

IInv == TypeOK /\ TableInv /\ InputInv /\ EndInv

\* No operation has been started, no input has arrived.
LEMMA InitHolds == Init => IInv
<1> SUFFICES ASSUME Init PROVE IInv
  OBVIOUS
<1>1. /\ 0 \in 0..NoMax /\ NoMax \in 0..NoMax /\ PipeCap \in 0..PipeCap /\ 0 \in 0..MaxSeq
      /\ Count(0) = 0
  BY StreamsAssumption DEF NoMax, Count
<1>2. TypeOK
  BY <1>1 DEF Init, TypeOK
<1> QED
  BY <1>1, <1>2, StreamsAssumption
     DEF Init, IInv, TableInv, InputInv, EndInv, Reading, Before

\* Input reaches the sequence queue of a stream.
LEMMA InputStep ==
    ASSUME IInv, NEW s \in Sids, NEW q \in Seqs, Input(s, q)
    PROVE  IInv'
<1> USE StreamsAssumption
        DEF IInv, TypeOK, Seqs, NoMax, queueVars, pipeVars, dispVars, otherThanOp
<1>1. CASE Input(s, q)
  <2>1. TypeOK'
    BY <1>1 DEF Input
  <2>2. TableInv'
    BY <1>1 DEF Input, TableInv, Before
  <2>3. InputInv'
    BY <1>1 DEF Input, TableInv, InputInv, Count, Reading, Before
  <2>4. EndInv'
    BY <1>1 DEF Input, TableInv, EndInv, Before
  <2> QED
    BY <2>1, <2>2, <2>3, <2>4
<1> QED
  BY <1>1

\* The queue hands input over.
LEMMA DeliverStep ==
    ASSUME IInv, Deliver \/ Delivered
    PROVE  IInv'
<1> USE StreamsAssumption
        DEF IInv, TypeOK, Seqs, NoMax, queueVars, pipeVars, dispVars, otherThanOp
<1>1. CASE Deliver
  <2>1. TypeOK'
    <3>1. dop \in Ops /\ next[dop] \in 0..MaxSeq
      BY <1>1 DEF Deliver
    <3>2. next[dop] + 1 \in 0..NoMax
      BY <3>1
    <3>3. next[dop] # MaxSeq => written[dop] + 1 \in 0..MaxSeq
      <4>1. written[dop] \in 0..MaxSeq /\ written[dop] <= next[dop]
        BY <3>1 DEF InputInv
      <4> HIDE DEF TypeOK, IInv
      <4> QED
        BY <4>1, <3>1
    <3>4. room[dop] > 0 => room[dop] - 1 \in 0..PipeCap
      BY <3>1
    <3> QED
      BY <1>1, <3>1, <3>2, <3>3, <3>4 DEF Deliver
  <2>2. TableInv'
    BY <1>1 DEF Deliver, TableInv, Before
  <2>3. InputInv'
    <3>1. dop \in Ops /\ next[dop] \in 0..MaxSeq /\ next'[dop] = next[dop] + 1
      BY <1>1 DEF Deliver
    <3>2. ASSUME NEW o \in Ops, o # dop
          PROVE  next'[o] = next[o] /\ written'[o] = written[o]
      BY <1>1, <3>1, <3>2 DEF Deliver
    <3>3. \/ (dop \in wclosed \/ next[dop] = MaxSeq) /\ written' = written
          \/ dop \notin wclosed /\ next[dop] # MaxSeq /\ written'[dop] = written[dop] + 1
      BY <1>1, <3>1 DEF Deliver
    <3>4. max' = max /\ opc' = opc /\ sessions' = sessions /\ wclosed' = wclosed /\ closer' = closer
      BY <1>1 DEF Deliver
    <3>5. \A o \in Ops : max'[o] \in {MaxSeq, NoMax} /\ written'[o] <= next'[o]
      BY <3>1, <3>2, <3>3, <3>4 DEF InputInv
    <3>6. ASSUME NEW o \in Ops, Reading(o)
          PROVE  /\ written'[o] = Count(next'[o])
                 /\ o \in wclosed \/ o \in closer => next'[o] = NoMax
      <4>1. CASE o = dop
        <5>1. /\ written[dop] = Count(next[dop])
              /\ dop \in wclosed \/ dop \in closer => next[dop] = NoMax
          BY <4>1, <3>6 DEF InputInv
        <5>2. written[dop] = next[dop] /\ dop \notin wclosed /\ dop \notin closer
          BY <5>1, <3>1 DEF Count
        <5>3. next[dop] = MaxSeq => written'[dop] = MaxSeq
          BY <5>2, <3>3
        <5>4. next[dop] # MaxSeq => written'[dop] = next[dop] + 1 /\ next[dop] + 1 <= MaxSeq
          <6>1. next[dop] # MaxSeq => written'[dop] = next[dop] + 1
            BY <5>2, <3>3
          <6>2. next[dop] # MaxSeq => next[dop] + 1 <= MaxSeq
            <7> HIDE DEF TypeOK, IInv
            <7> QED
              BY <3>1
          <6> QED
            BY <6>1, <6>2
        <5> QED
          BY <4>1, <5>2, <5>3, <5>4, <3>1 DEF Count
      <4> QED
        BY <4>1, <3>2, <3>6 DEF InputInv, Count
    <3> QED
      BY <3>4, <3>5, <3>6 DEF InputInv, Reading, Count
  <2>4. EndInv'
    BY <1>1 DEF Deliver, TableInv, EndInv, Before
  <2> QED
    BY <2>1, <2>2, <2>3, <2>4
<1>2. CASE Delivered
  <2>1. TypeOK'
    BY <1>2 DEF Delivered, StreamClose
  <2>2. TableInv'
    BY <1>2 DEF Delivered, StreamClose, TableInv, Before
  <2>3. InputInv'
    <3>1. /\ next' = next /\ written' = written /\ max' = max
          /\ opc' = opc /\ sessions' = sessions
      BY <1>2 DEF Delivered
    <3>2. dop \in Ops /\ (next[dop] > max[dop] => next[dop] = NoMax)
      BY SMTT(30), <1>2 DEF Delivered, InputInv
    <3>3. \A o \in Ops : (o \in wclosed' \/ o \in closer')
                          => o \in wclosed \/ o \in closer \/ next[o] = NoMax
      BY <1>2, <3>2 DEF Delivered, StreamClose
    <3> QED
      BY <3>1, <3>3 DEF InputInv, Reading, Count
  <2>4. EndInv'
    BY <1>2 DEF Delivered, StreamClose, TableInv, EndInv, Before
  <2> QED
    BY <2>1, <2>2, <2>3, <2>4
<1> QED
  BY <1>1, <1>2

\* Steps of the operations keep the invariant.
LEMMA OpStep ==
    ASSUME IInv, NEW o \in Ops,
           OpNext(o) \/ Start(o) \/ RuntimeRead(o) \/ RunReturns(o) \/ DelayedClose(o)
    PROVE  IInv'
<1> USE StreamsAssumption
        DEF IInv, TypeOK, Seqs, NoMax, queueVars, pipeVars, dispVars, otherThanOp
<1>1. CASE Start(o)
  <2>1. TypeOK'
    BY <1>1 DEF Start
  <2>2. TableInv'
    BY <1>1 DEF Start, TableInv, Before
  <2>3. InputInv'
    BY <1>1 DEF Start, TableInv, InputInv, Count, Reading, Before
  <2>4. EndInv'
    BY <1>1 DEF Start, TableInv, EndInv, Before
  <2> QED
    BY <2>1, <2>2, <2>3, <2>4
<1>2. CASE AddExists(o)
  <2>1. TypeOK'
    BY <1>2 DEF AddExists
  <2>2. TableInv'
    BY <1>2 DEF AddExists, TableInv, Before
  <2>3. InputInv'
    BY <1>2 DEF AddExists, TableInv, InputInv, Count, Reading, Before
  <2>4. EndInv'
    BY <1>2 DEF AddExists, TableInv, EndInv, Before
  <2> QED
    BY <2>1, <2>2, <2>3, <2>4
<1>3. CASE AddCreate(o)
  <2>1. TypeOK'
    BY <1>3 DEF AddCreate
  <2>2. TableInv'
    BY <1>3 DEF AddCreate, TableInv, Before
  <2>3. InputInv'
    BY <1>3 DEF AddCreate, TableInv, InputInv, Count, Reading, Before
  <2>4. EndInv'
    BY <1>3 DEF AddCreate, TableInv, EndInv, Before
  <2> QED
    BY <2>1, <2>2, <2>3, <2>4
<1>4. CASE AddReturns(o)
  <2>1. TypeOK'
    <3>1. SidOf[o] \in Sids
      OBVIOUS
    <3>2. wclosed' \subseteq Ops
      BY <1>4 DEF AddReturns
    <3>3. sessions' \in [Sids -> Ops \cup {NoOp}]
      BY <1>4, <3>1 DEF AddReturns
    <3> QED
      BY <1>4, <3>2, <3>3 DEF AddReturns
  <2>2. TableInv'
    BY <1>4 DEF AddReturns, TableInv, Before
  <2>3. InputInv'
    <3>1. /\ next' = next /\ written' = written /\ max' = max /\ closer' = closer
          /\ \A p \in Ops : p # o => (p \in wclosed' <=> p \in wclosed)
      BY <1>4 DEF AddReturns
    <3>2. Reading(o) /\ (Reading(o)' => o \notin wclosed')
      <4>1. opc[o] = "create" /\ o \notin wclosed
        BY <1>4 DEF AddReturns, TableInv, Before
      <4>2. \/ opc'[o] = "run" /\ wclosed' = wclosed
            \/ opc'[o] = "end"
        BY <1>4 DEF AddReturns
      <4>3. Reading(o)
        BY <4>1 DEF Reading, Before
      <4>4. opc'[o] = "end" => ~Reading(o)'
        BY DEF Reading, Before
      <4> QED
        BY <4>1, <4>2, <4>3, <4>4
    <3>3. \A p \in Ops : p # o /\ Reading(p)' => Reading(p)
      BY <1>4 DEF AddReturns, TableInv, Reading, Before
    <3>4. o \notin closer
      BY <1>4 DEF AddReturns, TableInv, Before
    <3> QED
      BY <3>1, <3>2, <3>3, <3>4 DEF InputInv, Count
  <2>4. EndInv'
    BY <1>4 DEF AddReturns, TableInv, EndInv, Before
  <2> QED
    BY <2>1, <2>2, <2>3, <2>4
<1>5. CASE Finish(o)
  <2>1. TypeOK'
    BY <1>5 DEF Finish
  <2>2. TableInv'
    BY <1>5 DEF Finish, TableInv, Before
  <2>3. InputInv'
    BY <1>5 DEF Finish, TableInv, InputInv, Count, Reading, Before
  <2>4. EndInv'
    BY <1>5 DEF Finish, TableInv, EndInv, Before
  <2> QED
    BY <2>1, <2>2, <2>3, <2>4
<1>6. CASE Del(o)
  <2>1. TypeOK'
    BY <1>6 DEF Del, StreamClose
  <2>2. TableInv'
    BY <1>6 DEF Del, StreamClose, TableInv, Before
  <2>3. InputInv'
    BY <1>6 DEF Del, StreamClose, TableInv, InputInv, Count, Reading, Before
  <2>4. EndInv'
    BY <1>6 DEF Del, StreamClose, TableInv, EndInv, Before
  <2> QED
    BY <2>1, <2>2, <2>3, <2>4
<1>7. CASE RuntimeRead(o)
  <2>1. TypeOK'
    BY <1>7 DEF RuntimeRead
  <2>2. TableInv'
    BY <1>7 DEF RuntimeRead, TableInv, Before
  <2>3. InputInv'
    BY <1>7 DEF RuntimeRead, TableInv, InputInv, Count, Reading, Before
  <2>4. EndInv'
    BY <1>7 DEF RuntimeRead, TableInv, EndInv, Before
  <2> QED
    BY <2>1, <2>2, <2>3, <2>4
<1>8. CASE RunReturns(o)
  <2>1. TypeOK'
    BY <1>8 DEF RunReturns
  <2>2. TableInv'
    BY <1>8 DEF RunReturns, TableInv, Before
  <2>3. InputInv'
    BY <1>8 DEF RunReturns, TableInv, InputInv, Count, Reading, Before
  <2>4. EndInv'
    BY <1>8 DEF RunReturns, TableInv, EndInv, Before
  <2> QED
    BY <2>1, <2>2, <2>3, <2>4
<1>9. CASE DelayedClose(o)
  <2>1. TypeOK'
    BY <1>9 DEF DelayedClose
  <2>2. TableInv'
    BY <1>9 DEF DelayedClose, TableInv, Before
  <2>3. InputInv'
    BY <1>9 DEF DelayedClose, TableInv, InputInv, Count, Reading, Before
  <2>4. EndInv'
    BY <1>9 DEF DelayedClose, TableInv, EndInv, Before
  <2> QED
    BY <2>1, <2>2, <2>3, <2>4
<1> QED
  BY Zenon, <1>1, <1>2, <1>3, <1>4, <1>5, <1>6, <1>7, <1>8, <1>9 DEF OpNext

\* The inductive invariant holds in every reachable state.
LEMMA InvariantHolds == Spec => []IInv
<1>1. IInv /\ UNCHANGED vars => IInv'
  BY Zenon DEF IInv, TypeOK, TableInv, InputInv, EndInv, Reading, Before, vars, queueVars,
     pipeVars, dispVars
<1>2. IInv /\ Next => IInv'
  <2> SUFFICES ASSUME IInv, Next PROVE IInv'
    OBVIOUS
  <2>1. CASE \E s \in Sids, q \in Seqs : Input(s, q)
    <3>1. PICK s \in Sids, q \in Seqs : Input(s, q)
      BY <2>1
    <3> QED
      BY <3>1, InputStep
  <2>2. CASE Deliver \/ Delivered
    BY <2>2, DeliverStep
  <2>3. ASSUME NEW o \in Ops,
               OpNext(o) \/ Start(o) \/ RuntimeRead(o) \/ RunReturns(o) \/ DelayedClose(o)
        PROVE  IInv'
    BY <2>3, OpStep
  <2> QED
    BY <2>1, <2>2, <2>3 DEF Next
<1> QED
  BY InitHolds, <1>1, <1>2, PTL DEF Spec

\* Type correctness of the runtime's streams.
THEOREM TypeCorrect == Spec => []TypeOK
BY InvariantHolds, PTL DEF IInv

\* NothingDeliveredAfterEnd for any operations, also if they share their sid
\* and the dispatcher holds the stream when Del removes it: the pipe of an
\* operation that has ended is closed, or nobody ever got hold of it.
THEOREM EndedGetsNothing == Spec => NothingDeliveredAfterEnd
<1>1. IInv /\ [Next]_vars
        => [\A o \in Ops : opc[o] = "done" => written'[o] = written[o]]_vars
  <2> SUFFICES ASSUME IInv, Next, NEW o \in Ops, opc[o] = "done"
               PROVE  written'[o] = written[o]
    OBVIOUS
  <2>1. dop # o \/ o \in wclosed
    BY StreamsAssumption DEF IInv, TypeOK, TableInv, EndInv, Before
  <2>2. CASE Deliver
    BY <2>1, <2>2 DEF Deliver, IInv, TypeOK
  <2>3. CASE written' = written
    BY <2>3
  <2>4. Deliver \/ written' = written
    BY Zenon DEF Next, OpNext, Delivered, Input, Start, AddExists, AddCreate, AddReturns,
       Finish, Del, RuntimeRead, RunReturns, DelayedClose, otherThanOp, pipeVars
  <2> QED
    BY <2>2, <2>3, <2>4
<1> QED
  BY InvariantHolds, <1>1, PTL DEF Spec, NothingDeliveredAfterEnd

\* OpenInputIsReachable for any operations: whoever takes the stream of a
\* running exec or attach out of the table closes its input.
THEOREM OpenStreamsAreReachable == Spec => []OpenInputIsReachable
<1>1. IInv => OpenInputIsReachable
  BY DEF IInv, EndInv, OpenInputIsReachable
<1> QED
  BY InvariantHolds, <1>1, PTL

\* EofIsComplete for any amount of input in any order and any other operations:
\* the pipe is closed after the last chunk that stream.write got.
THEOREM InputIsComplete == Spec => []EofIsComplete
<1>1. IInv => EofIsComplete
  BY StreamsAssumption DEF IInv, TypeOK, InputInv, Reading, Count, NoMax, Before, EofIsComplete
<1> QED
  BY InvariantHolds, <1>1, PTL

=============================================================================
