------------------------- MODULE StreamOutputProofs -------------------------
(***************************************************************************)
(* Proofs about StreamOutput, for any number of uploaders and writes.      *)
(*                                                                         *)
(* NumbersAreUnique is not inductive: a number is fresh because the        *)
(* counter is above all numbers handed out (NumberInv), and the last one   *)
(* is complete because no number below the counter is forgotten and the    *)
(* uploaders are done when it is taken (PhaseInv).                         *)
(***************************************************************************)
EXTENDS StreamOutput, TLAPS

PhaseInv ==
    /\ pc[Main] \in {"run", "close", "wait", "load", "cas", "send", "done"}
    /\ \A u \in Uploaders : pc[u] \in {"read", "load", "cas", "send", "done"}
    /\ \A u \in Uploaders : pending[u] <= written
    /\ pc[Main] \in {"load", "cas", "send", "done"} => \A u \in Uploaders : pc[u] = "done"
    /\ \A u \in Uploaders : pc[u] = "done" /\ ~ctxDone => u \in pipeClosed /\ pending[u] = 0
    /\ pc[Main] = "done" <=> final # None

NumberInv ==
    /\ \A p \in Procs : pc[p] = "send" => got[p] < seq
    /\ \A n \in sent \cup lost : n < seq
    /\ \A n \in Nat : n < seq =>
          \/ n \in sent \cup lost
          \/ n = final
          \/ \E p \in Procs : pc[p] = "send" /\ got[p] = n
    /\ pc[Main] = "send" => seq = got[Main] + 1
    /\ final # None => seq = final + 1 /\ final \notin sent \cup lost

Inv == TypeOK /\ PhaseInv /\ NeverAhead /\ NumbersAreUnique /\ NumberInv

-----------------------------------------------------------------------------
\* The initial state of a stream operation, before any output, satisfies the
\* invariant.
LEMMA InvInit == Init => Inv
<1>. SUFFICES ASSUME Init PROVE Inv
  OBVIOUS
<1>. USE OutputAssumption DEF Init, Procs
<1>1. TypeOK
  <2>1. pc \in [Procs -> {"run", "read"}]  OBVIOUS
  <2>2. got \in [Procs -> Nat] /\ pending \in [Uploaders -> 0..MaxWrites]  OBVIOUS
  <2>3. ctxDone \in BOOLEAN  OBVIOUS
  <2>. QED  BY <2>1, <2>2, <2>3 DEF TypeOK
<1>2. PhaseInv  BY DEF PhaseInv
<1>3. NeverAhead /\ NumbersAreUnique  BY DEF NeverAhead, NumbersAreUnique
<1>4. NumberInv
  <2>1. \A p \in Procs : pc[p] # "send"  OBVIOUS
  <2>2. \A n \in Nat : ~(n < seq)  OBVIOUS
  <2>3. sent \cup lost = {} /\ final = None /\ pc[Main] # "send"  BY <2>1
  <2>. QED  BY <2>1, <2>2, <2>3 DEF NumberInv
<1>. QED  BY <1>1, <1>2, <1>3, <1>4 DEF Inv

\* Every step of the uploaders, the runtime and handleStreamOperation keeps
\* the variables in their types.
LEMMA TypeStep == TypeOK /\ PhaseInv /\ [Next]_vars => TypeOK'
<1>. SUFFICES ASSUME TypeOK, PhaseInv, [Next]_vars PROVE TypeOK'
  OBVIOUS
<1>. USE OutputAssumption DEF TypeOK, PhaseInv, Procs, Goto
<1>1. ASSUME NEW p \in Procs, LoadSeq(p) PROVE TypeOK'  BY <1>1 DEF LoadSeq
<1>2. ASSUME NEW p \in Procs, CasSeq(p) PROVE TypeOK'  BY <1>2 DEF CasSeq
<1>3. ASSUME NEW u \in Uploaders, UploadRead(u) PROVE TypeOK'
  <2>1. PICK rest \in 0..(pending[u] - 1) : pending' = [pending EXCEPT ![u] = rest]
    BY <1>3 DEF UploadRead
  <2>2. pending' \in [Uploaders -> 0..MaxWrites]  BY <2>1
  <2>. QED  BY <1>3, <2>2 DEF UploadRead
<1>4. ASSUME NEW u \in Uploaders, UploadEnd(u) PROVE TypeOK'  BY <1>4 DEF UploadEnd
<1>5. ASSUME NEW u \in Uploaders, UploadSend(u) PROVE TypeOK'
  <2>1. got[u] \in Nat  OBVIOUS
  <2>2. sent' \subseteq Nat /\ lost' \subseteq Nat  BY <1>5, <2>1 DEF UploadSend
  <2>3. pc' \in [Procs -> {"run", "close", "wait", "read", "load", "cas", "send", "done"}]
    BY <1>5 DEF UploadSend
  <2>. QED  BY <1>5, <2>2, <2>3 DEF UploadSend
<1>6. ASSUME NEW u \in Uploaders, RuntimeWrite(u) PROVE TypeOK'  BY <1>6 DEF RuntimeWrite
<1>7. ASSUME NEW u \in Uploaders, RuntimeClose(u) PROVE TypeOK'  BY <1>7 DEF RuntimeClose
<1>8. CASE RunReturns  BY <1>8 DEF RunReturns
<1>9. CASE CloseStream  BY <1>9 DEF CloseStream
<1>10. CASE WaitUploaders  BY <1>10 DEF WaitUploaders
<1>11. CASE SendFinal  BY <1>11 DEF SendFinal
<1>12. CASE Cancel  BY <1>12 DEF Cancel
<1>13. CASE UNCHANGED vars  BY <1>13 DEF vars
<1>. QED
  BY <1>1, <1>2, <1>3, <1>4, <1>5, <1>6, <1>7, <1>8, <1>9, <1>10, <1>11, <1>12, <1>13
  DEF Next, UploaderNext, MainNext, Terminated

\* Main takes the last number only after wg.Wait(), and an uploader that is
\* done, without a cancelled context, has emptied a closed pipe.
LEMMA PhaseStep == TypeOK /\ PhaseInv /\ [Next]_vars => PhaseInv'
<1>. SUFFICES ASSUME TypeOK, PhaseInv, [Next]_vars PROVE PhaseInv'
  OBVIOUS
<1>. USE OutputAssumption DEF TypeOK, PhaseInv, Procs, Goto
<1>1. ASSUME NEW p \in Procs, LoadSeq(p) PROVE PhaseInv'  BY <1>1 DEF LoadSeq
<1>2. ASSUME NEW p \in Procs, CasSeq(p) PROVE PhaseInv'  BY <1>2 DEF CasSeq
<1>3. ASSUME NEW u \in Uploaders, UploadRead(u) PROVE PhaseInv'  BY <1>3 DEF UploadRead
<1>4. ASSUME NEW u \in Uploaders, UploadEnd(u) PROVE PhaseInv'  BY <1>4 DEF UploadEnd
<1>5. ASSUME NEW u \in Uploaders, UploadSend(u) PROVE PhaseInv'  BY <1>5 DEF UploadSend
<1>6. ASSUME NEW u \in Uploaders, RuntimeWrite(u) PROVE PhaseInv'  BY <1>6 DEF RuntimeWrite
<1>7. ASSUME NEW u \in Uploaders, RuntimeClose(u) PROVE PhaseInv'  BY <1>7 DEF RuntimeClose
<1>8. CASE RunReturns  BY <1>8 DEF RunReturns
<1>9. CASE CloseStream  BY <1>9 DEF CloseStream
<1>10. CASE WaitUploaders  BY <1>10 DEF WaitUploaders
<1>11. CASE SendFinal  BY <1>11 DEF SendFinal
<1>12. CASE Cancel  BY <1>12 DEF Cancel
<1>13. CASE UNCHANGED vars  BY <1>13 DEF vars
<1>. QED
  BY <1>1, <1>2, <1>3, <1>4, <1>5, <1>6, <1>7, <1>8, <1>9, <1>10, <1>11, <1>12, <1>13
  DEF Next, UploaderNext, MainNext, Terminated

-----------------------------------------------------------------------------
\* A number handed out by nextSeq is new, no number is skipped, and no caller
\* overtakes the counter, whatever the interleaving of loads, swaps and sends.
LEMMA NumberStep == Inv /\ [Next]_vars => (NeverAhead /\ NumbersAreUnique /\ NumberInv)'
<1>. DEFINE Goal == NeverAhead /\ NumbersAreUnique /\ NumberInv
<1>. SUFFICES ASSUME Inv, [Next]_vars PROVE Goal'
  OBVIOUS
<1>. USE OutputAssumption DEF Inv, TypeOK, Procs, Goto
<1>1. ASSUME NEW p \in Procs, LoadSeq(p) PROVE Goal'
  BY <1>1 DEF LoadSeq, NeverAhead, NumbersAreUnique, NumberInv
<1>2. ASSUME NEW p \in Procs, CasSeq(p) PROVE Goal'
  <2>1. CASE seq # got[p]
    BY <1>2, <2>1 DEF CasSeq, NeverAhead, NumbersAreUnique, NumberInv
  <2>2. CASE seq = got[p]
    <3>1. /\ pc' = [pc EXCEPT ![p] = "send"] /\ seq' = seq + 1
          /\ UNCHANGED <<got, sent, lost, final>>
      BY <1>2, <2>2 DEF CasSeq
    <3>2. final = None
      BY <1>2 DEF CasSeq, PhaseInv
    <3>3. NeverAhead'
      BY <3>1 DEF NeverAhead
    <3>4. NumbersAreUnique'
      BY <3>1, <2>2 DEF NumbersAreUnique, NumberInv
    <3>5. \A n \in Nat : n < seq' =>
             \/ n \in (sent \cup lost)'
             \/ n = final'
             \/ \E q \in Procs : pc'[q] = "send" /\ got'[q] = n
      <4>. SUFFICES ASSUME NEW n \in Nat, n < seq + 1, n \notin sent \cup lost, n # final
                   PROVE  \E q \in Procs : pc'[q] = "send" /\ got[q] = n
        BY <3>1
      <4>1. CASE n = seq  BY <4>1, <3>1, <2>2
      <4>2. CASE n < seq
        <5>1. PICK q \in Procs : pc[q] = "send" /\ got[q] = n  BY <4>2 DEF NumberInv
        <5>. QED  BY <5>1, <3>1
      <4>. QED  BY <4>1, <4>2
    <3>6. pc'[Main] = "send" => seq' = got'[Main] + 1
      BY <1>2, <3>1, <2>2 DEF CasSeq, PhaseInv
    <3>7. \A q \in Procs : pc'[q] = "send" => got'[q] < seq'
      BY <3>1, <2>2 DEF NumberInv
    <3>8. \A n \in (sent \cup lost)' : n < seq'
      BY <3>1 DEF NumberInv
    <3>9. NumberInv'  BY <3>1, <3>2, <3>5, <3>6, <3>7, <3>8 DEF NumberInv
    <3>. QED  BY <3>3, <3>4, <3>9
  <2>. QED  BY <2>1, <2>2
<1>3. ASSUME NEW u \in Uploaders, UploadRead(u) PROVE Goal'
  BY <1>3 DEF UploadRead, NeverAhead, NumbersAreUnique, NumberInv
<1>4. ASSUME NEW u \in Uploaders, UploadEnd(u) PROVE Goal'
  BY <1>4 DEF UploadEnd, NeverAhead, NumbersAreUnique, NumberInv
<1>5. ASSUME NEW u \in Uploaders, UploadSend(u) PROVE Goal'
  <2>1. /\ pc[u] = "send" /\ UNCHANGED <<seq, got, final>>
        /\ (sent \cup lost)' = (sent \cup lost) \cup {got[u]}
        /\ \E label \in {"read", "done"} : pc' = [pc EXCEPT ![u] = label]
    BY <1>5 DEF UploadSend
  <2>2. NeverAhead'  BY <2>1 DEF NeverAhead
  <2>3. NumbersAreUnique'  BY <2>1 DEF NumbersAreUnique
  <2>4. final = None  BY <2>1 DEF PhaseInv
  <2>5. \A n \in Nat : n < seq =>
           \/ n \in (sent \cup lost)'
           \/ \E q \in Procs : pc'[q] = "send" /\ got[q] = n
    <3>. SUFFICES ASSUME NEW n \in Nat, n < seq, n \notin (sent \cup lost)'
                 PROVE  \E q \in Procs : pc'[q] = "send" /\ got[q] = n
      OBVIOUS
    <3>1. n \notin sent \cup lost /\ n # final /\ n # got[u]  BY <2>1, <2>4
    <3>2. PICK q \in Procs : pc[q] = "send" /\ got[q] = n  BY <3>1 DEF NumberInv
    <3>. QED  BY <2>1, <3>1, <3>2
  <2>6. \A n \in (sent \cup lost)' : n < seq
    <3>1. got[u] < seq /\ \A n \in sent \cup lost : n < seq  BY <2>1 DEF NumberInv
    <3>. QED  BY ONLY <2>1, <3>1
  <2>7. /\ \A q \in Procs : pc'[q] = "send" => got[q] < seq
        /\ pc'[Main] = "send" => seq = got[Main] + 1
    BY <2>1 DEF NumberInv
  <2>8. NumberInv'  BY <2>1, <2>4, <2>5, <2>6, <2>7 DEF NumberInv
  <2>. QED  BY <2>2, <2>3, <2>8
<1>6. ASSUME NEW u \in Uploaders, RuntimeWrite(u) PROVE Goal'
  BY <1>6 DEF RuntimeWrite, NeverAhead, NumbersAreUnique, NumberInv
<1>7. ASSUME NEW u \in Uploaders, RuntimeClose(u) PROVE Goal'
  BY <1>7 DEF RuntimeClose, NeverAhead, NumbersAreUnique, NumberInv
<1>8. CASE RunReturns
  BY <1>8 DEF RunReturns, NeverAhead, NumbersAreUnique, NumberInv
<1>9. CASE CloseStream
  BY <1>9 DEF CloseStream, NeverAhead, NumbersAreUnique, NumberInv
<1>10. CASE WaitUploaders
  BY <1>10 DEF WaitUploaders, NeverAhead, NumbersAreUnique, NumberInv
<1>11. CASE SendFinal
  BY <1>11 DEF SendFinal, PhaseInv, NeverAhead, NumbersAreUnique, NumberInv
<1>12. CASE Cancel
  BY <1>12 DEF Cancel, NeverAhead, NumbersAreUnique, NumberInv
<1>13. CASE UNCHANGED vars
  BY <1>13 DEF vars, NeverAhead, NumbersAreUnique, NumberInv
<1>. QED
  BY <1>1, <1>2, <1>3, <1>4, <1>5, <1>6, <1>7, <1>8, <1>9, <1>10, <1>11, <1>12, <1>13
  DEF Next, UploaderNext, MainNext, Terminated

\* The invariant holds in every state of a stream operation.
LEMMA InvHolds == Spec => []Inv
<1>1. Inv /\ [Next]_vars => Inv'
  BY TypeStep, PhaseStep, NumberStep DEF Inv
<1>. QED  BY InvInit, <1>1, PTL DEF Spec

-----------------------------------------------------------------------------
\* nextSeq gives every message of a stream a number of its own, for any number
\* of uploaders, and none of its callers gets lost above the counter.
THEOREM SeqIsFresh == Spec => [](NumbersAreUnique /\ NeverAhead)
<1>1. Inv => NumbersAreUnique /\ NeverAhead  BY DEF Inv
<1>. QED  BY InvHolds, <1>1, PTL

\* The last message of handleStreamOperation has the highest number, and all
\* numbers below it were used by output messages.
THEOREM LastMessageIsLast == Spec => []LastIsComplete
<1>1. Inv => LastIsComplete
  <2>. SUFFICES ASSUME Inv, final # None PROVE sent \cup lost = 0..(final - 1)
    BY DEF LastIsComplete
  <2>. USE OutputAssumption DEF Inv, TypeOK, Procs
  <2>1. \A p \in Procs : pc[p] # "send"  BY DEF PhaseInv
  <2>2. seq = final + 1 /\ final \in Nat /\ final \notin sent \cup lost
    BY DEF NumberInv
  <2>3. \A n \in Nat : n < final => n \in sent \cup lost  BY <2>1, <2>2 DEF NumberInv
  <2>4. \A n \in sent \cup lost : n \in Nat /\ n < final  BY <2>2 DEF NumberInv
  <2>5. \A n : n \in sent \cup lost <=> n \in Nat /\ n < final  BY <2>3, <2>4
  <2>6. \A n : n \in 0..(final - 1) <=> n \in Nat /\ n < final  BY <2>2
  <2>. QED  BY <2>5, <2>6
<1>. QED  BY InvHolds, <1>1, PTL

\* Without cancellation all the output the runtime wrote goes out before the
\* last message: closeStream, wg.Wait and the last send are in this order.
THEOREM NoOutputAfterLast == Spec => []OutputBeforeLast
<1>1. Inv => OutputBeforeLast  BY DEF Inv, PhaseInv, OutputBeforeLast
<1>. QED  BY InvHolds, <1>1, PTL

-----------------------------------------------------------------------------
(* StreamOutput implements NumberContract: the successful CompareAndSwap   *)
(* takes a number, a send uses it, and everything else is a stutter.       *)

\* A step that leaves the goroutines about to send, and their numbers, alone
\* changes nothing of what is held.
LEMMA HeldSame ==
    ASSUME \A p \in Procs : pc'[p] = "send" <=> pc[p] = "send",
           \A p \in Procs : pc[p] = "send" => got'[p] = got[p]
    PROVE  Held' = Held
BY DEF Held

\* A step of any goroutine is a step of the contract.
LEMMA NumbersStep == ASSUME Inv, [Next]_vars PROVE [Numbers!Next]_(Numbers!vars)
<1>. USE OutputAssumption DEF Inv, TypeOK, Procs, Goto
<1>1. ASSUME NEW p \in Procs, LoadSeq(p) PROVE UNCHANGED Numbers!vars
  <2>1. Held' = Held  BY <1>1, HeldSame DEF LoadSeq
  <2>. QED  BY <1>1, <2>1 DEF LoadSeq, Numbers!vars
<1>2. ASSUME NEW p \in Procs, CasSeq(p) PROVE Numbers!Take \/ UNCHANGED Numbers!vars
  <2>1. CASE seq # got[p]
    <3>1. Held' = Held  BY <1>2, <2>1, HeldSame DEF CasSeq
    <3>. QED  BY <1>2, <2>1, <3>1 DEF CasSeq, Numbers!vars
  <2>2. CASE seq = got[p]
    <3>1. /\ pc[p] = "cas" /\ pc' = [pc EXCEPT ![p] = "send"] /\ seq' = seq + 1
          /\ UNCHANGED <<got, sent, lost, final>>
      BY <1>2, <2>2 DEF CasSeq
    <3>2. final = None
      BY <3>1 DEF PhaseInv
    <3>3. Held' = Held \cup {seq}
      BY <2>2, <3>1 DEF Held
    <3>. QED  BY <3>1, <3>2, <3>3 DEF Numbers!Take
  <2>. QED  BY <2>1, <2>2
<1>3. ASSUME NEW u \in Uploaders, UploadSend(u) PROVE \E n \in Held : Numbers!Use(n)
  <2>1. /\ pc[u] = "send" /\ UNCHANGED <<seq, got, final>>
        /\ (sent \cup lost)' = (sent \cup lost) \cup {got[u]}
        /\ \E label \in {"read", "done"} : pc' = [pc EXCEPT ![u] = label]
    BY <1>3 DEF UploadSend
  <2>2. got[u] \in Held
    BY <2>1 DEF Held
  <2>3. Held' = Held \ {got[u]}
    BY <2>1 DEF Held, NumbersAreUnique
  <2>. QED  BY <2>1, <2>2, <2>3 DEF Numbers!Use
<1>4. ASSUME SendFinal PROVE Numbers!Finish
  <2>1. /\ pc[Main] = "send" /\ final' = got[Main] /\ final = None
        /\ pc' = [pc EXCEPT ![Main] = "done"]
        /\ UNCHANGED <<seq, got, sent, lost>>
    BY <1>4 DEF SendFinal, PhaseInv
  <2>2. Held = {got[Main]} /\ Held' = {}
    BY <2>1 DEF Held, PhaseInv
  <2>3. seq = got[Main] + 1
    BY <2>1 DEF NumberInv
  <2>. QED  BY <2>1, <2>2, <2>3 DEF Numbers!Finish
<1>5. ASSUME NEW u \in Uploaders, UploadRead(u) \/ UploadEnd(u)
      PROVE  UNCHANGED Numbers!vars
  <2>1. Held' = Held  BY <1>5, HeldSame DEF UploadRead, UploadEnd
  <2>. QED  BY <1>5, <2>1 DEF UploadRead, UploadEnd, Numbers!vars
<1>6. ASSUME NEW u \in Uploaders, RuntimeWrite(u) \/ RuntimeClose(u)
      PROVE  UNCHANGED Numbers!vars
  <2>1. Held' = Held  BY <1>6, HeldSame DEF RuntimeWrite, RuntimeClose
  <2>. QED  BY <1>6, <2>1 DEF RuntimeWrite, RuntimeClose, Numbers!vars
<1>7. ASSUME RunReturns \/ CloseStream \/ WaitUploaders \/ Cancel \/ UNCHANGED vars
      PROVE  UNCHANGED Numbers!vars
  <2>1. Held' = Held
    BY <1>7, HeldSame DEF RunReturns, CloseStream, WaitUploaders, Cancel, vars
  <2>. QED
    BY <1>7, <2>1 DEF RunReturns, CloseStream, WaitUploaders, Cancel, vars, Numbers!vars
<1>. QED
  BY <1>1, <1>2, <1>3, <1>4, <1>5, <1>6, <1>7
     DEF Next, UploaderNext, MainNext, Terminated, Numbers!Next

\* The uploaders and handleStreamOperation implement NumberContract: seen from
\* outside, the CompareAndSwap loop of nextSeq is one step, no number is taken
\* twice or skipped, and the last message is numbered after all others.
THEOREM NextSeqIsAtomic == Spec => KeepsNumbering
<1>1. Init => Numbers!Init
  BY OutputAssumption DEF Init, Numbers!Init, Held, Procs
<1>. QED  BY <1>1, InvHolds, NumbersStep, PTL DEF Spec, KeepsNumbering, Numbers!Spec

=============================================================================
