------------------------- MODULE ClientStreamProofs -------------------------
(***************************************************************************)
(* ClientStream implements StreamContract, and LocalEndIsClean.  The       *)
(* inductive invariant says that the goroutines move only between Register *)
(* and Wait, that cmdCh is closed exactly when the reader has passed its   *)
(* deferred close, and that errors other than io.EOF come from a lost      *)
(* connection.                                                             *)
(***************************************************************************)
EXTENDS ClientStream, TLAPS

PhaseInv ==
    \/ cpc = "wait"
    \/ cpc # "wait" /\ wpc = "select" /\ rpc = "decode"
    \/ cpc = "done" /\ wpc = "exit" /\ rpc = "exit"

CmdInv == (cmdClosed = TRUE) <=> rpc \in {"return", "exit"}

Benign == {"nil", "EOF"}

ErrorInv ==
    \/ lost = TRUE
    \/ /\ werr \in Benign /\ rerr \in Benign /\ groupErr \in Benign
       /\ conn = "none" \/ result # "error"

ConnInv ==
    /\ cpc = "dial" => conn = "none"
    /\ cpc \in {"register", "wait"} => conn # "none"
    /\ cpc # "done" => result = "none"

IInv == TypeOK /\ PhaseInv /\ CmdInv /\ ErrorInv /\ ConnInv

\* ProcessNewStream starts with fresh channels.
LEMMA InitHolds == Init => IInv
BY DEF Init, IInv, TypeOK, PhaseInv, CmdInv, ErrorInv, ConnInv, Benign, Errors, ReadErrors

\* Steps of ProcessNewStream keep the invariant.
LEMMA ProcessStep == ASSUME IInv, ProcessNext PROVE IInv'
<1> USE DEF IInv, TypeOK, PhaseInv, CmdInv, ErrorInv, ConnInv, Benign, goroutines, chanVars,
        groupVars
<1>1. CASE DialFails
  BY <1>1 DEF DialFails
<1>2. CASE Dial
  BY <1>2 DEF Dial
<1>3. CASE RegisterFails
  BY <1>3 DEF RegisterFails
<1>4. CASE Register
  BY <1>4 DEF Register
<1>5. CASE Wait
  BY <1>5 DEF Wait
<1> QED
  BY <1>1, <1>2, <1>3, <1>4, <1>5 DEF ProcessNext

\* Steps of the writer keep the invariant.
LEMMA WriterStep == ASSUME IInv, WriterNext PROVE IInv'
<1> USE DEF IInv, TypeOK, PhaseInv, CmdInv, ErrorInv, ConnInv, Benign, Errors, ReadErrors,
        otherThanWriter, groupVars
<1>1. CASE WriterTake
  BY <1>1 DEF WriterTake
<1>2. CASE WriterStop
  BY <1>2 DEF WriterStop
<1>3. CASE WriterEncode
  BY <1>3 DEF WriterEncode
<1>4. CASE WriterEncodeFails
  BY <1>4 DEF WriterEncodeFails
<1>5. CASE WriterClose
  BY <1>5 DEF WriterClose
<1>6. CASE WriterReturn
  BY <1>6 DEF WriterReturn, GroupReturn
<1> QED
  BY <1>1, <1>2, <1>3, <1>4, <1>5, <1>6 DEF WriterNext

\* Steps of the reader keep the invariant.
LEMMA ReaderStep == ASSUME IInv, ReaderNext PROVE IInv'
<1> USE DEF IInv, TypeOK, PhaseInv, CmdInv, ErrorInv, ConnInv, Benign, Errors, ReadErrors,
        otherThanReader, groupVars
<1>1. CASE ReaderDecode
  BY <1>1 DEF ReaderDecode
<1>2. CASE ReaderFails
  BY <1>2 DEF ReaderFails, DecodeErrors, checkNetworkReadErr
<1>3. CASE ReaderPing
  BY <1>3 DEF ReaderPing
<1>4. CASE ReaderCommand
  BY <1>4 DEF ReaderCommand
<1>5. CASE ReaderCancel
  BY <1>5 DEF ReaderCancel
<1>6. CASE ReaderCloseKeepalive
  BY <1>6 DEF ReaderCloseKeepalive
<1>7. CASE ReaderCloseCmd
  BY <1>7 DEF ReaderCloseCmd
<1>8. CASE ReaderReturn
  BY <1>8 DEF ReaderReturn, GroupReturn
<1> QED
  BY <1>1, <1>2, <1>3, <1>4, <1>5, <1>6, <1>7, <1>8 DEF ReaderNext

\* Steps of the environment keep the invariant.
LEMMA EnvStep == ASSUME IInv, EnvNext \/ Returned \/ UNCHANGED vars PROVE IInv'
<1> USE DEF IInv, TypeOK, PhaseInv, CmdInv, ErrorInv, ConnInv, Benign, otherThanEnv,
        goroutines, chanVars, groupVars
<1>1. CASE OwnerTake
  BY <1>1 DEF OwnerTake
<1>2. CASE OwnerPut
  BY <1>2 DEF OwnerPut
<1>3. CASE OwnerClose
  BY <1>3 DEF OwnerClose
<1>4. CASE Cancel
  BY <1>4 DEF Cancel
<1>5. CASE Lose
  BY <1>5 DEF Lose
<1>6. CASE Returned \/ UNCHANGED vars
  BY <1>6 DEF Returned, vars
<1> QED
  BY <1>1, <1>2, <1>3, <1>4, <1>5, <1>6 DEF EnvNext

\* The inductive invariant holds in every reachable state.
LEMMA InvariantHolds == Spec => []IInv
<1>1. IInv /\ [Next]_vars => IInv'
  BY ProcessStep, WriterStep, ReaderStep, EnvStep DEF Next
<1> QED
  BY InitHolds, <1>1, PTL DEF Spec

\* The map of the refinement starts the contract.
LEMMA ContractInit == Init => Contract!Init
BY DEF Init, Contract!Init, Phase

\* Each step that touches the channels or the phase is one of the contract's.
LEMMA ContractStep == ASSUME IInv, [Next]_vars PROVE [Contract!Next]_(Contract!vars)
<1> USE DEF IInv, TypeOK, PhaseInv, CmdInv, Phase, chanVars, groupVars, goroutines,
        otherThanWriter, otherThanReader, otherThanEnv
<1>1. CASE DialFails \/ RegisterFails
  <2>1. Contract!Fail
    BY <1>1 DEF DialFails, RegisterFails, Contract!Fail
  <2> QED
    BY <2>1 DEF Contract!Next, Contract!StreamStep
<1>2. CASE Register
  <2>1. Contract!Connect
    BY <1>2 DEF Register, Contract!Connect
  <2> QED
    BY <2>1 DEF Contract!Next, Contract!StreamStep
<1>3. CASE Wait
  <2>1. Contract!Return
    BY <1>3 DEF Wait, Contract!Return
  <2> QED
    BY <2>1 DEF Contract!Next, Contract!StreamStep
<1>4. CASE WriterTake
  <2>1. Contract!Message
    BY <1>4 DEF WriterTake, Contract!Message
  <2> QED
    BY <2>1 DEF Contract!Next, Contract!StreamStep
<1>5. CASE ReaderCommand
  <2>1. Contract!Command
    BY <1>5 DEF ReaderCommand, Contract!Command
  <2> QED
    BY <2>1 DEF Contract!Next, Contract!StreamStep
<1>6. CASE ReaderCloseCmd
  <2>1. Contract!CloseCmd
    BY <1>6 DEF ReaderCloseCmd, Contract!CloseCmd
  <2> QED
    BY <2>1 DEF Contract!Next, Contract!StreamStep
<1>7. CASE OwnerTake \/ OwnerPut \/ OwnerClose
  <2>1. Contract!TakeCmd \/ Contract!PutMsg \/ Contract!CloseMsg
    BY <1>7 DEF OwnerTake, OwnerPut, OwnerClose, Contract!TakeCmd, Contract!PutMsg,
       Contract!CloseMsg
  <2> QED
    BY <2>1 DEF Contract!Next, Contract!OwnerStep
<1>8. CASE WriterStop \/ WriterEncode \/ WriterEncodeFails \/ WriterClose \/ WriterReturn
  BY <1>8 DEF WriterStop, WriterEncode, WriterEncodeFails, WriterClose, WriterReturn,
     Contract!vars
<1>9. CASE \/ ReaderDecode \/ ReaderFails \/ ReaderPing \/ ReaderCancel
           \/ ReaderCloseKeepalive \/ ReaderReturn
  BY <1>9 DEF ReaderDecode, ReaderFails, ReaderPing, ReaderCancel, ReaderCloseKeepalive,
     ReaderReturn, Contract!vars
<1>10. CASE Dial \/ Cancel \/ Lose
  BY <1>10 DEF Dial, Cancel, Lose, Contract!vars
<1>11. CASE Returned \/ UNCHANGED vars
  BY <1>11 DEF Returned, vars, Contract!vars
<1> QED
  BY <1>1, <1>2, <1>3, <1>4, <1>5, <1>6, <1>7, <1>8, <1>9, <1>10, <1>11
     DEF Next, ProcessNext, WriterNext, ReaderNext, EnvNext

\* ProcessNewStream keeps the contract with the owner of its channels: what
\* Controller assumes of a stream is what the two goroutines do.
THEOREM ContractKept == Spec => KeepsContract
BY InvariantHolds, ContractInit, ContractStep, PTL DEF Spec, KeepsContract, Contract!Spec

\* LocalEndIsClean: whichever goroutine returns first, a stream ended by
\* closing msgCh or by the context is not reported as an error.
THEOREM LocalEnds == Spec => []LocalEndIsClean
<1>1. IInv => LocalEndIsClean
  BY DEF IInv, TypeOK, ErrorInv, LocalEndIsClean
<1> QED
  BY InvariantHolds, <1>1, PTL

\* Type correctness of a stream.
THEOREM TypeCorrect == Spec => []TypeOK
BY InvariantHolds, PTL DEF IInv

=============================================================================
