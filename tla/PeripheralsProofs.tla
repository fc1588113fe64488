-------------------------- MODULE PeripheralsProofs --------------------------
(***************************************************************************)
(* Proofs of the safety properties of Peripherals, for any calls, ids and  *)
(* handles.  The inductive invariant says who owns a handle: the CONNECT   *)
(* that made it, until it is stored under one id; and, if CLOSE overlaps   *)
(* nothing, that the calls for an id agree with the map.                   *)
(***************************************************************************)
EXTENDS Peripherals, TLAPS

\* Handles not made yet are nowhere.
FreshInv ==
    \A h \in fresh :
        /\ h \notin open
        /\ \A i \in Ids : peripherals[i] # h
        /\ \A c \in Calls : held[c] # h

\* A handle not stored yet belongs to one CONNECT; a stored one to one id.
OwnerInv ==
    /\ \A c \in Calls : pc[c] \in {"store", "discard"} =>
          /\ held[c] \in open
          /\ \A i \in Ids : peripherals[i] # held[c]
          /\ \A d \in Calls : d # c => held[d] # held[c]
    /\ \A i, j \in Ids : peripherals[i] = peripherals[j] /\ i # j => peripherals[i] = NoHandle
    /\ \A c \in Calls : pc[c] \in {"close", "delete", "operate"} =>
          \A i \in Ids : peripherals[i] = held[c] /\ i # id[c] => held[c] = NoHandle
    /\ \A c \in Calls : pc[c] \in {"close", "operate"} => held[c] # NoHandle

\* What a hub that serialises CLOSE adds.
SerialInv ==
    serial =>
        /\ \A c, d \in Calls :
              c # d /\ id[c] = id[d] /\ pc[c] \in RemovePc => pc[d] \in {"idle", "done"}
        /\ \A c \in Calls : pc[c] = "close" => held[c] = peripherals[id[c]]
        /\ \A c \in Calls : pc[c] = "delete" => peripherals[id[c]] \notin open
        /\ \A c \in Calls : pc[c] = "operate" =>
              held[c] = peripherals[id[c]] /\ held[c] \in open

Safe == StoredIsOpen /\ NoLeak

IInv == TypeOK /\ FreshInv /\ OwnerInv /\ SerialInv /\ Safe

\* The handler starts with no peripheral and no call.
LEMMA InitHolds == Init => IInv
BY PeripheralsAssumption DEF Init, IInv, TypeOK, FreshInv, OwnerInv, SerialInv, Safe,
   StoredIsOpen, NoLeak, ConnectPc, RemovePc, OperatePc

\* Every step of HandleCmd keeps the types.
LEMMA TypeStep == TypeOK /\ [Next]_vars => TypeOK'
<1> SUFFICES ASSUME TypeOK, [Next]_vars PROVE TypeOK'
  OBVIOUS
<1> USE DEF TypeOK, ConnectPc, RemovePc, OperatePc, Goto, Unused
<1>1. ASSUME NEW c \in Calls, HandleCmd(c) PROVE TypeOK'
  BY <1>1 DEF HandleCmd
<1>2. ASSUME NEW c \in Calls, ConnectLoad(c) PROVE TypeOK'
  BY <1>2 DEF ConnectLoad
<1>3. ASSUME NEW c \in Calls, Connect(c) PROVE TypeOK'
  BY <1>3 DEF Connect
<1>4. ASSUME NEW c \in Calls, ConnectStore(c) PROVE TypeOK'
  BY <1>4 DEF ConnectStore
<1>5. ASSUME NEW c \in Calls, Discard(c) PROVE TypeOK'
  BY <1>5 DEF Discard
<1>6. ASSUME NEW c \in Calls, RemoveGet(c) PROVE TypeOK'
  BY <1>6 DEF RemoveGet
<1>7. ASSUME NEW c \in Calls, RemoveClose(c) PROVE TypeOK'
  BY <1>7 DEF RemoveClose
<1>8. ASSUME NEW c \in Calls, RemoveDelete(c) PROVE TypeOK'
  BY <1>8 DEF RemoveDelete
<1>9. ASSUME NEW c \in Calls, GetPeripheral(c) PROVE TypeOK'
  BY <1>9 DEF GetPeripheral
<1>10. ASSUME NEW c \in Calls, Operate(c) PROVE TypeOK'
  BY <1>10 DEF Operate
<1>11. CASE Terminated \/ UNCHANGED vars
  BY <1>11 DEF Terminated, vars, callVars
<1> QED
  BY <1>1, <1>2, <1>3, <1>4, <1>5, <1>6, <1>7, <1>8, <1>9, <1>10, <1>11 DEF Next

\* A handle becomes known only through the CONNECT that makes it.
LEMMA FreshStep ==
    TypeOK /\ FreshInv /\ TypeOK' /\ [Next]_vars => FreshInv'
<1> SUFFICES ASSUME TypeOK, FreshInv, TypeOK', [Next]_vars PROVE FreshInv'
  OBVIOUS
<1> USE PeripheralsAssumption DEF TypeOK, FreshInv, Goto, Unused
<1>1. ASSUME NEW c \in Calls, HandleCmd(c) PROVE FreshInv'
  BY <1>1 DEF HandleCmd
<1>2. ASSUME NEW c \in Calls, ConnectLoad(c) PROVE FreshInv'
  BY <1>2 DEF ConnectLoad
<1>3. ASSUME NEW c \in Calls, Connect(c) PROVE FreshInv'
  BY <1>3 DEF Connect
<1>4. ASSUME NEW c \in Calls, ConnectStore(c) PROVE FreshInv'
  BY <1>4 DEF ConnectStore
<1>5. ASSUME NEW c \in Calls, Discard(c) PROVE FreshInv'
  BY <1>5 DEF Discard
<1>6. ASSUME NEW c \in Calls, RemoveGet(c) PROVE FreshInv'
  BY <1>6 DEF RemoveGet
<1>7. ASSUME NEW c \in Calls, RemoveClose(c) PROVE FreshInv'
  BY <1>7 DEF RemoveClose
<1>8. ASSUME NEW c \in Calls, RemoveDelete(c) PROVE FreshInv'
  BY <1>8 DEF RemoveDelete
<1>9. ASSUME NEW c \in Calls, GetPeripheral(c) PROVE FreshInv'
  BY <1>9 DEF GetPeripheral
<1>10. ASSUME NEW c \in Calls, Operate(c) PROVE FreshInv'
  BY <1>10 DEF Operate
<1>11. CASE Terminated \/ UNCHANGED vars
  BY <1>11 DEF Terminated, vars, callVars
<1> QED
  BY <1>1, <1>2, <1>3, <1>4, <1>5, <1>6, <1>7, <1>8, <1>9, <1>10, <1>11 DEF Next

\* A handle moves from its CONNECT to one id, and calls get it from there.
LEMMA OwnerStep ==
    TypeOK /\ FreshInv /\ OwnerInv /\ TypeOK' /\ [Next]_vars => OwnerInv'
<1> SUFFICES ASSUME TypeOK, FreshInv, OwnerInv, TypeOK', [Next]_vars PROVE OwnerInv'
  OBVIOUS
<1> USE PeripheralsAssumption DEF TypeOK, FreshInv, OwnerInv, Goto, Unused
<1>1. ASSUME NEW c \in Calls, HandleCmd(c) PROVE OwnerInv'
  BY <1>1 DEF HandleCmd
<1>2. ASSUME NEW c \in Calls, ConnectLoad(c) PROVE OwnerInv'
  BY <1>2 DEF ConnectLoad
<1>3. ASSUME NEW c \in Calls, Connect(c) PROVE OwnerInv'
  BY <1>3 DEF Connect
<1>4. ASSUME NEW c \in Calls, ConnectStore(c) PROVE OwnerInv'
  BY <1>4 DEF ConnectStore
<1>5. ASSUME NEW c \in Calls, Discard(c) PROVE OwnerInv'
  BY <1>5 DEF Discard
<1>6. ASSUME NEW c \in Calls, RemoveGet(c) PROVE OwnerInv'
  BY <1>6 DEF RemoveGet
<1>7. ASSUME NEW c \in Calls, RemoveClose(c) PROVE OwnerInv'
  BY <1>7 DEF RemoveClose
<1>8. ASSUME NEW c \in Calls, RemoveDelete(c) PROVE OwnerInv'
  BY <1>8 DEF RemoveDelete
<1>9. ASSUME NEW c \in Calls, GetPeripheral(c) PROVE OwnerInv'
  BY <1>9 DEF GetPeripheral
<1>10. ASSUME NEW c \in Calls, Operate(c) PROVE OwnerInv'
  BY <1>10 DEF Operate
<1>11. CASE Terminated \/ UNCHANGED vars
  BY <1>11 DEF Terminated, vars, callVars
<1> QED
  BY <1>1, <1>2, <1>3, <1>4, <1>5, <1>6, <1>7, <1>8, <1>9, <1>10, <1>11 DEF Next

\* A CLOSE that overlaps no call of its id sees no change of its entry.
LEMMA SerialStep ==
    TypeOK /\ FreshInv /\ OwnerInv /\ SerialInv /\ StoredIsOpen /\ TypeOK' /\ [Next]_vars => SerialInv'
<1> SUFFICES ASSUME TypeOK, FreshInv, OwnerInv, SerialInv, StoredIsOpen, TypeOK', [Next]_vars PROVE SerialInv'
  OBVIOUS
<1> USE PeripheralsAssumption DEF TypeOK, FreshInv, OwnerInv, SerialInv, StoredIsOpen, RemovePc, ConnectPc, OperatePc, Goto, Unused
<1>1. ASSUME NEW c \in Calls, HandleCmd(c) PROVE SerialInv'
  BY <1>1 DEF HandleCmd, Busy, Closing
<1>2. ASSUME NEW c \in Calls, ConnectLoad(c) PROVE SerialInv'
  BY <1>2 DEF ConnectLoad
<1>3. ASSUME NEW c \in Calls, Connect(c) PROVE SerialInv'
  BY <1>3 DEF Connect
<1>4. ASSUME NEW c \in Calls, ConnectStore(c) PROVE SerialInv'
  BY <1>4 DEF ConnectStore
<1>5. ASSUME NEW c \in Calls, Discard(c) PROVE SerialInv'
  BY <1>5 DEF Discard
<1>6. ASSUME NEW c \in Calls, RemoveGet(c) PROVE SerialInv'
  BY <1>6 DEF RemoveGet
<1>7. ASSUME NEW c \in Calls, RemoveClose(c) PROVE SerialInv'
  BY <1>7 DEF RemoveClose
<1>8. ASSUME NEW c \in Calls, RemoveDelete(c) PROVE SerialInv'
  BY <1>8 DEF RemoveDelete
<1>9. ASSUME NEW c \in Calls, GetPeripheral(c) PROVE SerialInv'
  BY <1>9 DEF GetPeripheral
<1>10. ASSUME NEW c \in Calls, Operate(c) PROVE SerialInv'
  BY <1>10 DEF Operate
<1>11. CASE Terminated \/ UNCHANGED vars
  <2>1. serial' = serial
    BY <1>11, Zenon DEF Terminated, vars
  <2>2. UNCHANGED <<pc, id, held, peripherals, fresh, open>>
    BY <1>11 DEF Terminated, vars, callVars
  <2>3. CASE serial
    BY <2>1, <2>2, <2>3
  <2>4. CASE ~serial
    BY <2>1, <2>4
  <2> QED
    BY <2>3, <2>4
<1> QED
  BY <1>1, <1>2, <1>3, <1>4, <1>5, <1>6, <1>7, <1>8, <1>9, <1>10, <1>11 DEF Next

\* What is stored stays open until its CLOSE deletes it.
LEMMA StoredStep ==
    TypeOK /\ FreshInv /\ OwnerInv /\ StoredIsOpen /\ TypeOK' /\ [Next]_vars => StoredIsOpen'
<1> SUFFICES ASSUME TypeOK, FreshInv, OwnerInv, StoredIsOpen, TypeOK', [Next]_vars PROVE StoredIsOpen'
  OBVIOUS
<1> USE PeripheralsAssumption DEF TypeOK, FreshInv, OwnerInv, StoredIsOpen, Goto, Unused
<1>1. ASSUME NEW c \in Calls, HandleCmd(c) PROVE StoredIsOpen'
  BY <1>1 DEF HandleCmd
<1>2. ASSUME NEW c \in Calls, ConnectLoad(c) PROVE StoredIsOpen'
  BY <1>2 DEF ConnectLoad
<1>3. ASSUME NEW c \in Calls, Connect(c) PROVE StoredIsOpen'
  BY <1>3 DEF Connect
<1>4. ASSUME NEW c \in Calls, ConnectStore(c) PROVE StoredIsOpen'
  BY <1>4 DEF ConnectStore
<1>5. ASSUME NEW c \in Calls, Discard(c) PROVE StoredIsOpen'
  BY <1>5 DEF Discard
<1>6. ASSUME NEW c \in Calls, RemoveGet(c) PROVE StoredIsOpen'
  BY <1>6 DEF RemoveGet
<1>7. ASSUME NEW c \in Calls, RemoveClose(c) PROVE StoredIsOpen'
  BY <1>7 DEF RemoveClose
<1>8. ASSUME NEW c \in Calls, RemoveDelete(c) PROVE StoredIsOpen'
  BY <1>8 DEF RemoveDelete
<1>9. ASSUME NEW c \in Calls, GetPeripheral(c) PROVE StoredIsOpen'
  BY <1>9 DEF GetPeripheral
<1>10. ASSUME NEW c \in Calls, Operate(c) PROVE StoredIsOpen'
  BY <1>10 DEF Operate
<1>11. CASE Terminated \/ UNCHANGED vars
  BY <1>11 DEF Terminated, vars, callVars
<1> QED
  BY <1>1, <1>2, <1>3, <1>4, <1>5, <1>6, <1>7, <1>8, <1>9, <1>10, <1>11 DEF Next

\* An open handle stays with its CONNECT or in the map.
LEMMA LeakStep ==
    TypeOK /\ FreshInv /\ OwnerInv /\ SerialInv /\ NoLeak /\ TypeOK' /\ [Next]_vars => NoLeak'
<1> SUFFICES ASSUME TypeOK, FreshInv, OwnerInv, SerialInv, NoLeak, TypeOK', [Next]_vars PROVE NoLeak'
  OBVIOUS
<1> USE PeripheralsAssumption DEF TypeOK, FreshInv, OwnerInv, SerialInv, NoLeak, Goto, Unused
<1>1. ASSUME NEW c \in Calls, HandleCmd(c) PROVE NoLeak'
  BY <1>1 DEF HandleCmd
<1>2. ASSUME NEW c \in Calls, ConnectLoad(c) PROVE NoLeak'
  BY <1>2 DEF ConnectLoad
<1>3. ASSUME NEW c \in Calls, Connect(c) PROVE NoLeak'
  BY <1>3 DEF Connect
<1>4. ASSUME NEW c \in Calls, ConnectStore(c) PROVE NoLeak'
  BY <1>4 DEF ConnectStore
<1>5. ASSUME NEW c \in Calls, Discard(c) PROVE NoLeak'
  BY <1>5 DEF Discard
<1>6. ASSUME NEW c \in Calls, RemoveGet(c) PROVE NoLeak'
  BY <1>6 DEF RemoveGet
<1>7. ASSUME NEW c \in Calls, RemoveClose(c) PROVE NoLeak'
  BY <1>7 DEF RemoveClose
<1>8. ASSUME NEW c \in Calls, RemoveDelete(c) PROVE NoLeak'
  BY <1>8 DEF RemoveDelete
<1>9. ASSUME NEW c \in Calls, GetPeripheral(c) PROVE NoLeak'
  BY <1>9 DEF GetPeripheral
<1>10. ASSUME NEW c \in Calls, Operate(c) PROVE NoLeak'
  BY <1>10 DEF Operate
<1>11. CASE Terminated \/ UNCHANGED vars
  <2>1. serial' = serial
    BY <1>11, Zenon DEF Terminated, vars
  <2>2. UNCHANGED <<pc, id, held, peripherals, fresh, open>>
    BY <1>11 DEF Terminated, vars, callVars
  <2>3. CASE serial
    BY <2>1, <2>2, <2>3
  <2>4. CASE ~serial
    BY <2>1, <2>4
  <2> QED
    BY <2>3, <2>4
<1> QED
  BY <1>1, <1>2, <1>3, <1>4, <1>5, <1>6, <1>7, <1>8, <1>9, <1>10, <1>11 DEF Next

\* The inductive invariant holds in every reachable state.
LEMMA InvariantHolds == Spec => []IInv
<1>1. IInv /\ [Next]_vars => IInv'
  BY TypeStep, FreshStep, OwnerStep, SerialStep, StoredStep, LeakStep DEF IInv, Safe
<1> QED
  BY InitHolds, <1>1, PTL DEF Spec

\* Type correctness, for any number of calls.
THEOREM TypeCorrect == Spec => []TypeOK
BY InvariantHolds, PTL DEF IInv

\* StoredIsOpen for any number of overlapping calls of HandleCmd: what the
\* map of peripherals holds is open or about to be deleted.
THEOREM MapHoldsOpen == Spec => []StoredIsOpen
BY InvariantHolds, PTL DEF IInv, Safe

\* NoLeak for any number of calls: if no CLOSE overlaps other commands for its
\* id, removePeripheral and the discard in handlePeripheralConnect lose nothing.
THEOREM NothingLeaks == Spec => []NoLeak
BY InvariantHolds, PTL DEF IInv, Safe

\* OperatesOnOpen for any number of calls: under the same assumption the handle
\* getPeripheral returned is open as long as the operation uses it.
THEOREM OperationsAreSafe == Spec => []OperatesOnOpen
<1>1. IInv => OperatesOnOpen
  BY DEF IInv, SerialInv, OperatesOnOpen
<1> QED
  BY InvariantHolds, <1>1, PTL

=============================================================================
