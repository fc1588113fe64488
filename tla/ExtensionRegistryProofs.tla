----------------------- MODULE ExtensionRegistryProofs -----------------------
(***************************************************************************)
(* Proofs of the safety properties of ExtensionRegistry, for any           *)
(* connections, names and calls of Handle.                                 *)
(***************************************************************************)
EXTENDS ExtensionRegistry, TLAPS

\* A connection that has been looked up has a manager.
LookedUp == \A c \in Conns : pc[c] \in {"register", "running"} => mgr[c] # 0

\* Between the two lookups of a connection whatever general manager its kind has
\* now is among those the table has named for it since the first one.
GeneralInv ==
    \A c \in Conns : pc[c] = "general" =>
        extensionManagers[<<KindOf[c], General>>] \in resolved[c]

\* A new connection has no lookups behind it.
NewInv == \A c \in Conns : pc[c] = "new" => mgr[c] = 0 /\ resolved[c] = {}

IInv ==
    /\ TypeOK /\ LookedUp /\ NewInv
    /\ RegisteredIsRunning /\ OneStreamPerName
    /\ GeneralInv /\ LookupIsAtomic

\* Handle makes no entry for the empty name it stops at.
LEMMA HandledIsNamed ==
    ASSUME NEW extensions \in Seq(Names \cup {General})
    PROVE  General \notin Handled(extensions)
BY DEF Handled

\* The table after Handle is a table, its entries are old or the new manager.
LEMMA TableType ==
    ASSUME NEW table \in [extensionKey -> 0..MaxHandles], NEW kind, NEW extensions,
           NEW m \in 0..MaxHandles
    PROVE  TableAfter(table, kind, extensions, m) \in [extensionKey -> 0..MaxHandles]
BY RegistryAssumption DEF TableAfter

\* What the table names for an extension is a manager or 0.
LEMMA ResolveType ==
    ASSUME NEW table \in [extensionKey -> 0..MaxHandles],
           NEW kind \in Kinds, NEW name \in Names \cup {General}
    PROVE  Resolve(table, kind, name) \in 0..MaxHandles
BY DEF Resolve, extensionKey

\* Handle with names leaves the general manager alone; without names there are
\* only general managers of the kind.  Either way the general entry after it is
\* what the table names then, or what it was before.
LEMMA GeneralAfter ==
    ASSUME NEW table \in [extensionKey -> 0..MaxHandles],
           NEW kind \in Kinds, NEW extensions \in Requests, NEW m \in 0..MaxHandles,
           NEW k \in Kinds, NEW name \in Names \cup {General}
    PROVE  LET after == TableAfter(table, kind, extensions, m)
           IN  \/ after[<<k, General>>] = table[<<k, General>>]
               \/ after[<<k, General>>] = Resolve(after, k, name)
<1> DEFINE after == TableAfter(table, kind, extensions, m)
<1>1. <<k, General>> \in extensionKey /\ <<k, name>> \in extensionKey
  BY DEF extensionKey
<1>2. General \notin Handled(extensions)
  BY HandledIsNamed, RegistryAssumption
<1>3. CASE k = kind /\ extensions = <<>>
  <2>1. name # General => after[<<k, name>>] = 0
    BY <1>1, <1>3, RegistryAssumption DEF TableAfter
  <2> QED
    BY <2>1 DEF Resolve
<1>4. CASE ~(k = kind /\ extensions = <<>>)
  BY <1>1, <1>2, <1>4 DEF TableAfter
<1> QED
  BY <1>3, <1>4

\* The server starts without managers and connections.
LEMMA InitHolds == Init => IInv
<1> SUFFICES ASSUME Init PROVE IInv
  OBVIOUS
<1>1. 0 \in 0..MaxHandles
  BY RegistryAssumption
<1>2. TypeOK
  BY <1>1 DEF Init, TypeOK
<1> QED
  BY <1>2 DEF Init, IInv, LookedUp, NewInv, RegisteredIsRunning, OneStreamPerName,
     GeneralInv, LookupIsAtomic

\* Handle changes the table; connections between their lookups take note.
LEMMA HandleStep ==
    ASSUME IInv, NEW kind \in Kinds, NEW extensions \in Requests, Handle(kind, extensions)
    PROVE  IInv'
<1> USE DEF IInv
<1>1. made + 1 \in 0..MaxHandles
  BY RegistryAssumption DEF Handle, TypeOK
<1>2. extensionManagers' \in [extensionKey -> 0..MaxHandles]
  BY <1>1, TableType DEF Handle, TypeOK
<1>3. \A c \in Conns : Resolve(extensionManagers', KindOf[c], NameOf[c]) \in 0..MaxHandles
  BY <1>2, ResolveType, RegistryAssumption
<1>4. UNCHANGED <<registeredExtensions, pc, mgr>>
  BY DEF Handle
<1>5. \A c \in Conns : resolved'[c] =
          IF pc[c] = "general"
          THEN resolved[c] \cup {Resolve(extensionManagers', KindOf[c], NameOf[c])}
          ELSE resolved[c]
  BY DEF Handle
<1>6. resolved' \in [Conns -> SUBSET (0..MaxHandles)]
  BY <1>3 DEF Handle, TypeOK
<1>7. TypeOK'
  BY <1>1, <1>2, <1>4, <1>6 DEF Handle, TypeOK
<1>8. GeneralInv'
  <2> SUFFICES ASSUME NEW c \in Conns, pc[c] = "general"
               PROVE  extensionManagers'[<<KindOf[c], General>>] \in resolved'[c]
    BY <1>4 DEF GeneralInv
  <2>1. extensionManagers' = TableAfter(extensionManagers, kind, extensions, made + 1)
    BY DEF Handle
  <2>2.
  \/ extensionManagers'[<<KindOf[c], General>>] = extensionManagers[<<KindOf[c], General>>]
        \/ extensionManagers'[<<KindOf[c], General>>]
             = Resolve(extensionManagers', KindOf[c], NameOf[c])
    <3>1. KindOf[c] \in Kinds /\ NameOf[c] \in Names \cup {General}
      BY RegistryAssumption
    <3>2. extensionManagers \in [extensionKey -> 0..MaxHandles]
      BY DEF TypeOK
    <3>3. LET after == TableAfter(extensionManagers, kind, extensions, made + 1)
          IN  \/ after[<<KindOf[c], General>>] = extensionManagers[<<KindOf[c], General>>]
              \/ after[<<KindOf[c], General>>] = Resolve(after, KindOf[c], NameOf[c])
      BY <1>1, <3>1, <3>2, GeneralAfter
    <3> QED
      BY <2>1, <3>3
  <2> QED
    BY <1>5, <2>2 DEF GeneralInv
<1>9. LookedUp' /\ RegisteredIsRunning' /\ OneStreamPerName'
  BY <1>4 DEF LookedUp, RegisteredIsRunning, OneStreamPerName
<1>10. LookupIsAtomic' /\ NewInv'
  BY <1>4, <1>5 DEF LookupIsAtomic, NewInv
<1> QED
  BY <1>7, <1>8, <1>9, <1>10

\* Before registration a connection changes nothing but itself.
LEMMA LookupStep ==
    ASSUME IInv, NEW c \in Conns,
           Accept(c) \/ AcceptInvalid(c) \/ LookupExact(c) \/ LookupGeneral(c)
    PROVE  IInv'
<1> USE RegistryAssumption DEF IInv, TypeOK
<1>1. /\ <<KindOf[c], NameOf[c]>> \in extensionKey
      /\ <<KindOf[c], General>> \in extensionKey
  BY DEF extensionKey
<1>2. Resolve(extensionManagers, KindOf[c], NameOf[c]) \in 0..MaxHandles
  BY ResolveType
<1>3. UNCHANGED <<made, extensionManagers, registeredExtensions>>
  BY DEF Accept, AcceptInvalid, LookupExact, LookupGeneral
<1>4. pc[c] # "running" /\ pc'[c] # "running"
      /\ \A d \in Conns : d # c => /\ pc'[d] = pc[d] /\ mgr'[d] = mgr[d]
                                   /\ resolved'[d] = resolved[d]
  BY DEF Accept, AcceptInvalid, LookupExact, LookupGeneral
<1>5. TypeOK'
  <2>1. CASE Accept(c) \/ AcceptInvalid(c)
    BY <2>1 DEF Accept, AcceptInvalid
  <2>2. CASE LookupExact(c)
    <3>1. mgr' \in [Conns -> 0..MaxHandles] /\ resolved' \in [Conns -> SUBSET (0..MaxHandles)]
      BY <1>1, <1>2, <2>2 DEF LookupExact
    <3> QED
      BY <1>3, <2>2, <3>1 DEF LookupExact
  <2>3. CASE LookupGeneral(c)
    <3>1. mgr' \in [Conns -> 0..MaxHandles]
      BY <1>1, <2>3 DEF LookupGeneral
    <3> QED
      BY <1>3, <2>3, <3>1 DEF LookupGeneral
  <2> QED
    BY <2>1, <2>2, <2>3
<1>6. RegisteredIsRunning' /\ OneStreamPerName'
  <2>1. \A m \in Managers : {d \in Conns : pc'[d] = "running" /\ mgr'[d] = m}
                              = {d \in Conns : pc[d] = "running" /\ mgr[d] = m}
    BY <1>4
  <2>2. RegisteredIsRunning'
    BY <1>3, <2>1 DEF RegisteredIsRunning
  <2>3. \A d \in Conns : (pc'[d] = "running") = (pc[d] = "running")
                          /\ (pc[d] = "running" => mgr'[d] = mgr[d])
    BY <1>4
  <2>4. OneStreamPerName'
    BY <2>3 DEF OneStreamPerName
  <2> QED
    BY <2>2, <2>4
<1>7. LookedUp' /\ NewInv'
  BY <1>4 DEF Accept, AcceptInvalid, LookupExact, LookupGeneral, LookedUp, NewInv
<1>8. GeneralInv'
  <2> SUFFICES ASSUME NEW d \in Conns, pc'[d] = "general"
               PROVE  extensionManagers'[<<KindOf[d], General>>] \in resolved'[d]
    BY DEF GeneralInv
  <2>1. CASE d # c
    BY <1>3, <1>4, <2>1 DEF GeneralInv
  <2>2. CASE d = c /\ LookupExact(c)
    <3>1. extensionManagers[<<KindOf[c], NameOf[c]>>] = 0
      BY <2>2 DEF LookupExact
    <3>2. resolved'[c] = {extensionManagers[<<KindOf[c], General>>]}
      BY <2>2, <3>1 DEF LookupExact, Resolve
    <3> QED
      BY <1>3, <2>2, <3>2
  <2>3. CASE d = c /\ ~LookupExact(c)
    BY <2>3 DEF Accept, AcceptInvalid, LookupGeneral
  <2> QED
    BY <2>1, <2>2, <2>3
<1>9. LookupIsAtomic'
  <2>1. CASE Accept(c) \/ AcceptInvalid(c)
    <3>1. mgr[c] = 0 /\ resolved[c] = {}
      BY <2>1 DEF Accept, AcceptInvalid, NewInv
    <3>2. pc'[c] # "register" /\ resolved'[c] = {}
      BY <2>1, <3>1 DEF Accept, AcceptInvalid
    <3> QED
      BY SMTT(30), <1>4, <3>2 DEF LookupIsAtomic
  <2>2. CASE LookupExact(c)
    BY <1>4, <2>2 DEF LookupExact, LookupIsAtomic, Resolve
  <2>3. CASE LookupGeneral(c)
    BY <1>4, <2>3 DEF LookupGeneral, LookupIsAtomic, GeneralInv
  <2> QED
    BY <2>1, <2>2, <2>3
<1> QED
  BY <1>5, <1>6, <1>7, <1>8, <1>9

\* Registration, and the end of a stream.
LEMMA StreamStep ==
    ASSUME IInv, NEW c \in Conns,
           \/ ConfigMissing(c) \/ Register(c) \/ RegisterDuplicate(c)
           \/ StreamEnd(c) \/ Reconnect(c)
    PROVE  IInv'
<1> USE RegistryAssumption DEF IInv
<1>1. pc[c] \in {"register", "running"} => mgr[c] \in Managers
  BY DEF LookedUp, TypeOK, Managers
<1>2. UNCHANGED <<made, extensionManagers>>
  BY DEF ConfigMissing, Register, RegisterDuplicate, StreamEnd, Reconnect
<1>3. \A d \in Conns : d # c => /\ pc'[d] = pc[d] /\ mgr'[d] = mgr[d]
                                /\ resolved'[d] = resolved[d]
  BY DEF ConfigMissing, Register, RegisterDuplicate, StreamEnd, Reconnect, TypeOK
<1>4. TypeOK'
  <2>1. CASE Register(c)
    BY <1>1, <2>1 DEF Register, TypeOK
  <2>2. CASE RegisterDuplicate(c) \/ ConfigMissing(c)
    BY <2>2 DEF RegisterDuplicate, ConfigMissing, TypeOK
  <2>3. CASE StreamEnd(c)
    BY <1>1, <2>3 DEF StreamEnd, TypeOK
  <2>4. CASE Reconnect(c)
    BY <2>4 DEF Reconnect, TypeOK
  <2> QED
    BY <2>1, <2>2, <2>3, <2>4
<1>5. LookedUp' /\ NewInv' /\ GeneralInv'
  <2>1. \/ pc'[c] \in {"running", "end"} /\ mgr' = mgr /\ pc[c] \in {"register", "running"}
        \/ pc'[c] = "new" /\ mgr'[c] = 0 /\ resolved'[c] = {}
    BY DEF ConfigMissing, Register, RegisterDuplicate, StreamEnd, Reconnect, TypeOK
  <2> QED
    BY <1>2, <1>3, <2>1 DEF LookedUp, NewInv, GeneralInv
<1>6. LookupIsAtomic'
  <2>1. CASE Reconnect(c)
    BY <1>3, <2>1 DEF Reconnect, LookupIsAtomic, TypeOK
  <2>2. CASE ConfigMissing(c) \/ Register(c) \/ RegisterDuplicate(c) \/ StreamEnd(c)
    BY <1>3, <2>2 DEF ConfigMissing, Register, RegisterDuplicate, StreamEnd, LookupIsAtomic,
       LookedUp, TypeOK
  <2> QED
    BY <2>1, <2>2
<1>7. OneStreamPerName'
  <2>1. CASE Register(c)
    <3>1. \A d \in Conns : pc[d] = "running" /\ NameOf[d] = NameOf[c] => mgr[d] # mgr[c]
      BY <1>1, <2>1 DEF Register, RegisteredIsRunning
    <3>2. mgr' = mgr
      BY <2>1 DEF Register
    <3> QED
      BY <1>3, <3>1, <3>2 DEF OneStreamPerName
  <2>2. CASE ConfigMissing(c) \/ RegisterDuplicate(c) \/ StreamEnd(c) \/ Reconnect(c)
    <3>1. pc'[c] # "running"
      BY <2>2 DEF ConfigMissing, RegisterDuplicate, StreamEnd, Reconnect, TypeOK
    <3> QED
      BY <1>3, <3>1 DEF OneStreamPerName
  <2> QED
    BY <2>1, <2>2
<1>8. RegisteredIsRunning'
  <2>1. CASE Register(c)
    BY <1>1, <1>3, <2>1 DEF Register, RegisteredIsRunning, TypeOK
  <2>2. CASE ConfigMissing(c) \/ RegisterDuplicate(c) \/ Reconnect(c)
    <3>1. pc[c] # "running" /\ pc'[c] # "running" /\ UNCHANGED registeredExtensions
      BY <2>2 DEF ConfigMissing, RegisterDuplicate, Reconnect, TypeOK
    <3>2. \A m \in Managers : {d \in Conns : pc'[d] = "running" /\ mgr'[d] = m}
                                = {d \in Conns : pc[d] = "running" /\ mgr[d] = m}
      BY <1>3, <3>1
    <3> QED
      BY <3>1, <3>2 DEF RegisteredIsRunning
  <2>3. CASE StreamEnd(c)
    <3> SUFFICES ASSUME NEW m \in Managers
                 PROVE  registeredExtensions'[m]
                          = {NameOf[d] : d \in {e \in Conns : pc'[e] = "running" /\ mgr'[e] = m}}
      BY DEF RegisteredIsRunning
    <3>1. mgr' = mgr /\ pc'[c] = "end" /\ pc[c] = "running"
      BY <2>3 DEF StreamEnd, TypeOK
    <3>2. registeredExtensions'[m]
            = IF m = mgr[c] THEN registeredExtensions[m] \ {NameOf[c]} ELSE registeredExtensions[m]
      BY <2>3 DEF StreamEnd, TypeOK
    <3>3. \A d \in Conns : pc'[d] = "running" /\ mgr[d] = mgr[c] => NameOf[d] # NameOf[c]
      BY <1>3, <3>1 DEF OneStreamPerName
    <3> QED
      BY <1>3, <3>1, <3>2, <3>3 DEF RegisteredIsRunning
  <2> QED
    BY <2>1, <2>2, <2>3
<1> QED
  BY <1>4, <1>5, <1>6, <1>7, <1>8

\* The inductive invariant holds in every reachable state.
LEMMA InvariantHolds == Spec => []IInv
<1>1. IInv /\ UNCHANGED vars => IInv'
  BY DEF IInv, TypeOK, LookedUp, NewInv, RegisteredIsRunning, OneStreamPerName,
     GeneralInv, LookupIsAtomic, vars
<1>2. IInv /\ [Next]_vars => IInv'
  BY <1>1, HandleStep, LookupStep, StreamStep DEF Next, ConnNext
<1> QED
  BY InitHolds, <1>2, PTL DEF Spec

\* Type correctness of the registry.
THEOREM TypeCorrect == Spec => []TypeOK
BY InvariantHolds, PTL DEF IInv

\* RegisteredIsRunning for any connections: registeredExtensions of a manager
\* and the streams its HandleStream runs agree, duplicates included.
THEOREM NamesAreExact == Spec => []RegisteredIsRunning
BY InvariantHolds, PTL DEF IInv

\* OneStreamPerName for any connections and any calls of Handle.
THEOREM NamesAreExclusive == Spec => []OneStreamPerName
BY InvariantHolds, PTL DEF IInv

\* LookupIsAtomic for any calls of Handle between the two lookups of
\* handleNewConn, which hold no common lock.
THEOREM LookupsAreAtomic == Spec => []LookupIsAtomic
BY InvariantHolds, PTL DEF IInv

=============================================================================
