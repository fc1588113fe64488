-------------------------- MODULE ConnectionProofs --------------------------
(***************************************************************************)
(* Theorems on the server's connections: Listeners, for any endpoints,     *)
(* addresses and sessions, and Handshake, for any number of messages.      *)
(***************************************************************************)
EXTENDS Listeners, Handshake, Integers, TLAPS

(***************************************************************************)
(* RunningIsReachable of Listeners.  The entry of an address belongs to    *)
(* its session until that session itself deletes it, which is more than    *)
(* the property says.                                                      *)
(***************************************************************************)
Live == {"running", "stopping", "ended", "closed"}

EntryInv == \A x \in Sessions : xpc[x] \in Live => connections[AddrOf[x]] = x

IInv == TypeOK /\ EntryInv

\* No session runs when the server starts.
LEMMA InitHolds == Init => IInv
<1> SUFFICES ASSUME Init PROVE IInv
  OBVIOUS
<1>1. 0 \in 0..PipeCap
  BY ListenersAssumption
<1>2. TypeOK
  BY <1>1 DEF Init, TypeOK
<1> QED
  BY <1>2 DEF Init, IInv, EntryInv, Live

\* Steps of the server and of the packet loop.
LEMMA ServerStep ==
    ASSUME IInv,
           \/ ServeReturns \/ Close \/ Write \/ Terminated \/ UNCHANGED vars
           \/ \E e \in Endpoints : Listen(e) \/ AcceptFails(e) \/ CloseOne(e)
           \/ \E a \in Addrs : ReadKnown(a)
    PROVE  IInv'
<1> USE ListenersAssumption
        DEF IInv, TypeOK, EntryInv, Live, otherThanServer, serverVars, sessionVars
<1>1. CASE ServeReturns
  BY <1>1 DEF ServeReturns
<1>2. CASE Close
  BY <1>2 DEF Close
<1>3. CASE Write
  BY <1>3 DEF Write
<1>4. CASE Terminated \/ UNCHANGED vars
  BY <1>4 DEF Terminated, vars
<1>5. ASSUME NEW e \in Endpoints, Listen(e) PROVE IInv'
  BY <1>5 DEF Listen
<1>6. ASSUME NEW e \in Endpoints, AcceptFails(e) PROVE IInv'
  BY <1>6 DEF AcceptFails
<1>7. ASSUME NEW e \in Endpoints, CloseOne(e) PROVE IInv'
  BY <1>7 DEF CloseOne
<1>8. ASSUME NEW a \in Addrs, ReadKnown(a) PROVE IInv'
  BY <1>8 DEF ReadKnown, Reading
<1> QED
  BY <1>1, <1>2, <1>3, <1>4, <1>5, <1>6, <1>7, <1>8

\* A session starts only when its address has no entry, so no earlier session
\* of the address is left that could delete the new entry.
LEMMA StartStep == ASSUME IInv, NEW a \in Addrs, ReadNew(a) PROVE IInv'
<1> USE ListenersAssumption DEF IInv, TypeOK, Live, serverVars
<1>1. PICK x \in Sessions :
          /\ AddrOf[x] = a /\ xpc[x] = "idle"
          /\ connections' = [connections EXCEPT ![a] = x]
          /\ xpc' = [xpc EXCEPT ![x] = "running"]
  BY DEF ReadNew
<1>2. connections[a] = NoSession /\ UNCHANGED <<spc, epc, l, toClose, closeCalled, lx, buf, wclosed>>
  BY DEF ReadNew
<1>3. TypeOK'
  BY <1>1, <1>2
<1>4. EntryInv'
  BY <1>1, <1>2 DEF EntryInv
<1> QED
  BY <1>3, <1>4

\* A session gives up its entry last, when it is done.
LEMMA SessionStep ==
    ASSUME IInv, NEW x \in Sessions,
           Refuse(x) \/ Stop(x) \/ Receive(x) \/ ClosePipe(x) \/ Delete(x)
    PROVE  IInv'
<1> USE ListenersAssumption DEF IInv, TypeOK, EntryInv, Live, otherThanSession, serverVars
<1>1. CASE Refuse(x)
  BY <1>1 DEF Refuse
<1>2. CASE Stop(x)
  BY <1>2 DEF Stop
<1>3. CASE Receive(x)
  BY <1>3 DEF Receive
<1>4. CASE ClosePipe(x)
  BY <1>4 DEF ClosePipe
<1>5. CASE Delete(x)
  BY <1>5 DEF Delete
<1> QED
  BY <1>1, <1>2, <1>3, <1>4, <1>5

\* The inductive invariant holds in every reachable state.
LEMMA InvariantHolds == Spec => []IInv
<1>1. IInv /\ [Next]_vars => IInv'
  BY ServerStep, StartStep, SessionStep DEF Next
<1> QED
  BY InitHolds, <1>1, PTL DEF Spec

\* RunningIsReachable for any number of addresses and sessions: the packet
\* loop's Load, and Store, and the sessions' Delete need no common lock.
THEOREM SessionsAreReachable == Spec => []RunningIsReachable
<1>1. IInv => RunningIsReachable
  BY DEF IInv, EntryInv, Live, RunningIsReachable
<1> QED
  BY InvariantHolds, <1>1, PTL

\* Type correctness of the server's listeners.
THEOREM TypeCorrect == Spec => []TypeOK
BY InvariantHolds, PTL DEF IInv

\* What makes AddressFreed and ServeEnds hold once the goroutines run: an entry
\* belongs to a session of its address that has not deleted it, and a session
\* closes its pipe before that.
PipeInv ==
    /\ \A a \in Addrs : connections[a] # NoSession =>
          AddrOf[connections[a]] = a /\ xpc[connections[a]] \in Live
    /\ \A x \in Sessions : xpc[x] \in {"closed", "done"} <=> x \in wclosed
    /\ lx # NoSession => xpc[lx] # "idle"

\* The packet loop, blocked on the pipe of a session, is not forgotten: the
\* session reads, or is about to close the pipe, or has closed it.
LoopIsReleased ==
    lx # NoSession => xpc[lx] \in {"running", "stopping", "ended"} \/ lx \in wclosed

\* The entry of an address never passes from one session to another: it is set
\* where there is none, and removed only by its own session, which no longer
\* reads and has closed its pipe.
EntryIsGivenBack ==
    \A a \in Addrs : connections'[a] # connections[a] =>
        \/ connections[a] = NoSession /\ xpc'[connections'[a]] = "running"
        \/ /\ connections'[a] = NoSession /\ connections[a] \in wclosed
           /\ xpc[connections[a]] = "closed" /\ xpc'[connections[a]] = "done"

\* Every step of the loop and of a session keeps PipeInv.
LEMMA PipeStep == ASSUME IInv, PipeInv, [Next]_vars PROVE PipeInv'
<1> USE ListenersAssumption
        DEF IInv, TypeOK, Live, PipeInv, serverVars, sessionVars, otherThanSession
<1>1. CASE ServeReturns \/ Close \/ (\E e \in Endpoints : Listen(e) \/ AcceptFails(e) \/ CloseOne(e))
            \/ Terminated \/ UNCHANGED vars
  <2>1. UNCHANGED <<connections, lx, xpc, wclosed>>
    BY Zenon, <1>1 DEF ServeReturns, Close, Listen, AcceptFails, CloseOne, Terminated, vars,
         otherThanServer
  <2> QED  BY <2>1
<1>2. CASE Write
  BY <1>2 DEF Write
<1>3. ASSUME NEW a \in Addrs, ReadKnown(a) PROVE PipeInv'
  BY <1>3 DEF ReadKnown
<1>4. ASSUME NEW a \in Addrs, ReadNew(a) PROVE PipeInv'
  <2>1. PICK x \in Sessions :
            /\ AddrOf[x] = a /\ xpc[x] = "idle"
            /\ connections' = [connections EXCEPT ![a] = x]
            /\ xpc' = [xpc EXCEPT ![x] = "running"]
    BY Zenon, <1>4 DEF ReadNew
  <2>2. UNCHANGED <<lx, wclosed>>
    BY <1>4 DEF ReadNew
  <2> QED  BY <2>1, <2>2
<1>5. ASSUME NEW x \in Sessions, Refuse(x) \/ Stop(x) \/ Receive(x) PROVE PipeInv'
  <2>1. /\ UNCHANGED <<connections, lx, wclosed>>
        /\ xpc[x] \in {"running", "stopping"}
        /\ \E s \in {"running", "stopping", "ended"} : xpc' = [xpc EXCEPT ![x] = s]
    BY <1>5 DEF Refuse, Stop, Receive
  <2> QED  BY <2>1
<1>6. ASSUME NEW x \in Sessions, ClosePipe(x) PROVE PipeInv'
  BY <1>6 DEF ClosePipe
<1>7. ASSUME NEW x \in Sessions, Delete(x) PROVE PipeInv'
  BY <1>7 DEF Delete, EntryInv
<1> QED
  BY <1>1, <1>2, <1>3, <1>4, <1>5, <1>6, <1>7 DEF Next

\* The invariants together, in every state.
LEMMA PipeHolds == Spec => [](IInv /\ PipeInv)
<1>1. Init => PipeInv
  BY ListenersAssumption DEF Init, PipeInv, Live
<1>2. IInv /\ PipeInv /\ [Next]_vars => PipeInv'
  BY PipeStep
<1> QED  BY InvariantHolds, <1>1, <1>2, PTL DEF Spec

\* The packet loop holds no lock and no reference count, yet whenever it waits
\* for room in a pipe somebody is going to read from it or close it.
THEOREM LoopCanContinue == Spec => []LoopIsReleased
<1>1. IInv /\ PipeInv => LoopIsReleased
  BY ListenersAssumption DEF IInv, TypeOK, PipeInv, LoopIsReleased
<1> QED  BY PipeHolds, <1>1, PTL

\* The deferred pw.Close and Delete of a session, in this order, and the loop's
\* Load and Store, hand an address from one session to the next.
THEOREM EntriesAreGivenBack == Spec => [][EntryIsGivenBack]_vars
<1>1. IInv /\ PipeInv /\ [Next]_vars => [EntryIsGivenBack]_vars
  <2> SUFFICES ASSUME IInv, PipeInv, Next PROVE EntryIsGivenBack
    OBVIOUS
  <2> USE ListenersAssumption DEF IInv, TypeOK, EntryIsGivenBack, Live
  <2>1. CASE UNCHANGED connections
    BY <2>1
  <2>2. ASSUME NEW a \in Addrs, ReadNew(a) PROVE EntryIsGivenBack
    BY <2>2 DEF ReadNew
  <2>3. ASSUME NEW x \in Sessions, Delete(x) PROVE EntryIsGivenBack
    <3>1. /\ connections[AddrOf[x]] = x /\ x \in wclosed /\ xpc[x] = "closed"
          /\ connections' = [connections EXCEPT ![AddrOf[x]] = NoSession]
          /\ xpc' = [xpc EXCEPT ![x] = "done"]
      BY <2>3 DEF Delete, EntryInv, PipeInv
    <3> QED  BY <3>1
  <2>4. UNCHANGED connections \/ (\E a \in Addrs : ReadNew(a)) \/ (\E x \in Sessions : Delete(x))
    BY Zenon DEF Next, ServeReturns, Close, Write, Terminated, vars, Listen, AcceptFails, CloseOne,
       ReadKnown, Refuse, Stop, Receive, ClosePipe, otherThanServer, otherThanSession
  <2> QED  BY <2>1, <2>2, <2>3, <2>4
<1> QED  BY PipeHolds, <1>1, PTL DEF Spec

-----------------------------------------------------------------------------
(***************************************************************************)
(* Handshake.  The messages of an orderly stream make up one sequence of   *)
(* parts, two for each message, at positions 1, 2, ...; the newline of the *)
(* register message is at position 0.  Consumed is how much of it the hub  *)
(* has decoded, so wire[i] is the part at position Consumed + i.           *)
(***************************************************************************)
First(j)  == IF codec = "json" THEN Part("value", j) ELSE Part("size", j)
Second(j) == IF codec = "json" THEN Part("newline", 0) ELSE Part("body", j)

Consumed ==
    IF codec = "json" THEN 2 * n - Len(wire)
                      ELSE 2 * Len(delivered) + (IF dpc = 0 THEN 0 ELSE 1)
Written == Consumed + Len(wire)

\* What is on the wire continues the sequence.
WireInv ==
    \A i \in 1..Len(wire), j \in 0..n :
        /\ Consumed + i = 2 * j - 1 => wire[i] = First(j)
        /\ Consumed + i = 2 * j => wire[i] = Second(j)

\* How far the hub and the extension have come, by their own state.
ProgressInv ==
    /\ delivered = [i \in 1..Len(delivered) |-> i]
    /\ codec = "json" => /\ Consumed \in {2 * Len(delivered) - 1, 2 * Len(delivered)}
                         /\ dpc = 0
    /\ codec = "protobuf" => /\ dpc \in {0, Len(delivered) + 1}
                             /\ Written \in {2 * n - 1, 2 * n}
                             /\ cpc = "idle" => Written = 2 * n
                             /\ cpc = "encoding" => Written = 2 * n - 1
    /\ hpc = "eof" => cpc = "closed" /\ wire = <<>> /\ dpc = 0

\* Before the register message has been read, a patient extension has sent
\* nothing else.
GreetingInv ==
    /\ n = 0 /\ ~greeted /\ dpc = 0 /\ delivered = <<>> /\ cpc # "encoding"
    /\ packet => /\ Len(wire) <= 1 /\ (cpc = "start" => wire = <<>>)
                 /\ \A i \in 1..Len(wire) : wire[i] = Part("register", 0)
    /\ ~packet => IF cpc = "start"
                    THEN wire = <<>>
                    ELSE /\ Len(wire) = 2
                         /\ wire[1] = Part("register", 0) /\ wire[2] = Part("newline", 0)

\* Then a session over datagrams has nothing but JSON messages to read.
DatagramInv == \A i \in 1..Len(wire) : wire[i].part = "value"

OrderlyInv ==
    Orderly =>
        /\ hpc = "validate" => GreetingInv
        /\ hpc # "validate" => /\ hpc # "garbled" /\ cpc # "start"
                               /\ packet => DatagramInv
                               /\ ~packet => ProgressInv /\ WireInv

HandshakeTypeInv ==
    /\ HandshakeTypeOK
    /\ \A i \in 1..Len(wire) : wire[i].part = "value" => wire[i].msg # 0
    /\ cpc = "encoding" => codec = "protobuf" /\ n # 0

HandshakeInv == HandshakeTypeInv /\ OrderlyInv

\* A connection starts in order.
LEMMA HandshakeInitHolds == HandshakeInit => HandshakeInv
<1> SUFFICES ASSUME HandshakeInit PROVE HandshakeInv
  OBVIOUS
<1>1. wire \in Seq(Token) /\ delivered \in Seq(1..MaxMsgs) /\ Len(wire) = 0 /\ 0 \in 0..MaxMsgs
  BY HandshakeAssumption DEF HandshakeInit
<1>3. HandshakeTypeInv
  <2>1. HandshakeTypeOK
    BY Zenon, <1>1 DEF HandshakeInit, HandshakeTypeOK
  <2>2. ~ \E i \in 1..Len(wire) : TRUE
    BY <1>1
  <2> QED  BY Zenon, <2>1, <2>2 DEF HandshakeInit, HandshakeTypeInv
<1>2. OrderlyInv
  BY DEF HandshakeInit, OrderlyInv, GreetingInv
<1> QED
  BY <1>2, <1>3 DEF HandshakeInv

\* Every element of s is one of t: what loss, reordering and reading leave on
\* the wire was there before.
Within(s, t) == \A i \in 1..Len(s) : \E k \in 1..Len(t) : s[i] = t[k]

LEMMA ConcatParts ==
    ASSUME NEW S, NEW a \in Seq(S), NEW b \in Seq(S)
    PROVE  /\ a \o b \in Seq(S) /\ Len(a \o b) = Len(a) + Len(b)
           /\ \A i \in 1..Len(a) + Len(b) :
                 (a \o b)[i] = IF i <= Len(a) THEN a[i] ELSE b[i - Len(a)]
OBVIOUS

LEMMA RemoveWithin ==
    ASSUME NEW S, NEW t \in Seq(S), NEW k \in 1..Len(t)
    PROVE  /\ RemoveAt(t, k) \in Seq(S) /\ Within(RemoveAt(t, k), t)
           /\ Len(RemoveAt(t, k)) = Len(t) - 1
<1> DEFINE a == SubSeq(t, 1, k - 1)
           b == SubSeq(t, k + 1, Len(t))
<1>1. a \in Seq(S) /\ Len(a) = k - 1 /\ \A i \in 1..Len(a) : a[i] = t[i]
  OBVIOUS
<1>2. b \in Seq(S) /\ Len(b) = Len(t) - k /\ \A i \in 1..Len(b) : b[i] = t[k + i]
  OBVIOUS
<1> HIDE DEF a, b
<1>3. /\ a \o b \in Seq(S) /\ Len(a \o b) = Len(t) - 1
      /\ \A i \in 1..Len(t) - 1 : (a \o b)[i] = IF i <= k - 1 THEN a[i] ELSE b[i - (k - 1)]
  <2>1. /\ a \o b \in Seq(S) /\ Len(a \o b) = Len(a) + Len(b)
        /\ \A i \in 1..Len(a) + Len(b) :
              (a \o b)[i] = IF i <= Len(a) THEN a[i] ELSE b[i - Len(a)]
    BY Zenon, <1>1, <1>2, ConcatParts
  <2> QED  BY <1>1, <1>2, <2>1
<1>4. Within(a \o b, t)
  <2> SUFFICES ASSUME NEW i \in 1..Len(t) - 1 PROVE \E m \in 1..Len(t) : (a \o b)[i] = t[m]
    BY <1>3 DEF Within
  <2>1. CASE i <= k - 1
    <3>1. i \in 1..Len(a) /\ i \in 1..Len(t)  BY <1>1, <2>1
    <3>2. (a \o b)[i] = t[i]  BY <1>1, <1>3, <2>1, <3>1
    <3> QED  BY <3>1, <3>2
  <2>2. CASE ~(i <= k - 1)
    <3>1. i - (k - 1) \in 1..Len(b) /\ i + 1 \in 1..Len(t) /\ k + (i - (k - 1)) = i + 1
      BY <1>2, <2>2
    <3>2. (a \o b)[i] = b[i - (k - 1)] /\ b[i - (k - 1)] = t[k + (i - (k - 1))]
      BY <1>2, <1>3, <2>2, <3>1
    <3> QED  BY Zenon, <3>1, <3>2
  <2> QED  BY <2>1, <2>2
<1> QED
  BY <1>3, <1>4 DEF RemoveAt, a, b

LEMMA OvertakeWithin ==
    ASSUME NEW S, NEW t \in Seq(S), NEW k \in 1..Len(t)
    PROVE  /\ <<t[k]>> \o RemoveAt(t, k) \in Seq(S)
           /\ Within(<<t[k]>> \o RemoveAt(t, k), t)
           /\ Len(<<t[k]>> \o RemoveAt(t, k)) = Len(t)
<1> DEFINE r == RemoveAt(t, k)
           w == <<t[k]>> \o r
<1>1. r \in Seq(S) /\ Within(r, t) /\ Len(r) = Len(t) - 1
  BY RemoveWithin
<1> HIDE DEF r
<1>2. /\ w \in Seq(S) /\ Len(w) = Len(t)
      /\ \A i \in 1..Len(w) : w[i] = IF i = 1 THEN t[k] ELSE r[i - 1]
  BY <1>1
<1>3. Within(w, t)
  <2> SUFFICES ASSUME NEW i \in 1..Len(w) PROVE \E m \in 1..Len(t) : w[i] = t[m]
    BY Zenon DEF Within
  <2>1. CASE i = 1  BY <1>2, <2>1
  <2>2. CASE i # 1
    <3>1. i - 1 \in 1..Len(r) /\ w[i] = r[i - 1]
      BY <1>1, <1>2, <2>2
    <3> QED  BY <1>1, <3>1 DEF Within
  <2> QED  BY <2>1, <2>2
<1> QED
  BY <1>2, <1>3 DEF r

LEMMA DropWithin ==
    ASSUME NEW S, NEW t \in Seq(S), NEW k \in 1..Len(t)
    PROVE  /\ SubSeq(t, k + 1, Len(t)) \in Seq(S)
           /\ Len(SubSeq(t, k + 1, Len(t))) = Len(t) - k
           /\ \A i \in 1..Len(t) - k : SubSeq(t, k + 1, Len(t))[i] = t[k + i]
           /\ Within(SubSeq(t, k + 1, Len(t)), t)
<1> DEFINE b == SubSeq(t, k + 1, Len(t))
<1>1. b \in Seq(S) /\ Len(b) = Len(t) - k /\ \A i \in 1..Len(t) - k : b[i] = t[k + i]
  OBVIOUS
<1> HIDE DEF b
<1>2. Within(b, t)
  <2> SUFFICES ASSUME NEW i \in 1..Len(t) - k PROVE \E m \in 1..Len(t) : b[i] = t[m]
    BY <1>1 DEF Within
  <2>1. k + i \in 1..Len(t) /\ b[i] = t[k + i]
    BY <1>1
  <2> QED  BY Zenon, <2>1
<1> QED
  BY Zenon, <1>1, <1>2 DEF b

LEMMA TailWithin ==
    ASSUME NEW S, NEW t \in Seq(S), t # <<>>
    PROVE  /\ Tail(t) \in Seq(S) /\ Len(Tail(t)) = Len(t) - 1 /\ Head(t) = t[1] /\ Head(t) \in S
           /\ \A i \in 1..Len(t) - 1 : Tail(t)[i] = t[i + 1]
           /\ Within(Tail(t), t)
BY DEF Within

LEMMA PushTwo ==
    ASSUME NEW S, NEW t \in Seq(S), NEW x \in S, NEW y \in S
    PROVE  /\ t \o <<x>> \o <<y>> \in Seq(S)
           /\ Len(t \o <<x>> \o <<y>>) = Len(t) + 2
           /\ \A i \in 1..Len(t) + 2 :
                 (t \o <<x>> \o <<y>>)[i] = IF i <= Len(t) THEN t[i]
                                            ELSE IF i = Len(t) + 1 THEN x ELSE y
<1> DEFINE u == t \o <<x>>
<1>1. /\ u \in Seq(S) /\ Len(u) = Len(t) + 1
      /\ \A i \in 1..Len(t) + 1 : u[i] = IF i <= Len(t) THEN t[i] ELSE x
  OBVIOUS
<1> HIDE DEF u
<1>2. /\ u \o <<y>> \in Seq(S) /\ Len(u \o <<y>>) = Len(u) + 1
      /\ \A i \in 1..Len(u) + 1 : (u \o <<y>>)[i] = IF i <= Len(u) THEN u[i] ELSE y
  BY <1>1
<1>3. \A i \in 1..Len(t) + 2 :
         (u \o <<y>>)[i] = IF i <= Len(t) THEN t[i] ELSE IF i = Len(t) + 1 THEN x ELSE y
  BY <1>1, <1>2
<1> QED
  BY <1>1, <1>2, <1>3 DEF u

LEMMA PushOne ==
    ASSUME NEW S, NEW t \in Seq(S), NEW x \in S
    PROVE  /\ t \o <<x>> \o <<>> = Append(t, x)
           /\ Append(t, x) \in Seq(S) /\ Len(Append(t, x)) = Len(t) + 1
           /\ \A i \in 1..Len(t) + 1 : Append(t, x)[i] = IF i <= Len(t) THEN t[i] ELSE x
<1>1. t \o <<x>> \in Seq(S) /\ t \o <<x>> = Append(t, x)
  OBVIOUS
<1>2. t \o <<x>> \o <<>> = t \o <<x>>
  BY <1>1
<1> QED
  BY <1>1, <1>2

\* Types of the connection, with or without an orderly start.
LEMMA HandshakeTypeStep ==
    HandshakeTypeInv /\ [HandshakeNext]_handshakeVars => HandshakeTypeInv'
<1> SUFFICES ASSUME HandshakeTypeInv, [HandshakeNext]_handshakeVars PROVE HandshakeTypeInv'
  OBVIOUS
<1> USE HandshakeAssumption DEF HandshakeTypeInv, HandshakeTypeOK, setup
<1>w. ASSUME wire' \in Seq(Token), Within(wire', wire)
      PROVE  \A i \in 1..Len(wire') : wire'[i].part = "value" => wire'[i].msg # 0
  BY Zenon, <1>w DEF Within
<1>t. /\ wire # <<>> => Head(wire) \in Token /\ Head(wire) = wire[1] /\ 1 \in 1..Len(wire)
      /\ wire # <<>> => Tail(wire) \in Seq(Token) /\ Within(Tail(wire), wire)
  BY TailWithin
<1>1. CASE Register
  <2>1. Part("register", 0) \in Token /\ Part("newline", 0) \in Token
    BY DEF Part, Token
  <2>2. wire' = IF packet THEN Append(wire, Part("register", 0))
                          ELSE wire \o <<Part("register", 0)>> \o <<Part("newline", 0)>>
    BY <1>1, <2>1, PushOne DEF Register, Newline
  <2>3. /\ wire' \in Seq(Token)
        /\ \A i \in 1..Len(wire') : \/ i \in 1..Len(wire) /\ wire'[i] = wire[i]
                                    \/ wire'[i].part # "value"
    <3>1. CASE packet
      BY <2>1, <2>2, <3>1, PushOne DEF Part
    <3>2. CASE ~packet
      BY <2>1, <2>2, <3>2, PushTwo DEF Part
    <3> QED  BY <3>1, <3>2
  <2> QED
    BY <1>1, <2>3 DEF Register
<1>2. CASE Encode
  <2>1. /\ Part("value", n + 1) \in Token /\ Part("newline", 0) \in Token
        /\ Part("size", n + 1) \in Token /\ n + 1 \in 0..MaxMsgs
    BY <1>2 DEF Encode, Part, Token
  <2>2. \/ codec = "json" /\ packet /\ wire' = Append(wire, Part("value", n + 1))
        \/ codec = "json" /\ ~packet /\ wire' = wire \o <<Part("value", n + 1)>> \o <<Part("newline", 0)>>
        \/ codec = "protobuf" /\ wire' = Append(wire, Part("size", n + 1))
    <3>1. wire \o <<Part("value", n + 1)>> \o <<>> = Append(wire, Part("value", n + 1))
      BY <2>1, PushOne
    <3> QED  BY Zenon, <1>2, <3>1 DEF Encode, Newline
  <2>3. /\ wire' \in Seq(Token)
        /\ \A i \in 1..Len(wire') : \/ i \in 1..Len(wire) /\ wire'[i] = wire[i]
                                    \/ wire'[i].part = "value" => wire'[i].msg # 0
    <3>1. CASE wire' = Append(wire, Part("value", n + 1))
      BY <2>1, <3>1, PushOne DEF Part
    <3>2. CASE wire' = wire \o <<Part("value", n + 1)>> \o <<Part("newline", 0)>>
      BY <2>1, <3>2, PushTwo DEF Part
    <3>3. CASE wire' = Append(wire, Part("size", n + 1))
      BY <2>1, <3>3, PushOne DEF Part
    <3> QED  BY <2>2, <3>1, <3>2, <3>3
  <2> QED
    BY <1>2, <2>1, <2>3 DEF Encode
<1>3. CASE EncodeBody
  <2>1. Part("body", n) \in Token
    BY DEF Part, Token
  <2>2. /\ wire' \in Seq(Token)
        /\ \A i \in 1..Len(wire') : \/ i \in 1..Len(wire) /\ wire'[i] = wire[i]
                                    \/ wire'[i].part # "value"
    BY <1>3, <2>1, PushOne DEF EncodeBody, Part
  <2> QED
    BY <1>3, <2>2 DEF EncodeBody
<1>4. CASE Disconnect  BY <1>4 DEF Disconnect
<1>5. CASE Lose
  <2>1. wire' \in Seq(Token) /\ Within(wire', wire)
    BY <1>5, RemoveWithin DEF Lose
  <2> QED  BY <1>5, <1>w, <2>1 DEF Lose
<1>6. CASE Overtake
  <2>1. wire' \in Seq(Token) /\ Within(wire', wire)
    BY <1>6, OvertakeWithin DEF Overtake
  <2> QED  BY <1>6, <1>w, <2>1 DEF Overtake
<1>7. CASE Validate
  <2>1. wire' \in Seq(Token) /\ Within(wire', wire)
    BY <1>7, DropWithin DEF Validate
  <2> QED  BY <1>7, <1>w, <2>1 DEF Validate
<1>8. CASE ValidateFails  BY <1>8, <1>w, <1>t DEF ValidateFails
<1>9. CASE Greet          BY <1>9 DEF Greet
<1>10. CASE DecodeJson
  <2>1. /\ wire' \in Seq(Token)
        /\ \A i \in 1..Len(wire') : wire'[i].part = "value" => wire'[i].msg # 0
    BY <1>10, <1>w, <1>t DEF DecodeJson, Decoding
  <2>2. Head(wire).part = "value" => Head(wire).msg \in 1..MaxMsgs
    BY <1>10, <1>t DEF DecodeJson, Decoding, Token
  <2>3. delivered' \in Seq(1..MaxMsgs)
    <3>1. \A m \in 1..MaxMsgs : Append(delivered, m) \in Seq(1..MaxMsgs)
      OBVIOUS
    <3> QED  BY <1>10, <2>2, <3>1 DEF DecodeJson
  <2> QED  BY <1>10, <2>1, <2>3 DEF DecodeJson
<1>11. CASE DecodeSize
  <2>1. /\ wire' \in Seq(Token)
        /\ \A i \in 1..Len(wire') : wire'[i].part = "value" => wire'[i].msg # 0
    BY <1>11, <1>w, <1>t DEF DecodeSize, Decoding
  <2>2. Head(wire).msg \in 0..MaxMsgs
    BY <1>11, <1>t DEF DecodeSize, Decoding, Token
  <2> QED  BY <1>11, <2>1, <2>2 DEF DecodeSize
<1>12. CASE DecodeBody
  <2>1. /\ wire' \in Seq(Token)
        /\ \A i \in 1..Len(wire') : wire'[i].part = "value" => wire'[i].msg # 0
    BY <1>12, <1>w, <1>t DEF DecodeBody, Decoding
  <2>2. delivered' \in Seq(1..MaxMsgs) /\ dpc' \in 0..MaxMsgs
    <3>1. \A m \in 1..MaxMsgs : Append(delivered, m) \in Seq(1..MaxMsgs)
      OBVIOUS
    <3>2. dpc \in 1..MaxMsgs
      BY <1>12 DEF DecodeBody
    <3>3. (delivered' = delivered \/ delivered' = Append(delivered, dpc)) /\ dpc' \in {0, dpc}
      BY Zenon, <1>12 DEF DecodeBody
    <3>4. dpc' \in 0..MaxMsgs  BY <3>2, <3>3
    <3> QED  BY Zenon, <3>1, <3>2, <3>3, <3>4
  <2> QED  BY <1>12, <2>1, <2>2 DEF DecodeBody
<1>13. CASE DecodeEof  BY <1>13 DEF DecodeEof
<1>14. CASE UNCHANGED handshakeVars  BY <1>14 DEF handshakeVars
<1> QED
  BY Zenon, <1>1, <1>2, <1>3, <1>4, <1>5, <1>6, <1>7, <1>8, <1>9, <1>10, <1>11, <1>12, <1>13,
     <1>14 DEF HandshakeNext

-----------------------------------------------------------------------------
\* The hub reads one part of the stream.
LEMMA PopWire ==
    ASSUME HandshakeTypeInv, WireInv, wire # <<>>, wire' = Tail(wire),
           Consumed \in Int, Consumed' = Consumed + 1, n' = n, codec' = codec
    PROVE  WireInv'
<1>1. /\ Len(wire') = Len(wire) - 1 /\ \A i \in 1..Len(wire) - 1 : wire'[i] = wire[i + 1]
      /\ Len(wire) \in Nat
  BY TailWithin DEF HandshakeTypeInv, HandshakeTypeOK
<1>2. ASSUME NEW i \in 1..Len(wire'), NEW j \in 0..n
      PROVE  /\ Consumed' + i = 2 * j - 1 => wire'[i] = First(j)
             /\ Consumed' + i = 2 * j => wire'[i] = Second(j)
  <2>1. i + 1 \in 1..Len(wire) /\ wire'[i] = wire[i + 1] /\ Consumed' + i = Consumed + (i + 1)
    BY <1>1
  <2> QED  BY <2>1 DEF WireInv
<1>3. \A j : First(j)' = First(j) /\ Second(j)' = Second(j)
  BY Zenon DEF First, Second
<1> QED
  BY Zenon, <1>2, <1>3 DEF WireInv

LEMMA Parity ==
    ASSUME NEW a \in Int, NEW b \in Int
    PROVE  /\ 2 * a # 2 * b - 1
           /\ 2 * a - 1 = 2 * b - 1 => a = b
           /\ 2 * a = 2 * b => a = b
OBVIOUS

LEMMA Advance ==
    ASSUME NEW a \in Int, NEW b \in Int, NEW m \in Int, a + b = m
    PROVE  a + (b + 1) = m + 1
OBVIOUS

\* The extension writes up to the last part of message n.
LEMMA PushWire ==
    ASSUME HandshakeTypeInv, WireInv, codec' = codec, n' \in {n, n + 1},
           Consumed \in Int, Consumed' = Consumed,
           wire' \in Seq(Token), Len(wire') >= Len(wire),
           Written \in {2 * n - 1, 2 * n},
           \A i \in 1..Len(wire) : wire'[i] = wire[i],
           \A i \in Len(wire) + 1..Len(wire') :
               \/ Consumed + i = 2 * n' - 1 /\ wire'[i] = First(n')
               \/ Consumed + i = 2 * n' /\ wire'[i] = Second(n')
    PROVE  WireInv'
<1>1. Len(wire) \in Nat /\ Len(wire') \in Nat /\ n \in Nat /\ n' \in Nat
  BY DEF HandshakeTypeInv, HandshakeTypeOK
<1>2. ASSUME NEW i \in 1..Len(wire'), NEW j \in 0..n'
      PROVE  /\ Consumed + i = 2 * j - 1 => wire'[i] = First(j)
             /\ Consumed + i = 2 * j => wire'[i] = Second(j)
  <2>j. j \in Int /\ n' \in Int
    BY <1>1
  <2>1. CASE i \in 1..Len(wire)
    <3>1. Consumed + i <= Written
      BY <1>1, <2>1 DEF Written
    <3>2. Consumed + i = 2 * j - 1 \/ Consumed + i = 2 * j => j \in 0..n
      BY <1>1, <3>1
    <3> QED  BY <2>1, <3>2 DEF WireInv
  <2>2. CASE i \in Len(wire) + 1..Len(wire')
    <3>1. CASE Consumed + i = 2 * n' - 1 /\ wire'[i] = First(n')
      <4>1. Consumed + i # 2 * j
        <5>1. 2 * j # 2 * n' - 1  BY Zenon, <2>j, Parity
        <5> QED  BY <3>1, <5>1
      <4>2. Consumed + i = 2 * j - 1 => j = n'
        <5>1. 2 * j - 1 = 2 * n' - 1 => j = n'  BY Zenon, <2>j, Parity
        <5> QED  BY <3>1, <5>1
      <4> QED  BY Zenon, <3>1, <4>1, <4>2
    <3>2. CASE Consumed + i = 2 * n' /\ wire'[i] = Second(n')
      <4>1. 2 * n' # 2 * j - 1 /\ (2 * j = 2 * n' => j = n')
        BY Zenon, <2>j, Parity
      <4> QED  BY Zenon, <3>2, <4>1
    <3> QED  BY <2>2, <3>1, <3>2
  <2> QED  BY <1>1, <2>1, <2>2
<1>3. \A j : First(j)' = First(j) /\ Second(j)' = Second(j)
  BY Zenon DEF First, Second
<1> QED
  BY Zenon, <1>2, <1>3 DEF WireInv

\* Decoding the next message in order extends the order.
LEMMA DeliverNext ==
    ASSUME NEW s \in Seq(Nat), s = [i \in 1..Len(s) |-> i], NEW t, t = Append(s, Len(s) + 1)
    PROVE  Len(t) = Len(s) + 1 /\ t = [i \in 1..Len(t) |-> i]
<1>1. /\ t \in Seq(Nat) /\ Len(t) = Len(s) + 1
      /\ \A i \in 1..Len(s) : t[i] = s[i]
      /\ t[Len(s) + 1] = Len(s) + 1
  OBVIOUS
<1>2. \A i \in 1..Len(t) : t[i] = i
  BY <1>1
<1> QED
  BY <1>1, <1>2

\* An orderly stream stays in order, whoever takes the next step.
LEMMA StreamStep ==
    ASSUME HandshakeTypeInv, HandshakeTypeInv', Orderly, ~packet, hpc # "validate",
           hpc # "garbled", cpc # "start", ProgressInv, WireInv,
           [HandshakeNext]_handshakeVars
    PROVE  /\ hpc' # "validate" /\ hpc' # "garbled" /\ cpc' # "start"
           /\ ProgressInv' /\ WireInv'
<1> DEFINE Goal == /\ hpc' # "validate" /\ hpc' # "garbled" /\ cpc' # "start"
                   /\ ProgressInv' /\ WireInv'
           d == Len(delivered)
<1>t. /\ wire \in Seq(Token) /\ Len(wire) \in Nat /\ n \in Nat /\ d \in Nat /\ dpc \in Nat
      /\ Len(wire') \in Nat /\ wire' \in Seq(Token)
      /\ codec \in {"json", "protobuf"} /\ delivered \in Seq(Nat)
  BY HandshakeAssumption DEF HandshakeTypeInv, HandshakeTypeOK
<1>c. Consumed \in Int /\ Written = Consumed + Len(wire)
  BY <1>t DEF Consumed, Written
<1>p. delivered = [i \in 1..d |-> i]
  BY DEF ProgressInv
<1>1. CASE Encode
  <2> USE DEF Encode, setup
  <2>1. CASE codec = "json"
    <3>1. Part("value", n + 1) \in Token /\ Part("newline", 0) \in Token
      BY HandshakeAssumption, <1>1 DEF Part, Token, HandshakeTypeInv, HandshakeTypeOK
    <3>2. /\ n' = n + 1 /\ UNCHANGED <<codec, cpc, hpc, dpc, delivered>> /\ cpc = "idle"
          /\ wire' = wire \o <<Part("value", n + 1)>> \o <<Part("newline", 0)>>
      BY <1>1, <2>1 DEF Newline
    <3>3. /\ Len(wire') = Len(wire) + 2
          /\ \A i \in 1..Len(wire) + 2 :
                wire'[i] = IF i <= Len(wire) THEN wire[i]
                           ELSE IF i = Len(wire) + 1 THEN Part("value", n + 1) ELSE Part("newline", 0)
      BY <1>t, <3>1, <3>2, PushTwo
    <3>4. Consumed' = Consumed /\ Written = 2 * n
      BY <1>t, <2>1, <3>2, <3>3 DEF Consumed, Written
    <3>5. Consumed + Len(wire) = 2 * n
      BY <1>c, <3>4
    <3>6. \A i \in Len(wire) + 1..Len(wire') :
               \/ Consumed + i = 2 * n' - 1 /\ wire'[i] = First(n')
               \/ Consumed + i = 2 * n' /\ wire'[i] = Second(n')
      BY <1>t, <1>c, <2>1, <3>2, <3>3, <3>5 DEF First, Second
    <3>7. WireInv'
      <4>1. /\ n' \in {n, n + 1} /\ Written \in {2 * n - 1, 2 * n} /\ Len(wire') >= Len(wire)
            /\ \A i \in 1..Len(wire) : wire'[i] = wire[i]
        BY <1>t, <3>2, <3>3, <3>4
      <4> QED  BY Zenon, <1>t, <1>c, <3>2, <3>4, <3>6, <4>1, PushWire
    <3>8. ProgressInv'
      BY <2>1, <3>2, <3>4 DEF ProgressInv, Written, HandshakeTypeInv
    <3> QED  BY <3>2, <3>7, <3>8
  <2>2. CASE codec = "protobuf"
    <3>1. Part("size", n + 1) \in Token
      BY HandshakeAssumption, <1>1 DEF Part, Token, HandshakeTypeInv, HandshakeTypeOK
    <3>2. /\ n' = n + 1 /\ UNCHANGED <<codec, hpc, dpc, delivered>>
          /\ wire' = Append(wire, Part("size", n + 1)) /\ cpc = "idle" /\ cpc' = "encoding"
      BY <1>1, <2>2
    <3>3. /\ Len(wire') = Len(wire) + 1
          /\ \A i \in 1..Len(wire) + 1 :
                wire'[i] = IF i <= Len(wire) THEN wire[i] ELSE Part("size", n + 1)
      BY ZenonT(30), <1>t, <3>1, <3>2, PushOne
    <3>4. Consumed' = Consumed /\ Written = 2 * n
      BY <2>2, <3>2 DEF Consumed, ProgressInv
    <3>5. Consumed + Len(wire) = 2 * n
      BY <1>c, <3>4
    <3>6. \A i \in Len(wire) + 1..Len(wire') :
               \/ Consumed + i = 2 * n' - 1 /\ wire'[i] = First(n')
               \/ Consumed + i = 2 * n' /\ wire'[i] = Second(n')
      BY <1>t, <1>c, <2>2, <3>2, <3>3, <3>5 DEF First
    <3>7. WireInv'
      <4>1. /\ n' \in {n, n + 1} /\ Written \in {2 * n - 1, 2 * n} /\ Len(wire') >= Len(wire)
            /\ \A i \in 1..Len(wire) : wire'[i] = wire[i]
        BY <1>t, <3>2, <3>3, <3>4
      <4> QED  BY Zenon, <1>t, <1>c, <3>2, <3>4, <3>6, <4>1, PushWire
    <3>8. Written' = 2 * n' - 1
      <4>1. Written' = Consumed + (Len(wire) + 1)
        BY <3>3, <3>4 DEF Written
      <4>2. 2 * n' - 1 = 2 * n + 1
        BY <1>t, <3>2
      <4>b. Len(wire) \in Int /\ 2 * n \in Int
        BY <1>t
      <4>3. Consumed + (Len(wire) + 1) = 2 * n + 1
        BY Zenon, <1>c, <3>5, <4>b, Advance
      <4> QED  BY Zenon, <4>1, <4>2, <4>3
    <3>9. ProgressInv'
      BY <1>t, <2>2, <3>2, <3>8 DEF ProgressInv, HandshakeTypeInv
    <3> QED  BY <3>2, <3>7, <3>9
  <2> QED  BY <1>t, <2>1, <2>2
<1>2. CASE EncodeBody
  <2> USE DEF EncodeBody, setup
  <2>1. codec = "protobuf" /\ n # 0 /\ Written = 2 * n - 1
    BY <1>2 DEF HandshakeTypeInv, ProgressInv
  <2>2. Part("body", n) \in Token
    BY DEF Part, Token, HandshakeTypeInv, HandshakeTypeOK
  <2>3. /\ UNCHANGED <<n, codec, hpc, dpc, delivered>>
        /\ wire' = Append(wire, Part("body", n)) /\ cpc = "encoding" /\ cpc' = "idle"
    BY <1>2
  <2>4. /\ Len(wire') = Len(wire) + 1
        /\ \A i \in 1..Len(wire) + 1 :
              wire'[i] = IF i <= Len(wire) THEN wire[i] ELSE Part("body", n)
    BY ZenonT(30), <1>t, <2>2, <2>3, PushOne
  <2>5. Consumed' = Consumed /\ Consumed + Len(wire) = 2 * n - 1
    BY <1>c, <2>1, <2>3 DEF Consumed
  <2>6. \A i \in Len(wire) + 1..Len(wire') :
             \/ Consumed + i = 2 * n' - 1 /\ wire'[i] = First(n')
             \/ Consumed + i = 2 * n' /\ wire'[i] = Second(n')
    BY <1>t, <1>c, <2>1, <2>3, <2>4, <2>5 DEF Second
  <2>7. WireInv'
    <3>1. /\ n' \in {n, n + 1} /\ Written \in {2 * n - 1, 2 * n} /\ Len(wire') >= Len(wire)
          /\ \A i \in 1..Len(wire) : wire'[i] = wire[i]
      BY <1>t, <2>1, <2>3, <2>4
    <3> QED  BY Zenon, <1>t, <1>c, <2>1, <2>3, <2>5, <2>6, <3>1, PushWire
  <2>8. Written' = 2 * n'
    <3>1. Written' = Consumed + (Len(wire) + 1)
      BY <2>4, <2>5 DEF Written
    <3>2. 2 * n' = (2 * n - 1) + 1 /\ Len(wire) \in Int /\ 2 * n - 1 \in Int
      BY <1>t, <2>3
    <3>3. Consumed + (Len(wire) + 1) = (2 * n - 1) + 1
      BY Zenon, <1>c, <2>5, <3>2, Advance
    <3> QED  BY Zenon, <3>1, <3>2, <3>3
  <2>9. ProgressInv'
    BY <1>t, <2>1, <2>3, <2>8 DEF ProgressInv, HandshakeTypeInv
  <2> QED  BY <2>3, <2>7, <2>9
<1>3. CASE Disconnect \/ Greet \/ DecodeEof \/ UNCHANGED handshakeVars
  <2>1. UNCHANGED <<codec, wire, n, dpc, delivered>>
    BY Zenon, <1>3 DEF Disconnect, Greet, DecodeEof, handshakeVars, setup
  <2>2. WireInv' /\ Consumed' = Consumed /\ Written' = Written
    BY Zenon, <2>1 DEF WireInv, Consumed, Written, First, Second
  <2>3. CASE Disconnect  BY <2>1, <2>2, <2>3 DEF Disconnect, ProgressInv
  <2>4. CASE Greet       BY <2>1, <2>2, <2>4 DEF Greet, ProgressInv
  <2>5. CASE DecodeEof   BY <2>1, <2>2, <2>5 DEF DecodeEof, ProgressInv
  <2>6. CASE UNCHANGED handshakeVars
    BY <2>1, <2>2, <2>6 DEF handshakeVars, ProgressInv
  <2> QED  BY <1>3, <2>3, <2>4, <2>5, <2>6
<1>d. ASSUME Decoding, wire' = Tail(wire)
      PROVE  /\ Len(wire) >= 1 /\ Len(wire') = Len(wire) - 1 /\ Head(wire) = wire[1]
             /\ hpc = "session" /\ wire # <<>>
  BY <1>t, <1>d, TailWithin DEF Decoding
<1>4. CASE DecodeJson
  <2>1. /\ Decoding /\ codec = "json" /\ wire' = Tail(wire)
        /\ UNCHANGED <<codec, cpc, n, dpc>>
    BY <1>4 DEF DecodeJson, setup
  <2>2. Consumed' = Consumed + 1 /\ Consumed + Len(wire) = 2 * n
    BY <1>t, <1>d, <2>1 DEF Consumed
  <2>3. WireInv'
    BY Zenon, <1>c, <1>d, <2>1, <2>2, PopWire
  <2>4. CASE Consumed = 2 * d - 1
    <3>1. d \in 0..n /\ Consumed + 1 = 2 * d /\ 1 \in 1..Len(wire)
      BY <1>t, <1>d, <2>1, <2>2, <2>4
    <3>2. Head(wire) = Part("newline", 0)
      BY <1>d, <2>1, <3>1 DEF WireInv, Second
    <3>3. UNCHANGED <<delivered, hpc>>
      BY <1>4, <3>2 DEF DecodeJson, Part
    <3>4. ProgressInv'
      BY <1>t, <1>d, <2>1, <2>2, <3>1, <3>3 DEF ProgressInv
    <3> QED  BY <2>1, <2>3, <3>3, <3>4
  <2>5. CASE Consumed = 2 * d
    <3>1. d + 1 \in 0..n /\ Consumed + 1 = 2 * (d + 1) - 1 /\ 1 \in 1..Len(wire)
      BY <1>t, <1>d, <2>1, <2>2, <2>5
    <3>2. Head(wire) = Part("value", d + 1)
      BY <1>d, <2>1, <3>1 DEF WireInv, First
    <3>3. hpc' = hpc /\ delivered' = Append(delivered, d + 1)
      BY <1>4, <3>2 DEF DecodeJson, Part
    <3>4. Len(delivered') = d + 1 /\ delivered' = [i \in 1..Len(delivered') |-> i]
      BY Zenon, <1>t, <1>p, <3>3, DeliverNext
    <3>5. Consumed' \in {2 * Len(delivered') - 1, 2 * Len(delivered')}
      BY <1>t, <2>2, <2>5, <3>4
    <3>6. ProgressInv'
      BY <1>d, <2>1, <3>3, <3>4, <3>5 DEF ProgressInv
    <3> QED  BY <2>1, <2>3, <3>3, <3>6
  <2> QED  BY <2>1, <2>4, <2>5 DEF ProgressInv
<1>5. CASE DecodeSize
  <2>1. /\ Decoding /\ codec = "protobuf" /\ dpc = 0 /\ wire' = Tail(wire)
        /\ UNCHANGED <<codec, cpc, n, delivered>>
    BY <1>5 DEF DecodeSize, setup
  <2>2. /\ Consumed = 2 * d /\ Consumed + Len(wire) <= 2 * n
        /\ d + 1 \in 0..n /\ Consumed + 1 = 2 * (d + 1) - 1 /\ 1 \in 1..Len(wire)
    BY <1>t, <1>d, <2>1 DEF Consumed, Written, ProgressInv
  <2>3. Head(wire) = Part("size", d + 1)
    BY <1>d, <2>1, <2>2 DEF WireInv, First
  <2>4. hpc' = hpc /\ dpc' = d + 1
    BY <1>5, <2>3 DEF DecodeSize, Part
  <2>5. Consumed' = Consumed + 1
    <3>1. Consumed' = 2 * d + 1
      <4>1. dpc' # 0 /\ codec' # "json" /\ Len(delivered') = d
        BY <1>t, <2>1, <2>4
      <4> QED  BY Zenon, <4>1 DEF Consumed
    <3> QED  BY <1>t, <2>2, <3>1
  <2>6. WireInv'
    BY Zenon, <1>c, <1>d, <2>1, <2>5, PopWire
  <2>7. Written' = Written
    BY <1>t, <1>c, <1>d, <2>1, <2>5 DEF Written
  <2>8. ProgressInv'
    BY <1>d, <2>1, <2>4, <2>7 DEF ProgressInv
  <2> QED  BY <2>1, <2>4, <2>6, <2>8
<1>6. CASE DecodeBody
  <2>1. /\ Decoding /\ codec = "protobuf" /\ dpc # 0 /\ wire' = Tail(wire)
        /\ UNCHANGED <<codec, cpc, n>>
    BY <1>6 DEF DecodeBody, setup
  <2>2. /\ dpc = d + 1 /\ Consumed = 2 * d + 1 /\ Consumed + Len(wire) <= 2 * n
        /\ d + 1 \in 0..n /\ Consumed + 1 = 2 * (d + 1) /\ 1 \in 1..Len(wire)
    BY <1>t, <1>d, <2>1 DEF Consumed, Written, ProgressInv
  <2>3. Head(wire) = Part("body", d + 1)
    BY <1>d, <2>1, <2>2 DEF WireInv, Second
  <2>4. hpc' = hpc /\ dpc' = 0 /\ delivered' = Append(delivered, d + 1)
    BY <1>6, <2>2, <2>3 DEF DecodeBody
  <2>5. Len(delivered') = d + 1 /\ delivered' = [i \in 1..Len(delivered') |-> i]
    BY Zenon, <1>t, <1>p, <2>4, DeliverNext
  <2>6. Consumed' = Consumed + 1
    BY <1>t, <2>1, <2>2, <2>4, <2>5 DEF Consumed
  <2>7. WireInv'
    BY Zenon, <1>c, <1>d, <2>1, <2>6, PopWire
  <2>8. Written' = Written
    BY <1>t, <1>c, <1>d, <2>1, <2>6 DEF Written
  <2>9. ProgressInv'
    BY <1>d, <2>1, <2>4, <2>5, <2>8 DEF ProgressInv
  <2> QED  BY <2>1, <2>4, <2>7, <2>9
<1>7. CASE Register \/ Lose \/ Overtake \/ Validate \/ ValidateFails
  BY Zenon, <1>7 DEF Register, Lose, Overtake, Validate, ValidateFails
<1> QED
  BY Zenon, <1>1, <1>2, <1>3, <1>4, <1>5, <1>6, <1>7 DEF HandshakeNext

\* A session over datagrams, which may be lost or overtaken, reads JSON
\* messages only.
LEMMA DatagramStep ==
    ASSUME HandshakeTypeInv, Orderly, packet, hpc # "validate",
           hpc # "garbled", cpc # "start", DatagramInv, [HandshakeNext]_handshakeVars
    PROVE  hpc' # "validate" /\ hpc' # "garbled" /\ cpc' # "start" /\ DatagramInv'
<1>t. wire \in Seq(Token) /\ codec = "json" /\ cpc # "encoding" /\ n \in 0..MaxMsgs
  BY DEF HandshakeTypeInv, HandshakeTypeOK, Orderly
<1>w. ASSUME Within(wire', wire) PROVE DatagramInv'
  BY Zenon, <1>w DEF Within, DatagramInv
<1>d. wire # <<>> => Within(Tail(wire), wire) /\ Head(wire).part = "value"
  <2> SUFFICES ASSUME wire # <<>> PROVE Within(Tail(wire), wire) /\ Head(wire).part = "value"
    OBVIOUS
  <2>1. Within(Tail(wire), wire) /\ Head(wire) = wire[1] /\ 1 \in 1..Len(wire)
    BY <1>t, TailWithin
  <2> QED  BY <2>1 DEF DatagramInv
<1>1. CASE Encode
  <2>1. Part("value", n + 1) \in Token
    BY HandshakeAssumption, <1>1, <1>t DEF Encode, Part, Token
  <2>2. wire' = Append(wire, Part("value", n + 1)) /\ UNCHANGED <<hpc, cpc>>
    <3>1. wire \o <<Part("value", n + 1)>> \o <<>> = Append(wire, Part("value", n + 1))
      BY <1>t, <2>1, PushOne
    <3> QED  BY <1>1, <1>t, <3>1 DEF Encode, Newline
  <2>3. DatagramInv'
    BY SMTT(30), <1>t, <2>1, <2>2, PushOne DEF DatagramInv, Part
  <2> QED  BY <2>2, <2>3
<1>2. CASE Lose \/ Overtake
  <2>1. Within(wire', wire)
    <3>1. PICK i \in 1..Len(wire) : wire' = RemoveAt(wire, i) \/ wire' = <<wire[i]>> \o RemoveAt(wire, i)
      <4>1. DOMAIN wire = 1..Len(wire)  BY <1>t
      <4> QED  BY Zenon, <1>2, <4>1 DEF Lose, Overtake
    <3> QED  BY Zenon, <1>t, <3>1, RemoveWithin, OvertakeWithin
  <2> QED  BY Zenon, <1>2, <1>w, <2>1 DEF Lose, Overtake
<1>3. CASE DecodeJson
  BY <1>3, <1>d, <1>w DEF DecodeJson, Decoding
<1>4. CASE Disconnect \/ Greet \/ DecodeEof \/ UNCHANGED handshakeVars
  BY <1>4 DEF Disconnect, Greet, DecodeEof, handshakeVars, DatagramInv
<1>5. CASE Register \/ EncodeBody \/ Validate \/ ValidateFails \/ DecodeSize \/ DecodeBody
  BY <1>5, <1>t DEF Register, EncodeBody, Validate, ValidateFails, DecodeSize, DecodeBody
<1> QED
  BY Zenon, <1>1, <1>2, <1>3, <1>4, <1>5 DEF HandshakeNext

\* Until validateConnection has read the register message, that message is all
\* there is; what is left after it can only be its newline.
LEMMA GreetingStep ==
    ASSUME HandshakeTypeInv, Orderly, hpc = "validate", GreetingInv,
           [HandshakeNext]_handshakeVars
    PROVE  OrderlyInv'
<1>s. UNCHANGED setup
  BY Zenon DEF HandshakeNext, Register, Encode, EncodeBody, Disconnect, Lose, Overtake,
     Validate, ValidateFails, Greet, DecodeJson, DecodeSize, DecodeBody, DecodeEof,
     handshakeVars
<1>t. /\ wire \in Seq(Token) /\ Len(wire) \in Nat /\ patient
      /\ codec \in {"json", "protobuf"} /\ packet \in BOOLEAN
  BY DEF HandshakeTypeInv, HandshakeTypeOK, Orderly
<1>g. ASSUME hpc' = "validate", GreetingInv' PROVE OrderlyInv'
  BY <1>g DEF OrderlyInv
<1>1. CASE Register
  <2>1. CASE packet
    <3>1. wire = <<>> /\ wire' = <<Part("register", 0)>>
      BY <1>1, <2>1 DEF Register, Newline, GreetingInv
    <3>2. Len(wire') = 1 /\ \A i \in 1..Len(wire') : wire'[i] = Part("register", 0)
      BY <3>1
    <3>3. /\ cpc' = "idle" /\ packet' /\ hpc' = "validate"
          /\ n' = 0 /\ ~greeted' /\ dpc' = 0 /\ delivered' = <<>>
      BY <1>1, <1>s, <2>1 DEF Register, GreetingInv, setup
    <3>4. GreetingInv'
      BY <3>2, <3>3 DEF GreetingInv
    <3> QED  BY <1>g, <3>3, <3>4
  <2>2. CASE ~packet
    <3>1. /\ Len(wire') = 2
          /\ wire'[1] = Part("register", 0) /\ wire'[2] = Part("newline", 0)
      <4>1. Part("register", 0) \in Token /\ Part("newline", 0) \in Token
        BY HandshakeAssumption DEF Part, Token
      <4>2. Len(wire) = 0 /\ wire' = wire \o <<Part("register", 0)>> \o <<Part("newline", 0)>>
        BY <1>1, <2>2 DEF Register, Newline, GreetingInv
      <4> QED  BY <1>t, <4>1, <4>2, PushTwo
    <3>2. /\ cpc' = "idle" /\ ~packet' /\ hpc' = "validate"
          /\ n' = 0 /\ ~greeted' /\ dpc' = 0 /\ delivered' = <<>>
      BY <1>1, <1>s, <2>2 DEF Register, GreetingInv, setup
    <3>3. GreetingInv'
      BY Zenon, <3>1, <3>2 DEF GreetingInv
    <3> QED  BY <1>g, <3>2, <3>3
  <2> QED  BY <2>1, <2>2
<1>2. CASE Disconnect
  BY <1>2, <1>g, <1>s DEF Disconnect, GreetingInv, setup
<1>3. CASE Lose \/ Overtake
  <2>1. packet /\ UNCHANGED <<n, greeted, dpc, delivered, cpc, hpc>>
    BY Zenon, <1>3 DEF Lose, Overtake
  <2>2. Within(wire', wire) /\ Len(wire') \in Nat /\ Len(wire') <= Len(wire) /\ wire # <<>>
    <3>1. PICK i \in 1..Len(wire) : wire' = RemoveAt(wire, i) \/ wire' = <<wire[i]>> \o RemoveAt(wire, i)
      <4>1. DOMAIN wire = 1..Len(wire)  BY <1>t
      <4> QED  BY Zenon, <1>3, <4>1 DEF Lose, Overtake
    <3>2. Within(wire', wire) /\ (Len(wire') = Len(wire) - 1 \/ Len(wire') = Len(wire))
      BY Zenon, <1>t, <3>1, RemoveWithin, OvertakeWithin
    <3> QED  BY <1>t, <3>1, <3>2
  <2>3. \A i \in 1..Len(wire') : wire'[i] = Part("register", 0)
    BY <2>1, <2>2 DEF Within, GreetingInv
  <2> QED
    BY <1>g, <1>s, <1>t, <2>1, <2>2, <2>3 DEF GreetingInv, setup
<1>4. CASE Validate
  <2>1. /\ hpc' = "session" /\ UNCHANGED <<setup, cpc, n, greeted, dpc, delivered>>
        /\ wire # <<>> /\ cpc # "start"
    BY <1>4 DEF Validate, GreetingInv
  <2>2. PICK k \in 1..Len(wire) :
           /\ packet => k = 1
           /\ whole /\ ~packet => k > 1
           /\ wire' = SubSeq(wire, k + 1, Len(wire))
    BY <1>4, <1>t DEF Validate
  <2>3. /\ wire' \in Seq(Token) /\ Len(wire') = Len(wire) - k
        /\ \A i \in 1..Len(wire) - k : wire'[i] = wire[k + i]
    BY <1>t, <2>2, DropWithin
  <2>4. CASE packet
    <3>1. Len(wire') = 0
      BY <1>t, <2>2, <2>3, <2>4 DEF GreetingInv
    <3>2. DatagramInv'
      BY <3>1 DEF DatagramInv
    <3> QED  BY <2>1, <2>4, <3>2 DEF OrderlyInv, setup
  <2>5. CASE ~packet
    <3>1. Len(wire) = 2 /\ wire[1] = Part("register", 0) /\ wire[2] = Part("newline", 0)
      BY <2>1, <2>5 DEF GreetingInv
    <3>2. \/ Len(wire') = 0
          \/ codec = "json" /\ Len(wire') = 1 /\ wire'[1] = Part("newline", 0)
      BY <2>2, <2>3, <2>5, <3>1 DEF Orderly
    <3>3. n' = 0 /\ Len(delivered') = 0 /\ dpc' = 0 /\ cpc' # "encoding" /\ codec' = codec
      BY <2>1 DEF GreetingInv, setup
    <3>4. Consumed' = 0 - Len(wire') \/ (codec # "json" /\ Consumed' = 0)
      BY <3>2, <3>3 DEF Consumed
    <3>5. WireInv'
      <4> SUFFICES ASSUME NEW i \in 1..Len(wire'), NEW j \in 0..n'
                   PROVE  /\ Consumed' + i = 2 * j - 1 => wire'[i] = First(j)'
                          /\ Consumed' + i = 2 * j => wire'[i] = Second(j)'
        BY Zenon DEF WireInv
      <4>1. codec = "json" /\ Len(wire') = 1 /\ wire'[1] = Part("newline", 0)
        BY <3>2
      <4>2. i = 1 /\ j = 0
        BY <3>3, <4>1
      <4>3. Consumed' + i = 0
        BY <3>4, <4>1, <4>2
      <4> QED  BY <3>3, <4>1, <4>2, <4>3 DEF Second
    <3>6. ProgressInv'
      BY SMTT(30), <2>1, <3>2, <3>3, <3>4 DEF ProgressInv, Written, GreetingInv
    <3> QED  BY <2>1, <2>5, <3>5, <3>6 DEF OrderlyInv, setup
  <2> QED  BY <2>4, <2>5
<1>5. CASE ValidateFails
  <2>1. wire # <<>> /\ Head(wire) = wire[1] /\ 1 \in 1..Len(wire)
    BY <1>5, <1>t DEF ValidateFails
  <2>2. Head(wire) = Part("register", 0)
    BY <1>t, <2>1 DEF GreetingInv
  <2> QED  BY <1>5, <2>2 DEF ValidateFails, Part
<1>6. CASE UNCHANGED handshakeVars
  BY <1>6, <1>g DEF handshakeVars, setup, GreetingInv
<1>7. CASE Encode \/ EncodeBody \/ Greet \/ DecodeJson \/ DecodeSize \/ DecodeBody \/ DecodeEof
  BY <1>7, <1>t DEF Encode, EncodeBody, Greet, DecodeJson, DecodeSize, DecodeBody, DecodeEof,
     Decoding, GreetingInv
<1> QED
  BY Zenon, <1>1, <1>2, <1>3, <1>4, <1>5, <1>6, <1>7 DEF HandshakeNext

\* The inductive invariant of the handshake.
LEMMA HandshakeInvariant == HandshakeSpec => []HandshakeInv
<1>1. HandshakeInv /\ [HandshakeNext]_handshakeVars => HandshakeInv'
  <2> SUFFICES ASSUME HandshakeInv, [HandshakeNext]_handshakeVars PROVE HandshakeInv'
    OBVIOUS
  <2>t. HandshakeTypeInv /\ HandshakeTypeInv'
    BY HandshakeTypeStep DEF HandshakeInv
  <2>s. UNCHANGED setup
    BY Zenon DEF HandshakeNext, Register, Encode, EncodeBody, Disconnect, Lose, Overtake,
       Validate, ValidateFails, Greet, DecodeJson, DecodeSize, DecodeBody, DecodeEof,
       handshakeVars
  <2>1. CASE ~Orderly
    BY <2>s, <2>t, <2>1 DEF HandshakeInv, OrderlyInv, Orderly, setup
  <2>2. CASE Orderly /\ hpc = "validate"
    BY <2>t, <2>2, GreetingStep DEF HandshakeInv, OrderlyInv
  <2>3. CASE Orderly /\ hpc # "validate" /\ packet
    <3>1. hpc' # "validate" /\ hpc' # "garbled" /\ cpc' # "start" /\ DatagramInv'
      BY <2>t, <2>3, DatagramStep DEF HandshakeInv, OrderlyInv
    <3> QED  BY <2>s, <2>t, <2>3, <3>1 DEF HandshakeInv, OrderlyInv, setup
  <2>4. CASE Orderly /\ hpc # "validate" /\ ~packet
    <3>1. /\ hpc' # "validate" /\ hpc' # "garbled" /\ cpc' # "start"
          /\ ProgressInv' /\ WireInv'
      BY <2>t, <2>4, StreamStep DEF HandshakeInv, OrderlyInv
    <3> QED  BY <2>s, <2>t, <2>4, <3>1 DEF HandshakeInv, OrderlyInv, setup
  <2> QED  BY <2>1, <2>2, <2>3, <2>4
<1> QED
  BY HandshakeInitHolds, <1>1, PTL DEF HandshakeSpec

\* Type correctness of the connection, orderly or not.
THEOREM HandshakeTypeCorrect == HandshakeSpec => []HandshakeTypeOK
<1>1. HandshakeInv => HandshakeTypeOK
  BY DEF HandshakeInv, HandshakeTypeInv
<1> QED
  BY HandshakeInvariant, <1>1, PTL

\* FramingKept for any number of messages: no part of a message is ever taken
\* for another one, wherever validateConnection's decoder stopped reading.
THEOREM OrderlyFraming == HandshakeSpec => []FramingKept
<1>1. HandshakeInv => FramingKept
  <2> SUFFICES ASSUME HandshakeInv, Orderly
               PROVE  /\ hpc # "garbled"
                      /\ ~packet => delivered = [i \in 1..Len(delivered) |-> i] /\ Len(delivered) <= n
    BY DEF FramingKept
  <2>1. CASE hpc = "validate"
    BY <2>1 DEF HandshakeInv, OrderlyInv, GreetingInv
  <2>2. CASE hpc # "validate"
    <3>1. hpc # "garbled" /\ (~packet => ProgressInv)
      BY <2>2 DEF HandshakeInv, OrderlyInv
    <3>2. /\ Len(wire) \in Nat /\ Len(delivered) \in Nat /\ n \in Nat /\ dpc \in Nat
          /\ codec \in {"json", "protobuf"}
      BY HandshakeAssumption DEF HandshakeInv, HandshakeTypeInv, HandshakeTypeOK
    <3>3. ~packet => Len(delivered) <= n
      BY <3>1, <3>2 DEF ProgressInv, Consumed, Written
    <3> QED  BY <3>1, <3>3 DEF ProgressInv
  <2> QED  BY <2>1, <2>2
<1> QED
  BY HandshakeInvariant, <1>1, PTL

\* CleanEndIsComplete for any number of messages: the session reports a regular
\* end of the stream only behind the last part of the last message.
THEOREM OrderlyEnd == HandshakeSpec => []CleanEndIsComplete
<1>1. HandshakeInv => CleanEndIsComplete
  <2> SUFFICES ASSUME HandshakeInv, Orderly, ~packet, hpc = "eof" PROVE Len(delivered) = n
    BY DEF CleanEndIsComplete
  <2>1. ProgressInv
    BY DEF HandshakeInv, OrderlyInv
  <2>2. /\ Len(wire) = 0 /\ Len(delivered) \in Nat /\ n \in Nat /\ dpc = 0
        /\ codec \in {"json", "protobuf"}
    BY <2>1, HandshakeAssumption DEF ProgressInv, HandshakeInv, HandshakeTypeInv, HandshakeTypeOK
  <2>3. CASE codec = "json"
    <3>1. 2 * n \in {2 * Len(delivered) - 1, 2 * Len(delivered)}
      BY <2>1, <2>2, <2>3 DEF ProgressInv, Consumed
    <3> QED  BY <2>2, <3>1
  <2>4. CASE codec = "protobuf"
    <3>1. 2 * Len(delivered) \in {2 * n - 1, 2 * n}
      BY <2>1, <2>2, <2>4 DEF ProgressInv, Written, Consumed
    <3> QED  BY <2>2, <3>1
  <2> QED  BY <2>2, <2>3, <2>4
<1> QED
  BY HandshakeInvariant, <1>1, PTL

=============================================================================
