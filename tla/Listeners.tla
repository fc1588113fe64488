----------------------------- MODULE Listeners ------------------------------
(***************************************************************************)
(* Server.ListenAndServe and Server.Close (server/server.go), the listener *)
(* of every endpoint (server/conn_stream.go, server/conn_packet.go), and   *)
(* the sessions of the packet endpoint: its loop reads datagrams for all   *)
(* of them and writes each to the pipe of its address's session.           *)
(*                                                                         *)
(* Connections of stream endpoints (and of DTLS listeners, which accept    *)
(* connections too) are the subject of ExtensionRegistry.  A packet        *)
(* session is HandleStream seen from its connection: it reads, and when    *)
(* its context is done its receiver still waits for one more message.      *)
(***************************************************************************)
EXTENDS Naturals

CONSTANTS
    Endpoints, Packet,  \* all endpoints; the one that serves datagrams
    Addrs,              \* remote addresses
    Sessions, AddrOf,   \* packet sessions, and the address of each
    NoSession,
    PipeCap             \* the datagrams a pipe has room for

ASSUME ListenersAssumption ==
    /\ Packet \in Endpoints
    /\ NoSession \notin Sessions
    /\ AddrOf \in [Sessions -> Addrs]
    /\ PipeCap \in Nat

VARIABLES
    spc,         \* Server.ListenAndServe: serving, returned
    epc,         \* ListenAndServe of each endpoint
    l,           \* each endpoint's listener
    toClose,     \* endpoints a call of Server.Close has still to close
    closeCalled,
    connections, \* the packet manager's map from addresses to sessions
    lx,          \* the session whose pipe the packet loop writes to
    xpc,         \* packet sessions
    buf, wclosed \* the pipe of each session: datagrams in it, closed writers

serverVars == <<spc, epc, l, toClose, closeCalled>>
sessionVars == <<xpc, buf, wclosed>>
vars == <<serverVars, connections, lx, sessionVars>>

TypeOK ==
    /\ spc \in {"serving", "returned"}
    /\ epc \in [Endpoints -> {"start", "serve", "returned"}]
    /\ l \in [Endpoints -> {"none", "open", "closed"}]
    /\ toClose \subseteq Endpoints /\ closeCalled \in BOOLEAN
    /\ connections \in [Addrs -> Sessions \cup {NoSession}]
    /\ lx \in Sessions \cup {NoSession}
    /\ xpc \in [Sessions -> {"idle", "running", "stopping", "ended", "closed", "done"}]
    /\ buf \in [Sessions -> 0..PipeCap] /\ wclosed \subseteq Sessions

Init ==
    /\ spc = "serving"
    /\ epc = [e \in Endpoints |-> "start"]
    /\ l = [e \in Endpoints |-> "none"]
    /\ toClose = {} /\ closeCalled = FALSE
    /\ connections = [a \in Addrs |-> NoSession]
    /\ lx = NoSession
    /\ xpc = [x \in Sessions |-> "idle"]
    /\ buf = [x \in Sessions |-> 0] /\ wclosed = {}

-----------------------------------------------------------------------------
(* Endpoints and the server.                                               *)

otherThanServer == <<connections, lx, sessionVars>>

Listen(e) ==
    /\ epc[e] = "start"
    /\ \/ epc' = [epc EXCEPT ![e] = "serve"] /\ l' = [l EXCEPT ![e] = "open"]
       \/ epc' = [epc EXCEPT ![e] = "returned"] /\ UNCHANGED l
    /\ UNCHANGED <<otherThanServer, spc, toClose, closeCalled>>

AcceptIgnoresClosed(e) ==
    /\ epc[e] = "serve" /\ l[e] = "open"
    /\ e = Packet => lx = NoSession
    /\ epc' = [epc EXCEPT ![e] = "returned"] /\ l' = [l EXCEPT ![e] = "closed"]
    /\ UNCHANGED <<otherThanServer, spc, toClose, closeCalled>>

\* Accept or ReadFrom fails, at the latest when the listener is closed; the
\* deferred Close runs.  The packet loop has to come back from its write.
AcceptFails(e) ==
    /\ epc[e] = "serve"
    /\ e = Packet => lx = NoSession
    /\ epc' = [epc EXCEPT ![e] = "returned"] /\ l' = [l EXCEPT ![e] = "closed"]
    /\ UNCHANGED <<otherThanServer, spc, toClose, closeCalled>>

\* wg.Wait returns when all endpoints have; what still listens is closed.
ServeReturns ==
    /\ spc = "serving" /\ \A e \in Endpoints : epc[e] = "returned"
    /\ spc' = "returned"
    /\ l' = [e \in Endpoints |-> IF l[e] = "open" THEN "closed" ELSE l[e]]
    /\ UNCHANGED <<otherThanServer, epc, toClose, closeCalled>>

\* Server.Close, once, from another goroutine.
Close ==
    /\ ~closeCalled
    /\ closeCalled' = TRUE /\ toClose' = Endpoints
    /\ UNCHANGED <<otherThanServer, spc, epc, l>>

\* connectionManager.Close: nothing to close before the listener is stored.
CloseOne(e) ==
    /\ e \in toClose /\ toClose' = toClose \ {e}
    /\ l' = IF l[e] = "open" THEN [l EXCEPT ![e] = "closed"] ELSE l
    /\ UNCHANGED <<otherThanServer, spc, epc, closeCalled>>

-----------------------------------------------------------------------------
(* The loop of the packet endpoint.                                        *)

Reading == epc[Packet] = "serve" /\ l[Packet] = "open" /\ lx = NoSession

\* A datagram from an address with a session.
ReadKnown(a) ==
    /\ Reading
    /\ connections[a] # NoSession
    /\ lx' = connections[a]
    /\ UNCHANGED <<serverVars, connections, sessionVars>>

\* The register message of a new address starts a session.
ReadNew(a) ==
    /\ Reading
    /\ connections[a] = NoSession
    /\ \E x \in Sessions :
          /\ AddrOf[x] = a /\ xpc[x] = "idle"
          /\ connections' = [connections EXCEPT ![a] = x]
          /\ xpc' = [xpc EXCEPT ![x] = "running"]
    /\ UNCHANGED <<serverVars, lx, buf, wclosed>>

WriteOrReplace ==
    /\ lx # NoSession
    /\ \/ lx \in wclosed /\ UNCHANGED <<buf, connections, xpc>>
       \/ /\ lx \in wclosed /\ UNCHANGED buf
          /\ \E x \in Sessions :
                /\ AddrOf[x] = AddrOf[lx] /\ xpc[x] = "idle"
                /\ connections' = [connections EXCEPT ![AddrOf[lx]] = x]
                /\ xpc' = [xpc EXCEPT ![x] = "running"]
       \/ /\ lx \notin wclosed /\ buf[lx] < PipeCap
          /\ buf' = [buf EXCEPT ![lx] = @ + 1] /\ UNCHANGED <<connections, xpc>>
    /\ lx' = NoSession
    /\ UNCHANGED <<serverVars, wclosed>>

\* pw.Write blocks while the pipe is full; on a closed pipe it fails and the
\* datagram is dropped.
Write ==
    /\ lx # NoSession
    /\ \/ lx \in wclosed /\ UNCHANGED buf
       \/ lx \notin wclosed /\ buf[lx] < PipeCap /\ buf' = [buf EXCEPT ![lx] = @ + 1]
    /\ lx' = NoSession
    /\ UNCHANGED <<serverVars, connections, xpc, wclosed>>

-----------------------------------------------------------------------------
(* Packet sessions: handleNewConn and what is deferred after it.           *)

otherThanSession == <<serverVars, lx>>

\* No handler, or the name is in use: handleNewConn returns at once.
Refuse(x) ==
    /\ xpc[x] = "running" /\ xpc' = [xpc EXCEPT ![x] = "ended"]
    /\ UNCHANGED <<otherThanSession, connections, buf, wclosed>>

\* The handler returns or a write fails: the session's context is done.
Stop(x) ==
    /\ xpc[x] = "running" /\ xpc' = [xpc EXCEPT ![x] = "stopping"]
    /\ UNCHANGED <<otherThanSession, connections, buf, wclosed>>

\* The receiver reads.  When the context is done it returns with the first
\* message that is complete, and so does handleNewConn.
Receive(x) ==
    /\ xpc[x] \in {"running", "stopping"} /\ buf[x] > 0
    /\ buf' = [buf EXCEPT ![x] = @ - 1]
    /\ \/ UNCHANGED xpc
       \/ xpc[x] = "stopping" /\ xpc' = [xpc EXCEPT ![x] = "ended"]
    /\ UNCHANGED <<otherThanSession, connections, wclosed>>

LeavePipe(x) ==
    /\ xpc[x] = "ended"
    /\ xpc' = [xpc EXCEPT ![x] = "closed"]
    /\ UNCHANGED <<otherThanSession, connections, buf, wclosed>>

ClosePipe(x) ==
    /\ xpc[x] = "ended"
    /\ wclosed' = wclosed \cup {x} /\ xpc' = [xpc EXCEPT ![x] = "closed"]
    /\ UNCHANGED <<otherThanSession, connections, buf>>

Delete(x) ==
    /\ xpc[x] = "closed"
    /\ connections' = [connections EXCEPT ![AddrOf[x]] = NoSession]
    /\ xpc' = [xpc EXCEPT ![x] = "done"]
    /\ UNCHANGED <<otherThanSession, buf, wclosed>>

Terminated == spc = "returned" /\ toClose = {} /\ UNCHANGED vars

-----------------------------------------------------------------------------
Next ==
    \/ ServeReturns \/ Close \/ Write \/ Terminated
    \/ \E e \in Endpoints : Listen(e) \/ AcceptFails(e) \/ CloseOne(e)
    \/ \E a \in Addrs : ReadKnown(a) \/ ReadNew(a)
    \/ \E x \in Sessions : Refuse(x) \/ Stop(x) \/ Receive(x) \/ ClosePipe(x) \/ Delete(x)

Spec == Init /\ [][Next]_vars

(* Goroutines that can run do, and the receivers of sessions read what     *)
(* arrives: their callbacks return.  No datagram has to arrive, and no     *)
(* listener fails unless it is closed.                                     *)
FairSpec ==
    /\ Spec
    /\ WF_vars(ServeReturns) /\ WF_vars(Write)
    /\ \A e \in Endpoints :
          /\ WF_vars(Listen(e)) /\ WF_vars(CloseOne(e))
          /\ WF_vars(l[e] = "closed" /\ AcceptFails(e))
    /\ \A x \in Sessions : WF_vars(Receive(x)) /\ WF_vars(ClosePipe(x) \/ Delete(x))

-----------------------------------------------------------------------------
(* Properties.                                                             *)

\* A session that runs is found under its address: the end of an earlier
\* session of the same address never takes its entry away, although entries
\* are deleted by address and from another goroutine than the loop's.
RunningIsReachable ==
    \A x \in Sessions : xpc[x] \in {"running", "stopping"} => connections[AddrOf[x]] = x

\* When the endpoints that listen have been closed, Server.ListenAndServe
\* returns; a datagram that is being delivered does not keep it.
ServeEnds ==
    (\A e \in Endpoints : epc[e] # "start" /\ l[e] # "open") ~> (spc = "returned")

\* When a packet session is over, a datagram waiting for its pipe is dropped
\* and its address can register again.
AddressFreed ==
    \A x \in Sessions : (xpc[x] = "ended") ~> (lx # x /\ connections[AddrOf[x]] # x)

\* "Close all listening endpoints" (server/server.go:155): after Close,
\* ListenAndServe returns.
CloseEndsServe == closeCalled ~> (spc = "returned")

\* A packet session whose context is done comes to an end.
StoppedSessionEnds == \A x \in Sessions : (xpc[x] = "stopping") ~> (xpc[x] = "done")

=============================================================================
