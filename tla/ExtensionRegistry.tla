------------------------- MODULE ExtensionRegistry -------------------------
(***************************************************************************)
(* Which extension manager serves a connection, and the names it has       *)
(* registered: Server.Handle and Server.handleNewConn (server/server.go),  *)
(* the registration at the start and end of ExtensionManager.HandleStream  *)
(* (server/extension.go), and the goroutine of a connection that calls     *)
(* them (server/conn_stream.go).                                           *)
(*                                                                         *)
(* Managers are numbered in the order Handle makes them; 0 stands for a    *)
(* missing map entry.  What happens between registration and the end of a  *)
(* stream is the module ExtensionSession.                                  *)
(***************************************************************************)
EXTENDS Naturals, Sequences

CONSTANTS
    Kinds,        \* extension types
    Names,        \* extension names, "" not among them
    General,      \* the name "", of the general manager; an extension may have it, too
    Conns,
    KindOf, NameOf,   \* what the register message of a connection says
    Requests,     \* the lists of names that Handle is called with
    MaxHandles    \* bound: how often Handle is called

ASSUME RegistryAssumption ==
    /\ General \notin Names
    /\ KindOf \in [Conns -> Kinds] /\ NameOf \in [Conns -> Names \cup {General}]
    /\ Requests \subseteq Seq(Names \cup {General})
    /\ MaxHandles \in Nat

Managers == 1..MaxHandles
extensionKey == Kinds \X (Names \cup {General})

VARIABLES
    made,                  \* managers made so far
    extensionManagers,     \* Server.extensionManagers
    registeredExtensions,  \* of every manager
    pc, mgr,               \* the connections
    resolved               \* history: whom the table named during the lookups of a connection

vars == <<made, extensionManagers, registeredExtensions, pc, mgr, resolved>>

\* The manager the table names for an extension: its own, or the general one.
Resolve(table, kind, name) ==
    IF table[<<kind, name>>] # 0 THEN table[<<kind, name>>] ELSE table[<<kind, General>>]

TypeOK ==
    /\ made \in 0..MaxHandles
    /\ extensionManagers \in [extensionKey -> 0..MaxHandles]
    /\ registeredExtensions \in [Managers -> SUBSET (Names \cup {General})]
    /\ pc \in [Conns -> {"new", "exact", "general", "register", "running", "end"}]
    /\ mgr \in [Conns -> 0..MaxHandles]
    /\ resolved \in [Conns -> SUBSET (0..MaxHandles)]

Init ==
    /\ made = 0
    /\ extensionManagers = [k \in extensionKey |-> 0]
    /\ registeredExtensions = [m \in Managers |-> {}]
    /\ pc = [c \in Conns |-> "new"]
    /\ mgr = [c \in Conns |-> 0]
    /\ resolved = [c \in Conns |-> {}]

-----------------------------------------------------------------------------
(* Server.Handle, under the lock.  An empty name ends the call where it    *)
(* stands; without names all entries of the kind make way for a general    *)
(* one.                                                                    *)

Handled(extensions) ==
    {extensions[i] : i \in {j \in DOMAIN extensions : \A k \in 1..j : extensions[k] # General}}

HandleKeeps(table, kind, extensions, m) ==
    [k \in extensionKey |->
        IF k[1] = kind /\ (k[2] \in Handled(extensions)
        \/ (extensions = <<>> /\ k[2] = General))
        THEN m
        ELSE table[k]]

TableAfter(table, kind, extensions, m) ==
    [k \in extensionKey |->
        CASE k[1] # kind -> table[k]
          [] k[1] = kind /\ extensions = <<>> -> IF k[2] = General THEN m ELSE 0
          [] OTHER -> IF k[2] \in Handled(extensions) THEN m ELSE table[k]]

\* Connections whose lookups are under way see the new table, too.
Handle(kind, extensions) ==
    /\ made < MaxHandles
    /\ made' = made + 1
    /\ extensionManagers' = TableAfter(extensionManagers, kind, extensions, made + 1)
    /\ resolved' = [c \in Conns |->
          IF pc[c] = "general"
          THEN resolved[c] \cup {Resolve(extensionManagers', KindOf[c], NameOf[c])}
          ELSE resolved[c]]
    /\ UNCHANGED <<registeredExtensions, pc, mgr>>

-----------------------------------------------------------------------------
(* A connection: accepted and validated, looked up, registered, served.    *)

Accept(c) ==
    /\ pc[c] = "new"
    /\ pc' = [pc EXCEPT ![c] = "exact"]
    /\ UNCHANGED <<made, extensionManagers, registeredExtensions, mgr, resolved>>

\* validateConnection fails: the connection is closed.
AcceptInvalid(c) ==
    /\ pc[c] = "new"
    /\ pc' = [pc EXCEPT ![c] = "end"]
    /\ UNCHANGED <<made, extensionManagers, registeredExtensions, mgr, resolved>>

\* The first lookup of handleNewConn, under a read lock of its own.
LookupExact(c) ==
    /\ pc[c] = "exact"
    /\ mgr' = [mgr EXCEPT ![c] = extensionManagers[<<KindOf[c], NameOf[c]>>]]
    /\ pc' = [pc EXCEPT ![c] = IF mgr'[c] # 0 THEN "register" ELSE "general"]
    /\ resolved' = [resolved EXCEPT ![c] = {Resolve(extensionManagers, KindOf[c], NameOf[c])}]
    /\ UNCHANGED <<made, extensionManagers, registeredExtensions>>

\* The fallback, under another read lock; without it "no handler".
LookupGeneral(c) ==
    /\ pc[c] = "general"
    /\ mgr' = [mgr EXCEPT ![c] = extensionManagers[<<KindOf[c], General>>]]
    /\ pc' = [pc EXCEPT ![c] = IF mgr'[c] # 0 THEN "register" ELSE "end"]
    /\ UNCHANGED <<made, extensionManagers, registeredExtensions, resolved>>

\* "endpoint config not found": the listener's address is not one of those the
\* server was configured with.
ConfigMissing(c) ==
    /\ pc[c] = "register"
    /\ pc' = [pc EXCEPT ![c] = "end"]
    /\ UNCHANGED <<made, extensionManagers, registeredExtensions, mgr, resolved>>

RegisterAnyway(c) ==
    /\ pc[c] = "register"
    /\ registeredExtensions' = [registeredExtensions EXCEPT ![mgr[c]] = @ \cup {NameOf[c]}]
    /\ pc' = [pc EXCEPT ![c] = "running"]
    /\ UNCHANGED <<made, extensionManagers, mgr, resolved>>

\* The name is registered with the manager, under the manager's lock.
Register(c) ==
    /\ pc[c] = "register"
    /\ NameOf[c] \notin registeredExtensions[mgr[c]]
    /\ registeredExtensions' = [registeredExtensions EXCEPT ![mgr[c]] = @ \cup {NameOf[c]}]
    /\ pc' = [pc EXCEPT ![c] = "running"]
    /\ UNCHANGED <<made, extensionManagers, mgr, resolved>>

RegisterDuplicateDeletes(c) ==
    /\ pc[c] = "register"
    /\ NameOf[c] \in registeredExtensions[mgr[c]]
    /\ registeredExtensions' = [registeredExtensions EXCEPT ![mgr[c]] = @ \ {NameOf[c]}]
    /\ pc' = [pc EXCEPT ![c] = "end"]
    /\ UNCHANGED <<made, extensionManagers, mgr, resolved>>

\* "extension already registered": the deferred delete is not armed yet.
RegisterDuplicate(c) ==
    /\ pc[c] = "register"
    /\ NameOf[c] \in registeredExtensions[mgr[c]]
    /\ pc' = [pc EXCEPT ![c] = "end"]
    /\ UNCHANGED <<made, extensionManagers, registeredExtensions, mgr, resolved>>

\* HandleStream returns and deletes the name.
StreamEnd(c) ==
    /\ pc[c] = "running"
    /\ registeredExtensions' = [registeredExtensions EXCEPT ![mgr[c]] = @ \ {NameOf[c]}]
    /\ pc' = [pc EXCEPT ![c] = "end"]
    /\ UNCHANGED <<made, extensionManagers, mgr, resolved>>

Reconnect(c) ==
    /\ pc[c] = "end"
    /\ pc' = [pc EXCEPT ![c] = "new"]
    /\ mgr' = [mgr EXCEPT ![c] = 0]
    /\ resolved' = [resolved EXCEPT ![c] = {}]
    /\ UNCHANGED <<made, extensionManagers, registeredExtensions>>

ConnNext(c) ==
    \/ Accept(c) \/ AcceptInvalid(c) \/ LookupExact(c) \/ LookupGeneral(c)
    \/ ConfigMissing(c) \/ Register(c) \/ RegisterDuplicate(c)
    \/ StreamEnd(c) \/ Reconnect(c)

Next ==
    \/ \E kind \in Kinds, extensions \in Requests : Handle(kind, extensions)
    \/ \E c \in Conns : ConnNext(c)

Spec == Init /\ [][Next]_vars

-----------------------------------------------------------------------------
(* Properties.                                                             *)

\* registeredExtensions holds exactly the names of running streams: a refused
\* duplicate does not remove the name of the stream it duplicates, and a name
\* is free again when its stream is over.
RegisteredIsRunning ==
    \A m \in Managers :
        registeredExtensions[m] = {NameOf[c] : c \in {d \in Conns : pc[d] = "running" /\ mgr[d] = m}}

\* A manager runs at most one stream per extension name.
OneStreamPerName ==
    \A c, d \in Conns :
        c # d /\ pc[c] = "running" /\ pc[d] = "running" /\ NameOf[c] = NameOf[d]
            => mgr[c] # mgr[d]

\* The two lookups of handleNewConn act as one: the manager found, or the lack
\* of one, is what the table said at some moment between them, although Handle
\* may replace all entries in between.
LookupIsAtomic ==
    \A c \in Conns :
        /\ pc[c] = "register" => mgr[c] \in resolved[c]
        /\ pc[c] = "end" /\ mgr[c] = 0 /\ resolved[c] # {} => 0 \in resolved[c]

\* "extension with same name (in same kind) should never be registered more
\* than once" (examples/server_example_test.go:132).
NamesAreUnique ==
    \A c, d \in Conns :
        c # d /\ pc[c] = "running" /\ pc[d] = "running"
            => <<KindOf[c], NameOf[c]>> # <<KindOf[d], NameOf[d]>>

=============================================================================
