----------------------------- MODULE Peripherals ----------------------------
(***************************************************************************)
(* The peripheral handler of extperipheral/handler.go: calls of HandleCmd  *)
(* that connect, operate and close peripherals by id, on one sync.Map.     *)
(* handleSession makes one call at a time; here calls may also overlap,    *)
(* which the sync.Map and the LoadOrStore after Connect allow for.  Each   *)
(* access to the map and each call of the implementation is a step.  A     *)
(* handle is one result of PeripheralConnector.Connect.                    *)
(***************************************************************************)
CONSTANTS Calls, Ids, Handles, NoHandle

ASSUME PeripheralsAssumption == NoHandle \notin Handles

VARIABLES
    pc, id, held,   \* each call: where it is, its peripheral id, its handle
    peripherals,    \* the map
    fresh, open,    \* handles not made yet; handles not closed
    serial          \* no CLOSE overlaps a call for the same id, as in handleSession

callVars == <<pc, id, held>>
vars == <<callVars, peripherals, fresh, open, serial>>

ConnectPc == {"connect", "dial", "store", "discard"}
RemovePc == {"remove", "close", "delete"}
OperatePc == {"find", "operate"}

TypeOK ==
    /\ pc \in [Calls -> ConnectPc \cup RemovePc \cup OperatePc \cup {"idle", "done"}]
    /\ id \in [Calls -> Ids]
    /\ held \in [Calls -> Handles \cup {NoHandle}]
    /\ peripherals \in [Ids -> Handles \cup {NoHandle}]
    /\ fresh \subseteq Handles /\ open \subseteq Handles
    /\ serial \in BOOLEAN

Init ==
    /\ pc = [c \in Calls |-> "idle"]
    /\ id \in [Calls -> Ids]
    /\ held = [c \in Calls |-> NoHandle]
    /\ peripherals = [i \in Ids |-> NoHandle]
    /\ fresh = Handles /\ open = {}
    /\ serial \in BOOLEAN

Goto(c, l) == pc' = [pc EXCEPT ![c] = l]
Unused == UNCHANGED <<id, serial>>

\* The commands the hub may send now.
Busy(c) == \E d \in Calls : id[d] = id[c] /\ pc[d] \notin {"idle", "done"}
Closing(c) == \E d \in Calls : id[d] = id[c] /\ pc[d] \in RemovePc

\* HandleCmd dispatches on the kind of the command; an unknown kind is an error.
HandleCmd(c) ==
    /\ pc[c] = "idle"
    /\ \/ (serial => ~Busy(c)) /\ Goto(c, "remove")
       \/ (serial => ~Closing(c)) /\ \E l \in {"connect", "find", "done"} : Goto(c, l)
    /\ UNCHANGED <<held, peripherals, fresh, open>> /\ Unused

-----------------------------------------------------------------------------
(* handlePeripheralConnect *)

\* A known id, or a payload that does not unmarshal, ends the call.
ConnectLoad(c) ==
    /\ pc[c] = "connect"
    /\ \/ Goto(c, "done")
       \/ peripherals[id[c]] = NoHandle /\ Goto(c, "dial")
    /\ UNCHANGED <<held, peripherals, fresh, open>> /\ Unused

Connect(c) ==
    /\ pc[c] = "dial"
    /\ \/ Goto(c, "done") /\ UNCHANGED <<held, fresh, open>>
       \/ \E h \in fresh :
             /\ Goto(c, "store") /\ held' = [held EXCEPT ![c] = h]
             /\ fresh' = fresh \ {h} /\ open' = open \cup {h}
    /\ UNCHANGED peripherals /\ Unused

ConnectStoreOver(c) ==
    /\ pc[c] = "store"
    /\ Goto(c, "done")
    /\ peripherals' = [peripherals EXCEPT ![id[c]] = held[c]]
    /\ UNCHANGED <<held, fresh, open>> /\ Unused

ConnectStore(c) ==
    /\ pc[c] = "store"
    /\ IF peripherals[id[c]] = NoHandle
         THEN Goto(c, "done") /\ peripherals' = [peripherals EXCEPT ![id[c]] = held[c]]
         ELSE Goto(c, "discard") /\ UNCHANGED peripherals
    /\ UNCHANGED <<held, fresh, open>> /\ Unused

DiscardStored(c) ==
    /\ pc[c] = "discard"
    /\ Goto(c, "done") /\ open' = open \ {peripherals[id[c]]}
    /\ UNCHANGED <<held, peripherals, fresh>> /\ Unused

\* The deferred Close of a connection that lost the race for its id.
Discard(c) ==
    /\ pc[c] = "discard"
    /\ Goto(c, "done") /\ open' = open \ {held[c]}
    /\ UNCHANGED <<held, peripherals, fresh>> /\ Unused

-----------------------------------------------------------------------------
(* removePeripheral *)

RemoveGet(c) ==
    /\ pc[c] = "remove"
    /\ held' = [held EXCEPT ![c] = peripherals[id[c]]]
    /\ Goto(c, IF peripherals[id[c]] = NoHandle THEN "delete" ELSE "close")
    /\ UNCHANGED <<peripherals, fresh, open>> /\ Unused

RemoveCloseOnly(c) ==
    /\ pc[c] = "close"
    /\ Goto(c, "done") /\ open' = open \ {held[c]}
    /\ UNCHANGED <<held, peripherals, fresh>> /\ Unused

RemoveClose(c) ==
    /\ pc[c] = "close"
    /\ Goto(c, "delete") /\ open' = open \ {held[c]}
    /\ UNCHANGED <<held, peripherals, fresh>> /\ Unused

RemoveDelete(c) ==
    /\ pc[c] = "delete"
    /\ Goto(c, "done") /\ peripherals' = [peripherals EXCEPT ![id[c]] = NoHandle]
    /\ UNCHANGED <<held, fresh, open>> /\ Unused

-----------------------------------------------------------------------------
(* handlePeripheralOperate and handlePeripheralMetricsCollect, which differ *)
(* only in what they ask of the peripheral.                                 *)

GetPeripheral(c) ==
    /\ pc[c] = "find"
    /\ held' = [held EXCEPT ![c] = peripherals[id[c]]]
    /\ Goto(c, IF peripherals[id[c]] = NoHandle THEN "done" ELSE "operate")
    /\ UNCHANGED <<peripherals, fresh, open>> /\ Unused

Operate(c) ==
    /\ pc[c] = "operate" /\ Goto(c, "done")
    /\ UNCHANGED <<held, peripherals, fresh, open>> /\ Unused

Terminated == (\A c \in Calls : pc[c] = "done") /\ UNCHANGED vars

-----------------------------------------------------------------------------
Next ==
    \/ \E c \in Calls :
          \/ HandleCmd(c)
          \/ ConnectLoad(c) \/ Connect(c) \/ ConnectStore(c) \/ Discard(c)
          \/ RemoveGet(c) \/ RemoveClose(c) \/ RemoveDelete(c)
          \/ GetPeripheral(c) \/ Operate(c)
    \/ Terminated

Spec == Init /\ [][Next]_vars

-----------------------------------------------------------------------------
(* Properties.                                                             *)

\* Whatever overlaps, a peripheral found in the map is open, or the CLOSE
\* that closed it is about to delete its entry: a connection that loses the
\* race for an id closes itself and not the one that is stored.
StoredIsOpen ==
    \A i \in Ids :
        \/ peripherals[i] = NoHandle
        \/ peripherals[i] \in open
        \/ \E c \in Calls : pc[c] = "delete" /\ id[c] = i /\ held[c] = peripherals[i]

\* If no CLOSE overlaps other commands for its id, no connection is lost: what
\* is open is stored under some id or still in the hands of the CONNECT that
\* made it.
NoLeak ==
    serial => \A h \in open :
        \/ \E i \in Ids : peripherals[i] = h
        \/ \E c \in Calls : pc[c] \in {"store", "discard"} /\ held[c] = h

\* Under the same assumption OPERATE and COLLECT_METRICS work on peripherals
\* that are open: the handle they found is not closed under them.
OperatesOnOpen ==
    serial => \A c \in Calls : pc[c] = "operate" => held[c] \in open

\* Without the assumption on CLOSE nothing is lost either.
NeverLeaks ==
    \A h \in open :
        \/ \E i \in Ids : peripherals[i] = h
        \/ \E c \in Calls : pc[c] \in {"store", "discard", "close"} /\ held[c] = h

=============================================================================
