------------------------ MODULE MCExtensionSession ------------------------
(* Instances of ExtensionSession for TLC. *)
EXTENDS ExtensionSession, TLC

CONSTANTS c1, c2, k1, k2

\* Every call sends a command of its own.
OwnKeys == (c1 :> k1) @@ (c2 :> k2)

\* The second call repeats the (id, seq) of the first.
OneKey == (c1 :> k1) @@ (c2 :> k1)

OneCall == c1 :> k1

\* Calls with the same key can be exchanged, and calls with keys of their own
\* together with their keys.
CallSymmetry == Permutations({c1, c2})
PairSymmetry ==
    {f \in Permutations({c1, c2, k1, k2}) : \A c \in {c1, c2} : f[c] \in {c1, c2} /\ f[OwnKeys[c]] = OwnKeys[f[c]]}

=============================================================================
