------------------------ MODULE MCExtensionRegistry ------------------------
(* Instances of ExtensionRegistry for TLC. *)
EXTENDS ExtensionRegistry, TLC

CONSTANTS x1, x2, x3, camera, light, peripheral, runtime

\* Two connections of the same extension and one of another kind, without a name.
ConnNames == (x1 :> camera) @@ (x2 :> camera) @@ (x3 :> General)

ConnKinds == (x1 :> peripheral) @@ (x2 :> peripheral) @@ (x3 :> runtime)

\* No names, one or two, and an empty name before and after a proper one.
NameLists ==
    {<<>>, <<camera>>, <<light, camera>>, <<camera, General>>, <<General, camera>>}

=============================================================================
