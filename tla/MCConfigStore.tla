---------------------------- MODULE MCConfigStore ----------------------------
(***************************************************************************)
(* Small instances of ConfigStore for TLC.                                 *)
(***************************************************************************)
EXTENDS ConfigStore, TLC

CONSTANTS a, b, v, w, bad

\* A configuration that is imported and loads, and one that validate() accepts
\* and load_from does not.
Sound == [hooks |-> (a :> w @@ b :> None), masking |-> TRUE]
Uncompiled == [Sound EXCEPT !.masking = FALSE]

AnyImports == {Sound, Uncompiled}
NoImports == {}

=============================================================================
