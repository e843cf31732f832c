---------------------------- MODULE MCFlatStore -----------------------------
(* Small instances of FlatStore.                                           *)
EXTENDS FlatStore

OnePackage == <<"files">>
=============================================================================
