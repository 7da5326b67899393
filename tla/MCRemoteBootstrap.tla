-------------------------- MODULE MCRemoteBootstrap --------------------------
(***************************************************************************)
(* RemoteBootstrap for TLC. Sessions and versions are alike: nothing in    *)
(* the module or in its invariants names one, so states that differ in     *)
(* their names only are checked once.                                      *)
(***************************************************************************)
EXTENDS RemoteBootstrap, TLC

Symmetry == Permutations(Session) \cup Permutations(Version)
=============================================================================
