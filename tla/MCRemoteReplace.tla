-------------------------- MODULE MCRemoteReplace --------------------------
(***************************************************************************)
(* Two uploaders in sessions of their own are interchangeable.             *)
(***************************************************************************)
EXTENDS RemoteReplace, TLC

Symmetric == Permutations(Uploaders)
=============================================================================
