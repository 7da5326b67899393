--------------------------- MODULE MCSftpSession ---------------------------
(***************************************************************************)
(* Bounds for SftpSession, and the eviction of retained records checked on *)
(* every full record list of up to four tasks.                             *)
(***************************************************************************)
EXTENDS SftpSession

CONSTANT MaxRecords   \* longest record list the eviction is checked on

ASSUME RecordsAssumption == MaxRecords \in Nat

\* makeRoomForPublicTask on every full record list of up to MaxRecords tasks
\* (read before a session exists: it is about every list, not one session's).
EvictionSparesFailures ==
    create = "idle" => \A n \in 1 .. MaxRecords : SparesFailures(1 .. n)
=============================================================================
