--------------------------- MODULE SftpTaskClaims ---------------------------
(***************************************************************************)
(* The path claims an SFTP task reserves for its whole lifetime, and when   *)
(* two of them must be serialized.                                         *)
(*   packages/backend/src/sftp/task-scheduler.ts                           *)
(*                                                                         *)
(* A remote path is the sequence of its segments; the remote root is <<>>.  *)
(* What the code does with characters (trimming, turning a backslash into a *)
(* slash, collapsing repeated slashes) only decides what the segments are   *)
(* and is abstracted; the resolution of "." and ".." is not.               *)
(***************************************************************************)
EXTENDS Naturals, Sequences, SequencesExt

CONSTANTS Name,      \* names of remote files and directories
          Dot,       \* the segment "."
          DotDot     \* the segment ".."

ASSUME SegmentAssumption == Dot # DotDot /\ Dot \notin Name /\ DotDot \notin Name

Path    == Seq(Name)
Segment == Name \cup {Dot, DotDot}
Root    == << >>

\* One step of the POSIX normalization of an absolute path: "." is dropped,
\* ".." removes the segment before it, and stays at the root.
ResolveSegment(path, segment) ==
    CASE segment = Dot    -> path
      [] segment = DotDot -> IF path = Root THEN Root ELSE Front(path)
      [] OTHER            -> Append(path, segment)

\* normalizeSftpTaskClaimPath: a blank or relative input cannot be resolved
\* without remote I/O, so it claims the remote root.
NormalizeSftpTaskClaimPath(raw) ==
    IF raw.absolute THEN FoldLeft(ResolveSegment, Root, raw.segments) ELSE Root

\* Fault: only an ancestor conflicts with its descendant.
Mut_OneSidedConflict(left, right) == IsPrefix(left, right)

\* doSftpTaskClaimsConflict: equal claims, or one an ancestor of the other.
DoSftpTaskClaimsConflict(left, right) ==
    IsPrefix(left, right) \/ IsPrefix(right, left)

\* doClaimSetsConflict
DoClaimSetsConflict(left, right) ==
    \E l \in left, r \in right : DoSftpTaskClaimsConflict(l, r)

\* The loop of normalizeSftpTaskClaims: the distinct claims, shortest first,
\* each kept unless a claim already kept covers it.
ShortestFirst(l, r) == Len(l) < Len(r)

MinimizeClaims(claims) ==
    LET Keep(kept, claim) ==
            IF \E k \in kept : DoSftpTaskClaimsConflict(k, claim)
            THEN kept ELSE kept \cup {claim}
    IN  FoldLeft(Keep, {}, SetToSortSeq(claims, ShortestFirst))

NormalizeSftpTaskClaims(raws) ==
    MinimizeClaims({NormalizeSftpTaskClaimPath(raw) : raw \in raws})
=============================================================================
