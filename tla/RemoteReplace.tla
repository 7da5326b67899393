--------------------------- MODULE RemoteReplace ---------------------------
(***************************************************************************)
(* Writing one remote file: uploadFilePrimitive and writeTextFilePrimitive *)
(* with the snapshot conflict guard, the upload to a temporary sibling,    *)
(* its replacement of the target by posix-rename, by rename or by unlink   *)
(* and rename, the exclusive creation of a missing target, and what each   *)
(* failure cleans up.                                                      *)
(*                                                                         *)
(* Uploaders write the same path from sessions of their own, so no path    *)
(* claim orders them; a foreign program may write it too.  A version of    *)
(* the file stands for its size and modification time: equal stamps of     *)
(* different contents are not modelled.                                    *)
(***************************************************************************)
EXTENDS FiniteSets

CONSTANTS Uploaders,       \* requests to write the file, each in its own session
          Original,        \* the version that may exist at the start
          Foreign,         \* the version another program writes
          Absent, None     \* no file; no expected snapshot

\* A version is named by its writer; only an exclusive creation is ever seen
\* half written under the target's own name.
Whole(w) == [by |-> w, whole |-> TRUE]
Partial(u) == [by |-> u, whole |-> FALSE]
Versions == [by : Uploaders \cup {Original, Foreign}, whole : BOOLEAN]

ASSUME DistinctVersions ==
    /\ Cardinality({Original, Foreign, Absent, None}) = 4
    /\ {Original, Foreign, Absent, None} \cap Uploaders = {}
    /\ {Absent, None} \cap Versions = {}

VARIABLES server,       \* what the server's two renames do
          target,       \* the version under the file's name
          temp,         \* each upload's temporary sibling
          pc,           \* the request each uploader awaits
          text,         \* a preview text write instead of a file upload
          expect,       \* expectedRemoteSnapshot
          overwrite,    \* the user confirmed the overwrite
          answer,       \* the operation result
          interrupted,  \* the uploader's session closed under it
          \* History, read by the properties only:
          since,        \* versions others wrote since the last look at the target
          touched,      \* the writers that changed what is under the file's name
          refused,      \* cleanup or the last rename was refused by the server
          takenBack     \* creations removed again after their stream failed

control == <<pc, text, expect, overwrite, answer, interrupted>>
history == <<since, touched, refused, takenBack>>
vars == <<server, target, temp, control, history>>

Awaiting == {"stat", "stream", "posix", "rename", "recheck", "unlink", "rename2",
             "cleanup", "create", "creating", "cleanupTarget", "verify"}

Goto(u, l) == pc' = [pc EXCEPT ![u] = l]

\* u's last answer is r, whatever remains to be cleaned up.
Answer(u, r) == answer' = [answer EXCEPT ![u] = r]

\* u, or another program, leaves version v under the file's name.
Put(u, v) ==
    /\ target' = v
    /\ touched' = touched \cup {u}
    /\ since' = [w \in Uploaders |-> IF w = u \/ v = Absent THEN since[w]
                                     ELSE since[w] \cup {v}]

\* u has looked at the target just now.
Look(u) == since' = [since EXCEPT ![u] = {}]

\* doesRemoteSnapshotMatch
Matches(u) == expect[u] = target

----------------------------------------------------------------------------
Init ==
    /\ server \in [posix : {"works", "missing", "refuses"}, over : BOOLEAN]
    /\ target \in {Absent, Whole(Original)}
    /\ temp = [u \in Uploaders |-> Absent]
    /\ pc = [u \in Uploaders |-> "new"]
    /\ text = [u \in Uploaders |-> FALSE]
    /\ expect = [u \in Uploaders |-> None]
    /\ overwrite = [u \in Uploaders |-> FALSE]
    /\ answer = [u \in Uploaders |-> "none"]
    /\ interrupted = {}
    /\ since = [u \in Uploaders |-> {}]
    /\ touched = {} /\ refused = {} /\ takenBack = {}

\* The renderer submits a write of the version it opened, or a staged local
\* file for which it holds no snapshot.
Submit(u) ==
    /\ pc[u] = "new"
    /\ \E t \in BOOLEAN, e \in {target, None} \ {Absent} :
         /\ t => e # None
         /\ text' = [text EXCEPT ![u] = t]
         /\ expect' = [expect EXCEPT ![u] = e]
    /\ Goto(u, "stat")
    /\ UNCHANGED <<server, target, temp, overwrite, answer, interrupted, history>>

\* A conflict the user confirms is sent again with overwrite.
RetryOverwriting(u) ==
    /\ pc[u] = "done" /\ answer[u] = "conflict" /\ ~overwrite[u]
    /\ overwrite' = [overwrite EXCEPT ![u] = TRUE]
    /\ Answer(u, "none")
    /\ Goto(u, "stat")
    /\ UNCHANGED <<server, target, temp, text, expect, interrupted, history>>

StatTarget(u) ==
    /\ pc[u] = "stat"
    /\ Look(u)
    /\ \/ /\ target # Absent /\ (overwrite[u] \/ Matches(u))
          /\ Goto(u, "stream") /\ UNCHANGED answer
       \/ /\ target # Absent /\ ~overwrite[u] /\ ~Matches(u)
          /\ Goto(u, "done") /\ Answer(u, "conflict")
       \/ /\ target = Absent /\ text[u]
          /\ Goto(u, "done") /\ Answer(u, "failed")
       \/ /\ target = Absent /\ ~text[u] /\ expect[u] # None /\ ~overwrite[u]
          /\ Goto(u, "done") /\ Answer(u, "conflict")
       \/ /\ target = Absent /\ ~text[u] /\ (expect[u] = None \/ overwrite[u])
          /\ Goto(u, "create") /\ UNCHANGED answer
    /\ UNCHANGED <<server, target, temp, text, expect, overwrite, interrupted, touched, refused, takenBack>>

----------------------------------------------------------------------------
(* Replacing a target that exists.                                         *)

StreamTemporary(u) ==
    /\ pc[u] = "stream"
    /\ temp' = [temp EXCEPT ![u] = Whole(u)]
    /\ Goto(u, "posix")
    /\ UNCHANGED <<server, target, text, expect, overwrite, answer, interrupted, history>>

StreamFails(u) ==
    /\ pc[u] = "stream"
    /\ temp' \in {temp, [temp EXCEPT ![u] = Partial(u)]}
    /\ Answer(u, "failed") /\ Goto(u, "cleanup")
    /\ UNCHANGED <<server, target, text, expect, overwrite, interrupted, history>>

\* The temporary file takes the target's name.
MoveIn(u) ==
    /\ Put(u, temp[u])
    /\ temp' = [temp EXCEPT ![u] = Absent]
    /\ Goto(u, "verify")
    /\ UNCHANGED <<server, text, expect, overwrite, answer, interrupted, refused, takenBack>>

PosixRename(u) == pc[u] = "posix" /\ server.posix = "works" /\ MoveIn(u)

\* Not offered, or refused with an ordinary error: fall through.
PosixRenameFallsThrough(u) ==
    /\ pc[u] = "posix" /\ server.posix # "works"
    /\ Goto(u, "rename")
    /\ UNCHANGED <<server, target, temp, text, expect, overwrite, answer, interrupted, history>>

Rename(u) == pc[u] = "rename" /\ (target = Absent \/ server.over) /\ MoveIn(u)

\* Mutant: the recheck before the unlink is skipped.
Mut_NoRecheck(u) ==
    /\ pc[u] = "rename" /\ target # Absent /\ ~server.over
    /\ Goto(u, "unlink")
    /\ Look(u)
    /\ UNCHANGED <<server, target, temp, text, expect, overwrite, answer, interrupted, touched, refused, takenBack>>

\* The generic SFTP failure of a rename over an existing name.
RenameRefused(u) ==
    /\ pc[u] = "rename" /\ target # Absent /\ ~server.over
    /\ Goto(u, IF overwrite[u] THEN "unlink" ELSE "recheck")
    /\ Look(u)
    /\ UNCHANGED <<server, target, temp, text, expect, overwrite, answer, interrupted, touched, refused, takenBack>>

\* Any other error ends the replacement where it stands.
RequestFails(u) ==
    /\ pc[u] \in {"rename", "recheck", "unlink"}
    /\ Answer(u, "failed") /\ Goto(u, "cleanup")
    /\ UNCHANGED <<server, target, temp, text, expect, overwrite, interrupted, history>>

AssertRemoteSnapshotStillMatches(u) ==
    /\ pc[u] = "recheck"
    /\ Look(u)
    /\ IF Matches(u) THEN Goto(u, "unlink") /\ UNCHANGED answer
       ELSE /\ Answer(u, IF target = Absent THEN "failed" ELSE "conflict")
            /\ Goto(u, "cleanup")
    /\ UNCHANGED <<server, target, temp, text, expect, overwrite, interrupted, touched, refused, takenBack>>

UnlinkTarget(u) ==
    /\ pc[u] = "unlink" /\ target # Absent
    /\ Put(u, Absent)
    /\ Goto(u, "rename2")
    /\ UNCHANGED <<server, temp, text, expect, overwrite, answer, interrupted, refused, takenBack>>

RenameAgain(u) == pc[u] = "rename2" /\ (target = Absent \/ server.over) /\ MoveIn(u)

RenameAgainFails(u) ==
    /\ pc[u] = "rename2"
    /\ refused' = refused \cup {u}
    /\ Answer(u, "failed") /\ Goto(u, "cleanup")
    /\ UNCHANGED <<server, target, temp, text, expect, overwrite, interrupted, since, touched, takenBack>>

\* unlinkRemoteTempFile: best effort, then the first failure is rethrown.
UnlinkTemporary(u) ==
    /\ pc[u] = "cleanup"
    /\ \/ temp' = [temp EXCEPT ![u] = Absent] /\ UNCHANGED refused
       \/ temp[u] # Absent /\ refused' = refused \cup {u} /\ UNCHANGED temp
    /\ Goto(u, "done")
    /\ UNCHANGED <<server, target, text, expect, overwrite, answer, interrupted, since, touched, takenBack>>

----------------------------------------------------------------------------
(* Creating a target that was missing.                                     *)

OpenExclusively(u) ==
    /\ pc[u] = "create"
    /\ IF target = Absent
       THEN Put(u, Partial(u)) /\ Goto(u, "creating") /\ UNCHANGED answer
       ELSE /\ answer' \in {[answer EXCEPT ![u] = r] : r \in {"conflict", "failed"}}
            /\ Goto(u, "done")
            /\ UNCHANGED <<target, since, touched>>
    /\ UNCHANGED <<server, temp, text, expect, overwrite, interrupted, refused, takenBack>>

StreamTarget(u) ==
    /\ pc[u] = "creating"
    /\ IF target = Partial(u) THEN Put(u, Whole(u)) ELSE UNCHANGED <<target, since, touched>>
    /\ Goto(u, "verify")
    /\ UNCHANGED <<server, temp, text, expect, overwrite, answer, interrupted, refused, takenBack>>

StreamTargetFails(u) ==
    /\ pc[u] = "creating"
    /\ Answer(u, "failed") /\ Goto(u, "cleanupTarget")
    /\ UNCHANGED <<server, target, temp, text, expect, overwrite, interrupted, history>>

UnlinkOpenedTarget(u) ==
    /\ pc[u] = "cleanupTarget"
    /\ \/ Put(u, Absent) /\ takenBack' = takenBack \cup {u} /\ UNCHANGED refused
       \/ refused' = refused \cup {u} /\ UNCHANGED <<target, since, touched, takenBack>>
    /\ Goto(u, "done")
    /\ UNCHANGED <<server, temp, text, expect, overwrite, answer, interrupted>>

----------------------------------------------------------------------------
\* The closing stat supplies the snapshot the caller keeps.
StatWritten(u) ==
    /\ pc[u] = "verify"
    /\ \/ /\ target # Absent
          /\ Answer(u, "success")
          /\ expect' = [expect EXCEPT ![u] = target]
       \/ Answer(u, "failed") /\ UNCHANGED expect
    /\ Goto(u, "done")
    /\ UNCHANGED <<server, target, temp, text, overwrite, interrupted, history>>

\* Mutant: the temporary file of an interrupted write is removed later.
Mut_SweepTemporaries(u) ==
    /\ pc[u] \in Awaiting
    /\ interrupted' = interrupted \cup {u}
    /\ Goto(u, "done")
    /\ answer' = [answer EXCEPT ![u] = IF @ = "none" THEN "failed" ELSE @]
    /\ temp' = [temp EXCEPT ![u] = Absent]
    /\ UNCHANGED <<server, target, text, expect, overwrite, history>>

\* The uploader's session closes: the awaited request and every later one,
\* the cleanup included, is rejected at once.
Interrupt(u) ==
    /\ pc[u] \in Awaiting
    /\ interrupted' = interrupted \cup {u}
    /\ Goto(u, "done")
    /\ answer' = [answer EXCEPT ![u] = IF @ = "none" THEN "failed" ELSE @]
    /\ UNCHANGED <<server, target, temp, text, expect, overwrite, history>>

\* Another program writes the file once.
ForeignWrite ==
    /\ Foreign \notin touched
    /\ Put(Foreign, Whole(Foreign))
    /\ UNCHANGED <<server, temp, control, refused, takenBack>>

Next ==
    \/ \E u \in Uploaders :
          \/ Submit(u) \/ RetryOverwriting(u) \/ StatTarget(u)
          \/ StreamTemporary(u) \/ StreamFails(u)
          \/ PosixRename(u) \/ PosixRenameFallsThrough(u)
          \/ Rename(u) \/ RenameRefused(u) \/ RequestFails(u)
          \/ AssertRemoteSnapshotStillMatches(u) \/ UnlinkTarget(u)
          \/ RenameAgain(u) \/ RenameAgainFails(u) \/ UnlinkTemporary(u)
          \/ OpenExclusively(u) \/ StreamTarget(u) \/ StreamTargetFails(u)
          \/ UnlinkOpenedTarget(u) \/ StatWritten(u) \/ Interrupt(u)
    \/ ForeignWrite

Spec == Init /\ [][Next]_vars

----------------------------------------------------------------------------
(* Properties.                                                             *)

\* Every variable holds a value its TypeScript counterpart can hold; a
\* temporary file holds its own upload's bytes.
TypeOK ==
    /\ server \in [posix : {"works", "missing", "refuses"}, over : BOOLEAN]
    /\ target \in Versions \cup {Absent}
    /\ \A u \in Uploaders : temp[u] \in {Absent, Partial(u), Whole(u)}
    /\ pc \in [Uploaders -> Awaiting \cup {"new", "done"}]
    /\ text \in [Uploaders -> BOOLEAN] /\ overwrite \in [Uploaders -> BOOLEAN]
    /\ expect \in [Uploaders -> Versions \cup {None}]
    /\ answer \in [Uploaders -> {"none", "success", "conflict", "failed"}]
    /\ interrupted \subseteq Uploaders /\ touched \subseteq Uploaders \cup {Foreign}
    /\ refused \subseteq Uploaders /\ takenBack \subseteq Uploaders
    /\ since \in [Uploaders -> SUBSET Versions]

\* A request answered with a conflict has left the file alone, so the dialog
\* that offers to overwrite it shows the version that is really there.
ConflictTouchesNothing ==
    \A u \in Uploaders : answer[u] = "conflict" => u \notin touched

\* Every write that ends with its session alive removes its temporary file,
\* unless the server refuses to.
TemporariesAreRemoved ==
    \A u \in Uploaders : pc[u] = "done" /\ u \notin interrupted \cup refused => temp[u] = Absent

\* At every moment, whoever is between two of its requests, a file that was
\* written still exists, under its own name or as a whole temporary file,
\* unless the server refused a rename onto the name that had just been freed or
\* the half-written creation of a missing file was taken back.
DataSurvives ==
    target = Absent /\ touched # {}
    => \E u \in touched \ {Foreign} : u \in refused \cup takenBack \/ temp[u] = Whole(u)

\* The safety of writing one remote file, as one invariant.
WritesAreSafe ==
    TypeOK /\ ConflictTouchesNothing /\ TemporariesAreRemoved /\ DataSurvives

\* A write nobody confirmed destroys only the version it expected, its own
\* half-written file, or a version that appeared after its last look: the
\* stat before the upload, and once rename was refused, the recheck.
OnlyRacedVersionsAreLost ==
    [][\A u \in Uploaders :
         pc'[u] # pc[u] /\ target' # target /\ target # Absent /\ ~overwrite[u]
         => target \in {expect[u], Partial(u)} \cup since[u]]_vars
=============================================================================
