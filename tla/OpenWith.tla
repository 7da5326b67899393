------------------------------ MODULE OpenWith ------------------------------
(***************************************************************************)
(* Files opened from an SFTP tab with a local application: the renderer    *)
(* downloads a copy, the main process watches the copy, and each save is    *)
(* offered for upload (renderer pages/SFTP.tsx, the confirmation prompts of *)
(* useSftpConfirmationPrompts.ts and the watchers of the main process in    *)
(* register-app-utility-ipc.ts).                                           *)
(*                                                                         *)
(* One open task makes one local copy and one watcher, and all three carry  *)
(* its name.  A version stands for the size and time of a file: every       *)
(* write of a file or of a copy makes its next one.  The upload's own steps on the  *)
(* server are those of RemoteReplace; here it checks and replaces at once,  *)
(* and then reads the version it answers with.                             *)
(***************************************************************************)
EXTENDS Naturals, Sequences, FiniteSets

CONSTANTS
    File,           \* remote files of the tab's directory
    NumOpens,       \* bound: open tasks, each with its local copy and its watcher
    NumUploads,     \* bound: upload tasks
    MaxSaves,       \* bound: saves in local applications
    MaxForeign,     \* bound: changes of remote files by somebody else
    MaxResets,      \* bound: connection changes in the tab
    None            \* no file, no task, no record

\* Tasks are numbered as they start.
Open == 1..NumOpens
Upload == 1..NumUploads

ASSUME BoundsAreNumbers == {NumOpens, NumUploads, MaxSaves, MaxForeign, MaxResets} \subseteq Nat
ASSUME NothingHasNoName ==
    /\ None \notin File /\ None \notin Nat
    /\ None \notin [watch : Nat, copy : Nat, snapshot : Nat, open : BOOLEAN]

VARIABLES
    remote,     \* remote[f]: version of the file on the server
    listed,     \* listed[f]: version in the renderer's directory listing
    local,      \* local[o]: version of a local copy, 0 when there is none
    cached,     \* cached[f]: the copy that the next open reuses
    session,    \* generation of the tab's task queue
    opening,    \* opening[o]: the state of an open task
    watches,    \* watches[o]: the main process's watcher; "untold" is history, the
                \* last version it was notified of and has not reported
    inbox,      \* messages on their way to the renderer
    record,     \* record[f]: what the renderer keeps of an opened file
    prompt,     \* the file the upload dialog asks about
    uploads,    \* uploads[u]: the state of an upload task
    asking,     \* conflict dialogs waiting for their turn
    resolver,   \* the upload task the conflict dialog's answer resolves
    shown,      \* the upload task the conflict dialog shows
    agreed,     \* history: tasks whose own conflict dialog the user accepted
    budget      \* saves, foreign changes and resets left

\* The most versions of a copy there can be: one for each download and save.
MaxLocal == NumOpens + MaxSaves

dialogVars == <<asking, resolver, shown>>
vars == <<remote, listed, local, cached, session, opening, watches, inbox,
          record, prompt, uploads, asking, resolver, shown, agreed, budget>>

-----------------------------------------------------------------------------
(* Initial state: a listed directory, nothing opened.                      *)

NoOpen == [pc |-> "none", file |-> None, copy |-> None, entry |-> 0, session |-> 0]
NoWatch == [on |-> FALSE, last |-> 0, timer |-> FALSE, checks |-> {}, untold |-> 0]
NoUpload == [pc |-> "none", file |-> None, kept |-> None, session |-> 0]

Init ==
    /\ remote = [f \in File |-> 1]
    /\ listed = remote
    /\ local = [o \in Open |-> 0]
    /\ cached = [f \in File |-> None]
    /\ session = 0
    /\ opening = [o \in Open |-> NoOpen]
    /\ watches = [o \in Open |-> NoWatch]
    /\ inbox = <<>>
    /\ record = [f \in File |-> None]
    /\ prompt = None
    /\ uploads = [u \in Upload |-> NoUpload]
    /\ asking = <<>> /\ resolver = None /\ shown = None
    /\ agreed = {}
    /\ budget = [saves |-> MaxSaves, foreign |-> MaxForeign, resets |-> MaxResets]

-----------------------------------------------------------------------------
(* The main process's watchers.                                            *)

\* Mutant: a notification during a signature read starts no timer.
Mut_NotifiedWhenIdle(copy, v) ==
    [o \in Open |-> IF watches[o].on /\ opening[o].copy = copy
                    THEN [watches[o] EXCEPT !.timer = watches[o].checks = {}, !.untold = v]
                    ELSE watches[o]]

\* The copy is written as version v: the file system notifies the watchers on
\* it, and each starts its debounce timer again.
Notified(copy, v) ==
    [o \in Open |-> IF watches[o].on /\ opening[o].copy = copy
                    THEN [watches[o] EXCEPT !.timer = TRUE, !.untold = v]
                    ELSE watches[o]]

\* The start handler reads the file's signature; a missing file is refused.
ReadSignature(o) ==
    /\ opening[o].pc = "starting"
    /\ \/ /\ opening' = [opening EXCEPT ![o].pc = "read"]
          /\ watches' = [watches EXCEPT ![o].last = local[opening[o].copy]]
       \/ /\ opening' = [opening EXCEPT ![o].pc = "done"]
          /\ UNCHANGED watches
    /\ UNCHANGED <<remote, listed, local, cached, session, inbox, record, prompt,
                   uploads, dialogVars, agreed, budget>>

\* Then it starts the watcher and answers with its id.  A save in between is
\* one the watcher is not told of.
StartWatching(o) ==
    /\ opening[o].pc = "read"
    /\ opening' = [opening EXCEPT ![o].pc = "watching"]
    /\ watches' = [watches EXCEPT ![o].on = TRUE]
    /\ inbox' = Append(inbox, [kind |-> "started", watch |-> o])
    /\ UNCHANGED <<remote, listed, local, cached, session, record, prompt,
                   uploads, dialogVars, agreed, budget>>

\* The stop handler drops the watcher and its timer.  The request overtakes
\* nothing the renderer can tell: what the watcher sent before is still on its
\* way.
Stopped(stopped) == [o \in Open |-> IF o \in stopped THEN NoWatch ELSE watches[o]]

\* The debounce timer fires and the file's signature is read.
CheckForChange(o) ==
    /\ watches[o].timer
    /\ watches' = [watches EXCEPT ![o].timer = FALSE,
                                  ![o].checks = @ \cup {local[opening[o].copy]}]
    /\ UNCHANGED <<remote, listed, local, cached, session, opening, inbox, record,
                   prompt, uploads, dialogVars, agreed, budget>>

\* A signature read comes back, in any order: one that differs from the last
\* is sent to the renderer.
ReportChange(o) ==
    \E v \in watches[o].checks :
        /\ watches' = [watches EXCEPT ![o].checks = @ \ {v}, ![o].last = v,
                                      ![o].untold = IF @ = v THEN 0 ELSE @]
        /\ inbox' = IF v = watches[o].last THEN inbox
                    ELSE Append(inbox, [kind |-> "changed", watch |-> o])
        /\ UNCHANGED <<remote, listed, local, cached, session, opening, record,
                       prompt, uploads, dialogVars, agreed, budget>>

\* The signature cannot be read: the watcher is stopped for good.
LoseFile(o) ==
    /\ watches[o].checks # {}
    /\ watches' = [watches EXCEPT ![o] = NoWatch]
    /\ UNCHANGED <<remote, listed, local, cached, session, opening, inbox, record,
                   prompt, uploads, dialogVars, agreed, budget>>

-----------------------------------------------------------------------------
(* Opening a file.                                                         *)

\* handleOpenEntryWithDefaultApplication: a concurrent task takes the entry as
\* the listing shows it, and the file's cached copy if there is one.
OpenFile(o) ==
    \E f \in File :
        /\ opening[o].pc = "none" /\ \A earlier \in 1..(o - 1) : opening[earlier].pc # "none"
        /\ opening' = [opening EXCEPT ![o] =
               [pc |-> "downloading", file |-> f, entry |-> listed[f], session |-> session,
                copy |-> IF cached[f] = None THEN o ELSE cached[f]]]
        /\ UNCHANGED <<remote, listed, local, cached, session, watches, inbox, record,
                       prompt, uploads, dialogVars, agreed, budget>>

\* downloadEntryToTemporaryPath: the copy is written, over an edited one too,
\* and kept for the next open while the task's session is current.
Download(o) ==
    LET t == opening[o]
        isCurrent == t.session = session
    IN  /\ t.pc = "downloading"
        /\ local' = [local EXCEPT ![t.copy] = @ + 1]
        /\ watches' = Notified(t.copy, local'[t.copy])
        /\ cached' = IF isCurrent THEN [cached EXCEPT ![t.file] = t.copy] ELSE cached
        /\ opening' = [opening EXCEPT ![o].pc = IF isCurrent THEN "launching" ELSE "done"]
        /\ UNCHANGED <<remote, listed, session, inbox, record, prompt, uploads, dialogVars,
                       agreed, budget>>

\* The download or the application fails: nothing is watched.
FailToOpen(o) ==
    /\ opening[o].pc \in {"downloading", "launching"}
    /\ opening' = [opening EXCEPT ![o].pc = "done"]
    /\ UNCHANGED <<remote, listed, local, cached, session, watches, inbox, record, prompt,
                   uploads, dialogVars, agreed, budget>>

\* The application is open.  registerWatchedOpenFile stops the watcher of an
\* earlier open of the same file and asks for a new one.
Launch(o) ==
    LET earlier == record[opening[o].file]
    IN  /\ opening[o].pc = "launching"
        /\ opening' = [opening EXCEPT ![o].pc = "starting"]
        /\ watches' = IF earlier = None THEN watches ELSE Stopped({earlier.watch})
        /\ UNCHANGED <<remote, listed, local, cached, session, inbox, record,
                       prompt, uploads, dialogVars, agreed, budget>>

-----------------------------------------------------------------------------
(* Messages to the renderer.                                               *)

\* The watch id arrives: the file's record is written, whatever the session.
Registered(o) ==
    [record EXCEPT ![opening[o].file] =
        [watch |-> o, copy |-> opening[o].copy, snapshot |-> opening[o].entry, open |-> FALSE]]

FilesWatchedBy(o) == {f \in File : record[f] # None /\ record[f].watch = o}

Receive ==
    /\ inbox # <<>>
    /\ inbox' = Tail(inbox)
    /\ LET message == Head(inbox)
       IN  \/ /\ message.kind = "started"
              /\ record' = Registered(message.watch)
              /\ opening' = [opening EXCEPT ![message.watch].pc = "done"]
              /\ UNCHANGED prompt
           \/ /\ message.kind = "changed"
              /\ \E f \in FilesWatchedBy(message.watch) :
                     /\ record' = [record EXCEPT ![f].open = TRUE]
                     /\ prompt' = f
              /\ UNCHANGED opening
           \/ /\ message.kind = "changed"
              /\ FilesWatchedBy(message.watch) = {}       \* an unknown watch is ignored
              /\ UNCHANGED <<record, prompt, opening>>
    /\ UNCHANGED <<remote, listed, local, cached, session, watches, uploads, dialogVars,
                   agreed, budget>>

-----------------------------------------------------------------------------
(* The upload dialog and its task.                                         *)

\* resolveUploadConfirmationPrompt(false).
Ignore ==
    /\ prompt # None
    /\ record' = [record EXCEPT ![prompt] = IF @ = None THEN None ELSE [@ EXCEPT !.open = FALSE]]
    /\ prompt' = None
    /\ UNCHANGED <<remote, listed, local, cached, session, opening, watches, inbox,
                   uploads, dialogVars, agreed, budget>>

\* runSftpOperation: the task keeps the record as it is now, or no task starts
\* when the tab cannot use file actions (it is busy, or without a session).
StartUpload(u) ==
    \/ uploads' = [uploads EXCEPT ![u] =
           [pc |-> "sending", file |-> prompt, kept |-> record[prompt], session |-> session]]
    \/ UNCHANGED uploads

\* resolveUploadConfirmationPrompt(true): the question is closed before the
\* upload is handed over.
Accept(u) ==
    /\ prompt # None
    /\ record[prompt] # None
    /\ uploads[u].pc = "none" /\ \A earlier \in 1..(u - 1) : uploads[earlier].pc # "none"
    /\ StartUpload(u)
    /\ record' = [record EXCEPT ![prompt].open = FALSE]
    /\ prompt' = None
    /\ UNCHANGED <<remote, listed, local, cached, session, opening, watches, inbox,
                   dialogVars, agreed, budget>>

\* activateNextUploadConflictPrompt on a queue, when nobody is being asked:
\* the first waiting task is shown and gets the answer.
Asked(queue) ==
    /\ resolver' = IF queue = <<>> THEN None ELSE Head(queue)
    /\ shown' = resolver'
    /\ asking' = IF queue = <<>> THEN <<>> ELSE Tail(queue)

\* Mutant: the dialog shows the latest conflict, the answer goes to the first.
Mut_AskShowsLatest(u) ==
    /\ shown' = u
    /\ resolver' = IF resolver = None THEN u ELSE resolver
    /\ asking' = IF resolver = None THEN asking ELSE Append(asking, u)

\* Mutant: the latest conflict takes the dialog, its resolver too.
Mut_AskTakesDialog(u) == shown' = u /\ resolver' = u /\ UNCHANGED asking

\* requestUploadConflictConfirmation: to the end of the queue, and its turn if
\* nobody is being asked.
Ask(u) ==
    IF resolver = None
    THEN Asked(Append(asking, u))
    ELSE asking' = Append(asking, u) /\ UNCHANGED <<resolver, shown>>

\* The version the upload expects is the one the record had.
Matches(u) == remote[uploads[u].file] = uploads[u].kept.snapshot

\* The server's file is replaced by the local copy.
Replace(u, how) ==
    /\ remote' = [remote EXCEPT ![uploads[u].file] = @ + 1]
    /\ uploads' = [uploads EXCEPT ![u].pc = how]

Send(u) ==
    /\ uploads[u].pc = "sending"
    /\ Matches(u)
    /\ Replace(u, "replaced")
    /\ UNCHANGED <<listed, local, cached, session, opening, watches, inbox, record, prompt,
                   dialogVars, agreed, budget>>

\* The backend answers with a conflict: a current task asks, another one fails.
Conflict(u) ==
    /\ uploads[u].pc = "sending"
    /\ ~Matches(u)
    /\ \/ /\ uploads[u].session = session
          /\ uploads' = [uploads EXCEPT ![u].pc = "asking"]
          /\ Ask(u)
       \/ /\ uploads[u].session # session
          /\ uploads' = [uploads EXCEPT ![u].pc = "done"]
          /\ UNCHANGED dialogVars
    /\ UNCHANGED <<remote, listed, local, cached, session, opening, watches, inbox, record,
                   prompt, agreed, budget>>

\* The user answers the conflict dialog: the resolver's task goes on, with the
\* overwrite flag or to its end, and the next task is asked.
Answer ==
    /\ resolver # None
    /\ \/ /\ agreed' = agreed \cup {shown}
          /\ uploads' = [uploads EXCEPT ![resolver].pc = "overwriting"]
       \/ /\ uploads' = [uploads EXCEPT ![resolver].pc = "done"]
          /\ UNCHANGED agreed
    /\ Asked(asking)
    /\ UNCHANGED <<remote, listed, local, cached, session, opening, watches, inbox, record,
                   prompt, budget>>

Overwrite(u) ==
    /\ uploads[u].pc = "overwriting"
    /\ Replace(u, "replaced")
    /\ UNCHANGED <<listed, local, cached, session, opening, watches, inbox, record, prompt,
                   dialogVars, agreed, budget>>

\* The backend reads the version it answers with, and a current task puts its
\* record back with that version.
Written(f, kept, version) ==
    [record EXCEPT ![f] = [kept EXCEPT !.snapshot = version, !.open = FALSE]]

Respond(u) ==
    LET t == uploads[u]
    IN  /\ t.pc = "replaced"
        /\ \/ /\ t.session = session
              /\ record' = Written(t.file, t.kept, remote[t.file])
              /\ uploads' = [uploads EXCEPT ![u].pc = "refreshing"]
           \/ /\ t.session # session
              /\ uploads' = [uploads EXCEPT ![u].pc = "done"]
              /\ UNCHANGED record
        /\ UNCHANGED <<remote, listed, local, cached, session, opening, watches, inbox,
                       prompt, dialogVars, agreed, budget>>

\* The directory is listed again and the record takes the listed version.
Refresh(u) ==
    LET f == uploads[u].file
    IN  /\ uploads[u].pc = "refreshing"
        /\ uploads' = [uploads EXCEPT ![u].pc = "done"]
        /\ listed' = [listed EXCEPT ![f] = remote[f]]
        /\ record' = [record EXCEPT ![f] = IF @ = None THEN None
                                           ELSE [@ EXCEPT !.snapshot = listed'[f]]]
        /\ UNCHANGED <<remote, local, cached, session, opening, watches, inbox, prompt,
                       dialogVars, agreed, budget>>

\* The request or the refresh fails.
FailToUpload(u) ==
    /\ uploads[u].pc \in {"sending", "overwriting", "replaced", "refreshing"}
    /\ uploads' = [uploads EXCEPT ![u].pc = "done"]
    /\ UNCHANGED <<remote, listed, local, cached, session, opening, watches, inbox, record,
                   prompt, dialogVars, agreed, budget>>

-----------------------------------------------------------------------------
(* The tab is given another connection.                                    *)

\* Mutant: the upload dialog stays open.
Mut_StopAllKeepsDialog ==
    /\ watches' = Stopped({record[f].watch : f \in {f \in File : record[f] # None}})
    /\ record' = [f \in File |-> None]
    /\ UNCHANGED prompt

\* stopAllWatchedOpenFiles, but for the conflict dialogs.
StopAll ==
    /\ watches' = Stopped({record[f].watch : f \in {f \in File : record[f] # None}})
    /\ record' = [f \in File |-> None]
    /\ prompt' = None

\* stopAllWatchedOpenFiles, cancelUploadConflictConfirmationPrompt and
\* resetTaskQueue, in one step: no watcher is kept, every conflict dialog is
\* answered no, and tasks of the old generation are no longer current.  The
\* files listed now are another server's.
Reset ==
    /\ budget.resets > 0
    /\ budget' = [budget EXCEPT !.resets = @ - 1]
    /\ session' = session + 1
    /\ StopAll
    /\ cached' = [f \in File |-> None]
    /\ uploads' = [u \in Upload |-> IF uploads[u].pc = "asking"
                                    THEN [uploads[u] EXCEPT !.pc = "done"] ELSE uploads[u]]
    /\ Asked(<<>>)
    /\ remote' = [f \in File |-> remote[f] + 1]
    /\ listed' = remote'
    /\ UNCHANGED <<local, opening, inbox, agreed>>

-----------------------------------------------------------------------------
(* The environment.                                                        *)

\* The user saves an opened copy.
Save(o) ==
    /\ budget.saves > 0
    /\ local[o] # 0
    /\ budget' = [budget EXCEPT !.saves = @ - 1]
    /\ local' = [local EXCEPT ![o] = @ + 1]
    /\ watches' = Notified(o, local'[o])
    /\ UNCHANGED <<remote, listed, cached, session, opening, inbox, record, prompt, uploads,
                   dialogVars, agreed>>

\* Somebody else changes a remote file.
ForeignChange(f) ==
    /\ budget.foreign > 0
    /\ budget' = [budget EXCEPT !.foreign = @ - 1]
    /\ remote' = [remote EXCEPT ![f] = @ + 1]
    /\ UNCHANGED <<listed, local, cached, session, opening, watches, inbox, record, prompt,
                   uploads, dialogVars, agreed>>

-----------------------------------------------------------------------------
Next ==
    \/ \E o \in Open : \/ OpenFile(o) \/ Download(o) \/ FailToOpen(o) \/ Launch(o)
                       \/ ReadSignature(o) \/ StartWatching(o)
                       \/ CheckForChange(o) \/ ReportChange(o) \/ LoseFile(o) \/ Save(o)
    \/ \E u \in Upload : \/ Accept(u) \/ Send(u) \/ Conflict(u) \/ Overwrite(u) \/ Respond(u)
                         \/ Refresh(u) \/ FailToUpload(u)
    \/ Receive \/ Ignore \/ Answer \/ Reset
    \/ \E f \in File : ForeignChange(f)

Spec == Init /\ [][Next]_vars

\* Timers fire, file reads and requests come back, messages arrive, and the
\* user answers the conflict dialog.  Nobody need save, open or accept.
Fairness ==
    /\ \A o \in Open : WF_vars(CheckForChange(o)) /\ WF_vars(ReportChange(o))
    /\ \A u \in Upload : WF_vars(Send(u) \/ Conflict(u) \/ Overwrite(u) \/ Respond(u) \/ Refresh(u))
    /\ WF_vars(Answer)

FairSpec == Spec /\ Fairness

-----------------------------------------------------------------------------
(* Properties.                                                             *)

TypeOK ==
    /\ \A f \in File : /\ record[f] # None => record[f].watch \in Open
                       /\ cached[f] \in Open \cup {None}
    /\ prompt \in File \cup {None}
    /\ resolver \in Upload \cup {None}
    /\ \A i \in DOMAIN asking : asking[i] \in Upload
    /\ \A o \in Open : watches[o].checks \subseteq 1..MaxLocal

\* The upload dialog asks about a file the renderer still keeps a record of:
\* an answer always finds the copy and the snapshot an upload would use.
QuestionHasARecord == prompt # None => record[prompt] # None

\* The conflict dialogs are a queue: whoever waits in it will be asked, each
\* once, the dialog shows the task its answer goes to, and none stays behind
\* when the dialog closes or the connection changes.
ConflictsTakeTurns ==
    LET queue == IF resolver = None THEN asking ELSE <<resolver>> \o asking
    IN  /\ shown = resolver
        /\ resolver = None => asking = <<>>
        /\ {queue[i] : i \in 1..Len(queue)} = {u \in Upload : uploads[u].pc = "asking"}
        /\ Cardinality({queue[i] : i \in 1..Len(queue)}) = Len(queue)

OpenWithIsSafe == TypeOK /\ QuestionHasARecord /\ ConflictsTakeTurns

\* An upload replaces a remote version that is not the one its record named
\* only if the user accepted the conflict dialog while it showed this upload.
OverwritesAreAgreed ==
    [][\A u \in Upload :
           (uploads[u].pc \in {"sending", "overwriting"} /\ uploads'[u].pc = "replaced")
               => remote[uploads[u].file] = uploads[u].kept.snapshot \/ u \in agreed]_vars

\* The last save of a watched copy is not lost between the debounce timer and
\* the reads of the file's signature, which may overtake one another: the
\* watcher reports it, or is stopped, or hears of a later save.
EverySaveIsReported ==
    \A o \in Open : \A v \in 1..MaxLocal :
        (watches[o].untold = v) ~> (watches[o].untold # v)

\* An upload that was started ends, whatever conflicts it meets and however many others
\* wait for the same dialog.
EveryUploadEnds ==
    \A u \in Upload : (uploads[u].pc = "sending") ~> (uploads[u].pc = "done")

\* What sftp-file-system.md promises: one pending upload prompt per remote path
\* until the user uploads or ignores the change.  There is one dialog for all
\* files, and a change of a second file takes the place of the first's question.
EveryPendingChangeIsAsked ==
    \A f \in File : (record[f] # None /\ record[f].open) => prompt = f

=============================================================================
