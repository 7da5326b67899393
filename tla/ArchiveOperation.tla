--------------------------- MODULE ArchiveOperation ---------------------------
(***************************************************************************)
(* One compression or extraction on the server of an SFTP session           *)
(* (backend/src/sftp/archive-service.ts): its runner, the remote tool it    *)
(* starts, the requests it sends, its cleanup, and the events that end it   *)
(* early: cancellation, the deadline, a lost transport and the close of     *)
(* the session, which joins or starts a cleanup of its own.                 *)
(*                                                                         *)
(* A request takes effect, or is refused, when it is sent: the server       *)
(* handles a session's requests in order.  The answer comes later, or not   *)
(* at all once the transport is gone.  Directories that are merged are      *)
(* represented by their leaves, which are the entries.                      *)
(***************************************************************************)
EXTENDS Naturals, FiniteSets

CONSTANTS
    Entry,      \* what the archive holds
    Archive,    \* the entry that names the archive a compression writes
    None

ASSUME ArchiveIsAnEntry == Archive \in Entry /\ None \notin Entry

VARIABLES
    kind,       \* "extract" or "compress"
    whole,      \* extraction renames the staging directory as a whole
    pc,         \* the runner's next step
    entry,      \* the entry being committed
    remaining,  \* entries not committed yet
    decision,   \* the conflict decision: "none", "overwrite" or "keep-both"
    request,    \* the runner's request on the session: "none", "ok", "removed" or "refused"
    channel,    \* exec channel: "none", "opening", "open" or "signalled"
    tool,       \* the remote process: "none", "running" or "abandoned"
    registered, \* temporaryPaths
    provisional,\* the destination directory is in provisionalDirectories
    cleanup,    \* the shared cleanup attempt
    cancel,     \* cancelRequested
    forced,     \* forcedFailure: the deadline has passed
    closed,     \* the session is closed for new work
    up,         \* the transport is there
    closer,     \* closeSession
    verdict,    \* the terminal state the runner has chosen
    result,     \* the public terminal state
    present,    \* server: temporary paths that exist
    staged,     \* server: entries in the staging directory
    dest,       \* server: dest[e], what the destination holds under e's name
    kept,       \* server: entries committed under a numbered name
    made,       \* server: the operation made the destination directory
    agreed      \* history: the user chose to overwrite

runner == <<pc, entry, remaining, decision, request, verdict, result>>
command == <<channel, tool>>
books == <<registered, provisional, cleanup>>
ends == <<cancel, forced, closed, up, closer>>
server == <<present, staged, dest, kept, made>>
vars == <<kind, whole, runner, command, books, ends, server, agreed>>

Temp == {"tar", "output", "staging"}
NoCleanup == [on |-> FALSE, todo |-> {}, ok |-> TRUE]

Working == {"start", "mkdir", "expand", "stage", "extract", "unlink", "verify", "scan",
            "awaiting", "commit", "swap", "unstage", "compress", "check", "submit"}
Commands == {"expand", "extract", "compress"}

\* The steps before which the code looks for a cancellation.  The second half of
\* a replacement and the removal of the emptied staging directory are not.
Guarded == Working \ {"swap", "unstage", "unlink"}

-----------------------------------------------------------------------------
(* startOperation and runOperation.                                        *)

Init ==
    /\ kind \in {"extract", "compress"} /\ whole \in BOOLEAN
    /\ pc = "start" /\ entry = None /\ decision = "none" /\ request = "none"
    /\ remaining = IF kind = "extract" THEN Entry ELSE {Archive}
    /\ channel = "none" /\ tool = "none"
    /\ registered = {} /\ provisional = FALSE /\ cleanup = NoCleanup
    /\ cancel = FALSE /\ forced = FALSE /\ closed = FALSE /\ up = TRUE /\ closer = "none"
    /\ verdict = "none" /\ result = "none"
    /\ present = {} /\ staged = {} /\ kept = {}
    /\ dest \in [Entry -> {"absent", "old"}]
    /\ made = FALSE /\ agreed = FALSE

\* assertOperationActive.
Active == ~cancel /\ ~closed /\ ~forced

\* runOperation's catch: the terminal state that a thrown error chooses.
Thrown(cancelled) ==
    IF forced THEN "failed" ELSE IF cancelled \/ cancel THEN "cancelled" ELSE "failed"

Finally(v) ==
    /\ pc' = "finally"
    /\ verdict' = v
    /\ request' = "none"

\* The runner has nothing in flight and may start step s.
At(s) == pc = s /\ request = "none" /\ channel = "none" /\ up /\ (s \in Guarded => Active)

\* A request of step s is answered.
Answered(s, reply) == pc = s /\ request = reply /\ up

\* The refused request's error ends the work.
Refused ==
    /\ request = "refused" /\ up
    /\ Finally(Thrown(FALSE))
    /\ UNCHANGED <<kind, whole, entry, remaining, decision, result, command, books, ends, server, agreed>>

\* A guard finds the operation cancelled, or the transport or the deadline takes
\* the answer away.  A command ends first unless the deadline ends the wait.
Stop ==
    /\ pc \in Working
    /\ \/ pc \in Guarded /\ request = "none" /\ channel = "none" /\ ~Active
       \/ ~up \/ forced
    /\ Finally(Thrown(TRUE))
    /\ channel' = "none"
    /\ tool' \in IF tool = "running" THEN {"abandoned"}
                 ELSE IF channel = "opening" THEN {"none", "abandoned"} ELSE {tool}
    /\ UNCHANGED <<kind, whole, entry, remaining, decision, result, books, ends, server, agreed>>

\* The request's effect on the server is the rest of the action.
Send == request' = "ok"
Refuse == request' = "refused" /\ UNCHANGED server

-----------------------------------------------------------------------------
(* Remote commands: runCheckedCommand and runRemoteCommand.                *)

\* The tool's output is registered, where the code has a name for it before the
\* command runs, and exec is sent.
OutputOf(s) == IF s = "expand" THEN {"tar"} ELSE IF s = "compress" THEN {"tar", "output"} ELSE {}

Exec(s) ==
    /\ s \in Commands /\ At(s)
    /\ channel' = "opening"
    /\ registered' = registered \cup OutputOf(s)
    /\ UNCHANGED <<kind, whole, runner, tool, provisional, cleanup, ends, server, agreed>>

\* Mutant: a cancellation before the callback is not looked at.
Mut_OpenedForgetsCancel ==
    /\ channel = "opening" /\ up
    /\ \/ tool' = "running" /\ channel' = "open" /\ UNCHANGED runner
       \/ /\ channel' = "none"
          /\ Finally(Thrown(FALSE))
          /\ UNCHANGED <<tool, entry, remaining, decision, result>>
    /\ UNCHANGED <<kind, whole, books, ends, server, agreed>>

\* The exec callback: the tool runs, and is told to stop when a cancellation
\* came first; or exec fails.
Opened ==
    /\ channel = "opening" /\ up
    /\ \/ /\ tool' = "running"
          /\ channel' = IF cancel THEN "signalled" ELSE "open"
          /\ UNCHANGED runner
       \/ /\ channel' = "none"
          /\ Finally(Thrown(FALSE))
          /\ UNCHANGED <<tool, entry, remaining, decision, result>>
    /\ UNCHANGED <<kind, whole, books, ends, server, agreed>>

\* What a tool leaves on the server while it runs.
Writes(s) ==
    \/ /\ s = "extract"
       /\ \E written \in SUBSET Entry : staged' = staged \cup (IF "staging" \in present THEN written ELSE {})
       /\ UNCHANGED <<present, dest, kept, made>>
    \/ /\ s # "extract"
       /\ \E written \in SUBSET OutputOf(s) : present' = present \cup written
       /\ UNCHANGED <<staged, dest, kept, made>>

\* The command ends and its channel closes.  A zero exit status means that all
\* output is there; compression removes its intermediate tar itself.
Exit ==
    /\ channel \in {"open", "signalled"} /\ up /\ tool = "running"
    /\ tool' = "none" /\ channel' = "none"
    /\ \/ /\ Active                                     \* success
          /\ \/ /\ pc = "expand" /\ pc' = "stage"
                /\ present' = present \cup {"tar"} /\ UNCHANGED <<staged, registered>>
             \/ /\ pc = "extract" /\ pc' = "unlink"
                /\ staged' = Entry /\ UNCHANGED <<present, registered>>
             \/ /\ pc = "compress" /\ pc' = "check"
                /\ present' = (present \cup {"output"}) \ {"tar"}
                /\ registered' = registered \ {"tar"} /\ UNCHANGED staged
          /\ UNCHANGED <<request, verdict, dest, kept, made>>
       \/ /\ Finally(Thrown(~Active))                   \* failure or cancellation
          /\ Writes(pc)
          /\ UNCHANGED registered
    /\ UNCHANGED <<kind, whole, entry, remaining, decision, result, provisional, cleanup, ends, agreed>>

\* Three seconds after TERM the channel is closed from this side.  A tool that
\* ignored the signal runs on.
ForceClose ==
    /\ channel = "signalled" /\ up
    /\ channel' = "none"
    /\ tool' = "abandoned"
    /\ Finally(Thrown(TRUE))
    /\ Writes(pc)
    /\ UNCHANGED <<kind, whole, entry, remaining, decision, result, books, ends, agreed>>

\* A tool that ignored the signal makes its output after all.
AbandonedToolWrites ==
    /\ tool = "abandoned"
    /\ present' = present \cup (IF kind = "extract" THEN {"tar"} ELSE {"tar", "output"})
    /\ UNCHANGED <<kind, whole, runner, command, books, ends, staged, dest, kept, made, agreed>>

-----------------------------------------------------------------------------
(* runCompression.                                                         *)

Begin ==
    /\ At("start")
    /\ \/ kind = "extract" /\ pc' = "mkdir" /\ UNCHANGED <<request, verdict>>
       \/ kind = "compress" /\ dest[Archive] = "absent" /\ pc' = "compress" /\ UNCHANGED <<request, verdict>>
       \/ Finally("failed")             \* no capability, bad inputs, target exists
    /\ UNCHANGED <<kind, whole, entry, remaining, decision, result, command, books, ends, server, agreed>>

\* The target is looked up again after the command.
CheckTarget ==
    /\ At("check")
    /\ \/ /\ dest[Archive] = "absent" /\ pc' = "submit"
          /\ UNCHANGED <<request, verdict>>
       \/ /\ dest[Archive] # "absent" /\ Finally("failed")
    /\ UNCHANGED <<kind, whole, entry, remaining, decision, result, command, books, ends, server, agreed>>

\* renameRemote: an SFTP rename does not replace.
Submit ==
    /\ At("submit")
    /\ \/ /\ dest[Archive] = "absent" /\ "output" \in present
          /\ Send
          /\ dest' = [dest EXCEPT ![Archive] = "new"]
          /\ present' = present \ {"output"}
          /\ UNCHANGED <<staged, kept, made>>
       \/ Refuse
    /\ UNCHANGED <<kind, whole, pc, entry, remaining, decision, verdict, result, command, books, ends, agreed>>

Submitted ==
    /\ Answered("submit", "ok")
    /\ Finally("succeeded")
    /\ remaining' = {}
    /\ registered' = registered \ {"output"}
    /\ UNCHANGED <<kind, whole, entry, decision, result, command, provisional, cleanup, ends, server, agreed>>

-----------------------------------------------------------------------------
(* runExtraction.                                                          *)

\* ensureRemoteDirectory: the destination is there, or is made and registered
\* when the answer comes.
MakeDestination ==
    /\ At("mkdir")
    /\ \/ /\ pc' = "expand"
          /\ UNCHANGED <<request, server>>
       \/ /\ \A e \in Entry : dest[e] = "absent"
          /\ Send /\ made' = TRUE /\ UNCHANGED <<pc, present, staged, dest, kept>>
       \/ Refuse /\ UNCHANGED pc
    /\ UNCHANGED <<kind, whole, entry, remaining, decision, verdict, result, command, books, ends, agreed>>

DestinationMade ==
    /\ Answered("mkdir", "ok")
    /\ pc' = "expand" /\ request' = "none"
    /\ provisional' = TRUE
    /\ UNCHANGED <<kind, whole, entry, remaining, decision, verdict, result, command, registered,
                   cleanup, ends, server, agreed>>

\* Mutant: the staging directory is registered when the tool has filled it.
Mut_StagingNotRegistered ==
    /\ Answered("stage", "ok")
    /\ pc' = "extract" /\ request' = "none"
    /\ UNCHANGED <<kind, whole, entry, remaining, decision, verdict, result, command, books, ends, server, agreed>>

\* The staging directory is made and registered when the answer comes.
MakeStaging ==
    /\ At("stage")
    /\ \/ Send /\ present' = present \cup {"staging"} /\ UNCHANGED <<staged, dest, kept, made>>
       \/ Refuse                        \* also an archive with unsafe members
    /\ UNCHANGED <<kind, whole, pc, entry, remaining, decision, verdict, result, command, books, ends, agreed>>

StagingMade ==
    /\ Answered("stage", "ok")
    /\ pc' = "extract" /\ request' = "none"
    /\ registered' = registered \cup {"staging"}
    /\ UNCHANGED <<kind, whole, entry, remaining, decision, verdict, result, command, provisional,
                   cleanup, ends, server, agreed>>

UnlinkTar ==
    /\ At("unlink")
    /\ \/ Send /\ present' = present \ {"tar"} /\ UNCHANGED <<staged, dest, kept, made>>
       \/ Refuse
    /\ UNCHANGED <<kind, whole, pc, entry, remaining, decision, verdict, result, command, books, ends, agreed>>

TarUnlinked ==
    /\ Answered("unlink", "ok")
    /\ pc' = "verify" /\ request' = "none"
    /\ registered' = registered \ {"tar"}
    /\ UNCHANGED <<kind, whole, entry, remaining, decision, verdict, result, command, provisional,
                   cleanup, ends, server, agreed>>

\* validateStagedTree: links that leave the staging directory fail it.
Verify ==
    /\ At("verify")
    /\ \/ pc' = "scan" /\ UNCHANGED <<request, verdict>>
       \/ Finally("failed")
    /\ UNCHANGED <<kind, whole, entry, remaining, decision, result, command, books, ends, server, agreed>>

-----------------------------------------------------------------------------
(* commitExtractedEntries.                                                 *)

Conflicts == {e \in Entry : dest[e] # "absent"}

\* Every staged entry is looked up.  Without a conflict the decision is the
\* default, overwrite; with one the operation waits for the user's.
Scan ==
    /\ At("scan")
    /\ \/ /\ whole \/ Conflicts = {}
          /\ pc' = "commit" /\ decision' = "overwrite"
       \/ /\ ~whole /\ Conflicts # {}
          /\ pc' = "awaiting" /\ UNCHANGED decision
    /\ UNCHANGED <<kind, whole, entry, remaining, request, verdict, result, command, books, ends, server, agreed>>

\* resolveConflict.
Resolve ==
    /\ At("awaiting")
    /\ \/ \E d \in {"overwrite", "keep-both"} :
              /\ pc' = "commit" /\ decision' = d /\ agreed' = (d = "overwrite")
              /\ UNCHANGED <<request, verdict>>
       \/ Finally("cancelled") /\ UNCHANGED <<decision, agreed>>
    /\ UNCHANGED <<kind, whole, entry, remaining, result, command, books, ends, server>>

\* Mutant: silence is consent.
Mut_ConflictTimeoutOverwrites ==
    /\ At("awaiting")
    /\ pc' = "commit" /\ decision' = "overwrite"
    /\ UNCHANGED <<kind, whole, entry, remaining, request, verdict, result, command, books, ends, server, agreed>>

\* Ten minutes pass without an answer.
ConflictTimeout ==
    /\ At("awaiting")
    /\ Finally("cancelled")
    /\ UNCHANGED <<kind, whole, entry, remaining, decision, result, command, books, ends, server, agreed>>

\* The staging directory is renamed to an available name.
CommitWhole ==
    /\ whole /\ At("commit")
    /\ \/ /\ "staging" \in present
          /\ Send
          /\ present' = present \ {"staging"} /\ kept' = staged /\ staged' = {}
          /\ UNCHANGED <<dest, made>>
       \/ Refuse
    /\ UNCHANGED <<kind, whole, pc, entry, remaining, decision, verdict, result, command, books, ends, agreed>>

WholeCommitted ==
    /\ whole /\ Answered("commit", "ok")
    /\ Finally("succeeded")
    /\ remaining' = {}
    /\ registered' = registered \ {"staging"} /\ provisional' = FALSE
    /\ UNCHANGED <<kind, whole, entry, decision, result, command, cleanup, ends, server, agreed>>

\* One entry is looked up: a free name is taken; for a taken one the entry is
\* kept beside under another or, to replace it, the old entry is removed first.
Renamed(e) == dest' = [dest EXCEPT ![e] = "new"] /\ staged' = staged \ {e} /\ UNCHANGED <<present, kept, made>>
KeptBeside(e) == kept' = kept \cup {e} /\ staged' = staged \ {e} /\ UNCHANGED <<present, dest, made>>
Removed(e) == dest' = [dest EXCEPT ![e] = "absent"] /\ UNCHANGED <<present, staged, kept, made>>

Placed(e) ==
    \/ dest[e] = "absent" /\ e \in staged /\ Send /\ Renamed(e)
    \/ dest[e] # "absent" /\ decision = "keep-both" /\ e \in staged /\ Send /\ KeptBeside(e)
    \/ dest[e] # "absent" /\ decision = "overwrite" /\ request' = "removed" /\ Removed(e)

CommitEntry ==
    /\ ~whole /\ At("commit")
    /\ \E e \in remaining :
           /\ entry' = e
           /\ Placed(e) \/ Refuse
    /\ UNCHANGED <<kind, whole, pc, remaining, decision, verdict, result, command, books, ends, agreed>>

OnToTheNext ==
    /\ request' = "none"
    /\ entry' = None /\ remaining' = remaining \ {entry}
    /\ pc' = IF remaining' = {} THEN "unstage" ELSE "commit"

EntryCommitted ==
    /\ ~whole
    /\ \/ Answered("commit", "ok") /\ OnToTheNext
       \/ Answered("commit", "removed") /\ pc' = "swap" /\ request' = "none" /\ UNCHANGED <<entry, remaining>>
    /\ UNCHANGED <<kind, whole, decision, verdict, result, command, books, ends, server, agreed>>

\* The second half of a replacement, whatever has happened in between.
Swap ==
    /\ At("swap")
    /\ \/ dest[entry] = "absent" /\ entry \in staged /\ Send /\ Renamed(entry)
       \/ Refuse
    /\ UNCHANGED <<kind, whole, pc, entry, remaining, decision, verdict, result, command, books, ends, agreed>>

Swapped ==
    /\ Answered("swap", "ok")
    /\ OnToTheNext
    /\ UNCHANGED <<kind, whole, decision, verdict, result, command, books, ends, server, agreed>>

RemoveStaging ==
    /\ At("unstage")
    /\ \/ Send /\ present' = present \ {"staging"} /\ UNCHANGED <<staged, dest, kept, made>>
       \/ Refuse
    /\ UNCHANGED <<kind, whole, pc, entry, remaining, decision, verdict, result, command, books, ends, agreed>>

StagingRemoved ==
    /\ Answered("unstage", "ok")
    /\ Finally("succeeded")
    /\ registered' = registered \ {"staging"} /\ provisional' = FALSE
    /\ UNCHANGED <<kind, whole, entry, remaining, decision, result, command, cleanup, ends, server, agreed>>

-----------------------------------------------------------------------------
(* Cleanup.                                                                *)

\* cleanupTemporaryPaths: the attempt that is going on is shared, otherwise one
\* starts with the paths registered now.
Started == IF cleanup.on THEN cleanup ELSE [on |-> TRUE, todo |-> registered, ok |-> TRUE]

\* runOperation's finally.
StartCleanup ==
    /\ pc = "finally"
    /\ pc' = "cleaning"
    /\ cleanup' = Started
    /\ UNCHANGED <<kind, whole, entry, remaining, decision, request, verdict, result, command,
                   registered, provisional, ends, server, agreed>>

\* removeRemoteTree of one path.
RemovePath ==
    \E t \in cleanup.todo :
        /\ cleanup.on
        /\ \/ /\ up
              /\ present' = present \ {t}
              /\ staged' = IF t = "staging" THEN {} ELSE staged
              /\ registered' = registered \ {t}
              /\ cleanup' = [cleanup EXCEPT !.todo = @ \ {t}]
           \/ /\ cleanup' = [cleanup EXCEPT !.todo = IF forced THEN {} ELSE @ \ {t}, !.ok = FALSE]
              /\ UNCHANGED <<present, staged, registered>>
        /\ UNCHANGED <<kind, whole, runner, command, provisional, ends, dest, kept, made, agreed>>

\* The provisional directory goes, if it is empty, and the attempt is over for
\* all who wait for it.
Settle(ok) ==
    /\ cleanup' = [NoCleanup EXCEPT !.ok = ok]
    /\ \/ /\ pc = "cleaning"
          /\ pc' = "cleaned"
          /\ verdict' = IF ok THEN verdict ELSE "failed"
       \/ pc # "cleaning" /\ UNCHANGED <<pc, verdict>>
    /\ closer' = IF closer = "cleaning" THEN "ending" ELSE closer

EndCleanup ==
    /\ cleanup.on /\ cleanup.todo = {}
    /\ \/ /\ provisional /\ up
          /\ provisional' = FALSE
          /\ made' = (made /\ (present # {} \/ \E e \in Entry : dest[e] # "absent" \/ e \in kept))
          /\ Settle(cleanup.ok)
       \/ provisional /\ Settle(FALSE) /\ UNCHANGED <<provisional, made>>
       \/ ~provisional /\ Settle(cleanup.ok) /\ UNCHANGED <<provisional, made>>
    /\ UNCHANGED <<kind, whole, entry, remaining, decision, request, result, command, registered,
                   cancel, forced, closed, up, present, staged, dest, kept, agreed>>

\* The public state becomes terminal.
Finish ==
    /\ pc = "cleaned"
    /\ pc' = "done" /\ result' = verdict
    /\ UNCHANGED <<kind, whole, entry, remaining, decision, request, verdict, command, books, ends, server, agreed>>

-----------------------------------------------------------------------------
(* What ends an operation early.                                           *)

Signalled == channel' = IF channel = "open" THEN "signalled" ELSE channel

\* cancelOperation.
CancelOperation ==
    /\ result = "none" /\ ~cancel
    /\ cancel' = TRUE
    /\ Signalled
    /\ UNCHANGED <<kind, whole, runner, tool, books, forced, closed, up, closer, server, agreed>>

\* timeoutOperation and the poisoned session: the deadline fails the operation,
\* and the transport goes unless a close of the session has it.
Expire ==
    /\ result = "none" /\ ~forced
    /\ forced' = TRUE /\ closed' = TRUE /\ up' = (up /\ closed)
    /\ cancel' = TRUE
    /\ Signalled
    /\ UNCHANGED <<kind, whole, runner, tool, books, closer, server, agreed>>

\* The transport is lost: handleTransportClosed.
LoseTransport ==
    /\ up
    /\ up' = FALSE /\ closed' = TRUE
    /\ cancel' = (cancel \/ result = "none")
    /\ UNCHANGED <<kind, whole, runner, command, books, forced, closer, server, agreed>>

\* closeSession of the session and of the archive service: an operation that
\* goes on is cancelled and waited for.
CloseSession ==
    /\ closer = "none" /\ ~closed
    /\ closed' = TRUE
    /\ closer' = IF result = "none" THEN "waiting" ELSE "ending"
    /\ cancel' = (cancel \/ result = "none")
    /\ Signalled
    /\ UNCHANGED <<kind, whole, runner, tool, books, forced, up, server, agreed>>

\* Mutant: the close waits for the operation, however long it takes.
Mut_CloseWaitsForOperation ==
    /\ closer = "waiting" /\ result # "none"
    /\ closer' = "ending" /\ UNCHANGED cleanup
    /\ UNCHANGED <<kind, whole, runner, command, registered, provisional, cancel, forced, closed, up, server, agreed>>

\* The operation is over or the wait is: leftovers are cleaned.
CloseWaited ==
    /\ closer = "waiting"
    /\ \/ /\ registered # {} \/ provisional
          /\ closer' = "cleaning" /\ cleanup' = Started
       \/ /\ registered = {} /\ ~provisional
          /\ closer' = "ending" /\ UNCHANGED cleanup
    /\ UNCHANGED <<kind, whole, runner, command, registered, provisional, cancel, forced, closed, up, server, agreed>>

\* The close does not wait for that cleanup beyond its own deadline.
StopWaiting ==
    /\ closer = "cleaning"
    /\ closer' = "ending"
    /\ UNCHANGED <<kind, whole, runner, command, books, cancel, forced, closed, up, server, agreed>>

EndTransport ==
    /\ closer = "ending"
    /\ closer' = "ended" /\ up' = FALSE
    /\ UNCHANGED <<kind, whole, runner, command, books, cancel, forced, closed, server, agreed>>

\* Another program makes a file under a free name.
ForeignFile(e) ==
    /\ dest[e] = "absent"
    /\ \A other \in Entry : dest[other] # "foreign"
    /\ dest' = [dest EXCEPT ![e] = "foreign"]
    /\ UNCHANGED <<kind, whole, runner, command, books, ends, present, staged, kept, made, agreed>>

-----------------------------------------------------------------------------
Work ==
    \/ Begin \/ Refused \/ Stop
    \/ CheckTarget \/ Submit \/ Submitted
    \/ MakeDestination \/ DestinationMade \/ MakeStaging \/ StagingMade \/ UnlinkTar \/ TarUnlinked
    \/ Verify \/ Scan \/ CommitWhole \/ WholeCommitted \/ CommitEntry \/ EntryCommitted
    \/ Swap \/ Swapped \/ RemoveStaging \/ StagingRemoved
    \/ \E s \in Commands : Exec(s)

Clean == StartCleanup \/ RemovePath \/ EndCleanup \/ Finish

Close == CloseWaited \/ StopWaiting \/ EndTransport

Next ==
    \/ Work \/ Clean \/ Close
    \/ Opened \/ Exit \/ ForceClose \/ AbandonedToolWrites \/ Resolve \/ ConflictTimeout
    \/ CancelOperation \/ Expire \/ LoseTransport \/ CloseSession
    \/ \E e \in Entry : ForeignFile(e)

Spec == Init /\ [][Next]_vars

\* The code's own steps and timers.  Nothing is asked of the server, the tool or
\* the user: requests may stay unanswered, but not beyond the transport.
Fairness ==
    /\ WF_vars(Stop) /\ WF_vars(StartCleanup) /\ WF_vars(Finish)
    /\ WF_vars((~up \/ forced) /\ (RemovePath \/ EndCleanup))
    /\ WF_vars(Opened) /\ WF_vars(ForceClose)
    /\ WF_vars(CloseWaited) /\ WF_vars(StopWaiting) /\ WF_vars(EndTransport)

FairSpec == Spec /\ Fairness

-----------------------------------------------------------------------------
(* Properties.                                                             *)

TypeOK ==
    /\ pc \in Working \cup {"finally", "cleaning", "cleaned", "done"}
    /\ entry \in Entry \cup {None}
    /\ remaining \subseteq Entry /\ staged \subseteq Entry /\ kept \subseteq Entry
    /\ registered \cup present \cup cleanup.todo \subseteq Temp
    /\ channel # "none" => pc \in Commands
    /\ result # "none" <=> pc = "done"

\* An operation that reports success has put every entry in its place, under its
\* own name or a numbered one, and keeps no temporary path and no provisional
\* directory, whatever was cancelled or closed while it committed.
SuccessIsComplete ==
    result = "succeeded" =>
        /\ remaining = {} /\ registered = {} /\ ~provisional
        /\ IF kind = "compress" THEN dest[Archive] = "new"
           ELSE \A e \in Entry : dest[e] = "new" \/ e \in kept

\* A temporary path on the server is one the operation will clean up, except for
\* what the code cannot know of: a directory whose creation is not answered yet
\* or was not waited for any longer, the output of a tool that ignored its signal, and that of one
\* that a closing session no longer waits for.
LeftoversAreKnown ==
    \A t \in present \ registered :
        \/ ~up
        \/ t = "staging" /\ (forced \/ (pc = "stage" /\ request = "ok"))
        \/ t # "staging" /\ (tool = "abandoned" \/ closer \notin {"none", "waiting"})

\* An operation that ends as a success or as cancelled, on a session nobody is
\* closing, leaves nothing temporary behind, and no empty directory it made.
EndedIsClean ==
    (result \in {"succeeded", "cancelled"} /\ closer = "none") =>
        /\ registered = {} /\ ~provisional
        /\ up /\ tool # "abandoned" =>
               present = {} /\ (made => \E e \in Entry : dest[e] # "absent" \/ e \in kept)

ArchiveIsSafe == TypeOK /\ SuccessIsComplete /\ LeftoversAreKnown /\ EndedIsClean

\* What the destination held when the operation began is replaced only when the
\* user was asked and chose to overwrite: not after a timeout, a cancellation, or
\* a conflict kept beside.
OnlyTheAgreedIsReplaced ==
    [][\A e \in Entry : dest[e] = "old" /\ dest'[e] # "old" => agreed]_vars

\* A deadline ends the operation and a cancellation ends the command it finds or
\* that is still being opened, without an answer from the server.
EveryStopTakesEffect ==
    /\ forced ~> (result # "none")
    /\ (cancel /\ channel # "none") ~> (channel = "none")

\* Closing a session ends its transport without waiting for the operation, its
\* tool or its cleanup to come to an end.
CloseEnds == (closer = "waiting") ~> (closer = "ended")

\* What sftp-file-system.md says of a cancelled operation: it reaches that state
\* only after command termination and cleanup.  The cleanup that a closing
\* session has begun, and that the operation joins, does not know of a staging
\* directory that was registered since.
CancelledMeansClean == result = "cancelled" => registered = {}

=============================================================================
