---------------------- MODULE ArchiveOperationProofs ------------------------
(***************************************************************************)
(* One archive operation is safe with every set of entries, however its    *)
(* requests, its tool, cancellation, deadline, transport and the close of  *)
(* its session interleave.                                                 *)
(***************************************************************************)
EXTENDS ArchiveOperation, TLAPS

-----------------------------------------------------------------------------
(* The invariant.                                                          *)

\* The steps of the runner after its work: its catch and its finally.
Over == {"finally", "cleaning", "cleaned", "done"}
\* The terminal states an operation may report.
Endings == {"succeeded", "cancelled", "failed"}
\* The closing session no longer waits for the operation.
Late == closer \notin {"none", "waiting"}

\* The types of the runner.
RunnerTypes ==
    /\ kind \in {"extract", "compress"} /\ whole \in BOOLEAN
    /\ pc \in Working \cup Over
    /\ entry \in Entry \cup {None} /\ remaining \subseteq Entry
    /\ decision \in {"none", "overwrite", "keep-both"}
    /\ request \in {"none", "ok", "removed", "refused"}
    /\ verdict \in Endings \cup {"none"} /\ result \in Endings \cup {"none"}

\* The types of the exec channel, of the tool and of closeSession.
CommandTypes ==
    /\ channel \in {"none", "opening", "open", "signalled"}
    /\ tool \in {"none", "running", "abandoned"}
    /\ closer \in {"none", "waiting", "cleaning", "ending", "ended"}

\* The flags.
FlagTypes ==
    /\ cancel \in BOOLEAN /\ forced \in BOOLEAN /\ closed \in BOOLEAN /\ up \in BOOLEAN
    /\ made \in BOOLEAN /\ agreed \in BOOLEAN

\* The types of the registered paths and of the shared cleanup.
BookTypes ==
    /\ registered \subseteq Temp /\ provisional \in BOOLEAN
    /\ cleanup \in [on : BOOLEAN, todo : SUBSET Temp, ok : BOOLEAN]

\* The types of what is on the server.
ServerTypes ==
    /\ present \subseteq Temp /\ staged \subseteq Entry /\ kept \subseteq Entry
    /\ dest \in [Entry -> {"absent", "old", "new", "foreign"}]

\* Every variable's.
ArchiveTypes == RunnerTypes /\ CommandTypes /\ FlagTypes /\ BookTypes /\ ServerTypes

\* Which verdict, request, channel and kind of operation go with a step of
\* the runner. An abandoned tool is one whose command nobody waits for.
Steps ==
    /\ verdict = "none" <=> pc \in Working
    /\ result = IF pc = "done" THEN verdict ELSE "none"
    /\ channel # "none" => pc \in Commands /\ request = "none"
    /\ request # "none" => pc \in {"submit", "mkdir", "stage", "unlink", "commit", "swap", "unstage"}
    /\ request = "removed" => pc = "commit"
    /\ tool = "abandoned" => pc \in Over
    /\ pc \in {"compress", "check", "submit"} => kind = "compress"
    /\ pc \in {"mkdir", "expand", "stage", "extract", "unlink", "verify", "scan", "awaiting", "commit",
               "swap", "unstage"} => kind = "extract"

\* The steps at which a path can be registered, what a command has registered
\* before it runs, and when a cleanup goes on.
Books ==
    /\ "tar" \in registered => pc \in {"expand", "stage", "extract", "unlink", "compress"} \cup Over
    /\ "output" \in registered => pc \in {"compress", "check", "submit"} \cup Over
    /\ "staging" \in registered =>
         pc \in {"extract", "unlink", "verify", "scan", "awaiting", "commit", "swap", "unstage"} \cup Over
    /\ kind = "compress" => ~provisional
    /\ channel # "none" => OutputOf(pc) \subseteq registered \/ Late
    /\ cleanup.on => pc = "cleaning" \/ Late
    /\ pc = "cleaning" => cleanup.on

\* Who may have closed the session for new work; a session is closed by a
\* closer or without its transport.
Closing ==
    /\ closer # "none" => closed
    /\ forced => closed
    /\ closed /\ closer = "none" => ~up

\* What an acknowledgement that is still on its way has done on the server.
Sent ==
    request = "ok" =>
      /\ pc = "unlink" => "tar" \notin present
      /\ pc = "unstage" => "staging" \notin present
      /\ pc = "submit" => "output" \notin present /\ dest[Archive] = "new"
      /\ pc = "commit" /\ whole => "staging" \notin present /\ kept = Entry
      /\ pc \in {"commit", "swap"} /\ ~whole => dest[entry] = "new" \/ entry \in kept

\* The entry is under its own name or a numbered one.
InPlace(e) == dest[e] = "new" \/ e \in kept

\* What is in place after so many commits, what a chosen success stands for,
\* and that overwriting was agreed unless there was nothing to overwrite.
Commits ==
    /\ kind = "extract" /\ ~whole => \A e \in Entry \ remaining : InPlace(e)
    /\ pc = "unstage" => remaining = {} /\ ~whole
    /\ pc = "swap" => ~whole
    /\ /\ whole /\ ~closed
       /\ \/ pc \in {"unlink", "verify", "scan", "awaiting"}
          \/ pc = "commit" /\ request = "none"
       => staged = Entry
    /\ verdict = "succeeded" =>
         /\ remaining = {} /\ registered = {} /\ ~provisional
         /\ IF kind = "compress" THEN dest[Archive] = "new" ELSE \A e \in Entry : InPlace(e)
    /\ decision = "overwrite" /\ ~whole => agreed \/ \A e \in Entry : dest[e] # "old"

\* Something is in the destination.
Holds == \E e \in Entry : dest[e] # "absent" \/ e \in kept

\* What an operation no close has met owes the server when it ends: a cleanup
\* that has not failed knows every registered path, an ending without failure
\* has nothing registered, and a directory that was made is known or holds
\* something.
Leaves ==
    closer = "none" =>
      /\ pc = "cleaning" /\ cleanup.ok => registered \subseteq cleanup.todo
      /\ pc \in {"cleaned", "done"} /\ verdict # "failed" => registered = {} /\ ~provisional
      /\ made /\ up /\ tool # "abandoned" =>
           \/ provisional
           \/ pc = "mkdir" /\ request = "ok"
           \/ pc \in Over /\ (Holds \/ verdict = "failed")

\* The inductive invariant. ArchiveIsSafe alone is not inductive: that a
\* leftover is known follows from what was sent and what is registered at
\* each step, that a success is complete from what each commit put in place,
\* and that an ending is clean from what its cleanup knew.
ArchiveInv == ArchiveTypes /\ Steps /\ Books /\ Closing /\ Sent /\ LeftoversAreKnown /\ Commits /\ Leaves

-----------------------------------------------------------------------------
(* The shared cleanup.                                                     *)

\* cleanupTemporaryPaths returns an attempt that goes on, a new one with what
\* is registered.
LEMMA StartedFields ==
  ASSUME BookTypes
  PROVE  /\ Started \in [on : BOOLEAN, todo : SUBSET Temp, ok : BOOLEAN]
         /\ Started.on
         /\ ~cleanup.on => Started.todo = registered
<1>1. CASE cleanup.on
  BY <1>1 DEF Started, BookTypes
<1>2. CASE ~cleanup.on
  BY <1>2 DEF Started, BookTypes
<1> QED
  BY <1>1, <1>2

\* One removal changes what is left to do of the attempt, and a failure its
\* outcome.
LEMMA RemovedFields ==
  ASSUME BookTypes, NEW t \in cleanup.todo, NEW left \in SUBSET cleanup.todo, NEW c,
         \/ c = [cleanup EXCEPT !.todo = left]
         \/ c = [cleanup EXCEPT !.todo = left, !.ok = FALSE]
  PROVE  /\ c \in [on : BOOLEAN, todo : SUBSET Temp, ok : BOOLEAN]
         /\ c.on = cleanup.on /\ c.todo = left
         /\ c.ok => cleanup.ok /\ c = [cleanup EXCEPT !.todo = left]
<1>0. cleanup \in [on : BOOLEAN, todo : SUBSET Temp, ok : BOOLEAN] /\ left \subseteq Temp
  BY DEF BookTypes
<1>1. CASE c = [cleanup EXCEPT !.todo = left]
  BY <1>0, <1>1
<1>2. CASE c = [cleanup EXCEPT !.todo = left, !.ok = FALSE]
  BY <1>0, <1>2
<1> QED
  BY <1>1, <1>2

\* removeRemoteTree takes one path off the attempt and, unless it failed, off
\* the registered ones.
LEMMA RemovePathBooks ==
  ASSUME BookTypes, RemovePath
  PROVE  /\ BookTypes'
         /\ cleanup'.on = cleanup.on
         /\ registered' \subseteq registered /\ provisional' = provisional
         /\ cleanup'.ok =>
              /\ cleanup.ok
              /\ \E t \in Temp : cleanup'.todo = cleanup.todo \ {t} /\ registered' = registered \ {t}
<1>1. PICK t \in cleanup.todo :
          /\ \/ /\ registered' = registered \ {t}
                /\ cleanup' = [cleanup EXCEPT !.todo = cleanup.todo \ {t}]
             \/ /\ cleanup' = [cleanup EXCEPT !.todo = IF forced THEN {} ELSE cleanup.todo \ {t},
                                              !.ok = FALSE]
                /\ registered' = registered
          /\ provisional' = provisional
  BY DEF RemovePath, books
<1>2. CASE registered' = registered \ {t} /\ cleanup' = [cleanup EXCEPT !.todo = cleanup.todo \ {t}]
  BY <1>1, <1>2, RemovedFields DEF BookTypes
<1>3. CASE /\ cleanup' = [cleanup EXCEPT !.todo = IF forced THEN {} ELSE cleanup.todo \ {t},
                                         !.ok = FALSE]
           /\ registered' = registered
  <2> DEFINE left == IF forced THEN {} ELSE cleanup.todo \ {t}
  <2>1. left \in SUBSET cleanup.todo
    OBVIOUS
  <2>2. cleanup' = [cleanup EXCEPT !.todo = left, !.ok = FALSE]
    BY <1>3
  <2>3. cleanup'.ok = FALSE
    BY <2>2 DEF BookTypes
  <2> HIDE DEF left
  <2>4. /\ cleanup' \in [on : BOOLEAN, todo : SUBSET Temp, ok : BOOLEAN]
        /\ cleanup'.on = cleanup.on
    BY <2>1, <2>2, RemovedFields
  <2> QED
    BY <1>1, <1>3, <2>3, <2>4 DEF BookTypes
<1> QED
  BY <1>1, <1>2, <1>3

-----------------------------------------------------------------------------
(* The runner's steps.                                                     *)

\* Steps that look at the server or at the user's answer and choose how to go
\* on.
LEMMA ReadsKeeps ==
  ASSUME ArchiveInv, Begin \/ CheckTarget \/ Verify \/ Scan \/ Resolve \/ ConflictTimeout
  PROVE  ArchiveInv'
<1>0. ArchiveTypes /\ Steps /\ Books /\ Closing /\ Sent /\ LeftoversAreKnown /\ Commits /\ Leaves
  BY DEF ArchiveInv
<1>1. RunnerTypes'
  BY <1>0 DEF RunnerTypes, Over, Endings, Working, ArchiveTypes, Begin, CheckTarget, Verify,
     Scan, Resolve, ConflictTimeout, Finally
<1>2. CommandTypes'
  BY <1>0 DEF CommandTypes, ArchiveTypes, Begin, CheckTarget, Verify, Scan, Resolve,
     ConflictTimeout, command, ends
<1>3. FlagTypes'
  BY <1>0 DEF FlagTypes, ArchiveTypes, Begin, CheckTarget, Verify, Scan, Resolve,
     ConflictTimeout, ends, server
<1>4. BookTypes'
  BY <1>0 DEF BookTypes, ArchiveTypes, Begin, CheckTarget, Verify, Scan, Resolve,
     ConflictTimeout, books
<1>5. ServerTypes'
  BY <1>0 DEF ServerTypes, ArchiveTypes, Begin, CheckTarget, Verify, Scan, Resolve,
     ConflictTimeout, server
<1>6. Steps'
  BY <1>0 DEF Steps, Over, Working, Begin, CheckTarget, Verify, Scan, Resolve,
     ConflictTimeout, At, Finally, command
<1>7. Books'
  BY <1>0 DEF Books, Late, Over, Begin, CheckTarget, Verify, Scan, Resolve, ConflictTimeout,
     At, Finally, command, books, ends
<1>8. Closing'
  BY <1>0 DEF Closing, Begin, CheckTarget, Verify, Scan, Resolve, ConflictTimeout, ends
<1>9. Sent'
  BY <1>0 DEF Sent, Begin, CheckTarget, Verify, Scan, Resolve, ConflictTimeout, At, Finally
<1>10. LeftoversAreKnown'
  BY <1>0 DEF LeftoversAreKnown, Begin, CheckTarget, Verify, Scan, Resolve, ConflictTimeout,
     At, command, books, ends, server
<1>11. Commits'
  BY <1>0 DEF Commits, InPlace, ArchiveTypes, FlagTypes, Begin, CheckTarget, Verify, Scan,
     Resolve, ConflictTimeout, At, Finally, Conflicts, books, ends, server
<1>12. Leaves'
  BY <1>0 DEF Leaves, Steps, Over, Begin, CheckTarget, Verify, Scan, Resolve,
     ConflictTimeout, At, Finally, books, ends, server
<1> QED
  BY <1>1, <1>2, <1>3, <1>4, <1>5, <1>6, <1>7, <1>8, <1>9, <1>10, <1>11, <1>12 DEF
     ArchiveInv, ArchiveTypes

\* Requests, but for the commit of one entry, taking effect or refused.
LEMMA SendsKeeps ==
  ASSUME ArchiveInv, Submit \/ MakeDestination \/ MakeStaging \/ UnlinkTar \/ CommitWhole
                  \/ Swap \/ RemoveStaging
  PROVE  ArchiveInv'
<1>0. ArchiveTypes /\ Steps /\ Books /\ Closing /\ Sent /\ LeftoversAreKnown /\ Commits /\ Leaves
  BY DEF ArchiveInv
<1>1. RunnerTypes'
  BY <1>0 DEF RunnerTypes, Working, ArchiveTypes, Submit, MakeDestination, MakeStaging,
     UnlinkTar, CommitWhole, Swap, RemoveStaging, Send, Refuse
<1>2. CommandTypes'
  BY <1>0 DEF CommandTypes, ArchiveTypes, Submit, MakeDestination, MakeStaging, UnlinkTar,
     CommitWhole, Swap, RemoveStaging, command, ends
<1>3. FlagTypes'
  BY <1>0 DEF FlagTypes, ArchiveTypes, Submit, MakeDestination, MakeStaging, UnlinkTar,
     CommitWhole, Swap, RemoveStaging, Refuse, Renamed, ends, server
<1>4. BookTypes'
  BY <1>0 DEF BookTypes, ArchiveTypes, Submit, MakeDestination, MakeStaging, UnlinkTar,
     CommitWhole, Swap, RemoveStaging, books
<1>5. ServerTypes'
  BY <1>0 DEF ServerTypes, Temp, ArchiveTypes, Submit, MakeDestination, MakeStaging,
     UnlinkTar, CommitWhole, Swap, RemoveStaging, Refuse, Renamed, server
<1>6. Steps'
  BY <1>0 DEF Steps, Over, Working, Submit, MakeDestination, MakeStaging, UnlinkTar,
     CommitWhole, Swap, RemoveStaging, At, Send, Refuse, command
<1>7. Books'
  BY <1>0 DEF Books, Late, Over, Submit, MakeDestination, MakeStaging, UnlinkTar,
     CommitWhole, Swap, RemoveStaging, At, command, books, ends
<1>8. Closing'
  BY <1>0 DEF Closing, Submit, MakeDestination, MakeStaging, UnlinkTar, CommitWhole, Swap,
     RemoveStaging, ends
<1>9. Sent'
  <2>1. CASE Submit
    BY <1>0, <2>1, ArchiveIsAnEntry DEF Sent, ArchiveTypes, ServerTypes, Submit, At, Refuse
  <2>2. CASE MakeDestination
    BY <2>2 DEF Sent, MakeDestination, At
  <2>3. CASE MakeStaging
    BY <2>3 DEF Sent, MakeStaging, At
  <2>4. CASE UnlinkTar
    BY <2>4 DEF Sent, UnlinkTar, At, Refuse
  <2>5. CASE CommitWhole
    BY <1>0, <2>5 DEF Sent, Commits, Working, CommitWhole, At, Active, Refuse, Guarded
  <2>6. CASE Swap
    BY <1>0, <2>6 DEF Sent, ArchiveTypes, ServerTypes, Swap, At, Refuse, Renamed
  <2>7. CASE RemoveStaging
    BY <2>7 DEF Sent, RemoveStaging, At, Refuse
  <2> QED
    BY <2>1, <2>2, <2>3, <2>4, <2>5, <2>6, <2>7
<1>10. LeftoversAreKnown'
  BY <1>0 DEF LeftoversAreKnown, Late, Books, Closing, Sent, Submit, MakeDestination,
     MakeStaging, UnlinkTar, CommitWhole, Swap, RemoveStaging, At, Send, Refuse, Renamed,
     command, books, ends, server
<1>11. Commits'
  BY <1>0 DEF Commits, InPlace, Steps, ArchiveTypes, ServerTypes, Working, Submit,
     MakeDestination, MakeStaging, UnlinkTar, CommitWhole, Swap, RemoveStaging, At, Send,
     Refuse, Renamed, ends, server
<1>12. Leaves'
  BY <1>0 DEF Leaves, Steps, Over, Submit, MakeDestination, MakeStaging, UnlinkTar,
     CommitWhole, Swap, RemoveStaging, At, Send, Refuse, Renamed, books, ends, server
<1> QED
  BY <1>1, <1>2, <1>3, <1>4, <1>5, <1>6, <1>7, <1>8, <1>9, <1>10, <1>11, <1>12 DEF
     ArchiveInv, ArchiveTypes

\* The first request for one entry: it is put in place, kept beside, or the
\* old one is removed.
LEMMA CommitEntryKeeps ==
  ASSUME ArchiveInv, CommitEntry
  PROVE  ArchiveInv'
<1>0. ArchiveTypes /\ Steps /\ Books /\ Closing /\ Sent /\ LeftoversAreKnown /\ Commits /\ Leaves
  BY DEF ArchiveInv
<1>1. RunnerTypes'
  BY <1>0 DEF RunnerTypes, ArchiveTypes, CommitEntry, Send, Refuse, Placed
<1>2. CommandTypes'
  BY <1>0 DEF CommandTypes, ArchiveTypes, CommitEntry, command, ends
<1>3. FlagTypes'
  BY <1>0 DEF FlagTypes, ArchiveTypes, CommitEntry, Refuse, Renamed, KeptBeside, Removed,
     Placed, ends, server
<1>4. BookTypes'
  BY <1>0 DEF BookTypes, ArchiveTypes, CommitEntry, books
<1>5. ServerTypes'
  BY <1>0 DEF ServerTypes, ArchiveTypes, CommitEntry, Refuse, Renamed, KeptBeside, Removed,
     Placed, server
<1>6. Steps'
  BY <1>0 DEF Steps, CommitEntry, At, command
<1>7. Books'
  BY <1>0 DEF Books, Late, OutputOf, CommitEntry, At, books, ends
<1>8. Closing'
  BY <1>0 DEF Closing, CommitEntry, ends
<1>9. Sent'
  BY <1>0 DEF Sent, ArchiveTypes, ServerTypes, CommitEntry, At, Refuse, Renamed, KeptBeside,
     Placed
<1>10. LeftoversAreKnown'
  BY <1>0 DEF LeftoversAreKnown, CommitEntry, At, Refuse, Renamed, KeptBeside, Removed,
     Placed, command, books, ends, server
<1>11. Commits'
  BY <1>0 DEF Commits, InPlace, ArchiveTypes, ServerTypes, CommitEntry, Refuse, Renamed,
     KeptBeside, Removed, Placed, server
<1>12. Leaves'
  BY <1>0 DEF Leaves, Steps, Over, CommitEntry, At, Refuse, Renamed, KeptBeside, Removed,
     Placed, books, ends, server
<1> QED
  BY <1>1, <1>2, <1>3, <1>4, <1>5, <1>6, <1>7, <1>8, <1>9, <1>10, <1>11, <1>12 DEF
     ArchiveInv, ArchiveTypes

\* Answers to requests: paths are registered and forgotten, commits counted,
\* success chosen.
LEMMA AnswersKeeps ==
  ASSUME ArchiveInv, Submitted \/ DestinationMade \/ StagingMade \/ TarUnlinked
                  \/ WholeCommitted \/ EntryCommitted \/ Swapped \/ StagingRemoved
  PROVE  ArchiveInv'
<1>0. ArchiveTypes /\ Steps /\ Books /\ Closing /\ Sent /\ LeftoversAreKnown /\ Commits /\ Leaves
  BY DEF ArchiveInv
<1>1. RunnerTypes'
  BY <1>0 DEF RunnerTypes, Over, Endings, Working, ArchiveTypes, Submitted, DestinationMade,
     StagingMade, TarUnlinked, WholeCommitted, EntryCommitted, Swapped, StagingRemoved,
     Finally, OnToTheNext
<1>2. CommandTypes'
  BY <1>0 DEF CommandTypes, ArchiveTypes, Submitted, DestinationMade, StagingMade,
     TarUnlinked, WholeCommitted, EntryCommitted, Swapped, StagingRemoved, command, ends
<1>3. FlagTypes'
  BY <1>0 DEF FlagTypes, ArchiveTypes, Submitted, DestinationMade, StagingMade, TarUnlinked,
     WholeCommitted, EntryCommitted, Swapped, StagingRemoved, ends, server
<1>4. BookTypes'
  BY <1>0 DEF BookTypes, Temp, ArchiveTypes, Submitted, DestinationMade, StagingMade,
     TarUnlinked, WholeCommitted, EntryCommitted, Swapped, StagingRemoved, books
<1>5. ServerTypes'
  BY <1>0 DEF ServerTypes, ArchiveTypes, Submitted, DestinationMade, StagingMade,
     TarUnlinked, WholeCommitted, EntryCommitted, Swapped, StagingRemoved, server
<1>6. Steps'
  BY <1>0 DEF Steps, Over, Working, Submitted, DestinationMade, StagingMade, TarUnlinked,
     WholeCommitted, EntryCommitted, Swapped, StagingRemoved, Answered, Finally,
     OnToTheNext, command
<1>7. Books'
  BY <1>0 DEF Books, Steps, Late, Over, Submitted, DestinationMade, StagingMade,
     TarUnlinked, WholeCommitted, EntryCommitted, Swapped, StagingRemoved, Answered,
     Finally, OnToTheNext, command, books, ends
<1>8. Closing'
  BY <1>0 DEF Closing, Submitted, DestinationMade, StagingMade, TarUnlinked, WholeCommitted,
     EntryCommitted, Swapped, StagingRemoved, ends
<1>9. Sent'
  BY <1>0 DEF Sent, Submitted, DestinationMade, StagingMade, TarUnlinked, WholeCommitted,
     EntryCommitted, Swapped, StagingRemoved, Finally, OnToTheNext
<1>10. LeftoversAreKnown'
  <2>1. CASE Submitted
    BY <1>0, <2>1 DEF LeftoversAreKnown, Sent, Submitted, Answered, command, ends, server
  <2>2. CASE DestinationMade
    BY <1>0, <2>2 DEF LeftoversAreKnown, DestinationMade, Answered, command, ends, server
  <2>3. CASE StagingMade
    BY <1>0, <2>3 DEF LeftoversAreKnown, StagingMade, command, ends, server
  <2>4. CASE TarUnlinked
    BY <1>0, <2>4 DEF LeftoversAreKnown, Sent, TarUnlinked, Answered, command, ends, server
  <2>5. CASE WholeCommitted
    BY <1>0, <2>5 DEF LeftoversAreKnown, Sent, WholeCommitted, Answered, command, ends,
       server
  <2>6. CASE EntryCommitted
    BY <1>0, <2>6 DEF LeftoversAreKnown, EntryCommitted, Answered, command, books, ends,
       server
  <2>7. CASE Swapped
    BY <1>0, <2>7 DEF LeftoversAreKnown, Swapped, Answered, command, books, ends, server
  <2>8. CASE StagingRemoved
    BY <1>0, <2>8 DEF LeftoversAreKnown, Sent, StagingRemoved, Answered, command, ends,
       server
  <2> QED
    BY <2>1, <2>2, <2>3, <2>4, <2>5, <2>6, <2>7, <2>8
<1>11. Commits'
  <2>1. CASE Submitted
    <3>1. kind = "compress" /\ ~provisional /\ registered \subseteq {"output"}
      BY <1>0, <2>1 DEF Submitted, Answered, Steps, Books, ArchiveTypes, BookTypes, Temp,
         Over
    <3>2. dest[Archive] = "new"
      BY <1>0, <2>1 DEF Submitted, Answered, Sent
    <3> QED
      BY <1>0, <2>1, <3>1, <3>2 DEF Commits, Submitted, Finally, server
  <2>2. CASE DestinationMade
    BY <1>0, <2>2 DEF Commits, InPlace, Steps, Working, DestinationMade, Answered, server
  <2>3. CASE StagingMade
    BY <1>0, <2>3 DEF Commits, InPlace, Steps, Working, StagingMade, Answered, server
  <2>4. CASE TarUnlinked
    BY <1>0, <2>4 DEF Commits, InPlace, TarUnlinked, Answered, ends, server
  <2>5. CASE WholeCommitted
    <3>1. kind = "extract" /\ registered \subseteq {"staging"}
      BY <1>0, <2>5 DEF WholeCommitted, Answered, Steps, Books, ArchiveTypes, BookTypes,
         Temp, Over
    <3>2. kept = Entry
      BY <1>0, <2>5 DEF WholeCommitted, Answered, Sent
    <3> QED
      BY <2>5, <3>1, <3>2 DEF Commits, InPlace, WholeCommitted, Finally, server
  <2>6. CASE EntryCommitted
    BY <1>0, <2>6 DEF Commits, InPlace, Sent, EntryCommitted, Answered, OnToTheNext, books,
       server
  <2>7. CASE Swapped
    BY <1>0, <2>7 DEF Commits, InPlace, Sent, Swapped, Answered, OnToTheNext, books, server
  <2>8. CASE StagingRemoved
    <3>1. kind = "extract" /\ registered \subseteq {"staging"}
      BY <1>0, <2>8 DEF StagingRemoved, Answered, Steps, Books, ArchiveTypes, BookTypes,
         Temp, Over
    <3>2. remaining = {} /\ \A e \in Entry : InPlace(e)
      BY <1>0, <3>1, <2>8 DEF StagingRemoved, Answered, Commits
    <3> QED
      BY <1>0, <2>8, <3>1, <3>2 DEF Commits, InPlace, StagingRemoved, Finally, server
  <2> QED
    BY <2>1, <2>2, <2>3, <2>4, <2>5, <2>6, <2>7, <2>8
<1>12. Leaves'
  BY <1>0, ArchiveIsAnEntry DEF Leaves, Holds, InPlace, Commits, Sent, Steps, Over,
     Submitted, DestinationMade, StagingMade, TarUnlinked, WholeCommitted, EntryCommitted,
     Swapped, StagingRemoved, Answered, Finally, OnToTheNext, books, ends, server
<1> QED
  BY <1>1, <1>2, <1>3, <1>4, <1>5, <1>6, <1>7, <1>8, <1>9, <1>10, <1>11, <1>12 DEF
     ArchiveInv, ArchiveTypes

\* A refused request, a guard or a lost answer ends the work.
LEMMA FailsKeeps ==
  ASSUME ArchiveInv, Refused \/ Stop
  PROVE  ArchiveInv'
<1>0. ArchiveTypes /\ Steps /\ Books /\ Closing /\ Sent /\ LeftoversAreKnown /\ Commits /\ Leaves
  BY DEF ArchiveInv
<1>1. RunnerTypes'
  BY <1>0 DEF RunnerTypes, Over, Endings, ArchiveTypes, Refused, Stop, Finally, Thrown
<1>2. CommandTypes'
  BY <1>0 DEF CommandTypes, ArchiveTypes, Refused, Stop, command, ends
<1>3. FlagTypes'
  BY <1>0 DEF FlagTypes, ArchiveTypes, Refused, Stop, ends, server
<1>4. BookTypes'
  BY <1>0 DEF BookTypes, ArchiveTypes, Refused, Stop, books
<1>5. ServerTypes'
  BY <1>0 DEF ServerTypes, ArchiveTypes, Refused, Stop, server
<1>6. Steps'
  BY <1>0 DEF Steps, Over, Working, Refused, Stop, Finally, Thrown, command
<1>7. Books'
  BY <1>0 DEF Books, Steps, Late, OutputOf, Over, Working, Refused, Stop, Finally, Thrown,
     books, ends
<1>8. Closing'
  BY <1>0 DEF Closing, Refused, Stop, Thrown, ends
<1>9. Sent'
  BY <1>0 DEF Sent, Refused, Stop, Finally
<1>10. LeftoversAreKnown'
  BY <1>0 DEF LeftoversAreKnown, Steps, Over, Working, Refused, Stop, Thrown, books, ends,
     server
<1>11. Commits'
  BY <1>0 DEF Commits, InPlace, Refused, Stop, Finally, Thrown, server
<1>12. Leaves'
  BY <1>0 DEF Leaves, Steps, Over, Working, Refused, Stop, Finally, Thrown, books, ends,
     server
<1> QED
  BY <1>1, <1>2, <1>3, <1>4, <1>5, <1>6, <1>7, <1>8, <1>9, <1>10, <1>11, <1>12 DEF
     ArchiveInv, ArchiveTypes

-----------------------------------------------------------------------------
(* Remote commands.                                                        *)

\* A remote command is sent, starts, is abandoned, or writes after that.
LEMMA CommandKeeps ==
  ASSUME ArchiveInv, (\E s \in Commands : Exec(s)) \/ Opened \/ ForceClose
                  \/ AbandonedToolWrites
  PROVE  ArchiveInv'
<1>0. ArchiveTypes /\ Steps /\ Books /\ Closing /\ Sent /\ LeftoversAreKnown /\ Commits /\ Leaves
  BY DEF ArchiveInv
<1>1. RunnerTypes'
  BY <1>0 DEF RunnerTypes, Over, Endings, ArchiveTypes, Exec, Opened, ForceClose,
     AbandonedToolWrites, Finally, Thrown, runner
<1>2. CommandTypes'
  BY <1>0 DEF CommandTypes, ArchiveTypes, Exec, Opened, ForceClose, AbandonedToolWrites,
     command, ends
<1>3. FlagTypes'
  BY <1>0 DEF FlagTypes, ArchiveTypes, Exec, Opened, ForceClose, AbandonedToolWrites,
     Writes, ends, server
<1>4. BookTypes'
  BY <1>0 DEF BookTypes, Temp, ArchiveTypes, Exec, Opened, ForceClose, AbandonedToolWrites,
     OutputOf, books
<1>5. ServerTypes'
  BY <1>0 DEF ServerTypes, Temp, ArchiveTypes, Exec, Opened, ForceClose,
     AbandonedToolWrites, Writes, OutputOf, server
<1>6. Steps'
  BY <1>0 DEF Steps, Over, Working, Commands, Exec, Opened, ForceClose, AbandonedToolWrites,
     At, Finally, Thrown, runner, command
<1>7. Books'
  BY <1>0 DEF Books, Steps, Late, OutputOf, Over, Commands, Exec, Opened, ForceClose,
     AbandonedToolWrites, At, Finally, Thrown, runner, books, ends
<1>8. Closing'
  BY <1>0 DEF Closing, Exec, Opened, ForceClose, AbandonedToolWrites, Thrown, ends
<1>9. Sent'
  BY <1>0 DEF Sent, Steps, Over, Exec, Opened, ForceClose, AbandonedToolWrites, At, Finally,
     runner
<1>10. LeftoversAreKnown'
  BY <1>0 DEF LeftoversAreKnown, Late, Steps, Books, Closing, Sent, Over, Exec, Opened,
     ForceClose, AbandonedToolWrites, At, Thrown, Writes, OutputOf, Commands, command,
     books, ends, server
<1>11. Commits'
  BY <1>0 DEF Commits, InPlace, Steps, Working, Exec, Opened, ForceClose,
     AbandonedToolWrites, At, Finally, Thrown, Writes, OutputOf, runner, books, ends,
     server
<1>12. Leaves'
  BY <1>0 DEF Leaves, Steps, Over, Exec, Opened, ForceClose, AbandonedToolWrites, At,
     Finally, Commands, runner, command, books, ends, server
<1> QED
  BY <1>1, <1>2, <1>3, <1>4, <1>5, <1>6, <1>7, <1>8, <1>9, <1>10, <1>11, <1>12 DEF
     ArchiveInv, ArchiveTypes

\* A remote command ends. What it wrote is among the names registered before
\* it ran, unless a closing session has cleaned them already.
LEMMA ExitKeeps ==
  ASSUME ArchiveInv, Exit
  PROVE  ArchiveInv'
<1>0. ArchiveTypes /\ Steps /\ Books /\ Closing /\ Sent /\ LeftoversAreKnown /\ Commits /\ Leaves
  BY DEF ArchiveInv
<1>1. RunnerTypes'
  BY <1>0 DEF RunnerTypes, Over, Endings, Working, ArchiveTypes, Exit, Finally, Thrown
<1>2. CommandTypes'
  BY <1>0 DEF CommandTypes, ArchiveTypes, Exit, ends
<1>3. FlagTypes'
  BY <1>0 DEF FlagTypes, ArchiveTypes, Exit, Writes, ends
<1>4. BookTypes'
  BY <1>0 DEF BookTypes, ArchiveTypes, Exit
<1>5. ServerTypes'
  BY <1>0 DEF ServerTypes, Temp, ArchiveTypes, Exit, Writes, OutputOf
<1>6. Steps'
  BY <1>0 DEF Steps, Working, Commands, Exit, Finally, Thrown
<1>7. Books'
  BY <1>0 DEF Books, Steps, Late, Over, Commands, Exit, Finally, ends
<1>8. Closing'
  BY <1>0 DEF Closing, Exit, ends
<1>9. Sent'
  BY <1>0 DEF Sent, Steps, Exit, Finally
<1>10. LeftoversAreKnown'
  <2>1. /\ \A t \in present' : t \in present \/ (t \in OutputOf(pc) /\ t # "staging")
        /\ registered' = registered \/ (registered' = registered \ {"tar"} /\ "tar" \notin present')
    BY DEF Exit, Writes, OutputOf
  <2>2. OutputOf(pc) \subseteq registered \/ Late
    BY <1>0 DEF Books, Exit
  <2>3. tool = "running" /\ pc \in Commands /\ up /\ UNCHANGED <<forced, up, closer>>
    BY <1>0 DEF Steps, Exit, ends
  <2> QED
    BY <1>0, <2>1, <2>2, <2>3 DEF LeftoversAreKnown, Late, Commands
<1>11. Commits'
  BY <1>0 DEF Commits, InPlace, Exit, Finally, Thrown, Writes
<1>12. Leaves'
  BY <1>0 DEF Leaves, Steps, Over, Exit, Finally, Writes, Commands, ends
<1> QED
  BY <1>1, <1>2, <1>3, <1>4, <1>5, <1>6, <1>7, <1>8, <1>9, <1>10, <1>11, <1>12 DEF
     ArchiveInv, ArchiveTypes

-----------------------------------------------------------------------------
(* Cleanup.                                                                *)

\* The runner's finally begins or joins a cleanup, and makes the result
\* public.
LEMMA CleanupKeeps ==
  ASSUME ArchiveInv, StartCleanup \/ Finish
  PROVE  ArchiveInv'
<1>0. ArchiveTypes /\ Steps /\ Books /\ Closing /\ Sent /\ LeftoversAreKnown /\ Commits /\ Leaves
  BY DEF ArchiveInv
<1>1. RunnerTypes'
  BY <1>0 DEF RunnerTypes, Over, ArchiveTypes, StartCleanup, Finish
<1>2. CommandTypes'
  BY <1>0 DEF CommandTypes, ArchiveTypes, StartCleanup, Finish, command, ends
<1>3. FlagTypes'
  BY <1>0 DEF FlagTypes, ArchiveTypes, StartCleanup, Finish, ends, server
<1>4. BookTypes'
  <2>1. CASE StartCleanup
    BY <1>0, <2>1 DEF BookTypes, ArchiveTypes, StartCleanup, Started
  <2>2. CASE Finish
    BY <1>0, <2>2 DEF BookTypes, ArchiveTypes, Finish, books
  <2> QED
    BY <2>1, <2>2
<1>5. ServerTypes'
  BY <1>0 DEF ServerTypes, ArchiveTypes, StartCleanup, Finish, server
<1>6. Steps'
  BY <1>0 DEF Steps, Over, Working, Commands, StartCleanup, Finish, command
<1>7. Books'
  BY <1>0 DEF Books, Late, OutputOf, Over, StartCleanup, Finish, Started, books, ends
<1>8. Closing'
  BY <1>0 DEF Closing, StartCleanup, Finish, ends
<1>9. Sent'
  BY <1>0 DEF Sent, StartCleanup, Finish
<1>10. LeftoversAreKnown'
  BY <1>0 DEF LeftoversAreKnown, StartCleanup, Finish, command, books, ends, server
<1>11. Commits'
  BY <1>0 DEF Commits, InPlace, StartCleanup, Finish, books, server
<1>12. Leaves'
  <2>1. CASE StartCleanup
    BY <1>0, <2>1 DEF Leaves, Holds, Books, Over, Late, StartCleanup, Started, command,
       ends, server
  <2>2. CASE Finish
    BY <1>0, <2>2 DEF Leaves, Holds, Over, Finish, command, books, ends, server
  <2> QED
    BY <2>1, <2>2
<1> QED
  BY <1>1, <1>2, <1>3, <1>4, <1>5, <1>6, <1>7, <1>8, <1>9, <1>10, <1>11, <1>12 DEF
     ArchiveInv, ArchiveTypes

\* A cleanup removes one path or fails to.
LEMMA RemovePathKeeps ==
  ASSUME ArchiveInv, RemovePath
  PROVE  ArchiveInv'
<1>0. ArchiveTypes /\ Steps /\ Books /\ Closing /\ Sent /\ LeftoversAreKnown /\ Commits /\ Leaves
  BY DEF ArchiveInv
<1>1. RunnerTypes'
  BY <1>0 DEF RunnerTypes, ArchiveTypes, RemovePath, runner
<1>2. CommandTypes'
  BY <1>0 DEF CommandTypes, ArchiveTypes, RemovePath, command, ends
<1>3. FlagTypes'
  BY <1>0 DEF FlagTypes, ArchiveTypes, RemovePath, ends
<1>4. BookTypes'
  BY <1>0, RemovePathBooks DEF ArchiveTypes
<1>5. ServerTypes'
  BY <1>0 DEF ServerTypes, ArchiveTypes, RemovePath
<1>6. Steps'
  BY <1>0 DEF Steps, RemovePath, runner, command
<1>7. Books'
  <2>1. /\ cleanup'.on = cleanup.on
        /\ registered' \subseteq registered /\ provisional' = provisional
        /\ cleanup'.ok =>
             /\ cleanup.ok
             /\ \E t \in Temp : cleanup'.todo = cleanup.todo \ {t} /\ registered' = registered \ {t}
    BY <1>0, RemovePathBooks DEF ArchiveTypes
  <2>2. UNCHANGED <<kind, whole, runner, command, provisional, ends, dest, kept, made, agreed>>
    BY DEF RemovePath
  <2>3. cleanup.on
    BY DEF RemovePath
  <2>4. channel = "none" \/ Late
    BY <1>0, <2>3 DEF Books, Steps, Commands
  <2> QED
    BY <1>0, <2>1, <2>2, <2>3, <2>4 DEF Books, Late, runner, command, ends
<1>8. Closing'
  BY <1>0 DEF Closing, RemovePath, ends
<1>9. Sent'
  BY <1>0 DEF Sent, RemovePath, runner
<1>10. LeftoversAreKnown'
  BY <1>0 DEF LeftoversAreKnown, RemovePath, runner, command, ends
<1>11. Commits'
  BY <1>0 DEF Commits, InPlace, Books, Closing, Late, RemovePath, runner, ends
<1>12. Leaves'
  <2>1. /\ cleanup'.on = cleanup.on
        /\ registered' \subseteq registered /\ provisional' = provisional
        /\ cleanup'.ok =>
             /\ cleanup.ok
             /\ \E t \in Temp : cleanup'.todo = cleanup.todo \ {t} /\ registered' = registered \ {t}
    BY <1>0, RemovePathBooks DEF ArchiveTypes
  <2>2. UNCHANGED <<kind, whole, runner, command, provisional, ends, dest, kept, made, agreed>>
    BY DEF RemovePath
  <2> QED
    BY <1>0, <2>1, <2>2 DEF Leaves, Holds, runner, command, ends
<1> QED
  BY <1>1, <1>2, <1>3, <1>4, <1>5, <1>6, <1>7, <1>8, <1>9, <1>10, <1>11, <1>12 DEF
     ArchiveInv, ArchiveTypes

\* A cleanup is over for those who wait for it.
LEMMA EndCleanupKeeps ==
  ASSUME ArchiveInv, EndCleanup
  PROVE  ArchiveInv'
<1>0. ArchiveTypes /\ Steps /\ Books /\ Closing /\ Sent /\ LeftoversAreKnown /\ Commits /\ Leaves
  BY DEF ArchiveInv
<1>1. RunnerTypes'
  BY <1>0 DEF RunnerTypes, Over, Endings, ArchiveTypes, EndCleanup, Settle
<1>2. CommandTypes'
  BY <1>0 DEF CommandTypes, ArchiveTypes, EndCleanup, Settle, command
<1>3. FlagTypes'
  BY <1>0 DEF FlagTypes, ArchiveTypes, EndCleanup
<1>4. BookTypes'
  BY <1>0 DEF BookTypes, ArchiveTypes, EndCleanup, Settle, NoCleanup
<1>5. ServerTypes'
  BY <1>0 DEF ServerTypes, ArchiveTypes, EndCleanup
<1>6. Steps'
  BY <1>0 DEF Steps, Over, Working, Commands, EndCleanup, Settle, command
<1>7. Books'
  BY <1>0 DEF Books, Late, OutputOf, Over, EndCleanup, Settle, NoCleanup
<1>8. Closing'
  BY <1>0 DEF Closing, EndCleanup, Settle
<1>9. Sent'
  BY <1>0 DEF Sent, EndCleanup, Settle
<1>10. LeftoversAreKnown'
  BY <1>0 DEF LeftoversAreKnown, EndCleanup, Settle, command
<1>11. Commits'
  BY <1>0 DEF Commits, InPlace, EndCleanup, Settle
<1>12. Leaves'
  BY <1>0 DEF Leaves, Holds, LeftoversAreKnown, Books, Closing, Over, Late, EndCleanup,
     Settle, command
<1> QED
  BY <1>1, <1>2, <1>3, <1>4, <1>5, <1>6, <1>7, <1>8, <1>9, <1>10, <1>11, <1>12 DEF
     ArchiveInv, ArchiveTypes

-----------------------------------------------------------------------------
(* What happens to an operation.                                           *)

\* Cancellation, the deadline, the loss of the transport and the close of the
\* session only set flags, whenever they come.
LEMMA EndsKeeps ==
  ASSUME ArchiveInv, CancelOperation \/ Expire \/ LoseTransport \/ CloseSession
  PROVE  ArchiveInv'
<1>0. ArchiveTypes /\ Steps /\ Books /\ Closing /\ Sent /\ LeftoversAreKnown /\ Commits /\ Leaves
  BY DEF ArchiveInv
<1>1. RunnerTypes'
  BY <1>0 DEF RunnerTypes, ArchiveTypes, CancelOperation, Expire, LoseTransport,
     CloseSession, runner
<1>2. CommandTypes'
  BY <1>0 DEF CommandTypes, ArchiveTypes, CancelOperation, Expire, LoseTransport,
     CloseSession, Signalled, command
<1>3. FlagTypes'
  BY <1>0 DEF FlagTypes, ArchiveTypes, CancelOperation, Expire, LoseTransport, CloseSession,
     server
<1>4. BookTypes'
  BY <1>0 DEF BookTypes, ArchiveTypes, CancelOperation, Expire, LoseTransport, CloseSession,
     books
<1>5. ServerTypes'
  BY <1>0 DEF ServerTypes, ArchiveTypes, CancelOperation, Expire, LoseTransport,
     CloseSession, server
<1>6. Steps'
  BY <1>0 DEF Steps, CancelOperation, Expire, LoseTransport, CloseSession, Signalled,
     runner, command
<1>7. Books'
  BY <1>0 DEF Books, Late, CancelOperation, Expire, LoseTransport, CloseSession, Signalled,
     runner, command, books
<1>8. Closing'
  BY <1>0 DEF Closing, ArchiveTypes, FlagTypes, CancelOperation, Expire, LoseTransport,
     CloseSession
<1>9. Sent'
  BY <1>0 DEF Sent, CancelOperation, Expire, LoseTransport, CloseSession, runner, server
<1>10. LeftoversAreKnown'
  BY <1>0 DEF LeftoversAreKnown, ArchiveTypes, FlagTypes, CancelOperation, Expire,
     LoseTransport, CloseSession, runner, books, server
<1>11. Commits'
  BY <1>0 DEF Commits, InPlace, CancelOperation, Expire, LoseTransport, CloseSession,
     runner, books, server
<1>12. Leaves'
  BY <1>0 DEF Leaves, Holds, CancelOperation, Expire, LoseTransport, CloseSession, runner,
     books, server
<1> QED
  BY <1>1, <1>2, <1>3, <1>4, <1>5, <1>6, <1>7, <1>8, <1>9, <1>10, <1>11, <1>12 DEF
     ArchiveInv, ArchiveTypes

\* The close goes on.
LEMMA CloseStepsKeeps ==
  ASSUME ArchiveInv, CloseWaited \/ StopWaiting \/ EndTransport
  PROVE  ArchiveInv'
<1>0. ArchiveTypes /\ Steps /\ Books /\ Closing /\ Sent /\ LeftoversAreKnown /\ Commits /\ Leaves
  BY DEF ArchiveInv
<1>1. RunnerTypes'
  BY <1>0 DEF RunnerTypes, ArchiveTypes, CloseWaited, StopWaiting, EndTransport, runner
<1>2. CommandTypes'
  BY <1>0 DEF CommandTypes, ArchiveTypes, CloseWaited, StopWaiting, EndTransport, command
<1>3. FlagTypes'
  BY <1>0 DEF FlagTypes, ArchiveTypes, CloseWaited, StopWaiting, EndTransport, server
<1>4. BookTypes'
  BY <1>0, StartedFields DEF BookTypes, CloseWaited, StopWaiting, EndTransport,
     ArchiveTypes, books
<1>5. ServerTypes'
  BY <1>0 DEF ServerTypes, ArchiveTypes, CloseWaited, StopWaiting, EndTransport, server
<1>6. Steps'
  BY <1>0 DEF Steps, CloseWaited, StopWaiting, EndTransport, runner, command
<1>7. Books'
  BY <1>0 DEF Books, Late, CloseWaited, StopWaiting, EndTransport, Started, runner, books
<1>8. Closing'
  BY <1>0 DEF Closing, CloseWaited, StopWaiting, EndTransport
<1>9. Sent'
  BY <1>0 DEF Sent, CloseWaited, StopWaiting, EndTransport, runner, server
<1>10. LeftoversAreKnown'
  BY <1>0 DEF LeftoversAreKnown, CloseWaited, StopWaiting, EndTransport, runner, books,
     server
<1>11. Commits'
  BY <1>0 DEF Commits, InPlace, CloseWaited, StopWaiting, EndTransport, runner, books,
     server
<1>12. Leaves'
  BY <1>0 DEF Leaves, CloseWaited, StopWaiting, EndTransport
<1> QED
  BY <1>1, <1>2, <1>3, <1>4, <1>5, <1>6, <1>7, <1>8, <1>9, <1>10, <1>11, <1>12 DEF
     ArchiveInv, ArchiveTypes

\* Another program makes a file.
LEMMA ForeignKeeps ==
  ASSUME ArchiveInv, (\E e \in Entry : ForeignFile(e))
  PROVE  ArchiveInv'
<1>0. ArchiveTypes /\ Steps /\ Books /\ Closing /\ Sent /\ LeftoversAreKnown /\ Commits /\ Leaves
  BY DEF ArchiveInv
<1>1. RunnerTypes'
  BY <1>0 DEF RunnerTypes, ArchiveTypes, ForeignFile, runner
<1>2. CommandTypes'
  BY <1>0 DEF CommandTypes, ArchiveTypes, ForeignFile, command, ends
<1>3. FlagTypes'
  BY <1>0 DEF FlagTypes, ArchiveTypes, ForeignFile, ends
<1>4. BookTypes'
  BY <1>0 DEF BookTypes, ArchiveTypes, ForeignFile, books
<1>5. ServerTypes'
  BY <1>0 DEF ServerTypes, ArchiveTypes, ForeignFile
<1>6. Steps'
  BY <1>0 DEF Steps, ForeignFile, runner, command
<1>7. Books'
  BY <1>0 DEF Books, Late, ForeignFile, runner, command, books, ends
<1>8. Closing'
  BY <1>0 DEF Closing, ForeignFile, ends
<1>9. Sent'
  BY <1>0 DEF Sent, ForeignFile, runner
<1>10. LeftoversAreKnown'
  BY <1>0 DEF LeftoversAreKnown, ForeignFile, runner, command, books, ends
<1>11. Commits'
  BY <1>0 DEF Commits, InPlace, ForeignFile, runner, books, ends
<1>12. Leaves'
  BY <1>0 DEF Leaves, Holds, ForeignFile, runner, command, books, ends
<1> QED
  BY <1>1, <1>2, <1>3, <1>4, <1>5, <1>6, <1>7, <1>8, <1>9, <1>10, <1>11, <1>12 DEF
     ArchiveInv, ArchiveTypes

\* Nothing happens.
LEMMA StutterKeeps ==
  ASSUME ArchiveInv, UNCHANGED vars
  PROVE  ArchiveInv'
<1>1. ArchiveTypes'
  BY DEF ArchiveInv, ArchiveTypes, RunnerTypes, CommandTypes, FlagTypes, BookTypes,
     ServerTypes,
         vars, runner, command, books, ends, server
<1>2. Steps' /\ Books' /\ Closing'
  BY DEF ArchiveInv, Steps, Books, Closing, Late, vars, runner, command, books, ends, server
<1>3. Sent' /\ LeftoversAreKnown'
  BY DEF ArchiveInv, Sent, LeftoversAreKnown, vars, runner, command, books, ends, server
<1>4. Commits' /\ Leaves'
  BY DEF ArchiveInv, Commits, Leaves, InPlace, Holds, vars, runner, command, books, ends,
     server
<1> QED
  BY <1>1, <1>2, <1>3, <1>4 DEF ArchiveInv

-----------------------------------------------------------------------------
(* Safety.                                                                 *)

\* The invariant holds before the operation.
LEMMA ArchiveInitially == Init => ArchiveInv
<1> SUFFICES ASSUME Init
             PROVE  ArchiveInv
  OBVIOUS
<1>1. ArchiveTypes
  BY ArchiveIsAnEntry DEF Init, ArchiveTypes, RunnerTypes, CommandTypes, FlagTypes,
     BookTypes, ServerTypes,
         Working, Over, Endings, Temp, NoCleanup
<1>2. Steps /\ Books /\ Closing
  BY DEF Init, Steps, Books, Closing, Late, Working, Over, Commands, NoCleanup
<1>3. Sent /\ LeftoversAreKnown
  BY DEF Init, Sent, LeftoversAreKnown
<1>4. Commits
  BY DEF Init, Commits, InPlace
<1>5. Leaves
  BY DEF Init, Leaves
<1> QED
  BY <1>1, <1>2, <1>3, <1>4, <1>5 DEF ArchiveInv

\* Every step keeps it.
LEMMA ArchiveStep ==
  ASSUME ArchiveInv, [Next]_vars
  PROVE  ArchiveInv'
<1>1. CASE Work
  <2>1. CASE Begin \/ CheckTarget \/ Verify \/ Scan
    BY <2>1, ReadsKeeps
  <2>2. CASE Submit \/ MakeDestination \/ MakeStaging \/ UnlinkTar \/ CommitWhole \/ Swap \/ RemoveStaging
    BY <2>2, SendsKeeps
  <2>3. CASE CommitEntry
    BY <2>3, CommitEntryKeeps
  <2>4. CASE Submitted \/ DestinationMade \/ StagingMade \/ TarUnlinked \/ WholeCommitted \/ EntryCommitted
             \/ Swapped \/ StagingRemoved
    BY <2>4, AnswersKeeps
  <2>5. CASE Refused \/ Stop
    BY <2>5, FailsKeeps
  <2>6. CASE \E s \in Commands : Exec(s)
    BY <2>6, CommandKeeps
  <2> QED
    BY <1>1, <2>1, <2>2, <2>3, <2>4, <2>5, <2>6 DEF Work
<1>2. CASE Clean
  BY <1>2, CleanupKeeps, RemovePathKeeps, EndCleanupKeeps DEF Clean
<1>3. CASE Close
  BY <1>3, CloseStepsKeeps DEF Close
<1>4. CASE Opened \/ ForceClose \/ AbandonedToolWrites
  BY <1>4, CommandKeeps
<1>5. CASE Exit
  BY <1>5, ExitKeeps
<1>6. CASE Resolve \/ ConflictTimeout
  BY <1>6, ReadsKeeps
<1>7. CASE CancelOperation \/ Expire \/ LoseTransport \/ CloseSession
  BY <1>7, EndsKeeps
<1>8. CASE \E e \in Entry : ForeignFile(e)
  BY <1>8, ForeignKeeps
<1>9. CASE UNCHANGED vars
  BY <1>9, StutterKeeps
<1> QED
  BY <1>1, <1>2, <1>3, <1>4, <1>5, <1>6, <1>7, <1>8, <1>9 DEF Next

\* It holds throughout.
LEMMA ArchiveAlways == Spec => []ArchiveInv
<1>1. ArchiveInv /\ [Next]_vars => ArchiveInv'
  BY ArchiveStep
<1> QED
  BY <1>1, ArchiveInitially, PTL DEF Spec

\* It contains what the run checks.
LEMMA ArchiveInvIsSafe == ArchiveInv => ArchiveIsSafe
<1> SUFFICES ASSUME ArchiveInv
             PROVE  ArchiveIsSafe
  OBVIOUS
<1>0. ArchiveTypes /\ Steps /\ Books /\ Closing /\ LeftoversAreKnown /\ Commits /\ Leaves
  BY DEF ArchiveInv
<1>1. TypeOK
  <2>1. pc \in Working \cup Over /\ entry \in Entry \cup {None} /\ remaining \subseteq Entry
    BY <1>0 DEF ArchiveTypes, RunnerTypes
  <2>2. staged \subseteq Entry /\ kept \subseteq Entry /\ present \subseteq Temp
    BY <1>0 DEF ArchiveTypes, ServerTypes
  <2>3. registered \subseteq Temp /\ cleanup.todo \subseteq Temp
    BY <1>0 DEF ArchiveTypes, BookTypes
  <2>4. (channel # "none" => pc \in Commands) /\ (result # "none" <=> pc = "done")
    BY <1>0 DEF Steps, Working
  <2> QED
    BY <2>1, <2>2, <2>3, <2>4 DEF TypeOK, Over
<1>2. SuccessIsComplete
  <2>1. result = "succeeded" => verdict = "succeeded"
    BY <1>0 DEF Steps
  <2> QED
    BY <1>0, <2>1 DEF SuccessIsComplete, Commits, InPlace
<1>3. EndedIsClean
  <2> SUFFICES ASSUME result \in {"succeeded", "cancelled"}, closer = "none"
               PROVE  /\ registered = {} /\ ~provisional
                      /\ up /\ tool # "abandoned" =>
                             present = {} /\ (made => \E e \in Entry : dest[e] # "absent" \/ e \in kept)
    BY DEF EndedIsClean
  <2>1. pc = "done" /\ verdict = result
    BY <1>0 DEF Steps
  <2>2. registered = {} /\ ~provisional
    BY <1>0, <2>1 DEF Leaves
  <2>3. ASSUME up, tool # "abandoned"
        PROVE  present = {}
    <3>1. ~forced
      BY <1>0, <2>3 DEF Closing
    <3> QED
      BY <1>0, <2>1, <2>2, <2>3, <3>1 DEF LeftoversAreKnown
  <2>4. ASSUME up, tool # "abandoned", made
        PROVE  Holds
    BY <1>0, <2>1, <2>2, <2>4 DEF Leaves
  <2> QED
    BY <2>2, <2>3, <2>4 DEF Holds
<1> QED
  BY <1>0, <1>1, <1>2, <1>3 DEF ArchiveIsSafe

\* runOperation, cleanupTemporaryPaths and closeSession: a reported success
\* is complete, what is left on the server is known to the operation or is
\* one of the named exceptions, and an operation that ends by itself or by
\* its user leaves nothing temporary, however cancellations, deadlines,
\* losses and closes interleave with it.
THEOREM ArchiveAlwaysSafe == Spec => []ArchiveIsSafe
  BY ArchiveAlways, ArchiveInvIsSafe, PTL

-----------------------------------------------------------------------------
(* What is replaced.                                                       *)

\* Only the removal that precedes a replacement takes away what was there
\* before: renames do not replace, and foreign files take free names.
LEMMA ReplacedByOverwrite ==
  ASSUME ArchiveInv, [Next]_vars, NEW e \in Entry, dest[e] = "old", dest'[e] # "old"
  PROVE  decision = "overwrite" /\ ~whole
<1>0. dest \in [Entry -> {"absent", "old", "new", "foreign"}] /\ None \notin Entry
  BY ArchiveIsAnEntry DEF ArchiveInv, ArchiveTypes, ServerTypes
<1>1. CASE CommitEntry
  BY <1>0, <1>1 DEF CommitEntry, Placed, Renamed, KeptBeside, Removed, Refuse, server
<1>2. CASE Submit \/ Swap \/ \E f \in Entry : ForeignFile(f)
  BY <1>0, <1>2 DEF Submit, Swap, ForeignFile, Renamed, Refuse, server
<1>3. dest' = dest \/ CommitEntry \/ Submit \/ Swap \/ \E f \in Entry : ForeignFile(f)
  <2>1. CASE Work
    BY <2>1 DEF Work, Begin, Refused, Stop, CheckTarget, Submitted, MakeDestination,
           DestinationMade, MakeStaging, StagingMade, UnlinkTar, TarUnlinked, Verify, Scan,
           CommitWhole, WholeCommitted, EntryCommitted, Swapped, RemoveStaging,
           StagingRemoved, Exec, Refuse, server
  <2>2. CASE Clean \/ Close
    BY <2>2 DEF Clean, Close, StartCleanup, RemovePath, EndCleanup, Finish, CloseWaited,
       StopWaiting, EndTransport, server
  <2>3. CASE Opened \/ Exit \/ ForceClose \/ AbandonedToolWrites \/ Resolve \/ ConflictTimeout
             \/ CancelOperation \/ Expire \/ LoseTransport \/ CloseSession
    BY <2>3 DEF Opened, Exit, ForceClose, AbandonedToolWrites, Resolve, ConflictTimeout,
       CancelOperation, Expire,
           LoseTransport, CloseSession, Writes, server
  <2> QED
    BY <2>1, <2>2, <2>3 DEF Next, vars, server
<1> QED
  BY <1>1, <1>2, <1>3

\* The decision behind that removal was the user's, or there was nothing old
\* left to lose.
LEMMA ReplacedIsAgreed ==
  ASSUME ArchiveInv, [Next]_vars, NEW e \in Entry, dest[e] = "old", dest'[e] # "old"
  PROVE  agreed
  BY ReplacedByOverwrite DEF ArchiveInv, Commits

\* commitExtractedEntries and resolveConflict: what the destination held when
\* the operation began is only replaced after the user chose to overwrite.
THEOREM OnlyTheAgreedIsEverReplaced == Spec => OnlyTheAgreedIsReplaced
<1>1. ArchiveInv /\ [Next]_vars => [\A e \in Entry : dest[e] = "old" /\ dest'[e] # "old" => agreed]_vars
  BY ReplacedIsAgreed
<1> QED
  BY <1>1, ArchiveAlways, PTL DEF Spec, OnlyTheAgreedIsReplaced
=============================================================================
