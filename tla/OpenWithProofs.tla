-------------------------- MODULE OpenWithProofs ----------------------------
(***************************************************************************)
(* Proofs about the open-with runtime: the inductive invariant, that it    *)
(* implies the safety properties, and that an overwriting upload was       *)
(* agreed.                                                                 *)
(***************************************************************************)
EXTENDS OpenWith, FiniteSetTheorems, TLAPS

-----------------------------------------------------------------------------
(* The invariant.                                                          *)

\* What the tab keeps of a file it opened.
Kept == [watch : Open, copy : Open, snapshot : Nat, open : BOOLEAN]
\* What one opening can be.
OpenTask == [pc : {"none", "downloading", "launching", "starting", "read", "watching", "done"},
             file : File \cup {None}, copy : Open \cup {None}, entry : Nat, session : Nat]
\* What the watch of one opening can be.
Watcher == [on : BOOLEAN, last : Nat, timer : BOOLEAN, checks : SUBSET (1..MaxLocal), untold : Nat]
\* What one upload can be.
UploadTask == [pc : {"none", "sending", "asking", "overwriting", "replaced", "refreshing", "done"},
               file : File \cup {None}, kept : Kept \cup {None}, session : Nat]
\* What the main process can tell the tab.
Message == [kind : {"started", "changed"}, watch : Open]

\* The types of the files, of the copies and of the numbers left.
FileTypes ==
    /\ remote \in [File -> Nat] /\ listed \in [File -> Nat] /\ local \in [Open -> Nat]
    /\ cached \in [File -> Open \cup {None}] /\ session \in Nat
    /\ budget \in [saves : Nat, foreign : Nat, resets : Nat]
\* The types of the tab's state and of its dialog.
TabTypes ==
    /\ inbox \in Seq(Message) /\ record \in [File -> Kept \cup {None}]
    /\ prompt \in File \cup {None}
    /\ asking \in Seq(Upload) /\ resolver \in Upload \cup {None} /\ agreed \subseteq Upload
\* The type of the openings.
OpenTypes == opening \in [Open -> OpenTask]
\* The type of the watches.
WatchTypes == watches \in [Open -> Watcher]
\* The type of the uploads.
UploadTypes == uploads \in [Upload -> UploadTask]

\* The openings that may still write a copy.
Fresh == {o \in Open : opening[o].pc \in {"none", "downloading"}}

\* A begun opening has its file and its copy.
Begun == \A o \in Open : opening[o].pc # "none" => opening[o].file \in File /\ opening[o].copy \in Open
\* Only a begun opening is watched, and only a copy that was written has its
\* check waiting.
Timed == \A o \in Open :
    /\ watches[o].on \/ watches[o].timer => opening[o].pc # "none"
    /\ watches[o].timer => local[opening[o].copy] # 0
\* What was written to a copy, and what the user and the openings may still
\* write to it, stay within the numbers a check may read.
Copied == \A c \in Open : local[c] + budget.saves + Cardinality(Fresh) <= MaxLocal
\* A watch the tab is told of belongs to a begun opening.
Announced == \A i \in 1..Len(inbox) : inbox[i].kind = "started" => opening[inbox[i].watch].pc # "none"
\* A begun upload has its file and what was kept of it, and one that
\* overwrites was agreed.
Requested == \A u \in Upload :
    /\ uploads[u].pc # "none" => uploads[u].file \in File /\ uploads[u].kept \in Kept
    /\ uploads[u].pc = "overwriting" => u \in agreed
\* What the questions of the dialog look like: the one shown is the one that
\* gets the answer, nobody queues behind nothing, nobody queues twice or
\* while shown, and the queue and the dialog hold exactly the uploads that
\* ask.
Turns ==
    /\ shown = resolver
    /\ resolver = None => asking = <<>>
    /\ \A i, j \in 1..Len(asking) : asking[i] = asking[j] => i = j
    /\ \A i \in 1..Len(asking) : asking[i] # resolver
    /\ \A u \in Upload : uploads[u].pc = "asking"
         <=> u = resolver \/ \E i \in 1..Len(asking) : asking[i] = u

\* The inductive invariant. OpenWithIsSafe alone is not inductive: that the
\* dialog's question is an upload that asks follows from the whole queue, and
\* that a check reads a number in range from what may still be written to
\* each copy.
OpenInv ==
    /\ FileTypes /\ TabTypes /\ OpenTypes /\ WatchTypes /\ UploadTypes
    /\ Begun /\ Timed /\ Copied /\ Announced /\ Requested /\ QuestionHasARecord /\ Turns
\* No opening starts again, changes its copy, or downloads a second time.
Onward == \A q \in Open :
    /\ opening[q].pc # "none" => opening'[q].pc # "none" /\ opening'[q].copy = opening[q].copy
    /\ opening[q].pc \notin {"none", "downloading"} => opening'[q].pc \notin {"none", "downloading"}

-----------------------------------------------------------------------------
(* What the steps have in common.                                          *)

\* The bounds are numbers, and nothing has no name.
LEMMA Bounds == /\ NumOpens \in Nat /\ MaxSaves \in Nat /\ MaxLocal \in Nat
                /\ Open \subseteq Nat /\ Upload \subseteq Nat
                /\ None \notin Open /\ None \notin Upload /\ None \notin Kept /\ None \notin File
  BY BoundsAreNumbers, NothingHasNoName DEF MaxLocal, Open, Upload, Kept

\* A step of a begun opening keeps the openings' part.
LEMMA OpenMoves ==
  ASSUME OpenTypes, Begun, NEW o \in Open, opening[o].pc # "none",
         NEW pc \in {"launching", "starting", "read", "watching", "done"},
         opening' = [opening EXCEPT ![o].pc = pc]
  PROVE  OpenTypes' /\ Begun' /\ Onward
<1>1. \A q \in Open : opening[q] \in OpenTask
  BY DEF OpenTypes
<1>2. [opening[o] EXCEPT !.pc = pc] \in OpenTask
  BY <1>1 DEF OpenTask
<1>3. opening' = [q \in Open |-> IF q = o THEN [opening[o] EXCEPT !.pc = pc] ELSE opening[q]]
  BY DEF OpenTypes
<1>4. OpenTypes'
  BY <1>1, <1>2, <1>3 DEF OpenTypes
<1>5. \A q \in Open : /\ opening'[q].file = opening[q].file /\ opening'[q].copy = opening[q].copy
                      /\ opening'[q].pc = IF q = o THEN pc ELSE opening[q].pc
  BY <1>1, <1>3 DEF OpenTask
<1> QED
  BY <1>4, <1>5 DEF Begun, Onward

\* The openings that may still write are finitely many.
LEMMA FreshNumber == Cardinality(Fresh) \in Nat /\ IsFiniteSet(Fresh)
<1>1. IsFiniteSet(1..NumOpens)
  BY Bounds, FS_Interval
<1>2. Fresh \subseteq 1..NumOpens
  BY DEF Fresh, Open
<1> QED
  BY <1>1, <1>2, FS_Subset, FS_CardinalityType

\* They never become more.
LEMMA FreshFewer ==
  ASSUME Onward PROVE Cardinality(Fresh') \in Nat /\ Cardinality(Fresh') <= Cardinality(Fresh)
<1>1. Fresh' \subseteq Fresh
  BY DEF Onward, Fresh
<1> QED
  BY <1>1, FreshNumber, FS_Subset, FS_CardinalityType

\* A step that writes no copy leaves room for what may still be written.
LEMMA CopiesStay ==
  ASSUME Copied, FileTypes, Onward, local' = local, budget'.saves = budget.saves
  PROVE  Copied'
<1>1. \A c \in Open : local'[c] \in Nat
  BY DEF FileTypes
<1>2. budget.saves \in Nat
  BY DEF FileTypes
<1> QED
  BY <1>1, <1>2, Bounds, FreshNumber, FreshFewer DEF Copied

\* The fields of a message that waits.
LEMMA MessageFields ==
  ASSUME TabTypes, NEW i \in 1..Len(inbox)
  PROVE  inbox[i].watch \in Open /\ inbox[i].kind \in {"started", "changed"}
<1>1. inbox[i] \in Message
  BY DEF TabTypes
<1> QED
  BY <1>1 DEF Message

\* Messages stay true of openings that go on.
LEMMA MessagesStay ==
  ASSUME Announced, TabTypes, Onward, inbox' = inbox
  PROVE  Announced'
  BY MessageFields DEF Announced, Onward

\* One more message that is true now leaves all of them true.
LEMMA MessageComes ==
  ASSUME Announced, TabTypes, Onward, NEW m \in Message, inbox' = Append(inbox, m),
         m.kind = "started" => opening'[m.watch].pc # "none"
  PROVE  Announced' /\ inbox' \in Seq(Message)
<1>1. inbox \in Seq(Message)
  BY DEF TabTypes
<1>2. Len(inbox') = Len(inbox) + 1 /\ \A i \in 1..Len(inbox') :
        inbox'[i] = IF i = Len(inbox) + 1 THEN m ELSE inbox[i]
  BY <1>1
<1>3. \A i \in 1..Len(inbox) : inbox[i].kind = "started" => opening'[inbox[i].watch].pc # "none"
  BY MessageFields DEF Announced, Onward
<1>4. \A i \in 1..Len(inbox') : i = Len(inbox) + 1 \/ i \in 1..Len(inbox)
  BY <1>1, <1>2
<1>5. ASSUME NEW i \in 1..Len(inbox'), inbox'[i].kind = "started"
      PROVE  opening'[inbox'[i].watch].pc # "none"
  BY <1>2, <1>3, <1>4, <1>5
<1>6. inbox' \in Seq(Message)
  BY <1>1
<1> QED
  BY <1>5, <1>6 DEF Announced

\* Taking the first message leaves the others true.
LEMMA MessageGoes ==
  ASSUME Announced, TabTypes, Onward, inbox # <<>>, inbox' = Tail(inbox)
  PROVE  Announced' /\ inbox' \in Seq(Message)
<1>1. inbox \in Seq(Message)
  BY DEF TabTypes
<1>2. inbox' \in Seq(Message) /\ Len(inbox') = Len(inbox) - 1 /\ \A i \in 1..Len(inbox') :
        inbox'[i] = inbox[i + 1] /\ i + 1 \in 1..Len(inbox)
  BY <1>1
<1>3. \A i \in 1..Len(inbox) : inbox[i].kind = "started" => opening'[inbox[i].watch].pc # "none"
  BY MessageFields DEF Announced, Onward
<1> QED
  BY <1>2, <1>3 DEF Announced

\* A copy's number is one a check may read.
LEMMA LocalInRange ==
  ASSUME Copied, FileTypes
  PROVE  \A c \in Open : local[c] \in Nat /\ local[c] <= MaxLocal
<1>1. \A c \in Open : local[c] \in Nat
  BY DEF FileTypes
<1>2. budget.saves \in Nat
  BY DEF FileTypes
<1> QED
  BY <1>1, <1>2, Bounds, FreshNumber DEF Copied

\* Watches that stay as they are stay right.
LEMMA TimersStay ==
  ASSUME Timed, Onward, watches' = watches, local' = local
  PROVE  Timed'
  BY DEF Timed, Onward

\* The fields of a watch.
LEMMA WatchFields ==
  ASSUME WatchTypes, NEW o \in Open
  PROVE  /\ watches[o] \in Watcher /\ watches[o].on \in BOOLEAN /\ watches[o].last \in Nat
         /\ watches[o].timer \in BOOLEAN /\ watches[o].checks \subseteq 1..MaxLocal
              /\ watches[o].untold \in Nat
  BY DEF WatchTypes, Watcher

\* A watch that never was is off and waits for nothing.
LEMMA NoWatchFields == NoWatch \in Watcher /\ ~NoWatch.on /\ ~NoWatch.timer
  BY DEF NoWatch, Watcher

\* Watches that only stop, or lose their check, stay right.
LEMMA WatchesCalmDown ==
  ASSUME WatchTypes, Timed, Onward, local' = local, watches' \in [Open -> Watcher],
         \A q \in Open : (watches'[q].on => watches[q].on) /\ (watches'[q].timer => watches[q].timer)
  PROVE  WatchTypes' /\ Timed'
  BY DEF WatchTypes, Timed, Onward

\* So does one such watch.
LEMMA WatchCalmsDown ==
  ASSUME WatchTypes, Timed, Onward, local' = local, NEW o \in Open, NEW w \in Watcher,
         watches' = [watches EXCEPT ![o] = w],
         w.on => watches[o].on, w.timer => watches[o].timer
  PROVE  WatchTypes' /\ Timed'
<1>1. watches' \in [Open -> Watcher] /\ \A q \in Open : watches'[q] = IF q = o THEN w ELSE watches[q]
  BY DEF WatchTypes
<1>2. \A q \in Open : (watches'[q].on => watches[q].on) /\ (watches'[q].timer => watches[q].timer)
  BY <1>1
<1> QED
  BY <1>1, <1>2, WatchesCalmDown

\* stopOpenWithWatcher and its callers only stop watches.
LEMMA WatchesStop ==
  ASSUME WatchTypes, Timed, Onward, local' = local, NEW stopped, watches' = Stopped(stopped)
  PROVE  WatchTypes' /\ Timed'
<1>1. watches' = [q \in Open |-> IF q \in stopped THEN NoWatch ELSE watches[q]]
  BY DEF Stopped
<1>2. watches' \in [Open -> Watcher]
  BY <1>1, NoWatchFields DEF WatchTypes
<1>3. \A q \in Open : (watches'[q].on => watches[q].on) /\ (watches'[q].timer => watches[q].timer)
  BY <1>1, NoWatchFields
<1> QED
  BY <1>2, <1>3, WatchesCalmDown

\* A write of a copy notifies the watches on it: each waiting check belongs
\* to a copy that was written.
LEMMA CopyIsWritten ==
  ASSUME WatchTypes, Timed, Begun, FileTypes, Onward, NEW c \in Open,
         local' = [local EXCEPT ![c] = @ + 1], watches' = Notified(c, local'[c])
  PROVE  WatchTypes' /\ Timed' /\ local' \in [Open -> Nat]
           /\ \A q \in Open : local'[q] = IF q = c THEN local[c] + 1 ELSE local[q]
<1>1. local' \in [Open -> Nat] /\ \A q \in Open : local'[q] = IF q = c THEN local[c] + 1 ELSE local[q]
  BY DEF FileTypes
<1>2. \A q \in Open : local[q] \in Nat
  BY DEF FileTypes
<1>3. \A q \in Open : [watches[q] EXCEPT !.timer = TRUE, !.untold = local'[c]] \in Watcher
  BY <1>1, WatchFields DEF Watcher
<1>4. watches' = [q \in Open |-> IF watches[q].on /\ opening[q].copy = c
                                 THEN [watches[q] EXCEPT !.timer = TRUE, !.untold = local'[c]]
                                 ELSE watches[q]]
  BY DEF Notified
<1>5. WatchTypes'
  BY <1>3, <1>4, WatchFields DEF WatchTypes
<1>6. \A q \in Open : /\ watches'[q].on = watches[q].on
                      /\ watches'[q].timer => watches[q].timer \/ (watches[q].on /\ opening[q].copy = c)
  BY <1>4, WatchFields DEF Watcher
<1>7. \A q \in Open : local[q] # 0 => local'[q] # 0
  BY <1>1, <1>2
<1>8. local'[c] # 0
  BY <1>1, <1>2
<1>9. \A q \in Open : opening[q].pc # "none" => opening[q].copy \in Open
  BY DEF Begun
<1>10. ASSUME NEW q \in Open, watches'[q].timer PROVE local'[opening'[q].copy] # 0
  <2>1. opening[q].pc # "none" /\ opening'[q].copy = opening[q].copy
    BY <1>6, <1>10 DEF Timed, Onward
  <2> QED
    BY <2>1, <1>6, <1>7, <1>8, <1>9, <1>10 DEF Timed
<1>11. Timed'
  BY <1>6, <1>10 DEF Timed, Onward
<1> QED
  BY <1>1, <1>5, <1>11

\* Where no opening moves, openings go on.
LEMMA NothingOpens == ASSUME opening' = opening PROVE Onward
  BY DEF Onward

-----------------------------------------------------------------------------
(* The main process: opening, watching.                                    *)

\* The signature of the copy is read before its watch starts.
LEMMA ReadSignatureKeeps ==
  ASSUME OpenInv, NEW o \in Open, ReadSignature(o)
  PROVE  OpenInv'
<1>1. PICK pc \in {"read", "done"} : opening' = [opening EXCEPT ![o].pc = pc]
  BY DEF ReadSignature
<1>2. opening[o].pc # "none"
  BY DEF ReadSignature
<1>3. OpenTypes' /\ Begun' /\ Onward
  BY <1>1, <1>2, OpenMoves DEF OpenInv
<1>4. opening[o].copy \in Open
  BY <1>2 DEF OpenInv, Begun
<1>5. local[opening[o].copy] \in Nat
  BY <1>4 DEF OpenInv, FileTypes
<1>6. local' = local
  BY DEF ReadSignature
<1>7. WatchTypes' /\ Timed'
  <2>1. CASE watches' = watches
    BY <2>1, <1>3, <1>6, WatchesCalmDown DEF OpenInv, WatchTypes
  <2>2. CASE watches' = [watches EXCEPT ![o].last = local[opening[o].copy]]
    <3> DEFINE w == [watches[o] EXCEPT !.last = local[opening[o].copy]]
    <3>1. w \in Watcher /\ w.on = watches[o].on /\ w.timer = watches[o].timer
      BY <1>5, WatchFields DEF OpenInv, Watcher
    <3>2. watches' = [watches EXCEPT ![o] = w]
      BY <2>2
    <3> HIDE DEF w
    <3> QED
      BY <1>3, <1>6, <3>1, <3>2, WatchCalmsDown DEF OpenInv
  <2> QED
    BY <2>1, <2>2 DEF ReadSignature
<1>8. Copied' /\ Announced'
  BY <1>3, CopiesStay, MessagesStay DEF OpenInv, ReadSignature
<1> QED
  BY <1>3, <1>7, <1>8 DEF OpenInv, ReadSignature, FileTypes, TabTypes, UploadTypes,
     Requested, QuestionHasARecord, Turns, dialogVars

\* The watch starts, and the tab is told.
LEMMA StartWatchingKeeps ==
  ASSUME OpenInv, NEW o \in Open, StartWatching(o)
  PROVE  OpenInv'
<1>1. opening' = [opening EXCEPT ![o].pc = "watching"] /\ opening[o].pc # "none"
  BY DEF StartWatching
<1>2. OpenTypes' /\ Begun' /\ Onward
  BY <1>1, OpenMoves DEF OpenInv
<1>3. opening'[o].pc # "none"
  BY <1>1, <1>2 DEF Onward
<1> DEFINE w == [watches[o] EXCEPT !.on = TRUE]
<1>4. w \in Watcher /\ w.timer = watches[o].timer
  BY WatchFields DEF OpenInv, Watcher
<1>5. watches' = [watches EXCEPT ![o] = w] /\ local' = local
  BY DEF StartWatching
<1> HIDE DEF w
<1>6. WatchTypes' /\ \A q \in Open : watches'[q] = IF q = o THEN w ELSE watches[q]
  BY <1>4, <1>5 DEF OpenInv, WatchTypes
<1>7. \A q \in Open : watches'[q].timer = watches[q].timer /\ (watches'[q].on => q = o \/ watches[q].on)
  BY <1>4, <1>6
<1>8. Timed'
  BY <1>2, <1>3, <1>5, <1>7 DEF OpenInv, Timed, Onward
<1> DEFINE m == [kind |-> "started", watch |-> o]
<1>9. m \in Message /\ m.watch = o /\ inbox' = Append(inbox, m)
  BY DEF Message, StartWatching
<1> HIDE DEF m
<1>10. Announced' /\ inbox' \in Seq(Message)
  BY <1>2, <1>3, <1>9, MessageComes DEF OpenInv
<1>11. Copied'
  BY <1>2, CopiesStay DEF OpenInv, StartWatching
<1> QED
  BY <1>2, <1>6, <1>8, <1>10, <1>11 DEF OpenInv, StartWatching, FileTypes, TabTypes,
     UploadTypes, Requested, QuestionHasARecord, Turns, dialogVars

\* The debounced check begins to read the copy.
LEMMA CheckForChangeKeeps ==
  ASSUME OpenInv, NEW o \in Open, CheckForChange(o)
  PROVE  OpenInv'
<1>1. opening' = opening /\ local' = local /\ watches[o].timer
  BY DEF CheckForChange
<1>2. Onward
  BY <1>1, NothingOpens
<1>3. opening[o].copy \in Open /\ local[opening[o].copy] # 0
  BY <1>1 DEF OpenInv, Timed, Begun
<1>4. local[opening[o].copy] \in 1..MaxLocal
  <2>1. local[opening[o].copy] \in Nat /\ local[opening[o].copy] <= MaxLocal
    BY <1>3, LocalInRange DEF OpenInv
  <2> QED
    BY <1>3, <2>1, Bounds
<1> DEFINE w == [watches[o] EXCEPT !.timer = FALSE, !.checks = @ \cup {local[opening[o].copy]}]
<1>5. w \in Watcher /\ w.on = watches[o].on /\ ~w.timer
  BY <1>4, WatchFields DEF OpenInv, Watcher
<1>6. watches' = [watches EXCEPT ![o] = w]
  BY DEF CheckForChange
<1> HIDE DEF w
<1>7. WatchTypes' /\ Timed'
  BY <1>1, <1>2, <1>5, <1>6, WatchCalmsDown DEF OpenInv
<1> QED
  BY <1>7 DEF OpenInv, CheckForChange, FileTypes, TabTypes, UploadTypes, Requested,
     OpenTypes, Begun, Copied, Fresh, Announced, QuestionHasARecord, Turns, dialogVars

\* The check ends, and the tab is told of a signature it has not seen.
LEMMA ReportChangeKeeps ==
  ASSUME OpenInv, NEW o \in Open, ReportChange(o)
  PROVE  OpenInv'
<1>1. PICK v \in watches[o].checks :
        /\ watches' = [watches EXCEPT ![o].checks = @ \ {v}, ![o].last = v,
                                      ![o].untold = IF @ = v THEN 0 ELSE @]
        /\ inbox' = IF v = watches[o].last THEN inbox
                    ELSE Append(inbox, [kind |-> "changed", watch |-> o])
        /\ UNCHANGED <<remote, listed, local, cached, session, opening, record,
                       prompt, uploads, dialogVars, agreed, budget>>
  BY DEF ReportChange
<1>2. Onward
  BY <1>1, NothingOpens
<1>3. v \in Nat
  BY <1>1, WatchFields, Bounds DEF OpenInv
<1> DEFINE w == [watches[o] EXCEPT !.checks = @ \ {v}, !.last = v, !.untold = IF @ = v THEN 0 ELSE @]
<1>4. w \in Watcher /\ w.on = watches[o].on /\ w.timer = watches[o].timer
  BY <1>3, WatchFields DEF OpenInv, Watcher
<1>5. watches' = [watches EXCEPT ![o] = w]
  BY <1>1
<1> HIDE DEF w
<1>6. WatchTypes' /\ Timed'
  BY <1>1, <1>2, <1>4, <1>5, WatchCalmsDown DEF OpenInv
<1> DEFINE m == [kind |-> "changed", watch |-> o]
<1>7. m \in Message /\ m.kind # "started" /\ (inbox' = inbox \/ inbox' = Append(inbox, m))
  BY <1>1 DEF Message
<1> HIDE DEF m
<1>8. Announced' /\ inbox' \in Seq(Message)
  <2>1. CASE inbox' = inbox
    BY <1>2, <2>1, MessagesStay DEF OpenInv, TabTypes
  <2>2. CASE inbox' = Append(inbox, m)
    BY <1>2, <1>7, <2>2, MessageComes DEF OpenInv
  <2> QED
    BY <1>7, <2>1, <2>2
<1> QED
  BY <1>1, <1>6, <1>8 DEF OpenInv, FileTypes, TabTypes, UploadTypes, Requested, OpenTypes,
     Begun, Copied, Fresh, QuestionHasARecord, Turns, dialogVars

\* The check finds no copy and the watch stops.
LEMMA LoseFileKeeps ==
  ASSUME OpenInv, NEW o \in Open, LoseFile(o)
  PROVE  OpenInv'
<1>1. opening' = opening /\ local' = local /\ watches' = [watches EXCEPT ![o] = NoWatch]
  BY DEF LoseFile
<1>2. Onward
  BY <1>1, NothingOpens
<1>3. WatchTypes' /\ Timed'
  BY <1>1, <1>2, NoWatchFields, WatchCalmsDown DEF OpenInv
<1> QED
  BY <1>3 DEF OpenInv, LoseFile, FileTypes, TabTypes, UploadTypes, Requested, OpenTypes,
     Begun, Copied, Fresh, Announced, QuestionHasARecord, Turns, dialogVars

\* The user's editor writes the copy.
LEMMA SaveKeeps ==
  ASSUME OpenInv, NEW o \in Open, Save(o)
  PROVE  OpenInv'
<1>1. /\ opening' = opening /\ budget.saves > 0 /\ budget' = [budget EXCEPT !.saves = @ - 1]
      /\ local' = [local EXCEPT ![o] = @ + 1] /\ watches' = Notified(o, local'[o])
  BY DEF Save
<1>2. Onward
  BY <1>1, NothingOpens
<1>3. /\ WatchTypes' /\ Timed' /\ local' \in [Open -> Nat]
      /\ \A q \in Open : local'[q] = IF q = o THEN local[o] + 1 ELSE local[q]
  BY <1>1, <1>2, CopyIsWritten DEF OpenInv
<1>4. budget' \in [saves : Nat, foreign : Nat, resets : Nat] /\ budget'.saves = budget.saves - 1
        /\ budget.saves \in Nat
  BY <1>1 DEF OpenInv, FileTypes
<1>5. \A q \in Open : local[q] \in Nat
  BY DEF OpenInv, FileTypes
<1>6. Copied'
  BY <1>2, <1>3, <1>4, <1>5, Bounds, FreshNumber, FreshFewer DEF OpenInv, Copied
<1> QED
  BY <1>3, <1>4, <1>6 DEF OpenInv, Save, FileTypes, TabTypes, UploadTypes, Requested,
     OpenTypes, Begun, Announced, QuestionHasARecord, Turns, dialogVars

\* The tab opens a file from its listing.
LEMMA OpenFileKeeps ==
  ASSUME OpenInv, NEW o \in Open, OpenFile(o)
  PROVE  OpenInv'
<1>1. PICK f \in File : opening' = [opening EXCEPT ![o] =
               [pc |-> "downloading", file |-> f, entry |-> listed[f], session |-> session,
                copy |-> IF cached[f] = None THEN o ELSE cached[f]]]
  BY DEF OpenFile
<1> DEFINE t == [pc |-> "downloading", file |-> f, entry |-> listed[f], session |-> session,
                 copy |-> IF cached[f] = None THEN o ELSE cached[f]]
<1>2. t \in OpenTask /\ t.pc = "downloading" /\ t.file \in File /\ t.copy \in Open
  BY DEF OpenInv, FileTypes, OpenTask
<1>3. opening' = [opening EXCEPT ![o] = t] /\ opening[o].pc = "none" /\ watches' = watches
        /\ local' = local
  BY <1>1 DEF OpenFile
<1> HIDE DEF t
<1>4. OpenTypes' /\ \A q \in Open : opening'[q] = IF q = o THEN t ELSE opening[q]
  BY <1>2, <1>3 DEF OpenInv, OpenTypes
<1>5. Begun' /\ Onward
  BY <1>2, <1>3, <1>4 DEF OpenInv, Begun, Onward
<1>6. Timed'
  BY <1>3, <1>5, TimersStay DEF OpenInv
<1>7. Copied' /\ Announced'
  BY <1>5, CopiesStay, MessagesStay DEF OpenInv, OpenFile
<1> QED
  BY <1>4, <1>5, <1>6, <1>7 DEF OpenInv, OpenFile, FileTypes, TabTypes, UploadTypes,
     Requested, WatchTypes, QuestionHasARecord, Turns, dialogVars

\* The file is downloaded to the copy of its path.
LEMMA DownloadKeeps ==
  ASSUME OpenInv, NEW o \in Open, Download(o)
  PROVE  OpenInv'
<1>1. /\ opening[o].pc = "downloading"
      /\ local' = [local EXCEPT ![opening[o].copy] = @ + 1]
      /\ watches' = Notified(opening[o].copy, local'[opening[o].copy])
  BY DEF Download
<1>2. PICK pc \in {"launching", "done"} : opening' = [opening EXCEPT ![o].pc = pc]
  BY DEF Download
<1>3. OpenTypes' /\ Begun' /\ Onward
  BY <1>1, <1>2, OpenMoves DEF OpenInv
<1>4. opening[o].copy \in Open /\ opening[o].file \in File
  BY <1>1 DEF OpenInv, Begun
<1>5. /\ WatchTypes' /\ Timed' /\ local' \in [Open -> Nat]
      /\ \A q \in Open : local'[q] = IF q = opening[o].copy THEN local[opening[o].copy] + 1 ELSE local[q]
  BY <1>1, <1>3, <1>4, CopyIsWritten DEF OpenInv
<1>6. FileTypes'
  BY <1>4, <1>5 DEF OpenInv, FileTypes, Download
<1>7. Cardinality(Fresh') \in Nat /\ Cardinality(Fresh') + 1 <= Cardinality(Fresh)
  <2>1. o \in Fresh /\ o \notin Fresh'
    BY <1>1, <1>2 DEF OpenInv, OpenTypes, OpenTask, Fresh
  <2>2. Fresh' \subseteq Fresh \ {o}
    BY <1>3, <2>1 DEF Onward, Fresh
  <2>3. Cardinality(Fresh \ {o}) = Cardinality(Fresh) - 1 /\ IsFiniteSet(Fresh \ {o})
    BY <2>1, FreshNumber, FS_RemoveElement
  <2>4. Cardinality(Fresh') <= Cardinality(Fresh \ {o}) /\ Cardinality(Fresh') \in Nat
    BY <2>2, <2>3, FS_Subset, FS_CardinalityType
  <2> QED
    BY <2>3, <2>4, FreshNumber
<1>8. budget' = budget /\ budget.saves \in Nat /\ \A q \in Open : local[q] \in Nat
  BY DEF OpenInv, FileTypes, Download
<1>9. Copied'
  BY <1>5, <1>7, <1>8, Bounds, FreshNumber DEF OpenInv, Copied
<1>10. Announced'
  BY <1>3, MessagesStay DEF OpenInv, Download
<1> QED
  BY <1>3, <1>5, <1>6, <1>9, <1>10 DEF OpenInv, Download, TabTypes, UploadTypes, Requested,
     QuestionHasARecord, Turns, dialogVars

\* An opening fails and its watch, if any, stops.
LEMMA FailToOpenKeeps ==
  ASSUME OpenInv, NEW o \in Open, FailToOpen(o)
  PROVE  OpenInv'
<1>1. opening[o].pc # "none" /\ opening' = [opening EXCEPT ![o].pc = "done"]
  BY DEF FailToOpen
<1>2. OpenTypes' /\ Begun' /\ Onward
  BY <1>1, OpenMoves DEF OpenInv
<1>3. Timed' /\ Copied' /\ Announced'
  BY <1>2, TimersStay, CopiesStay, MessagesStay DEF OpenInv, FailToOpen
<1> QED
  BY <1>2, <1>3 DEF OpenInv, FailToOpen, FileTypes, TabTypes, UploadTypes, Requested,
     WatchTypes, QuestionHasARecord, Turns, dialogVars

\* The program of the file is started.
LEMMA LaunchKeeps ==
  ASSUME OpenInv, NEW o \in Open, Launch(o)
  PROVE  OpenInv'
<1>1. opening[o].pc # "none" /\ opening' = [opening EXCEPT ![o].pc = "starting"]
  BY DEF Launch
<1>2. OpenTypes' /\ Begun' /\ Onward
  BY <1>1, OpenMoves DEF OpenInv
<1>3. Copied' /\ Announced'
  BY <1>2, CopiesStay, MessagesStay DEF OpenInv, Launch
<1>4. WatchTypes' /\ Timed'
  <2>1. CASE watches' = watches
    BY <1>2, <2>1, TimersStay DEF OpenInv, Launch, WatchTypes
  <2>2. CASE watches' = Stopped({record[opening[o].file].watch})
    BY <1>2, <2>2, WatchesStop DEF OpenInv, Launch
  <2> QED
    BY <2>1, <2>2 DEF Launch
<1> QED
  BY <1>2, <1>3, <1>4 DEF OpenInv, Launch, FileTypes, TabTypes, UploadTypes, Requested,
     QuestionHasARecord, Turns, dialogVars

-----------------------------------------------------------------------------
(* The tab: messages and uploads.                                          *)

\* The fields of what the tab keeps of a file.
LEMMA RecordFields ==
  ASSUME TabTypes, NEW f \in File, record[f] # None
  PROVE  record[f] \in Kept /\ record[f].watch \in Open /\ record[f].copy \in Open
           /\ record[f].snapshot \in Nat
         /\ record[f].open \in BOOLEAN
  BY DEF TabTypes, Kept

\* Changing what is kept of one file, but not forgetting it, keeps the
\* others.
LEMMA RecordChanges ==
  ASSUME TabTypes, NEW f \in File, NEW r \in Kept \cup {None},
         record' = [record EXCEPT ![f] = r],
         record[f] # None => r # None
  PROVE  /\ record' \in [File -> Kept \cup {None}]
         /\ \A g \in File : record[g] # None => record'[g] # None
         /\ record'[f] = r
  BY DEF TabTypes

\* The tab hears of a started watch or of a change.
LEMMA ReceiveKeeps ==
  ASSUME OpenInv, Receive
  PROVE  OpenInv'
<1>1. inbox # <<>> /\ inbox' = Tail(inbox) /\ inbox \in Seq(Message) /\ watches' = watches
        /\ local' = local
  BY DEF Receive, OpenInv, TabTypes
<1> DEFINE m == Head(inbox)
<1>2. m = inbox[1] /\ 1 \in 1..Len(inbox)
  BY <1>1
<1>3. m.watch \in Open
  BY <1>2, MessageFields DEF OpenInv
<1>4. m.kind = "started" => opening[m.watch].pc # "none"
  BY <1>2 DEF OpenInv, Announced
<1>5. \/ /\ m.kind = "started" /\ record' = Registered(m.watch)
         /\ opening' = [opening EXCEPT ![m.watch].pc = "done"] /\ prompt' = prompt
      \/ \E f \in FilesWatchedBy(m.watch) :
           record' = [record EXCEPT ![f].open = TRUE] /\ prompt' = f /\ opening' = opening
      \/ UNCHANGED <<record, prompt, opening>>
  BY DEF Receive
<1> HIDE DEF m
<1>6. OpenTypes' /\ Begun' /\ Onward
  <2>1. CASE opening' = opening
    BY <2>1 DEF OpenInv, OpenTypes, Begun, Onward
  <2>2. CASE m.kind = "started" /\ opening' = [opening EXCEPT ![m.watch].pc = "done"]
    BY <1>3, <1>4, <2>2, OpenMoves DEF OpenInv
  <2> QED
    BY <1>5, <2>1, <2>2
<1>7. Timed' /\ Copied'
  BY <1>1, <1>6, TimersStay, CopiesStay DEF OpenInv, Receive
<1>8. Announced' /\ inbox' \in Seq(Message)
  BY <1>1, <1>6, MessageGoes DEF OpenInv
<1>9. record' \in [File -> Kept \cup {None}] /\ prompt' \in File \cup {None} /\ QuestionHasARecord'
  <2>1. CASE m.kind = "started" /\ record' = Registered(m.watch) /\ prompt' = prompt
    <3> DEFINE f == opening[m.watch].file
               r == [watch |-> m.watch, copy |-> opening[m.watch].copy,
                     snapshot |-> opening[m.watch].entry, open |-> FALSE]
    <3>1. f \in File /\ r \in Kept
      BY <1>3, <1>4, <2>1 DEF OpenInv, OpenTypes, OpenTask, Begun, Kept
    <3>2. record' = [record EXCEPT ![f] = r]
      BY <2>1 DEF Registered
    <3> HIDE DEF f, r
    <3>3. r # None
      BY <3>1, Bounds
    <3>4. record' \in [File -> Kept \cup {None}]
            /\ \A g \in File : record[g] # None => record'[g] # None
      BY <3>1, <3>2, <3>3, RecordChanges DEF OpenInv
    <3> QED
      BY <2>1, <3>4 DEF OpenInv, TabTypes, QuestionHasARecord
  <2>2. ASSUME NEW f \in FilesWatchedBy(m.watch), record' = [record EXCEPT ![f].open = TRUE], prompt' = f
        PROVE  record' \in [File -> Kept \cup {None}] /\ prompt' \in File \cup {None}
                 /\ QuestionHasARecord'
    <3> DEFINE r == [record[f] EXCEPT !.open = TRUE]
    <3>1. f \in File /\ record[f] # None
      BY DEF FilesWatchedBy
    <3>2. r \in Kept
      BY <3>1, RecordFields DEF OpenInv, Kept
    <3>3. record' = [record EXCEPT ![f] = r]
      BY <2>2
    <3> HIDE DEF r
    <3>4. r # None
      BY <3>2, Bounds
    <3>5. record' \in [File -> Kept \cup {None}] /\ record'[f] = r
      BY <3>1, <3>2, <3>3, <3>4, RecordChanges DEF OpenInv
    <3> QED
      BY <2>2, <3>1, <3>4, <3>5 DEF QuestionHasARecord
  <2>3. CASE UNCHANGED <<record, prompt>>
    BY <2>3 DEF OpenInv, TabTypes, QuestionHasARecord
  <2> QED
    BY <1>5, <2>1, <2>2, <2>3
<1> QED
  BY <1>6, <1>7, <1>8, <1>9 DEF OpenInv, Receive, FileTypes, TabTypes, UploadTypes,
     Requested, WatchTypes, Turns, dialogVars

\* The user closes the prompt.
LEMMA IgnoreKeeps ==
  ASSUME OpenInv, Ignore
  PROVE  OpenInv'
<1> DEFINE r == IF record[prompt] = None THEN None ELSE [record[prompt] EXCEPT !.open = FALSE]
<1>1. prompt \in File /\ prompt' = None
  BY DEF Ignore, OpenInv, TabTypes
<1>2. r \in Kept \cup {None}
  BY <1>1, RecordFields DEF OpenInv, Kept
<1>3. record' = [record EXCEPT ![prompt] = r]
  BY <1>1 DEF Ignore, OpenInv, TabTypes
<1> HIDE DEF r
<1>4. record' \in [File -> Kept \cup {None}]
  BY <1>1, <1>2, <1>3 DEF OpenInv, TabTypes
<1> QED
  BY <1>1, <1>4 DEF OpenInv, Ignore, FileTypes, TabTypes, OpenTypes, WatchTypes,
     UploadTypes, Requested, Begun, Timed, Copied, Fresh, Announced, QuestionHasARecord,
     Turns, dialogVars

\* The fields of an upload.
LEMMA UploadFields ==
  ASSUME UploadTypes, NEW u \in Upload
  PROVE  uploads[u] \in UploadTask /\ uploads[u].session \in Nat
  BY DEF UploadTypes, UploadTask

\* A step of a begun upload keeps the uploads' part.
LEMMA UploadMoves ==
  ASSUME UploadTypes, Requested, NEW u \in Upload, uploads[u].pc # "none",
         NEW pc \in {"asking", "overwriting", "replaced", "refreshing", "done"},
         uploads' = [uploads EXCEPT ![u].pc = pc], agreed \subseteq agreed', pc = "overwriting"
           => u \in agreed'
  PROVE  UploadTypes' /\ Requested'
           /\ \A v \in Upload : uploads'[v].pc = IF v = u THEN pc ELSE uploads[v].pc
<1> DEFINE t == [uploads[u] EXCEPT !.pc = pc]
<1>1. t \in UploadTask /\ t.pc = pc /\ t.file = uploads[u].file /\ t.kept = uploads[u].kept
  BY UploadFields DEF UploadTask
<1>2. uploads' = [uploads EXCEPT ![u] = t]
  OBVIOUS
<1> HIDE DEF t
<1>3. UploadTypes' /\ \A v \in Upload : uploads'[v] = IF v = u THEN t ELSE uploads[v]
  BY <1>1, <1>2 DEF UploadTypes
<1> QED
  BY <1>1, <1>3 DEF Requested

\* The questions stay right while nobody begins or ends to ask.
LEMMA TurnsStay ==
  ASSUME Turns, UNCHANGED dialogVars,
         \A v \in Upload : uploads'[v].pc = "asking" <=> uploads[v].pc = "asking"
  PROVE  Turns'
  BY DEF Turns, dialogVars

\* The answered question leaves and the next one in the queue is shown.
LEMMA NextIsAsked ==
  ASSUME Turns, TabTypes, Asked(asking), resolver # None,
         \A v \in Upload : uploads'[v].pc = "asking" <=> uploads[v].pc = "asking" /\ v # resolver
  PROVE  Turns' /\ asking' \in Seq(Upload) /\ resolver' \in Upload \cup {None}
<1>1. asking \in Seq(Upload)
  BY DEF TabTypes
<1>2. CASE asking = <<>>
  <2>1. resolver' = None /\ shown' = None /\ asking' = <<>>
    BY <1>2 DEF Asked
  <2>2. \A v \in Upload : v # None
    BY Bounds
  <2>3. \A v \in Upload : uploads'[v].pc # "asking"
    BY <1>2 DEF Turns
  <2> QED
    BY <2>1, <2>2, <2>3 DEF Turns
<1>3. CASE asking # <<>>
  <2>1. resolver' = asking[1] /\ shown' = resolver' /\ asking' = Tail(asking)
    BY <1>1, <1>3 DEF Asked
  <2>2. /\ asking' \in Seq(Upload) /\ Len(asking') = Len(asking) - 1 /\ Len(asking) \in Nat
             /\ 1 \in 1..Len(asking)
        /\ \A i \in 1..Len(asking') : asking'[i] = asking[i + 1] /\ i + 1 \in 1..Len(asking)
        /\ \A i \in 2..Len(asking) : i - 1 \in 1..Len(asking') /\ asking'[i - 1] = asking[i]
    BY <1>1, <1>3, <2>1
  <2>3. resolver' \in Upload
    BY <1>1, <2>1, <2>2
  <2>4. resolver' # None
    BY <2>3, Bounds
  <2>5. \A i, j \in 1..Len(asking') : asking'[i] = asking'[j] => i = j
    BY <2>2 DEF Turns
  <2>6. \A i \in 1..Len(asking') : asking'[i] # resolver'
    BY <2>1, <2>2 DEF Turns
  <2>7. ASSUME NEW u \in Upload
        PROVE  (\E i \in 1..Len(asking) : asking[i] = u)
                 <=> u = resolver' \/ \E i \in 1..Len(asking') : asking'[i] = u
    <3>1. \A i \in 1..Len(asking) : i = 1 \/ i \in 2..Len(asking)
      BY <2>2
    <3>2. ASSUME NEW i \in 1..Len(asking), asking[i] = u
          PROVE u = resolver' \/ \E k \in 1..Len(asking') : asking'[k] = u
      BY <2>1, <2>2, <3>1, <3>2
    <3>3. u = resolver' => \E i \in 1..Len(asking) : asking[i] = u
      BY <2>1, <2>2
    <3>4. (\E k \in 1..Len(asking') : asking'[k] = u) => \E i \in 1..Len(asking) : asking[i] = u
      BY <2>2
    <3> QED
      BY <3>2, <3>3, <3>4
  <2>8. \A u \in Upload : uploads[u].pc = "asking"
          /\ u # resolver <=> \E i \in 1..Len(asking) : asking[i] = u
    BY DEF Turns
  <2> QED
    BY <2>1, <2>2, <2>3, <2>4, <2>5, <2>6, <2>7, <2>8 DEF Turns
<1> QED
  BY <1>1, <1>2, <1>3 DEF Asked

\* A conflict is shown at once or waits its turn.
LEMMA OneMoreAsks ==
  ASSUME Turns, TabTypes, NEW u \in Upload, Ask(u), uploads[u].pc # "asking",
         \A v \in Upload : uploads'[v].pc = "asking" <=> uploads[v].pc = "asking" \/ v = u
  PROVE  Turns' /\ asking' \in Seq(Upload) /\ resolver' \in Upload \cup {None}
<1>1. asking \in Seq(Upload)
  BY DEF TabTypes
<1>2. u # None
  BY Bounds
<1>3. CASE resolver = None
  <2>1. Append(asking, u) = <<u>> /\ asking = <<>>
    BY <1>3 DEF Turns
  <2>2. resolver' = u /\ shown' = u /\ asking' = <<>>
    BY <1>3, <2>1 DEF Ask, Asked
  <2> QED
    BY <1>2, <1>3, <2>1, <2>2, Bounds DEF Turns
<1>4. CASE resolver # None
  <2>1. asking' = Append(asking, u) /\ resolver' = resolver /\ shown' = shown
    BY <1>4 DEF Ask
  <2>2. /\ asking' \in Seq(Upload) /\ Len(asking') = Len(asking) + 1 /\ Len(asking) \in Nat
        /\ asking'[Len(asking) + 1] = u /\ Len(asking) + 1 \in 1..Len(asking')
        /\ \A i \in 1..Len(asking) : asking'[i] = asking[i] /\ i \in 1..Len(asking')
        /\ \A i \in 1..Len(asking') : i \in 1..Len(asking) \/ i = Len(asking) + 1
    BY <1>1, <2>1
  <2>3. u # resolver /\ \A i \in 1..Len(asking) : asking[i] # u
    BY DEF Turns
  <2>4. \A i, j \in 1..Len(asking') : asking'[i] = asking'[j] => i = j
    BY <2>2, <2>3 DEF Turns
  <2>5. \A i \in 1..Len(asking') : asking'[i] # resolver'
    BY <2>1, <2>2, <2>3 DEF Turns
  <2>6. \A v \in Upload : (\E i \in 1..Len(asking') : asking'[i] = v)
          <=> v = u \/ \E i \in 1..Len(asking) : asking[i] = v
    BY <2>2
  <2>7. \A v \in Upload : uploads'[v].pc = "asking"
          <=> v = resolver' \/ \E i \in 1..Len(asking') : asking'[i] = v
    BY <2>1, <2>6 DEF Turns
  <2> QED
    BY <1>4, <2>1, <2>2, <2>4, <2>5, <2>7 DEF Turns, TabTypes
<1> QED
  BY <1>3, <1>4

\* The user accepts the prompt and an upload begins.
LEMMA StartKeeps ==
  ASSUME OpenInv, NEW u \in Upload, Accept(u), ~UNCHANGED uploads
  PROVE  OpenInv'
<1>1. prompt \in File /\ record[prompt] # None /\ prompt' = None /\ uploads[u].pc = "none"
  BY DEF Accept, OpenInv, TabTypes
<1> DEFINE t == [pc |-> "sending", file |-> prompt, kept |-> record[prompt], session |-> session]
<1> DEFINE r == [record[prompt] EXCEPT !.open = FALSE]
<1>2. t \in UploadTask /\ t.pc = "sending" /\ t.file \in File /\ t.kept \in Kept
  BY <1>1, RecordFields DEF OpenInv, FileTypes, UploadTask
<1>3. r \in Kept
  BY <1>1, RecordFields DEF OpenInv, Kept
<1>4. uploads' = [uploads EXCEPT ![u] = t] /\ record' = [record EXCEPT ![prompt] = r]
        /\ agreed' = agreed
  BY DEF Accept, StartUpload
<1> HIDE DEF t, r
<1>5. UploadTypes' /\ \A v \in Upload : uploads'[v] = IF v = u THEN t ELSE uploads[v]
  BY <1>2, <1>4 DEF OpenInv, UploadTypes
<1>6. Requested'
  BY <1>2, <1>4, <1>5 DEF OpenInv, Requested
<1>7. \A v \in Upload : uploads'[v].pc = "asking" <=> uploads[v].pc = "asking"
  BY <1>1, <1>2, <1>5
<1>8. Turns'
  BY <1>7, TurnsStay DEF OpenInv, Accept
<1>9. record' \in [File -> Kept \cup {None}]
  BY <1>1, <1>3, <1>4 DEF OpenInv, TabTypes
<1> QED
  BY <1>1, <1>5, <1>6, <1>8, <1>9 DEF OpenInv, Accept, FileTypes, TabTypes, OpenTypes,
     WatchTypes, Begun, Timed, Copied, Fresh, Announced, QuestionHasARecord, dialogVars

\* The user accepts the prompt: an upload begins, or the question is closed
\* as if it had been ignored.
LEMMA AcceptKeeps ==
  ASSUME OpenInv, NEW u \in Upload, Accept(u)
  PROVE  OpenInv'
<1>1. CASE UNCHANGED uploads
  <2>1. Ignore
    BY <1>1 DEF Accept, Ignore
  <2> QED
    BY <2>1, IgnoreKeeps
<1> QED
  BY <1>1, StartKeeps

\* The remote file is replaced, by a checked or by an agreed request.
LEMMA ReplaceKeeps ==
  ASSUME OpenInv, NEW u \in Upload, Send(u) \/ Overwrite(u)
  PROVE  OpenInv'
<1>1. /\ uploads[u].pc \in {"sending", "overwriting"}
           /\ uploads' = [uploads EXCEPT ![u].pc = "replaced"]
      /\ remote' = [remote EXCEPT ![uploads[u].file] = @ + 1] /\ agreed' = agreed
           /\ UNCHANGED dialogVars
      /\ UNCHANGED <<listed, local, cached, session, opening, watches, inbox, record, prompt, budget>>
  BY DEF Send, Overwrite, Replace
<1>2. uploads[u].file \in File
  BY <1>1 DEF OpenInv, Requested
<1>3. UploadTypes' /\ Requested'
        /\ \A v \in Upload : uploads'[v].pc = IF v = u THEN "replaced" ELSE uploads[v].pc
  BY <1>1, UploadMoves DEF OpenInv
<1>4. Turns'
  BY <1>1, <1>3, TurnsStay DEF OpenInv
<1>5. FileTypes'
  BY <1>1, <1>2 DEF OpenInv, FileTypes
<1> QED
  BY <1>1, <1>3, <1>4, <1>5 DEF OpenInv, TabTypes, OpenTypes, WatchTypes, Begun, Timed,
     Copied, Fresh, Announced, QuestionHasARecord, dialogVars

\* The server refuses the upload for another snapshot and the dialog is
\* asked.
LEMMA ConflictKeeps ==
  ASSUME OpenInv, NEW u \in Upload, Conflict(u)
  PROVE  OpenInv'
<1>1. uploads[u].pc = "sending" /\ agreed' = agreed
  BY DEF Conflict
<1>2. UploadTypes' /\ Requested' /\ Turns' /\ asking' \in Seq(Upload)
        /\ resolver' \in Upload \cup {None}
  <2>1. CASE uploads' = [uploads EXCEPT ![u].pc = "asking"] /\ Ask(u)
    <3>1. UploadTypes' /\ Requested'
            /\ \A v \in Upload : uploads'[v].pc = IF v = u THEN "asking" ELSE uploads[v].pc
      BY <1>1, <2>1, UploadMoves DEF OpenInv
    <3> QED
      BY <1>1, <2>1, <3>1, OneMoreAsks DEF OpenInv
  <2>2. CASE uploads' = [uploads EXCEPT ![u].pc = "done"] /\ UNCHANGED dialogVars
    <3>1. UploadTypes' /\ Requested'
            /\ \A v \in Upload : uploads'[v].pc = IF v = u THEN "done" ELSE uploads[v].pc
      BY <1>1, <2>2, UploadMoves DEF OpenInv
    <3>2. Turns'
      BY <1>1, <2>2, <3>1, TurnsStay DEF OpenInv
    <3> QED
      BY <2>2, <3>1, <3>2 DEF OpenInv, TabTypes, dialogVars
  <2> QED
    BY <2>1, <2>2 DEF Conflict
<1> QED
  BY <1>2 DEF OpenInv, Conflict, FileTypes, TabTypes, OpenTypes, WatchTypes, Begun, Timed,
     Copied, Fresh, Announced, QuestionHasARecord

\* The user answers the question shown.
LEMMA AnswerKeeps ==
  ASSUME OpenInv, Answer
  PROVE  OpenInv'
<1>1. resolver \in Upload /\ resolver # None /\ shown = resolver
        /\ uploads[resolver].pc = "asking" /\ Asked(asking)
  BY DEF Answer, OpenInv, TabTypes, Turns
<1>2. PICK pc \in {"overwriting", "done"} : /\ uploads' = [uploads EXCEPT ![resolver].pc = pc]
                                            /\ agreed' = IF pc = "overwriting" THEN agreed \cup {shown} ELSE agreed
  BY DEF Answer
<1>3. agreed \subseteq agreed' /\ agreed' \subseteq Upload
        /\ (pc = "overwriting" => resolver \in agreed')
  BY <1>1, <1>2 DEF OpenInv, TabTypes
<1>4. UploadTypes' /\ Requested'
        /\ \A v \in Upload : uploads'[v].pc = IF v = resolver THEN pc ELSE uploads[v].pc
  <2>1. uploads[resolver].pc # "none"
          /\ pc \in {"asking", "overwriting", "replaced", "refreshing", "done"}
    BY <1>1
  <2> QED
    BY <1>1, <1>2, <1>3, <2>1, UploadMoves DEF OpenInv
<1>5. Turns' /\ asking' \in Seq(Upload) /\ resolver' \in Upload \cup {None}
  BY <1>1, <1>4, NextIsAsked DEF OpenInv
<1> QED
  BY <1>3, <1>4, <1>5 DEF OpenInv, Answer, FileTypes, TabTypes, OpenTypes, WatchTypes,
     Begun, Timed, Copied, Fresh, Announced, QuestionHasARecord

\* The upload is answered and the snapshot taken over.
LEMMA RespondKeeps ==
  ASSUME OpenInv, NEW u \in Upload, Respond(u)
  PROVE  OpenInv'
<1>1. uploads[u].pc = "replaced" /\ agreed' = agreed /\ UNCHANGED dialogVars
  BY DEF Respond
<1>2. uploads[u].file \in File /\ uploads[u].kept \in Kept
  BY <1>1 DEF OpenInv, Requested
<1>3. PICK pc \in {"refreshing", "done"} : uploads' = [uploads EXCEPT ![u].pc = pc]
  BY DEF Respond
<1>4. UploadTypes' /\ Requested'
        /\ \A v \in Upload : uploads'[v].pc = IF v = u THEN pc ELSE uploads[v].pc
  <2>1. uploads[u].pc # "none" /\ pc # "overwriting"
          /\ pc \in {"asking", "overwriting", "replaced", "refreshing", "done"}
    BY <1>1
  <2> QED
    BY <1>1, <1>3, <2>1, UploadMoves DEF OpenInv
<1>5. Turns'
  BY <1>1, <1>4, TurnsStay DEF OpenInv
<1> DEFINE f == uploads[u].file
           r == [uploads[u].kept EXCEPT !.snapshot = remote[uploads[u].file], !.open = FALSE]
<1>6. f \in File /\ r \in Kept
  BY <1>2 DEF OpenInv, FileTypes, Kept
<1>7. record' = record \/ record' = [record EXCEPT ![f] = r]
  BY DEF Respond, Written
<1> HIDE DEF f, r
<1>8. record' \in [File -> Kept \cup {None}] /\ \A g \in File : record[g] # None => record'[g] # None
  <2>1. r # None
    BY <1>6, Bounds
  <2> QED
    BY <1>6, <1>7, <2>1, RecordChanges DEF OpenInv, TabTypes
<1>9. TabTypes' /\ QuestionHasARecord'
  BY <1>1, <1>8 DEF OpenInv, TabTypes, QuestionHasARecord, Respond, dialogVars
<1> QED
  BY <1>4, <1>5, <1>9 DEF OpenInv, Respond, FileTypes, OpenTypes, WatchTypes, Begun, Timed,
     Copied, Fresh, Announced

\* The listing is read again after an upload.
LEMMA RefreshKeeps ==
  ASSUME OpenInv, NEW u \in Upload, Refresh(u)
  PROVE  OpenInv'
<1> DEFINE f == uploads[u].file
           r == IF record[f] = None THEN None ELSE [record[f] EXCEPT !.snapshot = listed'[f]]
<1>1. /\ uploads[u].pc = "refreshing" /\ agreed' = agreed /\ UNCHANGED dialogVars
      /\ uploads' = [uploads EXCEPT ![u].pc = "done"] /\ listed' = [listed EXCEPT ![f] = remote[f]]
  BY DEF Refresh
<1>2. f \in File
  BY <1>1 DEF OpenInv, Requested
<1>3. UploadTypes' /\ Requested'
        /\ \A v \in Upload : uploads'[v].pc = IF v = u THEN "done" ELSE uploads[v].pc
  BY <1>1, UploadMoves DEF OpenInv
<1>4. Turns'
  BY <1>1, <1>3, TurnsStay DEF OpenInv
<1>5. listed' \in [File -> Nat]
  BY <1>1, <1>2 DEF OpenInv, FileTypes
<1>6. r \in Kept \cup {None} /\ (record[f] # None => r \in Kept)
  BY <1>2, <1>5, RecordFields DEF OpenInv, Kept
<1>7. record' = [record EXCEPT ![f] = r]
  BY <1>2 DEF Refresh, OpenInv, TabTypes
<1> HIDE DEF f, r
<1>8. record' \in [File -> Kept \cup {None}] /\ \A g \in File : record[g] # None => record'[g] # None
  <2>1. record[f] # None => r # None
    BY <1>6, Bounds
  <2> QED
    BY <1>2, <1>6, <1>7, <2>1, RecordChanges DEF OpenInv
<1>9. TabTypes' /\ QuestionHasARecord'
  BY <1>1, <1>8 DEF OpenInv, TabTypes, QuestionHasARecord, Refresh, dialogVars
<1>10. FileTypes'
  BY <1>5 DEF OpenInv, FileTypes, Refresh
<1> QED
  BY <1>3, <1>4, <1>9, <1>10 DEF OpenInv, Refresh, OpenTypes, WatchTypes, Begun, Timed,
     Copied, Fresh, Announced

\* An upload fails.
LEMMA FailToUploadKeeps ==
  ASSUME OpenInv, NEW u \in Upload, FailToUpload(u)
  PROVE  OpenInv'
<1>1. /\ uploads[u].pc \in {"sending", "overwriting", "replaced", "refreshing"}
      /\ uploads' = [uploads EXCEPT ![u].pc = "done"] /\ agreed' = agreed /\ UNCHANGED dialogVars
  BY DEF FailToUpload
<1>2. UploadTypes' /\ Requested'
        /\ \A v \in Upload : uploads'[v].pc = IF v = u THEN "done" ELSE uploads[v].pc
  BY <1>1, UploadMoves DEF OpenInv
<1>3. Turns'
  BY <1>1, <1>2, TurnsStay DEF OpenInv
<1> QED
  BY <1>2, <1>3 DEF OpenInv, FailToUpload, FileTypes, TabTypes, OpenTypes, WatchTypes,
     Begun, Timed, Copied, Fresh, Announced, QuestionHasARecord, dialogVars

\* The session is lost: the tab forgets its files, and the watches and the
\* dialog stay.
LEMMA ResetKeeps ==
  ASSUME OpenInv, Reset
  PROVE  OpenInv'
<1>1. /\ opening' = opening /\ local' = local /\ inbox' = inbox /\ agreed' = agreed
      /\ record' = [f \in File |-> None] /\ prompt' = None /\ session' = session + 1
      /\ cached' = [f \in File |-> None] /\ remote' = [f \in File |-> remote[f] + 1]
           /\ listed' = remote'
      /\ budget' = [budget EXCEPT !.resets = @ - 1] /\ budget.resets > 0
  BY DEF Reset, StopAll
<1>2. Onward
  BY <1>1, NothingOpens
<1>3. WatchTypes' /\ Timed'
  BY <1>1, <1>2, WatchesStop DEF OpenInv, Reset, StopAll
<1>4. budget' \in [saves : Nat, foreign : Nat, resets : Nat] /\ budget'.saves = budget.saves
  BY <1>1 DEF OpenInv, FileTypes
<1>5. FileTypes'
  BY <1>1, <1>4 DEF OpenInv, FileTypes
<1>6. Copied' /\ Announced'
  BY <1>1, <1>2, <1>4, CopiesStay, MessagesStay DEF OpenInv
<1>7. resolver' = None /\ shown' = None /\ asking' = <<>>
  BY DEF Reset, Asked
<1>8. \A u \in Upload : [uploads[u] EXCEPT !.pc = "done"] \in UploadTask
  BY UploadFields DEF OpenInv, UploadTask
<1>9. uploads' = [u \in Upload |-> IF uploads[u].pc = "asking" THEN [uploads[u] EXCEPT !.pc = "done"] ELSE uploads[u]]
  BY DEF Reset
<1>10. UploadTypes'
  BY <1>8, <1>9 DEF OpenInv, UploadTypes
<1>11. \A u \in Upload : /\ uploads'[u].pc = IF uploads[u].pc = "asking" THEN "done" ELSE uploads[u].pc
                         /\ uploads'[u].file = uploads[u].file /\ uploads'[u].kept = uploads[u].kept
  BY <1>9, UploadFields DEF OpenInv, UploadTask
<1>12. Requested'
  BY <1>1, <1>11 DEF OpenInv, Requested
<1>13. Turns'
  BY <1>7, <1>11, Bounds DEF Turns
<1>14. TabTypes' /\ QuestionHasARecord'
  BY <1>1, <1>7 DEF OpenInv, TabTypes, QuestionHasARecord
<1> QED
  BY <1>1, <1>3, <1>5, <1>6, <1>10, <1>12, <1>13, <1>14 DEF OpenInv, OpenTypes, Begun

\* Somebody else changes a remote file.
LEMMA ForeignChangeKeeps ==
  ASSUME OpenInv, NEW f \in File, ForeignChange(f)
  PROVE  OpenInv'
<1>1. budget' = [budget EXCEPT !.foreign = @ - 1] /\ budget.foreign > 0
        /\ remote' = [remote EXCEPT ![f] = @ + 1]
  BY DEF ForeignChange
<1>2. budget' \in [saves : Nat, foreign : Nat, resets : Nat] /\ budget'.saves = budget.saves
  BY <1>1 DEF OpenInv, FileTypes
<1>3. FileTypes'
  BY <1>1, <1>2 DEF OpenInv, FileTypes, ForeignChange
<1>4. Copied'
  BY <1>2 DEF OpenInv, Copied, Fresh, ForeignChange
<1> QED
  BY <1>3, <1>4 DEF OpenInv, ForeignChange, TabTypes, OpenTypes, WatchTypes, UploadTypes,
     Requested, Begun, Timed, Announced, QuestionHasARecord, Turns, dialogVars

-----------------------------------------------------------------------------
(* The invariant is inductive, and what follows from it.                   *)

\* The invariant holds when the tab opens.
LEMMA InitHolds ==
  ASSUME Init
  PROVE  OpenInv
<1>1. FileTypes
  BY BoundsAreNumbers DEF Init, FileTypes
<1>2. TabTypes
  BY DEF Init, TabTypes
<1>3. OpenTypes /\ Begun
  BY DEF Init, OpenTypes, OpenTask, NoOpen, Begun
<1>4. WatchTypes /\ Timed
  BY NoWatchFields DEF Init, WatchTypes, Timed
<1>5. UploadTypes /\ Requested
  BY DEF Init, UploadTypes, UploadTask, NoUpload, Requested
<1>6. Fresh = 1..NumOpens
  BY DEF Init, NoOpen, Fresh, Open
<1>7. Cardinality(Fresh) = NumOpens
  BY <1>6, Bounds, FS_Interval
<1>8. Copied
  BY <1>7, Bounds DEF Init, Copied, MaxLocal
<1>9. Announced /\ QuestionHasARecord
  BY DEF Init, Announced, QuestionHasARecord
<1>10. Turns
  BY Bounds DEF Init, NoUpload, Turns
<1> QED
  BY <1>1, <1>2, <1>3, <1>4, <1>5, <1>8, <1>9, <1>10 DEF OpenInv

\* Every step keeps the invariant.
LEMMA StepKeeps ==
  ASSUME OpenInv, [Next]_vars
  PROVE  OpenInv'
<1>1. CASE \E o \in Open : \/ OpenFile(o) \/ Download(o) \/ FailToOpen(o) \/ Launch(o)
  BY <1>1, OpenFileKeeps, DownloadKeeps, FailToOpenKeeps, LaunchKeeps
<1>2. CASE \E o \in Open : \/ ReadSignature(o) \/ StartWatching(o) \/ CheckForChange(o) \/ ReportChange(o)
                           \/ LoseFile(o) \/ Save(o)
  BY <1>2, ReadSignatureKeeps, StartWatchingKeeps, CheckForChangeKeeps, ReportChangeKeeps,
     LoseFileKeeps, SaveKeeps
<1>3. CASE \E u \in Upload : \/ Accept(u) \/ Send(u) \/ Conflict(u) \/ Overwrite(u) \/ Respond(u)
                             \/ Refresh(u) \/ FailToUpload(u)
  BY <1>3, AcceptKeeps, ReplaceKeeps, ConflictKeeps, RespondKeeps, RefreshKeeps,
     FailToUploadKeeps
<1>4. CASE Receive \/ Ignore \/ Answer \/ Reset \/ \E f \in File : ForeignChange(f)
  BY <1>4, ReceiveKeeps, IgnoreKeeps, AnswerKeeps, ResetKeeps, ForeignChangeKeeps
<1>5. CASE UNCHANGED vars
  BY <1>5 DEF OpenInv, vars, dialogVars, FileTypes, TabTypes, OpenTypes, WatchTypes,
     UploadTypes, Requested, Begun, Timed, Copied, Fresh, Announced, QuestionHasARecord,
     Turns
<1> QED
  BY <1>1, <1>2, <1>3, <1>4, <1>5 DEF Next

\* As many are in a queue without repetition as it is long.
LEMMA Counted ==
  ASSUME NEW q \in Seq(Upload), \A i, j \in 1..Len(q) : q[i] = q[j] => i = j
  PROVE  Cardinality({q[i] : i \in 1..Len(q)}) = Len(q)
<1> DEFINE S == {q[i] : i \in 1..Len(q)}
           b == [i \in 1..Len(q) |-> q[i]]
<1>1. Len(q) \in Nat
  OBVIOUS
<1>2. IsFiniteSet(1..Len(q)) /\ Cardinality(1..Len(q)) = Len(q)
  <2>1. \A n \in Nat : IsFiniteSet(1..n) /\ Cardinality(1..n) = n
    BY FS_Interval
  <2> QED
    BY <1>1, <2>1
<1>3. b \in Bijection(1..Len(q), S)
  BY DEF Bijection, Injection, Surjection, IsInjective
<1>4. ExistsBijection(1..Len(q), S)
  BY <1>3 DEF ExistsBijection
<1> QED
  BY <1>2, <1>4, FS_Bijection

\* The inductive invariant implies the safety properties.
LEMMA OpenInvIsSafe ==
  ASSUME OpenInv
  PROVE  OpenWithIsSafe
<1>1. TypeOK
  <2>1. \A f \in File : (record[f] # None => record[f].watch \in Open) /\ cached[f] \in Open \cup {None}
    BY RecordFields DEF OpenInv, FileTypes
  <2>2. \A i \in DOMAIN asking : asking[i] \in Upload
    BY DEF OpenInv, TabTypes
  <2>3. \A o \in Open : watches[o].checks \subseteq 1..MaxLocal
    BY WatchFields DEF OpenInv
  <2> QED
    BY <2>1, <2>2, <2>3 DEF TypeOK, OpenInv, TabTypes
<1>2. ConflictsTakeTurns
  <2> DEFINE queue == IF resolver = None THEN asking ELSE <<resolver>> \o asking
  <2>1. asking \in Seq(Upload) /\ resolver \in Upload \cup {None}
    BY DEF OpenInv, TabTypes
  <2>2. queue \in Seq(Upload)
    BY <2>1
  <2>3. CASE resolver = None
    <3>1. queue = <<>> /\ Len(queue) = 0
      BY <2>3 DEF OpenInv, Turns
    <3>2. \A i, j \in 1..Len(queue) : queue[i] = queue[j] => i = j
      BY <3>1
    <3>3. \A u \in Upload : uploads[u].pc # "asking"
      BY <2>3, <3>1, Bounds DEF OpenInv, Turns
    <3>4. {queue[i] : i \in 1..Len(queue)} = {u \in Upload : uploads[u].pc = "asking"}
      BY <3>1, <3>3
    <3>5. Cardinality({queue[i] : i \in 1..Len(queue)}) = Len(queue)
      BY <2>2, <3>2, Counted
    <3>6. shown = resolver /\ asking = <<>>
      BY <2>3 DEF OpenInv, Turns
    <3> HIDE DEF queue
    <3> QED
      BY <3>4, <3>5, <3>6 DEF ConflictsTakeTurns, queue
  <2>4. CASE resolver # None
    <3>1. /\ Len(queue) = Len(asking) + 1 /\ Len(asking) \in Nat /\ queue[1] = resolver
               /\ 1 \in 1..Len(queue)
          /\ \A i \in 1..Len(asking) : queue[i + 1] = asking[i] /\ i + 1 \in 1..Len(queue)
          /\ \A i \in 1..Len(queue) : i = 1 \/ (i - 1 \in 1..Len(asking) /\ queue[i] = asking[i - 1])
      BY <2>1, <2>4
    <3> HIDE DEF queue
    <3>2. \A i, j \in 1..Len(queue) : queue[i] = queue[j] => i = j
      BY <3>1 DEF OpenInv, Turns
    <3>3. \A u \in Upload : uploads[u].pc = "asking" <=> \E i \in 1..Len(queue) : queue[i] = u
      <4>1. \A u \in Upload : (u = resolver \/ \E i \in 1..Len(asking) : asking[i] = u)
              => \E i \in 1..Len(queue) : queue[i] = u
        BY <3>1
      <4>2. \A i \in 1..Len(queue) : queue[i] = resolver \/ \E k \in 1..Len(asking) : asking[k] = queue[i]
        BY <3>1
      <4> QED
        BY <4>1, <4>2 DEF OpenInv, Turns
    <3>4. \A i \in 1..Len(queue) : queue[i] \in Upload
      BY <2>2
    <3>5. {queue[i] : i \in 1..Len(queue)} = {u \in Upload : uploads[u].pc = "asking"}
      BY <3>3, <3>4
    <3>6. Cardinality({queue[i] : i \in 1..Len(queue)}) = Len(queue)
      BY <2>2, <3>2, Counted
    <3> QED
      BY <2>4, <3>5, <3>6 DEF ConflictsTakeTurns, OpenInv, Turns, queue
  <2> QED
    BY <2>3, <2>4
<1> QED
  BY <1>1, <1>2 DEF OpenWithIsSafe, OpenInv

\* The inductive invariant holds in every reachable state.
THEOREM OpenInvAlways == Spec => []OpenInv
<1>1. Init => OpenInv
  BY InitHolds
<1>2. OpenInv /\ [Next]_vars => OpenInv'
  BY StepKeeps
<1> QED
  BY <1>1, <1>2, PTL DEF Spec

\* The open-with flow of the SFTP page and of openWithFileWatchers in the
\* main process is safe for every set of files and every number of openings,
\* uploads, saves, foreign changes and resets: the upload prompt names a file
\* the page still keeps a record of; the conflict dialog shows the task its
\* answer goes to, exactly the uploads that ask are shown or queued, each
\* once, and none stays behind when the dialog closes or the connection
\* changes; and a check reads a version the copy can have.
THEOREM OpenWithAlwaysSafe == Spec => []OpenWithIsSafe
<1>1. OpenInv => OpenWithIsSafe
  BY OpenInvIsSafe
<1> QED
  BY <1>1, OpenInvAlways, PTL

\* A step that replaces a remote file found the kept snapshot or was agreed.
LEMMA StepIsAgreed ==
  ASSUME OpenInv, [Next]_vars, NEW u \in Upload,
         uploads[u].pc \in {"sending", "overwriting"}, uploads'[u].pc = "replaced"
  PROVE  remote[uploads[u].file] = uploads[u].kept.snapshot \/ u \in agreed
<1>1. CASE uploads[u].pc = "overwriting"
  BY <1>1 DEF OpenInv, Requested
<1>2. CASE uploads[u].pc = "sending"
  <2>1. PICK v \in Upload : \/ Accept(v) \/ Send(v) \/ Conflict(v) \/ Overwrite(v) \/ Respond(v)
                            \/ Refresh(v) \/ FailToUpload(v) \/ Answer \/ Reset
    BY <1>2 DEF Next, vars, OpenFile, Download, FailToOpen, Launch, ReadSignature,
       StartWatching, CheckForChange, ReportChange, LoseFile, Save, Receive, Ignore,
       ForeignChange
  <2>2. CASE Send(v)
    <3>1. v = u
      BY <1>2, <2>2 DEF Send, Replace, OpenInv, UploadTypes
    <3> QED
      BY <2>2, <3>1 DEF Send, Matches
  <2>3. CASE Overwrite(v)
    BY <1>2, <2>3 DEF Overwrite, Replace, OpenInv, UploadTypes
  <2>4. CASE Accept(v) \/ Conflict(v) \/ Respond(v) \/ Refresh(v) \/ FailToUpload(v)
    BY <1>2, <2>4, UploadFields DEF Accept, StartUpload, Conflict, Respond, Refresh, FailToUpload,
       OpenInv, UploadTypes, UploadTask
  <2>5. CASE Answer
    BY <1>2, <2>5, UploadFields DEF Answer, OpenInv, UploadTypes, UploadTask
  <2>6. CASE Reset
    BY <1>2, <2>6, UploadFields DEF Reset, OpenInv, UploadTypes, UploadTask
  <2> QED
    BY <2>1, <2>2, <2>3, <2>4, <2>5, <2>6
<1> QED
  BY <1>1, <1>2

\* An upload replaces a remote file that is no longer the version its record
\* named only if the user accepted the conflict dialog of uploadOpenedFile
\* while it showed this upload, however uploads, foreign changes, refreshes
\* and resets interleave.
THEOREM OverwritesAlwaysAgreed == Spec => OverwritesAreAgreed
<1>1. OpenInv /\ [Next]_vars =>
        [\A u \in Upload : (uploads[u].pc \in {"sending", "overwriting"} /\ uploads'[u].pc = "replaced")
               => remote[uploads[u].file] = uploads[u].kept.snapshot \/ u \in agreed]_vars
  BY StepIsAgreed
<1> QED
  BY <1>1, OpenInvAlways, PTL DEF Spec, OverwritesAreAgreed
=============================================================================
