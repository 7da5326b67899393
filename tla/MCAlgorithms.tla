--------------------------- MODULE MCAlgorithms ----------------------------
(***************************************************************************)
(* Pure algorithms against references that do not follow their steps.  A   *)
(* behaviour chooses the raw paths two tasks claim, or schedules and       *)
(* releases tasks, which builds the queues dispatch scans, or feeds the    *)
(* parser of remote shell events one character after the other.            *)
(***************************************************************************)
EXTENDS MCSftpTaskScheduler, RemoteShellEvents

CONSTANTS MaxDepth,    \* segments in an absolute raw path
          MaxClaims,   \* raw paths claimed by the left task; the right one claims one
          MaxStream    \* characters of shell output

VARIABLES left, right,            \* the raw claims of two tasks
          stream, parser, visible \* shell output, the parser, what it let out

claims == <<left, right>>
shell  == <<stream, parser, visible>>

Untouched == sequence = 0 /\ \A t \in Task : spec[t] = Archive  \* one of the initial states

Spelling(depth) == UNION {[1..n -> Segment] : n \in 0..depth}
RawPath == [absolute : {TRUE}, segments : Spelling(MaxDepth)]
             \cup [absolute : {FALSE}, segments : Spelling(1)]

ClaimLeft(raw) ==
    /\ Cardinality(left) < MaxClaims
    /\ left' = left \cup {raw}
    /\ UNCHANGED right

ClaimRight(raw) ==
    /\ right = {}
    /\ right' = {raw}
    /\ UNCHANGED left

ChoosePaths ==
    /\ Untouched /\ stream = << >>
    /\ \E raw \in RawPath : ClaimLeft(raw) \/ ClaimRight(raw)
    /\ UNCHANGED <<vars, shell>>

Release(t) ==
    /\ t \in active
    /\ Dispatch(queue, active \ {t}, [state EXCEPT ![t] = "succeeded"], runner)
    /\ UNCHANGED <<spec, sequence, records, failure, abortReason, released>>

FillQueue ==
    /\ left = {} /\ right = {} /\ stream = << >>
    /\ Schedule(FALSE) \/ \E t \in Task : Release(t)
    /\ UNCHANGED <<claims, shell>>

Emit(char) ==
    LET step == ParseChar(parser, char)
    IN  /\ stream' = Append(stream, char)
        /\ parser' = step.parser
        /\ visible' = visible \o step.out

FeedParser ==
    /\ Untouched /\ left = {} /\ right = {}
    /\ Len(stream) < MaxStream
    /\ \E char \in Character : Emit(char)
    /\ UNCHANGED <<vars, claims>>

AlgorithmsInit == Init /\ left = {} /\ right = {} /\ stream = << >> /\ parser = Idle /\ visible = << >>

AlgorithmsSpec ==
    AlgorithmsInit /\ [][ChoosePaths \/ FillQueue \/ FeedParser]_<<vars, claims, shell>>

-----------------------------------------------------------------------------
(* Claims                                                                  *)

\* What an absolute path denotes, read from its end: a name counts unless a
\* later ".." that is not already spent takes it back.
Denotes(raw) ==
    LET Read(segment, acc) ==
            CASE segment = Dot    -> acc
              [] segment = DotDot -> [acc EXCEPT !.pending = @ + 1]
              [] OTHER            -> IF acc.pending > 0
                                     THEN [acc EXCEPT !.pending = @ - 1]
                                     ELSE [acc EXCEPT !.path = <<segment>> \o @]
    IN  FoldRight(Read, raw.segments, [pending |-> 0, path |-> Root]).path

Within(inner, outer) == \E n \in 0..Len(inner) : SubSeq(inner, 1, n) = outer

\* Two spellings of one absolute directory ("/a/../b" and "/b") get the same
\* claim, the one an independent reading of the path yields; otherwise an
\* alias would let two tasks run on the same directory (normalizeSftpTaskClaimPath).
AliasesShareAClaim ==
    \A raw \in left : raw.absolute => NormalizeSftpTaskClaimPath(raw) = Denotes(raw)

\* Dropping the claims another claim covers loses nothing: every path a task
\* named lies at or under exactly one claim it keeps (normalizeSftpTaskClaims).
EveryPathIsCoveredOnce ==
    \A raw \in left :
        Cardinality({c \in NormalizeSftpTaskClaims(left) : Within(NormalizeSftpTaskClaimPath(raw), c)}) = 1

\* Two tasks are serialized exactly when some path of one lies at, under or
\* above some path of the other: minimizing claims neither hides a conflict
\* nor invents one (doClaimSetsConflict on normalized claims).
ConflictsAreExact ==
    DoClaimSetsConflict(NormalizeSftpTaskClaims(left), NormalizeSftpTaskClaims(right)) <=>
        \E l \in left, r \in right :
            LET p == NormalizeSftpTaskClaimPath(l)
                q == NormalizeSftpTaskClaimPath(r)
            IN  Within(p, q) \/ Within(q, p)

\* Claims stand for the paths they were made from: aliases, coverage, conflicts.
ClaimsAreExact == AliasesShareAClaim /\ EveryPathIsCoveredOnce /\ ConflictsAreExact

-----------------------------------------------------------------------------
(* Dispatch                                                                *)

\* findNextRunnableIndex on the queue as the array it is; 0 stands for -1.
FindNextRunnableIndex(q, a) ==
    LET exclusives == {i \in DOMAIN q : Exclusive(q[i])}
        scanLength == IF exclusives = {} THEN Len(q) ELSE Min(exclusives)
        Eligible(i) ==
            IF Exclusive(q[i])
            THEN i = 1 /\ a = {}
            ELSE /\ HasCapacityFor(q[i], a)
                 /\ ~ConflictsWithActive(q[i], a)
                 /\ \A j \in 1..(i - 1) : ~Conflict(q[i], q[j])
        eligible == {i \in 1..scanLength : Eligible(i)}
    IN  IF eligible = {} THEN 0 ELSE Min(eligible)

\* dispatch: the owners after the loop that starts from q and a.
RECURSIVE DispatchLoop(_, _)
DispatchLoop(q, a) ==
    LET i == FindNextRunnableIndex(q, a)
    IN  IF i = 0 THEN a ELSE DispatchLoop(RemoveAt(q, i), a \cup {q[i]})

\* Whoever gives up a slot, the loop that rescans the queue from its head after
\* each start starts exactly the tasks one pass in queue order admits.
OnePassIsTheLoop ==
    \A t \in active :
        LET owners == active \ {t}
            array  == SetToSortSeq(queue, LAMBDA u, v : u < v)
        IN  \A started \in SUBSET queue :
                Dispatches(queue, owners, started) <=>
                    owners \cup started = DispatchLoop(array, owners)

-----------------------------------------------------------------------------
(* Remote shell events                                                     *)

\* What a stream says, read as a whole: from each position either a sequence up
\* to its terminator, or text.  The end of the stream is held back while it may
\* still become a sequence.  An ESC counts against the cap like any character,
\* and in a sequence over the cap it hides a BEL that follows it.
Reading(w) ==
    LET Overlong(i, j) == j - i > Len(Prefix) + PayloadMax
        Terminates(i, j) ==
            \/ w[j] = Bell /\ ~(Overlong(i, j) /\ w[j - 1] = Esc)
            \/ w[j] = Backslash /\ j > i + Len(Prefix) /\ w[j - 1] = Esc
        Ends(i)  == {j \in (i + Len(Prefix))..Len(w) : Terminates(i, j)}
        Payload(i, j) ==
            SubSeq(w, i + Len(Prefix), IF w[j] = Bell THEN j - 1 ELSE j - 2)
        Event(i, j) ==
            IF ~Overlong(i, j) /\ IsEvent(Payload(i, j)) THEN <<Payload(i, j)>> ELSE << >>
        Starts(i) == IsPrefix(Prefix, SubSeq(w, i, Len(w)))
        Unclear(i) == IsPrefix(SubSeq(w, i, Len(w)), Prefix)
        TextEnd(i) == Min({j \in i..Len(w) : ~IsPrefix(SubSeq(w, i, j), Prefix)})
        read[i \in 1..(Len(w) + 1)] ==
            IF Starts(i)
            THEN IF Ends(i) = {} THEN << >>
                 ELSE Event(i, Min(Ends(i))) \o read[Min(Ends(i)) + 1]
            ELSE IF Unclear(i) THEN << >>
            ELSE SubSeq(w, i, TextEnd(i)) \o read[TextEnd(i) + 1]
    IN  read[1]

\* However the output of a shell is cut into chunks, every character that is in
\* no event sequence comes out, once, in its place among the events; sequences
\* are stripped, and those too long or malformed yield no event
\* (RemoteShellEventOscParser.parse).
StreamIsFaithful == visible = Reading(stream)
=============================================================================
