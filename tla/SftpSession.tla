---------------------------- MODULE SftpSession ----------------------------
(***************************************************************************)
(* One live SFTP session of SftpSessionService: how it is created, how its *)
(* tasks run requests under runGuardedSftpOperation, how the public task   *)
(* records are retained, and how the session ends, by a close call, by its *)
(* transport, or because one request timed out and poisoned it.            *)
(*                                                                         *)
(* The scheduler appears only as the order-free admission of queued tasks; *)
(* SftpTaskScheduler is its model.  The archive service appears as the one *)
(* wait of closeSession; ArchiveOperation is its model.                    *)
(***************************************************************************)
EXTENDS Naturals, Sequences, FiniteSets

CONSTANTS NumTasks,     \* tasks and legacy requests a client may start
          Operations,   \* operations a client may ask for
          RecordLimit   \* SFTP_TASK_RECORD_LIMIT_PER_SESSION

ASSUME SessionAssumption ==
    /\ NumTasks \in Nat
    /\ Operations \subseteq {"list", "rename", "upload"}
    /\ RecordLimit \in Nat \ {0}

\* Tasks are numbered as the scheduler accepts them; Creator is createSession's
\* own realpath request.
Tasks   == 1 .. NumTasks
Creator == 0
Ops     == Tasks \cup {Creator}

\* The remote requests of an operation, by impact, in the order they are sent.
Requests == [list   |-> <<"read">>,
             rename |-> <<"read", "mutation">>,
             upload |-> <<"read", "mutation", "read">>]

Mutates(o) == \E i \in DOMAIN Requests[o] : Requests[o][i] = "mutation"

VARIABLES
    create,      \* where createSession stands
    session,     \* "none", "open" in the registry, or "closed"
    client,      \* the SSH client and its SFTP channel
    closing,     \* where the one effective closeSession call stands
    expired,     \* the close stopped waiting for its runners
    stopping,    \* where SftpSessionService.stop stands
    sched,       \* taskSchedulers has an entry for the session
    remembered,  \* tasks in that scheduler's history
    recs,        \* publicTaskRecords; their order is that of the task numbers
    retaining,   \* records whose retention timer is armed
    kind, op,    \* public task or legacy request, and what it does
    pc, pos,     \* where the runner stands, and its current request
    answer,      \* the snapshot a caller is given
    req,         \* the guarded request of every runner
    changed      \* history: tasks that changed the remote system

sessionVars == <<create, session, client, closing, expired, stopping>>
recordVars  == <<sched, remembered, recs, retaining>>
taskVars    == <<kind, op, pc, pos, answer>>
vars == <<sessionVars, recordVars, taskVars, req, changed>>

----------------------------------------------------------------------------
(* One guarded request: a promise, two timers and an abort listener.       *)

Lifecycle == {"idle", "absolute", "abort"}

\* wire: the server, or a stream, may still call back.
Request == [open : BOOLEAN, armed : SUBSET Lifecycle, wire : BOOLEAN,
            impact : {"read", "mutation"},
            result : {"none", "ok", "error", "transport", "timeout", "closed"}]

NoRequest == [open |-> FALSE, armed |-> {}, wire |-> FALSE,
              impact |-> "read", result |-> "none"]

Guarded(impact) == [open |-> TRUE, armed |-> Lifecycle, wire |-> TRUE,
                    impact |-> impact, result |-> "none"]

\* settleSuccess and settleFailure: only the first result counts.  A callback
\* that comes after is kept on the wire for mutations, whose effect may too.
Settled(r, result) ==
    IF r.open
    THEN [r EXCEPT !.open = FALSE, !.armed = {}, !.result = result,
                   !.wire = r.impact = "mutation"]
    ELSE r

\* Mutant: progress re-arms the idle timer without asking whether it settled.
Mut_RearmAlways(r) == [r EXCEPT !.armed = @ \cup {"idle"}]

MarkProgress(r) == IF r.open THEN [r EXCEPT !.armed = @ \cup {"idle"}] ELSE r

Called(r) == [r EXCEPT !.wire = FALSE]

\* operationController.abort() reaches every request that still listens.
Aborted(rs) ==
    [o \in Ops |-> IF "abort" \in rs[o].armed THEN Settled(rs[o], "closed") ELSE rs[o]]

----------------------------------------------------------------------------
(* Records and answers.                                                    *)

NoAnswer == [state |-> "none", code |-> "none", unknown |-> FALSE]
Failed(code, unknown) == [state |-> "failed", code |-> code, unknown |-> unknown]
Succeeded == [state |-> "succeeded", code |-> "none", unknown |-> FALSE]

\* The next task to be accepted.
IsNext(t)     == pc[t] = "new" /\ \A u \in 1 .. t - 1 : pc[u] # "new"
IsTerminal(t) == answer[t].state \in {"succeeded", "failed", "cancelled"}
Working(t)    == pc[t] \in {"ready", "waiting"}
Idle          == \A t \in Tasks : pc[t] # "queued" /\ ~Working(t)
Released(t)   == pc[t] = "done"

\* deleteClosedTaskSchedulerIfUnused
KeepsScheduler(ses, records, history) ==
    ses = "open" \/ records # {} \/ history # {}

\* What makeRoomForPublicTask removes from full records, given which of them
\* are released and how they ended: a success or cancellation before a
\* failure, the oldest of its class.
Oldest(S) == CHOOSE t \in S : \A u \in S : t <= u

\* Mutant: the oldest released record goes, whatever its result.
Mut_EvictOldest(records, released, state, limit) ==
    IF Cardinality(records) < limit \/ records \cap released = {} THEN {}
    ELSE {Oldest(records \cap released)}

EvictedFrom(records, released, state, limit) ==
    LET candidates == records \cap released
        finished   == {t \in candidates : state[t] \in {"succeeded", "cancelled"}}
    IN  IF Cardinality(records) < limit THEN {}
        ELSE IF finished # {} THEN {Oldest(finished)}
        ELSE IF candidates # {} THEN {Oldest(candidates)}
        ELSE {}

Evicted == EvictedFrom(recs, {t \in Tasks : Released(t)},
                       [t \in Tasks |-> answer[t].state], RecordLimit)

HasRoom == Cardinality(recs) < RecordLimit \/ Evicted # {}

\* Mutant: a forgotten legacy request does not look whether the scheduler is
\* still needed.
Mut_ReleaseKeepsScheduler(T, ses) ==
    LET legacy == {t \in T : kind[t] = "legacy"}
    IN  /\ remembered' = remembered \ legacy
        /\ retaining' = retaining \cup (T \ legacy)
        /\ UNCHANGED <<recs, sched>>

\* The runners of T have released their ownership: a legacy request is
\* forgotten at once, a public record starts its retention.
Release(T, ses) ==
    LET legacy == {t \in T : kind[t] = "legacy"}
    IN  /\ remembered' = remembered \ legacy
        /\ retaining' = retaining \cup (T \ legacy)
        /\ sched' = (sched /\ KeepsScheduler(ses, recs, remembered \ legacy))
        /\ UNCHANGED recs

\* The runner of t ends with ans; the session is ses by then.
Finish(t, ans, ses) ==
    /\ pc' = [pc EXCEPT ![t] = "done"]
    /\ answer' = [answer EXCEPT ![t] = IF IsTerminal(t) THEN @ ELSE ans]
    /\ Release({t}, ses)
    /\ UNCHANGED <<kind, op, pos>>

\* The session leaves the registry: nothing but this touches its entry there.
DropScheduler(ses) ==
    /\ sched' = (sched /\ KeepsScheduler(ses, recs, remembered))
    /\ UNCHANGED <<remembered, recs, retaining>>

\* poisonUnusableSession, with rs the requests its caller has settled.
Poison(rs) ==
    /\ session' = "closed"
    /\ req' = Aborted(rs)
    /\ client' = IF session = "open" THEN "destroyed" ELSE client
    /\ UNCHANGED <<create, closing, expired, stopping>>

\* closeSession up to its first await: cancelAll, then markSessionUnavailable.
CancelledAnswer(t) ==
    IF IsTerminal(t) THEN answer[t]
    ELSE IF answer[t].state = "running" /\ Mutates(op[t]) THEN Failed("failed", TRUE)
    ELSE [state |-> "cancelled", code |-> "none", unknown |-> FALSE]

StartClosing(rs) ==
    LET queued == {t \in Tasks : pc[t] = "queued"}
    IN  /\ session = "open"
        /\ session' = "closed"
        /\ answer' = [t \in Tasks |-> IF pc[t] = "queued" \/ Working(t)
                                       THEN CancelledAnswer(t) ELSE answer[t]]
        /\ pc' = [t \in Tasks |-> IF t \in queued THEN "done" ELSE pc[t]]
        /\ Release(queued, "closed")
        /\ req' = Aborted(rs)
        /\ closing' = IF sched THEN "draining" ELSE "archive"
        /\ UNCHANGED <<client, expired, kind, op, pos, changed>>

----------------------------------------------------------------------------
Init ==
    /\ create = "idle" /\ session = "none" /\ client = "none"
    /\ closing = "no" /\ expired = FALSE /\ stopping = "no"
    /\ sched = FALSE /\ remembered = {} /\ recs = {} /\ retaining = {}
    /\ kind = [t \in Tasks |-> "public"] /\ op = [t \in Tasks |-> "list"]
    /\ pc = [t \in Tasks |-> "new"] /\ pos = [t \in Tasks |-> 0]
    /\ answer = [t \in Tasks |-> NoAnswer]
    /\ req = [o \in Ops |-> NoRequest]
    /\ changed = {}

(* Creation: createSession awaits openSftp, registers, then resolves the   *)
(* initial path under the guard and closes what it opened if that fails.   *)
OpenSftp ==
    /\ create = "idle"
    /\ create' = "opening"
    /\ UNCHANGED <<session, client, closing, expired, stopping, recordVars, taskVars, req, changed>>

OpenSftpFails ==
    /\ create = "opening"
    /\ create' = "failed"
    /\ UNCHANGED <<session, client, closing, expired, stopping, recordVars, taskVars, req, changed>>

RegisterSession ==
    /\ create = "opening"
    /\ create' = "checking" /\ session' = "open" /\ client' = "up"
    /\ req' = [req EXCEPT ![Creator] = Guarded("read")]
    /\ UNCHANGED <<closing, expired, stopping, recordVars, taskVars, changed>>

InitialPathResolved ==
    /\ create = "checking" /\ req[Creator].result = "ok"
    /\ create' = "open"
    /\ UNCHANGED <<session, client, closing, expired, stopping, recordVars, taskVars, req, changed>>

\* A transport failure poisons first; then closeSession finds nothing left.
InitialPathFails ==
    /\ create = "checking" /\ req[Creator].result \notin {"none", "ok"}
    /\ IF session = "open" /\ req[Creator].result # "transport"
       THEN /\ StartClosing(req)
            /\ create' = "failing"
            /\ UNCHANGED stopping
       ELSE /\ create' = "failed"
            /\ session' = "closed"
            /\ client' = IF session = "open" THEN "destroyed" ELSE client
            /\ req' = Aborted(req)
            /\ DropScheduler("closed")
            /\ UNCHANGED <<closing, expired, stopping, taskVars, changed>>

CreateReportsFailure ==
    /\ create = "failing" /\ closing = "done"
    /\ create' = "failed"
    /\ UNCHANGED <<session, client, closing, expired, stopping, recordVars, taskVars, req, changed>>

----------------------------------------------------------------------------
(* Tasks and legacy requests.                                              *)

\* startTask (public) and runCoordinatedSftpOperation (legacy).
Start(t, k, o) ==
    /\ create = "open" /\ session = "open" /\ IsNext(t)
    /\ k = "public" => HasRoom
    /\ LET gone == IF k = "public" THEN Evicted ELSE {}
       IN  /\ recs' = IF k = "public" THEN (recs \ gone) \cup {t} ELSE recs
           /\ remembered' = (remembered \ gone) \cup {t}
           /\ retaining' = retaining \ gone
    /\ sched' = TRUE
    /\ kind' = [kind EXCEPT ![t] = k]
    /\ op' = [op EXCEPT ![t] = o]
    /\ pc' = [pc EXCEPT ![t] = "queued"]
    /\ answer' = [answer EXCEPT ![t] = [NoAnswer EXCEPT !.state = "queued"]]
    /\ UNCHANGED <<sessionVars, pos, req, changed>>

RefuseTask(t) ==
    /\ create = "open" /\ session = "open" /\ IsNext(t)
    /\ ~HasRoom
    /\ pc' = [pc EXCEPT ![t] = "refused"]
    /\ UNCHANGED <<sessionVars, recordVars, kind, op, pos, answer, req, changed>>

\* The scheduler runs one mutation at a time; SftpTaskScheduler is the model
\* of its other limits, claims and order.
Admit(t) ==
    /\ pc[t] = "queued"
    /\ Mutates(op[t]) => \A u \in Tasks : Working(u) => ~Mutates(op[u])
    /\ pc' = [pc EXCEPT ![t] = "ready"]
    /\ answer' = [answer EXCEPT ![t].state = "running"]
    /\ UNCHANGED <<sessionVars, recordVars, kind, op, pos, req, changed>>

\* The next request of t's runner, or its end when the guard finds the
\* session's signal aborted already.
Send(t) ==
    LET impact == Requests[op[t]][pos[t] + 1]
    IN  IF session = "closed"
        THEN /\ Finish(t, Failed("closed", impact = "mutation"), session)
             /\ UNCHANGED <<sessionVars, req, changed>>
        ELSE /\ req' = [req EXCEPT ![t] = Guarded(impact)]
             /\ pos' = [pos EXCEPT ![t] = @ + 1]
             /\ pc' = [pc EXCEPT ![t] = "waiting"]
             /\ UNCHANGED <<sessionVars, recordVars, kind, op, answer, changed>>

\* The operation primitive looks its session up again.
InvokePrimitive(t) ==
    /\ pc[t] = "ready"
    /\ IF session = "open" THEN Send(t)
       ELSE /\ Finish(t, Failed("notFound", FALSE), session)
            /\ UNCHANGED <<sessionVars, req, changed>>

Resume(t) ==
    /\ pc[t] = "waiting" /\ ~req[t].open /\ req[t].result = "ok"
    /\ IF pos[t] < Len(Requests[op[t]]) THEN Send(t)
       ELSE /\ Finish(t, Succeeded, session)
            /\ UNCHANGED <<sessionVars, req, changed>>

\* Mutant: only a timed-out mutation is reported unknown.
Mut_ClosedIsKnown(t) ==
    /\ pc[t] = "waiting" /\ ~req[t].open /\ req[t].result \in {"error", "timeout", "closed"}
    /\ LET r == req[t]
       IN  Finish(t, IF r.result = "error" THEN Failed("failed", FALSE)
                     ELSE Failed(r.result, r.result = "timeout" /\ r.impact = "mutation"), session)
    /\ UNCHANGED <<sessionVars, req, changed>>

ResumeFailed(t) ==
    /\ pc[t] = "waiting" /\ ~req[t].open /\ req[t].result \in {"error", "timeout", "closed"}
    /\ LET r == req[t]
       IN  Finish(t, IF r.result = "error" THEN Failed("failed", FALSE)
                     ELSE Failed(r.result, r.impact = "mutation"), session)
    /\ UNCHANGED <<sessionVars, req, changed>>

\* runSftpOperation turns a transport error into a poisoned session.
ResumePoisoned(t) ==
    /\ pc[t] = "waiting" /\ ~req[t].open /\ req[t].result = "transport"
    /\ Poison(req)
    /\ Finish(t, Failed("closed", req[t].impact = "mutation"), "closed")
    /\ UNCHANGED changed

QueueDeadline(t) ==
    /\ pc[t] = "queued"
    /\ Finish(t, Failed("deadline", FALSE), session)
    /\ UNCHANGED <<sessionVars, req, changed>>

\* The task's own deadline publishes at once and poisons the session; the
\* runner keeps its ownership until it ends.
TaskDeadline(t) ==
    /\ Working(t) /\ answer[t].state = "running"
    /\ answer' = [answer EXCEPT ![t] = Failed("deadline", Mutates(op[t]))]
    /\ Poison(req)
    /\ DropScheduler("closed")
    /\ UNCHANGED <<kind, op, pc, pos, changed>>

----------------------------------------------------------------------------
(* The server, the timers and the transport.                               *)

\* A mutation takes effect at the server while its request is on the wire,
\* whether or not anyone still waits for the answer or the client still lives.
TakeEffect(t) ==
    /\ req[t].wire /\ req[t].impact = "mutation"
    /\ t \notin changed
    /\ changed' = changed \cup {t}
    /\ UNCHANGED <<sessionVars, recordVars, taskVars, req>>

Reply(o, result) ==
    /\ req[o].open /\ req[o].wire /\ client = "up"
    /\ req[o].impact = "mutation" => (result = "error" <=> o \notin changed)
                                     \/ result = "transport"
    /\ req' = [req EXCEPT ![o] = Called(Settled(MarkProgress(@), result))]
    /\ UNCHANGED <<sessionVars, recordVars, taskVars, changed>>

\* Late callbacks and late progress are observed but change nothing else.
LateCall(o) ==
    /\ ~req[o].open /\ req[o].wire
    /\ req' = [req EXCEPT ![o] = Called(Settled(MarkProgress(@), "ok"))]
    /\ UNCHANGED <<sessionVars, recordVars, taskVars, changed>>

\* handleTimeout: the timer that settles the request poisons the session.
RequestTimeout(o) ==
    /\ {"idle", "absolute"} \cap req[o].armed # {} /\ req[o].open
    /\ Poison([req EXCEPT ![o] = Settled(@, "timeout")])
    /\ DropScheduler("closed")
    /\ UNCHANGED <<taskVars, changed>>

\* watchSessionTransport: close, end or error of the client or the channel.
TransportEnds ==
    /\ client = "up"
    /\ client' = IF session = "open" THEN "destroyed" ELSE "lost"
    /\ session' = "closed"
    /\ req' = Aborted(req)
    /\ DropScheduler("closed")
    /\ UNCHANGED <<create, closing, expired, stopping, taskVars, changed>>

----------------------------------------------------------------------------
(* The end of the session.                                                 *)

\* DELETE of the session, or closeAllSessions.
CloseSession ==
    /\ StartClosing(req)
    /\ UNCHANGED <<create, stopping>>

Drained ==
    /\ closing = "draining" /\ Idle
    /\ closing' = "archive"
    /\ UNCHANGED <<create, session, client, expired, stopping, recordVars, taskVars, req, changed>>

DrainExpires ==
    /\ closing = "draining" /\ ~Idle
    /\ closing' = "archive" /\ expired' = TRUE
    /\ UNCHANGED <<create, session, client, stopping, recordVars, taskVars, req, changed>>

\* archiveService.closeSession has returned: client.end().
EndClient ==
    /\ closing = "archive"
    /\ closing' = "done"
    /\ client' = IF client = "up" THEN "ended" ELSE client
    /\ DropScheduler("closed")
    /\ UNCHANGED <<create, session, expired, stopping, taskVars, req, changed>>

RetentionExpires(t) ==
    /\ t \in retaining
    /\ retaining' = retaining \ {t}
    /\ IF t \in recs
       THEN /\ recs' = recs \ {t}
            /\ remembered' = remembered \ {t}
            /\ sched' = (sched /\ KeepsScheduler(session, recs \ {t}, remembered \ {t}))
       ELSE UNCHANGED <<recs, remembered, sched>>
    /\ UNCHANGED <<sessionVars, taskVars, req, changed>>

\* stop() closes what the registry holds, awaits that, and forgets every
\* scheduler and record; a close someone else began is not awaited.
ForgetEverything ==
    /\ stopping' = "done"
    /\ sched' = FALSE /\ recs' = {} /\ retaining' = {} /\ remembered' = {}

Stop ==
    /\ stopping = "no"
    /\ UNCHANGED create
    /\ IF session = "open"
       THEN /\ StartClosing(req)
            /\ stopping' = "closing"
       ELSE /\ ForgetEverything
            /\ UNCHANGED <<session, client, closing, expired, taskVars, req, changed>>

StopClears ==
    /\ stopping = "closing" /\ closing = "done"
    /\ ForgetEverything
    /\ UNCHANGED <<create, session, client, closing, expired, taskVars, req, changed>>

Next ==
    \/ OpenSftp \/ OpenSftpFails \/ RegisterSession
    \/ InitialPathResolved \/ InitialPathFails \/ CreateReportsFailure
    \/ \E t \in Tasks :
          \/ \E k \in {"public", "legacy"}, o \in Operations : Start(t, k, o)
          \/ RefuseTask(t) \/ Admit(t) \/ InvokePrimitive(t)
          \/ Resume(t) \/ ResumeFailed(t) \/ ResumePoisoned(t)
          \/ QueueDeadline(t) \/ TaskDeadline(t) \/ TakeEffect(t)
          \/ RetentionExpires(t)
    \/ \E o \in Ops :
          \/ \E r \in {"ok", "error", "transport"} : Reply(o, r)
          \/ LateCall(o) \/ RequestTimeout(o)
    \/ TransportEnds
    \/ CloseSession \/ Drained \/ DrainExpires \/ EndClient
    \/ Stop \/ StopClears

Spec == Init /\ [][Next]_vars

\* Microtasks and timers run; clients, the server and the network need not.
Fairness ==
    /\ WF_vars(InitialPathFails) /\ WF_vars(CreateReportsFailure)
    /\ \A t \in Tasks :
          /\ WF_vars(Admit(t)) /\ WF_vars(InvokePrimitive(t))
          /\ WF_vars(Resume(t)) /\ WF_vars(ResumeFailed(t)) /\ WF_vars(ResumePoisoned(t))
          /\ WF_vars(TaskDeadline(t)) /\ WF_vars(RetentionExpires(t))
    /\ \A o \in Ops : WF_vars(RequestTimeout(o))
    /\ WF_vars(Drained) /\ WF_vars(DrainExpires) /\ WF_vars(EndClient)
    /\ WF_vars(StopClears)

FairSpec == Spec /\ Fairness

----------------------------------------------------------------------------
(* Properties.                                                             *)

Answers == [state : {"none", "queued", "running", "succeeded", "failed", "cancelled"},
            code : {"none", "failed", "timeout", "closed", "notFound", "deadline"},
            unknown : BOOLEAN]

\* Every variable holds a value its TypeScript counterpart can hold.
TypeOK ==
    /\ create \in {"idle", "opening", "checking", "failing", "open", "failed"}
    /\ session \in {"none", "open", "closed"}
    /\ client \in {"none", "up", "lost", "ended", "destroyed"}
    /\ closing \in {"no", "draining", "archive", "done"}
    /\ expired \in BOOLEAN /\ stopping \in {"no", "closing", "done"}
    /\ sched \in BOOLEAN /\ remembered \subseteq Tasks /\ retaining \subseteq Tasks
    /\ recs \subseteq Tasks
    /\ kind \in [Tasks -> {"public", "legacy"}] /\ op \in [Tasks -> {"list", "rename", "upload"}]
    /\ pc \in [Tasks -> {"new", "refused", "queued", "ready", "waiting", "done"}]
    /\ pos \in [Tasks -> 0 .. 3] /\ answer \in [Tasks -> Answers]
    /\ req \in [Ops -> Request] /\ changed \subseteq Tasks

\* runGuardedSftpOperation: a settled request has no timer and no listener
\* left, so a late callback cannot time out and poison a healthy session.
SettledRequestsAreQuiet == \A o \in Ops : ~req[o].open => req[o].armed = {}

\* Whoever takes the session out of the registry ends its client: a client
\* that is still up belongs to a registered session or to a running close.
ClientHasAnOwner ==
    client = "up" => session = "open" \/ closing \in {"draining", "archive"}

\* closeSession ends the client only when no runner owns remote work, unless
\* it had to stop waiting for one.
EndWaitsForRunners == client = "ended" /\ ~expired => Idle

\* The records stay below their limit, every record is a task the scheduler
\* remembers, and while it remembers one the scheduler is there.
RecordsAreBounded ==
    /\ Cardinality(recs) <= RecordLimit
    /\ recs \subseteq remembered
    /\ remembered # {} => sched

\* The safety of one session, as one invariant.
SessionIsSafe ==
    /\ TypeOK
    /\ SettledRequestsAreQuiet
    /\ ClientHasAnOwner
    /\ EndWaitsForRunners
    /\ RecordsAreBounded

\* Once a task is answered with a known outcome, nothing it sent can change
\* the remote system any more: every interruption of a mutation that is on
\* the wire, by deadline, timeout, close or transport, is reported unknown.
KnownOutcomeIsFinal ==
    [][\A t \in Tasks :
         IsTerminal(t) /\ ~answer[t].unknown => (t \in changed' <=> t \in changed)]_vars

Endings  == {"succeeded", "failed", "cancelled"}
Finished == {"succeeded", "cancelled"}

\* Making room among the full records T never evicts a task whose runner still
\* works, evicts a failure only when no finished success or cancellation is
\* left, takes the oldest it may, and gives up only when every runner works.
SparesFailures(T) ==
    \A released \in SUBSET T, state \in [T -> Endings] :
       LET gone == EvictedFrom(T, released, state, Cardinality(T))
       IN  /\ gone = {} <=> released = {}
           /\ \A t \in gone :
                /\ t \in released
                /\ \A u \in released \ {t} :
                      /\ state[t] \notin Finished => state[u] \notin Finished
                      /\ u < t => state[t] \in Finished /\ state[u] \notin Finished

\* A session that has left the registry lets go of everything: its client
\* ends and, once retention is over, its scheduler and records are removed.
NothingIsLeftBehind ==
    session = "closed" ~> client # "up" /\ ~sched /\ recs = {}

\* The runtime documentation says that timed-out mutations are reported with
\* an unknown outcome, because the remote side effect may have occurred.
TimedOutMutationIsUnknown ==
    \A t \in Tasks : answer[t].code = "timeout" /\ t \in changed => answer[t].unknown
=============================================================================
