-------------------------- MODULE SftpTaskScheduler --------------------------
(***************************************************************************)
(* The per-session scheduler of SFTP work: admission by capacity and path   *)
(* claims, absolute deadlines, cancellation and the idle boundary.          *)
(*   packages/backend/src/sftp/task-scheduler.ts, class SftpTaskScheduler   *)
(*                                                                         *)
(* JavaScript runs one callback at a time, so each method called from       *)
(* outside, each timer and each link of a runner's promise chain is one     *)
(* action; what may happen between two links of the chain is interleaved.   *)
(*                                                                         *)
(* A task is named by its sequence number. The code's queue is an array that *)
(* tasks join at the end and leave from anywhere: here the set of queued     *)
(* tasks, ordered by that number. Ids are fresh (UUIDs), so schedule's check *)
(* for a registered id never fires.                                        *)
(***************************************************************************)
EXTENDS SftpTaskClaims

CONSTANTS TaskSpec,        \* accepted specifications: resources and normalized claims
          Waiter,          \* callers of waitForIdle
          MaxTasks,        \* bound on the tasks ever scheduled
          TotalLimit, HeavyLimit, MutationLimit

ASSUME TaskSpecAssumption ==
    \A s \in TaskSpec : /\ s.impact \in {"read", "mutation", "lifecycle"}
                        /\ s.workload \in {"light", "heavy"}
                        /\ s.exclusive \in BOOLEAN

\* validateLimits
ASSUME LimitsAssumption ==
    /\ MaxTasks \in Nat
    /\ TotalLimit \in Nat \ {0}
    /\ HeavyLimit \in 1..TotalLimit
    /\ MutationLimit \in 1..TotalLimit

VARIABLES
    spec,           \* what the callers of schedule ask for, in order of their calls
    sequence,       \* the tasks scheduled so far
    records,        \* the tasks the scheduler retains
    queue,          \* the tasks waiting for admission
    active,         \* the tasks that own capacity and claims
    state,          \* per task: its public state
    failure,        \* per task: the failure its snapshot reports
    runner,         \* per task: the link of its promise chain that runs next
    abortReason,    \* per task: why its controller was aborted, hook included
    released,       \* the tasks whose ownership promise has resolved
    idleWaiter      \* per caller of waitForIdle: its promise

vars == <<spec, sequence, records, queue, active, state, failure, runner,
          abortReason, released, idleWaiter>>

Task == 1..MaxTasks

TerminalState == {"succeeded", "failed", "cancelled"}
TaskState     == {"absent", "queued", "running"} \cup TerminalState

\* The failure codes the properties tell apart; "unknown" is outcomeUnknown.
Failure  == [code : {"none", "task", "deadline"}, unknown : BOOLEAN]
NoFailure == [code |-> "none", unknown |-> FALSE]

Runner == {"idle", "admitted", "executing", "settled", "done"}
Reason == {"none", "cancelled", "deadline"}

IsTerminalState(t) == state[t] \in TerminalState

Exclusive(t) == spec[t].exclusive
Heavy(t)     == spec[t].workload = "heavy"
Mutation(t)  == spec[t].impact = "mutation"

Conflict(t, u) == DoClaimSetsConflict(spec[t].claims, spec[u].claims)

-----------------------------------------------------------------------------
(* Admission. q and a are the queue and the active tasks at one turn of the *)
(* dispatch loop.                                                           *)

Older(t, q) == {u \in q : u < t}

\* hasCapacityFor: capacity is counted over unsettled runners, whatever their
\* public state.
HasCapacityFor(t, a) ==
    /\ \A u \in a : ~Exclusive(u)
    /\ Cardinality(a) < TotalLimit
    /\ Heavy(t) => Cardinality({u \in a : Heavy(u)}) < HeavyLimit
    /\ Mutation(t) => Cardinality({u \in a : Mutation(u)}) < MutationLimit

\* Fault: the claims of late runners are ignored.
Mut_OnlyLiveOwners(t, a) == \E u \in a : ~IsTerminalState(u) /\ Conflict(t, u)

ConflictsWithActive(t, a) == \E u \in a : Conflict(t, u)

\* Fault: waiting tasks reserve nothing.
Mut_NoReservation(t, q) == FALSE

ConflictsWithOlderQueuedClaim(t, q) == \E u \in Older(t, q) : Conflict(t, u)

\* Fault: an exclusive task at the head starts beside the owners there are.
Mut_ExclusiveBesideOwners(t, q, a) ==
    /\ \A u \in Older(t, q) : ~Exclusive(u)
    /\ IF Exclusive(t)
       THEN Older(t, q) = {}
       ELSE /\ HasCapacityFor(t, a)
            /\ ~ConflictsWithActive(t, a)
            /\ ~ConflictsWithOlderQueuedClaim(t, q)

\* The scan of findNextRunnableIndex reaches t unless an older exclusive task
\* is queued; an exclusive task runs only from the head of the queue and alone.
Runnable(t, q, a) ==
    /\ \A u \in Older(t, q) : ~Exclusive(u)
    /\ IF Exclusive(t)
       THEN Older(t, q) = {} /\ a = {}
       ELSE /\ HasCapacityFor(t, a)
            /\ ~ConflictsWithActive(t, a)
            /\ ~ConflictsWithOlderQueuedClaim(t, q)

\* Fault: the pass reads queue and owners once.
Mut_StaleOwners(q, a, started) ==
    /\ started \subseteq q
    /\ \A t \in q : t \in started <=> Runnable(t, q, a)

\* The tasks the dispatch loop starts. A turn only adds owners, so it never
\* makes an older task runnable that the scan has passed, and the loop amounts
\* to one pass in queue order (LoopIsOnePass, and MCAlgorithms on the array).
Dispatches(q, a, started) ==
    /\ started \subseteq q
    /\ \A t \in q :
          LET before == Older(t, started)
          IN  t \in started <=> Runnable(t, q \ before, a \cup before)

\* The loop itself, as the sequence s of what it starts: each turn rescans the
\* queue from its head and starts the oldest runnable task, which leaves the
\* queue and joins the owners; it ends when a scan finds none.
StartedBefore(s, i) == {s[j] : j \in 1..(i - 1)}

IsLoop(q, a, s) ==
    /\ s \in Seq(q)
    /\ \A i \in 1..Len(s) :
          LET before == StartedBefore(s, i)
          IN  /\ s[i] \notin before
              /\ Runnable(s[i], q \ before, a \cup before)
              /\ \A t \in q \ before : t < s[i] => ~Runnable(t, q \ before, a \cup before)
    /\ LET all == StartedBefore(s, Len(s) + 1)
       IN  \A t \in q \ all : ~Runnable(t, q \ all, a \cup all)

-----------------------------------------------------------------------------
(* What the private helpers do to the state.                                *)

\* Fault: the idle boundary is read before the step takes effect.
Mut_IdleCheckedTooSoon ==
    idleWaiter' = IF queue = {} /\ active = {}
                  THEN [w \in Waiter |-> IF idleWaiter[w] = "waiting"
                                         THEN "resolved" ELSE idleWaiter[w]]
                  ELSE idleWaiter

\* resolveIdleWaiters
ResolveIdleWaiters ==
    idleWaiter' = IF queue' = {} /\ active' = {}
                  THEN [w \in Waiter |-> IF idleWaiter[w] = "waiting"
                                         THEN "resolved" ELSE idleWaiter[w]]
                  ELSE idleWaiter

\* dispatch, from the queue, owners, states and promise chains its caller has
\* already updated; startRecord for every task started; then the idle boundary.
Dispatch(q, a, st, rn) ==
    /\ \E started \in SUBSET q :
          /\ Dispatches(q, a, started)
          /\ queue' = q \ started
          /\ active' = a \cup started
          /\ state' = [t \in Task |-> IF t \in started THEN "running" ELSE st[t]]
          /\ runner' = [t \in Task |-> IF t \in started THEN "admitted" ELSE rn[t]]
    /\ ResolveIdleWaiters

\* cancelRecord, for every task of a set that holds no terminal task: the state
\* it selects, and what it does to the rest of the record.
CancelledState(tasks) ==
    [t \in Task |-> IF t \notin tasks THEN state[t]
                    ELSE IF t \in active /\ Mutation(t) THEN "failed"
                    ELSE "cancelled"]

\* Fault: a cancelled owner is released before its runner settles.
Mut_ReleaseOnCancel(tasks) ==
    /\ failure' = [t \in Task |-> IF t \in tasks /\ t \in active /\ Mutation(t)
                                  THEN [code |-> "task", unknown |-> TRUE]
                                  ELSE failure[t]]
    /\ abortReason' = [t \in Task |-> IF t \in tasks /\ t \in active
                                      THEN "cancelled" ELSE abortReason[t]]
    /\ released' = released \cup tasks

CancelRecords(tasks) ==
    /\ failure' = [t \in Task |-> IF t \in tasks /\ t \in active /\ Mutation(t)
                                  THEN [code |-> "task", unknown |-> TRUE]
                                  ELSE failure[t]]
    /\ abortReason' = [t \in Task |-> IF t \in tasks /\ t \in active
                                      THEN "cancelled" ELSE abortReason[t]]
    /\ released' = released \cup (tasks \ active)

-----------------------------------------------------------------------------
(* Calls from the session service.                                         *)

\* schedule, with a caller's signal that may already be aborted.
Schedule(aborted) ==
    LET t == sequence + 1 IN
    /\ sequence < MaxTasks
    /\ sequence' = t
    /\ records' = records \cup {t}
    /\ released' = IF aborted THEN released \cup {t} ELSE released
    /\ Dispatch(IF aborted THEN queue ELSE queue \cup {t}, active,
                [state EXCEPT ![t] = IF aborted THEN "cancelled" ELSE "queued"],
                runner)
    /\ UNCHANGED <<spec, failure, abortReason>>

\* The abort listener of one task's cancellation signal (observeCancellation).
AbortSignal(t) ==
    /\ state[t] \in {"queued", "running"}
    /\ CancelRecords({t})
    /\ Dispatch(queue \ {t}, active, CancelledState({t}), runner)
    /\ UNCHANGED <<spec, sequence, records>>

\* cancelAll
CancelAll ==
    LET live == {t \in Task : state[t] \in {"queued", "running"}} IN
    /\ live # {}
    /\ CancelRecords(live)
    /\ Dispatch({}, active, CancelledState(live), runner)
    /\ UNCHANGED <<spec, sequence, records>>

\* forgetTask
ForgetTask(t) ==
    /\ t \in records
    /\ IsTerminalState(t)
    /\ t \notin active
    /\ records' = records \ {t}
    /\ UNCHANGED <<spec, sequence, queue, active, state, failure, runner,
                   abortReason, released, idleWaiter>>

\* waitForIdle
WaitForIdle(w) ==
    /\ idleWaiter[w] = "none"
    /\ idleWaiter' = [idleWaiter EXCEPT ![w] =
                         IF queue = {} /\ active = {} THEN "resolved" ELSE "waiting"]
    /\ UNCHANGED <<spec, sequence, records, queue, active, state, failure,
                   runner, abortReason, released>>

-----------------------------------------------------------------------------
(* Timers and promise chains.                                              *)

\* A timer callback runs only once the microtask queue is empty.
MicrotasksDrained == \A t \in Task : runner[t] \notin {"admitted", "settled"}

\* Fault: leaving the queue does not rescan it.
Mut_DeadlineWithoutDispatch(t) ==
    /\ MicrotasksDrained
    /\ state[t] = "queued"
    /\ failure' = [failure EXCEPT ![t] = [code |-> "deadline", unknown |-> FALSE]]
    /\ released' = released \cup {t}
    /\ queue' = queue \ {t}
    /\ state' = [state EXCEPT ![t] = "failed"]
    /\ UNCHANGED <<spec, sequence, records, active, runner, abortReason>>
    /\ ResolveIdleWaiters

\* Fault: the deadline is armed when the task starts.
Mut_DeadlineFromStart(t) == FALSE /\ t \in Task /\ UNCHANGED vars

\* handleDeadline: a queued task leaves the queue, which may let others start;
\* a running one is aborted and reported failed, and keeps what it owns.
DeadlineWhileQueued(t) ==
    /\ MicrotasksDrained
    /\ state[t] = "queued"
    /\ failure' = [failure EXCEPT ![t] = [code |-> "deadline", unknown |-> FALSE]]
    /\ released' = released \cup {t}
    /\ Dispatch(queue \ {t}, active, [state EXCEPT ![t] = "failed"], runner)
    /\ UNCHANGED <<spec, sequence, records, abortReason>>

DeadlineWhileRunning(t) ==
    /\ MicrotasksDrained
    /\ state[t] = "running"
    /\ abortReason' = [abortReason EXCEPT ![t] = "deadline"]
    /\ state' = [state EXCEPT ![t] = "failed"]
    /\ failure' = [failure EXCEPT ![t] = [code |-> "deadline", unknown |-> Mutation(t)]]
    /\ UNCHANGED <<spec, sequence, records, queue, active, runner, released,
                   idleWaiter>>

\* startRecord's microtask: a task that became terminal since its admission is
\* not run, and its chain goes straight to releaseRecord.
InvokeRunner(t) ==
    /\ runner[t] = "admitted"
    /\ runner' = [runner EXCEPT ![t] =
                     IF state[t] = "running" THEN "executing" ELSE "settled"]
    /\ UNCHANGED <<spec, sequence, records, queue, active, state, failure,
                   abortReason, released, idleWaiter>>

\* What a runner promise settles with: an explicit outcome, or a rejection
\* mapFailure turns into a failed one.
RunOutcome == [state : {"succeeded", "cancelled"}, failure : {NoFailure}]
       \cup [state : {"failed"}, failure : [code : {"task"}, unknown : BOOLEAN]]

\* Fault: the runner's outcome overwrites a terminal state.
Mut_LateOutcomeWins(t, outcome) ==
    /\ runner[t] = "executing"
    /\ runner' = [runner EXCEPT ![t] = "settled"]
    /\ state' = [state EXCEPT ![t] = outcome.state]
    /\ failure' = [failure EXCEPT ![t] = outcome.failure]
    /\ UNCHANGED <<spec, sequence, records, queue, active, abortReason, released,
                   idleWaiter>>

\* applyRunOutcome, applyUnexpectedFailure: the first terminal state wins.
SettleRunner(t, outcome) ==
    /\ runner[t] = "executing"
    /\ runner' = [runner EXCEPT ![t] = "settled"]
    /\ IF state[t] = "running"
       THEN /\ state' = [state EXCEPT ![t] = outcome.state]
            /\ failure' = [failure EXCEPT ![t] = outcome.failure]
       ELSE UNCHANGED <<state, failure>>
    /\ UNCHANGED <<spec, sequence, records, queue, active, abortReason, released,
                   idleWaiter>>

\* releaseRecord, the finally link of the chain.
ReleaseRecord(t) ==
    /\ runner[t] = "settled"
    /\ released' = released \cup {t}
    /\ Dispatch(queue, active \ {t}, state, [runner EXCEPT ![t] = "done"])
    /\ UNCHANGED <<spec, sequence, records, failure, abortReason>>

-----------------------------------------------------------------------------
Init ==
    /\ spec \in [Task -> TaskSpec]
    /\ sequence = 0
    /\ records = {}
    /\ queue = {}
    /\ active = {}
    /\ state = [t \in Task |-> "absent"]
    /\ failure = [t \in Task |-> NoFailure]
    /\ runner = [t \in Task |-> "idle"]
    /\ abortReason = [t \in Task |-> "none"]
    /\ released = {}
    /\ idleWaiter = [w \in Waiter |-> "none"]

Next ==
    \/ \E aborted \in BOOLEAN : Schedule(aborted)
    \/ \E t \in Task : AbortSignal(t)
    \/ CancelAll
    \/ \E t \in Task : ForgetTask(t)
    \/ \E w \in Waiter : WaitForIdle(w)
    \/ \E t \in Task : DeadlineWhileQueued(t)
    \/ \E t \in Task : DeadlineWhileRunning(t)
    \/ \E t \in Task : InvokeRunner(t)
    \/ \E t \in Task, outcome \in RunOutcome : SettleRunner(t, outcome)
    \/ \E t \in Task : ReleaseRecord(t)

Spec == Init /\ [][Next]_vars

\* Node runs the microtasks it has queued and fires the timers it has armed; a
\* runner may hang, its promise need not settle.
EventLoopFairness ==
    \A t \in Task : /\ WF_vars(InvokeRunner(t))
                    /\ WF_vars(ReleaseRecord(t))
                    /\ WF_vars(DeadlineWhileQueued(t))
                    /\ WF_vars(DeadlineWhileRunning(t))

\* Every runner settles: the operation guards and archive timeouts it is built
\* from settle once their signal is aborted or their own timers fire.
RunnersSettle ==
    \A t \in Task : WF_vars(\E outcome \in RunOutcome : SettleRunner(t, outcome))

-----------------------------------------------------------------------------
(* Invariants.                                                             *)

\* Every variable holds a value of its kind.
TypeOK ==
    /\ spec \in [Task -> TaskSpec]
    /\ sequence \in 0..MaxTasks
    /\ records \subseteq 1..sequence
    /\ queue \subseteq Task
    /\ active \subseteq Task
    /\ released \subseteq Task
    /\ state \in [Task -> TaskState]
    /\ failure \in [Task -> Failure]
    /\ runner \in [Task -> Runner]
    /\ abortReason \in [Task -> Reason]
    /\ idleWaiter \in [Waiter -> {"none", "waiting", "resolved"}]

\* The limits hold over everything that still runs, the tasks already reported
\* as timed out or cancelled included: their runners use the connection until
\* they settle (hasCapacityFor, releaseRecord).
CapacityRespected ==
    /\ Cardinality(active) <= TotalLimit
    /\ Cardinality({t \in active : Heavy(t)}) <= HeavyLimit
    /\ Cardinality({t \in active : Mutation(t)}) <= MutationLimit

\* No two tasks own overlapping remote paths at once, however late a runner is
\* (conflictsWithActive, conflictsWithOlderQueuedClaim).
ClaimsExclusive ==
    \A t, u \in active : t # u => ~Conflict(t, u)

\* Work holding the session exclusively, such as an archive operation, never
\* overlaps any other task, late ones included.
ExclusiveRunsAlone ==
    \A t \in active : Exclusive(t) => active = {t}

\* What owns capacity and remote paths is within the limits, exclusive on its
\* paths, and alone where it must be.
OwnersAreSafe == TypeOK /\ CapacityRespected /\ ClaimsExclusive /\ ExclusiveRunsAlone

\* Between callbacks no queued task is runnable: every way a slot, a claim or a
\* reservation is given up reaches dispatch, so no task sleeps until an
\* unrelated event wakes the queue.
NoMissedDispatch ==
    \A t \in queue : ~Runnable(t, queue, active)

\* A mutation aborted while it owned remote work is reported failed with an
\* unknown outcome, whatever its runner answers later.
AbortedMutationIsUnknown ==
    \A t \in Task : abortReason[t] # "none" /\ Mutation(t) =>
        state[t] = "failed" /\ failure[t].unknown

\* The ownership promise of a task has resolved exactly when it is terminal and
\* owns nothing; consumers forget a task, or tear a transport down, on it.
ReleasedMeansOwnershipOver ==
    \A t \in 1..sequence : t \in released <=> IsTerminalState(t) /\ t \notin active

\* What a task reports and what it still owns agree, however late its runner is.
RecordsAreSafe == AbortedMutationIsUnknown /\ ReleasedMeansOwnershipOver

-----------------------------------------------------------------------------
(* Action properties.                                                      *)

\* A task starts only when no older task it conflicts with, and no older
\* exclusive task, is left waiting: smaller, luckier work never overtakes on
\* the same path tree or passes the exclusive barrier.
NoOvertaking ==
    [][\A t \in active' \ active : \A u \in queue' :
          u < t => ~Conflict(t, u) /\ ~Exclusive(u)]_vars

\* The first terminal state is final: a late result, a second cancellation or
\* the deadline timer changes neither the state nor the failure reported.
TerminalIsFinal ==
    [][\A t \in Task : IsTerminalState(t) =>
          state'[t] = state[t] /\ failure'[t] = failure[t]]_vars

\* Remote work starts only for a task that is still to be reported: one
\* cancelled between its admission and its first microtask is never run.
NoWorkAfterCancellation ==
    [][\A t \in Task : runner[t] # "executing" /\ runner'[t] = "executing"
          => abortReason[t] = "none" /\ state[t] = "running"]_vars

\* Cancellation and deadline are final for the report and for the runner.
EndedTasksStayEnded == TerminalIsFinal /\ NoWorkAfterCancellation

-----------------------------------------------------------------------------
(* Liveness.                                                               *)

\* Every scheduled task is reported in the end, even when every runner hangs:
\* the one deadline covers the wait in the queue.
EveryTaskIsReported ==
    \A t \in Task : (state[t] \in {"queued", "running"}) ~> IsTerminalState(t)

\* If runners settle, every caller of waitForIdle is answered.
IdleIsReached ==
    RunnersSettle =>
        \A w \in Waiter : (idleWaiter[w] = "waiting") ~> (idleWaiter[w] = "resolved")

-----------------------------------------------------------------------------
(* Refinement.                                                             *)

Admission == INSTANCE SftpTaskAdmission
    WITH Demand <- TaskSpec, demand <- spec, arrived <- sequence,
         waiting <- queue, holding <- active

\* Whatever happens to runners, timers and promises, the scheduler is a table
\* of path claims granted in order of arrival.
ImplementsAdmission == Admission!Spec
=============================================================================
