------------------------- MODULE SftpSessionProofs --------------------------
(***************************************************************************)
(* One SFTP session is safe with every number of tasks, every set of       *)
(* operations and every record limit, however requests, timers, runners,   *)
(* the transport, a close and a stop interleave.                           *)
(***************************************************************************)
EXTENDS MCSftpSession, FiniteSetTheorems, WellFoundedInduction, TLAPS

\* A guarded request: one that is open can still be called back, and one that
\* settled has let go of its timers and its listener.
Sound(r) ==
    /\ r \in Request
    /\ r.open => r.wire
    /\ ~r.open => r.armed = {}

\* The server may still apply this request.
Mutating(r) == r.wire /\ r.impact = "mutation"

\* The scheduler has accepted t and t's runner has not released it.
Active(t) == pc[t] \in {"queued", "ready", "waiting"}

\* What the records know of t: a task that was never accepted has none, only
\* a public task has one, retention starts when the runner has ended, and an
\* open session remembers every task it still works for.
TaskRecord(t) ==
    /\ pc[t] \in {"new", "refused"} => t \notin remembered \cup retaining
    /\ t \in recs => kind[t] = "public"
    /\ t \in retaining => pc[t] = "done"
    /\ session = "open" /\ Active(t) => t \in remembered

\* What t has sent and what it was answered. Before its first request there
\* is none; a runner that goes on after its answer has answered unknown if
\* the operation mutates; and while the server may still apply a request of
\* t, the request was cut off or is open, and an answer, if given, says
\* unknown.
TaskOutcome(t) ==
    /\ pc[t] \in {"new", "refused", "queued", "ready"} => pos[t] = 0 /\ req[t] = NoRequest
    /\ pc[t] = "queued" => answer[t].state = "queued"
    /\ Working(t) => IsTerminal(t) \/ answer[t].state = "running"
    /\ Working(t) /\ IsTerminal(t) /\ Mutates(op[t]) => answer[t].unknown
    /\ Mutating(req[t]) =>
         /\ Mutates(op[t])
         /\ pc[t] = "waiting" => req[t].result \in {"none", "timeout", "closed"}
         /\ IsTerminal(t) => answer[t].unknown

\* How far createSession, closeSession and the client are.
Stages ==
    /\ create \in {"idle", "opening"} => session = "none"
    /\ session = "none" => /\ client = "none" /\ closing = "no"
                           /\ \A o \in Ops : req[o] = NoRequest
                           /\ \A t \in Tasks : pc[t] = "new"
    /\ closing # "no" => session = "closed"
    /\ client = "ended" => closing = "done"
    /\ closing \in {"archive", "done"} /\ ~expired => Idle
    /\ ClientHasAnOwner

\* The records and every task's part in them.
RecordInv == RecordsAreBounded /\ \A t \in Tasks : TaskRecord(t)

\* Every request and every task's outcome.
OutcomeInv == (\A o \in Ops : Sound(req[o])) /\ (\A t \in Tasks : TaskOutcome(t))

\* The inductive invariant. SessionIsSafe alone is not inductive: that the
\* records keep their scheduler and that a close has no runner left once no
\* scheduler is there follow from TaskRecord, and that a known answer is
\* final from TaskOutcome.
SessionInv == TypeOK /\ Stages /\ RecordInv /\ OutcomeInv

-----------------------------------------------------------------------------
(* Tasks and requests.                                                     *)

\* The tasks are a finite set of numbers, and createSession is not among
\* them.
LEMMA TaskNumbers ==
  /\ Tasks \subseteq Nat /\ Tasks \subseteq Ops /\ Creator \in Ops /\ Creator \notin Tasks
  /\ IsFiniteSet(Tasks)
  BY SessionAssumption, FS_Interval DEF Tasks, Ops, Creator

\* Every operation sends one to three requests.
LEMMA OperationFacts ==
  ASSUME NEW o \in {"list", "rename", "upload"}
  PROVE  /\ Len(Requests[o]) \in 1 .. 3
         /\ DOMAIN Requests[o] = 1 .. Len(Requests[o])
         /\ \A i \in 1 .. Len(Requests[o]) :
              /\ Requests[o][i] \in {"read", "mutation"}
              /\ Requests[o][i] = "mutation" => Mutates(o)
<1>1. CASE o = "list"
  BY <1>1 DEF Requests, Mutates
<1>2. CASE o = "rename"
  BY <1>2 DEF Requests, Mutates
<1>3. CASE o = "upload"
  BY <1>3 DEF Requests, Mutates
<1> QED
  BY <1>1, <1>2, <1>3

\* Request r has become s through an interruption or a call: s is sound,
\* nothing was sent, and if the server may still apply s, it could apply r.
Moved(r, s) ==
    /\ Sound(s)
    /\ r = NoRequest => s = NoRequest
    /\ Mutating(s) => Mutating(r) /\ s.result \in {r.result, "timeout", "closed"}

\* What is not sent is settled.
LEMMA NoRequestFacts ==
  /\ Sound(NoRequest) /\ ~Mutating(NoRequest) /\ ~NoRequest.open /\ NoRequest.armed = {}
  BY DEF NoRequest, Sound, Request, Mutating

\* A request that is just sent is sound and has no result.
LEMMA GuardedFacts ==
  ASSUME NEW impact \in {"read", "mutation"}
  PROVE  /\ Sound(Guarded(impact)) /\ Guarded(impact).result = "none"
         /\ Mutating(Guarded(impact)) <=> impact = "mutation"
  BY DEF Guarded, Sound, Request, Mutating, Lifecycle

\* settleSuccess and settleFailure: the first result counts.
LEMMA SettledFacts ==
  ASSUME NEW r, Sound(r), NEW result \in {"ok", "error", "transport", "timeout", "closed"}
  PROVE  LET s == Settled(r, result)
         IN  /\ Sound(s) /\ ~s.open /\ s.impact = r.impact
             /\ r.open => s.result = result /\ s.wire = (r.impact = "mutation")
             /\ ~r.open => s = r
<1>1. CASE r.open
  <2> DEFINE s == [r EXCEPT !.open = FALSE, !.armed = {}, !.result = result,
                            !.wire = r.impact = "mutation"]
  <2>1. Settled(r, result) = s
    BY <1>1 DEF Settled
  <2>2. r \in Request
    BY DEF Sound
  <2>3. /\ s.open = FALSE /\ s.armed = {} /\ s.result = result /\ s.impact = r.impact
        /\ s.wire = (r.impact = "mutation") /\ s \in Request
    BY <2>2 DEF Request
  <2> QED
    BY <1>1, <2>1, <2>3 DEF Sound
<1>2. CASE ~r.open
  BY <1>2 DEF Settled
<1> QED
  BY <1>1, <1>2

\* A late callback of a settled request.
LEMMA CalledFacts ==
  ASSUME NEW r, Sound(r), ~r.open
  PROVE  Sound(Called(r)) /\ ~Called(r).wire /\ Called(r).result = r.result
  BY DEF Called, Sound, Request

\* markProgress re-arms a timer of open requests only.
LEMMA ProgressFacts ==
  ASSUME NEW r, Sound(r)
  PROVE  LET s == MarkProgress(r)
         IN  /\ Sound(s) /\ s.open = r.open /\ s.wire = r.wire /\ s.impact = r.impact
             /\ ~r.open => s = r
<1>1. CASE r.open
  BY <1>1 DEF MarkProgress, Sound, Request, Lifecycle
<1>2. CASE ~r.open
  BY <1>2 DEF MarkProgress
<1> QED
  BY <1>1, <1>2

\* A timeout or an abort of a request.
LEMMA LateMoves ==
  ASSUME NEW r, Sound(r), NEW result \in {"timeout", "closed"}
  PROVE  Moved(r, Settled(r, result))
<1>1. CASE r.open
  <2>1. r # NoRequest
    BY <1>1, NoRequestFacts
  <2> QED
    BY <1>1, <2>1, SettledFacts DEF Moved, Mutating, Sound
<1>2. CASE ~r.open
  BY <1>2, SettledFacts DEF Moved, Mutating
<1> QED
  BY <1>1, <1>2

\* A callback, late or not.
LEMMA CallMoves ==
  ASSUME NEW r, Sound(r), r.wire, NEW result \in {"ok", "error", "transport"}
  PROVE  Moved(r, Called(Settled(MarkProgress(r), result)))
<1>1. Sound(MarkProgress(r))
  BY ProgressFacts
<1>2. Sound(Settled(MarkProgress(r), result)) /\ ~Settled(MarkProgress(r), result).open
  BY <1>1, SettledFacts
<1>3. r # NoRequest
  BY DEF NoRequest
<1> QED
  BY <1>2, <1>3, CalledFacts DEF Moved, Mutating

\* operationController.abort().
LEMMA AbortMoves ==
  ASSUME NEW rs, NEW o \in Ops, Sound(rs[o])
  PROVE  Moved(rs[o], Aborted(rs)[o])
<1>1. CASE "abort" \in rs[o].armed
  BY <1>1, LateMoves DEF Aborted
<1>2. CASE "abort" \notin rs[o].armed
  BY <1>2 DEF Aborted, Moved
<1> QED
  BY <1>1, <1>2

\* Two interruptions are one.
LEMMA MovesChain ==
  ASSUME NEW r, NEW s, NEW u, Moved(r, s), Moved(s, u)
  PROVE  Moved(r, u)
  BY DEF Moved

-----------------------------------------------------------------------------
(* What steps leave alone.                                                 *)

\* The types of what the session itself keeps.
SessionTypes ==
    /\ create \in {"idle", "opening", "checking", "failing", "open", "failed"}
    /\ session \in {"none", "open", "closed"}
    /\ client \in {"none", "up", "lost", "ended", "destroyed"}
    /\ closing \in {"no", "draining", "archive", "done"}
    /\ expired \in BOOLEAN /\ stopping \in {"no", "closing", "done"}

\* The types of its scheduler's and its public records.
RecordTypes ==
    sched \in BOOLEAN /\ remembered \subseteq Tasks /\ retaining \subseteq Tasks /\ recs \subseteq Tasks

\* The types of its tasks.
TaskTypes ==
    /\ kind \in [Tasks -> {"public", "legacy"}] /\ op \in [Tasks -> {"list", "rename", "upload"}]
    /\ pc \in [Tasks -> {"new", "refused", "queued", "ready", "waiting", "done"}]
    /\ pos \in [Tasks -> 0 .. 3] /\ answer \in [Tasks -> Answers]

\* The types of its requests.
WireTypes == req \in [Ops -> Request] /\ changed \subseteq Tasks

\* TypeOK, in four parts.
LEMMA TypesSplit == TypeOK <=> SessionTypes /\ RecordTypes /\ TaskTypes /\ WireTypes
  BY DEF TypeOK, SessionTypes, RecordTypes, TaskTypes, WireTypes

\* The same of the next state.
LEMMA TypesJoin == SessionTypes' /\ RecordTypes' /\ TaskTypes' /\ WireTypes' => TypeOK'
  BY DEF TypeOK, SessionTypes, RecordTypes, TaskTypes, WireTypes

\* A session is idle when no task is active.
LEMMA IdleMeans == Idle <=> \A t \in Tasks : ~Active(t)
  BY DEF Idle, Active, Working

\* The step accepts no task.
Calm == \A t \in Tasks : Active(t)' => Active(t)

\* A runner's step changes nothing of the stages: it can only end, never
\* begin, in a session that is closed.
LEMMA StagesKept ==
  ASSUME Stages, UNCHANGED <<create, session, client, closing, expired>>, session # "none",
         session = "closed" => Calm
  PROVE  Stages'
<1>1. session = "closed" /\ Idle => Idle'
  BY IdleMeans DEF Calm, Idle, Active, Working
<1> QED
  BY <1>1 DEF Stages, ClientHasAnOwner

\* A poisoned session, or one whose transport ended, has given up its client.
LEMMA StagesClosed ==
  ASSUME Stages, session # "none", session' = "closed", create' \in {create, "failed"},
         UNCHANGED <<closing, expired>>,
         client' = (IF session = "open" THEN "destroyed" ELSE client) \/ client' = "lost", Calm
  PROVE  Stages'
<1>1. Idle => Idle'
  BY DEF Calm, Idle, Active, Working
<1> QED
  BY <1>1 DEF Stages, ClientHasAnOwner

\* A step that leaves the records alone keeps what they know, unless it un-
\* ends a task or accepts one.
LEMMA RecordsUntouched ==
  ASSUME RecordInv, UNCHANGED <<recordVars, kind>>, session' = "open" => session = "open", Calm,
         \A t \in Tasks : /\ pc'[t] \in {"new", "refused"} => pc[t] \in {"new", "refused"}
                          /\ pc[t] = "done" => pc'[t] = "done"
  PROVE  RecordInv'
<1>1. RecordsAreBounded'
  BY DEF RecordInv, RecordsAreBounded, recordVars
<1>2. ASSUME NEW t \in Tasks PROVE TaskRecord(t)'
  BY DEF RecordInv, TaskRecord, recordVars, Calm
<1> QED
  BY <1>1, <1>2 DEF RecordInv, Tasks

\* The release of ended runners.
LEMMA ReleaseKeeps ==
  ASSUME RecordTypes, RecordInv, NEW T \in SUBSET Tasks, NEW ses, Release(T, ses), UNCHANGED kind,
         \A t \in T : pc'[t] = "done", \A t \in Tasks \ T : pc'[t] = pc[t],
         session' = "open" => session = "open"
  PROVE  RecordTypes' /\ RecordInv'
<1>1. /\ recs' = recs /\ retaining' \subseteq retaining \cup T
      /\ remembered' = remembered \ {t \in T : kind[t] = "legacy"}
      /\ sched' = (sched /\ KeepsScheduler(ses, recs, remembered'))
  BY DEF Release
<1>2. RecordTypes'
  BY <1>1 DEF RecordTypes
<1>3. RecordsAreBounded'
  <2>1. recs \subseteq remembered'
    BY <1>1 DEF RecordInv, RecordsAreBounded, TaskRecord, RecordTypes
  <2> QED
    BY <1>1, <2>1 DEF RecordInv, RecordsAreBounded, KeepsScheduler
<1>4. ASSUME NEW t \in Tasks PROVE TaskRecord(t)'
  BY <1>1 DEF RecordInv, TaskRecord, Active
<1> QED
  BY <1>2, <1>3, <1>4 DEF RecordInv, Tasks

\* The removal of an unused scheduler.
LEMMA DropKeeps ==
  ASSUME RecordTypes, RecordInv, NEW ses, DropScheduler(ses), UNCHANGED <<kind, pc>>,
         session' = "open" => session = "open"
  PROVE  RecordTypes' /\ RecordInv'
<1>1. /\ UNCHANGED <<remembered, recs, retaining>>
      /\ sched' = (sched /\ KeepsScheduler(ses, recs, remembered))
  BY DEF DropScheduler
<1>2. RecordTypes'
  BY <1>1 DEF RecordTypes
<1>3. RecordsAreBounded'
  BY <1>1 DEF RecordInv, RecordsAreBounded, KeepsScheduler
<1>4. ASSUME NEW t \in Tasks PROVE TaskRecord(t)'
  BY <1>1 DEF RecordInv, TaskRecord, Active
<1> QED
  BY <1>2, <1>3, <1>4 DEF RecordInv, Tasks

\* The end of stop().
LEMMA ForgetKeeps ==
  ASSUME RecordInv, ForgetEverything, UNCHANGED <<session, pc>>, session # "open"
  PROVE  RecordTypes' /\ RecordInv'
<1>1. sched' = FALSE /\ recs' = {} /\ retaining' = {} /\ remembered' = {}
  BY DEF ForgetEverything
<1>2. Cardinality({}) <= RecordLimit
  BY FS_EmptySet, SessionAssumption
<1> QED
  BY <1>1, <1>2 DEF RecordTypes, RecordInv, RecordsAreBounded, TaskRecord

\* A task that is neither moved nor answered.
LEMMA OutcomeKept ==
  ASSUME NEW t \in Tasks, TaskOutcome(t), Moved(req[t], req'[t]),
         pc'[t] = pc[t], pos'[t] = pos[t], op'[t] = op[t], answer'[t] = answer[t]
  PROVE  TaskOutcome(t)'
  BY DEF TaskOutcome, Moved, Working, IsTerminal

\* A request nobody touched.
LEMMA StillMoves ==
  ASSUME NEW r, Sound(r)
  PROVE  Moved(r, r)
  BY DEF Moved

\* poisonUnusableSession only interrupts requests.
LEMMA PoisonFacts ==
  ASSUME NEW rs, \A o \in Ops : Moved(req[o], rs[o]), Poison(rs)
  PROVE  /\ session' = "closed" /\ UNCHANGED <<create, closing, expired, stopping>>
         /\ client' = IF session = "open" THEN "destroyed" ELSE client
         /\ req' \in [Ops -> Request] /\ \A o \in Ops : Moved(req[o], req'[o])
<1>1. req' = Aborted(rs)
  BY DEF Poison
<1>2. ASSUME NEW o \in Ops PROVE Moved(req[o], req'[o])
  BY <1>1, AbortMoves, MovesChain DEF Moved
<1>3. req' \in [Ops -> Request]
  <2>1. \A o \in Ops : req'[o] \in Request
    BY <1>2 DEF Moved, Sound
  <2> QED
    BY <1>1, <2>1 DEF Aborted
<1> QED
  BY <1>2, <1>3 DEF Poison

\* A step that only interrupts requests or calls them back.
LEMMA RequestsMoved ==
  ASSUME OutcomeInv, UNCHANGED <<pc, pos, op, answer>>, \A o \in Ops : Moved(req[o], req'[o])
  PROVE  OutcomeInv'
<1>1. \A o \in Ops : Sound(req'[o])
  BY DEF Moved
<1>2. ASSUME NEW t \in Tasks PROVE TaskOutcome(t)'
  BY TaskNumbers, OutcomeKept DEF OutcomeInv
<1> QED
  BY <1>1, <1>2 DEF OutcomeInv

\* A session that has a task, a request or a client exists.
LEMMA Present ==
  ASSUME Stages
  PROVE  /\ \A t \in Tasks : pc[t] # "new" => session # "none"
         /\ \A o \in Ops : req[o] # NoRequest => session # "none"
         /\ client # "none" => session # "none"
  BY DEF Stages

-----------------------------------------------------------------------------
(* Steps of the requests.                                                  *)

\* Every way to lose the session but a close: a request's timeout, the
\* transport's end, the failure of the initial path.
LEMMA EvictedSession ==
  ASSUME SessionInv, session # "none", session' = "closed", create' \in {create, "failed"},
         UNCHANGED <<closing, expired, stopping, taskVars, changed>>,
         client' = (IF session = "open" THEN "destroyed" ELSE client) \/ client' = "lost",
         req' \in [Ops -> Request], \A o \in Ops : Moved(req[o], req'[o]),
         DropScheduler("closed")
  PROVE  SessionInv'
<1>0. SessionTypes /\ RecordTypes /\ TaskTypes /\ WireTypes /\ Stages /\ RecordInv /\ OutcomeInv
  BY TypesSplit DEF SessionInv
<1>1. SessionTypes' /\ TaskTypes' /\ WireTypes'
  BY <1>0 DEF SessionTypes, TaskTypes, WireTypes, taskVars
<1>2. Stages'
  <2>1. Calm
    BY DEF Calm, Active, taskVars
  <2> QED
    BY <1>0, <2>1, StagesClosed
<1>3. RecordTypes' /\ RecordInv'
  BY <1>0, DropKeeps DEF taskVars
<1>4. OutcomeInv'
  BY <1>0, RequestsMoved DEF taskVars
<1> QED
  BY <1>1, <1>2, <1>3, <1>4, TypesJoin DEF SessionInv

\* A step that only calls one request back.
LEMMA MovedOnly ==
  ASSUME SessionInv, NEW o \in Ops, NEW r, Moved(req[o], r), req' = [req EXCEPT ![o] = r],
         req[o] # NoRequest, UNCHANGED <<sessionVars, recordVars, taskVars, changed>>
  PROVE  SessionInv'
<1>0. SessionTypes /\ RecordTypes /\ TaskTypes /\ WireTypes /\ Stages /\ RecordInv /\ OutcomeInv
  BY TypesSplit DEF SessionInv
<1>1. ASSUME NEW p \in Ops PROVE Moved(req[p], req'[p])
  BY <1>0, StillMoves DEF WireTypes, OutcomeInv
<1>2. Calm /\ session # "none"
  BY <1>0, Present DEF Calm, Active, taskVars
<1>3. Stages'
  BY <1>0, <1>2, StagesKept DEF sessionVars
<1>4. RecordInv'
  BY <1>0, <1>2, RecordsUntouched DEF sessionVars, taskVars
<1>5. OutcomeInv'
  BY <1>0, <1>1, RequestsMoved DEF taskVars
<1>6. SessionTypes' /\ RecordTypes' /\ TaskTypes' /\ WireTypes'
  BY <1>0 DEF SessionTypes, RecordTypes, TaskTypes, WireTypes, sessionVars, recordVars, taskVars,
              Moved, Sound
<1> QED
  BY <1>3, <1>4, <1>5, <1>6, TypesJoin DEF SessionInv

\* The server answers.
LEMMA ReplyKeeps ==
  ASSUME SessionInv, NEW o \in Ops, NEW result \in {"ok", "error", "transport"}, Reply(o, result)
  PROVE  SessionInv'
<1>1. Sound(req[o]) /\ req[o].open /\ req[o].wire
  BY DEF SessionInv, OutcomeInv, Reply
<1>2. req' = [req EXCEPT ![o] = Called(Settled(MarkProgress(req[o]), result))]
  BY DEF Reply
<1>3. Moved(req[o], Called(Settled(MarkProgress(req[o]), result)))
  BY <1>1, CallMoves
<1>4. req[o] # NoRequest
  BY <1>1, NoRequestFacts
<1> QED
  BY <1>2, <1>3, <1>4, MovedOnly DEF Reply

\* The server calls a settled request back.
LEMMA LateCallKeeps ==
  ASSUME SessionInv, NEW o \in Ops, LateCall(o)
  PROVE  SessionInv'
<1>1. Sound(req[o]) /\ req[o].wire
  BY DEF SessionInv, OutcomeInv, LateCall
<1>2. req' = [req EXCEPT ![o] = Called(Settled(MarkProgress(req[o]), "ok"))]
  BY DEF LateCall
<1>3. Moved(req[o], Called(Settled(MarkProgress(req[o]), "ok")))
  BY <1>1, CallMoves
<1>4. req[o] # NoRequest
  BY <1>1 DEF NoRequest
<1> QED
  BY <1>2, <1>3, <1>4, MovedOnly DEF LateCall

\* handleTimeout.
LEMMA RequestTimeoutKeeps ==
  ASSUME SessionInv, NEW o \in Ops, RequestTimeout(o)
  PROVE  SessionInv'
<1> DEFINE rs == [req EXCEPT ![o] = Settled(@, "timeout")]
<1>1. req[o].open /\ Poison(rs) /\ DropScheduler("closed") /\ UNCHANGED <<taskVars, changed>>
  BY DEF RequestTimeout
<1>2. session # "none"
  BY <1>1, Present, NoRequestFacts DEF SessionInv
<1>3. ASSUME NEW p \in Ops PROVE Moved(req[p], rs[p])
  <2>1. Sound(req[p])
    BY DEF SessionInv, OutcomeInv
  <2>2. rs[p] = IF p = o THEN Settled(req[p], "timeout") ELSE req[p]
    BY DEF SessionInv, TypeOK
  <2> QED
    BY <2>1, <2>2, LateMoves, StillMoves
<1> HIDE DEF rs
<1>4. /\ session' = "closed" /\ UNCHANGED <<create, closing, expired, stopping>>
      /\ client' = IF session = "open" THEN "destroyed" ELSE client
      /\ req' \in [Ops -> Request] /\ \A p \in Ops : Moved(req[p], req'[p])
  BY <1>1, <1>3, PoisonFacts
<1> QED
  BY <1>1, <1>2, <1>4, EvictedSession

\* watchSessionTransport.
LEMMA TransportEndsKeeps ==
  ASSUME SessionInv, TransportEnds
  PROVE  SessionInv'
<1>1. \A o \in Ops : Sound(req[o])
  BY DEF SessionInv, OutcomeInv
<1>2. req' = Aborted(req)
  BY DEF TransportEnds
<1>3. ASSUME NEW o \in Ops PROVE Moved(req[o], req'[o])
  BY <1>1, <1>2, AbortMoves
<1>4. req' \in [Ops -> Request]
  <2>1. \A o \in Ops : req'[o] \in Request
    BY <1>3 DEF Moved, Sound
  <2> QED
    BY <1>2, <2>1 DEF Aborted
<1>5. session # "none"
  BY Present DEF TransportEnds, SessionInv
<1> QED
  BY <1>3, <1>4, <1>5, EvictedSession DEF TransportEnds

\* The server applies a mutation.
LEMMA TakeEffectKeeps ==
  ASSUME SessionInv, NEW t \in Tasks, TakeEffect(t)
  PROVE  SessionInv'
<1>0. SessionTypes /\ RecordTypes /\ TaskTypes /\ WireTypes /\ Stages /\ RecordInv /\ OutcomeInv
  BY TypesSplit DEF SessionInv
<1>1. /\ UNCHANGED <<sessionVars, recordVars, taskVars, req>> /\ changed' = changed \cup {t}
  BY DEF TakeEffect
<1>2. SessionTypes' /\ RecordTypes' /\ TaskTypes' /\ WireTypes'
  BY <1>0, <1>1 DEF SessionTypes, RecordTypes, TaskTypes, WireTypes, sessionVars, recordVars, taskVars
<1>3. Stages' /\ RecordInv' /\ OutcomeInv'
  BY <1>0, <1>1 DEF Stages, ClientHasAnOwner, Idle, Working, RecordInv, RecordsAreBounded, TaskRecord,
                    Active, OutcomeInv, TaskOutcome, IsTerminal, sessionVars, recordVars, taskVars
<1> QED
  BY <1>2, <1>3, TypesJoin DEF SessionInv

-----------------------------------------------------------------------------
(* Steps of a runner.                                                      *)

\* The answers are answers.
LEMMA AnswerFacts ==
  /\ Succeeded \in Answers /\ NoAnswer \in Answers
  /\ \A code \in {"failed", "timeout", "closed", "notFound", "deadline"}, unknown \in BOOLEAN :
        Failed(code, unknown) \in Answers /\ Failed(code, unknown).unknown = unknown
  BY DEF Succeeded, NoAnswer, Failed, Answers

\* A step of t that only interrupts the requests of the others.
LEMMA OneTask ==
  ASSUME OutcomeInv, NEW t \in Tasks,
         \A u \in Tasks \ {t} : /\ pc'[u] = pc[u] /\ pos'[u] = pos[u] /\ op'[u] = op[u]
                                /\ answer'[u] = answer[u],
         \A o \in Ops \ {t} : Moved(req[o], req'[o]), Sound(req'[t]), TaskOutcome(t)'
  PROVE  OutcomeInv'
<1>1. \A o \in Ops : Sound(req'[o])
  BY DEF Moved
<1>2. ASSUME NEW u \in Tasks, u # t PROVE TaskOutcome(u)'
  BY <1>2, TaskNumbers, OutcomeKept DEF OutcomeInv
<1> QED
  BY <1>1, <1>2 DEF OutcomeInv

\* The end of t's runner, in a session that may have been closed by the same
\* step. Its answer must be unknown if the server may still apply t's request
\* and t has no answer yet.
LEMMA FinishKeeps ==
  ASSUME RecordTypes, TaskTypes, RecordInv, OutcomeInv, NEW t \in Tasks, Active(t),
         NEW ans \in Answers, NEW ses, Finish(t, ans, ses), session' = "open" => session = "open",
         \A o \in Ops : Moved(req[o], req'[o]),
         Mutating(req[t]) /\ ~IsTerminal(t) => ans.unknown
  PROVE  RecordTypes' /\ TaskTypes' /\ RecordInv' /\ OutcomeInv' /\ Calm
<1>1. /\ Release({t}, ses) /\ UNCHANGED <<kind, op, pos>>
      /\ pc' = [pc EXCEPT ![t] = "done"]
      /\ answer' = [answer EXCEPT ![t] = IF IsTerminal(t) THEN answer[t] ELSE ans]
  BY DEF Finish
<1>2. TaskTypes'
  BY <1>1 DEF TaskTypes
<1>3. /\ pc'[t] = "done" /\ answer'[t] = IF IsTerminal(t) THEN answer[t] ELSE ans
      /\ \A u \in Tasks \ {t} : pc'[u] = pc[u] /\ answer'[u] = answer[u]
  BY <1>1 DEF TaskTypes
<1>4. RecordTypes' /\ RecordInv'
  BY <1>1, <1>3, ReleaseKeeps
<1>5. TaskOutcome(t)'
  <2>1. TaskOutcome(t) /\ Moved(req[t], req'[t])
    BY TaskNumbers DEF OutcomeInv
  <2> QED
    BY <1>1, <1>3, <2>1 DEF TaskOutcome, Moved, Working, IsTerminal
<1>6. OutcomeInv'
  BY <1>1, <1>3, <1>5, OneTask, TaskNumbers DEF Moved
<1>7. Calm
  BY <1>3 DEF Calm, Active
<1> QED
  BY <1>2, <1>4, <1>6, <1>7

\* The end of t's runner, and nothing else.
LEMMA RunnerEnds ==
  ASSUME SessionInv, NEW t \in Tasks, Active(t), NEW ans \in Answers, Finish(t, ans, session),
         UNCHANGED <<sessionVars, req, changed>>, Mutating(req[t]) /\ ~IsTerminal(t) => ans.unknown
  PROVE  SessionInv'
<1>0. SessionTypes /\ RecordTypes /\ TaskTypes /\ WireTypes /\ Stages /\ RecordInv /\ OutcomeInv
  BY TypesSplit DEF SessionInv
<1>1. \A o \in Ops : Moved(req[o], req'[o])
  BY <1>0, StillMoves DEF OutcomeInv
<1>2. session' = session
  BY DEF sessionVars
<1>3. RecordTypes' /\ TaskTypes' /\ RecordInv' /\ OutcomeInv' /\ Calm
  BY <1>0, <1>1, <1>2, FinishKeeps
<1>4. Stages'
  BY <1>0, <1>3, StagesKept, Present DEF sessionVars, Active
<1>5. SessionTypes' /\ WireTypes'
  BY <1>0 DEF SessionTypes, WireTypes, sessionVars
<1> QED
  BY <1>3, <1>4, <1>5, TypesJoin DEF SessionInv

\* What the invariant says of a runner that goes on.
LEMMA QuietOutcome ==
  ASSUME SessionInv, NEW t \in Tasks
  PROVE  /\ Sound(req[t]) /\ TaskOutcome(t)
         /\ pc[t] = "waiting" /\ Mutating(req[t]) => req[t].result \in {"none", "timeout", "closed"}
         /\ pc[t] \in {"queued", "ready"} => ~Mutating(req[t])
<1>1. Sound(req[t]) /\ TaskOutcome(t)
  BY TaskNumbers DEF SessionInv, OutcomeInv
<1> QED
  BY <1>1, NoRequestFacts DEF TaskOutcome

\* The runner sends its next request, or ends because the session has been
\* closed.
LEMMA SendKeeps ==
  ASSUME SessionInv, NEW t \in Tasks, pc[t] \in {"ready", "waiting"}, ~Mutating(req[t]),
         pos[t] < Len(Requests[op[t]]), Send(t)
  PROVE  SessionInv'
<1> DEFINE impact == Requests[op[t]][pos[t] + 1]
<1>0. SessionTypes /\ RecordTypes /\ TaskTypes /\ WireTypes /\ Stages /\ RecordInv /\ OutcomeInv
  BY TypesSplit DEF SessionInv
<1>1. impact \in {"read", "mutation"} /\ (impact = "mutation" => Mutates(op[t])) /\ pos[t] + 1 \in 0 .. 3
  <2>1. op[t] \in {"list", "rename", "upload"} /\ pos[t] \in 0 .. 3
    BY <1>0 DEF TaskTypes
  <2>2. pos[t] + 1 \in 1 .. Len(Requests[op[t]]) /\ Len(Requests[op[t]]) \in 1 .. 3
    BY <2>1, OperationFacts
  <2> QED
    BY <2>1, <2>2, OperationFacts
<1>2. Active(t)
  BY DEF Active
<1>3. CASE session = "closed"
  <2>1. Finish(t, Failed("closed", impact = "mutation"), session) /\ UNCHANGED <<sessionVars, req, changed>>
    BY <1>3 DEF Send
  <2>2. Failed("closed", impact = "mutation") \in Answers
    BY AnswerFacts
  <2> HIDE DEF impact
  <2> QED
    BY <1>2, <2>1, <2>2, RunnerEnds
<1>4. CASE session # "closed"
  <2>1. /\ req' = [req EXCEPT ![t] = Guarded(impact)] /\ pos' = [pos EXCEPT ![t] = pos[t] + 1]
        /\ pc' = [pc EXCEPT ![t] = "waiting"]
        /\ UNCHANGED <<sessionVars, recordVars, kind, op, answer, changed>>
    BY <1>4 DEF Send
  <2> HIDE DEF impact
  <2>2. Sound(Guarded(impact)) /\ Guarded(impact) \in Request
    BY <1>1, GuardedFacts DEF Sound
  <2>3. /\ pc'[t] = "waiting" /\ req'[t] = Guarded(impact) /\ answer'[t] = answer[t] /\ op'[t] = op[t]
        /\ \A u \in Tasks \ {t} : pc'[u] = pc[u] /\ pos'[u] = pos[u]
        /\ \A o \in Ops \ {t} : req'[o] = req[o]
    BY <1>0, <2>1, TaskNumbers DEF TaskTypes, WireTypes
  <2>4. SessionTypes' /\ RecordTypes' /\ TaskTypes' /\ WireTypes'
    <3>1. SessionTypes' /\ RecordTypes'
      BY <1>0, <2>1 DEF SessionTypes, RecordTypes, sessionVars, recordVars
    <3>2. TaskTypes'
      BY <1>0, <1>1, <2>1 DEF TaskTypes
    <3>3. WireTypes'
      BY <1>0, <2>1, <2>2 DEF WireTypes
    <3> QED
      BY <3>1, <3>2, <3>3
  <2>5. TaskOutcome(t)'
    <3>1. TaskOutcome(t)
      BY <1>0 DEF OutcomeInv
    <3> QED
      BY <1>1, <2>3, <3>1, GuardedFacts DEF TaskOutcome, Working, IsTerminal
  <2>6. OutcomeInv'
    <3>1. \A o \in Ops \ {t} : Moved(req[o], req'[o])
      BY <1>0, <2>3, StillMoves DEF OutcomeInv
    <3>2. \A u \in Tasks \ {t} : op'[u] = op[u] /\ answer'[u] = answer[u]
      BY <2>1
    <3> QED
      BY <1>0, <2>2, <2>3, <2>5, <3>1, <3>2, OneTask
  <2>7. Calm
    BY <1>2, <2>3 DEF Calm, Active
  <2>8. Stages'
    BY <1>0, <1>2, <2>1, <2>7, StagesKept, Present DEF sessionVars, Active
  <2>9. RecordInv'
    BY <1>0, <2>1, <2>3, <2>7, RecordsUntouched DEF sessionVars
  <2> QED
    BY <2>4, <2>6, <2>8, <2>9, TypesJoin DEF SessionInv
<1> QED
  BY <1>3, <1>4

\* The runner of a started task looks up its session.
LEMMA InvokePrimitiveKeeps ==
  ASSUME SessionInv, NEW t \in Tasks, InvokePrimitive(t)
  PROVE  SessionInv'
<1>1. pc[t] = "ready" /\ Active(t) /\ ~Mutating(req[t]) /\ pos[t] = 0
  BY QuietOutcome DEF InvokePrimitive, Active, TaskOutcome
<1>2. CASE session = "open"
  <2>1. pos[t] < Len(Requests[op[t]])
    <3>1. op[t] \in {"list", "rename", "upload"}
      BY DEF SessionInv, TypeOK
    <3>2. Len(Requests[op[t]]) \in 1 .. 3
      BY <3>1, OperationFacts
    <3>3. \A n \in 1 .. 3 : 0 < n
      OBVIOUS
    <3>4. pos[t] = 0
      BY <1>1
    <3> QED
      BY <3>2, <3>3, <3>4
  <2>2. Send(t)
    BY <1>2 DEF InvokePrimitive
  <2> QED
    BY <1>1, <2>1, <2>2, SendKeeps
<1>3. CASE session # "open"
  BY <1>1, <1>3, AnswerFacts, RunnerEnds DEF InvokePrimitive
<1> QED
  BY <1>2, <1>3

\* The runner continues after a request that succeeded: the server has
\* answered, so nothing of it is left on the wire.
LEMMA ResumeKeeps ==
  ASSUME SessionInv, NEW t \in Tasks, Resume(t)
  PROVE  SessionInv'
<1>1. pc[t] = "waiting" /\ Active(t) /\ ~Mutating(req[t])
  BY QuietOutcome DEF Resume, Active
<1>2. CASE pos[t] < Len(Requests[op[t]])
  BY <1>1, <1>2, SendKeeps DEF Resume
<1>3. CASE ~(pos[t] < Len(Requests[op[t]]))
  BY <1>1, <1>3, AnswerFacts, RunnerEnds DEF Resume
<1> QED
  BY <1>2, <1>3

\* The runner ends after a request that failed, timed out or was aborted.
LEMMA ResumeFailedKeeps ==
  ASSUME SessionInv, NEW t \in Tasks, ResumeFailed(t)
  PROVE  SessionInv'
<1> DEFINE ans == IF req[t].result = "error" THEN Failed("failed", FALSE)
                  ELSE Failed(req[t].result, req[t].impact = "mutation")
<1>1. /\ pc[t] = "waiting" /\ Active(t) /\ req[t].result \in {"error", "timeout", "closed"}
      /\ Finish(t, ans, session) /\ UNCHANGED <<sessionVars, req, changed>>
  BY DEF ResumeFailed, Active
<1>2. ans \in Answers /\ (Mutating(req[t]) => ans.unknown)
  <2>1. CASE req[t].result = "error"
    BY <1>1, <2>1, QuietOutcome, AnswerFacts
  <2>2. CASE req[t].result # "error"
    <3>1. ans \in Answers /\ ans.unknown = (req[t].impact = "mutation")
      BY <1>1, <2>2, AnswerFacts
    <3> QED
      BY <3>1 DEF Mutating
  <2> QED
    BY <2>1, <2>2
<1> HIDE DEF ans
<1> QED
  BY <1>1, <1>2, RunnerEnds

\* A task's deadline while it is queued.
LEMMA QueueDeadlineKeeps ==
  ASSUME SessionInv, NEW t \in Tasks, QueueDeadline(t)
  PROVE  SessionInv'
<1>1. Active(t) /\ ~Mutating(req[t])
  BY QuietOutcome DEF QueueDeadline, Active
<1> QED
  BY <1>1, AnswerFacts, RunnerEnds DEF QueueDeadline

\* The runner ends after a transport error and closes the session.
LEMMA ResumePoisonedKeeps ==
  ASSUME SessionInv, NEW t \in Tasks, ResumePoisoned(t)
  PROVE  SessionInv'
<1> DEFINE ans == Failed("closed", req[t].impact = "mutation")
<1>0. SessionTypes /\ RecordTypes /\ TaskTypes /\ WireTypes /\ Stages /\ RecordInv /\ OutcomeInv
  BY TypesSplit DEF SessionInv
<1>1. /\ pc[t] = "waiting" /\ Active(t) /\ ~Mutating(req[t]) /\ ans \in Answers
      /\ Poison(req) /\ Finish(t, ans, "closed") /\ UNCHANGED changed
  BY QuietOutcome, AnswerFacts DEF ResumePoisoned, Active
<1> HIDE DEF ans
<1>2. \A o \in Ops : Moved(req[o], req[o])
  BY <1>0, StillMoves DEF OutcomeInv
<1>3. /\ session' = "closed" /\ UNCHANGED <<create, closing, expired, stopping>>
      /\ client' = IF session = "open" THEN "destroyed" ELSE client
      /\ req' \in [Ops -> Request] /\ \A o \in Ops : Moved(req[o], req'[o])
  BY <1>1, <1>2, PoisonFacts
<1>4. RecordTypes' /\ TaskTypes' /\ RecordInv' /\ OutcomeInv' /\ Calm
  BY <1>0, <1>1, <1>3, FinishKeeps
<1>5. Stages'
  BY <1>0, <1>1, <1>3, <1>4, StagesClosed, Present
<1>6. SessionTypes' /\ WireTypes'
  BY <1>0, <1>1, <1>3 DEF SessionTypes, WireTypes
<1> QED
  BY <1>4, <1>5, <1>6, TypesJoin DEF SessionInv

-----------------------------------------------------------------------------
(* Records.                                                                *)

\* A finite set of numbers has an oldest member, unless it is empty.
LEMMA OldestFacts ==
  ASSUME NEW S, S \subseteq Nat, IsFiniteSet(S), S # {}
  PROVE  Oldest(S) \in S /\ \A u \in S : Oldest(S) <= u
<1> DEFINE older(t) == {u \in S : u < t}
           families == {older(t) : t \in S}
<1>1. families \subseteq FiniteSubsetsOf(S) /\ families # {}
  <2>1. \A t \in S : older(t) \in SUBSET S
    OBVIOUS
  <2>2. \A t \in S : older(t) \in FiniteSubsetsOf(S)
    BY <2>1, FS_Subset DEF FiniteSubsetsOf
  <2> QED
    BY <2>2
<1>2. PICK least \in families :
         \A f \in families : <<f, least>> \notin StrictSubsetOrdering(S)
  <2> HIDE DEF families
  <2> QED
    BY <1>1, FS_StrictSubsetOrderingWellFounded, WFMin
<1>3. PICK y \in S : least = older(y)
  OBVIOUS
<1>4. S \subseteq Nat
  OBVIOUS
<1>5. ASSUME NEW t \in S, t < y PROVE FALSE
  <2>1. \A u \in S : u < t => u < y
    BY <1>4, <1>5
  <2>2. ~(t < t)
    BY <1>4
  <2>3. older(t) \subseteq older(y) /\ t \in older(y) /\ t \notin older(t)
    BY <1>5, <2>1, <2>2
  <2>4. <<older(t), older(y)>> \in StrictSubsetOrdering(S)
    BY <2>3 DEF StrictSubsetOrdering
  <2> QED
    BY <1>2, <1>3, <2>4
<1>6. \A u \in S : y <= u
  BY <1>4, <1>5
<1> QED
  BY <1>6 DEF Oldest

\* What makeRoomForPublicTask evicts from full records.
LEMMA EvictionFacts ==
  ASSUME NEW T, T \subseteq Nat, IsFiniteSet(T), NEW released \in SUBSET T, NEW state
  PROVE  LET gone == EvictedFrom(T, released, state, Cardinality(T))
             finished == {t \in released : state[t] \in Finished}
         IN  \/ finished # {} /\ gone = {Oldest(finished)}
             \/ finished = {} /\ released # {} /\ gone = {Oldest(released)}
             \/ released = {} /\ gone = {}
<1> DEFINE candidates == T \cap released
           best == {t \in candidates : state[t] \in {"succeeded", "cancelled"}}
           gone == EvictedFrom(T, released, state, Cardinality(T))
<1>1. candidates = released /\ best = {t \in released : state[t] \in Finished}
  BY DEF Finished
<1>2. ~(Cardinality(T) < Cardinality(T))
  <2>1. Cardinality(T) \in Nat
    BY FS_CardinalityType
  <2>2. \A n \in Nat : ~(n < n)
    OBVIOUS
  <2> QED
    BY <2>1, <2>2
<1>3. gone = IF Cardinality(T) < Cardinality(T) THEN {}
             ELSE IF best # {} THEN {Oldest(best)}
             ELSE IF candidates # {} THEN {Oldest(candidates)} ELSE {}
  BY DEF EvictedFrom
<1>4. released = {} => best = {}
  BY <1>1
<1> HIDE DEF candidates, best, gone
<1>5. \/ best # {} /\ gone = {Oldest(best)}
      \/ best = {} /\ released # {} /\ gone = {Oldest(released)}
      \/ released = {} /\ gone = {}
  BY <1>1, <1>2, <1>3, <1>4
<1> QED
  BY <1>1, <1>5 DEF gone

\* makeRoomForPublicTask, on every full record set: it never evicts a task
\* whose runner works, evicts a failure only when no success or cancellation
\* is left, takes the oldest it may, and evicts something as soon as one
\* runner has ended.
LEMMA FullRecordsSpareFailures ==
  ASSUME NEW T, T \subseteq Nat, IsFiniteSet(T)
  PROVE  SparesFailures(T)
<1> SUFFICES ASSUME NEW released \in SUBSET T, NEW state \in [T -> Endings]
             PROVE  LET gone == EvictedFrom(T, released, state, Cardinality(T))
                    IN  /\ gone = {} <=> released = {}
                        /\ \A t \in gone :
                             /\ t \in released
                             /\ \A u \in released \ {t} :
                                   /\ state[t] \notin Finished => state[u] \notin Finished
                                   /\ u < t => state[t] \in Finished /\ state[u] \notin Finished
  BY DEF SparesFailures
<1> DEFINE gone == EvictedFrom(T, released, state, Cardinality(T))
           finished == {t \in released : state[t] \in Finished}
<1>1. \/ finished # {} /\ gone = {Oldest(finished)}
      \/ finished = {} /\ released # {} /\ gone = {Oldest(released)}
      \/ released = {} /\ gone = {}
  BY EvictionFacts
<1>2. /\ finished \subseteq released /\ released \subseteq Nat
      /\ IsFiniteSet(released) /\ IsFiniteSet(finished)
  BY FS_Subset
<1>3. \A t, u \in Nat : t <= u => ~(u < t)
  OBVIOUS
<1>4. CASE finished # {} /\ gone = {Oldest(finished)}
  <2>1. Oldest(finished) \in finished /\ \A u \in finished : Oldest(finished) <= u
    BY <1>2, <1>4, OldestFacts
  <2>2. Oldest(finished) \in released /\ state[Oldest(finished)] \in Finished
    BY <2>1
  <2>3. ASSUME NEW u \in released, u < Oldest(finished) PROVE state[u] \notin Finished
    BY <1>2, <1>3, <2>1, <2>2, <2>3
  <2> QED
    BY <1>4, <2>2, <2>3
<1>5. CASE finished = {} /\ released # {} /\ gone = {Oldest(released)}
  <2>1. Oldest(released) \in released /\ \A u \in released : Oldest(released) <= u
    BY <1>2, <1>5, OldestFacts
  <2>2. \A u \in released : state[u] \notin Finished /\ ~(u < Oldest(released))
    BY <1>2, <1>3, <1>5, <2>1
  <2> QED
    BY <1>5, <2>1, <2>2
<1>6. CASE released = {} /\ gone = {}
  BY <1>6
<1> QED
  BY <1>1, <1>4, <1>5, <1>6

\* What makeRoomForPublicTask evicts, for record lists of every length.
THEOREM EvictionAlwaysSparesFailures == Spec => []EvictionSparesFailures
<1>1. ASSUME NEW n \in 1 .. MaxRecords PROVE SparesFailures(1 .. n)
  <2>1. n \in Nat /\ 1 .. n \subseteq Nat
    BY RecordsAssumption
  <2>2. IsFiniteSet(1 .. n)
    BY <2>1, FS_Interval
  <2> QED
    BY <2>1, <2>2, FullRecordsSpareFailures
<1>2. EvictionSparesFailures
  BY <1>1 DEF EvictionSparesFailures
<1> QED
  BY <1>2, PTL

\* With room made, one more record stays within the limit, and what is
\* evicted has ended.
LEMMA EvictedFacts ==
  ASSUME RecordTypes, Cardinality(recs) <= RecordLimit
  PROVE  /\ Evicted \subseteq {t \in recs : pc[t] = "done"}
         /\ HasRoom => \A t \in Tasks : Cardinality((recs \ Evicted) \cup {t}) <= RecordLimit
<1> DEFINE released == {t \in Tasks : Released(t)}
           state == [t \in Tasks |-> answer[t].state]
           candidates == recs \cap released
           finished == {t \in candidates : state[t] \in {"succeeded", "cancelled"}}
<1>1. Evicted = IF Cardinality(recs) < RecordLimit THEN {}
                ELSE IF finished # {} THEN {Oldest(finished)}
                ELSE IF candidates # {} THEN {Oldest(candidates)} ELSE {}
  BY DEF Evicted, EvictedFrom
<1>2. candidates \in SUBSET Tasks /\ finished \in SUBSET candidates
  BY DEF RecordTypes
<1>3. candidates \subseteq {t \in recs : pc[t] = "done"}
  BY DEF Released
<1> HIDE DEF released, state, candidates, finished
<1>4. Evicted \subseteq candidates
  <2>1. /\ candidates \subseteq Nat /\ IsFiniteSet(candidates)
        /\ finished \subseteq Nat /\ IsFiniteSet(finished)
    BY <1>2, TaskNumbers, FS_Subset
  <2> QED
    BY <1>1, <1>2, <2>1, OldestFacts
<1>5. IsFiniteSet(recs) /\ Cardinality(recs) \in Nat
  BY TaskNumbers, FS_Subset, FS_CardinalityType DEF RecordTypes
<1>6. ASSUME HasRoom, NEW t \in Tasks
      PROVE  Cardinality((recs \ Evicted) \cup {t}) <= RecordLimit
  <2>1. CASE Cardinality(recs) < RecordLimit
    <3>1. Evicted = {} /\ recs \ Evicted = recs
      BY <1>1, <2>1
    <3>2. Cardinality(recs \cup {t}) \in {Cardinality(recs), Cardinality(recs) + 1}
      BY <1>5, FS_AddElement
    <3> QED
      BY <1>5, <2>1, <3>1, <3>2, SessionAssumption
  <2>2. CASE ~(Cardinality(recs) < RecordLimit)
    <3>1. Evicted # {}
      BY <1>6, <2>2 DEF HasRoom
    <3>2. PICK x \in recs : Evicted = {x}
      BY <1>1, <1>2, <1>3, <1>4, <2>2, <3>1
    <3>3. IsFiniteSet(recs \ {x}) /\ Cardinality(recs \ {x}) = Cardinality(recs) - 1
      BY <1>5, FS_RemoveElement
    <3>4. Cardinality((recs \ {x}) \cup {t}) \in {Cardinality(recs) - 1, Cardinality(recs)}
      <4>1. Cardinality((recs \ {x}) \cup {t})
              \in {Cardinality(recs \ {x}), Cardinality(recs \ {x}) + 1}
        BY <3>3, FS_AddElement
      <4> QED
        BY <1>5, <3>3, <4>1
    <3>5. recs \ Evicted = recs \ {x} /\ Cardinality(recs) <= RecordLimit
      BY <3>2
    <3>6. Cardinality((recs \ {x}) \cup {t}) <= Cardinality(recs)
      BY <1>5, <3>4
    <3>7. \A a, b, c \in Nat : a <= b /\ b <= c => a <= c
      OBVIOUS
    <3>8. Cardinality((recs \ {x}) \cup {t}) \in Nat /\ RecordLimit \in Nat
      BY <3>3, FS_AddElement, FS_CardinalityType, SessionAssumption
    <3> HIDE DEF HasRoom
    <3> QED
      BY <1>5, <3>5, <3>6, <3>7, <3>8
  <2> QED
    BY <2>1, <2>2
<1> QED
  BY <1>3, <1>4, <1>6

\* startTask and runCoordinatedSftpOperation.
LEMMA StartKeeps ==
  ASSUME SessionInv, NEW t \in Tasks, NEW k \in {"public", "legacy"}, NEW o \in Operations, Start(t, k, o)
  PROVE  SessionInv'
<1> DEFINE gone == IF k = "public" THEN Evicted ELSE {}
<1>0. SessionTypes /\ RecordTypes /\ TaskTypes /\ WireTypes /\ Stages /\ RecordInv /\ OutcomeInv
  BY TypesSplit DEF SessionInv
<1>1. /\ session = "open" /\ pc[t] = "new" /\ (k = "public" => HasRoom)
      /\ recs' = (IF k = "public" THEN (recs \ gone) \cup {t} ELSE recs)
      /\ remembered' = (remembered \ gone) \cup {t} /\ retaining' = retaining \ gone /\ sched' = TRUE
      /\ kind' = [kind EXCEPT ![t] = k] /\ op' = [op EXCEPT ![t] = o]
      /\ pc' = [pc EXCEPT ![t] = "queued"]
      /\ answer' = [answer EXCEPT ![t] = [NoAnswer EXCEPT !.state = "queued"]]
      /\ UNCHANGED <<sessionVars, pos, req, changed>>
  BY DEF Start, IsNext
<1>2. /\ gone \subseteq {u \in recs : pc[u] = "done"}
      /\ k = "public" => Cardinality((recs \ gone) \cup {t}) <= RecordLimit
      /\ k # "public" => gone = {}
  BY <1>0, <1>1, EvictedFacts DEF RecordInv, RecordsAreBounded
<1> HIDE DEF gone
<1>3. /\ [NoAnswer EXCEPT !.state = "queued"] \in Answers
      /\ [NoAnswer EXCEPT !.state = "queued"].state = "queued"
  BY DEF NoAnswer, Answers
<1>4. /\ pc'[t] = "queued" /\ kind'[t] = k /\ answer'[t].state = "queued"
      /\ \A u \in Tasks \ {t} : /\ pc'[u] = pc[u] /\ kind'[u] = kind[u] /\ op'[u] = op[u]
                                /\ answer'[u] = answer[u] /\ pos'[u] = pos[u]
  BY <1>0, <1>1, <1>3 DEF TaskTypes
<1>5. SessionTypes' /\ RecordTypes' /\ WireTypes'
  BY <1>0, <1>1, <1>2 DEF SessionTypes, RecordTypes, WireTypes, sessionVars
<1>6. TaskTypes'
  BY <1>0, <1>1, <1>3, SessionAssumption DEF TaskTypes
<1>7. Stages'
  BY <1>0, <1>1, StagesKept DEF sessionVars
<1>8. RecordInv'
  <2>1. RecordsAreBounded'
    <3>1. recs \subseteq remembered /\ Cardinality(recs) <= RecordLimit
      BY <1>0 DEF RecordInv, RecordsAreBounded
    <3>2. recs' \subseteq remembered'
      BY <1>1, <1>2, <3>1
    <3>3. Cardinality(recs') <= RecordLimit
      BY <1>1, <1>2, <3>1
    <3> QED
      BY <1>1, <3>2, <3>3 DEF RecordsAreBounded
  <2>2. ASSUME NEW u \in Tasks PROVE TaskRecord(u)'
    <3>1. TaskRecord(u) /\ recs \subseteq remembered
      BY <1>0 DEF RecordInv, RecordsAreBounded
    <3>2. CASE u = t
      BY <1>1, <1>4, <3>1, <3>2 DEF TaskRecord, Active
    <3>3. CASE u # t
      BY <1>1, <1>2, <1>4, <3>1, <3>3 DEF TaskRecord, Active, sessionVars
    <3> QED
      BY <3>2, <3>3
  <2> QED
    BY <2>1, <2>2 DEF RecordInv, Tasks
<1>9. OutcomeInv'
  <2>1. TaskOutcome(t) /\ \A p \in Ops : Moved(req[p], req'[p])
    BY <1>0, <1>1, StillMoves DEF OutcomeInv
  <2>2. pos[t] = 0 /\ req[t] = NoRequest
    BY <1>1, <2>1 DEF TaskOutcome
  <2>3. TaskOutcome(t)'
    BY <1>1, <1>4, <2>2, NoRequestFacts DEF TaskOutcome, Working
  <2> QED
    BY <1>0, <1>4, <2>1, <2>3, OneTask, TaskNumbers DEF Moved
<1> QED
  BY <1>5, <1>6, <1>7, <1>8, <1>9, TypesJoin DEF SessionInv

\* The scheduler starts a task, or a task is refused.
LEMMA AdmitKeeps ==
  ASSUME SessionInv, NEW t \in Tasks,
         Admit(t) \/ RefuseTask(t)
  PROVE  SessionInv'
<1>0. SessionTypes /\ RecordTypes /\ TaskTypes /\ WireTypes /\ Stages /\ RecordInv /\ OutcomeInv
  BY TypesSplit DEF SessionInv
<1>1. UNCHANGED <<sessionVars, recordVars, kind, op, pos, req, changed>>
  BY DEF Admit, RefuseTask
<1>2. /\ TaskTypes' /\ \A u \in Tasks \ {t} : pc'[u] = pc[u] /\ answer'[u] = answer[u]
      /\ \/ pc[t] = "queued" /\ pc'[t] = "ready" /\ answer'[t].state = "running"
         \/ pc[t] = "new" /\ pc'[t] = "refused" /\ answer'[t] = answer[t] /\ session = "open"
  <2>1. CASE Admit(t)
    <3>1. answer[t] \in Answers
      BY <1>0 DEF TaskTypes
    <3>2. /\ [answer[t] EXCEPT !.state = "running"] \in Answers
          /\ [answer[t] EXCEPT !.state = "running"].state = "running"
      BY <3>1 DEF Answers
    <3>3. answer' = [answer EXCEPT ![t] = [answer[t] EXCEPT !.state = "running"]]
      BY <2>1 DEF Admit
    <3> QED
      BY <1>0, <1>1, <2>1, <3>2, <3>3 DEF Admit, TaskTypes
  <2>2. CASE RefuseTask(t)
    BY <1>0, <1>1, <2>2 DEF RefuseTask, TaskTypes, IsNext
  <2> QED
    BY <2>1, <2>2
<1>3. SessionTypes' /\ RecordTypes' /\ WireTypes'
  BY <1>0, <1>1 DEF SessionTypes, RecordTypes, WireTypes, sessionVars, recordVars
<1>4. Calm /\ session # "none"
  BY <1>0, <1>2, Present DEF Calm, Active
<1>5. Stages'
  BY <1>0, <1>1, <1>4, StagesKept DEF sessionVars
<1>6. RecordInv'
  BY <1>0, <1>1, <1>2, <1>4, RecordsUntouched DEF sessionVars
<1>7. OutcomeInv'
  <2>1. TaskOutcome(t) /\ \A p \in Ops : Moved(req[p], req'[p])
    BY <1>0, <1>1, StillMoves DEF OutcomeInv
  <2>2. TaskOutcome(t)'
    BY <1>1, <1>2, <2>1, NoRequestFacts DEF TaskOutcome, Working, IsTerminal
  <2> QED
    BY <1>0, <1>1, <1>2, <2>1, <2>2, OneTask, TaskNumbers DEF Moved
<1> QED
  BY <1>2, <1>3, <1>5, <1>6, <1>7, TypesJoin DEF SessionInv

\* A running task's deadline: answered at once, unknown if the operation
\* mutates, while its runner and its request live on.
LEMMA TaskDeadlineKeeps ==
  ASSUME SessionInv, NEW t \in Tasks, TaskDeadline(t)
  PROVE  SessionInv'
<1> DEFINE ans == Failed("deadline", Mutates(op[t]))
<1>0. SessionTypes /\ RecordTypes /\ TaskTypes /\ WireTypes /\ Stages /\ RecordInv /\ OutcomeInv
  BY TypesSplit DEF SessionInv
<1>1. /\ Working(t) /\ Active(t) /\ answer' = [answer EXCEPT ![t] = ans]
      /\ Poison(req) /\ DropScheduler("closed") /\ UNCHANGED <<kind, op, pc, pos, changed>>
  BY DEF TaskDeadline, Active, Working
<1>2. ans \in Answers /\ ans.unknown = Mutates(op[t]) /\ ans.state = "failed"
  BY AnswerFacts DEF Mutates, Failed
<1> HIDE DEF ans
<1>3. \A o \in Ops : Moved(req[o], req[o])
  BY <1>0, StillMoves DEF OutcomeInv
<1>4. /\ session' = "closed" /\ UNCHANGED <<create, closing, expired, stopping>>
      /\ client' = IF session = "open" THEN "destroyed" ELSE client
      /\ req' \in [Ops -> Request] /\ \A o \in Ops : Moved(req[o], req'[o])
  BY <1>1, <1>3, PoisonFacts
<1>5. SessionTypes' /\ TaskTypes' /\ WireTypes'
  BY <1>0, <1>1, <1>2, <1>4 DEF SessionTypes, TaskTypes, WireTypes
<1>6. RecordTypes' /\ RecordInv'
  BY <1>0, <1>1, <1>4, DropKeeps
<1>7. Stages'
  <2>1. Calm /\ session # "none"
    BY <1>0, <1>1, Present DEF Calm, Active
  <2> QED
    BY <1>0, <1>4, <2>1, StagesClosed
<1>8. OutcomeInv'
  <2>1. TaskOutcome(t) /\ Moved(req[t], req'[t])
    BY <1>0, <1>4, TaskNumbers DEF OutcomeInv
  <2>2. answer'[t] = ans /\ \A u \in Tasks \ {t} : answer'[u] = answer[u]
    BY <1>0, <1>1 DEF TaskTypes
  <2>3. TaskOutcome(t)'
    BY <1>1, <1>2, <2>1, <2>2 DEF TaskOutcome, Moved, Working, IsTerminal
  <2>4. Sound(req'[t]) /\ \A o \in Ops \ {t} : Moved(req[o], req'[o])
    BY <1>4, <2>1 DEF Moved
  <2>5. \A u \in Tasks \ {t} : /\ pc'[u] = pc[u] /\ pos'[u] = pos[u] /\ op'[u] = op[u]
                                /\ answer'[u] = answer[u]
    BY <1>1, <1>4, <2>2 DEF Poison
  <2>6. OutcomeInv
    BY <1>0
  <2> QED
    BY <2>3, <2>4, <2>5, <2>6, OneTask
<1> QED
  BY <1>5, <1>6, <1>7, <1>8, TypesJoin DEF SessionInv

\* A record's retention ends.
LEMMA RetentionExpiresKeeps ==
  ASSUME SessionInv, NEW t \in Tasks, RetentionExpires(t)
  PROVE  SessionInv'
<1>0. SessionTypes /\ RecordTypes /\ TaskTypes /\ WireTypes /\ Stages /\ RecordInv /\ OutcomeInv
  BY TypesSplit DEF SessionInv
<1>1. /\ t \in retaining /\ retaining' = retaining \ {t}
      /\ UNCHANGED <<sessionVars, taskVars, req, changed>>
      /\ \/ /\ recs' = recs \ {t} /\ remembered' = remembered \ {t}
            /\ sched' = (sched /\ KeepsScheduler(session, recs \ {t}, remembered \ {t}))
         \/ UNCHANGED <<recs, remembered, sched>>
  BY DEF RetentionExpires
<1>2. SessionTypes' /\ RecordTypes' /\ TaskTypes' /\ WireTypes'
  <2>1. SessionTypes' /\ TaskTypes' /\ WireTypes'
    BY <1>0, <1>1 DEF SessionTypes, TaskTypes, WireTypes, sessionVars, taskVars
  <2>2. sched' \in BOOLEAN
    BY <1>0, <1>1 DEF RecordTypes
  <2>3. remembered' \subseteq Tasks /\ retaining' \subseteq Tasks /\ recs' \subseteq Tasks
    BY <1>0, <1>1 DEF RecordTypes
  <2> QED
    BY <2>1, <2>2, <2>3 DEF RecordTypes
<1>3. RecordsAreBounded'
  <2>1. RecordsAreBounded /\ recs \subseteq Tasks
    BY <1>0 DEF RecordInv, RecordTypes
  <2>2. IsFiniteSet(recs) /\ recs' \subseteq recs /\ recs' \subseteq remembered'
    BY <1>1, <2>1, TaskNumbers, FS_Subset DEF RecordsAreBounded
  <2>3. Cardinality(recs') <= Cardinality(recs) /\ Cardinality(recs') \in Nat /\ Cardinality(recs) \in Nat
    BY <2>2, FS_Subset, FS_CardinalityType
  <2>4. \A a, b, c \in Nat : a <= b /\ b <= c => a <= c
    OBVIOUS
  <2>5. Cardinality(recs') <= RecordLimit
    BY <2>1, <2>3, <2>4, SessionAssumption DEF RecordsAreBounded
  <2> QED
    BY <1>1, <2>1, <2>2, <2>5 DEF RecordsAreBounded, KeepsScheduler
<1>4. ASSUME NEW u \in Tasks PROVE TaskRecord(u)'
  <2>1. TaskRecord(u) /\ TaskRecord(t)
    BY <1>0 DEF RecordInv
  <2> QED
    BY <1>1, <2>1 DEF TaskRecord, Active, sessionVars, taskVars
<1>5. Stages' /\ OutcomeInv'
  BY <1>0, <1>1 DEF Stages, ClientHasAnOwner, Idle, Working, OutcomeInv, TaskOutcome, IsTerminal,
                    sessionVars, taskVars
<1> QED
  BY <1>2, <1>3, <1>4, <1>5, TypesJoin DEF SessionInv, RecordInv, Tasks

-----------------------------------------------------------------------------
(* The end of the session.                                                 *)

\* What cancelAll answers.
LEMMA CancelledFacts ==
  ASSUME NEW t \in Tasks, answer[t] \in Answers
  PROVE  /\ CancelledAnswer(t) \in Answers
         /\ IsTerminal(t) => CancelledAnswer(t) = answer[t]
         /\ CancelledAnswer(t).state \in {"succeeded", "failed", "cancelled"}
         /\ ~IsTerminal(t) /\ answer[t].state = "running" /\ Mutates(op[t]) => CancelledAnswer(t).unknown
<1>1. CASE IsTerminal(t)
  BY <1>1 DEF CancelledAnswer, IsTerminal
<1>2. CASE ~IsTerminal(t) /\ answer[t].state = "running" /\ Mutates(op[t])
  BY <1>2 DEF CancelledAnswer, Failed, Answers
<1>3. CASE ~IsTerminal(t) /\ ~(answer[t].state = "running" /\ Mutates(op[t]))
  BY <1>3 DEF CancelledAnswer, Answers
<1> QED
  BY <1>1, <1>2, <1>3

\* closeSession up to its first await: queued tasks end, running ones are
\* answered, unknown if they mutate, and every request is aborted.
LEMMA StartClosingKeeps ==
  ASSUME SessionInv, StartClosing(req), create' \in {create, "failing"},
         stopping' \in {"no", "closing", "done"}
  PROVE  SessionInv'
<1> DEFINE queued == {t \in Tasks : pc[t] = "queued"}
<1>0. SessionTypes /\ RecordTypes /\ TaskTypes /\ WireTypes /\ Stages /\ RecordInv /\ OutcomeInv
  BY TypesSplit DEF SessionInv
<1>1. /\ session = "open" /\ session' = "closed"
      /\ answer' = [t \in Tasks |-> IF pc[t] = "queued" \/ Working(t)
                                    THEN CancelledAnswer(t) ELSE answer[t]]
      /\ pc' = [t \in Tasks |-> IF t \in queued THEN "done" ELSE pc[t]]
      /\ Release(queued, "closed") /\ req' = Aborted(req)
      /\ closing' = (IF sched THEN "draining" ELSE "archive")
      /\ UNCHANGED <<client, expired, kind, op, pos, changed>>
  BY DEF StartClosing
<1>2. \A t \in Tasks :
         /\ answer'[t] = IF pc[t] = "queued" \/ Working(t) THEN CancelledAnswer(t) ELSE answer[t]
         /\ pc'[t] = IF pc[t] = "queued" THEN "done" ELSE pc[t]
  BY <1>1
<1>3. ASSUME NEW o \in Ops PROVE Moved(req[o], req'[o])
  BY <1>0, <1>1, AbortMoves DEF OutcomeInv
<1>4. SessionTypes'
  BY <1>0, <1>1 DEF SessionTypes
<1>5. TaskTypes'
  <2>1. \A t \in Tasks : /\ answer'[t] \in Answers
                         /\ pc'[t] \in {"new", "refused", "queued", "ready", "waiting", "done"}
    BY <1>0, <1>2, CancelledFacts DEF TaskTypes
  <2> QED
    BY <1>0, <1>1, <2>1 DEF TaskTypes
<1>6. WireTypes'
  <2>1. \A o \in Ops : req'[o] \in Request
    BY <1>3 DEF Moved, Sound
  <2> QED
    BY <1>0, <1>1, <2>1 DEF WireTypes, Aborted
<1>7. RecordTypes' /\ RecordInv'
  <2>1. /\ \A t \in queued : pc'[t] = "done"
        /\ \A t \in Tasks \ queued : pc'[t] = pc[t]
        /\ queued \in SUBSET Tasks
    BY <1>2
  <2> HIDE DEF queued
  <2> QED
    BY <1>0, <1>1, <2>1, ReleaseKeeps
<1>8. Stages'
  <2>1. client # "ended" /\ closing = "no" /\ create \notin {"idle", "opening"}
    BY <1>0, <1>1 DEF Stages, SessionTypes
  <2>2. ~sched => Idle'
    BY <1>0, <1>1, <1>2 DEF RecordInv, RecordsAreBounded, TaskRecord, Active, Idle, Working
  <2> QED
    BY <1>1, <2>1, <2>2 DEF Stages, ClientHasAnOwner
<1>9. OutcomeInv'
  <2>1. ASSUME NEW t \in Tasks PROVE TaskOutcome(t)'
    <3>1. TaskOutcome(t) /\ Moved(req[t], req'[t]) /\ answer[t] \in Answers
      BY <1>0, <1>3, TaskNumbers DEF OutcomeInv, TaskTypes
    <3>2. CASE pc[t] = "queued"
      <4>1. req'[t] = NoRequest
        BY <3>1, <3>2 DEF TaskOutcome, Moved
      <4> QED
        BY <1>1, <1>2, <3>2, <4>1, NoRequestFacts DEF TaskOutcome, Working
    <3>3. CASE Working(t)
      <4>1. pc'[t] = pc[t] /\ answer'[t] = CancelledAnswer(t) /\ pos'[t] = pos[t] /\ op'[t] = op[t]
        BY <1>1, <1>2, <3>3 DEF Working
      <4>2. IsTerminal(t)' /\ (IsTerminal(t) => answer'[t] = answer[t])
            /\ (~IsTerminal(t) /\ Mutates(op[t]) => answer'[t].unknown)
        BY <3>1, <3>3, <4>1, CancelledFacts DEF TaskOutcome, IsTerminal
      <4> QED
        BY <3>1, <3>3, <4>1, <4>2 DEF TaskOutcome, Moved, Working
    <3>4. CASE pc[t] # "queued" /\ ~Working(t)
      BY <1>1, <1>2, <3>1, <3>4, OutcomeKept
    <3> QED
      BY <3>2, <3>3, <3>4
  <2>2. \A o \in Ops : Sound(req'[o])
    BY <1>3 DEF Moved
  <2> QED
    BY <2>1, <2>2 DEF OutcomeInv, Tasks
<1> QED
  BY <1>4, <1>5, <1>6, <1>7, <1>8, <1>9, TypesJoin DEF SessionInv

\* A step that only moves createSession or the close.
LEMMA StageOnly ==
  ASSUME SessionInv, UNCHANGED <<session, recordVars, taskVars, req, changed>>,
         SessionTypes', Stages'
  PROVE  SessionInv'
<1>0. SessionTypes /\ RecordTypes /\ TaskTypes /\ WireTypes /\ Stages /\ RecordInv /\ OutcomeInv
  BY TypesSplit DEF SessionInv
<1>1. RecordTypes' /\ TaskTypes' /\ WireTypes'
  BY <1>0 DEF RecordTypes, TaskTypes, WireTypes, recordVars, taskVars
<1>2. RecordInv'
  BY <1>0, RecordsUntouched DEF taskVars, Calm, Active
<1>3. OutcomeInv'
  BY <1>0, StillMoves, RequestsMoved DEF OutcomeInv, taskVars
<1> QED
  BY <1>1, <1>2, <1>3, TypesJoin DEF SessionInv

-----------------------------------------------------------------------------
(* Creation and the remaining steps.                                       *)

\* The steps of createSession that touch nothing else.
LEMMA CreateStepKeeps ==
  ASSUME SessionInv, OpenSftp \/ OpenSftpFails \/ InitialPathResolved \/ CreateReportsFailure
  PROVE  SessionInv'
<1>1. UNCHANGED <<session, client, closing, expired, stopping, recordVars, taskVars, req, changed>>
  BY DEF OpenSftp, OpenSftpFails, InitialPathResolved, CreateReportsFailure
<1>2. SessionTypes /\ Stages
  BY TypesSplit DEF SessionInv
<1>3. SessionTypes'
  BY <1>1, <1>2 DEF SessionTypes, OpenSftp, OpenSftpFails, InitialPathResolved, CreateReportsFailure
<1>4. Stages'
  <2>1. create' \in {"idle", "opening"} => create \in {"idle", "opening"}
    BY DEF OpenSftp, OpenSftpFails, InitialPathResolved, CreateReportsFailure
  <2> QED
    BY <1>1, <1>2, <2>1 DEF Stages, ClientHasAnOwner, Idle, Working, taskVars
<1> QED
  BY <1>1, <1>3, <1>4, StageOnly

\* createSession registers the session and resolves its initial path.
LEMMA RegisterSessionKeeps ==
  ASSUME SessionInv, RegisterSession
  PROVE  SessionInv'
<1>0. SessionTypes /\ RecordTypes /\ TaskTypes /\ WireTypes /\ Stages /\ RecordInv /\ OutcomeInv
  BY TypesSplit DEF SessionInv
<1>1. /\ create = "opening" /\ create' = "checking" /\ session' = "open" /\ client' = "up"
      /\ req' = [req EXCEPT ![Creator] = Guarded("read")]
      /\ UNCHANGED <<closing, expired, stopping, recordVars, taskVars, changed>>
  BY DEF RegisterSession
<1>2. session = "none" /\ closing = "no" /\ \A t \in Tasks : pc[t] = "new"
  BY <1>0, <1>1 DEF Stages
<1>3. Sound(Guarded("read")) /\ Guarded("read") \in Request
  BY GuardedFacts DEF Sound
<1>4. SessionTypes' /\ RecordTypes' /\ TaskTypes' /\ WireTypes'
  BY <1>0, <1>1, <1>3 DEF SessionTypes, RecordTypes, TaskTypes, WireTypes, recordVars, taskVars
<1>5. Stages'
  BY <1>1, <1>2 DEF Stages, ClientHasAnOwner
<1>6. RecordInv'
  BY <1>0, <1>1, <1>2 DEF RecordInv, RecordsAreBounded, TaskRecord, Active, recordVars, taskVars
<1>7. OutcomeInv'
  <2>1. req'[Creator] = Guarded("read") /\ \A o \in Ops \ {Creator} : req'[o] = req[o]
    BY <1>0, <1>1, TaskNumbers DEF WireTypes
  <2>2. \A o \in Ops : Sound(req'[o])
    BY <1>0, <1>3, <2>1 DEF OutcomeInv
  <2>3. ASSUME NEW t \in Tasks PROVE TaskOutcome(t)'
    BY <1>0, <1>1, <2>1, TaskNumbers DEF OutcomeInv, TaskOutcome, Working, IsTerminal, taskVars
  <2> QED
    BY <2>2, <2>3 DEF OutcomeInv, Tasks
<1> QED
  BY <1>4, <1>5, <1>6, <1>7, TypesJoin DEF SessionInv

\* createSession gives up what it registered.
LEMMA InitialPathFailsKeeps ==
  ASSUME SessionInv, InitialPathFails
  PROVE  SessionInv'
<1>1. CASE session = "open" /\ req[Creator].result # "transport"
  BY <1>1, StartClosingKeeps DEF InitialPathFails, SessionInv, TypeOK
<1>2. CASE ~(session = "open" /\ req[Creator].result # "transport")
  <2>1. /\ create' = "failed" /\ session' = "closed"
        /\ client' = IF session = "open" THEN "destroyed" ELSE client
        /\ req' = Aborted(req) /\ DropScheduler("closed")
        /\ UNCHANGED <<closing, expired, stopping, taskVars, changed>>
    BY <1>2 DEF InitialPathFails
  <2>2. ASSUME NEW o \in Ops PROVE Moved(req[o], req'[o])
    BY <2>1, AbortMoves DEF SessionInv, OutcomeInv
  <2>3. req' \in [Ops -> Request]
    <3>1. \A o \in Ops : req'[o] \in Request
      BY <2>2 DEF Moved, Sound
    <3> QED
      BY <2>1, <3>1 DEF Aborted
  <2>4. session # "none"
    <3>1. req[Creator] # NoRequest
      BY DEF InitialPathFails, NoRequest
    <3> QED
      BY <3>1, TaskNumbers, Present DEF SessionInv
  <2> QED
    BY <2>1, <2>2, <2>3, <2>4, EvictedSession
<1> QED
  BY <1>1, <1>2

\* closeSession goes on when no runner is left, or when it waited long
\* enough.
LEMMA CloseStepKeeps ==
  ASSUME SessionInv, Drained \/ DrainExpires
  PROVE  SessionInv'
<1>1. /\ UNCHANGED <<create, session, client, stopping, recordVars, taskVars, req, changed>>
      /\ closing = "draining" /\ closing' = "archive"
      /\ \/ Idle /\ expired' = expired
         \/ expired' = TRUE
  BY DEF Drained, DrainExpires
<1>2. SessionTypes /\ Stages
  BY TypesSplit DEF SessionInv
<1>3. SessionTypes'
  BY <1>1, <1>2 DEF SessionTypes
<1>4. Stages'
  BY <1>1, <1>2 DEF Stages, ClientHasAnOwner, Idle, Working, taskVars
<1> QED
  BY <1>1, <1>3, <1>4, StageOnly

\* closeSession ends the client.
LEMMA EndClientKeeps ==
  ASSUME SessionInv, EndClient
  PROVE  SessionInv'
<1>0. SessionTypes /\ RecordTypes /\ TaskTypes /\ WireTypes /\ Stages /\ RecordInv /\ OutcomeInv
  BY TypesSplit DEF SessionInv
<1>1. /\ closing = "archive" /\ closing' = "done"
      /\ client' = IF client = "up" THEN "ended" ELSE client
      /\ DropScheduler("closed")
      /\ UNCHANGED <<create, session, expired, stopping, taskVars, req, changed>>
  BY DEF EndClient
<1>2. SessionTypes' /\ TaskTypes' /\ WireTypes'
  BY <1>0, <1>1 DEF SessionTypes, TaskTypes, WireTypes, taskVars
<1>3. RecordTypes' /\ RecordInv'
  BY <1>0, <1>1, DropKeeps DEF taskVars
<1>4. Stages'
  BY <1>0, <1>1 DEF Stages, ClientHasAnOwner, Idle, Working, taskVars
<1>5. OutcomeInv'
  BY <1>0, <1>1, StillMoves, RequestsMoved DEF OutcomeInv, taskVars
<1> QED
  BY <1>2, <1>3, <1>4, <1>5, TypesJoin DEF SessionInv

\* stop() forgets every record.
LEMMA ForgottenKeeps ==
  ASSUME SessionInv, ForgetEverything, session # "open",
         UNCHANGED <<create, session, client, closing, expired, taskVars, req, changed>>
  PROVE  SessionInv'
<1>0. SessionTypes /\ RecordTypes /\ TaskTypes /\ WireTypes /\ Stages /\ RecordInv /\ OutcomeInv
  BY TypesSplit DEF SessionInv
<1>1. SessionTypes' /\ TaskTypes' /\ WireTypes'
  BY <1>0 DEF SessionTypes, TaskTypes, WireTypes, taskVars, ForgetEverything
<1>2. RecordTypes' /\ RecordInv'
  BY <1>0, ForgetKeeps DEF taskVars
<1>3. Stages'
  BY <1>0 DEF Stages, ClientHasAnOwner, Idle, Working, taskVars
<1>4. OutcomeInv'
  BY <1>0, StillMoves, RequestsMoved DEF OutcomeInv, taskVars
<1> QED
  BY <1>1, <1>2, <1>3, <1>4, TypesJoin DEF SessionInv

\* The steps of closeSession's callers and of stop().
LEMMA StopKeeps ==
  ASSUME SessionInv, CloseSession \/ Stop \/ StopClears
  PROVE  SessionInv'
<1>1. CASE CloseSession
  BY <1>1, StartClosingKeeps DEF CloseSession, SessionInv, TypeOK
<1>2. CASE Stop /\ session = "open"
  BY <1>2, StartClosingKeeps DEF Stop
<1>3. CASE Stop /\ session # "open"
  BY <1>3, ForgottenKeeps DEF Stop
<1>4. CASE StopClears
  <2>1. session # "open"
    BY <1>4 DEF StopClears, SessionInv, Stages
  <2> QED
    BY <1>4, <2>1, ForgottenKeeps DEF StopClears
<1> QED
  BY <1>1, <1>2, <1>3, <1>4

-----------------------------------------------------------------------------
(* The invariant holds, and implies the properties.                        *)

\* The invariant holds before anything is created.
LEMMA InitHolds == Init => SessionInv
<1> SUFFICES ASSUME Init PROVE SessionInv
  OBVIOUS
<1>1. NoRequest \in Request /\ NoAnswer \in Answers
  BY NoRequestFacts, AnswerFacts DEF Sound
<1>2. TypeOK
  <2>1. SessionTypes /\ RecordTypes
    BY DEF Init, SessionTypes, RecordTypes
  <2>2. TaskTypes
    BY <1>1 DEF Init, TaskTypes
  <2>3. WireTypes
    BY <1>1 DEF Init, WireTypes
  <2> QED
    BY <2>1, <2>2, <2>3, TypesSplit
<1>3. Stages
  BY DEF Init, Stages, ClientHasAnOwner
<1>4. RecordInv
  BY FS_EmptySet, SessionAssumption DEF Init, RecordInv, RecordsAreBounded, TaskRecord, Active
<1>5. OutcomeInv
  BY NoRequestFacts, TaskNumbers DEF Init, OutcomeInv, TaskOutcome, Working
<1> QED
  BY <1>2, <1>3, <1>4, <1>5 DEF SessionInv

\* A step of something else.
LEMMA StutterKeeps == SessionInv /\ UNCHANGED vars => SessionInv'
<1> SUFFICES ASSUME SessionInv, UNCHANGED vars PROVE SessionInv'
  OBVIOUS
<1>1. SessionTypes /\ Stages
  BY TypesSplit DEF SessionInv
<1> QED
  BY <1>1, StageOnly DEF vars, sessionVars, SessionTypes, Stages, ClientHasAnOwner, Idle, Working, taskVars

\* Every step keeps the invariant.
LEMMA SessionStep == SessionInv /\ [Next]_vars => SessionInv'
<1> SUFFICES ASSUME SessionInv, Next PROVE SessionInv'
  BY StutterKeeps
<1>1. CASE OpenSftp \/ OpenSftpFails \/ InitialPathResolved \/ CreateReportsFailure
  BY <1>1, CreateStepKeeps
<1>2. CASE RegisterSession
  BY <1>2, RegisterSessionKeeps
<1>3. CASE InitialPathFails
  BY <1>3, InitialPathFailsKeeps
<1>4. CASE \E t \in Tasks, k \in {"public", "legacy"}, o \in Operations : Start(t, k, o)
  BY <1>4, StartKeeps
<1>5. CASE \E t \in Tasks : RefuseTask(t) \/ Admit(t)
  BY <1>5, AdmitKeeps
<1>6. CASE \E t \in Tasks : InvokePrimitive(t) \/ Resume(t) \/ ResumeFailed(t) \/ ResumePoisoned(t)
  BY <1>6, InvokePrimitiveKeeps, ResumeKeeps, ResumeFailedKeeps, ResumePoisonedKeeps
<1>7. CASE \E t \in Tasks : QueueDeadline(t) \/ TaskDeadline(t)
  BY <1>7, QueueDeadlineKeeps, TaskDeadlineKeeps
<1>8. CASE \E t \in Tasks : TakeEffect(t) \/ RetentionExpires(t)
  BY <1>8, TakeEffectKeeps, RetentionExpiresKeeps
<1>9. CASE \E o \in Ops : \/ \E r \in {"ok", "error", "transport"} : Reply(o, r)
                          \/ LateCall(o) \/ RequestTimeout(o)
  BY <1>9, ReplyKeeps, LateCallKeeps, RequestTimeoutKeeps
<1>10. CASE TransportEnds \/ EndClient
  BY <1>10, TransportEndsKeeps, EndClientKeeps
<1>11. CASE Drained \/ DrainExpires
  BY <1>11, CloseStepKeeps
<1>12. CASE CloseSession \/ Stop \/ StopClears
  BY <1>12, StopKeeps
<1> QED
  BY <1>1, <1>2, <1>3, <1>4, <1>5, <1>6, <1>7, <1>8, <1>9, <1>10, <1>11, <1>12 DEF Next

\* It holds throughout.
LEMMA SessionAlways == Spec => []SessionInv
<1> QED
  BY InitHolds, SessionStep, PTL DEF Spec

\* It implies what the run checks.
LEMMA InvariantIsSafe == SessionInv => SessionIsSafe
<1> SUFFICES ASSUME SessionInv PROVE SessionIsSafe
  OBVIOUS
<1>1. SettledRequestsAreQuiet
  BY DEF SessionInv, OutcomeInv, Sound, SettledRequestsAreQuiet
<1>2. EndWaitsForRunners /\ ClientHasAnOwner
  BY DEF SessionInv, Stages, EndWaitsForRunners
<1> QED
  BY <1>1, <1>2 DEF SessionInv, RecordInv, SessionIsSafe

\* SftpSessionService, runGuardedSftpOperation: a settled request has no
\* timer or listener left, a client that is up has somebody who will end it,
\* a close that has not waited too long ends it with no runner left, and the
\* public records stay within their limit and keep their scheduler.
THEOREM SessionAlwaysSafe == Spec => []SessionIsSafe
  BY SessionAlways, InvariantIsSafe, PTL

\* The remote system changes for t only while a mutation of t is on the wire.
LEMMA OnlyEffectsChange ==
  ASSUME SessionInv, [Next]_vars, NEW t \in Tasks, t \in changed' <=> t \notin changed
  PROVE  Mutating(req[t])
<1>1. CASE \E u \in Tasks : TakeEffect(u)
  BY <1>1 DEF TakeEffect, Mutating
<1>2. CASE ~\E u \in Tasks : TakeEffect(u)
  <2>1. UNCHANGED changed
    BY <1>2 DEF Next, OpenSftp, OpenSftpFails, RegisterSession, InitialPathResolved, InitialPathFails,
                StartClosing, CreateReportsFailure, Start, RefuseTask, Admit, InvokePrimitive, Send, Resume,
                ResumeFailed, ResumePoisoned, QueueDeadline, TaskDeadline, RetentionExpires, Reply, LateCall,
                RequestTimeout, TransportEnds, CloseSession, Drained, DrainExpires, EndClient, Stop,
                StopClears, vars
  <2> QED
    BY <2>1
<1> QED
  BY <1>1, <1>2

\* A task that was answered with a known outcome has nothing on the wire that
\* could still change the remote system, whoever interrupted it: the
\* request's timeout, the task's deadline, a close, a stop or the transport.
THEOREM KnownOutcomesAlwaysFinal == Spec => KnownOutcomeIsFinal
<1> DEFINE Final == \A t \in Tasks :
                     IsTerminal(t) /\ ~answer[t].unknown => (t \in changed' <=> t \in changed)
<1>1. SessionInv /\ [Next]_vars => [Final]_vars
  <2> SUFFICES ASSUME SessionInv, [Next]_vars, NEW t \in Tasks, IsTerminal(t), ~answer[t].unknown,
                      ~(t \in changed' <=> t \in changed)
               PROVE  FALSE
    OBVIOUS
  <2>1. Mutating(req[t])
    BY OnlyEffectsChange
  <2> QED
    BY <2>1 DEF SessionInv, OutcomeInv, TaskOutcome
<1> QED
  BY <1>1, SessionAlways, PTL DEF Spec, KnownOutcomeIsFinal
=============================================================================
