--------------------------- MODULE BackendLifecycle ---------------------------
(***************************************************************************)
(* The backend process as the main process starts, watches and stops it.   *)
(* Starts are made on demand by whoever needs the backend and share one    *)
(* promise; stops share another; the exit event of a child arrives some    *)
(* time after its death and clears the fields, whichever child they name.  *)
(*                                                                         *)
(* A child is the number of its spawn.  A start run is numbered as well:   *)
(* a stop forgets the promise of a run without ending the run.             *)
(***************************************************************************)
EXTENDS Naturals, FiniteSets

CONSTANTS MaxRun   \* bound: start runs, each of which spawns at most one child

ASSUME LifecycleAssumption == MaxRun \in Nat \ {0}

Run   == 1 .. MaxRun
Child == 1 .. MaxRun
None  == 0

VARIABLES
    isWindows, \* process.platform = 'win32': it never changes
    run,       \* per run: its stage and the child it spawned
    runs,      \* how many runs were begun
    child,     \* per child: how far it lives
    spawned,   \* how many children were spawned
    signalled, \* children with child.killed set: a signal was sent to them
    current,   \* backendProcess
    port,      \* backendPort and backendToken: the child they belong to
    startup,   \* backendStartupPromise: the run it stands for
    stop,      \* backendShutdownPromise: its stage and its child
    app,       \* how far the app is on its way out
    disturbed  \* history: a health check timed out, or a stop was begun

fields == <<current, port, startup>>
vars   == <<isWindows, run, runs, child, spawned, signalled, fields, stop, app, disturbed>>

NoRun  == [at |-> "none", child |-> None]
NoStop == [at |-> "none", child |-> None, quits |-> FALSE]

\* "dead": the operating system ended it; "reaped": its exit event was handled.
Alive(p) == child[p] \in {"booting", "serving"}

TypeOK ==
    /\ isWindows \in BOOLEAN
    /\ run \in [Run -> [at: {"none", "preparing", "waiting", "answered", "ended"},
                        child: Child \cup {None}]]
    /\ runs \in 0 .. MaxRun /\ spawned \in 0 .. MaxRun
    /\ child \in [Child -> {"none", "booting", "serving", "dead", "reaped"}]
    /\ signalled \subseteq Child
    /\ current \in Child \cup {None} /\ port \in Child \cup {None}
    /\ startup \in Run \cup {None}
    /\ stop \in [at: {"none", "grace", "killing", "forced"}, child: Child \cup {None}, quits: BOOLEAN]
    /\ app \in {"running", "stopping", "cleaning", "exited"}
    /\ disturbed \in BOOLEAN
    /\ current # None => child[current] \notin {"none", "reaped"}

-----------------------------------------------------------------------------
(* startBackendService                                                      *)

MainRuns == app # "exited"

(* A request, the app's startup or the second half of a restart needs the   *)
(* backend and finds neither a ready one nor a start to wait for.           *)
Start ==
    /\ MainRuns /\ runs < MaxRun
    /\ current = None \/ port = None
    /\ startup = None
    /\ runs' = runs + 1 /\ startup' = runs'
    /\ run' = [run EXCEPT ![runs'].at = "preparing"]
    /\ UNCHANGED <<isWindows, child, spawned, signalled, current, port, stop, app, disturbed>>

(* The caller that began the run forgets the promise, be it this run's or   *)
(* another's.                                                               *)
RunEnds(r) ==
    /\ run' = [run EXCEPT ![r] = [at |-> "ended", child |-> None]]
    /\ startup' = None

(* No port, no key, no temporary root, no entry point.                      *)
PrepareFailed(r) ==
    /\ MainRuns /\ run[r].at = "preparing"
    /\ RunEnds(r)
    /\ UNCHANGED <<isWindows, runs, child, spawned, signalled, current, port, stop, app, disturbed>>

Spawn(r) ==
    /\ MainRuns /\ run[r].at = "preparing"
    /\ spawned' = spawned + 1
    /\ run' = [run EXCEPT ![r] = [at |-> "waiting", child |-> spawned']]
    /\ child' = [child EXCEPT ![spawned'] = "booting"]
    /\ current' = spawned'
    /\ UNCHANGED <<isWindows, runs, signalled, port, startup, stop, app, disturbed>>

(* The child answers a health check; the answer is on its way.              *)
HealthAnswered(r) ==
    /\ MainRuns /\ run[r].at = "waiting" /\ child[run[r].child] = "serving"
    /\ run' = [run EXCEPT ![r].at = "answered"]
    /\ UNCHANGED <<isWindows, runs, child, spawned, signalled, fields, stop, app, disturbed>>

Ready(r) ==
    /\ MainRuns /\ run[r].at = "answered"
    /\ RunEnds(r)
    /\ port' = run[r].child
    /\ UNCHANGED <<isWindows, runs, child, spawned, signalled, current, stop, app, disturbed>>

(* The wait finds its child gone (that it exited, or was killed, is told    *)
(* apart by timing only) or signalled.                                      *)
ChildGone(r) ==
    /\ MainRuns /\ run[r].at = "waiting"
    /\ child[run[r].child] = "reaped" \/ run[r].child \in signalled
    /\ RunEnds(r)
    /\ UNCHANGED <<isWindows, runs, child, spawned, signalled, current, port, stop, app, disturbed>>

(* 30 s, or 60 s in development, without a good answer: the run fails and   *)
(* leaves its child as it is.                                               *)
HealthTimedOut(r) ==
    /\ MainRuns /\ run[r].at = "waiting"
    /\ RunEnds(r)
    /\ disturbed' = TRUE
    /\ UNCHANGED <<isWindows, runs, child, spawned, signalled, current, port, stop, app>>

-----------------------------------------------------------------------------
(* stopBackendService                                                       *)

(* A quit goes on to the cleanup, a restart to a start of its own.          *)
Continue(quits) == app' = IF quits THEN "cleaning" ELSE app

StopReturns ==
    /\ stop' = NoStop
    /\ current' = None /\ port' = None /\ startup' = None
    /\ Continue(stop.quits)

(* stopBackendService is called: without a process it returns at once, a    *)
(* second caller joins the first, otherwise the child is told to stop.      *)
CallStop(quits) ==
    /\ disturbed' = TRUE
    /\ IF current = None
         THEN Continue(quits) /\ UNCHANGED <<stop, signalled>>
         ELSE /\ stop' = IF stop.at # "none" THEN [stop EXCEPT !.quits = @ \/ quits]
                         ELSE [at |-> "grace", child |-> current, quits |-> quits]
              /\ signalled' = signalled \cup {stop'.child}
              /\ app' = IF quits THEN "stopping" ELSE app
    /\ UNCHANGED <<isWindows, run, runs, child, spawned, fields>>

Restart == app = "running" /\ CallStop(FALSE)
Quit    == app = "running" /\ CallStop(TRUE)

(* Fault: the grace period has no end.                                      *)
Mut_GraceWithoutEnd == stop.at = "grace" /\ child[stop.child] = "reaped" /\ UNCHANGED vars

(* The child did not exit within 4 s.  POSIX: SIGKILL, and the stop is over;*)
(* Windows: taskkill.                                                       *)
GraceOver ==
    /\ MainRuns /\ stop.at = "grace"
    /\ IF isWindows THEN stop' = [stop EXCEPT !.at = "killing"] /\ UNCHANGED <<fields, app>>
                    ELSE StopReturns
    /\ UNCHANGED <<isWindows, run, runs, child, spawned, signalled, disturbed>>

(* taskkill is over: up to 2 s for the exit event, if it was not there yet. *)
Taskkilled ==
    /\ MainRuns /\ stop.at = "killing"
    /\ IF child[stop.child] = "reaped" THEN StopReturns
       ELSE stop' = [stop EXCEPT !.at = "forced"] /\ UNCHANGED <<fields, app>>
    /\ UNCHANGED <<isWindows, run, runs, child, spawned, signalled, disturbed>>

ForcedOver ==
    /\ MainRuns /\ stop.at = "forced"
    /\ StopReturns
    /\ UNCHANGED <<isWindows, run, runs, child, spawned, signalled, disturbed>>

(* beginAppShutdown has removed the temporary root and quits.               *)
Exit ==
    /\ app = "cleaning"
    /\ app' = "exited"
    /\ UNCHANGED <<isWindows, run, runs, child, spawned, signalled, fields, stop, disturbed>>

-----------------------------------------------------------------------------
(* The children                                                             *)

Boot(p) ==
    /\ child[p] = "booting"
    /\ child' = [child EXCEPT ![p] = "serving"]
    /\ UNCHANGED <<isWindows, run, runs, spawned, signalled, fields, stop, app, disturbed>>

(* It crashes, obeys a signal, or is killed.                                *)
Die(p) ==
    /\ Alive(p)
    /\ child' = [child EXCEPT ![p] = "dead"]
    /\ UNCHANGED <<isWindows, run, runs, spawned, signalled, fields, stop, app, disturbed>>

(* waitForChildExit has its listener on the child.                          *)
StopListens(p) == stop.at \in {"grace", "forced"} /\ stop.child = p

(* Fault: nobody tells the stop that its child is gone.                     *)
Mut_ExitUnheard(p) ==
    /\ MainRuns /\ child[p] = "dead"
    /\ child' = [child EXCEPT ![p] = "reaped"]
    /\ current' = None /\ port' = None
    /\ UNCHANGED <<isWindows, run, runs, spawned, signalled, startup, stop, app, disturbed>>

(* The exit event: the fields are cleared, and a stop that waits for this   *)
(* child returns.                                                           *)
ExitEvent(p) ==
    /\ MainRuns /\ child[p] = "dead"
    /\ child' = [child EXCEPT ![p] = "reaped"]
    /\ IF StopListens(p)
         THEN StopReturns
         ELSE current' = None /\ port' = None /\ UNCHANGED <<startup, stop, app>>
    /\ UNCHANGED <<isWindows, run, runs, spawned, signalled, disturbed>>

-----------------------------------------------------------------------------
Init ==
    /\ isWindows \in BOOLEAN
    /\ run = [r \in Run |-> NoRun] /\ runs = 0
    /\ child = [p \in Child |-> "none"] /\ spawned = 0 /\ signalled = {}
    /\ current = None /\ port = None /\ startup = None
    /\ stop = NoStop
    /\ app = "running" /\ disturbed = FALSE

RunGoesOn(r) ==
    \/ PrepareFailed(r) \/ Spawn(r) \/ HealthAnswered(r)
    \/ Ready(r) \/ ChildGone(r) \/ HealthTimedOut(r)

StopGoesOn == GraceOver \/ Taskkilled \/ ForcedOver \/ Exit

Next ==
    \/ Start \/ Restart \/ Quit \/ StopGoesOn
    \/ \E r \in Run : RunGoesOn(r)
    \/ \E p \in Child : Boot(p) \/ Die(p) \/ ExitEvent(p)

Spec == Init /\ [][Next]_vars

(* The awaits of a start and of a stop are bounded by timers, and taskkill  *)
(* ends; children owe nothing.                                              *)
FairSpec ==
    /\ Spec
    /\ \A r \in Run : WF_vars(RunGoesOn(r))
    /\ WF_vars(StopGoesOn)

-----------------------------------------------------------------------------
(* Properties                                                               *)

(* Callers share a start: until a health check times out or somebody stops  *)
(* the backend there is one child at most, it is the one a quit will stop,  *)
(* and at most one run is under way.                                        *)
OneBackend ==
    ~disturbed =>
        /\ \A p \in Child : Alive(p) => p = current
        /\ Cardinality({r \in Run : run[r].at \in {"preparing", "waiting", "answered"}}) <= 1

(* A stop that waits for an exit event waits for that of a child it has     *)
(* signalled, and the event is still to come.                               *)
StopWaitsForItsChild ==
    \A p \in Child : StopListens(p) => p \in signalled /\ child[p] # "reaped"

(* Fields, listeners and children agree.                                    *)
BackendIsSafe == TypeOK /\ OneBackend /\ StopWaitsForItsChild

(* A start ends: it is ready, it fails, or the app is gone.                 *)
StartEnds == \A r \in Run : run[r].at = "preparing" ~> run[r].at = "ended" \/ ~MainRuns

(* A quit leaves the app, whatever its child does.                          *)
QuitEnds == app = "stopping" ~> app = "exited"

(* Nobody waits for ever for a backend that hangs, dead or alive.           *)
BackendSettles == StartEnds /\ QuitEnds

(* packages/main/src/index.ts:582 "Promise that resolves once backend is no *)
(* longer running": when the stop of a quit has returned no child serves    *)
(* that nobody has told to stop.                                            *)
QuitStopsTheBackend ==
    app \in {"cleaning", "exited"} => \A p \in Child : Alive(p) => p \in signalled
=============================================================================
