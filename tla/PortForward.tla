----------------------------- MODULE PortForward -----------------------------
(***************************************************************************)
(* The port-forwarding service of the backend: the registry of running     *)
(* rules, the guard that makes a start exclusive, the ssh2 client of each  *)
(* start, and the requests that race with them (stop, edit, delete, server *)
(* deletion, shutdown).                                                    *)
(*                                                                         *)
(* A start is one call of startRule; it creates at most one client and one *)
(* runtime, so a member of Start names the call, its client and its        *)
(* runtime.  JavaScript runs one callback at a time: an action is what a   *)
(* handler does between two awaits.  A database call takes effect when it  *)
(* is issued and its answer is a later step.  Rows are present or absent,  *)
(* their contents are the update that wrote them.  What a call answers, the *)
(* audit log, the metadata timestamps and the forwarded connections are    *)
(* left out.                                                               *)
(***************************************************************************)
EXTENDS FiniteSets

CONSTANTS
    Rule,          \* identifiers of persisted rules
    RemoteRule,    \* those whose listener lives on the SSH server
    Server,        \* SSH servers rules belong to
    ServerOf,      \* the server of each rule
    Start,         \* calls of startRule
    Stop,          \* calls of stopRule
    Update,        \* PUT requests
    None, Original \* no runtime; the configuration a rule was created with

ASSUME RuleAssumption == RemoteRule \subseteq Rule /\ ServerOf \in [Rule -> Server]
ASSUME NameAssumption ==
    /\ None \notin Start \cup Rule
    /\ Original \notin Update
    /\ Start \cap Stop = {} /\ {"start", "close", "shutdown"} \cap (Stop \cup Start) = {}

VARIABLES
    row,             \* rules that have a row in the database
    config,          \* the configuration in each row
    cascaded,        \* history: rules whose row went with their server
    startingRuleIds, \* rules whose start is in flight
    activeRules,     \* the runtime registered for each rule
    start,           \* where each start is, its rule and the configuration it read
    transport,       \* the ssh2 client of each start
    watched,         \* starts whose client carries the service's own listeners
    disposal,        \* disposeRuntimeState, by runtime and caller
    stop,            \* where each stop is, its rule and the runtime it took
    update,          \* where each edit is and its rule
    stopped          \* the service's own stop() has run

rows     == <<row, config, cascaded>>
registry == <<startingRuleIds, activeRules>>
clients  == <<transport, watched, disposal>>
requests == <<start, stop, update>>
vars     == <<rows, registry, clients, requests, stopped>>

Running  == {"looking", "opening", "binding", "persisting", "unsaved", "finalizing",
             "unbinding", "recording", "rollback"}

(* Who may call disposeRuntimeState on a runtime: its own start, a stop, an *)
(* event of a client, the shutdown.                                         *)
Caller == Stop \cup {"start", "close", "shutdown"}

\* isRuleActive: registered, or being started.
RuleActive(r) == activeRules[r] # None \/ r \in startingRuleIds

TypeOK ==
    /\ row \subseteq Rule /\ cascaded \subseteq Rule
    /\ config \in [Rule -> Update \cup {Original}]
    /\ startingRuleIds \subseteq Rule
    /\ activeRules \in [Rule -> Start \cup {None}]
    /\ start \in [Start -> [at: Running \cup {"unused", "returned"},
                            rule: Rule \cup {None}, read: Update \cup {Original, None}]]
    /\ \A s \in Start : start[s].at \in Running =>
          start[s].rule # None /\ (start[s].at # "looking" => start[s].read # None)
    /\ transport \in [Start -> {"none", "open", "failed", "ended", "closed"}]
    /\ watched \subseteq Start
    /\ disposal \in [Start -> [Caller -> {"no", "pending", "throwing", "done"}]]
    /\ stop \in [Stop -> [at: {"unused", "looking", "disposing", "returned"},
                          rule: Rule \cup {None}, took: Start \cup {None}]]
    /\ update \in [Update -> [at: {"unused", "checked", "done"}, rule: Rule \cup {None}]]
    /\ stopped \in BOOLEAN

-----------------------------------------------------------------------------
(* Disposing a runtime                                                      *)

(* unforwardIn of ssh2 throws on a client whose socket can no longer be     *)
(* written to, and only a bound remote rule calls it.  An error may be      *)
(* reported shortly before the socket is torn down.                         *)
DisposeModes(s, client) ==
    CASE start[s].rule \notin RemoteRule \/ client = "open" -> {"pending"}
      [] client = "failed"                                  -> {"pending", "throwing"}
      [] OTHER                                              -> {"throwing"}

BeginDispose(s, caller, client) ==
    \E mode \in DisposeModes(s, client) : disposal' = [disposal EXCEPT ![s][caller] = mode]

(* disposeRuntimeState returns: its last act was client.end().  One that    *)
(* throws never gets that far.                                              *)
Disposed(s, caller) ==
    /\ disposal[s][caller] \in {"pending", "throwing"}
    /\ disposal' = [disposal EXCEPT ![s][caller] = "done"]
    /\ transport' = IF disposal[s][caller] = "pending" /\ transport[s] = "open"
                      THEN [transport EXCEPT ![s] = "ended"] ELSE transport

(* handleUnexpectedClose acts on whatever runtime the rule has now; what is  *)
(* left of the clients is what the event that reported it made of them.      *)
HandleUnexpectedClose(r, client) ==
    LET s == activeRules[r]
    IN IF s = None
         THEN UNCHANGED <<activeRules, disposal>>
         ELSE /\ activeRules' = [activeRules EXCEPT ![r] = None]
              /\ BeginDispose(s, "close", client[s])

-----------------------------------------------------------------------------
(* Starting a rule                                                          *)

Goes(s, at) == start' = [start EXCEPT ![s].at = at]

(* The end of startRule, whatever the way: `finally` releases the guard.    *)
Returns(s) ==
    /\ Goes(s, "returned")
    /\ startingRuleIds' = startingRuleIds \ {start[s].rule}

(* startRule: refused while the rule is active, else the guard is taken and *)
(* the row is read.                                                         *)
StartRule(s, r) ==
    /\ start[s].at = "unused"
    /\ IF RuleActive(r)
         THEN /\ start' = [start EXCEPT ![s] = [at |-> "returned", rule |-> r, read |-> None]]
              /\ UNCHANGED startingRuleIds
         ELSE /\ start' = [start EXCEPT ![s] =
                     [at |-> "looking", rule |-> r,
                      read |-> IF r \in row THEN config[r] ELSE None]]
              /\ startingRuleIds' = startingRuleIds \cup {r}
    /\ UNCHANGED <<rows, activeRules, clients, stop, update, stopped>>

(* findRule answered: give up, or read the known hosts and connect; either  *)
(* query may also fail.                                                     *)
RuleFound(s) ==
    /\ start[s].at = "looking"
    /\ \/ start[s].read # None /\ Goes(s, "opening") /\ UNCHANGED startingRuleIds
       \/ Returns(s)
    /\ UNCHANGED <<rows, activeRules, clients, stop, update, stopped>>

(* openSshClient answered `ready`: listen or forwardIn is issued.           *)
ClientReady(s) ==
    /\ start[s].at = "opening"
    /\ Goes(s, "binding")
    /\ transport' = [transport EXCEPT ![s] = "open"]
    /\ UNCHANGED <<rows, registry, watched, disposal, stop, update, stopped>>

(* openSshClient answered `host-untrusted`: nothing is written.             *)
HostUntrusted(s) ==
    /\ start[s].at = "opening"
    /\ Returns(s)
    /\ UNCHANGED <<rows, activeRules, clients, stop, update, stopped>>

(* openSshClient answered `failed`: persistStartFailure is issued.          *)
ClientFailedToOpen(s) ==
    /\ start[s].at = "opening"
    /\ Goes(s, "recording")
    /\ UNCHANGED <<rows, registry, clients, stop, update, stopped>>

(* The listener is up: the runtime is registered and its start time saved.  *)
(* A client that died meanwhile is only noticed once the save is answered;  *)
(* a save that finds no row fails.                                          *)
Bound(s) ==
    /\ start[s].at = "binding"
    /\ activeRules' = [activeRules EXCEPT ![start[s].rule] = s]
    /\ Goes(s, IF start[s].rule \in row THEN "persisting" ELSE "unsaved")
    /\ UNCHANGED <<rows, startingRuleIds, clients, stop, update, stopped>>

(* The listener failed: what there is of the runtime is disposed.  It was   *)
(* never bound, so unforwardIn is not called and nothing throws.            *)
BindFailed(s) ==
    /\ start[s].at = "binding"
    /\ Goes(s, "unbinding")
    /\ disposal' = [disposal EXCEPT ![s]["start"] = "pending"]
    /\ UNCHANGED <<rows, registry, transport, watched, stop, update, stopped>>

(* The disposal of an unbound runtime is over; persistStartFailure follows. *)
Unbound(s) ==
    /\ start[s].at = "unbinding"
    /\ Disposed(s, "start")
    /\ Goes(s, "recording")
    /\ UNCHANGED <<rows, registry, watched, stop, update, stopped>>

(* persistStartFailure answered, or threw because the row is gone.          *)
FailureRecorded(s) ==
    /\ start[s].at = "recording"
    /\ Returns(s)
    /\ UNCHANGED <<rows, activeRules, clients, stop, update, stopped>>

Mut_MonitorNotRead(s) ==
    /\ start[s].at = "persisting"
    /\ watched' = watched \cup {s}
    /\ Returns(s)
    /\ UNCHANGED <<rows, activeRules, transport, disposal, stop, update, stopped>>

(* The save was answered: the service's listeners replace the monitor, and  *)
(* what the monitor saw is acted upon before anything else runs.            *)
StartPersisted(s) ==
    /\ start[s].at = "persisting"
    /\ watched' = watched \cup {s}
    /\ IF transport[s] \notin {"failed", "closed"}
         THEN Returns(s) /\ UNCHANGED <<activeRules, disposal>>
         ELSE /\ HandleUnexpectedClose(start[s].rule, transport)
              /\ IF activeRules[start[s].rule] = None
                   THEN Returns(s)
                   ELSE Goes(s, "finalizing") /\ UNCHANGED startingRuleIds
    /\ UNCHANGED <<rows, transport, stop, update, stopped>>

(* The save failed, for want of the row or otherwise: the registration is   *)
(* taken back and the runtime disposed, whoever else may have done so.      *)
PersistFailed(s) ==
    /\ start[s].at \in {"persisting", "unsaved"}
    /\ activeRules' = [activeRules EXCEPT ![start[s].rule] = None]
    /\ BeginDispose(s, "start", transport[s])
    /\ Goes(s, "rollback")
    /\ UNCHANGED <<rows, startingRuleIds, transport, watched, stop, update, stopped>>

Mut_GuardKept(s) ==
    /\ start[s].at = "rollback"
    /\ Disposed(s, "start")
    /\ Goes(s, "returned")
    /\ UNCHANGED <<rows, registry, watched, stop, update, stopped>>

(* The rollback is over; startRule rejects.                                 *)
RolledBack(s) ==
    /\ start[s].at = "rollback"
    /\ Disposed(s, "start")
    /\ Returns(s)
    /\ UNCHANGED <<rows, activeRules, watched, stop, update, stopped>>

(* The unexpected-close path a start waits for is over.                     *)
Finalized(s) ==
    /\ start[s].at = "finalizing"
    /\ disposal[s]["close"] = "done"
    /\ Returns(s)
    /\ UNCHANGED <<rows, activeRules, clients, stop, update, stopped>>

-----------------------------------------------------------------------------
(* Stopping a rule, editing it, losing its row                              *)

(* stopRule reads the row first.                                            *)
StopRule(k, r) ==
    /\ stop[k].at = "unused"
    /\ stop' = [stop EXCEPT ![k] = [at |-> IF r \in row THEN "looking" ELSE "returned",
                                   rule |-> r, took |-> None]]
    /\ UNCHANGED <<rows, registry, clients, start, update, stopped>>

(* findRule answered: the runtime the rule has now, if any, leaves the      *)
(* registry before it is disposed.  Without one only the stop time is saved.*)
StopTakes(k) ==
    /\ stop[k].at = "looking"
    /\ LET s == activeRules[stop[k].rule]
       IN IF s = None
            THEN /\ stop' = [stop EXCEPT ![k].at = "returned"]
                 /\ UNCHANGED <<activeRules, disposal>>
            ELSE /\ stop' = [stop EXCEPT ![k].at = "disposing", ![k].took = s]
                 /\ activeRules' = [activeRules EXCEPT ![stop[k].rule] = None]
                 /\ BeginDispose(s, k, transport[s])
    /\ UNCHANGED <<rows, startingRuleIds, transport, watched, start, update, stopped>>

(* The disposal is over and the stop time is saved, unless one of them fails.*)
StopReturns(k) ==
    /\ stop[k].at = "disposing"
    /\ Disposed(stop[k].took, k)
    /\ stop' = [stop EXCEPT ![k].at = "returned"]
    /\ UNCHANGED <<rows, registry, watched, start, update, stopped>>

(* PUT: the rule must not be active when the request is looked at; then the *)
(* payload and the server are read.                                         *)
CheckUpdate(u, r) ==
    /\ update[u].at = "unused"
    /\ update' = [update EXCEPT ![u] = [at |-> IF RuleActive(r) THEN "done" ELSE "checked",
                                       rule |-> r]]
    /\ UNCHANGED <<rows, registry, clients, start, stop, stopped>>

(* The row is written, if it still is there and the payload was valid.      *)
ApplyUpdate(u) ==
    /\ update[u].at = "checked"
    /\ update' = [update EXCEPT ![u].at = "done"]
    /\ \/ /\ update[u].rule \in row
          /\ config' = [config EXCEPT ![update[u].rule] = u]
       \/ UNCHANGED config
    /\ UNCHANGED <<row, cascaded, registry, clients, start, stop, stopped>>

(* DELETE of a rule: the check and the deletion are one step.               *)
DeleteRule(r) ==
    /\ r \in row /\ ~RuleActive(r)
    /\ row' = row \ {r}
    /\ UNCHANGED <<config, cascaded, registry, clients, requests, stopped>>

(* DELETE of a server looks at no rule: the schema cascades to its rules.   *)
DeleteServer(v) ==
    LET owned == {r \in row : ServerOf[r] = v}
    IN /\ owned # {}
       /\ row' = row \ owned
       /\ cascaded' = cascaded \cup owned
       /\ UNCHANGED <<config, registry, clients, requests, stopped>>

-----------------------------------------------------------------------------
(* What happens to a client                                                 *)

(* The listeners of a client act on the rule, not on the client's runtime.  *)
Event(s) ==
    /\ IF s \in watched
         THEN HandleUnexpectedClose(start[s].rule, transport')
         ELSE UNCHANGED <<activeRules, disposal>>
    /\ UNCHANGED <<rows, startingRuleIds, watched, requests, stopped>>

ClientError(s) ==
    /\ transport[s] \in {"open", "ended"}
    /\ transport' = [transport EXCEPT ![s] = "failed"]
    /\ Event(s)

ClientClose(s) ==
    /\ transport[s] \in {"open", "failed", "ended"}
    /\ transport' = [transport EXCEPT ![s] = "closed"]
    /\ Event(s)

(* The unexpected-close path is over; it catches what disposal throws.      *)
CloseHandled(s) ==
    /\ Disposed(s, "close")
    /\ UNCHANGED <<rows, registry, watched, requests, stopped>>

(* stop(): every registered runtime is disposed; a start in flight is not.  *)
Shutdown ==
    /\ ~stopped
    /\ stopped' = TRUE
    /\ activeRules' = [r \in Rule |-> None]
    /\ LET taken == {activeRules[r] : r \in Rule} \ {None}
       IN \E mode \in [taken -> {"pending", "throwing"}] :
            /\ \A s \in taken : mode[s] \in DisposeModes(s, transport[s])
            /\ disposal' = [s \in Start |-> [c \in Caller |->
                  IF s \in taken /\ c = "shutdown" THEN mode[s] ELSE disposal[s][c]]]
    /\ UNCHANGED <<rows, startingRuleIds, transport, watched, requests>>

ShutdownDisposed(s) ==
    /\ Disposed(s, "shutdown")
    /\ UNCHANGED <<rows, registry, watched, requests, stopped>>

-----------------------------------------------------------------------------
Init ==
    /\ row \in SUBSET Rule /\ cascaded = {}
    /\ config = [r \in Rule |-> Original]
    /\ startingRuleIds = {} /\ activeRules = [r \in Rule |-> None]
    /\ start = [s \in Start |-> [at |-> "unused", rule |-> None, read |-> None]]
    /\ transport = [s \in Start |-> "none"]
    /\ watched = {}
    /\ disposal = [s \in Start |-> [c \in Caller |-> "no"]]
    /\ stop = [k \in Stop |-> [at |-> "unused", rule |-> None, took |-> None]]
    /\ update = [u \in Update |-> [at |-> "unused", rule |-> None]]
    /\ stopped = FALSE

StartGoesOn(s) ==
    \/ RuleFound(s) \/ ClientReady(s) \/ HostUntrusted(s) \/ ClientFailedToOpen(s)
    \/ Bound(s) \/ BindFailed(s) \/ Unbound(s) \/ FailureRecorded(s)
    \/ StartPersisted(s) \/ PersistFailed(s) \/ RolledBack(s) \/ Finalized(s)

StopGoesOn(k) == StopTakes(k) \/ StopReturns(k)

Request ==
    \/ \E s \in Start, r \in Rule : StartRule(s, r)
    \/ \E k \in Stop, r \in Rule : StopRule(k, r)
    \/ \E u \in Update, r \in Rule : CheckUpdate(u, r)
    \/ \E r \in Rule : DeleteRule(r)
    \/ \E v \in Server : DeleteServer(v)
    \/ Shutdown

ClientEvent == \E s \in Start : ClientError(s) \/ ClientClose(s)

Cleanup == \E s \in Start : CloseHandled(s) \/ ShutdownDisposed(s)

Next ==
    \/ Request \/ ClientEvent \/ Cleanup
    \/ \E s \in Start : StartGoesOn(s)
    \/ \E k \in Stop : StopGoesOn(k)
    \/ \E u \in Update : ApplyUpdate(u)

Spec == Init /\ [][Next]_vars

(* What was begun is answered: the connection attempt has a ready timeout,  *)
(* a listener reports one way or the other, the database answers, and a     *)
(* request pending on a dead client is failed by ssh2.  Nobody has to issue *)
(* a request and no client has to fail.                                     *)
FairSpec ==
    /\ Spec
    /\ \A s \in Start : WF_vars(StartGoesOn(s))
    /\ \A s \in Start : WF_vars(CloseHandled(s)) /\ WF_vars(ShutdownDisposed(s))
    /\ \A k \in Stop : WF_vars(StopGoesOn(k))

-----------------------------------------------------------------------------
(* Properties                                                               *)

(* "Duplicate start ... requests cannot create or orphan overlapping        *)
(* runtimes": a rule has one start in flight at most, and what the registry *)
(* holds for it meanwhile is that start's own runtime or nothing, so no     *)
(* registration ever overwrites another.                                    *)
StartupIsExclusive ==
    \A s \in Start : start[s].at \in Running =>
        /\ activeRules[start[s].rule] \in {None, s}
        /\ \A t \in Start \ {s} : start[t].at \in Running => start[t].rule # start[s].rule

(* No client is left connected with nobody to end it: it belongs to a start *)
(* in flight, to the registry, or to a disposal that has yet to end it.     *)
NoOrphanedClient ==
    \A s \in Start : transport[s] = "open" =>
        \/ start[s].at \in {"binding", "persisting", "unsaved"}
        \/ activeRules[start[s].rule] = s
        \/ \E c \in Caller : disposal[s][c] = "pending"

(* A runtime leaves the registry before its disposal begins and never comes *)
(* back, and apart from a start taking back a registration somebody already *)
(* removed, it is disposed by one caller only.                              *)
DisposalIsOwned ==
    \A s \in Start : \A c \in Caller : disposal[s][c] # "no" =>
        /\ \A r \in Rule : activeRules[r] # s
        /\ \A d \in Caller \ {c, "start"} : disposal[s][d] # "no" => c = "start"

(* A rule whose start has returned is not shown as running on a client that *)
(* is gone: between the connection monitor and the service's own listeners  *)
(* no failure is missed.                                                    *)
NoDeadRuntime ==
    \A r \in Rule : LET s == activeRules[r] IN
        s # None /\ start[s].at = "returned" => transport[s] = "open"

(* Deleting a rule never takes the row from under its runtime: only the     *)
(* deletion of the server does.                                             *)
RunningRuleKeepsItsRow ==
    \A r \in Rule : activeRules[r] # None => r \in row \cup cascaded

(* The registry of runtimes, the rows, the clients and the disposals never  *)
(* disagree.                                                                *)
RegistryIsSafe ==
    /\ TypeOK
    /\ StartupIsExclusive
    /\ NoOrphanedClient
    /\ DisposalIsOwned
    /\ NoDeadRuntime
    /\ RunningRuleKeepsItsRow

(* A start always returns and releases its guard, or the rule could never   *)
(* be started, edited or deleted again.                                     *)
GuardIsReleased == \A r \in Rule : r \in startingRuleIds ~> r \notin startingRuleIds

(* Every runtime taken out of the registry has its client ended.            *)
RemovedRuntimeIsEnded ==
    \A s \in Start : (\E c \in Caller : disposal[s][c] \in {"pending", "throwing"})
                        ~> (transport[s] # "open")

(* Whatever fails on the way, neither a guard nor a client stays behind.    *)
RulesSettle == GuardIsReleased /\ RemovedRuntimeIsEnded

(* docs/developer/runtime/port-forwarding.md:70 "Explicit stop removes the  *)
(* runtime registry entry before closing ... so transport close events      *)
(* cannot re-enter the unexpected-close path": what happens to a client     *)
(* that was explicitly stopped finalizes no runtime.                        *)
StoppedClientIsSilent ==
    [][\A s, t \in Start :
         transport'[t] # transport[t] /\ (\E k \in Stop : disposal[t][k] # "no")
           => disposal'[s]["close"] \in {disposal[s]["close"], "done"}]_vars

(* port-forwarding.md:87 "Active rules cannot be edited": a rule that runs, *)
(* runs with the configuration in its row.                                  *)
RunsAsConfigured ==
    \A r \in Rule : activeRules[r] # None /\ r \in row => start[activeRules[r]].read = config[r]
=============================================================================
