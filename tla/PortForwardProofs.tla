------------------------- MODULE PortForwardProofs --------------------------
(***************************************************************************)
(* The registry of running rules, the rows, the clients and the disposals  *)
(* never disagree: what TLC checks on one rule, two starts and one stop    *)
(* holds for every number of rules, of either kind, and of requests.       *)
(***************************************************************************)
EXTENDS PortForward, TLAPS

-----------------------------------------------------------------------------
(* The invariant.                                                          *)

\* startRule has not returned.
IsRunning(s)    == start[s].at \in Running
\* The runtime is in the registry.
Registered(s)   == \E r \in Rule : activeRules[r] = s
\* Nobody has begun to dispose the runtime.
Undisposed(s)   == \A c \in Caller : disposal[s][c] = "no"
\* A disposal of the runtime has yet to end its client.
BeingEnded(s)   == \E c \in Caller : disposal[s][c] = "pending"

\* The last clause of TypeOK, of one start: a start under way has a rule and,
\* once findRule has answered, its configuration.
Informed(s) ==
    start[s].at \in Running => start[s].rule # None /\ (start[s].at # "looking" => start[s].read # None)

\* A start under way holds the guard of its rule, alone, and finds in the
\* registry its own runtime or nothing; the row it has read may have gone
\* only with its server.
Guards ==
    \A s \in Start : IsRunning(s) =>
        /\ start[s].rule \in startingRuleIds
        /\ activeRules[start[s].rule] \in {None, s}
        /\ start[s].read # None => start[s].rule \in row \cup cascaded
        /\ \A t \in Start : t # s /\ IsRunning(t) => start[t].rule # start[s].rule

\* What is known of a registered runtime s of rule r: it is registered only
\* between its binding and its removal, and once its start has returned the
\* service listens to a client that is connected.
Registration(r, s) ==
    /\ start[s].rule = r
    /\ start[s].at \in {"persisting", "unsaved", "returned"}
    /\ start[s].at = "returned" => s \in watched /\ transport[s] = "open"
    /\ transport[s] \in {"open", "failed", "closed"}
    /\ r \in row \cup cascaded
    /\ Undisposed(s)

\* Every registered runtime is known so.
Registry == \A r \in Rule : \A s \in Start : activeRules[r] = s => Registration(r, s)

\* How far a start is tells what may have happened to its client and its
\* runtime.
Beginning(s) ==
    /\ start[s].at \in {"unused", "looking", "opening"} => transport[s] = "none"
    /\ start[s].at \in {"unused", "looking", "opening", "binding"} => Undisposed(s)
    /\ start[s].at = "binding" => transport[s] \in {"open", "failed", "closed"}
    /\ start[s].at \in {"persisting", "unsaved"} => disposal[s]["start"] = "no"
    /\ s \in watched => start[s].at \in {"finalizing", "returned"} /\ start[s].rule # None

\* Of every start.
Beginnings == \A s \in Start : Beginning(s)

\* A connected client is waited for by its own start, registered, or about to
\* be ended, and no disposal of it will throw.
Clients ==
    \A s \in Start :
        /\ transport[s] = "open" => start[s].at = "binding" \/ Registered(s) \/ BeingEnded(s)
        /\ transport[s] = "open" => \A c \in Caller : disposal[s][c] # "throwing"

\* Apart from its own start one caller at most disposes a runtime.
Owners ==
    \A s \in Start : \A c, d \in Caller \ {"start"} :
        disposal[s][c] # "no" /\ disposal[s][d] # "no" => c = d

\* A stop knows its rule, and its runtime while it disposes it.
Stops ==
    \A k \in Stop :
        /\ stop[k].at = "looking" => stop[k].rule # None
        /\ stop[k].at = "disposing" => stop[k].took # None

\* The inductive invariant. RegistryIsSafe alone is not inductive: that a
\* registration overwrites none follows from the guard every start under way
\* holds, and that a returned start is registered on a live client from what
\* is known of the client at every stage before.
PortInv == TypeOK /\ Guards /\ Registry /\ Beginnings /\ Clients /\ Owners /\ Stops

-----------------------------------------------------------------------------
(* What the helpers of the model change.                                   *)

\* The callers of disposeRuntimeState are told apart.
LEMMA CallerNames ==
  /\ "start" \in Caller /\ "close" \in Caller /\ "shutdown" \in Caller /\ Stop \subseteq Caller
  /\ "start" \notin Stop /\ "close" \notin Stop /\ "shutdown" \notin Stop
  /\ "start" # "close" /\ "start" # "shutdown" /\ "close" # "shutdown"
  BY NameAssumption DEF Caller

\* Disposing the runtime of a connected client does not throw.
LEMMA Modes ==
  ASSUME NEW s, NEW client
  PROVE  /\ DisposeModes(s, client) \subseteq {"pending", "throwing"}
         /\ client = "open" => DisposeModes(s, client) = {"pending"}
  BY DEF DisposeModes

\* The records of starts.
StartRecord == [at: Running \cup {"unused", "returned"},
                rule: Rule \cup {None}, read: Update \cup {Original, None}]

\* What Goes changes, and what it leaves alone.
LEMMA GoesFacts ==
  ASSUME TypeOK, NEW s \in Start, NEW at \in Running \cup {"unused", "returned"}, Goes(s, at)
  PROVE  /\ start' \in [Start -> StartRecord]
         /\ start'[s].at = at /\ start'[s].rule = start[s].rule /\ start'[s].read = start[s].read
         /\ \A t \in Start : t # s => start'[t] = start[t]
<1>1. start \in [Start -> StartRecord]
  BY DEF TypeOK, StartRecord
<1> QED
  BY <1>1 DEF Goes, StartRecord

\* What the beginning of a disposal changes.
LEMMA BeginsFacts ==
  ASSUME TypeOK, NEW s \in Start, NEW c \in Caller, NEW client, BeginDispose(s, c, client)
  PROVE  /\ disposal' \in [Start -> [Caller -> {"no", "pending", "throwing", "done"}]]
         /\ disposal'[s][c] \in {"pending", "throwing"}
         /\ client = "open" => disposal'[s][c] = "pending"
         /\ \A t \in Start, d \in Caller : t # s \/ d # c => disposal'[t][d] = disposal[t][d]
<1>1. PICK mode \in DisposeModes(s, client) : disposal' = [disposal EXCEPT ![s][c] = mode]
  BY DEF BeginDispose
<1>2. mode \in {"pending", "throwing"} /\ (client = "open" => mode = "pending")
  BY Modes
<1> QED
  BY <1>1, <1>2 DEF TypeOK

\* What the end of a disposal changes: a client that was connected is ended.
LEMMA DisposedFacts ==
  ASSUME TypeOK, NEW s \in Start, NEW c \in Caller, Disposed(s, c)
  PROVE  /\ disposal[s][c] \in {"pending", "throwing"}
         /\ disposal' \in [Start -> [Caller -> {"no", "pending", "throwing", "done"}]]
         /\ disposal'[s][c] = "done"
         /\ \A t \in Start, d \in Caller : t # s \/ d # c => disposal'[t][d] = disposal[t][d]
         /\ transport' \in [Start -> {"none", "open", "failed", "ended", "closed"}]
         /\ \A t \in Start : t # s => transport'[t] = transport[t]
         /\ transport[s] # "open" => transport'[s] = transport[s]
         /\ transport[s] = "open" => transport'[s] = IF disposal[s][c] = "pending" THEN "ended" ELSE "open"
BY DEF TypeOK, Disposed

\* What the return of startRule changes.
LEMMA ReturnsFacts ==
  ASSUME TypeOK, NEW s \in Start, Returns(s)
  PROVE  /\ start' \in [Start -> StartRecord]
         /\ start'[s].at = "returned" /\ start'[s].rule = start[s].rule /\ start'[s].read = start[s].read
         /\ \A t \in Start : t # s => start'[t] = start[t]
         /\ startingRuleIds' = startingRuleIds \ {start[s].rule}
         /\ startingRuleIds' \subseteq Rule
<1>1. Goes(s, "returned") /\ startingRuleIds' = startingRuleIds \ {start[s].rule}
  BY DEF Returns
<1>2. startingRuleIds' \subseteq Rule
  BY <1>1 DEF TypeOK
<1> QED
  BY <1>1, <1>2, GoesFacts

\* The fields of a start.
LEMMA RecordTypes ==
  ASSUME TypeOK, NEW s \in Start
  PROVE  /\ start[s].at \in Running \cup {"unused", "returned"}
         /\ start[s].rule \in Rule \cup {None}
         /\ start[s].read \in Update \cup {Original, None}
         /\ IsRunning(s) => start[s].rule \in Rule
BY DEF TypeOK, IsRunning

\* TypeOK after a step of a start.
LEMMA TypeOKFrom ==
  ASSUME TypeOK, UNCHANGED <<rows, stop, update, stopped>>,
         start' \in [Start -> StartRecord], startingRuleIds' \subseteq Rule,
         activeRules' \in [Rule -> Start \cup {None}],
         transport' \in [Start -> {"none", "open", "failed", "ended", "closed"}],
         watched' \subseteq Start,
         disposal' \in [Start -> [Caller -> {"no", "pending", "throwing", "done"}]],
         \A s \in Start : Informed(s)'
  PROVE  TypeOK'
BY DEF TypeOK, StartRecord, rows, Informed

\* Only the start that moves has to be informed again.
LEMMA AllInformed ==
  ASSUME TypeOK, NEW s \in Start, Informed(s)', \A t \in Start : t # s => start'[t] = start[t]
  PROVE  \A t \in Start : Informed(t)'
BY DEF TypeOK, Informed

\* A start that a step does not touch remains where it began.
LEMMA BeginningKept ==
  ASSUME NEW t \in Start, Beginning(t), start'[t] = start[t], transport'[t] = transport[t],
         \A c \in Caller : disposal'[t][c] = disposal[t][c], watched' = watched
  PROVE  Beginning(t)'
BY CallerNames DEF Beginning, Undisposed

-----------------------------------------------------------------------------
(* Steps of a start.                                                       *)

\* A start without a registered runtime returns.
LEMMA ReturnKeeps ==
  ASSUME PortInv, NEW s \in Start,
         start[s].at \in {"looking", "opening", "recording", "finalizing"},
         Returns(s), UNCHANGED <<rows, activeRules, clients, stop, update, stopped>>
  PROVE  PortInv'
<1>1. /\ start' \in [Start -> StartRecord]
      /\ start'[s].at = "returned" /\ start'[s].rule = start[s].rule /\ start'[s].read = start[s].read
      /\ \A t \in Start : t # s => start'[t] = start[t]
      /\ startingRuleIds' = startingRuleIds \ {start[s].rule}
      /\ startingRuleIds' \subseteq Rule
  BY ReturnsFacts DEF PortInv
<1>3. TypeOK'
  <2>1. Informed(s)'
    BY <1>1 DEF Informed, Running
  <2>2. \A t \in Start : Informed(t)'
    BY <1>1, <2>1, AllInformed DEF PortInv
  <2> QED
    BY <1>1, <2>2, TypeOKFrom DEF PortInv, TypeOK, clients
<1>4. Guards'
  BY <1>1, RecordTypes DEF PortInv, Guards, IsRunning, rows, Running
<1>5. Registry'
  BY <1>1, RecordTypes DEF PortInv, Registry, Registration, Undisposed, clients, rows
<1>6. Beginnings'
  BY <1>1, RecordTypes DEF PortInv, Beginnings, Beginning, Undisposed, clients, rows
<1>7. Clients'
  BY <1>1, RecordTypes DEF PortInv, Clients, Registered, BeingEnded, clients, rows
<1>8. Owners' /\ Stops'
  BY DEF PortInv, Owners, Stops, clients
<1> QED
  BY <1>3, <1>4, <1>5, <1>6, <1>7, <1>8 DEF PortInv

\* A start goes on before it has a client.
LEMMA MoveKeeps ==
  ASSUME PortInv, NEW s \in Start, NEW at \in {"opening", "recording"},
         start[s].at \in {"looking", "opening"}, start[s].read # None,
         Goes(s, at), UNCHANGED <<rows, registry, clients, stop, update, stopped>>
  PROVE  PortInv'
<1>1. /\ start' \in [Start -> StartRecord]
      /\ start'[s].at = at /\ start'[s].rule = start[s].rule /\ start'[s].read = start[s].read
      /\ \A t \in Start : t # s => start'[t] = start[t]
  BY GoesFacts DEF PortInv, Running
<1>2. Informed(s)'
  BY <1>1, NameAssumption DEF PortInv, TypeOK, Informed, Running
<1>3. TypeOK'
  <2>1. \A t \in Start : Informed(t)'
    BY <1>1, <1>2, AllInformed DEF PortInv
  <2> QED
    BY <1>1, <2>1, TypeOKFrom DEF PortInv, TypeOK, clients, registry
<1>4. Guards'
  BY <1>1, RecordTypes DEF PortInv, Guards, IsRunning, rows, Running, registry
<1>5. Registry'
  BY <1>1, RecordTypes DEF PortInv, Registry, Registration, Undisposed, clients, rows, registry
<1>6. Beginnings'
  BY <1>1, RecordTypes DEF PortInv, Beginnings, Beginning, Undisposed, clients, rows, registry
<1>7. Clients'
  BY <1>1, RecordTypes DEF PortInv, Clients, Registered, BeingEnded, clients, rows, registry
<1>8. Owners' /\ Stops'
  BY DEF PortInv, Owners, Stops, clients
<1> QED
  BY <1>3, <1>4, <1>5, <1>6, <1>7, <1>8 DEF PortInv

\* findRule answers.
LEMMA RuleFoundKeeps ==
  ASSUME PortInv, NEW s \in Start, RuleFound(s)
  PROVE  PortInv'
<1>1. CASE Returns(s)
  BY <1>1, ReturnKeeps DEF RuleFound
<1>2. CASE start[s].read # None /\ Goes(s, "opening") /\ UNCHANGED startingRuleIds
  BY <1>2, MoveKeeps DEF RuleFound, registry
<1> QED
  BY <1>1, <1>2 DEF RuleFound

\* The ways a start ends or goes on without touching registry and client.
LEMMA OpeningEndsKeeps ==
  ASSUME PortInv, NEW s \in Start,
         HostUntrusted(s) \/ ClientFailedToOpen(s) \/ FailureRecorded(s) \/ Finalized(s)
  PROVE  PortInv'
<1>1. CASE HostUntrusted(s)
  BY <1>1, ReturnKeeps DEF HostUntrusted
<1>2. CASE FailureRecorded(s)
  BY <1>2, ReturnKeeps DEF FailureRecorded
<1>3. CASE Finalized(s)
  BY <1>3, ReturnKeeps DEF Finalized
<1>4. CASE ClientFailedToOpen(s)
  <2>1. start[s].at = "opening"
    BY <1>4 DEF ClientFailedToOpen
  <2>2. start[s].read # None
    BY <2>1 DEF PortInv, TypeOK, Running
  <2> QED
    BY <1>4, <2>1, <2>2, MoveKeeps DEF ClientFailedToOpen
<1> QED
  BY <1>1, <1>2, <1>3, <1>4

\* A client is ready.
LEMMA ClientReadyKeeps ==
  ASSUME PortInv, NEW s \in Start, ClientReady(s)
  PROVE  PortInv'
<1>1. /\ start' \in [Start -> StartRecord]
      /\ start'[s].at = "binding" /\ start'[s].rule = start[s].rule /\ start'[s].read = start[s].read
      /\ \A t \in Start : t # s => start'[t] = start[t]
  BY GoesFacts DEF PortInv, Running, ClientReady
<1>2. /\ start[s].at = "opening"
      /\ UNCHANGED <<rows, registry, watched, disposal, stop, update, stopped>>
      /\ transport' = [transport EXCEPT ![s] = "open"]
  BY DEF ClientReady
<1>3. TypeOK'
  <2>1. Informed(s)'
    BY <1>1, <1>2 DEF PortInv, TypeOK, Informed, Running
  <2>2. \A t \in Start : Informed(t)'
    BY <1>1, <2>1, AllInformed DEF PortInv
  <2> QED
    BY <1>1, <1>2, <2>2, TypeOKFrom DEF PortInv, TypeOK, registry
<1>4. Guards'
  BY <1>1, <1>2, RecordTypes DEF PortInv, Guards, IsRunning, rows, Running, registry
<1>5. Registry'
  BY <1>1, <1>2, RecordTypes DEF PortInv, TypeOK, Registry, Registration, Undisposed, rows, registry
<1>6. Beginnings'
  BY <1>1, <1>2, RecordTypes DEF PortInv, TypeOK, Beginnings, Beginning, Undisposed, rows, registry
<1>7. Clients'
  BY <1>1, <1>2, RecordTypes DEF PortInv, TypeOK, Clients, Beginnings, Beginning, Undisposed, Registered, BeingEnded, rows, registry
<1>8. Owners' /\ Stops'
  BY <1>2 DEF PortInv, Owners, Stops
<1> QED
  BY <1>3, <1>4, <1>5, <1>6, <1>7, <1>8 DEF PortInv

\* startRule: refused while the rule is active, else it takes a guard nobody
\* holds.
LEMMA StartRuleKeeps ==
  ASSUME PortInv, NEW s \in Start, NEW r \in Rule, StartRule(s, r)
  PROVE  PortInv'
<1>1. start[s].at = "unused" /\ UNCHANGED <<rows, activeRules, clients, stop, update, stopped>>
  BY DEF StartRule
<1>2. CASE RuleActive(r)
  <2>1. /\ start' \in [Start -> StartRecord]
        /\ start'[s].at = "returned" /\ start'[s].rule = r
        /\ \A t \in Start : t # s => start'[t] = start[t]
        /\ startingRuleIds' = startingRuleIds
    <3>1. start' = [start EXCEPT ![s] = [at |-> "returned", rule |-> r, read |-> None]]
      BY <1>2 DEF StartRule
    <3>2. start \in [Start -> StartRecord]
      BY DEF PortInv, TypeOK, StartRecord
    <3>3. [at |-> "returned", rule |-> r, read |-> None] \in StartRecord
      BY DEF StartRecord
    <3> QED
      BY <1>2, <3>1, <3>2, <3>3 DEF StartRule
  <2>2. Informed(s)'
    BY <2>1 DEF Informed, Running
  <2>3. TypeOK'
    <3>1. \A t \in Start : Informed(t)'
      BY <2>1, <2>2, AllInformed DEF PortInv
    <3> QED
      BY <1>1, <2>1, <3>1, TypeOKFrom DEF PortInv, TypeOK, clients
  <2>4. Guards'
    BY <1>1, <2>1, RecordTypes DEF PortInv, Guards, IsRunning, rows, Running
  <2>5. Registry'
    BY <1>1, <2>1, RecordTypes DEF PortInv, Registry, Registration, Undisposed, clients, rows
  <2>6. Beginnings'
    BY <1>1, <2>1, RecordTypes DEF PortInv, Beginnings, Beginning, Undisposed, clients, rows
  <2>7. Clients'
    BY <1>1, <2>1, RecordTypes DEF PortInv, Clients, Beginnings, Beginning, Registry, Registration, Registered, BeingEnded, clients, rows
  <2>8. Owners' /\ Stops'
    BY <1>1 DEF PortInv, Owners, Stops, clients
  <2> QED
    BY <2>3, <2>4, <2>5, <2>6, <2>7, <2>8 DEF PortInv
<1>3. CASE ~RuleActive(r)
  <2>1. /\ start' \in [Start -> StartRecord]
        /\ start'[s].at = "looking" /\ start'[s].rule = r
        /\ start'[s].read # None => r \in row
        /\ \A t \in Start : t # s => start'[t] = start[t]
        /\ startingRuleIds' = startingRuleIds \cup {r}
        /\ activeRules[r] = None /\ r \notin startingRuleIds
    BY <1>3 DEF StartRule, StartRecord, PortInv, TypeOK, RuleActive, Running
  <2>2. Informed(s)'
    BY <2>1, NameAssumption DEF Informed, Running
  <2>3. TypeOK'
    <3>1. \A t \in Start : Informed(t)'
      BY <2>1, <2>2, AllInformed DEF PortInv
    <3> QED
      BY <1>1, <2>1, <3>1, TypeOKFrom DEF PortInv, TypeOK, clients
  <2>4. Guards'
    BY <1>1, <2>1, RecordTypes DEF PortInv, Guards, IsRunning, rows, Running
  <2>5. Registry'
    BY <1>1, <2>1, RecordTypes DEF PortInv, Registry, Registration, Undisposed, clients, rows
  <2>6. Beginnings'
    BY <1>1, <2>1, RecordTypes DEF PortInv, Beginnings, Beginning, Undisposed, clients, rows
  <2>7. Clients'
    BY <1>1, <2>1, RecordTypes DEF PortInv, Clients, Beginnings, Beginning, Registry, Registration, Registered, BeingEnded, clients, rows
  <2>8. Owners' /\ Stops'
    BY <1>1 DEF PortInv, Owners, Stops, clients
  <2> QED
    BY <2>3, <2>4, <2>5, <2>6, <2>7, <2>8 DEF PortInv
<1> QED
  BY <1>2, <1>3

\* The registration: the slot is empty, for the guard kept every other start
\* out.
LEMMA BoundKeeps ==
  ASSUME PortInv, NEW s \in Start, Bound(s)
  PROVE  PortInv'
<1> DEFINE r == start[s].rule
<1>1. /\ start[s].at = "binding" /\ activeRules' = [activeRules EXCEPT ![r] = s]
      /\ UNCHANGED <<rows, startingRuleIds, clients, stop, update, stopped>>
  BY DEF Bound
<1>2. PICK at \in {"persisting", "unsaved"} : Goes(s, at)
  BY DEF Bound
<1>3. /\ start' \in [Start -> StartRecord]
      /\ start'[s].at = at /\ start'[s].rule = start[s].rule /\ start'[s].read = start[s].read
      /\ \A t \in Start : t # s => start'[t] = start[t]
  BY <1>2, GoesFacts DEF PortInv, Running
<1>4. r \in Rule /\ start[s].read # None /\ activeRules[r] \in {None, s} /\ r \in row \cup cascaded
  BY <1>1 DEF PortInv, TypeOK, Guards, IsRunning, Running
<1>5. /\ activeRules' \in [Rule -> Start \cup {None}] /\ activeRules'[r] = s
      /\ \A q \in Rule : q # r => activeRules'[q] = activeRules[q]
  BY <1>1, <1>4 DEF PortInv, TypeOK
<1> HIDE DEF r
<1>6. start[s].rule = r
  BY DEF r
<1>7. TypeOK'
  <2>1. Informed(s)'
    BY <1>1, <1>3, <1>4, <1>6, NameAssumption DEF Informed, Running
  <2>2. \A t \in Start : Informed(t)'
    BY <1>3, <2>1, AllInformed DEF PortInv
  <2> QED
    BY <1>1, <1>3, <1>5, <2>2, TypeOKFrom DEF PortInv, TypeOK, clients
<1>8. Guards'
  BY <1>1, <1>3, <1>4, <1>5, <1>6, RecordTypes DEF PortInv, Guards, IsRunning, rows, Running
<1>9. Registry'
  BY <1>1, <1>3, <1>4, <1>5, <1>6, RecordTypes DEF PortInv, Registry, Registration, Beginnings, Beginning, Undisposed, clients, rows
<1>10. Beginnings'
  BY <1>1, <1>3, <1>4, RecordTypes, CallerNames DEF PortInv, Beginnings, Beginning, Undisposed, clients, rows
<1>11. Clients'
  <2> SUFFICES ASSUME NEW t \in Start, transport'[t] = "open"
               PROVE  /\ start'[t].at = "binding" \/ Registered(t)' \/ BeingEnded(t)'
                      /\ \A c \in Caller : disposal'[t][c] # "throwing"
    BY DEF Clients
  <2>1. transport[t] = "open" /\ disposal' = disposal
    BY <1>1 DEF clients
  <2>2. Registered(s)'
    BY <1>4, <1>5 DEF Registered
  <2>3. t # s => start'[t] = start[t] /\ (Registered(t) => Registered(t)')
    BY <1>3, <1>4, <1>5, NameAssumption DEF Registered
  <2> QED
    BY <2>1, <2>2, <2>3 DEF PortInv, Clients, BeingEnded
<1>12. Owners' /\ Stops'
  BY <1>1 DEF PortInv, Owners, Stops, clients
<1> QED
  BY <1>7, <1>8, <1>9, <1>10, <1>11, <1>12 DEF PortInv

\* A listener failed: the start begins to dispose its own runtime.
LEMMA BindFailedKeeps ==
  ASSUME PortInv, NEW s \in Start, BindFailed(s)
  PROVE  PortInv'
<1>1. /\ start[s].at = "binding" /\ disposal' = [disposal EXCEPT ![s]["start"] = "pending"]
      /\ UNCHANGED <<rows, registry, transport, watched, stop, update, stopped>>
  BY DEF BindFailed
<1>2. /\ start' \in [Start -> StartRecord]
      /\ start'[s].at = "unbinding" /\ start'[s].rule = start[s].rule /\ start'[s].read = start[s].read
      /\ \A t \in Start : t # s => start'[t] = start[t]
  BY GoesFacts DEF PortInv, Running, BindFailed
<1>3. /\ disposal' \in [Start -> [Caller -> {"no", "pending", "throwing", "done"}]]
      /\ disposal'[s]["start"] = "pending"
      /\ \A t \in Start, d \in Caller : t # s \/ d # "start" => disposal'[t][d] = disposal[t][d]
  BY <1>1, CallerNames DEF PortInv, TypeOK
<1>4. UNCHANGED <<row, cascaded, startingRuleIds, activeRules, transport, watched, stop>>
  BY <1>1 DEF rows, registry
<1>5. TypeOK'
  <2>1. Informed(s)'
    BY <1>1, <1>2 DEF PortInv, TypeOK, Informed, Running
  <2>2. \A t \in Start : Informed(t)'
    BY <1>2, <2>1, AllInformed DEF PortInv
  <2> QED
    BY <1>1, <1>2, <1>3, <2>2, TypeOKFrom DEF PortInv, TypeOK, registry
<1>6. Guards'
  BY <1>1, <1>2, <1>4, RecordTypes DEF PortInv, Guards, IsRunning, Running
<1>7. Registry'
  BY <1>1, <1>2, <1>3, <1>4, RecordTypes DEF PortInv, Registry, Registration, Undisposed
<1>8. Beginnings'
  BY <1>1, <1>2, <1>3, <1>4, RecordTypes DEF PortInv, Beginnings, Beginning, Undisposed
<1>9. Clients'
  BY <1>1, <1>2, <1>3, <1>4, CallerNames DEF PortInv, Clients, Registered, BeingEnded, Beginnings, Beginning, Undisposed
<1>10. Owners' /\ Stops'
  BY <1>3, <1>4 DEF PortInv, Owners, Stops
<1> QED
  BY <1>5, <1>6, <1>7, <1>8, <1>9, <1>10 DEF PortInv

\* A start has disposed its own runtime.
LEMMA OwnDisposalEndsKeeps ==
  ASSUME PortInv, NEW s \in Start, Unbound(s) \/ RolledBack(s)
  PROVE  PortInv'
<1>1. /\ start[s].at \in {"unbinding", "rollback"} /\ Disposed(s, "start")
      /\ UNCHANGED <<rows, activeRules, watched, stop, update, stopped>>
  BY DEF Unbound, RolledBack, registry
<1>2. /\ start' \in [Start -> StartRecord]
      /\ start'[s].at \in {"recording", "returned"}
      /\ start'[s].rule = start[s].rule /\ start'[s].read = start[s].read
      /\ \A t \in Start : t # s => start'[t] = start[t]
      /\ startingRuleIds' \subseteq Rule
      /\ startingRuleIds \ {start[s].rule} \subseteq startingRuleIds'
      /\ start'[s].at = "recording" => startingRuleIds' = startingRuleIds
  <2>1. CASE Unbound(s)
    BY <2>1, GoesFacts DEF PortInv, TypeOK, Running, Unbound, registry
  <2>2. CASE RolledBack(s)
    BY <2>2, ReturnsFacts DEF PortInv, RolledBack
  <2> QED
    BY <2>1, <2>2
<1>3. /\ disposal[s]["start"] \in {"pending", "throwing"}
      /\ disposal' \in [Start -> [Caller -> {"no", "pending", "throwing", "done"}]]
      /\ disposal'[s]["start"] = "done"
      /\ \A t \in Start, d \in Caller : t # s \/ d # "start" => disposal'[t][d] = disposal[t][d]
      /\ transport' \in [Start -> {"none", "open", "failed", "ended", "closed"}]
      /\ \A t \in Start : t # s => transport'[t] = transport[t]
      /\ transport[s] # "open" => transport'[s] = transport[s]
      /\ transport[s] = "open" => transport'[s] = IF disposal[s]["start"] = "pending" THEN "ended" ELSE "open"
  BY <1>1, DisposedFacts, CallerNames DEF PortInv
<1>4. transport'[s] # "open"
  BY <1>3, CallerNames DEF PortInv, Clients
<1>5. UNCHANGED <<row, cascaded, activeRules, watched, stop>>
  BY <1>1 DEF rows
<1>6. TypeOK'
  <2>1. Informed(s)'
    BY <1>1, <1>2 DEF PortInv, TypeOK, Informed, Running
  <2>2. \A t \in Start : Informed(t)'
    BY <1>2, <2>1, AllInformed DEF PortInv
  <2> QED
    BY <1>1, <1>2, <1>3, <2>2, TypeOKFrom DEF PortInv, TypeOK
<1>7. Guards'
  BY <1>1, <1>2, <1>5, RecordTypes DEF PortInv, Guards, IsRunning, Running
<1>8. Registry'
  BY <1>1, <1>2, <1>3, <1>5, RecordTypes DEF PortInv, Registry, Registration, Undisposed
<1>9. Beginnings'
  <2>1. Beginning(s)'
    BY <1>1, <1>2, <1>5 DEF PortInv, Beginnings, Beginning
  <2>2. ASSUME NEW t \in Start, t # s PROVE Beginning(t)'
    <3>1. start'[t] = start[t] /\ transport'[t] = transport[t] /\ \A c \in Caller : disposal'[t][c] = disposal[t][c]
      BY <1>2, <1>3, <2>2
    <3> QED
      BY <1>5, <3>1, BeginningKept DEF PortInv, Beginnings
  <2> QED
    BY <2>1, <2>2 DEF Beginnings
<1>10. Clients'
  <2> SUFFICES ASSUME NEW t \in Start, transport'[t] = "open"
               PROVE  /\ start'[t].at = "binding" \/ Registered(t)' \/ BeingEnded(t)'
                      /\ \A c \in Caller : disposal'[t][c] # "throwing"
    BY DEF Clients
  <2>1. t # s /\ transport[t] = "open"
    BY <1>3, <1>4
  <2>2. \A c \in Caller : disposal'[t][c] = disposal[t][c]
    BY <1>3, <2>1
  <2>3. start'[t] = start[t] /\ (Registered(t)' <=> Registered(t))
    BY <1>2, <1>5, <2>1 DEF Registered
  <2> QED
    BY <2>1, <2>2, <2>3 DEF PortInv, Clients, BeingEnded
<1>11. Owners' /\ Stops'
  BY <1>3, <1>5 DEF PortInv, Owners, Stops
<1> QED
  BY <1>6, <1>7, <1>8, <1>9, <1>10, <1>11 DEF PortInv

\* What removing a runtime from the registry and beginning to dispose it
\* changes.
LEMMA TakenFacts ==
  ASSUME TypeOK, NEW r \in Rule, NEW c \in Caller, activeRules[r] # None, NEW client,
         activeRules' = [activeRules EXCEPT ![r] = None], BeginDispose(activeRules[r], c, client)
  PROVE  /\ activeRules' \in [Rule -> Start \cup {None}]
         /\ activeRules'[r] = None
         /\ \A q \in Rule : q # r => activeRules'[q] = activeRules[q]
         /\ activeRules[r] \in Start
         /\ disposal' \in [Start -> [Caller -> {"no", "pending", "throwing", "done"}]]
         /\ disposal'[activeRules[r]][c] \in {"pending", "throwing"}
         /\ client = "open" => disposal'[activeRules[r]][c] = "pending"
         /\ \A t \in Start, d \in Caller :
              t # activeRules[r] \/ d # c => disposal'[t][d] = disposal[t][d]
<1>1. activeRules[r] \in Start
  BY DEF TypeOK
<1>2. /\ activeRules' \in [Rule -> Start \cup {None}] /\ activeRules'[r] = None
      /\ \A q \in Rule : q # r => activeRules'[q] = activeRules[q]
  BY DEF TypeOK
<1> QED
  BY <1>1, <1>2, BeginsFacts

\* The save is answered: either the client lives and is watched from now on,
\* or its runtime is taken at once.
LEMMA StartPersistedKeeps ==
  ASSUME PortInv, NEW s \in Start, StartPersisted(s)
  PROVE  PortInv'
<1> DEFINE r == start[s].rule
<1>1. /\ start[s].at = "persisting" /\ watched' = watched \cup {s}
      /\ UNCHANGED <<rows, transport, stop, update, stopped>>
  BY DEF StartPersisted
<1>2. UNCHANGED <<row, cascaded>>
  BY <1>1 DEF rows
<1>3. r \in Rule /\ start[s].read # None /\ activeRules[r] \in {None, s}
  BY <1>1 DEF PortInv, TypeOK, Guards, IsRunning, Running
<1> HIDE DEF r
<1>4. start[s].rule = r
  BY DEF r
<1>5. watched' \subseteq Start
  BY <1>1 DEF PortInv, TypeOK
<1>6. CASE Returns(s) /\ UNCHANGED <<activeRules, disposal>>
           /\ (transport[s] \in {"failed", "closed"} => activeRules[r] = None)
  <2>1. /\ start' \in [Start -> StartRecord]
        /\ start'[s].at = "returned" /\ start'[s].rule = start[s].rule /\ start'[s].read = start[s].read
        /\ \A t \in Start : t # s => start'[t] = start[t]
        /\ startingRuleIds' = startingRuleIds \ {start[s].rule}
        /\ startingRuleIds' \subseteq Rule
    BY <1>6, ReturnsFacts DEF PortInv
  <2>2. TypeOK'
    <3>1. Informed(s)'
      BY <2>1 DEF Informed, Running
    <3>2. \A t \in Start : Informed(t)'
      BY <2>1, <3>1, AllInformed DEF PortInv
    <3> QED
      BY <1>1, <1>5, <1>6, <2>1, <3>2, TypeOKFrom DEF PortInv, TypeOK
  <2>3. Guards'
    BY <1>1, <1>2, <1>6, <2>1, RecordTypes DEF PortInv, Guards, IsRunning, Running
  <2>4. Registry'
    <3> SUFFICES ASSUME NEW q \in Rule, NEW t \in Start, activeRules[q] = t PROVE Registration(q, t)'
      BY <1>6 DEF Registry
    <3>1. Registration(q, t)
      BY DEF PortInv, Registry
    <3>2. CASE t = s
      <4>1. q = r /\ transport[s] = "open"
        BY <1>3, <1>4, <1>6, <3>1, <3>2, NameAssumption DEF Registration
      <4> QED
        BY <1>1, <1>2, <1>6, <2>1, <3>1, <3>2, <4>1 DEF Registration, Undisposed
    <3>3. CASE t # s
      BY <1>1, <1>2, <1>6, <2>1, <3>1, <3>3 DEF Registration, Undisposed
    <3> QED
      BY <3>2, <3>3
  <2>5. Beginnings'
    <3>1. Beginning(s)'
      BY <1>1, <1>3, <1>4, <1>6, <2>1, NameAssumption DEF PortInv, Beginnings, Beginning
    <3>2. ASSUME NEW t \in Start, t # s PROVE Beginning(t)'
      BY <1>1, <1>6, <2>1, <3>2, CallerNames DEF PortInv, Beginnings, Beginning, Undisposed
    <3> QED
      BY <3>1, <3>2 DEF Beginnings
  <2>6. Clients'
    BY <1>1, <1>6, <2>1, RecordTypes DEF PortInv, Clients, Registered, BeingEnded
  <2>7. Owners' /\ Stops'
    BY <1>1, <1>6 DEF PortInv, Owners, Stops
  <2> QED
    BY <2>2, <2>3, <2>4, <2>5, <2>6, <2>7 DEF PortInv
<1>7. CASE Goes(s, "finalizing") /\ UNCHANGED startingRuleIds /\ activeRules[r] # None
           /\ activeRules' = [activeRules EXCEPT ![r] = None]
           /\ BeginDispose(activeRules[r], "close", transport[activeRules[r]])
  <2>1. /\ start' \in [Start -> StartRecord]
        /\ start'[s].at = "finalizing" /\ start'[s].rule = start[s].rule /\ start'[s].read = start[s].read
        /\ \A t \in Start : t # s => start'[t] = start[t]
    BY <1>7, GoesFacts DEF PortInv, Running
  <2>2. activeRules[r] = s
    BY <1>3, <1>7
  <2>3. /\ activeRules' \in [Rule -> Start \cup {None}]
        /\ activeRules'[r] = None
        /\ \A q \in Rule : q # r => activeRules'[q] = activeRules[q]
        /\ disposal' \in [Start -> [Caller -> {"no", "pending", "throwing", "done"}]]
        /\ disposal'[s]["close"] \in {"pending", "throwing"}
        /\ transport[s] = "open" => disposal'[s]["close"] = "pending"
        /\ \A t \in Start, d \in Caller : t # s \/ d # "close" => disposal'[t][d] = disposal[t][d]
    <3>1. TypeOK /\ "close" \in Caller
      BY CallerNames DEF PortInv
    <3>2. BeginDispose(s, "close", transport[s]) /\ activeRules' = [activeRules EXCEPT ![r] = None]
      BY <1>7, <2>2
    <3>3. /\ activeRules' \in [Rule -> Start \cup {None}]
          /\ activeRules'[r] = None
          /\ \A q \in Rule : q # r => activeRules'[q] = activeRules[q]
      BY <1>3, <3>1, <3>2 DEF TypeOK
    <3> QED
      BY <3>1, <3>2, <3>3, BeginsFacts
  <2>4. TypeOK'
    <3>1. Informed(s)'
      BY <1>3, <1>4, <2>1, NameAssumption DEF Informed, Running
    <3>2. \A t \in Start : Informed(t)'
      BY <2>1, <3>1, AllInformed DEF PortInv
    <3> QED
      BY <1>1, <1>5, <1>7, <2>1, <2>3, <3>2, TypeOKFrom DEF PortInv, TypeOK
  <2>5. Guards'
    BY <1>1, <1>2, <1>4, <1>7, <2>1, <2>3, RecordTypes DEF PortInv, Guards, IsRunning, Running
  <2>6. Registry'
    <3> SUFFICES ASSUME NEW q \in Rule, NEW t \in Start, activeRules'[q] = t PROVE Registration(q, t)'
      BY DEF Registry
    <3>1. q # r /\ activeRules[q] = t /\ Registration(q, t)
      BY <2>3, NameAssumption DEF PortInv, Registry
    <3>2. t # s
      BY <1>4, <3>1 DEF Registration
    <3>3. start'[t] = start[t] /\ \A c \in Caller : disposal'[t][c] = disposal[t][c]
      BY <2>1, <2>3, <3>2
    <3> QED
      BY <1>1, <1>2, <3>1, <3>3 DEF Registration, Undisposed
  <2>7. Beginnings'
    <3>1. Beginning(s)'
      BY <1>1, <1>3, <1>4, <2>1, NameAssumption DEF PortInv, Beginnings, Beginning
    <3>2. ASSUME NEW t \in Start, t # s PROVE Beginning(t)'
      <4>1. start'[t] = start[t] /\ transport'[t] = transport[t]
            /\ (\A c \in Caller : disposal'[t][c] = disposal[t][c]) /\ (t \in watched' <=> t \in watched)
        BY <1>1, <2>1, <2>3, <3>2
      <4> QED
        BY <4>1, CallerNames DEF PortInv, Beginnings, Beginning, Undisposed
    <3> QED
      BY <3>1, <3>2 DEF Beginnings
  <2>8. Clients'
    <3> SUFFICES ASSUME NEW t \in Start, transport'[t] = "open"
                 PROVE  /\ start'[t].at = "binding" \/ Registered(t)' \/ BeingEnded(t)'
                        /\ \A c \in Caller : disposal'[t][c] # "throwing"
      BY DEF Clients
    <3>1. transport[t] = "open"
      BY <1>1
    <3>2. CASE t = s
      BY <2>3, <3>1, <3>2, CallerNames DEF PortInv, Clients, BeingEnded
    <3>3. CASE t # s
      <4>1. start'[t] = start[t] /\ \A c \in Caller : disposal'[t][c] = disposal[t][c]
        BY <2>1, <2>3, <3>3
      <4>2. Registered(t) => Registered(t)'
        BY <2>2, <2>3, <3>3 DEF Registered
      <4> QED
        BY <3>1, <4>1, <4>2 DEF PortInv, Clients, BeingEnded
    <3> QED
      BY <3>2, <3>3
  <2>9. Owners'
    BY <1>3, <2>2, <2>3 DEF PortInv, Owners, Registry, Registration, Undisposed
  <2>10. Stops'
    BY <1>1 DEF PortInv, Stops
  <2> QED
    BY <2>4, <2>5, <2>6, <2>7, <2>8, <2>9, <2>10 DEF PortInv
<1> QED
  <2>1. CASE transport[s] \notin {"failed", "closed"}
    BY <1>6, <2>1 DEF StartPersisted
  <2>2. CASE transport[s] \in {"failed", "closed"} /\ activeRules[r] = None
    BY <1>4, <1>6, <2>2 DEF StartPersisted, HandleUnexpectedClose
  <2>3. CASE transport[s] \in {"failed", "closed"} /\ activeRules[r] # None
    BY <1>4, <1>7, <2>3 DEF StartPersisted, HandleUnexpectedClose
  <2> QED
    BY <2>1, <2>2, <2>3

\* The save failed: the start takes back what it registered, which nobody but
\* itself can have replaced.
LEMMA PersistFailedKeeps ==
  ASSUME PortInv, NEW s \in Start, PersistFailed(s)
  PROVE  PortInv'
<1> DEFINE r == start[s].rule
<1>1. /\ start[s].at \in {"persisting", "unsaved"}
      /\ UNCHANGED <<rows, startingRuleIds, transport, watched, stop, update, stopped>>
      /\ activeRules' = [activeRules EXCEPT ![r] = None]
  BY DEF PersistFailed
<1>2. UNCHANGED <<row, cascaded>>
  BY <1>1 DEF rows
<1>3. r \in Rule /\ start[s].read # None /\ activeRules[r] \in {None, s}
  BY <1>1 DEF PortInv, TypeOK, Guards, IsRunning, Running
<1>4. /\ activeRules' \in [Rule -> Start \cup {None}]
      /\ activeRules'[r] = None
      /\ \A q \in Rule : q # r => activeRules'[q] = activeRules[q]
  BY <1>1, <1>3 DEF PortInv, TypeOK
<1> HIDE DEF r
<1>5. start[s].rule = r
  BY DEF r
<1>6. /\ start' \in [Start -> StartRecord]
      /\ start'[s].at = "rollback" /\ start'[s].rule = start[s].rule /\ start'[s].read = start[s].read
      /\ \A t \in Start : t # s => start'[t] = start[t]
  BY GoesFacts DEF PortInv, Running, PersistFailed
<1>7. /\ disposal' \in [Start -> [Caller -> {"no", "pending", "throwing", "done"}]]
      /\ disposal'[s]["start"] \in {"pending", "throwing"}
      /\ transport[s] = "open" => disposal'[s]["start"] = "pending"
      /\ \A t \in Start, d \in Caller : t # s \/ d # "start" => disposal'[t][d] = disposal[t][d]
  BY BeginsFacts, CallerNames DEF PortInv, PersistFailed
<1>8. TypeOK'
  <2>1. Informed(s)'
    BY <1>3, <1>5, <1>6, NameAssumption DEF Informed, Running
  <2>2. \A t \in Start : Informed(t)'
    BY <1>6, <2>1, AllInformed DEF PortInv
  <2> QED
    BY <1>1, <1>4, <1>6, <1>7, <2>2, TypeOKFrom DEF PortInv, TypeOK
<1>9. Guards'
  BY <1>1, <1>2, <1>4, <1>5, <1>6, RecordTypes DEF PortInv, Guards, IsRunning, Running
<1>10. Registry'
  <2> SUFFICES ASSUME NEW q \in Rule, NEW t \in Start, activeRules'[q] = t PROVE Registration(q, t)'
    BY DEF Registry
  <2>1. q # r /\ activeRules[q] = t /\ Registration(q, t)
    BY <1>4, NameAssumption DEF PortInv, Registry
  <2>2. t # s
    BY <1>5, <2>1 DEF Registration
  <2>3. start'[t] = start[t] /\ \A c \in Caller : disposal'[t][c] = disposal[t][c]
    BY <1>6, <1>7, <2>2
  <2> QED
    BY <1>1, <1>2, <2>1, <2>3 DEF Registration, Undisposed
<1>11. Beginnings'
  <2>1. Beginning(s)'
    BY <1>1, <1>6 DEF PortInv, Beginnings, Beginning
  <2>2. ASSUME NEW t \in Start, t # s PROVE Beginning(t)'
    <3>1. start'[t] = start[t] /\ transport'[t] = transport[t] /\ \A c \in Caller : disposal'[t][c] = disposal[t][c]
      BY <1>1, <1>6, <1>7, <2>2
    <3> QED
      BY <1>1, <3>1, BeginningKept DEF PortInv, Beginnings
  <2> QED
    BY <2>1, <2>2 DEF Beginnings
<1>12. Clients'
  <2> SUFFICES ASSUME NEW t \in Start, transport'[t] = "open"
               PROVE  /\ start'[t].at = "binding" \/ Registered(t)' \/ BeingEnded(t)'
                      /\ \A c \in Caller : disposal'[t][c] # "throwing"
    BY DEF Clients
  <2>1. transport[t] = "open"
    BY <1>1
  <2>2. CASE t = s
    BY <1>7, <2>1, <2>2, CallerNames DEF PortInv, Clients, BeingEnded
  <2>3. CASE t # s
    <3>1. start'[t] = start[t] /\ \A c \in Caller : disposal'[t][c] = disposal[t][c]
      BY <1>6, <1>7, <2>3
    <3>2. Registered(t) => Registered(t)'
      BY <1>3, <1>4, <2>3, NameAssumption DEF Registered
    <3> QED
      BY <2>1, <3>1, <3>2 DEF PortInv, Clients, BeingEnded
  <2> QED
    BY <2>2, <2>3
<1>13. Owners' /\ Stops'
  BY <1>1, <1>7 DEF PortInv, Owners, Stops
<1> QED
  BY <1>8, <1>9, <1>10, <1>11, <1>12, <1>13 DEF PortInv

-----------------------------------------------------------------------------
(* Runtimes taken out of the registry by others.                           *)

\* The invariant but for types and stops.
CoreInv == Guards /\ Registry /\ Beginnings /\ Clients /\ Owners

\* Any number of runtimes is taken out of the registry by one caller, each
\* with a disposal begun, while clients may fail: the step of a stop, of a
\* client event and of the shutdown.
LEMMA TakingKeeps ==
  ASSUME PortInv, NEW T \in SUBSET Start, NEW c \in Caller \ {"start"},
         UNCHANGED <<row, cascaded, startingRuleIds, start, watched>>,
         \A q \in Rule : activeRules'[q] = IF activeRules[q] \in T THEN None ELSE activeRules[q],
         \A t \in T : Registered(t),
         \A t \in T : /\ disposal'[t][c] \in {"pending", "throwing"}
                      /\ transport'[t] = "open" => disposal'[t][c] = "pending",
         \A t \in Start, d \in Caller : t \notin T \/ d # c => disposal'[t][d] = disposal[t][d],
         \A t \in Start : \/ transport'[t] = transport[t]
                          \/ /\ transport[t] # "none" /\ transport'[t] \in {"failed", "closed"}
                             /\ t \in T \/ ~Registered(t) \/ start[t].at # "returned"
  PROVE  CoreInv'
<1>1. ASSUME NEW t \in T PROVE /\ start[t].at \in {"persisting", "unsaved", "returned"}
                               /\ \A d \in Caller : disposal[t][d] = "no"
                               /\ \A q \in Rule : activeRules'[q] # t
  <2>1. PICK q \in Rule : activeRules[q] = t
    BY <1>1 DEF Registered
  <2>2. Registration(q, t)
    BY <1>1, <2>1 DEF PortInv, Registry
  <2> QED
    BY <1>1, <2>2, NameAssumption DEF Registration, Undisposed
<1>2. Guards'
  BY RecordTypes, NameAssumption DEF PortInv, Guards, IsRunning
<1>3. Registry'
  <2> SUFFICES ASSUME NEW q \in Rule, NEW t \in Start, activeRules'[q] = t PROVE Registration(q, t)'
    BY DEF Registry
  <2>1. activeRules[q] = t /\ t \notin T
    BY <1>1, NameAssumption
  <2>2. Registration(q, t) /\ Registered(t)
    BY <2>1 DEF PortInv, Registry, Registered
  <2>3. \A d \in Caller : disposal'[t][d] = disposal[t][d]
    BY <2>1
  <2>4. transport'[t] = transport[t] \/ (transport'[t] \in {"failed", "closed"} /\ start[t].at # "returned")
    BY <2>1, <2>2
  <2> QED
    BY <2>2, <2>3, <2>4 DEF Registration, Undisposed
<1>4. Beginnings'
  <2> SUFFICES ASSUME NEW t \in Start PROVE Beginning(t)'
    BY DEF Beginnings
  <2>1. Beginning(t)
    BY DEF PortInv, Beginnings
  <2>2. \A d \in Caller : t \notin T \/ d # c => disposal'[t][d] = disposal[t][d]
    OBVIOUS
  <2>3. transport'[t] = transport[t] \/ (transport[t] # "none" /\ transport'[t] \in {"failed", "closed"})
    OBVIOUS
  <2> QED
    BY <1>1, <2>1, <2>2, <2>3, CallerNames DEF Beginning, Undisposed
<1>5. Clients'
  <2> SUFFICES ASSUME NEW t \in Start, transport'[t] = "open"
               PROVE  /\ start'[t].at = "binding" \/ Registered(t)' \/ BeingEnded(t)'
                      /\ \A d \in Caller : disposal'[t][d] # "throwing"
    BY DEF Clients
  <2>1. transport[t] = "open"
    OBVIOUS
  <2>2. CASE t \in T
    BY <1>1, <2>2 DEF BeingEnded
  <2>3. CASE t \notin T
    <3>1. \A d \in Caller : disposal'[t][d] = disposal[t][d]
      BY <2>3
    <3>2. Registered(t) => Registered(t)'
      BY <2>3 DEF Registered
    <3> QED
      BY <2>1, <3>1, <3>2 DEF PortInv, Clients, BeingEnded
  <2> QED
    BY <2>2, <2>3
<1>6. Owners'
  <2> SUFFICES ASSUME NEW t \in Start, NEW a \in Caller \ {"start"}, NEW b \in Caller \ {"start"},
                      disposal'[t][a] # "no", disposal'[t][b] # "no"
               PROVE  a = b
    BY DEF Owners
  <2>1. CASE t \in T
    BY <1>1, <2>1
  <2>2. CASE t \notin T
    BY <2>2 DEF PortInv, Owners
  <2> QED
    BY <2>1, <2>2
<1> QED
  BY <1>2, <1>3, <1>4, <1>5, <1>6 DEF CoreInv

\* A disposal by somebody else than the start ends.
LEMMA DisposedKeeps ==
  ASSUME PortInv, NEW s \in Start, NEW c \in Caller \ {"start"}, Disposed(s, c),
         UNCHANGED <<row, cascaded, startingRuleIds, activeRules, start, watched>>
  PROVE  CoreInv'
<1>1. /\ disposal[s][c] \in {"pending", "throwing"}
      /\ disposal'[s][c] = "done"
      /\ \A t \in Start, d \in Caller : t # s \/ d # c => disposal'[t][d] = disposal[t][d]
      /\ \A t \in Start : t # s => transport'[t] = transport[t]
      /\ transport[s] # "open" => transport'[s] = transport[s]
      /\ transport[s] = "open" => transport'[s] = IF disposal[s][c] = "pending" THEN "ended" ELSE "open"
  BY DisposedFacts DEF PortInv
<1>2. transport'[s] # "open" /\ (transport'[s] = transport[s] \/ transport[s] = "open")
  BY <1>1 DEF PortInv, Clients
<1>3. \A q \in Rule : activeRules[q] # s
  BY <1>1 DEF PortInv, Registry, Registration, Undisposed
<1>4. start[s].at \notin {"unused", "looking", "opening", "binding"}
  BY <1>1 DEF PortInv, Beginnings, Beginning, Undisposed
<1>5. Guards'
  BY DEF PortInv, Guards, IsRunning
<1>6. Registry'
  <2> SUFFICES ASSUME NEW q \in Rule, NEW t \in Start, activeRules[q] = t PROVE Registration(q, t)'
    BY DEF Registry
  <2>1. t # s /\ Registration(q, t)
    BY <1>3 DEF PortInv, Registry
  <2> QED
    BY <1>1, <2>1 DEF Registration, Undisposed
<1>7. Beginnings'
  <2>1. Beginning(s)'
    BY <1>1, <1>4, CallerNames DEF PortInv, Beginnings, Beginning
  <2>2. ASSUME NEW t \in Start, t # s PROVE Beginning(t)'
    <3>1. start'[t] = start[t] /\ transport'[t] = transport[t] /\ \A d \in Caller : disposal'[t][d] = disposal[t][d]
      BY <1>1, <2>2
    <3> QED
      BY <3>1, BeginningKept DEF PortInv, Beginnings
  <2> QED
    BY <2>1, <2>2 DEF Beginnings
<1>8. Clients'
  <2> SUFFICES ASSUME NEW t \in Start, transport'[t] = "open"
               PROVE  /\ start[t].at = "binding" \/ Registered(t) \/ BeingEnded(t)'
                      /\ \A d \in Caller : disposal'[t][d] # "throwing"
    BY DEF Clients, Registered
  <2>1. t # s
    BY <1>2
  <2>2. transport[t] = "open" /\ \A d \in Caller : disposal'[t][d] = disposal[t][d]
    BY <1>1, <2>1
  <2> QED
    BY <2>2 DEF PortInv, Clients, BeingEnded
<1>9. Owners'
  BY <1>1 DEF PortInv, Owners
<1> QED
  BY <1>5, <1>6, <1>7, <1>8, <1>9 DEF CoreInv

\* Requests that touch neither registry nor clients, and take no row from an
\* active rule but into the cascade.
LEMMA QuietKeeps ==
  ASSUME PortInv, UNCHANGED <<registry, clients, start>>,
         \A r \in Rule : RuleActive(r) /\ r \in row \cup cascaded => r \in row' \cup cascaded'
  PROVE  CoreInv'
<1>1. UNCHANGED <<startingRuleIds, activeRules, transport, watched, disposal>>
  BY DEF registry, clients
<1>2. Guards'
  BY <1>1, RecordTypes DEF PortInv, Guards, IsRunning, RuleActive
<1>3. Registry'
  BY <1>1, NameAssumption DEF PortInv, Registry, Registration, RuleActive, Undisposed
<1>4. Beginnings' /\ Clients' /\ Owners'
  BY <1>1 DEF PortInv, Beginnings, Beginning, Undisposed, Clients, Registered, BeingEnded, Owners
<1> QED
  BY <1>2, <1>3, <1>4 DEF CoreInv

\* Types and stops after a step that is no request's.
LEMMA TypeAndStops ==
  ASSUME PortInv, UNCHANGED <<rows, startingRuleIds, watched, requests>>,
         activeRules' \in [Rule -> Start \cup {None}],
         transport' \in [Start -> {"none", "open", "failed", "ended", "closed"}],
         disposal' \in [Start -> [Caller -> {"no", "pending", "throwing", "done"}]],
         stopped' \in BOOLEAN
  PROVE  TypeOK' /\ Stops'
<1>1. UNCHANGED <<row, config, cascaded, start, stop, update>>
  BY DEF rows, requests
<1>2. TypeOK'
  BY <1>1 DEF PortInv, TypeOK
<1>3. Stops'
  BY <1>1 DEF PortInv, Stops
<1> QED
  BY <1>2, <1>3

\* A client fails or closes: its listeners, if the service has attached them,
\* take whatever runtime the rule has.
LEMMA EventKeeps ==
  ASSUME PortInv, NEW s \in Start, ClientError(s) \/ ClientClose(s)
  PROVE  PortInv'
<1> DEFINE r == start[s].rule
<1>1. /\ transport[s] # "none"
      /\ transport' \in [Start -> {"none", "open", "failed", "ended", "closed"}]
      /\ transport'[s] \in {"failed", "closed"}
      /\ \A t \in Start : t # s => transport'[t] = transport[t]
  BY DEF ClientError, ClientClose, PortInv, TypeOK
<1>2. /\ UNCHANGED <<rows, startingRuleIds, watched, requests, stopped>>
      /\ UNCHANGED <<row, cascaded, start>>
  BY DEF ClientError, ClientClose, Event, rows, requests
<1>3. Event(s)
  BY DEF ClientError, ClientClose
<1>4. s \in watched => r \in Rule
  BY RecordTypes DEF PortInv, Beginnings, Beginning
<1>5. ASSUME NEW q \in Rule, activeRules[q] = s
      PROVE  r = q /\ (start[s].at = "returned" => s \in watched)
  BY <1>5 DEF PortInv, Registry, Registration
<1> HIDE DEF r
<1>6. CASE UNCHANGED <<activeRules, disposal>> /\ (s \in watched => activeRules[r] = None)
  <2>1. /\ activeRules' \in [Rule -> Start \cup {None}]
        /\ disposal' \in [Start -> [Caller -> {"no", "pending", "throwing", "done"}]]
        /\ stopped' \in BOOLEAN
    BY <1>2, <1>6 DEF PortInv, TypeOK
  <2>2. TypeOK' /\ Stops'
    BY <1>1, <1>2, <2>1, TypeAndStops
  <2>3. ~Registered(s) \/ start[s].at # "returned"
    BY <1>5, <1>6, NameAssumption DEF Registered
  <2>4. CoreInv'
    <3> DEFINE T == {}
    <3>1. /\ T \in SUBSET Start /\ "close" \in Caller \ {"start"}
          /\ \A q \in Rule : activeRules'[q] = IF activeRules[q] \in T THEN None ELSE activeRules[q]
          /\ \A t \in T : Registered(t)
          /\ \A t \in T : /\ disposal'[t]["close"] \in {"pending", "throwing"}
                          /\ transport'[t] = "open" => disposal'[t]["close"] = "pending"
          /\ \A t \in Start, d \in Caller : t \notin T \/ d # "close" => disposal'[t][d] = disposal[t][d]
          /\ \A t \in Start : \/ transport'[t] = transport[t]
                              \/ /\ transport[t] # "none" /\ transport'[t] \in {"failed", "closed"}
                                 /\ t \in T \/ ~Registered(t) \/ start[t].at # "returned"
      BY <1>1, <1>6, <2>3, CallerNames
    <3> HIDE DEF T
    <3> QED
      BY <1>2, <3>1, TakingKeeps
  <2> QED
    BY <2>2, <2>4 DEF PortInv, CoreInv
<1>7. CASE /\ s \in watched /\ activeRules[r] # None
           /\ activeRules' = [activeRules EXCEPT ![r] = None]
           /\ BeginDispose(activeRules[r], "close", transport'[activeRules[r]])
  <2> DEFINE s0 == activeRules[r]
  <2>1. r \in Rule /\ s0 \in Start
    BY <1>4, <1>7 DEF PortInv, TypeOK
  <2>2. /\ activeRules' \in [Rule -> Start \cup {None}] /\ activeRules'[r] = None
        /\ \A q \in Rule : q # r => activeRules'[q] = activeRules[q]
    BY <1>7, <2>1 DEF PortInv, TypeOK
  <2>3. \A q \in Rule : activeRules[q] = s0 => q = r
    BY <2>1 DEF PortInv, Registry, Registration
  <2>4. BeginDispose(s0, "close", transport'[s0])
    BY <1>7
  <2>5. Registered(s0)
    BY <2>1 DEF Registered
  <2>6. Registered(s) => s = s0
    BY <1>5 DEF Registered
  <2> HIDE DEF s0
  <2>7. /\ disposal' \in [Start -> [Caller -> {"no", "pending", "throwing", "done"}]]
        /\ disposal'[s0]["close"] \in {"pending", "throwing"}
        /\ transport'[s0] = "open" => disposal'[s0]["close"] = "pending"
        /\ \A t \in Start, d \in Caller : t # s0 \/ d # "close" => disposal'[t][d] = disposal[t][d]
    BY <2>1, <2>4, BeginsFacts, CallerNames DEF PortInv
  <2>8. TypeOK' /\ Stops'
    <3>1. stopped' \in BOOLEAN
      BY <1>2 DEF PortInv, TypeOK
    <3> QED
      BY <1>1, <1>2, <2>2, <2>7, <3>1, TypeAndStops
  <2>9. CoreInv'
    <3> DEFINE T == {s0}
    <3>1. T \in SUBSET Start /\ "close" \in Caller \ {"start"}
      BY <2>1, CallerNames
    <3>2. \A q \in Rule : activeRules'[q] = IF activeRules[q] \in T THEN None ELSE activeRules[q]
      BY <2>2, <2>3, <2>1 DEF s0
    <3>3. /\ \A t \in T : Registered(t)
          /\ \A t \in T : /\ disposal'[t]["close"] \in {"pending", "throwing"}
                          /\ transport'[t] = "open" => disposal'[t]["close"] = "pending"
          /\ \A t \in Start, d \in Caller : t \notin T \/ d # "close" => disposal'[t][d] = disposal[t][d]
      BY <2>5, <2>7
    <3>4. \A t \in Start : \/ transport'[t] = transport[t]
                           \/ /\ transport[t] # "none" /\ transport'[t] \in {"failed", "closed"}
                              /\ t \in T \/ ~Registered(t) \/ start[t].at # "returned"
      BY <1>1, <2>6
    <3> HIDE DEF T
    <3> QED
      BY <1>2, <3>1, <3>2, <3>3, <3>4, TakingKeeps
  <2> QED
    BY <2>8, <2>9 DEF PortInv, CoreInv
<1> QED
  BY <1>3, <1>6, <1>7 DEF Event, HandleUnexpectedClose, r

-----------------------------------------------------------------------------
(* Steps of a stop and of the disposals.                                   *)

\* The records of stops.
StopRecord == [at: {"unused", "looking", "disposing", "returned"},
               rule: Rule \cup {None}, took: Start \cup {None}]

\* TypeOK after a step of a stop.
LEMMA TypeOKAroundStop ==
  ASSUME TypeOK, UNCHANGED <<rows, startingRuleIds, watched, start, update, stopped>>,
         activeRules' \in [Rule -> Start \cup {None}],
         transport' \in [Start -> {"none", "open", "failed", "ended", "closed"}],
         disposal' \in [Start -> [Caller -> {"no", "pending", "throwing", "done"}]],
         stop' \in [Stop -> StopRecord]
  PROVE  TypeOK'
BY DEF TypeOK, StopRecord, rows

\* stopRule takes the runtime the rule has now.
LEMMA StopTakesKeeps ==
  ASSUME PortInv, NEW k \in Stop, StopTakes(k)
  PROVE  PortInv'
<1> DEFINE r == stop[k].rule
           s == activeRules[r]
<1>1. UNCHANGED <<rows, startingRuleIds, transport, watched, start, update, stopped>>
  BY DEF StopTakes
<1>2. UNCHANGED <<row, cascaded>>
  BY <1>1 DEF rows
<1>3. stop \in [Stop -> StopRecord]
  BY DEF PortInv, TypeOK, StopRecord
<1>4. r \in Rule
  BY <1>3 DEF PortInv, Stops, StopTakes, StopRecord
<1>5. CASE stop' = [stop EXCEPT ![k].at = "returned"] /\ UNCHANGED <<activeRules, disposal>>
  <2>1. /\ stop' \in [Stop -> StopRecord] /\ stop'[k].at = "returned"
        /\ \A j \in Stop : j # k => stop'[j] = stop[j]
    BY <1>3, <1>5 DEF StopRecord
  <2>2. TypeOK'
    BY <1>1, <1>5, <2>1, TypeOKAroundStop DEF PortInv, TypeOK
  <2>3. Stops'
    BY <2>1 DEF PortInv, Stops
  <2>4. CoreInv'
    BY <1>1, <1>2, <1>5, QuietKeeps DEF registry, clients
  <2> QED
    BY <2>2, <2>3, <2>4 DEF PortInv, CoreInv
<1>6. CASE /\ s # None
           /\ stop' = [stop EXCEPT ![k].at = "disposing", ![k].took = s]
           /\ activeRules' = [activeRules EXCEPT ![r] = None]
           /\ BeginDispose(s, k, transport[s])
  <2>1. s \in Start
    BY <1>4, <1>6 DEF PortInv, TypeOK
  <2>2. /\ activeRules' \in [Rule -> Start \cup {None}] /\ activeRules'[r] = None
        /\ \A q \in Rule : q # r => activeRules'[q] = activeRules[q]
    BY <1>4, <1>6 DEF PortInv, TypeOK
  <2>3. \A q \in Rule : activeRules[q] = s => q = r
    BY <1>4, <2>1 DEF PortInv, Registry, Registration
  <2>4. Registered(s)
    BY <1>4 DEF Registered
  <2>5. BeginDispose(s, k, transport[s]) /\ s = activeRules[r]
    BY <1>6
  <2>6. stop' = [stop EXCEPT ![k].at = "disposing", ![k].took = s]
    BY <1>6
  <2> HIDE DEF r, s
  <2>7. /\ stop' \in [Stop -> StopRecord] /\ stop'[k].at = "disposing" /\ stop'[k].took = s
        /\ \A j \in Stop : j # k => stop'[j] = stop[j]
    BY <1>3, <2>1, <2>6 DEF StopRecord
  <2>8. /\ disposal' \in [Start -> [Caller -> {"no", "pending", "throwing", "done"}]]
        /\ disposal'[s][k] \in {"pending", "throwing"}
        /\ transport[s] = "open" => disposal'[s][k] = "pending"
        /\ \A t \in Start, d \in Caller : t # s \/ d # k => disposal'[t][d] = disposal[t][d]
    BY <2>1, <2>5, BeginsFacts, CallerNames DEF PortInv
  <2>9. TypeOK'
    BY <1>1, <2>2, <2>7, <2>8, TypeOKAroundStop DEF PortInv, TypeOK
  <2>10. Stops'
    BY <2>1, <2>7, NameAssumption DEF PortInv, Stops
  <2>11. CoreInv'
    <3> DEFINE T == {s}
    <3>1. T \in SUBSET Start /\ k \in Caller \ {"start"}
      BY <2>1, CallerNames
    <3>2. \A q \in Rule : activeRules'[q] = IF activeRules[q] \in T THEN None ELSE activeRules[q]
      BY <2>2, <2>3, <2>1, <2>5
    <3>3. /\ \A t \in T : Registered(t)
          /\ \A t \in T : /\ disposal'[t][k] \in {"pending", "throwing"}
                          /\ transport'[t] = "open" => disposal'[t][k] = "pending"
          /\ \A t \in Start, d \in Caller : t \notin T \/ d # k => disposal'[t][d] = disposal[t][d]
      BY <1>1, <2>4, <2>8
    <3>4. \A t \in Start : transport'[t] = transport[t]
      BY <1>1
    <3> HIDE DEF T
    <3> QED
      BY <1>1, <1>2, <3>1, <3>2, <3>3, <3>4, TakingKeeps
  <2> QED
    BY <2>9, <2>10, <2>11 DEF PortInv, CoreInv
<1> QED
  BY <1>5, <1>6 DEF StopTakes

\* The disposal of a stop ends.
LEMMA StopReturnsKeeps ==
  ASSUME PortInv, NEW k \in Stop, StopReturns(k)
  PROVE  PortInv'
<1> DEFINE s == stop[k].took
<1>1. /\ stop[k].at = "disposing" /\ Disposed(s, k)
      /\ UNCHANGED <<rows, registry, watched, start, update, stopped>>
      /\ UNCHANGED <<row, cascaded, startingRuleIds, activeRules>>
  BY DEF StopReturns, rows, registry
<1>2. stop \in [Stop -> StopRecord]
  BY DEF PortInv, TypeOK, StopRecord
<1>3. s \in Start /\ k \in Caller \ {"start"}
  BY <1>1, <1>2, CallerNames DEF PortInv, Stops, StopRecord
<1>4. /\ stop' \in [Stop -> StopRecord] /\ stop'[k].at = "returned"
      /\ \A j \in Stop : j # k => stop'[j] = stop[j]
  BY <1>2 DEF StopRecord, StopReturns
<1> HIDE DEF s
<1>5. /\ disposal' \in [Start -> [Caller -> {"no", "pending", "throwing", "done"}]]
      /\ transport' \in [Start -> {"none", "open", "failed", "ended", "closed"}]
  BY <1>1, <1>3, DisposedFacts DEF PortInv
<1>6. TypeOK'
  BY <1>1, <1>4, <1>5, TypeOKAroundStop DEF PortInv, TypeOK
<1>7. Stops'
  BY <1>4 DEF PortInv, Stops
<1>8. CoreInv'
  BY <1>1, <1>3, DisposedKeeps
<1> QED
  BY <1>6, <1>7, <1>8 DEF PortInv, CoreInv

\* The disposal of a closed client or of the shutdown ends.
LEMMA CleanupKeeps ==
  ASSUME PortInv, NEW s \in Start, CloseHandled(s) \/ ShutdownDisposed(s)
  PROVE  PortInv'
<1>1. PICK c \in {"close", "shutdown"} : Disposed(s, c)
  BY DEF CloseHandled, ShutdownDisposed
<1>2. /\ UNCHANGED <<rows, startingRuleIds, activeRules, watched, requests, stopped>>
      /\ UNCHANGED <<row, cascaded, start>>
  BY DEF CloseHandled, ShutdownDisposed, rows, registry, requests
<1>3. c \in Caller \ {"start"}
  BY CallerNames
<1>4. /\ disposal' \in [Start -> [Caller -> {"no", "pending", "throwing", "done"}]]
      /\ transport' \in [Start -> {"none", "open", "failed", "ended", "closed"}]
  BY <1>1, <1>3, DisposedFacts DEF PortInv
<1>5. activeRules' \in [Rule -> Start \cup {None}] /\ stopped' \in BOOLEAN
  BY <1>2 DEF PortInv, TypeOK
<1>6. TypeOK' /\ Stops'
  BY <1>2, <1>4, <1>5, TypeAndStops
<1>7. CoreInv'
  BY <1>1, <1>2, <1>3, DisposedKeeps
<1> QED
  BY <1>6, <1>7 DEF PortInv, CoreInv

\* stop() takes every registered runtime.
LEMMA ShutdownKeeps ==
  ASSUME PortInv, Shutdown
  PROVE  PortInv'
<1> DEFINE T == {activeRules[r] : r \in Rule} \ {None}
<1>1. /\ activeRules' = [r \in Rule |-> None] /\ stopped' = TRUE
      /\ UNCHANGED <<rows, startingRuleIds, transport, watched, requests>>
      /\ UNCHANGED <<row, cascaded, start>>
  BY DEF Shutdown, rows, requests
<1>2. PICK mode \in [T -> {"pending", "throwing"}] :
        /\ \A s \in T : mode[s] \in DisposeModes(s, transport[s])
        /\ disposal' = [s \in Start |-> [c \in Caller |->
              IF s \in T /\ c = "shutdown" THEN mode[s] ELSE disposal[s][c]]]
  BY DEF Shutdown
<1>3. T \in SUBSET Start /\ \A t \in T : Registered(t)
  BY DEF PortInv, TypeOK, Registered
<1>4. \A q \in Rule : activeRules'[q] = IF activeRules[q] \in T THEN None ELSE activeRules[q]
  BY <1>1
<1> HIDE DEF T
<1>5. \A t \in T : mode[t] \in {"pending", "throwing"} /\ (transport[t] = "open" => mode[t] = "pending")
  BY <1>2, Modes
<1>6. "shutdown" \in Caller \ {"start"}
  BY CallerNames
<1>7. /\ \A t \in T : disposal'[t]["shutdown"] = mode[t]
      /\ \A t \in Start, d \in Caller : t \notin T \/ d # "shutdown" => disposal'[t][d] = disposal[t][d]
  BY <1>2, <1>3, <1>6
<1>8. disposal' \in [Start -> [Caller -> {"no", "pending", "throwing", "done"}]]
  BY <1>2, <1>5 DEF PortInv, TypeOK
<1>9. TypeOK' /\ Stops'
  <2>1. activeRules' \in [Rule -> Start \cup {None}] /\ stopped' \in BOOLEAN
    BY <1>1
  <2>2. transport' \in [Start -> {"none", "open", "failed", "ended", "closed"}]
    BY <1>1 DEF PortInv, TypeOK
  <2> QED
    BY <1>1, <1>8, <2>1, <2>2, TypeAndStops
<1>10. CoreInv'
  <2>1. \A t \in T : /\ disposal'[t]["shutdown"] \in {"pending", "throwing"}
                     /\ transport'[t] = "open" => disposal'[t]["shutdown"] = "pending"
    BY <1>1, <1>5, <1>7
  <2>2. \A t \in Start : transport'[t] = transport[t]
    BY <1>1
  <2> QED
    BY <1>1, <1>3, <1>4, <1>6, <1>7, <2>1, <2>2, TakingKeeps
<1> QED
  BY <1>9, <1>10 DEF PortInv, CoreInv

-----------------------------------------------------------------------------
(* The theorem.                                                            *)

\* Stops that only look, edits, deletions of rules and of servers.
LEMMA RequestKeeps ==
  ASSUME PortInv,
         \/ \E k \in Stop, r \in Rule : StopRule(k, r)
         \/ \E u \in Update, r \in Rule : CheckUpdate(u, r)
         \/ \E u \in Update : ApplyUpdate(u)
         \/ \E r \in Rule : DeleteRule(r)
         \/ \E v \in Server : DeleteServer(v)
         \/ UNCHANGED vars
  PROVE  PortInv'
<1>1. CASE \E k \in Stop, r \in Rule : StopRule(k, r)
  <2>1. PICK k \in Stop, r \in Rule : StopRule(k, r)
    BY <1>1
  <2>2. UNCHANGED <<rows, registry, clients, start, update, stopped>> /\ UNCHANGED <<row, cascaded>>
    BY <2>1 DEF StopRule, rows
  <2>3. /\ stop' \in [Stop -> StopRecord]
        /\ stop'[k].rule = r /\ stop'[k].at # "disposing"
        /\ \A j \in Stop : j # k => stop'[j] = stop[j]
    BY <2>1 DEF PortInv, TypeOK, StopRule, StopRecord
  <2>4. TypeOK'
    BY <2>2, <2>3, TypeOKAroundStop DEF PortInv, TypeOK, registry, clients
  <2>5. Stops'
    BY <2>3, NameAssumption DEF PortInv, Stops
  <2>6. CoreInv'
    BY <2>2, QuietKeeps
  <2> QED
    BY <2>4, <2>5, <2>6 DEF PortInv, CoreInv
<1>2. CASE \E u \in Update, r \in Rule : CheckUpdate(u, r)
  <2>1. PICK u \in Update, r \in Rule : CheckUpdate(u, r)
    BY <1>2
  <2>2. /\ UNCHANGED <<rows, registry, clients, start, stop, stopped>>
        /\ UNCHANGED <<row, config, cascaded, startingRuleIds, activeRules, transport, watched, disposal>>
    BY <2>1 DEF CheckUpdate, rows, registry, clients
  <2>3. update' \in [Update -> [at: {"unused", "checked", "done"}, rule: Rule \cup {None}]]
    BY <2>1 DEF PortInv, TypeOK, CheckUpdate
  <2>4. TypeOK' /\ Stops'
    BY <2>2, <2>3 DEF PortInv, TypeOK, Stops
  <2>5. CoreInv'
    BY <2>2, QuietKeeps
  <2> QED
    BY <2>4, <2>5 DEF PortInv, CoreInv
<1>3. CASE \E u \in Update : ApplyUpdate(u)
  <2>1. PICK u \in Update : ApplyUpdate(u)
    BY <1>3
  <2>2. /\ UNCHANGED <<registry, clients, start, stop, stopped>>
        /\ UNCHANGED <<row, cascaded, startingRuleIds, activeRules, transport, watched, disposal>>
    BY <2>1 DEF ApplyUpdate, registry, clients
  <2>3. /\ update' \in [Update -> [at: {"unused", "checked", "done"}, rule: Rule \cup {None}]]
        /\ config' \in [Rule -> Update \cup {Original}]
    <3>1. update \in [Update -> [at: {"unused", "checked", "done"}, rule: Rule \cup {None}]]
      BY DEF PortInv, TypeOK
    <3>2. update' = [update EXCEPT ![u].at = "done"]
      BY <2>1 DEF ApplyUpdate
    <3>3. update' \in [Update -> [at: {"unused", "checked", "done"}, rule: Rule \cup {None}]]
      BY <3>1, <3>2
    <3>4. config \in [Rule -> Update \cup {Original}]
      BY DEF PortInv, TypeOK
    <3>5. config' \in [Rule -> Update \cup {Original}]
      BY <2>1, <3>4 DEF ApplyUpdate
    <3> QED
      BY <3>3, <3>5
  <2>4. TypeOK' /\ Stops'
    BY <2>2, <2>3 DEF PortInv, TypeOK, Stops
  <2>5. CoreInv'
    BY <2>2, QuietKeeps
  <2> QED
    BY <2>4, <2>5 DEF PortInv, CoreInv
<1>4. CASE (\E r \in Rule : DeleteRule(r)) \/ (\E v \in Server : DeleteServer(v)) \/ UNCHANGED vars
  <2>1. /\ UNCHANGED <<config, registry, clients, start, stop, update, stopped>>
        /\ UNCHANGED <<startingRuleIds, activeRules, transport, watched, disposal>>
    BY <1>4 DEF DeleteRule, DeleteServer, vars, rows, registry, clients, requests
  <2>2. /\ row' \subseteq row /\ cascaded' \subseteq cascaded \cup row
        /\ \A r \in Rule : RuleActive(r) /\ r \in row \cup cascaded => r \in row' \cup cascaded'
    BY <1>4 DEF DeleteRule, DeleteServer, vars, rows
  <2>3. TypeOK' /\ Stops'
    BY <2>1, <2>2 DEF PortInv, TypeOK, Stops
  <2>4. CoreInv'
    BY <2>1, <2>2, QuietKeeps
  <2> QED
    BY <2>3, <2>4 DEF PortInv, CoreInv
<1> QED
  BY <1>1, <1>2, <1>3, <1>4

\* The invariant holds at first ...
LEMMA InitSafe == Init => PortInv
<1> SUFFICES ASSUME Init PROVE PortInv
  OBVIOUS
<1>1. /\ \A s \in Start : start[s] = [at |-> "unused", rule |-> None, read |-> None]
      /\ \A s \in Start, c \in Caller : disposal[s][c] = "no"
      /\ \A s \in Start : transport[s] = "none"
      /\ \A k \in Stop : stop[k] = [at |-> "unused", rule |-> None, took |-> None]
      /\ \A r \in Rule : activeRules[r] = None
  BY DEF Init
<1>2. TypeOK
  BY <1>1 DEF Init, TypeOK, Running
<1>3. Guards /\ Registry
  BY <1>1, NameAssumption DEF Guards, Registry, IsRunning, Running
<1>4. Beginnings /\ Clients /\ Owners /\ Stops
  BY <1>1 DEF Init, Beginnings, Beginning, Undisposed, Clients, Owners, Stops
<1> QED
  BY <1>2, <1>3, <1>4 DEF PortInv

\* ... is kept by every step ...
LEMMA StepSafe == PortInv /\ [Next]_vars => PortInv'
<1> SUFFICES ASSUME PortInv, [Next]_vars PROVE PortInv'
  OBVIOUS
<1>1. CASE Request
  <2>1. CASE \E s \in Start, r \in Rule : StartRule(s, r)
    BY <2>1, StartRuleKeeps
  <2>2. CASE Shutdown
    BY <2>2, ShutdownKeeps
  <2> QED
    BY <1>1, <2>1, <2>2, RequestKeeps DEF Request
<1>2. CASE ClientEvent
  BY <1>2, EventKeeps DEF ClientEvent
<1>3. CASE Cleanup
  BY <1>3, CleanupKeeps DEF Cleanup
<1>4. ASSUME NEW s \in Start, StartGoesOn(s) PROVE PortInv'
  BY <1>4, RuleFoundKeeps, ClientReadyKeeps, OpeningEndsKeeps, BoundKeeps, BindFailedKeeps,
     OwnDisposalEndsKeeps, StartPersistedKeeps, PersistFailedKeeps DEF StartGoesOn
<1>5. ASSUME NEW k \in Stop, StopGoesOn(k) PROVE PortInv'
  BY <1>5, StopTakesKeeps, StopReturnsKeeps DEF StopGoesOn
<1>6. CASE (\E u \in Update : ApplyUpdate(u)) \/ UNCHANGED vars
  BY <1>6, RequestKeeps
<1> QED
  BY <1>1, <1>2, <1>3, <1>4, <1>5, <1>6 DEF Next

\* ... and implies what the run checks.
LEMMA InvImpliesSafe == PortInv => RegistryIsSafe
<1> SUFFICES ASSUME PortInv PROVE RegistryIsSafe
  OBVIOUS
<1>1. StartupIsExclusive
  BY DEF PortInv, Guards, IsRunning, StartupIsExclusive
<1>2. NoOrphanedClient
  BY DEF PortInv, Clients, Registered, BeingEnded, Registry, Registration, NoOrphanedClient
<1>3. DisposalIsOwned
  BY CallerNames DEF PortInv, Registry, Registration, Undisposed, Owners, DisposalIsOwned
<1>4. NoDeadRuntime /\ RunningRuleKeepsItsRow
  BY DEF PortInv, TypeOK, Registry, Registration, NoDeadRuntime, RunningRuleKeepsItsRow
<1> QED
  BY <1>1, <1>2, <1>3, <1>4 DEF PortInv, RegistryIsSafe

\* port-forward/session-service.ts: types are kept; a rule has one start in
\* flight at most and no registration overwrites another; no connected client
\* is left to nobody; a runtime leaves the registry before its disposal,
\* which has one owner; no returned start is shown as running on a dead
\* client; only the deletion of its server takes the row from a running rule.
THEOREM RegistryAlwaysSafe == Spec => []RegistryIsSafe
<1>1. Spec => []PortInv
  BY InitSafe, StepSafe, PTL DEF Spec
<1> QED
  BY <1>1, InvImpliesSafe, PTL
=============================================================================
