------------------------- MODULE SftpTaskAdmission -------------------------
(***************************************************************************)
(* What the SFTP task scheduler promises about remote paths, without its    *)
(* capacity limits, runners, timers and promises: tasks hold their claims   *)
(* one conflicting task at a time, and are granted them in order of arrival *)
(* wherever they conflict.                                                 *)
(***************************************************************************)
EXTENDS SftpTaskClaims

CONSTANTS Demand,      \* what a task may ask for: claims, and exclusivity
          MaxTasks

VARIABLES demand,      \* per task: what it asks for
          arrived,     \* the tasks that have arrived are 1..arrived
          waiting, holding

vars == <<demand, arrived, waiting, holding>>

Conflict(t, u) == DoClaimSetsConflict(demand[t].claims, demand[u].claims)

\* Holders never conflict, and an exclusive one has no companion.
Compatible(holders) ==
    \A t, u \in holders : t # u => ~Conflict(t, u) /\ ~demand[t].exclusive

\* Some of the waiting tasks are granted what they wait for. None passes an
\* older task that stays behind and conflicts with it or is exclusive.
Grant(candidates, holders) ==
    \E granted \in SUBSET candidates :
        /\ waiting' = candidates \ granted
        /\ holding' = holders \cup granted
        /\ Compatible(holding')
        /\ \A t \in granted : \A u \in waiting' :
              u < t => ~Conflict(t, u) /\ ~demand[u].exclusive

Arrive ==
    /\ arrived < MaxTasks
    /\ arrived' = arrived + 1
    /\ Grant(waiting \cup {arrived'}, holding)
    /\ UNCHANGED demand

\* A task whose caller had given up before it arrived.
ArriveWithdrawn ==
    /\ arrived < MaxTasks
    /\ arrived' = arrived + 1
    /\ Grant(waiting, holding)
    /\ UNCHANGED demand

\* Waiting tasks give up: their deadline passes, or they are cancelled.
Withdraw(gone) ==
    /\ Grant(waiting \ gone, holding)
    /\ UNCHANGED <<demand, arrived>>

\* A holder is done with the remote side.
Release(t) ==
    /\ Grant(waiting, holding \ {t})
    /\ UNCHANGED <<demand, arrived>>

Init ==
    /\ demand \in [1..MaxTasks -> Demand]
    /\ arrived = 0
    /\ waiting = {}
    /\ holding = {}

Next ==
    \/ Arrive
    \/ ArriveWithdrawn
    \/ \E gone \in SUBSET waiting : Withdraw(gone)
    \/ \E t \in holding : Release(t)

Spec == Init /\ [][Next]_vars
=============================================================================
