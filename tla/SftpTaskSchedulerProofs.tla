---------------------- MODULE SftpTaskSchedulerProofs ----------------------
(***************************************************************************)
(* Theorems about SftpTaskScheduler, for every number of tasks, every set   *)
(* of specifications and every limit the constructor accepts.              *)
(***************************************************************************)
EXTENDS SftpTaskScheduler, FiniteSetTheorems, WellFoundedInduction, TLAPS

-----------------------------------------------------------------------------
(* The dispatch pass. q and a are any queue and owners.                     *)

\* Overlap of paths, and so of claims, does not depend on who is asked.
LEMMA ConflictSymmetric == \A t, u : Conflict(t, u) <=> Conflict(u, t)
  BY DEF Conflict, DoClaimSetsConflict, DoSftpTaskClaimsConflict

\* Owners that did not conflict before the dispatch pass do not after it.
LEMMA DispatchKeepsClaimsExclusive ==
  ASSUME NEW q \in SUBSET Task, NEW a \in SUBSET Task,
         NEW started \in SUBSET q, Dispatches(q, a, started),
         \A t, u \in a : t # u => ~Conflict(t, u)
  PROVE  \A t, u \in a \cup started : t # u => ~Conflict(t, u)
<1>1. ASSUME NEW t \in started, NEW u \in a \cup started, t # u,
             u \in a \/ u < t
      PROVE  ~Conflict(t, u)
  <2>1. Runnable(t, q \ Older(t, started), a \cup Older(t, started))
    BY DEF Dispatches
  <2>2. ~Exclusive(t) => ~ConflictsWithActive(t, a \cup Older(t, started))
    BY <2>1 DEF Runnable
  <2>3. Exclusive(t) => a \cup Older(t, started) = {}
    BY <2>1 DEF Runnable
  <2>4. u \in a \cup Older(t, started)
    BY <1>1 DEF Older
  <2> QED BY <2>2, <2>3, <2>4 DEF ConflictsWithActive
<1>2. ASSUME NEW t \in started, NEW u \in started, t # u
      PROVE  ~Conflict(t, u)
  <2>1. t < u \/ u < t
    BY <1>2 DEF Task
  <2> QED BY <1>1, <1>2, <2>1, ConflictSymmetric
<1> QED BY <1>1, <1>2, ConflictSymmetric

\* A set of tasks is finite and, unless empty, has a youngest member.
LEMMA TasksAreFinite ==
  ASSUME NEW T \in SUBSET Task
  PROVE  IsFiniteSet(T) /\ Cardinality(T) \in Nat
<1>1. IsFiniteSet(Task)
  BY FS_Interval, LimitsAssumption DEF Task
<1> QED BY <1>1, FS_Subset, FS_CardinalityType

LEMMA YoungestTask ==
  ASSUME NEW T \in SUBSET Task, T # {}
  PROVE  \E y \in T : \A t \in T : t <= y
<1> DEFINE younger(t) == {u \in T : t < u}
           families == {younger(t) : t \in T}
<1>1. families \subseteq FiniteSubsetsOf(Task) /\ families # {}
  <2>1. \A t \in T : younger(t) \in SUBSET Task
    OBVIOUS
  <2>2. \A t \in T : younger(t) \in FiniteSubsetsOf(Task)
    BY <2>1, TasksAreFinite DEF FiniteSubsetsOf
  <2> QED BY <2>2
<1>2. PICK least \in families :
         \A f \in families : <<f, least>> \notin StrictSubsetOrdering(Task)
  <2> HIDE DEF families
  <2> QED BY <1>1, FS_StrictSubsetOrderingWellFounded, WFMin
<1>3. PICK y \in T : least = younger(y)
  OBVIOUS
<1>4. ASSUME NEW t \in T, y < t PROVE FALSE
  <2>1. younger(t) \subseteq younger(y) /\ t \in younger(y) /\ t \notin younger(t)
    <3>1. T \subseteq Int
      BY LimitsAssumption DEF Task
    <3>2. \A u \in T : t < u => y < u
      BY <1>4, <3>1
    <3>3. ~(t < t)
      BY <3>1
    <3> QED BY <1>4, <3>2, <3>3
  <2>2. <<younger(t), younger(y)>> \in StrictSubsetOrdering(Task)
    BY <2>1 DEF StrictSubsetOrdering
  <2> QED BY <1>2, <1>3, <2>2
<1>5. \A t \in T : t <= y
  BY <1>4 DEF Task
<1> QED BY <1>5

\* A property P of owners is a limit that the pass cannot exceed when every
\* task it starts found that limit not reached. Stated for the three limits.
LEMMA DispatchKeepsLimit ==
  ASSUME NEW a \in SUBSET Task, NEW started \in SUBSET Task,
         NEW P \in SUBSET Task, NEW limit \in Nat,
         Cardinality(a \cap P) <= limit,
         \A t \in started \cap P :
            Cardinality((a \cup Older(t, started)) \cap P) < limit
  PROVE  Cardinality((a \cup started) \cap P) <= limit
<1>1. CASE started \cap P = {}
  <2>1. (a \cup started) \cap P = a \cap P
    BY <1>1
  <2> QED BY <2>1
<1>2. CASE started \cap P # {}
  <2>1. PICK y \in started \cap P : \A t \in started \cap P : t <= y
    BY <1>2, YoungestTask
  <2> DEFINE earlier == (a \cup Older(y, started)) \cap P
  <2>2. (a \cup started) \cap P = earlier \cup {y}
    <3>1. ASSUME NEW t \in started \cap P, t # y PROVE t \in Older(y, started)
      BY <2>1, <3>1 DEF Older, Task
    <3> QED BY <3>1 DEF Older
  <2>3. IsFiniteSet(earlier) /\ Cardinality(earlier) \in Nat
    BY TasksAreFinite
  <2>4. Cardinality(earlier \cup {y}) <= Cardinality(earlier) + 1
    <3>1. \A S, x : IsFiniteSet(S) =>
             Cardinality(S \cup {x}) = IF x \in S THEN Cardinality(S) ELSE Cardinality(S) + 1
      BY FS_AddElement
    <3>2. Cardinality(earlier \cup {y}) =
             IF y \in earlier THEN Cardinality(earlier) ELSE Cardinality(earlier) + 1
      BY <2>3, <3>1
    <3> HIDE DEF earlier
    <3> QED BY <2>3, <3>2
  <2>5. Cardinality(earlier) < limit
    BY <2>1
  <2>6. Cardinality((a \cup started) \cap P) \in Nat
    BY TasksAreFinite
  <2> HIDE DEF earlier
  <2> QED BY <2>2, <2>3, <2>4, <2>5, <2>6
<1> QED BY <1>1, <1>2

\* The three limits hold of a set of owners.
Within(a) ==
    /\ Cardinality(a) <= TotalLimit
    /\ Cardinality({t \in a : Heavy(t)}) <= HeavyLimit
    /\ Cardinality({t \in a : Mutation(t)}) <= MutationLimit

\* An exclusive task started by the pass found nothing owned.
LEMMA ExclusiveStartsFirst ==
  ASSUME NEW q \in SUBSET Task, NEW a \in SUBSET Task,
         NEW started \in SUBSET q, Dispatches(q, a, started),
         NEW t \in started, Exclusive(t)
  PROVE  a = {} /\ Older(t, started) = {}
  BY DEF Dispatches, Runnable

LEMMA DispatchKeepsCapacity ==
  ASSUME NEW q \in SUBSET Task, NEW a \in SUBSET Task,
         NEW started \in SUBSET q, Dispatches(q, a, started), Within(a)
  PROVE  Within(a \cup started)
<1> DEFINE owners(t) == a \cup Older(t, started)
<1>1. ASSUME NEW t \in started
      PROVE  /\ Cardinality(owners(t)) < TotalLimit
             /\ Heavy(t) => Cardinality({u \in owners(t) : Heavy(u)}) < HeavyLimit
             /\ Mutation(t) => Cardinality({u \in owners(t) : Mutation(u)}) < MutationLimit
  <2>1. CASE Exclusive(t)
    <3>1. owners(t) = {}
      BY <2>1, ExclusiveStartsFirst
    <3>2. Cardinality({}) = 0
      BY FS_EmptySet
    <3>3. {u \in owners(t) : Heavy(u)} = {} /\ {u \in owners(t) : Mutation(u)} = {}
      BY <3>1
    <3> QED BY <3>1, <3>2, <3>3, LimitsAssumption
  <2>2. CASE ~Exclusive(t)
    <3>1. HasCapacityFor(t, owners(t))
      BY <2>2 DEF Dispatches, Runnable
    <3> QED BY <3>1 DEF HasCapacityFor
  <2> QED BY <2>1, <2>2
<1>2. Cardinality(a \cup started) <= TotalLimit
  <2>1. /\ a \cap Task = a
        /\ \A t \in started : owners(t) \cap Task = owners(t)
        /\ (a \cup started) \cap Task = a \cup started
    BY DEF Older
  <2>2. Cardinality((a \cup started) \cap Task) <= TotalLimit
    BY <1>1, <2>1, DispatchKeepsLimit, LimitsAssumption DEF Within
  <2> QED BY <2>1, <2>2
<1>3. Cardinality({t \in a \cup started : Heavy(t)}) <= HeavyLimit
  <2> DEFINE P == {t \in Task : Heavy(t)}
  <2>1. /\ a \cap P = {t \in a : Heavy(t)}
        /\ \A t \in started : owners(t) \cap P = {u \in owners(t) : Heavy(u)}
        /\ (a \cup started) \cap P = {t \in a \cup started : Heavy(t)}
    BY DEF Older
  <2>2. HeavyLimit \in Nat /\ P \in SUBSET Task
    BY LimitsAssumption
  <2>3. \A t \in started \cap P : Cardinality(owners(t) \cap P) < HeavyLimit
    BY <1>1, <2>1
  <2>4. Cardinality(a \cap P) <= HeavyLimit
    BY <2>1 DEF Within
  <2>5. Cardinality((a \cup started) \cap P) <= HeavyLimit
    <3> HIDE DEF P
    <3> QED BY <2>2, <2>3, <2>4, DispatchKeepsLimit
  <2> QED BY <2>1, <2>5
<1>4. Cardinality({t \in a \cup started : Mutation(t)}) <= MutationLimit
  <2> DEFINE P == {t \in Task : Mutation(t)}
  <2>1. /\ a \cap P = {t \in a : Mutation(t)}
        /\ \A t \in started : owners(t) \cap P = {u \in owners(t) : Mutation(u)}
        /\ (a \cup started) \cap P = {t \in a \cup started : Mutation(t)}
    BY DEF Older
  <2>2. MutationLimit \in Nat /\ P \in SUBSET Task
    BY LimitsAssumption
  <2>3. \A t \in started \cap P : Cardinality(owners(t) \cap P) < MutationLimit
    BY <1>1, <2>1
  <2>4. Cardinality(a \cap P) <= MutationLimit
    BY <2>1 DEF Within
  <2>5. Cardinality((a \cup started) \cap P) <= MutationLimit
    <3> HIDE DEF P
    <3> QED BY <2>2, <2>3, <2>4, DispatchKeepsLimit
  <2> QED BY <2>1, <2>5
<1> QED BY <1>2, <1>3, <1>4 DEF Within

\* Owners of which at most one is exclusive, and then alone.
Alone(a) == \A t \in a : Exclusive(t) => a = {t}

LEMMA DispatchKeepsExclusiveAlone ==
  ASSUME NEW q \in SUBSET Task, NEW a \in SUBSET Task,
         NEW started \in SUBSET q, Dispatches(q, a, started), Alone(a)
  PROVE  Alone(a \cup started)
<1>1. ASSUME NEW t \in a, Exclusive(t), NEW u \in started PROVE FALSE
  <2>1. Runnable(u, q \ Older(u, started), a \cup Older(u, started))
    BY DEF Dispatches
  <2> QED BY <1>1, <2>1 DEF Runnable, HasCapacityFor
<1>2. ASSUME NEW t \in started, Exclusive(t), NEW u \in started, u # t PROVE FALSE
  <2>1. Older(t, started) = {}
    BY <1>2, ExclusiveStartsFirst
  <2>2. t \in Older(u, started)
    BY <1>2, <2>1 DEF Older, Task
  <2>3. Runnable(u, q \ Older(u, started), a \cup Older(u, started))
    BY DEF Dispatches
  <2> QED BY <1>2, <2>2, <2>3 DEF Runnable, HasCapacityFor
<1>3. ASSUME NEW t \in started, Exclusive(t) PROVE a = {}
  BY <1>3, ExclusiveStartsFirst
<1> QED BY <1>1, <1>2, <1>3 DEF Alone

\* Starting tasks that are not older than t never makes t runnable: they only
\* take capacity and claims.
LEMMA RunnableBefore ==
  ASSUME NEW q \in SUBSET Task, NEW a \in SUBSET Task, NEW started \in SUBSET q,
         NEW before \in SUBSET started, NEW t \in q \ started,
         \A u \in started \ before : ~(u < t),
         Runnable(t, q \ started, a \cup started)
  PROVE  Runnable(t, q \ before, a \cup before)
<1>1. before \subseteq started /\ Older(t, q \ started) = Older(t, q \ before)
  BY DEF Older
<1>2. CASE Exclusive(t)
  BY <1>1, <1>2 DEF Runnable
<1>3. CASE ~Exclusive(t)
  <2>1. HasCapacityFor(t, a \cup started) /\ ~ConflictsWithActive(t, a \cup started)
    BY <1>3 DEF Runnable
  <2>2. ~ConflictsWithActive(t, a \cup before)
    BY <1>1, <2>1 DEF ConflictsWithActive
  <2>3. HasCapacityFor(t, a \cup before)
    <3> DEFINE all == a \cup started
               now == a \cup before
    <3>1. \A A, C : A \subseteq C /\ C \in SUBSET Task =>
             /\ Cardinality(A) \in Nat
             /\ Cardinality(C) \in Nat
             /\ Cardinality(A) <= Cardinality(C)
      <4> SUFFICES ASSUME NEW A, NEW C, A \subseteq C, C \in SUBSET Task
                   PROVE  /\ Cardinality(A) \in Nat
                          /\ Cardinality(C) \in Nat
                          /\ Cardinality(A) <= Cardinality(C)
        OBVIOUS
      <4>1. A \in SUBSET Task
        OBVIOUS
      <4> QED BY <4>1, TasksAreFinite, FS_Subset
    <3>2. /\ now \subseteq all
          /\ {u \in now : Heavy(u)} \subseteq {u \in all : Heavy(u)}
          /\ {u \in now : Mutation(u)} \subseteq {u \in all : Mutation(u)}
      BY <1>1
    <3>3. /\ Cardinality(now) <= Cardinality(all)
          /\ Cardinality({u \in now : Heavy(u)}) <= Cardinality({u \in all : Heavy(u)})
          /\ Cardinality({u \in now : Mutation(u)}) <= Cardinality({u \in all : Mutation(u)})
      BY <3>1, <3>2
    <3>4. /\ Cardinality(now) \in Nat
          /\ Cardinality(all) \in Nat
          /\ Cardinality({u \in now : Heavy(u)}) \in Nat
          /\ Cardinality({u \in all : Heavy(u)}) \in Nat
          /\ Cardinality({u \in now : Mutation(u)}) \in Nat
          /\ Cardinality({u \in all : Mutation(u)}) \in Nat
      BY TasksAreFinite, <1>1
    <3>5. \A u \in now : ~Exclusive(u)
      BY <2>1, <3>2 DEF HasCapacityFor
    <3> HIDE DEF now, all
    <3> QED BY <2>1, <3>3, <3>4, <3>5, LimitsAssumption DEF HasCapacityFor, all, now
  <2> QED BY <1>1, <1>3, <2>2, <2>3
          DEF Runnable, ConflictsWithOlderQueuedClaim
<1> QED BY <1>2, <1>3

\* The pass leaves no task behind that it could still start: what stopped a
\* task at its turn also stops it at the end.
LEMMA DispatchMissesNothing ==
  ASSUME NEW q \in SUBSET Task, NEW a \in SUBSET Task,
         NEW started \in SUBSET q, Dispatches(q, a, started)
  PROVE  \A t \in q \ started : ~Runnable(t, q \ started, a \cup started)
<1> SUFFICES ASSUME NEW t \in q \ started,
                    Runnable(t, q \ started, a \cup started)
             PROVE  FALSE
  OBVIOUS
<1>1. ~Runnable(t, q \ Older(t, started), a \cup Older(t, started))
  BY DEF Dispatches
<1>2. /\ Older(t, started) \in SUBSET started
      /\ \A u \in started \ Older(t, started) : ~(u < t)
  BY DEF Older
<1> QED
  BY <1>1, <1>2, RunnableBefore

\* No task started by the pass leaves an older one behind that it conflicts
\* with or that is exclusive.
LEMMA DispatchDoesNotOvertake ==
  ASSUME NEW q \in SUBSET Task, NEW a \in SUBSET Task,
         NEW started \in SUBSET q, Dispatches(q, a, started),
         NEW t \in started, NEW u \in q \ started, u < t
  PROVE  ~Conflict(t, u) /\ ~Exclusive(u)
<1>1. Runnable(t, q \ Older(t, started), a \cup Older(t, started))
  BY DEF Dispatches
<1>2. u \in Older(t, q \ Older(t, started))
  BY DEF Older
<1> QED BY <1>1, <1>2 DEF Runnable, ConflictsWithOlderQueuedClaim

\* A finite set of numbers has a least one.
LEMMA LeastNumber ==
  ASSUME NEW T, T \subseteq Int, IsFiniteSet(T), T # {}
  PROVE  \E o \in T : \A t \in T : ~(t < o)
<1> DEFINE older(t) == {u \in T : u < t}
           families == {older(t) : t \in T}
<1>1. families \subseteq FiniteSubsetsOf(T) /\ families # {}
  <2>1. \A t \in T : older(t) \in SUBSET T
    OBVIOUS
  <2>2. \A t \in T : older(t) \in FiniteSubsetsOf(T)
    BY <2>1, FS_Subset DEF FiniteSubsetsOf
  <2> QED
    BY <2>2
<1>2. PICK least \in families :
         \A f \in families : <<f, least>> \notin StrictSubsetOrdering(T)
  <2> HIDE DEF families
  <2> QED
    BY <1>1, FS_StrictSubsetOrderingWellFounded, WFMin
<1>3. PICK o \in T : least = older(o)
  OBVIOUS
<1>4. ASSUME NEW t \in T, t < o PROVE FALSE
  <2>1. \A u \in T : u < t => u < o
    BY <1>4
  <2>2. ~(t < t)
    OBVIOUS
  <2>3. older(t) \subseteq older(o) /\ t \in older(o) /\ t \notin older(t)
    BY <1>4, <2>1, <2>2
  <2>4. <<older(t), older(o)>> \in StrictSubsetOrdering(T)
    BY <2>3 DEF StrictSubsetOrdering
  <2> QED
    BY <1>2, <1>3, <2>4
<1> QED
  BY <1>4

\* In every nonempty set of tasks one is the oldest.
LEMMA OldestTask ==
  ASSUME NEW T \in SUBSET Task, T # {}
  PROVE  \E o \in T : \A t \in T : ~(t < o)
<1>1. T \subseteq Int
  BY LimitsAssumption DEF Task
<1> QED
  BY <1>1, TasksAreFinite, LeastNumber

\* Two passes over one queue start the same tasks: the oldest task on which
\* they differ would have found the same queue and owners.
LEMMA OnePass ==
  ASSUME NEW q \in SUBSET Task, NEW a \in SUBSET Task,
         NEW s \in SUBSET q, Dispatches(q, a, s),
         NEW r \in SUBSET q, Dispatches(q, a, r)
  PROVE  s = r
<1> SUFFICES ASSUME s # r PROVE FALSE
  OBVIOUS
<1> DEFINE differ == {t \in q : t \in s <=> t \notin r}
<1>1. differ \in SUBSET Task /\ differ # {}
  OBVIOUS
<1>2. PICK o \in differ : \A t \in differ : ~(t < o)
  <2> HIDE DEF differ
  <2> QED
    BY <1>1, OldestTask
<1>3. Older(o, s) = Older(o, r)
  BY <1>2 DEF Older
<1>4. o \in q
  OBVIOUS
<1>5. /\ o \in s <=> Runnable(o, q \ Older(o, s), a \cup Older(o, s))
      /\ o \in r <=> Runnable(o, q \ Older(o, r), a \cup Older(o, r))
  BY <1>4 DEF Dispatches
<1> QED
  BY <1>3, <1>5

\* The pass as far as the tasks up to n.
PassTo(q, a, n, s) ==
    /\ s \subseteq {t \in q : t <= n}
    /\ \A t \in q : t <= n =>
          (t \in s <=> Runnable(t, q \ Older(t, s), a \cup Older(t, s)))

\* A pass always exists: no step that dispatches is held up by what it must
\* start.
LEMMA SomePass ==
  ASSUME NEW q \in SUBSET Task, NEW a \in SUBSET Task
  PROVE  \E s \in SUBSET q : Dispatches(q, a, s)
<1> DEFINE stuck == {n \in Task : ~\E s \in SUBSET q : PassTo(q, a, n, s)}
<1>1. Task \subseteq Nat /\ MaxTasks \in Nat
  BY LimitsAssumption DEF Task
<1>2. stuck = {}
  <2> SUFFICES ASSUME stuck # {} PROVE FALSE
    OBVIOUS
  <2>1. PICK n \in stuck : \A m \in stuck : ~(m < n)
    <3>1. stuck \in SUBSET Task
      OBVIOUS
    <3> HIDE DEF stuck
    <3> QED
      BY <3>1, OldestTask
  <2>2. n \in Task /\ n \in Nat /\ n >= 1
    BY <1>1 DEF Task
  <2>3. \E s \in SUBSET q : PassTo(q, a, n - 1, s)
    <3>1. CASE n = 1
      <4>1. \A t \in q : ~(t <= n - 1)
        BY <2>2, <3>1, LimitsAssumption DEF Task
      <4>2. {} \in SUBSET q /\ PassTo(q, a, n - 1, {})
        BY <4>1 DEF PassTo
      <4> QED
        BY <4>2
    <3>2. CASE n # 1
      <4>1. n - 1 \in Task /\ n - 1 < n
        BY <2>2, <3>2, <1>1 DEF Task
      <4> QED
        BY <2>1, <4>1
    <3> QED
      BY <3>1, <3>2
  <2>4. PICK s \in SUBSET q : PassTo(q, a, n - 1, s)
    BY <2>3
  <2>5. s \subseteq {t \in q : t <= n - 1}
    BY <2>4 DEF PassTo
  <2>6. \A t \in q : (t <= n <=> t <= n - 1 \/ t = n) /\ (t <= n - 1 => ~(n < t) /\ t # n)
    BY <1>1, <2>2
  <2> DEFINE more == IF n \in q /\ Runnable(n, q \ Older(n, s), a \cup Older(n, s))
                     THEN s \cup {n} ELSE s
  <2>7. \A t \in q : t <= n => Older(t, more) = Older(t, s)
    <3>1. \A t \in q : t <= n => ~(n < t)
      BY <1>1, <2>2
    <3> QED
      BY <3>1 DEF Older
  <2>8. more \in SUBSET q /\ more \subseteq {t \in q : t <= n}
    BY <2>5, <2>6
  <2>9. ASSUME NEW t \in q, t <= n
        PROVE  t \in more <=> Runnable(t, q \ Older(t, more), a \cup Older(t, more))
    <3>1. CASE t = n
      <4>1. n \notin s
        BY <2>5, <2>6
      <4> QED
        BY <2>7, <2>9, <3>1, <4>1
    <3>2. CASE t # n
      <4>1. t \in more <=> t \in s
        BY <3>2
      <4>2. t \in s <=> Runnable(t, q \ Older(t, s), a \cup Older(t, s))
        BY <2>4, <2>6, <2>9, <3>2 DEF PassTo
      <4> HIDE DEF more
      <4> QED
        BY <2>7, <2>9, <4>1, <4>2
    <3> QED
      BY <3>1, <3>2
  <2>10. PassTo(q, a, n, more)
    <3> HIDE DEF more
    <3> QED
      BY <2>8, <2>9 DEF PassTo
  <2> QED
    BY <2>8, <2>10
<1>3. CASE MaxTasks = 0
  <2>1. q = {}
    BY <1>3 DEF Task
  <2> QED
    BY <2>1 DEF Dispatches
<1>4. CASE MaxTasks # 0
  <2>1. MaxTasks \in Task /\ \A t \in q : t <= MaxTasks
    BY <1>1, <1>4 DEF Task
  <2>2. PICK s \in SUBSET q : PassTo(q, a, MaxTasks, s)
    BY <1>2, <2>1
  <2> QED
    BY <2>1, <2>2 DEF PassTo, Dispatches
<1> QED
  BY <1>3, <1>4

\* From any queue and owners, dispatch starts one set of tasks: whoever calls
\* it, what it starts is decided by the queue, the owners and what they ask for.
THEOREM DispatchIsDecided ==
    \A q, a \in SUBSET Task :
        \E s \in SUBSET q : \A r \in SUBSET q : Dispatches(q, a, r) <=> r = s
<1> SUFFICES ASSUME NEW q \in SUBSET Task, NEW a \in SUBSET Task
             PROVE  \E s \in SUBSET q : \A r \in SUBSET q : Dispatches(q, a, r) <=> r = s
  OBVIOUS
<1>1. PICK s \in SUBSET q : Dispatches(q, a, s)
  BY SomePass
<1>2. \A r \in SUBSET q : Dispatches(q, a, r) => r = s
  BY <1>1, OnePass
<1> QED
  BY <1>1, <1>2

\* The loop never goes back: what it passed over stays stopped, for a turn only
\* takes capacity and claims.
LEMMA LoopGoesOn ==
  ASSUME NEW q \in SUBSET Task, NEW a \in SUBSET Task, NEW s, IsLoop(q, a, s)
  PROVE  \A i, j \in 1..Len(s) : i < j => s[i] < s[j]
<1> DEFINE back == {j \in 1..Len(s) : \E i \in 1..(j - 1) : s[j] < s[i]}
<1>1. /\ Len(s) \in Nat /\ \A i \in 1..Len(s) : s[i] \in q /\ s[i] \in Int
  <2>1. s \in Seq(q)
    BY DEF IsLoop
  <2>2. \A t \in q : t \in Int
    BY LimitsAssumption DEF Task
  <2>3. Len(s) \in Nat /\ \A i \in 1..Len(s) : s[i] \in q
    BY <2>1
  <2> QED
    BY <2>2, <2>3
<1>2. back = {}
  <2> SUFFICES ASSUME back # {} PROVE FALSE
    OBVIOUS
  <2>1. back \subseteq Int /\ IsFiniteSet(back)
    <3>1. back \subseteq 1..Len(s) /\ IsFiniteSet(1..Len(s))
      BY <1>1, FS_Interval
    <3>2. 1..Len(s) \subseteq Int
      OBVIOUS
    <3> HIDE DEF back
    <3>3. IsFiniteSet(back)
      BY <3>1, FS_Subset
    <3> QED
      BY <3>1, <3>2, <3>3
  <2>2. PICK j \in back : \A k \in back : ~(k < j)
    <3> HIDE DEF back
    <3> QED
      BY <2>1, LeastNumber
  <2>3. PICK i \in 1..(j - 1) : s[j] < s[i]
    OBVIOUS
  <2> DEFINE p == j - 1
             before == StartedBefore(s, p)
             started == StartedBefore(s, j)
  <2>4. /\ j \in 1..Len(s) /\ p \in 1..Len(s) /\ p < j /\ i \in 1..Len(s)
        /\ i = p \/ i \in 1..(p - 1)
    BY <1>1
  <2>5. s[j] < s[p]
    <3>1. p \notin back
      BY <2>2, <2>4
    <3>2. i = p \/ ~(s[p] < s[i])
      BY <2>4, <3>1
    <3> QED
      BY <1>1, <2>3, <2>4, <3>2
  <2>6. started = before \cup {s[p]}
    <3>1. 1..(j - 1) = 1..(p - 1) \cup {p}
      BY <2>4
    <3> QED
      BY <3>1 DEF StartedBefore
  <2>7. started \in SUBSET q /\ before \in SUBSET started /\ s[j] \in q \ started
    <3>1. \A k \in 1..(j - 1) : k \in 1..Len(s)
      BY <1>1
    <3>2. s[j] \notin StartedBefore(s, j)
      BY <2>4 DEF IsLoop
    <3> QED
      BY <1>1, <2>4, <2>6, <3>1, <3>2 DEF StartedBefore
  <2>8. /\ Runnable(s[j], q \ started, a \cup started)
        /\ s[j] \in q \ before /\ s[j] < s[p] => ~Runnable(s[j], q \ before, a \cup before)
    BY <2>4 DEF IsLoop
  <2>9. \A u \in started \ before : ~(u < s[j])
    BY <1>1, <2>4, <2>5, <2>6
  <2>10. Runnable(s[j], q \ before, a \cup before)
    <3> HIDE DEF started, before, p
    <3> QED
      BY <2>7, <2>8, <2>9, RunnableBefore
  <2> QED
    BY <2>5, <2>7, <2>8, <2>10
<1>3. ASSUME NEW i \in 1..Len(s), NEW j \in 1..Len(s), i < j
      PROVE  s[i] < s[j]
  <2>1. i \in 1..(j - 1)
    BY <1>1, <1>3
  <2>2. ~(s[j] < s[i])
    BY <1>2, <2>1
  <2>3. s[i] # s[j]
    BY <2>1 DEF IsLoop, StartedBefore
  <2> QED
    BY <1>1, <2>2, <2>3
<1> QED
  BY <1>3

\* dispatch and findNextRunnableIndex: in as many turns as it takes, the loop
\* starts exactly the tasks that one pass in queue order admits.
THEOREM LoopIsOnePass ==
    \A q, a \in SUBSET Task : \A s :
        IsLoop(q, a, s) => Dispatches(q, a, {s[i] : i \in 1..Len(s)})
<1> SUFFICES ASSUME NEW q \in SUBSET Task, NEW a \in SUBSET Task, NEW s, IsLoop(q, a, s)
             PROVE  Dispatches(q, a, {s[i] : i \in 1..Len(s)})
  OBVIOUS
<1> DEFINE all == {s[i] : i \in 1..Len(s)}
<1>1. /\ Len(s) \in Nat /\ \A i \in 1..Len(s) : s[i] \in q /\ s[i] \in Int
      /\ all \subseteq q /\ \A t \in q : t \in Int
  <2>1. s \in Seq(q)
    BY DEF IsLoop
  <2>2. \A t \in q : t \in Int
    BY LimitsAssumption DEF Task
  <2>3. Len(s) \in Nat /\ \A i \in 1..Len(s) : s[i] \in q
    BY <2>1
  <2> QED
    BY <2>2, <2>3
<1>2. \A i, j \in 1..Len(s) : i < j => s[i] < s[j]
  BY LoopGoesOn
<1>3. ASSUME NEW i \in 1..Len(s)
      PROVE  Older(s[i], all) = StartedBefore(s, i)
  <2>1. \A j \in 1..Len(s) : s[j] < s[i] <=> j \in 1..(i - 1)
    BY <1>1, <1>2
  <2>2. 1..(i - 1) \subseteq 1..Len(s)
    BY <1>1
  <2> QED
    BY <2>1, <2>2 DEF Older, StartedBefore
<1>4. ASSUME NEW t \in q, t \in all
      PROVE  Runnable(t, q \ Older(t, all), a \cup Older(t, all))
  <2>1. PICK i \in 1..Len(s) : t = s[i]
    BY <1>4
  <2>2. Runnable(s[i], q \ StartedBefore(s, i), a \cup StartedBefore(s, i))
    BY DEF IsLoop
  <2> QED
    BY <1>3, <2>1, <2>2
<1>5. ASSUME NEW t \in q, t \notin all
      PROVE  ~Runnable(t, q \ Older(t, all), a \cup Older(t, all))
  <2> DEFINE later == {k \in 1..Len(s) : t < s[k]}
  <2>1. CASE later = {}
    <3>1. 1..(Len(s) + 1 - 1) = 1..Len(s)
      BY <1>1
    <3>2. StartedBefore(s, Len(s) + 1) = all
      BY <3>1 DEF StartedBefore
    <3>3. \A k \in 1..Len(s) : s[k] < t
      BY <1>1, <1>5, <2>1
    <3>4. Older(t, all) = all
      BY <3>3 DEF Older
    <3>5. \A u \in q \ all : ~Runnable(u, q \ all, a \cup all)
      BY <3>2 DEF IsLoop
    <3> QED
      BY <1>5, <3>4, <3>5
  <2>2. CASE later # {}
    <3>1. later \subseteq Int /\ IsFiniteSet(later)
      <4>1. later \subseteq 1..Len(s) /\ IsFiniteSet(1..Len(s))
        BY <1>1, FS_Interval
      <4>2. 1..Len(s) \subseteq Int
        OBVIOUS
      <4> HIDE DEF later
      <4>3. IsFiniteSet(later)
        BY <4>1, FS_Subset
      <4> QED
        BY <4>1, <4>2, <4>3
    <3>2. PICK k \in later : \A l \in later : ~(l < k)
      <4> HIDE DEF later
      <4> QED
        BY <2>2, <3>1, LeastNumber
    <3>3. k \in 1..Len(s) /\ t < s[k]
      OBVIOUS
    <3>4. \A j \in 1..Len(s) : s[j] < t <=> j \in 1..(k - 1)
      <4>1. ASSUME NEW j \in 1..Len(s), j < k PROVE s[j] < t
        <5>1. ~(t < s[j])
          BY <3>2, <4>1
        <5>2. s[j] # t
          BY <1>5
        <5> QED
          BY <1>1, <5>1, <5>2
      <4>2. ASSUME NEW j \in 1..Len(s), ~(j < k) PROVE ~(s[j] < t)
        <5>1. j = k \/ s[k] < s[j]
          BY <1>1, <1>2, <3>3, <4>2
        <5> QED
          BY <1>1, <3>3, <5>1
      <4> QED
        BY <1>1, <3>3, <4>1, <4>2
    <3>5. 1..(k - 1) \subseteq 1..Len(s)
      BY <1>1, <3>3
    <3>6. Older(t, all) = StartedBefore(s, k)
      BY <3>4, <3>5 DEF Older, StartedBefore
    <3>7. t \in q \ StartedBefore(s, k)
      BY <1>5, <3>5 DEF StartedBefore
    <3>8. ~Runnable(t, q \ StartedBefore(s, k), a \cup StartedBefore(s, k))
      BY <3>3, <3>7 DEF IsLoop
    <3> QED
      BY <3>6, <3>8
  <2> QED
    BY <2>1, <2>2
<1> HIDE DEF all
<1>6. Dispatches(q, a, all)
  BY <1>1, <1>4, <1>5 DEF Dispatches
<1> QED
  BY <1>6 DEF all

-----------------------------------------------------------------------------
(* Type correctness.                                                       *)

LEMMA DispatchType ==
  ASSUME NEW q \in SUBSET Task, NEW a \in SUBSET Task,
         NEW st \in [Task -> TaskState], NEW rn \in [Task -> Runner],
         idleWaiter \in [Waiter -> {"none", "waiting", "resolved"}],
         Dispatch(q, a, st, rn)
  PROVE  /\ queue' \subseteq Task
         /\ active' \subseteq Task
         /\ state' \in [Task -> TaskState]
         /\ runner' \in [Task -> Runner]
         /\ idleWaiter' \in [Waiter -> {"none", "waiting", "resolved"}]
<1>1. PICK started \in SUBSET q :
         /\ queue' = q \ started
         /\ active' = a \cup started
         /\ state' = [t \in Task |-> IF t \in started THEN "running" ELSE st[t]]
         /\ runner' = [t \in Task |-> IF t \in started THEN "admitted" ELSE rn[t]]
  BY DEF Dispatch
<1>2. state' \in [Task -> TaskState] /\ runner' \in [Task -> Runner]
  BY <1>1 DEF TaskState, Runner
<1>3. idleWaiter' \in [Waiter -> {"none", "waiting", "resolved"}]
  BY DEF Dispatch, ResolveIdleWaiters
<1> QED BY <1>1, <1>2, <1>3

LEMMA CancelType ==
  ASSUME TypeOK, NEW C \in SUBSET Task
  PROVE  /\ CancelledState(C) \in [Task -> TaskState]
         /\ CancelRecords(C) => /\ failure' \in [Task -> Failure]
                                /\ abortReason' \in [Task -> Reason]
                                /\ released' \subseteq Task
<1>1. CancelledState(C) \in [Task -> TaskState]
  BY DEF TypeOK, CancelledState, TaskState, TerminalState
<1>2. ASSUME CancelRecords(C) PROVE failure' \in [Task -> Failure]
  BY <1>2 DEF TypeOK, CancelRecords, Failure
<1>3. ASSUME CancelRecords(C) PROVE abortReason' \in [Task -> Reason]
  BY <1>3 DEF TypeOK, CancelRecords, Reason
<1>4. ASSUME CancelRecords(C) PROVE released' \subseteq Task
  BY <1>4 DEF TypeOK, CancelRecords
<1> QED BY <1>1, <1>2, <1>3, <1>4

LEMMA TypeInvariant == TypeOK /\ [Next]_vars => TypeOK'
<1> SUFFICES ASSUME TypeOK, [Next]_vars PROVE TypeOK'
  OBVIOUS
<1>1. ASSUME NEW aborted \in BOOLEAN, Schedule(aborted) PROVE TypeOK'
  <2> DEFINE t == sequence + 1
             q == IF aborted THEN queue ELSE queue \cup {t}
             st == [state EXCEPT ![t] = IF aborted THEN "cancelled" ELSE "queued"]
  <2>1. t \in Task /\ sequence' \in 0..MaxTasks
    BY <1>1, LimitsAssumption DEF Schedule, TypeOK, Task
  <2>2. q \in SUBSET Task /\ st \in [Task -> TaskState] /\ Dispatch(q, active, st, runner)
    BY <1>1, <2>1 DEF Schedule, TypeOK, TaskState, TerminalState
  <2>3. /\ queue' \subseteq Task
        /\ active' \subseteq Task
        /\ state' \in [Task -> TaskState]
        /\ runner' \in [Task -> Runner]
        /\ idleWaiter' \in [Waiter -> {"none", "waiting", "resolved"}]
    <3> HIDE DEF q, st
    <3> QED BY <2>2, DispatchType DEF TypeOK
  <2>4. records' \subseteq 1..sequence' /\ released' \subseteq Task
    BY <1>1, <2>1 DEF Schedule, TypeOK
  <2> QED BY <1>1, <2>1, <2>3, <2>4 DEF Schedule, TypeOK
<1>2. ASSUME NEW t \in Task, AbortSignal(t) PROVE TypeOK'
  <2>1. CancelRecords({t}) /\ Dispatch(queue \ {t}, active, CancelledState({t}), runner)
    BY <1>2 DEF AbortSignal
  <2>2. /\ CancelledState({t}) \in [Task -> TaskState]
        /\ failure' \in [Task -> Failure]
        /\ abortReason' \in [Task -> Reason]
        /\ released' \subseteq Task
    BY <2>1, CancelType
  <2>3. /\ queue' \subseteq Task
        /\ active' \subseteq Task
        /\ state' \in [Task -> TaskState]
        /\ runner' \in [Task -> Runner]
        /\ idleWaiter' \in [Waiter -> {"none", "waiting", "resolved"}]
    BY <2>1, <2>2, DispatchType DEF TypeOK
  <2> QED BY <1>2, <2>2, <2>3 DEF AbortSignal, TypeOK
<1>3. ASSUME CancelAll PROVE TypeOK'
  <2> DEFINE live == {t \in Task : state[t] \in {"queued", "running"}}
  <2>1. CancelRecords(live) /\ Dispatch({}, active, CancelledState(live), runner)
    BY <1>3 DEF CancelAll
  <2>2. /\ CancelledState(live) \in [Task -> TaskState]
        /\ failure' \in [Task -> Failure]
        /\ abortReason' \in [Task -> Reason]
        /\ released' \subseteq Task
    <3>1. live \in SUBSET Task
      OBVIOUS
    <3> HIDE DEF live
    <3> QED BY <2>1, <3>1, CancelType
  <2>3. /\ queue' \subseteq Task
        /\ active' \subseteq Task
        /\ state' \in [Task -> TaskState]
        /\ runner' \in [Task -> Runner]
        /\ idleWaiter' \in [Waiter -> {"none", "waiting", "resolved"}]
    <3> HIDE DEF live
    <3> QED BY <2>1, <2>2, DispatchType DEF TypeOK
  <2> QED BY <1>3, <2>2, <2>3 DEF CancelAll, TypeOK
<1>4. ASSUME NEW t \in Task, ForgetTask(t) PROVE TypeOK'
  BY <1>4 DEF ForgetTask, TypeOK
<1>5. ASSUME NEW w \in Waiter, WaitForIdle(w) PROVE TypeOK'
  BY <1>5 DEF WaitForIdle, TypeOK
<1>6. ASSUME NEW t \in Task, DeadlineWhileQueued(t) PROVE TypeOK'
  <2> DEFINE st == [state EXCEPT ![t] = "failed"]
  <2>1. st \in [Task -> TaskState] /\ Dispatch(queue \ {t}, active, st, runner)
    BY <1>6 DEF DeadlineWhileQueued, TypeOK, TaskState, TerminalState
  <2>2. /\ queue' \subseteq Task
        /\ active' \subseteq Task
        /\ state' \in [Task -> TaskState]
        /\ runner' \in [Task -> Runner]
        /\ idleWaiter' \in [Waiter -> {"none", "waiting", "resolved"}]
    <3> HIDE DEF st
    <3> QED BY <2>1, DispatchType DEF TypeOK
  <2>3. failure' \in [Task -> Failure]
    BY <1>6 DEF DeadlineWhileQueued, TypeOK, Failure
  <2> QED BY <1>6, <2>2, <2>3 DEF DeadlineWhileQueued, TypeOK
<1>7. ASSUME NEW t \in Task, DeadlineWhileRunning(t) PROVE TypeOK'
  <2>1. Mutation(t) \in BOOLEAN
    BY DEF Mutation
  <2>2. failure' \in [Task -> Failure]
    BY <1>7, <2>1 DEF DeadlineWhileRunning, TypeOK, Failure
  <2> QED BY <1>7, <2>2
          DEF DeadlineWhileRunning, TypeOK, TaskState, TerminalState, Reason
<1>8. ASSUME NEW t \in Task, InvokeRunner(t) PROVE TypeOK'
  BY <1>8 DEF InvokeRunner, TypeOK, Runner
<1>9. ASSUME NEW t \in Task, NEW outcome \in RunOutcome, SettleRunner(t, outcome)
      PROVE TypeOK'
  <2>1. outcome.state \in TaskState /\ outcome.failure \in Failure
    <3>1. CASE outcome \in [state : {"succeeded", "cancelled"}, failure : {NoFailure}]
      <4>1. NoFailure \in Failure
        BY DEF NoFailure, Failure
      <4>2. outcome.state \in {"succeeded", "cancelled"} /\ outcome.failure = NoFailure
        BY <3>1
      <4> QED BY <4>1, <4>2 DEF TaskState, TerminalState
    <3>2. CASE outcome \in [state : {"failed"},
                            failure : [code : {"task"}, unknown : BOOLEAN]]
      BY <3>2 DEF TaskState, TerminalState, Failure
    <3> QED BY <3>1, <3>2 DEF RunOutcome
  <2> QED BY <1>9, <2>1 DEF SettleRunner, TypeOK, Runner
<1>10. ASSUME NEW t \in Task, ReleaseRecord(t) PROVE TypeOK'
  <2> DEFINE rn == [runner EXCEPT ![t] = "done"]
  <2>1. rn \in [Task -> Runner] /\ Dispatch(queue, active \ {t}, state, rn)
    BY <1>10 DEF ReleaseRecord, TypeOK, Runner
  <2>2. /\ queue' \subseteq Task
        /\ active' \subseteq Task
        /\ state' \in [Task -> TaskState]
        /\ runner' \in [Task -> Runner]
        /\ idleWaiter' \in [Waiter -> {"none", "waiting", "resolved"}]
    <3> HIDE DEF rn
    <3> QED BY <2>1, DispatchType DEF TypeOK
  <2> QED BY <1>10, <2>2 DEF ReleaseRecord, TypeOK
<1>11. CASE UNCHANGED vars
  BY <1>11 DEF vars, TypeOK
<1> QED BY <1>1, <1>2, <1>3, <1>4, <1>5, <1>6, <1>7, <1>8, <1>9, <1>10, <1>11
        DEF Next

LEMMA TypeInitially == Init => TypeOK
  BY LimitsAssumption
     DEF Init, TypeOK, TaskState, Failure, NoFailure, Runner, Reason

\* The scheduler's state stays well-formed through every call, timer and
\* promise of class SftpTaskScheduler.
THEOREM TypeCorrect == Spec => []TypeOK
  BY TypeInitially, TypeInvariant, PTL DEF Spec

-----------------------------------------------------------------------------
(* Admission.                                                              *)

\* What the owners of capacity and claims must satisfy at all times.
SafeOwners(a) ==
    /\ Within(a)
    /\ \A t, u \in a : t # u => ~Conflict(t, u)
    /\ Alone(a)

\* The effect of a step on the queue and the owners: a pass from some queue
\* and from some of the owners.
Admits(q, a, started) ==
    /\ Dispatches(q, a, started)
    /\ queue' = q \ started
    /\ active' = a \cup started

LEMMA DispatchAdmits ==
  ASSUME NEW q \in SUBSET Task, NEW a \in SUBSET active, NEW st, NEW rn,
         Dispatch(q, a, st, rn)
  PROVE  \E qq \in SUBSET Task, aa \in SUBSET active :
             \E started \in SUBSET qq : Admits(qq, aa, started)
  BY DEF Dispatch, Admits

\* Every step either leaves the queue and the owners alone or is such a pass.
LEMMA StepAdmits ==
  ASSUME TypeOK, [Next]_vars
  PROVE  /\ spec' = spec
         /\ \/ UNCHANGED <<queue, active>>
            \/ \E q \in SUBSET Task, a \in SUBSET active :
                   \E started \in SUBSET q : Admits(q, a, started)
<1> DEFINE Pass == \E q \in SUBSET Task, a \in SUBSET active :
                       \E started \in SUBSET q : Admits(q, a, started)
<1>1. ASSUME NEW aborted \in BOOLEAN, Schedule(aborted) PROVE Pass
  <2> DEFINE t == sequence + 1
             q == IF aborted THEN queue ELSE queue \cup {t}
             st == [state EXCEPT ![t] = IF aborted THEN "cancelled" ELSE "queued"]
  <2>1. q \in SUBSET Task
    BY <1>1, LimitsAssumption DEF Schedule, TypeOK, Task
  <2>2. Dispatch(q, active, st, runner)
    BY <1>1 DEF Schedule
  <2> HIDE DEF q, st
  <2> QED BY <2>1, <2>2, DispatchAdmits
<1>2. ASSUME NEW t \in Task, AbortSignal(t) PROVE Pass
  <2>1. Dispatch(queue \ {t}, active, CancelledState({t}), runner)
    BY <1>2 DEF AbortSignal
  <2>2. queue \ {t} \in SUBSET Task
    BY DEF TypeOK
  <2> QED BY <2>1, <2>2, DispatchAdmits
<1>3. ASSUME CancelAll PROVE Pass
  <2>1. \E st : Dispatch({}, active, st, runner)
    BY <1>3 DEF CancelAll
  <2> QED BY <2>1, DispatchAdmits
<1>4. ASSUME NEW t \in Task, DeadlineWhileQueued(t) PROVE Pass
  <2>1. \E st : Dispatch(queue \ {t}, active, st, runner)
    BY <1>4 DEF DeadlineWhileQueued
  <2>2. queue \ {t} \in SUBSET Task
    BY DEF TypeOK
  <2> QED BY <2>1, <2>2, DispatchAdmits
<1>5. ASSUME NEW t \in Task, ReleaseRecord(t) PROVE Pass
  <2>1. \E rn : Dispatch(queue, active \ {t}, state, rn)
    BY <1>5 DEF ReleaseRecord
  <2>2. queue \in SUBSET Task /\ active \ {t} \in SUBSET active
    BY DEF TypeOK
  <2> QED BY <2>1, <2>2, DispatchAdmits
<1>6. spec' = spec
  BY DEF Next, vars, Schedule, AbortSignal, CancelAll, ForgetTask, WaitForIdle,
         DeadlineWhileQueued, DeadlineWhileRunning, InvokeRunner, SettleRunner,
         ReleaseRecord
<1>7. CASE \/ \E t \in Task : ForgetTask(t) \/ DeadlineWhileRunning(t) \/ InvokeRunner(t)
           \/ \E w \in Waiter : WaitForIdle(w)
           \/ \E t \in Task, outcome \in RunOutcome : SettleRunner(t, outcome)
           \/ UNCHANGED vars
  <2>1. UNCHANGED <<queue, active>>
    BY <1>7 DEF ForgetTask, DeadlineWhileRunning, InvokeRunner, WaitForIdle,
                SettleRunner, vars
  <2> QED BY <1>6, <2>1
<1> QED BY <1>1, <1>2, <1>3, <1>4, <1>5, <1>6, <1>7 DEF Next

LEMMA DispatchKeepsOwnersSafe ==
  ASSUME NEW q \in SUBSET Task, NEW a \in SUBSET Task,
         NEW started \in SUBSET q, Dispatches(q, a, started), SafeOwners(a)
  PROVE  SafeOwners(a \cup started)
<1>1. Within(a \cup started)
  BY DispatchKeepsCapacity DEF SafeOwners
<1>2. \A t, u \in a \cup started : t # u => ~Conflict(t, u)
  BY DispatchKeepsClaimsExclusive DEF SafeOwners
<1>3. Alone(a \cup started)
  BY DispatchKeepsExclusiveAlone DEF SafeOwners
<1> QED BY <1>1, <1>2, <1>3 DEF SafeOwners

\* Owners stay safe when some of them leave.
LEMMA FewerOwnersAreSafe ==
  ASSUME NEW a \in SUBSET Task, NEW b \in SUBSET a, SafeOwners(a)
  PROVE  SafeOwners(b)
<1>1. Within(b)
  <2>1. /\ b \in SUBSET a
        /\ {t \in b : Heavy(t)} \in SUBSET {t \in a : Heavy(t)}
        /\ {t \in b : Mutation(t)} \in SUBSET {t \in a : Mutation(t)}
    OBVIOUS
  <2>2. \A A \in SUBSET Task : \A B \in SUBSET A :
           /\ Cardinality(A) \in Nat
           /\ Cardinality(B) \in Nat
           /\ Cardinality(B) <= Cardinality(A)
    BY TasksAreFinite, FS_Subset
  <2>3. /\ a \in SUBSET Task
        /\ {t \in a : Heavy(t)} \in SUBSET Task
        /\ {t \in a : Mutation(t)} \in SUBSET Task
    OBVIOUS
  <2>4. Within(a)
    BY DEF SafeOwners
  <2>5. Cardinality(b) <= TotalLimit
    BY <2>1, <2>2, <2>3, <2>4, LimitsAssumption DEF Within
  <2>6. Cardinality({t \in b : Heavy(t)}) <= HeavyLimit
    BY <2>1, <2>2, <2>3, <2>4, LimitsAssumption DEF Within
  <2>7. Cardinality({t \in b : Mutation(t)}) <= MutationLimit
    BY <2>1, <2>2, <2>3, <2>4, LimitsAssumption DEF Within
  <2> QED BY <2>5, <2>6, <2>7 DEF Within
<1> QED BY <1>1 DEF SafeOwners, Alone

\* The invariant: what TLC checks as three invariants, in one formula.
LEMMA SafeOwnersIsAll ==
  SafeOwners(active) <=> CapacityRespected /\ ClaimsExclusive /\ ExclusiveRunsAlone
  BY DEF SafeOwners, Within, Alone, CapacityRespected, ClaimsExclusive,
         ExclusiveRunsAlone

AdmissionInv ==
    /\ TypeOK
    /\ SafeOwners(active)
    /\ NoMissedDispatch

\* Admission predicates read no variable but spec, which no step changes: to
\* hold of the new owners in the next state is to hold of them in this one.
LEMMA NextOwners ==
  ASSUME spec' = spec
  PROVE  SafeOwners(active') <=> SafeOwners(active)'
<1>1. /\ {t \in active : Heavy(t)}' = {t \in active' : Heavy(t)}
      /\ {t \in active : Mutation(t)}' = {t \in active' : Mutation(t)}
  BY DEF Heavy, Mutation
<1>2. Within(active') <=> Within(active)'
  BY <1>1 DEF Within
<1>3. Alone(active') <=> Alone(active)'
  BY DEF Alone, Exclusive
<1>4. (\A t, u \in active' : t # u => ~Conflict(t, u)) <=>
         (\A t, u \in active : t # u => ~Conflict(t, u))'
  BY DEF Conflict
<1> QED BY <1>2, <1>3, <1>4 DEF SafeOwners

LEMMA NextRunnable ==
  ASSUME spec' = spec, \A t \in queue' : ~Runnable(t, queue', active')
  PROVE  NoMissedDispatch'
<1> SUFFICES ASSUME NEW t \in queue', Runnable(t, queue, active)' PROVE FALSE
  BY DEF NoMissedDispatch
<1>1. /\ {u \in active : Heavy(u)}' = {u \in active' : Heavy(u)}
      /\ {u \in active : Mutation(u)}' = {u \in active' : Mutation(u)}
  BY DEF Heavy, Mutation
<1>2. Older(t, queue)' = Older(t, queue')
  BY DEF Older
<1>3. HasCapacityFor(t, active)' => HasCapacityFor(t, active')
  BY <1>1 DEF HasCapacityFor, Heavy, Mutation, Exclusive
<1>4. ConflictsWithActive(t, active)' <=> ConflictsWithActive(t, active')
  BY DEF ConflictsWithActive, Conflict
<1>5. ConflictsWithOlderQueuedClaim(t, queue)' <=> ConflictsWithOlderQueuedClaim(t, queue')
  BY <1>2 DEF ConflictsWithOlderQueuedClaim, Conflict
<1> QED BY <1>2, <1>3, <1>4, <1>5 DEF Runnable, Exclusive

LEMMA AdmissionStep == AdmissionInv /\ [Next]_vars => AdmissionInv'
<1> SUFFICES ASSUME AdmissionInv, [Next]_vars PROVE AdmissionInv'
  OBVIOUS
<1>1. TypeOK'
  BY TypeInvariant DEF AdmissionInv
<1>2. spec' = spec
  BY StepAdmits DEF AdmissionInv
<1>3. CASE UNCHANGED <<queue, active>>
  <2>1. SafeOwners(active') /\ \A t \in queue' : ~Runnable(t, queue', active')
    BY <1>3 DEF AdmissionInv, NoMissedDispatch
  <2> QED BY <1>1, <1>2, <2>1, NextOwners, NextRunnable DEF AdmissionInv
<1>4. ASSUME NEW q \in SUBSET Task, NEW a \in SUBSET active,
             NEW started \in SUBSET q, Admits(q, a, started)
      PROVE  AdmissionInv'
  <2>1. a \in SUBSET Task /\ SafeOwners(a)
    BY FewerOwnersAreSafe DEF AdmissionInv, TypeOK
  <2>2. SafeOwners(active')
    BY <1>4, <2>1, DispatchKeepsOwnersSafe DEF Admits
  <2>3. \A t \in queue' : ~Runnable(t, queue', active')
    BY <1>4, <2>1, DispatchMissesNothing DEF Admits
  <2> QED BY <1>1, <1>2, <2>2, <2>3, NextOwners, NextRunnable DEF AdmissionInv
<1> QED BY <1>3, <1>4, StepAdmits DEF AdmissionInv

LEMMA AdmissionInitially == Init => AdmissionInv
<1> SUFFICES ASSUME Init PROVE AdmissionInv
  OBVIOUS
<1>1. queue = {} /\ active = {} /\ Cardinality({}) = 0
  BY FS_EmptySet DEF Init
<1>2. /\ {t \in active : Heavy(t)} = {}
      /\ {t \in active : Mutation(t)} = {}
  BY <1>1
<1>3. SafeOwners(active)
  BY <1>1, <1>2, LimitsAssumption DEF SafeOwners, Within, Alone
<1>4. NoMissedDispatch
  BY <1>1 DEF NoMissedDispatch
<1> QED BY <1>3, <1>4, TypeInitially DEF AdmissionInv

LEMMA AdmissionAlways == Spec => []AdmissionInv
  BY AdmissionInitially, AdmissionStep, PTL DEF Spec

\* The capacity limits hold over every unsettled runner.
THEOREM CapacityAlwaysRespected == Spec => []CapacityRespected
<1>1. AdmissionInv => CapacityRespected
  BY SafeOwnersIsAll DEF AdmissionInv
<1> QED BY <1>1, AdmissionAlways, PTL

\* Two tasks never own overlapping remote paths at once.
THEOREM ClaimsAlwaysExclusive == Spec => []ClaimsExclusive
<1>1. AdmissionInv => ClaimsExclusive
  BY SafeOwnersIsAll DEF AdmissionInv
<1> QED BY <1>1, AdmissionAlways, PTL

\* An exclusive task never overlaps another one.
THEOREM ExclusiveAlwaysAlone == Spec => []ExclusiveRunsAlone
<1>1. AdmissionInv => ExclusiveRunsAlone
  BY SafeOwnersIsAll DEF AdmissionInv
<1> QED BY <1>1, AdmissionAlways, PTL

\* Types, limits, claims and the exclusive barrier together.
THEOREM OwnersAlwaysSafe == Spec => []OwnersAreSafe
  BY TypeCorrect, CapacityAlwaysRespected, ClaimsAlwaysExclusive, ExclusiveAlwaysAlone, PTL
     DEF OwnersAreSafe

\* Between callbacks no queued task could be started.
THEOREM DispatchNeverMissed == Spec => []NoMissedDispatch
<1>1. AdmissionInv => NoMissedDispatch
  BY DEF AdmissionInv
<1> QED BY <1>1, AdmissionAlways, PTL

\* No task overtakes an older one on the same path tree, or an exclusive one.
THEOREM NeverOvertakes == Spec => NoOvertaking
<1>1. ASSUME TypeOK, [Next]_vars, NEW t \in active' \ active,
             NEW u \in queue', u < t
      PROVE  ~Conflict(t, u) /\ ~Exclusive(u)
  <2>1. PICK q \in SUBSET Task, a \in SUBSET active :
           \E started \in SUBSET q : Admits(q, a, started)
    BY <1>1, StepAdmits
  <2>2. PICK started \in SUBSET q : Admits(q, a, started)
    BY <2>1
  <2>3. t \in started /\ u \in q \ started /\ a \in SUBSET Task
    BY <1>1, <2>2 DEF Admits, TypeOK
  <2> QED BY <1>1, <2>2, <2>3, DispatchDoesNotOvertake DEF Admits
<1>2. TypeOK /\ [Next]_vars =>
         [\A t \in active' \ active : \A u \in queue' :
             u < t => ~Conflict(t, u) /\ ~Exclusive(u)]_vars
  BY <1>1
<1> QED BY <1>2, TypeCorrect, PTL DEF Spec, NoOvertaking

-----------------------------------------------------------------------------
(* The scheduler implements the table of path claims.                      *)

\* The instance reads the same specifications the same way.
LEMMA SameConflicts == \A t, u : Admission!Conflict(t, u) <=> Conflict(t, u)
  BY DEF Admission!Conflict, Admission!DoClaimSetsConflict,
         Admission!DoSftpTaskClaimsConflict, Admission!IsPrefix,
         Conflict, DoClaimSetsConflict, DoSftpTaskClaimsConflict, IsPrefix

LEMMA DispatchGrants ==
  ASSUME NEW q \in SUBSET Task, NEW a \in SUBSET Task, SafeOwners(a),
         NEW st, NEW rn, Dispatch(q, a, st, rn)
  PROVE  Admission!Grant(q, a)
<1>1. PICK started \in SUBSET q :
         /\ Dispatches(q, a, started)
         /\ queue' = q \ started
         /\ active' = a \cup started
  BY DEF Dispatch
<1>2. SafeOwners(active')
  BY <1>1, DispatchKeepsOwnersSafe
<1>3. Admission!Compatible(active')
  BY <1>2, SameConflicts DEF SafeOwners, Alone, Exclusive, Admission!Compatible
<1>4. \A t \in started : \A u \in queue' :
         u < t => ~Admission!Conflict(t, u) /\ ~spec[u].exclusive
  BY <1>1, SameConflicts, DispatchDoesNotOvertake DEF Exclusive
<1> QED BY <1>1, <1>3, <1>4 DEF Admission!Grant

LEMMA AdmissionSimulation ==
  AdmissionInv /\ [Next]_vars => [Admission!Next]_(Admission!vars)
<1> SUFFICES ASSUME AdmissionInv, [Next]_vars
             PROVE  Admission!Next \/ UNCHANGED <<spec, sequence, queue, active>>
  BY DEF Admission!vars
<1> USE DEF AdmissionInv
<1>1. ASSUME Schedule(TRUE) PROVE Admission!ArriveWithdrawn
  <2>1. \E st : Dispatch(queue, active, st, runner)
    BY <1>1 DEF Schedule
  <2>2. Admission!Grant(queue, active)
    BY <2>1, DispatchGrants DEF TypeOK
  <2> QED BY <1>1, <2>2 DEF Schedule, Admission!ArriveWithdrawn
<1>2. ASSUME Schedule(FALSE) PROVE Admission!Arrive
  <2>1. sequence' \in Task /\ sequence' = sequence + 1
    BY <1>2, LimitsAssumption DEF Schedule, TypeOK, Task
  <2>2. \E st : Dispatch(queue \cup {sequence'}, active, st, runner)
    BY <1>2 DEF Schedule
  <2>3. Admission!Grant(queue \cup {sequence'}, active)
    <3>1. queue \cup {sequence'} \in SUBSET Task
      BY <2>1 DEF TypeOK
    <3> QED BY <2>2, <3>1, DispatchGrants DEF TypeOK
  <2> QED BY <1>2, <2>1, <2>3 DEF Schedule, Admission!Arrive
<1>3. ASSUME NEW t \in Task, AbortSignal(t) \/ DeadlineWhileQueued(t)
      PROVE  Admission!Withdraw(queue \cap {t})
  <2>1. \E st : Dispatch(queue \ {t}, active, st, runner)
    BY <1>3 DEF AbortSignal, DeadlineWhileQueued
  <2>2. Admission!Grant(queue \ {t}, active)
    BY <2>1, DispatchGrants DEF TypeOK
  <2>3. queue \ {t} = queue \ (queue \cap {t})
    OBVIOUS
  <2> QED BY <1>3, <2>2, <2>3 DEF AbortSignal, DeadlineWhileQueued, Admission!Withdraw
<1>4. ASSUME CancelAll PROVE Admission!Withdraw(queue)
  <2>1. \E st : Dispatch({}, active, st, runner)
    BY <1>4 DEF CancelAll
  <2>2. Admission!Grant({}, active)
    BY <2>1, DispatchGrants DEF TypeOK
  <2>3. queue \ queue = {}
    OBVIOUS
  <2> QED BY <1>4, <2>2, <2>3 DEF CancelAll, Admission!Withdraw
<1>5. ASSUME NEW t \in Task, ReleaseRecord(t)
      PROVE  Admission!Release(t) \/ Admission!Withdraw({})
  <2>1. \E rn : Dispatch(queue, active \ {t}, state, rn)
    BY <1>5 DEF ReleaseRecord
  <2>2. SafeOwners(active \ {t}) /\ active \ {t} \in SUBSET Task
    BY FewerOwnersAreSafe DEF TypeOK
  <2>3. Admission!Grant(queue, active \ {t})
    BY <2>1, <2>2, DispatchGrants DEF TypeOK
  <2> QED BY <1>5, <2>3 DEF ReleaseRecord, Admission!Release
<1>6. CASE \/ \E t \in Task : ForgetTask(t) \/ DeadlineWhileRunning(t) \/ InvokeRunner(t)
           \/ \E w \in Waiter : WaitForIdle(w)
           \/ \E t \in Task, outcome \in RunOutcome : SettleRunner(t, outcome)
           \/ UNCHANGED vars
  BY <1>6 DEF ForgetTask, DeadlineWhileRunning, InvokeRunner, WaitForIdle,
              SettleRunner, vars
<1>7. ASSUME NEW t \in Task, ReleaseRecord(t) PROVE Admission!Next
  <2>1. CASE t \in active
    BY <1>5, <1>7, <2>1 DEF Admission!Next
  <2>2. CASE t \notin active
    <3>1. active \ {t} = active /\ queue \ {} = queue
      BY <2>2
    <3>2. Admission!Withdraw({})
      BY <1>5, <1>7, <3>1 DEF Admission!Release, Admission!Withdraw
    <3> QED BY <3>2 DEF Admission!Next
  <2> QED BY <2>1, <2>2
<1>8. ASSUME NEW aborted \in BOOLEAN, Schedule(aborted) PROVE Admission!Next
  <2>1. CASE aborted = TRUE
    BY <1>1, <1>8, <2>1 DEF Admission!Next
  <2>2. CASE aborted = FALSE
    BY <1>2, <1>8, <2>2 DEF Admission!Next
  <2> QED BY <2>1, <2>2
<1>9. ASSUME NEW t \in Task, AbortSignal(t) \/ DeadlineWhileQueued(t)
      PROVE  Admission!Next
  BY <1>3, <1>9 DEF Admission!Next
<1>10. ASSUME CancelAll PROVE Admission!Next
  BY <1>4, <1>10 DEF Admission!Next
<1> QED BY <1>6, <1>7, <1>8, <1>9, <1>10 DEF Next

\* Seen through its queue and its owners, the scheduler grants path claims in
\* order of arrival, whatever runners, timers and promises do.
THEOREM SchedulerImplementsAdmission == Spec => ImplementsAdmission
<1>1. Init => Admission!Init
  BY DEF Init, Task, Admission!Init
<1> QED BY <1>1, AdmissionAlways, AdmissionSimulation, PTL
        DEF Spec, ImplementsAdmission, Admission!Spec

-----------------------------------------------------------------------------
(* The records of the tasks.                                               *)

\* What is known of one task's record: whether it waits, runs, owns work or has
\* been released follows from its state and its runner, and an aborted mutation
\* is failed with an unknown outcome. Every variable a dispatch pass changes is a
\* parameter, so that the pass can start from a state of its own.
Record(t, seq, q, a, st, fl, rn, ab, rel) ==
    /\ t > seq <=> st[t] = "absent"
    /\ t \in q <=> st[t] = "queued"
    /\ t \in a <=> rn[t] \in {"admitted", "executing", "settled"}
    /\ st[t] \in {"absent", "queued"} => rn[t] = "idle"
    /\ st[t] = "running" => rn[t] \in {"admitted", "executing"}
    /\ st[t] \in {"absent", "queued", "running"} => ab[t] = "none"
    /\ t \in rel <=> st[t] \in TerminalState /\ t \notin a
    /\ ab[t] # "none" /\ Mutation(t) => st[t] = "failed" /\ fl[t].unknown

\* The inductive invariant behind RecordsAreSafe: every record is as above.
RecordInv ==
    \A t \in Task : Record(t, sequence, queue, active, state, failure, runner,
                            abortReason, released)

\* A dispatch pass keeps what is known of one record.
LEMMA DispatchKeepsRecord ==
  ASSUME NEW q \in SUBSET Task, NEW a \in SUBSET Task, NEW st, NEW rn, NEW t \in Task,
         NEW started \in SUBSET q,
         queue' = q \ started, active' = a \cup started,
         state'[t] = IF t \in started THEN "running" ELSE st[t],
         runner'[t] = IF t \in started THEN "admitted" ELSE rn[t],
         spec' = spec,
         Record(t, sequence', q, a, st, failure', rn, abortReason', released')
  PROVE  Record(t, sequence, queue, active, state, failure, runner, abortReason, released)'
<1>1. CASE t \in started
  BY <1>1 DEF Record, TerminalState, Mutation
<1>2. CASE t \notin started
  BY <1>2 DEF Record, Mutation
<1> QED
  BY <1>1, <1>2

\* Hence the pass at the end of a handler keeps it of all.
LEMMA DispatchKeepsRecords ==
  ASSUME NEW q \in SUBSET Task, NEW a \in SUBSET Task, NEW st, NEW rn, Dispatch(q, a, st, rn),
         spec' = spec,
         \A t \in Task : Record(t, sequence', q, a, st, failure', rn, abortReason', released')
  PROVE  RecordInv'
<1>1. PICK started \in SUBSET q :
         /\ queue' = q \ started /\ active' = a \cup started
         /\ state' = [t \in Task |-> IF t \in started THEN "running" ELSE st[t]]
         /\ runner' = [t \in Task |-> IF t \in started THEN "admitted" ELSE rn[t]]
  BY DEF Dispatch
<1>2. ASSUME NEW t \in Task
      PROVE  Record(t, sequence, queue, active, state, failure, runner, abortReason, released)'
  BY <1>1, DispatchKeepsRecord
<1> QED
  BY <1>2 DEF RecordInv, Task

\* Tasks are natural numbers.
LEMMA TaskNumbers ==
  /\ Task \subseteq Nat
  /\ \A t \in Task : t \in 1..MaxTasks
  BY LimitsAssumption DEF Task

\* Cancelling queued and running tasks keeps what is known of each record.
LEMMA CancelKeepsRecord ==
  ASSUME TypeOK, RecordInv, NEW C \in SUBSET {t \in Task : state[t] \in {"queued", "running"}},
         CancelRecords(C), spec' = spec, sequence' = sequence
  PROVE  \A t \in Task : Record(t, sequence', queue \ C, active, CancelledState(C), failure',
                                runner, abortReason', released')
<1> SUFFICES ASSUME NEW t \in Task
             PROVE  Record(t, sequence, queue \ C, active, CancelledState(C), failure',
                           runner, abortReason', released')
  OBVIOUS
<1>1. Record(t, sequence, queue, active, state, failure, runner, abortReason, released)
  BY DEF RecordInv
<1>2. /\ CancelledState(C)[t] = IF t \notin C THEN state[t]
                                ELSE IF t \in active /\ Mutation(t) THEN "failed" ELSE "cancelled"
      /\ failure'[t] = IF t \in C /\ t \in active /\ Mutation(t)
                       THEN [code |-> "task", unknown |-> TRUE] ELSE failure[t]
      /\ abortReason'[t] = IF t \in C /\ t \in active THEN "cancelled" ELSE abortReason[t]
      /\ released' = released \cup (C \ active)
  BY DEF CancelledState, CancelRecords
<1>3. CASE t \notin C
  BY <1>1, <1>2, <1>3 DEF Record
<1>4. CASE t \in C /\ t \notin active
  BY <1>1, <1>2, <1>4 DEF Record, TerminalState
<1>5. CASE t \in C /\ t \in active /\ ~Mutation(t)
  BY <1>1, <1>2, <1>5 DEF Record, TerminalState
<1>6. CASE t \in C /\ t \in active /\ Mutation(t)
  BY <1>1, <1>2, <1>6 DEF Record, TerminalState
<1> QED
  BY <1>3, <1>4, <1>5, <1>6

\* Every handler, with the dispatch pass at its end, keeps the records.
LEMMA RecordStep == TypeOK /\ RecordInv /\ [Next]_vars => RecordInv'
<1> SUFFICES ASSUME TypeOK, RecordInv, [Next]_vars PROVE RecordInv'
  OBVIOUS
<1> DEFINE R(t) == Record(t, sequence, queue, active, state, failure, runner, abortReason, released)
<1>1. ASSUME NEW aborted \in BOOLEAN, Schedule(aborted) PROVE RecordInv'
  <2> DEFINE n == sequence + 1
             q == IF aborted THEN queue ELSE queue \cup {n}
             st == [state EXCEPT ![n] = IF aborted THEN "cancelled" ELSE "queued"]
  <2>1. /\ n \in Task /\ sequence' = n /\ spec' = spec /\ UNCHANGED <<failure, abortReason>>
        /\ released' = IF aborted THEN released \cup {n} ELSE released
        /\ Dispatch(q, active, st, runner)
    BY <1>1, LimitsAssumption DEF Schedule, TypeOK, Task
  <2>2. q \in SUBSET Task /\ active \in SUBSET Task
    BY <2>1 DEF TypeOK
  <2>3. ASSUME NEW t \in Task
        PROVE  Record(t, sequence', q, active, st, failure', runner, abortReason', released')
    <3>1. R(t)
      BY DEF RecordInv
    <3>2. CASE t = n
      <4>1. st[t] = IF aborted THEN "cancelled" ELSE "queued"
        BY <2>1, <3>2 DEF TypeOK
      <4>2. state[t] = "absent"
        BY <3>1, <3>2 DEF Record, TypeOK
      <4> QED
        BY <2>1, <3>1, <3>2, <4>1, <4>2 DEF Record, TerminalState
    <3>3. CASE t # n
      <4>1. st[t] = state[t]
        BY <3>3 DEF TypeOK
      <4>2. t > sequence' <=> t > sequence
        BY <2>1, <3>3, TaskNumbers DEF TypeOK
      <4>3. (t \in q <=> t \in queue) /\ (t \in released' <=> t \in released)
        BY <2>1, <3>3
      <4> QED
        BY <2>1, <3>1, <4>1, <4>2, <4>3 DEF Record
    <3> QED
      BY <3>2, <3>3
  <2> HIDE DEF n, q, st
  <2> QED
    BY <2>1, <2>2, <2>3, DispatchKeepsRecords
<1>2. ASSUME NEW C \in SUBSET {t \in Task : state[t] \in {"queued", "running"}}, CancelRecords(C),
             Dispatch(queue \ C, active, CancelledState(C), runner), UNCHANGED <<spec, sequence>>
      PROVE  RecordInv'
  <2>1. \A t \in Task : Record(t, sequence', queue \ C, active, CancelledState(C), failure',
                               runner, abortReason', released')
    BY <1>2, CancelKeepsRecord
  <2> QED
    BY <1>2, <2>1, DispatchKeepsRecords DEF TypeOK
<1>3. ASSUME NEW t \in Task, AbortSignal(t) PROVE RecordInv'
  BY <1>2, <1>3 DEF AbortSignal
<1>4. ASSUME CancelAll PROVE RecordInv'
  <2> DEFINE live == {t \in Task : state[t] \in {"queued", "running"}}
  <2>1. queue \ live = {}
    BY DEF TypeOK, RecordInv, Record
  <2> QED
    BY <1>2, <1>4, <2>1 DEF CancelAll
<1>5. ASSUME NEW n \in Task, DeadlineWhileQueued(n) PROVE RecordInv'
  <2> DEFINE st == [state EXCEPT ![n] = "failed"]
  <2>1. /\ state[n] = "queued" /\ UNCHANGED <<spec, sequence, abortReason>>
        /\ released' = released \cup {n}
        /\ \A t \in Task : t # n => failure'[t] = failure[t] /\ st[t] = state[t]
        /\ st[n] = "failed"
        /\ Dispatch(queue \ {n}, active, st, runner)
    BY <1>5 DEF DeadlineWhileQueued, TypeOK
  <2>2. ASSUME NEW t \in Task
        PROVE  Record(t, sequence', queue \ {n}, active, st, failure', runner,
                      abortReason', released')
    <3>1. R(t)
      BY DEF RecordInv
    <3>2. CASE t = n
      BY <2>1, <3>1, <3>2 DEF Record, TerminalState
    <3>3. CASE t # n
      BY <2>1, <3>1, <3>3 DEF Record
    <3> QED
      BY <3>2, <3>3
  <2> HIDE DEF st
  <2> QED
    BY <2>1, <2>2, DispatchKeepsRecords DEF TypeOK
<1>6. ASSUME NEW n \in Task, ReleaseRecord(n) PROVE RecordInv'
  <2> DEFINE rn == [runner EXCEPT ![n] = "done"]
  <2>1. /\ runner[n] = "settled" /\ UNCHANGED <<spec, sequence, failure, abortReason>>
        /\ released' = released \cup {n}
        /\ \A t \in Task : t # n => rn[t] = runner[t]
        /\ rn[n] = "done"
        /\ Dispatch(queue, active \ {n}, state, rn)
    BY <1>6 DEF ReleaseRecord, TypeOK
  <2>2. ASSUME NEW t \in Task
        PROVE  Record(t, sequence', queue, active \ {n}, state, failure', rn,
                      abortReason', released')
    <3>1. R(t)
      BY DEF RecordInv
    <3>2. CASE t = n
      <4>1. state[t] \in TerminalState
        BY <2>1, <3>1, <3>2 DEF Record, TypeOK, TaskState
      <4> QED
        BY <2>1, <3>1, <3>2, <4>1 DEF Record, TerminalState
    <3>3. CASE t # n
      BY <2>1, <3>1, <3>3 DEF Record
    <3> QED
      BY <3>2, <3>3
  <2> HIDE DEF rn
  <2> QED
    BY <2>1, <2>2, DispatchKeepsRecords DEF TypeOK
<1>7. ASSUME NEW n \in Task, DeadlineWhileRunning(n) PROVE RecordInv'
  <2>1. /\ state[n] = "running" /\ UNCHANGED <<spec, sequence, queue, active, runner, released>>
        /\ \A t \in Task : t # n => /\ failure'[t] = failure[t] /\ state'[t] = state[t]
                                    /\ abortReason'[t] = abortReason[t]
        /\ state'[n] = "failed" /\ (Mutation(n) => failure'[n].unknown)
    BY <1>7 DEF DeadlineWhileRunning, TypeOK
  <2>2. ASSUME NEW t \in Task PROVE R(t)'
    <3>1. R(t)
      BY DEF RecordInv
    <3>2. CASE t = n
      BY <2>1, <3>1, <3>2 DEF Record, TerminalState, Mutation
    <3>3. CASE t # n
      BY <2>1, <3>1, <3>3 DEF Record, Mutation
    <3> QED
      BY <3>2, <3>3
  <2> QED
    BY <2>2 DEF RecordInv, Task
<1>8. ASSUME NEW n \in Task, InvokeRunner(n) PROVE RecordInv'
  <2>1. /\ runner[n] = "admitted"
        /\ UNCHANGED <<spec, sequence, queue, active, state, failure, abortReason, released>>
        /\ \A t \in Task : t # n => runner'[t] = runner[t]
        /\ runner'[n] = IF state[n] = "running" THEN "executing" ELSE "settled"
    BY <1>8 DEF InvokeRunner, TypeOK
  <2>2. ASSUME NEW t \in Task PROVE R(t)'
    <3>1. R(t)
      BY DEF RecordInv
    <3>2. CASE t = n
      BY <2>1, <3>1, <3>2 DEF Record, Mutation
    <3>3. CASE t # n
      BY <2>1, <3>1, <3>3 DEF Record, Mutation
    <3> QED
      BY <3>2, <3>3
  <2> QED
    BY <2>2 DEF RecordInv, Task
<1>9. ASSUME NEW n \in Task, NEW outcome \in RunOutcome, SettleRunner(n, outcome)
      PROVE  RecordInv'
  <2>1. /\ runner[n] = "executing"
        /\ UNCHANGED <<spec, sequence, queue, active, abortReason, released>>
        /\ \A t \in Task : t # n => /\ runner'[t] = runner[t] /\ state'[t] = state[t]
                                    /\ failure'[t] = failure[t]
        /\ runner'[n] = "settled"
    BY <1>9 DEF SettleRunner, TypeOK
  <2>2. outcome.state \in TerminalState
    BY DEF RunOutcome, TerminalState
  <2>3. IF state[n] = "running" THEN state'[n] = outcome.state
        ELSE state'[n] = state[n] /\ failure'[n] = failure[n]
    BY <1>9 DEF SettleRunner, TypeOK
  <2>4. ASSUME NEW t \in Task PROVE R(t)'
    <3>1. R(t)
      BY DEF RecordInv
    <3>2. CASE t = n /\ state[n] = "running"
      BY <2>1, <2>2, <2>3, <3>1, <3>2 DEF Record, Mutation, TerminalState
    <3>3. CASE t = n /\ state[n] # "running"
      BY <2>1, <2>3, <3>1, <3>3 DEF Record, Mutation
    <3>4. CASE t # n
      BY <2>1, <3>1, <3>4 DEF Record, Mutation
    <3> QED
      BY <3>2, <3>3, <3>4
  <2> QED
    BY <2>4 DEF RecordInv, Task
<1>10. CASE (\E t \in Task : ForgetTask(t)) \/ (\E w \in Waiter : WaitForIdle(w)) \/ UNCHANGED vars
  <2>1. UNCHANGED <<spec, sequence, queue, active, state, failure, runner, abortReason, released>>
    BY <1>10 DEF ForgetTask, WaitForIdle, vars
  <2> QED
    BY <2>1 DEF RecordInv, Record, Task, Mutation
<1> QED
  BY <1>1, <1>3, <1>4, <1>5, <1>6, <1>7, <1>8, <1>9, <1>10 DEF Next

\* A new scheduler has no records.
LEMMA RecordsInitially == Init => RecordInv
<1> SUFFICES ASSUME Init, NEW t \in Task
             PROVE  Record(t, sequence, queue, active, state, failure, runner,
                           abortReason, released)
  BY DEF RecordInv
<1>1. t > sequence
  BY TaskNumbers DEF Init, Task
<1> QED
  BY <1>1 DEF Init, Record, TerminalState

\* The records are as described throughout.
LEMMA RecordsAlways == Spec => [](TypeOK /\ RecordInv)
  BY TypeInitially, TypeInvariant, RecordsInitially, RecordStep, PTL DEF Spec

\* An aborted mutation is reported failed with an unknown outcome, and a task is
\* released exactly when it is terminal and owns nothing, however late its runner
\* settles (finishRecord, resolveReleased, cancelRecord).
THEOREM RecordsAlwaysSafe == Spec => []RecordsAreSafe
<1>1. TypeOK /\ RecordInv => RecordsAreSafe
  <2> SUFFICES ASSUME TypeOK, RecordInv PROVE RecordsAreSafe
    OBVIOUS
  <2>1. AbortedMutationIsUnknown
    BY DEF RecordInv, Record, AbortedMutationIsUnknown
  <2>2. ReleasedMeansOwnershipOver
    <3>1. 1..sequence \subseteq Task
      BY LimitsAssumption DEF TypeOK, Task
    <3> QED
      BY <3>1 DEF RecordInv, Record, ReleasedMeansOwnershipOver, IsTerminalState
  <2> QED
    BY <2>1, <2>2 DEF RecordsAreSafe
<1> QED
  BY <1>1, RecordsAlways, PTL

-----------------------------------------------------------------------------
(* Action properties.                                                      *)

\* A dispatch pass leaves every task alone that does not wait in its queue.
LEMMA DispatchOnlyStartsQueued ==
  ASSUME NEW q \in SUBSET Task, NEW a \in SUBSET Task, NEW st, NEW rn, Dispatch(q, a, st, rn),
         NEW t \in Task \ q
  PROVE  state'[t] = st[t] /\ runner'[t] = rn[t]
<1>1. PICK started \in SUBSET q :
         /\ state' = [u \in Task |-> IF u \in started THEN "running" ELSE st[u]]
         /\ runner' = [u \in Task |-> IF u \in started THEN "admitted" ELSE rn[u]]
  BY DEF Dispatch
<1> QED
  BY <1>1

\* A dispatch pass admits runners; it invokes none.
LEMMA DispatchNeverExecutes ==
  ASSUME NEW q \in SUBSET Task, NEW a \in SUBSET Task, NEW st, NEW rn, Dispatch(q, a, st, rn),
         NEW t \in Task, rn[t] # "executing"
  PROVE  runner'[t] # "executing"
<1>1. PICK started \in SUBSET q :
         runner' = [u \in Task |-> IF u \in started THEN "admitted" ELSE rn[u]]
  BY DEF Dispatch
<1> QED
  BY <1>1

\* No step changes the report of a task that has ended.
LEMMA TerminalStep ==
  ASSUME TypeOK, RecordInv, [Next]_vars, NEW t \in Task, IsTerminalState(t)
  PROVE  state'[t] = state[t] /\ failure'[t] = failure[t]
<1>0. t \notin queue /\ state[t] \notin {"absent", "queued", "running"} /\ t <= sequence
  BY TaskNumbers DEF RecordInv, Record, IsTerminalState, TerminalState, TypeOK
<1>1. ASSUME NEW aborted \in BOOLEAN, Schedule(aborted)
      PROVE  state'[t] = state[t] /\ failure' = failure
  <2> DEFINE n == sequence + 1
             q == IF aborted THEN queue ELSE queue \cup {n}
             st == [state EXCEPT ![n] = IF aborted THEN "cancelled" ELSE "queued"]
  <2>1. n \in Task /\ Dispatch(q, active, st, runner) /\ failure' = failure
    BY <1>1, LimitsAssumption DEF Schedule, TypeOK, Task
  <2>2. t # n
    BY <1>0, TaskNumbers DEF TypeOK
  <2>3. st[t] = state[t] /\ t \notin q /\ q \in SUBSET Task /\ active \in SUBSET Task
    BY <1>0, <2>1, <2>2 DEF TypeOK
  <2> HIDE DEF n, q, st
  <2> QED
    BY <2>1, <2>3, DispatchOnlyStartsQueued
<1>2. ASSUME NEW C \in SUBSET {u \in Task : state[u] \in {"queued", "running"}}, CancelRecords(C),
             Dispatch(queue \ C, active, CancelledState(C), runner)
      PROVE  state'[t] = state[t] /\ failure'[t] = failure[t]
  <2>1. t \notin C
    BY <1>0
  <2>2. CancelledState(C)[t] = state[t] /\ failure'[t] = failure[t]
    BY <1>2, <2>1 DEF CancelledState, CancelRecords
  <2>3. queue \ C \in SUBSET Task /\ active \in SUBSET Task /\ t \in Task \ (queue \ C)
    BY <1>0 DEF TypeOK
  <2>4. state'[t] = CancelledState(C)[t]
    BY <1>2, <2>3, DispatchOnlyStartsQueued
  <2> QED
    BY <2>2, <2>4
<1>3. ASSUME NEW n \in Task, AbortSignal(n)
      PROVE  state'[t] = state[t] /\ failure'[t] = failure[t]
  BY <1>2, <1>3 DEF AbortSignal
<1>4. ASSUME CancelAll PROVE state'[t] = state[t] /\ failure'[t] = failure[t]
  <2> DEFINE live == {u \in Task : state[u] \in {"queued", "running"}}
  <2>1. queue \ live = {}
    BY DEF TypeOK, RecordInv, Record
  <2> QED
    BY <1>2, <1>4, <2>1 DEF CancelAll
<1>5. ASSUME NEW n \in Task, DeadlineWhileQueued(n)
      PROVE  state'[t] = state[t] /\ failure'[t] = failure[t]
  <2> DEFINE st == [state EXCEPT ![n] = "failed"]
  <2>1. t # n /\ Dispatch(queue \ {n}, active, st, runner)
    BY <1>0, <1>5 DEF DeadlineWhileQueued
  <2>2. st[t] = state[t] /\ failure'[t] = failure[t]
    BY <1>5, <2>1 DEF DeadlineWhileQueued, TypeOK
  <2> HIDE DEF st
  <2> QED
    BY <1>0, <2>1, <2>2, DispatchOnlyStartsQueued DEF TypeOK
<1>6. ASSUME NEW n \in Task, ReleaseRecord(n)
      PROVE  state'[t] = state[t] /\ failure' = failure
  <2> DEFINE rn == [runner EXCEPT ![n] = "done"]
  <2>1. Dispatch(queue, active \ {n}, state, rn) /\ failure' = failure
    BY <1>6 DEF ReleaseRecord
  <2> HIDE DEF rn
  <2> QED
    BY <1>0, <2>1, DispatchOnlyStartsQueued DEF TypeOK
<1>7. ASSUME NEW n \in Task, DeadlineWhileRunning(n)
      PROVE  state'[t] = state[t] /\ failure'[t] = failure[t]
  BY <1>0, <1>7 DEF DeadlineWhileRunning, TypeOK
<1>8. ASSUME NEW n \in Task, NEW outcome \in RunOutcome, SettleRunner(n, outcome)
      PROVE  state'[t] = state[t] /\ failure'[t] = failure[t]
  BY <1>0, <1>8 DEF SettleRunner, TypeOK
<1>9. CASE \/ \E u \in Task : ForgetTask(u) \/ InvokeRunner(u)
           \/ \E w \in Waiter : WaitForIdle(w)
           \/ UNCHANGED vars
  BY <1>9 DEF ForgetTask, InvokeRunner, WaitForIdle, vars
<1> QED
  BY <1>1, <1>3, <1>4, <1>5, <1>6, <1>7, <1>8, <1>9 DEF Next

\* Remote work begins for a running task that nobody has aborted.
LEMMA ExecutionStep ==
  ASSUME TypeOK, RecordInv, [Next]_vars, NEW t \in Task,
         runner[t] # "executing", runner'[t] = "executing"
  PROVE  abortReason[t] = "none" /\ state[t] = "running"
<1>1. ASSUME NEW q \in SUBSET Task, NEW a \in SUBSET Task, NEW st, Dispatch(q, a, st, runner)
      PROVE  FALSE
  BY <1>1, DispatchNeverExecutes
<1>2. ASSUME NEW aborted \in BOOLEAN, Schedule(aborted) PROVE FALSE
  <2> DEFINE n == sequence + 1
             q == IF aborted THEN queue ELSE queue \cup {n}
             st == [state EXCEPT ![n] = IF aborted THEN "cancelled" ELSE "queued"]
  <2>1. n \in Task /\ Dispatch(q, active, st, runner)
    BY <1>2, LimitsAssumption DEF Schedule, TypeOK, Task
  <2>2. q \in SUBSET Task /\ active \in SUBSET Task
    BY <2>1 DEF TypeOK
  <2> HIDE DEF n, q, st
  <2> QED
    BY <1>1, <2>1, <2>2
<1>3. CASE (\E n \in Task : AbortSignal(n) \/ DeadlineWhileQueued(n)) \/ CancelAll
  <2>1. PICK C \in SUBSET Task : \E st : \/ Dispatch(queue \ C, active, st, runner)
                                        \/ Dispatch({}, active, st, runner)
    BY <1>3 DEF AbortSignal, DeadlineWhileQueued, CancelAll
  <2> QED
    BY <1>1, <2>1 DEF TypeOK
<1>4. ASSUME NEW n \in Task, ReleaseRecord(n) PROVE FALSE
  <2> DEFINE rn == [runner EXCEPT ![n] = "done"]
  <2>1. Dispatch(queue, active \ {n}, state, rn)
    BY <1>4 DEF ReleaseRecord
  <2>2. rn[t] # "executing"
    BY DEF TypeOK
  <2> HIDE DEF rn
  <2> QED
    BY <2>1, <2>2, DispatchNeverExecutes DEF TypeOK
<1>5. ASSUME NEW n \in Task, NEW outcome \in RunOutcome, SettleRunner(n, outcome)
      PROVE  FALSE
  BY <1>5 DEF SettleRunner, TypeOK
<1>6. ASSUME NEW n \in Task, InvokeRunner(n)
      PROVE  abortReason[t] = "none" /\ state[t] = "running"
  <2>1. t = n /\ state[t] = "running"
    BY <1>6 DEF InvokeRunner, TypeOK
  <2> QED
    BY <2>1 DEF RecordInv, Record
<1>7. CASE \/ \E u \in Task : ForgetTask(u) \/ DeadlineWhileRunning(u)
           \/ \E w \in Waiter : WaitForIdle(w)
           \/ UNCHANGED vars
  BY <1>7 DEF ForgetTask, DeadlineWhileRunning, WaitForIdle, vars
<1> QED
  BY <1>2, <1>3, <1>4, <1>5, <1>6, <1>7 DEF Next

\* The first report of a task is its last, and a task cancelled between its
\* admission and its first microtask never runs (finishRecord, startRecord).
THEOREM EndedTasksAlwaysStayEnded == Spec => EndedTasksStayEnded
<1>1. TypeOK /\ RecordInv /\ [Next]_vars =>
         [\A t \in Task : IsTerminalState(t)
             => state'[t] = state[t] /\ failure'[t] = failure[t]]_vars
  BY TerminalStep
<1>2. TypeOK /\ RecordInv /\ [Next]_vars =>
         [\A t \in Task : runner[t] # "executing" /\ runner'[t] = "executing"
             => abortReason[t] = "none" /\ state[t] = "running"]_vars
  BY ExecutionStep
<1>3. Spec => TerminalIsFinal
  BY <1>1, RecordsAlways, PTL DEF Spec, TerminalIsFinal
<1>4. Spec => NoWorkAfterCancellation
  BY <1>2, RecordsAlways, PTL DEF Spec, NoWorkAfterCancellation
<1> QED
  BY <1>3, <1>4 DEF EndedTasksStayEnded
=============================================================================
