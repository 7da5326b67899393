------------------------- MODULE SshSessionProofs ---------------------------
(***************************************************************************)
(* Proofs about terminal sessions, local and SSH: the inductive invariant, *)
(* and that the stream of frames is safe, in order, and free of events     *)
(* that are not trusted. What is recursive in the model (what is kept of a *)
(* queue, the replay) is a recursive function; that it is right at every   *)
(* place is shown by the least place where it would not be.                *)
(***************************************************************************)
EXTENDS SshSession, FiniteSetTheorems, WellFoundedInduction, TLAPS

-----------------------------------------------------------------------------
(* Queues of frames.                                                       *)

\* Frames are numbered between the two control frames, the caps are positive,
\* and nobody is no client.
LEMMA Numbers ==
    /\ MaxOutput \in Nat /\ Output \subseteq Nat /\ 0 \notin Output /\ Ready = 0 /\ Exit = MaxOutput + 1
    /\ Ready \notin Output /\ Exit \notin Output /\ Heavy \subseteq Output
    /\ \A f \in Output : Ready < f /\ f < Exit
    /\ PendingMaxChunks \in Nat \ {0} /\ PendingMaxBytes \in Nat \ {0} /\ None \notin Client
  BY TerminalAssumption DEF Output, Ready, Exit

\* A set of numbers that is not empty has a least one: what is recursive is
\* followed up to the first place where it would go wrong.
LEMMA Least ==
  ASSUME NEW T, T \subseteq Nat, T # {}
  PROVE  \E n \in T : \A t \in T : n <= t
<1> DEFINE below(t) == 0..t
           segments == {below(t) : t \in T}
<1>1. segments \subseteq FiniteSubsetsOf(Nat) /\ segments # {}
  <2>1. \A t \in T : IsFiniteSet(below(t)) /\ below(t) \in SUBSET Nat
    BY FS_Interval
  <2>2. \A t \in T : below(t) \in FiniteSubsetsOf(Nat)
    BY <2>1 DEF FiniteSubsetsOf
  <2> QED
    BY <2>2
<1>2. PICK least \in segments : \A s \in segments : <<s, least>> \notin StrictSubsetOrdering(Nat)
  <2> HIDE DEF segments
  <2> QED
    BY <1>1, FS_StrictSubsetOrderingWellFounded, WFMin
<1>3. PICK n \in T : least = below(n)
  OBVIOUS
<1>4. ASSUME NEW t \in T, t < n PROVE FALSE
  <2>1. below(t) \subseteq below(n) /\ n \in below(n) /\ n \notin below(t) /\ below(n) \subseteq Nat
    BY <1>4
  <2>2. <<below(t), below(n)>> \in StrictSubsetOrdering(Nat)
    BY <2>1 DEF StrictSubsetOrdering
  <2> QED
    BY <1>2, <1>3, <2>2
<1> QED
  BY <1>4

\* A queue whose numbers grow.
Grows(q) == \A i, j \in 1..Len(q) : i < j => q[i] < q[j]

\* The recursion of Only, as a property of the function it defines.
KeptTo(g, queue, keep, n) ==
    g = [i \in 0..n |-> IF i = 0 THEN << >>
                        ELSE IF queue[i] \in keep THEN Append(g[i - 1], queue[i]) ELSE g[i - 1]]

\* There is such a function, for a queue of any length.
LEMMA KeptExists ==
  ASSUME NEW queue, NEW keep, NEW N \in Nat
  PROVE  \E g : KeptTo(g, queue, keep, N)
<1> DEFINE Bad == {n \in 0..N : ~\E g : KeptTo(g, queue, keep, n)}
<1>1. SUFFICES ASSUME Bad # {} PROVE FALSE
  <2>1. N \in 0..N
    OBVIOUS
  <2> QED
    BY <2>1
<1>2. PICK n \in Bad : \A t \in Bad : n <= t
  <2>1. Bad \subseteq Nat
    OBVIOUS
  <2> HIDE DEF Bad
  <2> QED
    BY <1>1, <2>1, Least
<1>3. n \in Nat /\ n \in 0..N
  OBVIOUS
<1>4. n # 0
  <2> DEFINE g == [i \in 0..0 |-> << >>]
  <2>1. KeptTo(g, queue, keep, 0)
    BY DEF KeptTo
  <2> QED
    BY <2>1
<1>5. n - 1 \notin Bad /\ n - 1 \in 0..N
  <2>1. n - 1 \in 0..N /\ ~(n <= n - 1)
    BY <1>3, <1>4
  <2> HIDE DEF Bad
  <2> QED
    BY <1>2, <2>1
<1>6. PICK g : KeptTo(g, queue, keep, n - 1)
  BY <1>5
<1> DEFINE h == [i \in 0..n |-> IF i < n THEN g[i]
                                ELSE IF queue[n] \in keep THEN Append(g[n - 1], queue[n]) ELSE g[n - 1]]
<1>7. \A i \in 0..(n - 1) : g[i] = IF i = 0 THEN << >>
                        ELSE IF queue[i] \in keep THEN Append(g[i - 1], queue[i]) ELSE g[i - 1]
  BY <1>6 DEF KeptTo
<1>8. \A i \in 0..n : h[i] = IF i = 0 THEN << >>
                        ELSE IF queue[i] \in keep THEN Append(h[i - 1], queue[i]) ELSE h[i - 1]
  <2>1. \A i \in 0..n : i = n \/ i \in 0..(n - 1)
    BY <1>3
  <2>2. \A i \in 0..(n - 1) : h[i] = g[i]
    BY <1>3
  <2>3. \A i \in 0..n : i # 0 => i - 1 \in 0..(n - 1)
    BY <1>3
  <2>4. h[n] = IF queue[n] \in keep THEN Append(g[n - 1], queue[n]) ELSE g[n - 1]
    BY <1>3
  <2> HIDE DEF h
  <2> QED
    BY <1>3, <1>4, <1>7, <2>1, <2>2, <2>3, <2>4
<1>9. h = [i \in 0..n |-> h[i]]
  OBVIOUS
<1> HIDE DEF h
<1>10. KeptTo(h, queue, keep, n)
  BY <1>8, <1>9 DEF KeptTo
<1> QED
  BY <1>2, <1>10

\* Only is the end of a function that takes one frame at a time.
LEMMA OnlyUnfolds ==
  ASSUME NEW queue \in Seq(Output), NEW keep
  PROVE  \E g : /\ g[0] = << >> /\ g[Len(queue)] = Only(queue, keep)
                /\ \A i \in 1..Len(queue) : g[i] = IF queue[i] \in keep THEN Append(g[i - 1], queue[i]) ELSE g[i - 1]
<1> DEFINE g == CHOOSE g : g = [i \in 0..Len(queue) |-> IF i = 0 THEN << >>
                        ELSE IF queue[i] \in keep THEN Append(g[i - 1], queue[i]) ELSE g[i - 1]]
<1>1. Only(queue, keep) = g[Len(queue)]
  BY DEF Only
<1>2. KeptTo(g, queue, keep, Len(queue))
  <2>1. Len(queue) \in Nat
    OBVIOUS
  <2>2. \E f : KeptTo(f, queue, keep, Len(queue))
    BY <2>1, KeptExists
  <2> QED
    BY <2>2 DEF KeptTo
<1> HIDE DEF g
<1>3. \A i \in 0..Len(queue) : g[i] = IF i = 0 THEN << >>
                        ELSE IF queue[i] \in keep THEN Append(g[i - 1], queue[i]) ELSE g[i - 1]
  BY <1>2 DEF KeptTo
<1>4. g[0] = << >>
  BY <1>3
<1>5. \A i \in 1..Len(queue) : g[i] = IF queue[i] \in keep THEN Append(g[i - 1], queue[i]) ELSE g[i - 1]
  BY <1>3
<1> QED
  BY <1>1, <1>4, <1>5

\* What is in a queue.
LEMMA InRange == ASSUME NEW S, NEW q \in Seq(S)
  PROVE  /\ Range(q) \subseteq S
         /\ \A x : x \in Range(q) <=> \E i \in 1..Len(q) : q[i] = x
  BY DEF Range

\* What is in a queue with one more.
LEMMA Appended ==
  ASSUME NEW S, NEW q \in Seq(S), NEW x \in S
  PROVE  /\ Append(q, x) \in Seq(S) /\ Len(Append(q, x)) = Len(q) + 1 /\ Len(q) \in Nat
         /\ \A i \in 1..Len(q) : Append(q, x)[i] = q[i]
         /\ Append(q, x)[Len(q) + 1] = x
         /\ \A i \in 1..(Len(q) + 1) : i \in 1..Len(q) \/ i = Len(q) + 1
         /\ Range(Append(q, x)) = Range(q) \cup {x}
<1>1. /\ Append(q, x) \in Seq(S) /\ Len(Append(q, x)) = Len(q) + 1 /\ Len(q) \in Nat
      /\ \A i \in 1..Len(q) : Append(q, x)[i] = q[i]
      /\ Append(q, x)[Len(q) + 1] = x
      /\ \A i \in 1..(Len(q) + 1) : i \in 1..Len(q) \/ i = Len(q) + 1
  OBVIOUS
<1>2. \A y : y \in Range(Append(q, x)) <=> y \in Range(q) \/ y = x
  <2>1. \A y : y \in Range(q) <=> \E i \in 1..Len(q) : q[i] = y
    BY InRange
  <2>2. \A y : y \in Range(Append(q, x)) <=> \E i \in 1..(Len(q) + 1) : Append(q, x)[i] = y
    <3> DEFINE p == Append(q, x)
    <3>1. p \in Seq(S) /\ Len(p) = Len(q) + 1
      BY <1>1
    <3> HIDE DEF p
    <3>2. \A y : y \in Range(p) <=> \E i \in 1..Len(p) : p[i] = y
      BY <3>1, InRange
    <3>3. \A y : y \in Range(p) <=> \E i \in 1..(Len(q) + 1) : p[i] = y
      BY <3>1, <3>2
    <3> QED
      BY <3>3 DEF p
  <2>3. \A i \in 1..Len(q) : i \in 1..(Len(q) + 1)
    BY <1>1
  <2>4. Len(q) + 1 \in 1..(Len(q) + 1)
    BY <1>1
  <2> QED
    BY <1>1, <2>1, <2>2, <2>3, <2>4
<1> QED
  BY <1>1, <1>2

\* A queue still grows when something greater than all of it is appended.
LEMMA AppendGrows ==
  ASSUME NEW S, S \subseteq Nat, NEW q \in Seq(S), NEW x \in S, Grows(q),
         \A y \in Range(q) : y < x
  PROVE  Grows(Append(q, x))
<1>1. \A i \in 1..Len(q) : q[i] \in Range(q)
  BY InRange
<1>2. ASSUME NEW i \in 1..(Len(q) + 1), NEW j \in 1..(Len(q) + 1), i < j
      PROVE  Append(q, x)[i] < Append(q, x)[j]
  <2>1. i \in 1..Len(q)
    BY <1>2, Appended
  <2>2. CASE j \in 1..Len(q)
    BY <1>2, <2>1, <2>2, Appended DEF Grows
  <2>3. CASE j = Len(q) + 1
    BY <1>1, <2>1, <2>3, Appended
  <2> QED
    BY <2>2, <2>3, Appended
<1>3. Len(Append(q, x)) = Len(q) + 1
  BY Appended
<1> QED
  BY <1>2, <1>3 DEF Grows

\* The empty queue.
LEMMA RangeOfNothing == Range(<< >>) = {} /\ << >> \in Seq(Output) /\ Len(<< >>) = 0 /\ Grows(<< >>)
<1>1. \A i \in DOMAIN << >> : FALSE
  OBVIOUS
<1>2. << >> \in Seq(Output) /\ Len(<< >>) = 0
  OBVIOUS
<1> QED
  BY <1>1, <1>2 DEF Range, Grows

\* What discardPendingRemoteShellEventFrames and flushPendingStreamFrames
\* keep is, in its order, what is to be kept.
LEMMA OnlyKeeps ==
  ASSUME NEW queue \in Seq(Output), NEW keep, Grows(queue)
  PROVE  /\ Only(queue, keep) \in Seq(Output) /\ Grows(Only(queue, keep))
         /\ Range(Only(queue, keep)) = Range(queue) \cap keep
         /\ Len(Only(queue, keep)) <= Len(queue)
<1>1. PICK g : /\ g[0] = << >> /\ g[Len(queue)] = Only(queue, keep)
               /\ \A i \in 1..Len(queue) : g[i] = IF queue[i] \in keep THEN Append(g[i - 1], queue[i]) ELSE g[i - 1]
  BY OnlyUnfolds
<1> DEFINE FirstOf(i) == {queue[k] : k \in 1..i}
           Right(i) == /\ g[i] \in Seq(Output) /\ Grows(g[i]) /\ Range(g[i]) = FirstOf(i) \cap keep
                       /\ Len(g[i]) <= i
           Bad == {i \in 0..Len(queue) : ~Right(i)}
<1>2. Len(queue) \in Nat
  OBVIOUS
<1>3. Bad = {}
  <2>1. SUFFICES ASSUME Bad # {} PROVE FALSE
    OBVIOUS
  <2>2. PICK n \in Bad : \A t \in Bad : n <= t
    <3>1. Bad \subseteq Nat
      OBVIOUS
    <3> HIDE DEF Bad
    <3> QED
      BY <2>1, <3>1, Least
  <2>3. n \in Nat /\ n \in 0..Len(queue) /\ ~Right(n)
    OBVIOUS
  <2>4. n # 0
    <3>1. g[0] \in Seq(Output) /\ Len(g[0]) = 0
      BY <1>1
    <3>2. Range(g[0]) = {}
      BY <1>1, RangeOfNothing
    <3>3. Grows(g[0])
      BY <3>1 DEF Grows
    <3>4. FirstOf(0) = {}
      OBVIOUS
    <3> QED
      BY <2>3, <3>1, <3>2, <3>3, <3>4
  <2>5. n \in 1..Len(queue) /\ n - 1 \in 0..Len(queue) /\ n - 1 \in Nat
    BY <2>3, <2>4
  <2>6. Right(n - 1)
    <3>1. n - 1 \notin Bad
      <4> HIDE DEF Bad
      <4> QED
        BY <2>2, <2>3, <2>5
    <3> HIDE DEF Right
    <3> QED
      BY <2>5, <3>1
  <2>7. queue[n] \in Output /\ FirstOf(n) = FirstOf(n - 1) \cup {queue[n]}
    <3>1. \A k \in 1..n : k = n \/ k \in 1..(n - 1)
      BY <2>5
    <3>2. \A k \in 1..(n - 1) : k \in 1..n
      BY <2>5
    <3> QED
      BY <2>5, <3>1, <3>2
  <2>8. \A y \in Range(g[n - 1]) : y < queue[n]
    <3>1. \A k \in 1..(n - 1) : queue[k] < queue[n]
      BY <2>5 DEF Grows
    <3> QED
      BY <2>6, <3>1
  <2> HIDE DEF FirstOf
  <2>9. CASE queue[n] \in keep
    <3>1. g[n] = Append(g[n - 1], queue[n])
      BY <1>1, <2>5, <2>9
    <3>2. Grows(g[n])
      <4>1. Output \subseteq Nat
        BY Numbers
      <4> QED
        BY <2>6, <2>7, <2>8, <3>1, <4>1, AppendGrows
    <3>3. g[n] \in Seq(Output) /\ Len(g[n]) = Len(g[n - 1]) + 1
            /\ Range(g[n]) = Range(g[n - 1]) \cup {queue[n]}
      BY <2>6, <2>7, <3>1, Appended
    <3>4. Range(g[n]) = FirstOf(n) \cap keep
      BY <2>6, <2>7, <2>9, <3>3
    <3>5. Len(g[n]) <= n
      BY <2>5, <2>6, <3>3
    <3> QED
      BY <2>3, <3>2, <3>3, <3>4, <3>5
  <2>10. CASE queue[n] \notin keep
    <3>1. g[n] = g[n - 1]
      BY <1>1, <2>5, <2>10
    <3>2. FirstOf(n) \cap keep = FirstOf(n - 1) \cap keep
      BY <2>7, <2>10
    <3>3. Len(g[n]) <= n
      BY <2>5, <2>6, <3>1
    <3> QED
      BY <2>3, <2>6, <3>1, <3>2, <3>3
  <2> QED
    BY <2>9, <2>10
<1>4. Right(Len(queue))
  <2>1. Len(queue) \in 0..Len(queue)
    BY <1>2
  <2> HIDE DEF Right
  <2> QED
    BY <1>3, <2>1
<1>5. FirstOf(Len(queue)) = Range(queue)
  BY InRange
<1> QED
  BY <1>1, <1>4, <1>5

-----------------------------------------------------------------------------
(* The caps of the buffer.                                                 *)

\* A queue's weight is a number.
LEMMA WeightOf ==
  ASSUME NEW q \in Seq(Output)
  PROVE  Bytes(q) \in Nat /\ IsFiniteSet(Heavy \cap Range(q))
<1>1. IsFiniteSet(1..MaxOutput)
  BY Numbers, FS_Interval
<1>2. IsFiniteSet(Heavy \cap Range(q))
  BY <1>1, Numbers, FS_Subset DEF Output
<1>3. Cardinality(Heavy \cap Range(q)) \in Nat /\ Len(q) \in Nat
  BY <1>2, FS_CardinalityType
<1> QED
  BY <1>2, <1>3 DEF Bytes

\* A queue with fewer frames, all of them the other's, weighs no more.
LEMMA LessWeighsLess ==
  ASSUME NEW p \in Seq(Output), NEW q \in Seq(Output), Range(p) \subseteq Range(q),
         Len(p) <= Len(q)
  PROVE  Bytes(p) <= Bytes(q)
<1>1. Heavy \cap Range(p) \subseteq Heavy \cap Range(q)
  OBVIOUS
<1>2. /\ Cardinality(Heavy \cap Range(p)) <= Cardinality(Heavy \cap Range(q))
      /\ Cardinality(Heavy \cap Range(p)) \in Nat /\ Cardinality(Heavy \cap Range(q)) \in Nat
  BY <1>1, WeightOf, FS_Subset, FS_CardinalityType
<1>3. Len(p) \in Nat /\ Len(q) \in Nat
  OBVIOUS
<1> QED
  BY <1>2, <1>3 DEF Bytes

\* The empty queue weighs nothing.
LEMMA NothingWeighsNothing == Bytes(<< >>) = 0
<1>1. Heavy \cap Range(<< >>) = {}
  BY RangeOfNothing
<1> QED
  BY <1>1, RangeOfNothing, FS_EmptySet DEF Bytes

\* A queue within both caps.
InCaps(q) == Len(q) <= PendingMaxChunks /\ Bytes(q) <= PendingMaxBytes

\* bufferPendingStreamFrame evicts the oldest until the caps hold.
LEMMA EvictKeeps ==
  ASSUME NEW queue \in Seq(Output), Grows(queue)
  PROVE  /\ Evict(queue) \in Seq(Output) /\ Grows(Evict(queue)) /\ InCaps(Evict(queue))
         /\ Range(Evict(queue)) \subseteq Range(queue)
         /\ \A old \in Range(queue) \ Range(Evict(queue)), kept \in Range(Evict(queue)) : old < kept
<1> DEFINE L == Len(queue)
           Fits(n) == /\ L - n <= PendingMaxChunks
                      /\ Bytes(SubSeq(queue, n + 1, L)) <= PendingMaxBytes
           first == CHOOSE n \in 0..L : Fits(n) /\ \A m \in 0..(n - 1) : ~Fits(m)
           Good == {n \in 0..L : Fits(n)}
<1>1. L \in Nat /\ \A i \in 1..L : queue[i] \in Output
  OBVIOUS
<1>2. Fits(L)
  <2>1. SubSeq(queue, L + 1, L) = << >>
    BY <1>1
  <2>2. L - L <= PendingMaxChunks /\ 0 <= PendingMaxBytes
    BY <1>1, Numbers
  <2> QED
    BY <2>1, <2>2, NothingWeighsNothing
<1>3. \E n \in 0..L : Fits(n) /\ \A m \in 0..(n - 1) : ~Fits(m)
  <2> HIDE DEF Fits
  <2>1. Good # {} /\ Good \subseteq Nat
    BY <1>1, <1>2
  <2>2. PICK n \in Good : \A t \in Good : n <= t
    BY <2>1, Least
  <2>3. \A m \in 0..(n - 1) : m \in 0..L /\ m < n
    BY <1>1, <2>2
  <2> QED
    BY <2>2, <2>3
<1>4. first \in 0..L /\ Fits(first)
  BY <1>3
<1>5. Evict(queue) = SubSeq(queue, first + 1, L)
  BY DEF Evict
<1> HIDE DEF first
<1> DEFINE kept == SubSeq(queue, first + 1, L)
<1>6. first \in Nat /\ first <= L
  BY <1>1, <1>4
<1>7. /\ kept \in Seq(Output) /\ Len(kept) = L - first
      /\ \A i \in 1..(L - first) : kept[i] = queue[first + i] /\ first + i \in 1..L
  BY <1>1, <1>6
<1> HIDE DEF kept
<1>8. InCaps(kept)
  BY <1>4, <1>7 DEF InCaps, kept
<1>9. Grows(kept)
  BY <1>6, <1>7 DEF Grows
<1>10. \A x : x \in Range(kept) <=> \E i \in 1..(L - first) : queue[first + i] = x
  BY <1>7, InRange
<1>11. \A x : x \in Range(queue) <=> \E i \in 1..L : queue[i] = x
  BY InRange
<1>12. Range(kept) \subseteq Range(queue)
  BY <1>7, <1>10, <1>11
<1>13. ASSUME NEW old \in Range(queue) \ Range(kept), NEW k \in Range(kept) PROVE old < k
  <2>1. PICK i \in 1..L : queue[i] = old
    BY <1>11, <1>13
  <2>2. PICK j \in 1..(L - first) : queue[first + j] = k
    BY <1>10, <1>13
  <2>3. i <= first
    <3>1. SUFFICES ASSUME i > first PROVE FALSE
      BY <1>6, <2>1
    <3>2. i - first \in 1..(L - first) /\ first + (i - first) = i
      BY <1>1, <1>6, <2>1, <3>1
    <3> QED
      BY <1>10, <1>13, <2>1, <3>2
  <2>4. i < first + j /\ first + j \in 1..L
    BY <1>1, <1>6, <2>2, <2>3
  <2> QED
    BY <2>1, <2>2, <2>4 DEF Grows
<1> QED
  BY <1>5, <1>7, <1>8, <1>9, <1>12, <1>13 DEF kept

-----------------------------------------------------------------------------
(* The invariant.                                                          *)

\* The states of the remote helper.
Gate == {"pending", "active", "disabled"}
\* What a client can be sent.
Frame == Output \cup Control
\* What a client can be told of the helper.
Status == [state : Gate, at : 0..MaxOutput + 2]
\* What the handler of a frame works on.
Streams == [gate : Gate, kind : Seq(Kind), pending : Seq(Output), dropped : SUBSET Output,
            ignored : SUBSET Output, sent : [Client -> Seq(Frame)], told : [Client -> Seq(Status)],
            started : BOOLEAN]

\* The output frames that clients were sent.
Recv(sn) == (UNION {Range(sn[c]) : c \in Client}) \cap Output

\* Each client is sent ready first, and then growing numbers.
Ordered(sn) == \A c \in Client : Grows(sn[c]) /\ (sn[c] # << >> => sn[c][1] = Ready)

\* Every frame of seen was sent, waits, was evicted or was withheld, one of
\* these only; what waits is younger than what was sent or evicted.
Placed(q, dr, ig, sn, seen) ==
    /\ q \in Seq(Output) /\ Grows(q) /\ InCaps(q)
    /\ dr \subseteq Output /\ ig \subseteq Output /\ sn \in [Client -> Seq(Frame)]
    /\ seen = Recv(sn) \cup Range(q) \cup dr \cup ig
    /\ Recv(sn) \cap (dr \cup ig) = {} /\ dr \cap ig = {}
    /\ Range(q) \cap (Recv(sn) \cup dr \cup ig) = {}
    /\ \A old \in dr \cup Recv(sn), kept \in Range(q) : old < kept

\* The types of the stream, where its frames are, and that no visible frame
\* is withheld.
Flow(s, seen) ==
    /\ s \in Streams
    /\ Placed(s.pending, s.dropped, s.ignored, s.sent, seen)
    /\ Ordered(s.sent)
    /\ \A f \in s.ignored : s.kind[f] # "output"

\* The handshake of the helper came no later than the frame.
HeardReady(k, seen, f) == \E o \in seen : o <= f /\ k[o] = "ready"
\* The last status told before the place i of what a client was sent is that
\* the helper is active.
ToldActive(tl, i) ==
    \E j \in 1..Len(tl) : /\ tl[j].state = "active" /\ tl[j].at < i
                          /\ \A l \in (j + 1)..Len(tl) : tl[l].at >= i
\* Unless the helper was given up, what broke its contract was evicted
\* unseen.
ClearOfForeign(s, seen) ==
    s.gate # "disabled" => \A o \in seen : s.kind[o] = "foreign" => o \in s.dropped
\* An active helper made its handshake.
ShookHands(s, seen) == s.gate = "active" => \E o \in seen : s.kind[o] = "ready"
\* An event waits only while the helper is active, after its handshake.
KeepsTrusted(s, seen) ==
    \A f \in Range(s.pending) : s.kind[f] # "output" => s.gate = "active" /\ HeardReady(s.kind, seen, f)
\* What EventsAreTrusted asks of one frame that one client was sent.
MayReceive(s, seen, c, i) ==
    s.sent[c][i] \in Output /\ s.kind[s.sent[c][i]] # "output" =>
      /\ ToldActive(s.told[c], i)
      /\ HeardReady(s.kind, seen, s.sent[c][i])
      /\ \A o \in seen : o <= s.sent[c][i] /\ s.kind[o] = "foreign" => o \in s.dropped
\* It holds of all of them.
SendsTrusted(s, seen) == \A c \in Client : \A i \in 1..Len(s.sent[c]) : MayReceive(s, seen, c, i)
\* A status is told by the place a client's frames had reached.
ToldInTime(s) == \A c \in Client : \A j \in 1..Len(s.told[c]) : s.told[c][j].at <= Len(s.sent[c])
\* What the trust gate guarantees of the stream.
Trusted(s, seen) ==
    /\ ClearOfForeign(s, seen) /\ ShookHands(s, seen) /\ KeepsTrusted(s, seen)
    /\ SendsTrusted(s, seen) /\ ToldInTime(s)

\* The client that can be reached was last told the helper's state.
KnowsGate(s) == Reachable => s.told[attached] # << >> /\ Last(s.told[attached]).state = s.gate

\* The types of the session.
SessionTypes ==
    /\ live \in BOOLEAN /\ pty \in BOOLEAN /\ timer \in BOOLEAN
    /\ attached \in Client \cup {None} /\ produced \in 0..MaxOutput
    /\ socket \in [Client -> {"new", "open", "closing", "closed"}]
    /\ written \in Client \cup {None}
    /\ service \in {"local", "ssh"} /\ creating \in BOOLEAN
    /\ {syncTimer, reading, again, asked, deleting} \subseteq BOOLEAN

\* What goes with what: a session being created has sent nothing, an attached
\* client has its ready frame, a live session has not sent exit, nothing
\* waits while the client can be reached, and the helper exists in SSH
\* sessions only.
Links ==
    /\ creating => /\ service = "ssh" /\ ~live /\ attached = None /\ gate # "active" /\ ignored = {}
                   /\ \A c \in Client : sent[c] = << >> /\ told[c] = << >>
    /\ attached # None => live /\ sent[attached] # << >>
    /\ \A c \in Client : socket[c] = "new" => sent[c] = << >>
    /\ live => pty /\ \A c \in Client : Exit \notin Range(sent[c])
    /\ Reachable => pending = << >>
    /\ IF service = "ssh" THEN Len(kind) = produced ELSE ignored = {}

\* The inductive invariant. None of the three properties is inductive: that a
\* frame is sent once needs to know that the next one is younger than all
\* that were seen, that an event is trusted needs the events that wait and
\* every status told so far, and both need that a session attached to its
\* client has nothing waiting.
SshInv ==
    /\ SessionTypes /\ Links /\ Flow(Stream, 1..produced)
    /\ service = "ssh" /\ ~creating => Trusted(Stream, 1..produced) /\ KnowsGate(Stream)

-----------------------------------------------------------------------------
(* Where frames go.                                                        *)

\* Received is what some client was sent.
LEMMA ReceivedBySome ==
  ASSUME NEW sn \in [Client -> Seq(Frame)]
  PROVE  \A x : x \in Recv(sn) <=> x \in Output /\ \E c \in Client : x \in Range(sn[c])
<1> DEFINE r(c) == Range(sn[c])
<1>1. Recv(sn) = (UNION {r(c) : c \in Client}) \cap Output
  BY DEF Recv
<1> HIDE DEF r
<1>2. \A x : x \in UNION {r(c) : c \in Client} <=> \E c \in Client : x \in r(c)
  OBVIOUS
<1>3. \A x : x \in Recv(sn) <=> x \in Output /\ \E c \in Client : x \in r(c)
  BY <1>1, <1>2
<1> QED
  BY <1>3 DEF r

\* Frames are numbers, output or control.
LEMMA FrameNumbers == /\ Frame \subseteq Nat /\ Output \subseteq Frame /\ Ready \in Frame
  /\ Exit \in Frame
                      /\ \A x \in Frame : x \in Output \/ x = Ready \/ x = Exit
  BY Numbers DEF Frame, Control

\* One more frame to one client.
LEMMA SentOne ==
  ASSUME NEW sn \in [Client -> Seq(Frame)], NEW c \in Client, NEW f \in Frame
  PROVE  /\ [sn EXCEPT ![c] = Append(@, f)] \in [Client -> Seq(Frame)]
         /\ Recv([sn EXCEPT ![c] = Append(@, f)]) = Recv(sn) \cup ({f} \cap Output)
<1> DEFINE after == [sn EXCEPT ![c] = Append(@, f)]
<1>1. sn[c] \in Seq(Frame)
  OBVIOUS
<1>2. Append(sn[c], f) \in Seq(Frame) /\ Range(Append(sn[c], f)) = Range(sn[c]) \cup {f}
  BY <1>1, Appended
<1>3. after \in [Client -> Seq(Frame)]
        /\ \A d \in Client : after[d] = IF d = c THEN Append(sn[c], f) ELSE sn[d]
  BY <1>2
<1> HIDE DEF after
<1>4. \A x : x \in Recv(after) <=> x \in Output /\ \E d \in Client : x \in Range(after[d])
  BY <1>3, ReceivedBySome
<1>5. \A x : (\E d \in Client : x \in Range(after[d])) <=> x = f \/ \E d \in Client : x \in Range(sn[d])
  BY <1>2, <1>3
<1>6. \A x : x \in Recv(sn) <=> x \in Output /\ \E d \in Client : x \in Range(sn[d])
  BY ReceivedBySome
<1>7. Recv(after) = Recv(sn) \cup ({f} \cap Output)
  BY <1>4, <1>5, <1>6
<1> QED
  BY <1>3, <1>7 DEF after

\* It keeps the order if it is younger than what the client was sent.
LEMMA OrderedAppends ==
  ASSUME NEW sn \in [Client -> Seq(Frame)], Ordered(sn), NEW c \in Client, NEW f \in Frame,
         sn[c] # << >>, \A y \in Range(sn[c]) : y < f
  PROVE  Ordered([sn EXCEPT ![c] = Append(@, f)])
<1> DEFINE after == [sn EXCEPT ![c] = Append(@, f)]
<1>1. sn[c] \in Seq(Frame) /\ Grows(sn[c]) /\ sn[c][1] = Ready
  BY DEF Ordered
<1>2. Grows(Append(sn[c], f))
  BY <1>1, FrameNumbers, AppendGrows
<1>3. 1 \in 1..Len(sn[c])
  BY <1>1
<1>4. Append(sn[c], f)[1] = Ready
  BY <1>1, <1>3, Appended
<1>5. \A d \in Client : after[d] = IF d = c THEN Append(sn[c], f) ELSE sn[d]
  OBVIOUS
<1> HIDE DEF after
<1>6. Ordered(after)
  BY <1>2, <1>4, <1>5 DEF Ordered
<1> QED
  BY <1>6 DEF after

\* What a client is sent first: ready, and what has waited.
LEMMA Prefixed ==
  ASSUME NEW q \in Seq(Output), Grows(q)
  PROVE  /\ <<Ready>> \o q \in Seq(Frame) /\ Grows(<<Ready>> \o q) /\ <<Ready>> \o q # << >>
         /\ (<<Ready>> \o q)[1] = Ready /\ Range(<<Ready>> \o q) = {Ready} \cup Range(q)
         /\ Len(<<Ready>> \o q) = Len(q) + 1 /\ Len(q) \in Nat
         /\ \A i \in 1..(Len(q) + 1) : i = 1 \/ (i - 1 \in 1..Len(q) /\ (<<Ready>> \o q)[i] = q[i - 1])
<1> DEFINE p == <<Ready>> \o q
<1>1. Len(q) \in Nat /\ q \in Seq(Frame) /\ <<Ready>> \in Seq(Frame) /\ Len(<<Ready>>) = 1
        /\ <<Ready>>[1] = Ready
  <2>1. Output \subseteq Frame /\ Ready \in Frame
    BY FrameNumbers
  <2>2. q \in Seq(Frame) /\ Len(q) \in Nat
    BY <2>1
  <2> QED
    BY <2>1, <2>2
<1>2. /\ p \in Seq(Frame) /\ Len(p) = Len(q) + 1 /\ p[1] = Ready
      /\ \A i \in 1..(Len(q) + 1) : i = 1 \/ (i - 1 \in 1..Len(q) /\ p[i] = q[i - 1])
  BY <1>1
<1> HIDE DEF p
<1>3. \A i \in 1..Len(q) : q[i] \in Output /\ i + 1 \in 1..(Len(q) + 1) /\ i + 1 # 1 /\ (i + 1) - 1 = i
  BY <1>1
<1>4. Grows(p)
  <2>1. ASSUME NEW i \in 1..(Len(q) + 1), NEW j \in 1..(Len(q) + 1), i < j PROVE p[i] < p[j]
    <3>1. j # 1 /\ j - 1 \in 1..Len(q) /\ p[j] = q[j - 1]
      BY <1>1, <1>2, <2>1
    <3>2. CASE i = 1
      BY <1>2, <1>3, <3>1, <3>2, Numbers
    <3>3. CASE i # 1
      <4>1. i - 1 \in 1..Len(q) /\ p[i] = q[i - 1] /\ i - 1 < j - 1
        BY <1>1, <1>2, <2>1, <3>3
      <4> QED
        BY <3>1, <4>1 DEF Grows
    <3> QED
      BY <3>2, <3>3
  <2> QED
    BY <1>2, <2>1 DEF Grows
<1>5. \A x : x \in Range(p) <=> x = Ready \/ x \in Range(q)
  <2>1. \A x : x \in Range(q) <=> \E i \in 1..Len(q) : q[i] = x
    BY InRange
  <2>2. \A x : x \in Range(p) <=> \E i \in 1..Len(p) : p[i] = x
    BY <1>2, InRange
  <2>3. \A i \in 1..Len(q) : p[i + 1] = q[i]
    BY <1>2, <1>3
  <2>4. 1 \in 1..Len(p)
    BY <1>1, <1>2
  <2>5. \A i \in 1..Len(p) : p[i] = Ready \/ \E k \in 1..Len(q) : q[k] = p[i]
    BY <1>2
  <2>6. Ready \in Range(p)
    BY <1>2, <2>2, <2>4
  <2>7. \A i \in 1..Len(q) : q[i] \in Range(p)
    BY <1>2, <1>3, <2>2, <2>3
  <2> QED
    BY <2>1, <2>2, <2>5, <2>6, <2>7
<1>6. p # << >>
  BY <1>1, <1>2
<1> QED
  BY <1>1, <1>2, <1>4, <1>5, <1>6 DEF p

\* Sending that to a client that was sent nothing.
LEMMA SentFlush ==
  ASSUME NEW sn \in [Client -> Seq(Frame)], Ordered(sn), NEW c \in Client, sn[c] = << >>,
         NEW q \in Seq(Output), Grows(q)
  PROVE  /\ [sn EXCEPT ![c] = <<Ready>> \o q] \in [Client -> Seq(Frame)]
         /\ Recv([sn EXCEPT ![c] = <<Ready>> \o q]) = Recv(sn) \cup Range(q)
         /\ Ordered([sn EXCEPT ![c] = <<Ready>> \o q])
<1> DEFINE p == <<Ready>> \o q
           after == [sn EXCEPT ![c] = p]
<1>1. p \in Seq(Frame) /\ Range(p) = {Ready} \cup Range(q) /\ Grows(p) /\ p[1] = Ready
  BY Prefixed
<1> HIDE DEF p
<1>2. after \in [Client -> Seq(Frame)] /\ \A d \in Client : after[d] = IF d = c THEN p ELSE sn[d]
  BY <1>1
<1> HIDE DEF after
<1>3. \A x : x \in Recv(after) <=> x \in Output /\ \E d \in Client : x \in Range(after[d])
  BY <1>2, ReceivedBySome
<1>4. \A x : x \in Recv(sn) <=> x \in Output /\ \E d \in Client : x \in Range(sn[d])
  BY ReceivedBySome
<1>5. Range(q) \subseteq Output /\ Ready \notin Output
  BY InRange, Numbers
<1>6. \A x : x \notin Range(sn[c])
  BY RangeOfNothing
<1>7. Recv(after) = Recv(sn) \cup Range(q)
  <2>1. \A x \in Output : (\E d \in Client : x \in Range(after[d]))
          <=> x \in Range(q) \/ \E d \in Client : x \in Range(sn[d])
    BY <1>1, <1>2, <1>5, <1>6
  <2> QED
    BY <1>3, <1>4, <1>5, <2>1
<1>8. Ordered(after)
  BY <1>1, <1>2 DEF Ordered
<1> QED
  BY <1>2, <1>7, <1>8 DEF after, p

\* A frame that waits, and what is evicted for it.
LEMMA BufferPlaces ==
  ASSUME NEW q, NEW dr, NEW ig, NEW sn, NEW seen, Placed(q, dr, ig, sn, seen),
         NEW f \in Output, \A x \in seen : x < f

  PROVE  Placed(Evict(Append(q, f)), dr \cup (Range(Append(q, f)) \ Range(Evict(Append(q, f)))), ig, sn, seen \cup {f})
<1> DEFINE a == Append(q, f)
           e == Evict(a)
<1>1. q \in Seq(Output) /\ Grows(q) /\ Range(q) \subseteq seen
  BY DEF Placed
<1>2. a \in Seq(Output) /\ Range(a) = Range(q) \cup {f}
  BY <1>1, Appended
<1>3. Grows(a)
  BY <1>1, AppendGrows, Numbers
<1> HIDE DEF a
<1>4. /\ e \in Seq(Output) /\ Grows(e) /\ InCaps(e) /\ Range(e) \subseteq Range(a)
      /\ \A old \in Range(a) \ Range(e), kept \in Range(e) : old < kept
  BY <1>2, <1>3, EvictKeeps
<1> HIDE DEF e
<1>5. f \notin seen /\ Output \subseteq Nat
  BY Numbers
<1>6. \A old \in dr \cup Recv(sn), kept \in Range(a) : old < kept
  BY <1>2 DEF Placed
<1>7. Placed(e, dr \cup (Range(a) \ Range(e)), ig, sn, seen \cup {f})
  <2>1. Range(a) \subseteq Output
    BY <1>2, InRange
  <2>2. seen = Recv(sn) \cup Range(q) \cup dr \cup ig
    BY DEF Placed
  <2>3. seen \cup {f} = Recv(sn) \cup Range(e) \cup (dr \cup (Range(a) \ Range(e))) \cup ig
    BY <1>2, <1>4, <2>2
  <2>4. Range(a) \cap (Recv(sn) \cup dr \cup ig) = {}
    BY <1>2, <1>5, <2>2 DEF Placed
  <2>5. /\ Recv(sn) \cap ((dr \cup (Range(a) \ Range(e))) \cup ig) = {}
        /\ (dr \cup (Range(a) \ Range(e))) \cap ig = {}
        /\ Range(e) \cap (Recv(sn) \cup (dr \cup (Range(a) \ Range(e))) \cup ig) = {}
    BY <1>4, <2>4 DEF Placed
  <2>6. \A old \in (dr \cup (Range(a) \ Range(e))) \cup Recv(sn), kept \in Range(e) : old < kept
    BY <1>4, <1>6
  <2> QED
    BY <1>4, <2>1, <2>3, <2>5, <2>6 DEF Placed
<1> QED
  BY <1>7 DEF a, e

\* A frame that is sent.
LEMMA SendPlaces ==
  ASSUME NEW dr, NEW ig, NEW sn, NEW seen, Placed(<< >>, dr, ig, sn, seen),
         NEW f \in Output, \A x \in seen : x < f, NEW c \in Client
  PROVE  Placed(<< >>, dr, ig, [sn EXCEPT ![c] = Append(@, f)], seen \cup {f})
<1> DEFINE after == [sn EXCEPT ![c] = Append(@, f)]
<1>1. after \in [Client -> Seq(Frame)] /\ Recv(after) = Recv(sn) \cup {f}
  <2>1. f \in Frame /\ {f} \cap Output = {f} /\ sn \in [Client -> Seq(Frame)]
    BY FrameNumbers DEF Placed
  <2> QED
    BY <2>1, SentOne
<1> HIDE DEF after
<1>2. f \notin seen /\ Range(<< >>) = {}
  BY Numbers, RangeOfNothing
<1>3. Placed(<< >>, dr, ig, after, seen \cup {f})
  BY <1>1, <1>2 DEF Placed
<1> QED
  BY <1>3 DEF after

\* A frame that is withheld.
LEMMA IgnorePlaces ==
  ASSUME NEW q, NEW dr, NEW ig, NEW sn, NEW seen, Placed(q, dr, ig, sn, seen),
         NEW f \in Output, \A x \in seen : x < f
  PROVE  Placed(q, dr, ig \cup {f}, sn, seen \cup {f})
<1>1. f \notin seen
  BY Numbers
<1> QED
  BY <1>1 DEF Placed

\* Frames that waited and are withheld.
LEMMA WithholdPlaces ==
  ASSUME NEW q, NEW dr, NEW ig, NEW sn, NEW seen, Placed(q, dr, ig, sn, seen), NEW keep
  PROVE  Placed(Only(q, keep), dr, ig \cup (Range(q) \ Range(Only(q, keep))), sn, seen)
<1> DEFINE p == Only(q, keep)
<1>1. q \in Seq(Output) /\ Grows(q) /\ Len(q) <= PendingMaxChunks /\ Bytes(q) <= PendingMaxBytes
  BY DEF Placed, InCaps
<1>2. p \in Seq(Output) /\ Grows(p) /\ Range(p) \subseteq Range(q) /\ Len(p) <= Len(q)
  BY <1>1, OnlyKeeps
<1> HIDE DEF p
<1>3. InCaps(p)
  <2>1. Len(p) \in Nat /\ Len(q) \in Nat
    BY <1>1, <1>2
  <2>2. Bytes(p) <= Bytes(q) /\ Bytes(p) \in Nat /\ Bytes(q) \in Nat
    BY <1>1, <1>2, LessWeighsLess, WeightOf
  <2> QED
    BY <1>1, <1>2, <2>1, <2>2, Numbers DEF InCaps
<1>4. Range(q) \subseteq Output
  BY <1>1, InRange
<1>5. Placed(p, dr, ig \cup (Range(q) \ Range(p)), sn, seen)
  BY <1>2, <1>3, <1>4 DEF Placed
<1> QED
  BY <1>5 DEF p

\* Frames that waited and are sent.
LEMMA FlushPlaces ==
  ASSUME NEW q, NEW dr, NEW ig, NEW sn, NEW seen, Placed(q, dr, ig, sn, seen), Ordered(sn),
         NEW c \in Client, sn[c] = << >>
  PROVE  /\ Placed(<< >>, dr, ig, [sn EXCEPT ![c] = <<Ready>> \o q], seen)
         /\ Ordered([sn EXCEPT ![c] = <<Ready>> \o q])
<1> DEFINE after == [sn EXCEPT ![c] = <<Ready>> \o q]
<1>1. after \in [Client -> Seq(Frame)] /\ Recv(after) = Recv(sn) \cup Range(q) /\ Ordered(after)
  BY SentFlush DEF Placed
<1> HIDE DEF after
<1>2. InCaps(<< >>)
  BY NothingWeighsNothing, RangeOfNothing, Numbers DEF InCaps
<1>3. Placed(<< >>, dr, ig, after, seen)
  BY <1>1, <1>2, RangeOfNothing DEF Placed
<1> QED
  BY <1>1, <1>3 DEF after

\* A client is sent no more frames than there are.
LEMMA FewFrames ==
  ASSUME NEW q \in Seq(Frame), Grows(q)
  PROVE  Len(q) \in 0..(MaxOutput + 2)
<1> DEFINE Bad == {i \in 1..Len(q) : q[i] < i - 1}
<1>1. Len(q) \in Nat /\ \A i \in 1..Len(q) : q[i] \in Nat /\ q[i] <= MaxOutput + 1
  <2>1. \A x \in Frame : x \in Nat /\ x <= MaxOutput + 1
    <3>1. \A x \in Output : x \in Nat /\ x <= MaxOutput + 1
      BY Numbers DEF Output
    <3> QED
      BY <3>1, FrameNumbers, Numbers
  <2>2. Len(q) \in Nat /\ \A i \in 1..Len(q) : q[i] \in Frame
    OBVIOUS
  <2> QED
    BY <2>1, <2>2
<1>2. Bad = {}
  <2>1. SUFFICES ASSUME Bad # {} PROVE FALSE
    OBVIOUS
  <2>2. Bad \subseteq Nat /\ \A i \in 1..Len(q) : i \notin Bad => ~(q[i] < i - 1)
    OBVIOUS
  <2>3. PICK n \in Bad : \A t \in Bad : n <= t
    <3> HIDE DEF Bad
    <3> QED
      BY <2>1, <2>2, Least
  <2>4. n \in 1..Len(q) /\ q[n] < n - 1
    OBVIOUS
  <2> HIDE DEF Bad
  <2>5. n - 1 \in 1..Len(q) /\ n - 1 < n
    BY <1>1, <2>4
  <2>6. n - 1 \notin Bad
    BY <2>3, <2>4, <2>5
  <2>7. ~(q[n - 1] < (n - 1) - 1) /\ q[n - 1] < q[n]
    BY <2>2, <2>4, <2>5, <2>6 DEF Grows
  <2> QED
    BY <1>1, <2>4, <2>5, <2>7
<1>3. CASE Len(q) = 0
  BY <1>3, Numbers
<1>4. CASE Len(q) # 0
  <2>1. Len(q) \in 1..Len(q)
    BY <1>1, <1>4
  <2>2. ~(q[Len(q)] < Len(q) - 1)
    BY <1>2, <2>1
  <2> DEFINE n == Len(q)
             x == q[n]
  <2>3. n \in Nat /\ x \in Nat /\ x <= MaxOutput + 1 /\ ~(x < n - 1) /\ MaxOutput \in Nat
    BY <1>1, <2>1, <2>2, Numbers
  <2> HIDE DEF n, x
  <2>4. n \in 0..(MaxOutput + 2)
    BY <2>3
  <2> QED
    BY <2>4 DEF n
<1> QED
  BY <1>3, <1>4

-----------------------------------------------------------------------------
(* The handler's steps on the stream.                                      *)

\* The next frame may be sent: nothing waits that should be sent before, and
\* the client has not been told of the exit.
CanTake(s) == Reachable => s.pending = << >> /\ s.sent[attached] # << >>
  /\ Exit \notin Range(s.sent[attached])

\* The fields of a stream.
LEMMA StreamFields ==
  ASSUME NEW s \in Streams
  PROVE  /\ s.gate \in Gate /\ s.kind \in Seq(Kind) /\ s.pending \in Seq(Output)
              /\ s.dropped \subseteq Output
         /\ s.ignored \subseteq Output /\ s.sent \in [Client -> Seq(Frame)]
              /\ s.told \in [Client -> Seq(Status)]
         /\ s.started \in BOOLEAN
  BY DEF Streams

\* The fields after a frame was buffered.
LEMMA BufferFields ==
  ASSUME NEW s \in Streams, NEW f \in Output, Grows(Append(s.pending, f))
  PROVE  /\ Buffer(s, f) \in Streams
         /\ Buffer(s, f).gate = s.gate /\ Buffer(s, f).kind = s.kind /\ Buffer(s, f).ignored = s.ignored
         /\ Buffer(s, f).sent = s.sent /\ Buffer(s, f).told = s.told
         /\ Buffer(s, f).pending = Evict(Append(s.pending, f))
         /\ Buffer(s, f).dropped = s.dropped \cup (Range(Append(s.pending, f)) \ Range(Evict(Append(s.pending, f))))
<1> DEFINE a == Append(s.pending, f)
           e == Evict(a)
<1>1. a \in Seq(Output)
  BY StreamFields, Appended
<1>2. Buffer(s, f) = [s EXCEPT !.pending = e, !.dropped = @ \cup (Range(a) \ Range(e))]
  BY DEF Buffer
<1> HIDE DEF a
<1>3. e \in Seq(Output)
  BY <1>1, EvictKeeps DEF a
<1>4. Range(a) \subseteq Output
  BY <1>1, InRange
<1> HIDE DEF e
<1>5. /\ Buffer(s, f) \in Streams
      /\ Buffer(s, f).gate = s.gate /\ Buffer(s, f).kind = s.kind /\ Buffer(s, f).ignored = s.ignored
      /\ Buffer(s, f).sent = s.sent /\ Buffer(s, f).told = s.told
      /\ Buffer(s, f).pending = e
      /\ Buffer(s, f).dropped = s.dropped \cup (Range(a) \ Range(e))
  BY <1>2, <1>3, <1>4 DEF Streams
<1> QED
  BY <1>5 DEF a, e

\* The fields after a frame was sent.
LEMMA SentFields ==
  ASSUME NEW s \in Streams, NEW f \in Frame, attached \in Client
  PROVE  LET t == [s EXCEPT !.sent[attached] = Append(@, f)]
         IN  /\ t \in Streams /\ t.gate = s.gate /\ t.kind = s.kind /\ t.ignored = s.ignored
             /\ t.pending = s.pending /\ t.dropped = s.dropped /\ t.told = s.told
             /\ t.sent = [s.sent EXCEPT ![attached] = Append(@, f)]
<1> DEFINE a == [s.sent EXCEPT ![attached] = Append(@, f)]
<1>1. a \in [Client -> Seq(Frame)]
  BY StreamFields, SentOne
<1>2. [s EXCEPT !.sent[attached] = Append(@, f)] = [s EXCEPT !.sent = a]
  BY DEF Streams
<1> HIDE DEF a
<1>3. LET t == [s EXCEPT !.sent = a]
      IN  /\ t \in Streams /\ t.gate = s.gate /\ t.kind = s.kind /\ t.ignored = s.ignored
          /\ t.pending = s.pending /\ t.dropped = s.dropped /\ t.told = s.told /\ t.sent = a
  BY <1>1 DEF Streams
<1> QED
  BY <1>2, <1>3 DEF a

\* The fields after a status was told.
LEMMA ToldFields ==
  ASSUME NEW s \in Streams, Ordered(s.sent), attached \in Client \cup {None}
  PROVE  LET t == SendStatus(s)
         IN  /\ t \in Streams /\ t.gate = s.gate /\ t.kind = s.kind /\ t.ignored = s.ignored
             /\ t.pending = s.pending /\ t.dropped = s.dropped /\ t.sent = s.sent
             /\ t.told = IF Reachable THEN [s.told EXCEPT ![attached] = Append(@, [state |-> s.gate, at |-> Len(s.sent[attached])])]
                         ELSE s.told
<1>1. CASE ~Reachable
  BY <1>1 DEF SendStatus
<1>2. CASE Reachable
  <2> DEFINE status == [state |-> s.gate, at |-> Len(s.sent[attached])]
             a == [s.told EXCEPT ![attached] = Append(@, status)]
  <2>1. attached \in Client
    BY <1>2 DEF Reachable
  <2>2. s.sent[attached] \in Seq(Frame) /\ Grows(s.sent[attached])
    BY <2>1, StreamFields DEF Ordered
  <2>3. status \in Status
    BY <2>2, FewFrames, StreamFields DEF Status
  <2> HIDE DEF status
  <2>4. a \in [Client -> Seq(Status)]
    BY <2>1, <2>3, StreamFields, Appended
  <2>5. SendStatus(s) = [s EXCEPT !.told = a]
    BY <1>2 DEF SendStatus, Streams, status
  <2> HIDE DEF a
  <2>6. LET t == [s EXCEPT !.told = a]
        IN  /\ t \in Streams /\ t.gate = s.gate /\ t.kind = s.kind /\ t.ignored = s.ignored
            /\ t.pending = s.pending /\ t.dropped = s.dropped /\ t.sent = s.sent /\ t.told = a
    BY <2>4 DEF Streams
  <2> QED
    BY <1>2, <2>5, <2>6 DEF a, status
<1> QED
  BY <1>1, <1>2

\* The fields after a frame was withheld.
LEMMA IgnoreFields ==
  ASSUME NEW s \in Streams, NEW f \in Output
  PROVE  LET t == Ignore(s, f)
         IN  /\ t \in Streams /\ t.gate = s.gate /\ t.kind = s.kind /\ t.ignored = s.ignored \cup {f}
             /\ t.pending = s.pending /\ t.dropped = s.dropped /\ t.sent = s.sent /\ t.told = s.told
  BY DEF Ignore, Streams

\* The fields after the helper changed its state.
LEMMA GateFields ==
  ASSUME NEW s \in Streams, NEW g \in Gate
  PROVE  LET t == [s EXCEPT !.gate = g]
         IN  /\ t \in Streams /\ t.gate = g /\ t.kind = s.kind /\ t.ignored = s.ignored
             /\ t.pending = s.pending /\ t.dropped = s.dropped /\ t.sent = s.sent /\ t.told = s.told
  BY DEF Streams

\* The fields after a command was seen to start.
LEMMA StartedFields ==
  ASSUME NEW s \in Streams, NEW b \in BOOLEAN
  PROVE  LET t == [s EXCEPT !.started = @ \/ b]
         IN  /\ t \in Streams /\ t.gate = s.gate /\ t.kind = s.kind /\ t.ignored = s.ignored
             /\ t.pending = s.pending /\ t.dropped = s.dropped /\ t.sent = s.sent /\ t.told = s.told
  BY DEF Streams

\* disableRemoteEnhancementsRuntime before it tells the client.
Withheld(s) == [s EXCEPT !.gate = "disabled", !.pending = Only(s.pending, Visible(s)),
                         !.ignored = @ \cup (Range(s.pending) \ Range(Only(s.pending, Visible(s))))]

\* The fields then.
LEMMA WithheldFields ==
  ASSUME NEW s \in Streams, Grows(s.pending)
  PROVE  LET t == Withheld(s)
         IN  /\ t \in Streams /\ t.gate = "disabled" /\ t.kind = s.kind
             /\ t.ignored = s.ignored \cup (Range(s.pending) \ Range(Only(s.pending, Visible(s))))
             /\ t.pending = Only(s.pending, Visible(s)) /\ t.dropped = s.dropped
                  /\ t.sent = s.sent /\ t.told = s.told
<1> DEFINE p == Only(s.pending, Visible(s))
<1>1. s.pending \in Seq(Output)
  BY StreamFields
<1>2. p \in Seq(Output) /\ Range(s.pending) \subseteq Output
  BY <1>1, OnlyKeeps, InRange
<1> HIDE DEF p
<1>3. LET t == [s EXCEPT !.gate = "disabled", !.pending = p, !.ignored = @ \cup (Range(s.pending) \ Range(p))]
      IN  /\ t \in Streams /\ t.gate = "disabled" /\ t.kind = s.kind
          /\ t.ignored = s.ignored \cup (Range(s.pending) \ Range(p))
          /\ t.pending = p /\ t.dropped = s.dropped /\ t.sent = s.sent /\ t.told = s.told
  BY <1>2 DEF Streams, Gate
<1> QED
  BY <1>3 DEF p, Withheld

\* disableRemoteEnhancementsRuntime withholds, and tells.
LEMMA Disabling == \A s : DisableRuntime(s) = SendStatus(Withheld(s))
  BY DEF DisableRuntime, Withheld

-----------------------------------------------------------------------------
(* They keep the flow.                                                     *)

\* sendServerMessage of a frame, sent or buffered, keeps the flow.
LEMMA FrameFlows ==
  ASSUME NEW s, NEW seen, Flow(s, seen), CanTake(s), attached \in Client \cup {None},
         NEW f \in Output, \A x \in seen : x < f
  PROVE  Flow(SendFrame(s, f), seen \cup {f})
<1>1. s \in Streams /\ Placed(s.pending, s.dropped, s.ignored, s.sent, seen) /\ Ordered(s.sent)
      /\ \A g \in s.ignored : s.kind[g] # "output"
  BY DEF Flow
<1>2. CASE ~Reachable
  <2>1. s.pending \in Seq(Output) /\ Grows(s.pending) /\ Range(s.pending) \subseteq seen
    BY <1>1 DEF Placed
  <2>2. Grows(Append(s.pending, f))
    BY <2>1, AppendGrows, Numbers
  <2> DEFINE t == Buffer(s, f)
  <2>3. /\ t \in Streams /\ t.kind = s.kind /\ t.ignored = s.ignored /\ t.sent = s.sent
        /\ t.pending = Evict(Append(s.pending, f))
        /\ t.dropped = s.dropped \cup (Range(Append(s.pending, f)) \ Range(Evict(Append(s.pending, f))))
    BY <1>1, <2>2, BufferFields
  <2>4. SendFrame(s, f) = t
    BY <1>2 DEF SendFrame
  <2> HIDE DEF t
  <2>5. Placed(t.pending, t.dropped, t.ignored, t.sent, seen \cup {f})
    BY <1>1, <2>3, BufferPlaces
  <2> QED
    BY <1>1, <2>3, <2>4, <2>5 DEF Flow
<1>3. CASE Reachable
  <2>1. attached \in Client /\ s.pending = << >> /\ s.sent[attached] # << >>
          /\ Exit \notin Range(s.sent[attached])
    BY <1>3 DEF Reachable, CanTake
  <2> DEFINE t == [s EXCEPT !.sent[attached] = Append(@, f)]
  <2>2. f \in Frame
    BY FrameNumbers
  <2>3. /\ t \in Streams /\ t.kind = s.kind /\ t.ignored = s.ignored /\ t.dropped = s.dropped
        /\ t.pending = << >> /\ t.sent = [s.sent EXCEPT ![attached] = Append(@, f)]
    BY <1>1, <2>1, <2>2, SentFields
  <2>4. SendFrame(s, f) = t
    BY <1>3 DEF SendFrame
  <2> HIDE DEF t
  <2>5. Placed(t.pending, t.dropped, t.ignored, t.sent, seen \cup {f})
    <3>1. Placed(<< >>, s.dropped, s.ignored, s.sent, seen)
      BY <1>1, <2>1
    <3>2. Placed(<< >>, s.dropped, s.ignored, [s.sent EXCEPT ![attached] = Append(@, f)], seen \cup {f})
      BY <2>1, <3>1, SendPlaces
    <3> QED
      BY <2>3, <3>2
  <2>6. s.sent \in [Client -> Seq(Frame)]
    BY <1>1, StreamFields
  <2>7. \A y \in Range(s.sent[attached]) : y < f
    <3>1. \A x : x \in Recv(s.sent) <=> x \in Output /\ \E c \in Client : x \in Range(s.sent[c])
      BY <2>6, ReceivedBySome
    <3>2. Recv(s.sent) \subseteq seen
      BY <1>1 DEF Placed
    <3>3. Range(s.sent[attached]) \subseteq Frame
      BY <2>1, <2>6, InRange
    <3>4. \A y \in Range(s.sent[attached]) : y \in seen \/ y = Ready
      BY <2>1, <3>1, <3>2, <3>3, FrameNumbers
    <3> QED
      BY <3>4, Numbers
  <2>8. Ordered(t.sent)
    BY <1>1, <2>1, <2>2, <2>3, <2>6, <2>7, OrderedAppends
  <2> QED
    BY <1>1, <2>3, <2>4, <2>5, <2>8 DEF Flow
<1> QED
  BY <1>2, <1>3

\* So does withholding the frame, if it is an event.
LEMMA IgnoredFlows ==
  ASSUME NEW s, NEW seen, Flow(s, seen), NEW f \in Output, \A x \in seen : x < f,
         s.kind[f] # "output"
  PROVE  Flow(Ignore(s, f), seen \cup {f})
<1> DEFINE t == Ignore(s, f)
<1>1. /\ t \in Streams /\ t.kind = s.kind /\ t.ignored = s.ignored \cup {f}
      /\ t.pending = s.pending /\ t.dropped = s.dropped /\ t.sent = s.sent
  BY IgnoreFields DEF Flow
<1> HIDE DEF t
<1>2. Placed(t.pending, t.dropped, t.ignored, t.sent, seen \cup {f})
  BY <1>1, IgnorePlaces DEF Flow
<1>3. Flow(t, seen \cup {f})
  BY <1>1, <1>2 DEF Flow
<1> QED
  BY <1>3 DEF t

\* The flow does not depend on the helper's state or on what was told.
LEMMA SameFlows ==
  ASSUME NEW s, NEW seen, Flow(s, seen), NEW t \in Streams, t.kind = s.kind,
         t.ignored = s.ignored,
         t.pending = s.pending, t.dropped = s.dropped, t.sent = s.sent
  PROVE  Flow(t, seen)
  BY DEF Flow

\* Telling a status keeps the flow.
LEMMA StatusFlows ==
  ASSUME NEW s, NEW seen, Flow(s, seen), attached \in Client \cup {None}
  PROVE  Flow(SendStatus(s), seen)
<1> DEFINE t == SendStatus(s)
<1>1. /\ t \in Streams /\ t.kind = s.kind /\ t.ignored = s.ignored
      /\ t.pending = s.pending /\ t.dropped = s.dropped /\ t.sent = s.sent
  BY ToldFields DEF Flow
<1> HIDE DEF t
<1>2. Flow(t, seen)
  BY <1>1, SameFlows
<1> QED
  BY <1>2 DEF t

\* Withholding the events that wait keeps the flow.
LEMMA WithheldFlows ==
  ASSUME NEW s, NEW seen, Flow(s, seen)
  PROVE  Flow(Withheld(s), seen)
<1> DEFINE t == Withheld(s)
           p == Only(s.pending, Visible(s))
<1>1. s \in Streams /\ Grows(s.pending) /\ s.pending \in Seq(Output)
  BY DEF Flow, Placed
<1>2. /\ t \in Streams /\ t.kind = s.kind /\ t.ignored = s.ignored \cup (Range(s.pending) \ Range(p))
      /\ t.pending = p /\ t.dropped = s.dropped /\ t.sent = s.sent
  BY <1>1, WithheldFields
<1> HIDE DEF t
<1>3. Placed(p, s.dropped, s.ignored \cup (Range(s.pending) \ Range(p)), s.sent, seen)
  BY WithholdPlaces DEF Flow
<1>4. Range(p) = Range(s.pending) \cap Visible(s)
  BY <1>1, OnlyKeeps
<1> HIDE DEF p
<1>5. \A g \in t.ignored : t.kind[g] # "output"
  BY <1>2, <1>4 DEF Flow, Visible, IsVisible
<1>6. Flow(t, seen)
  BY <1>2, <1>3, <1>5 DEF Flow
<1> QED
  BY <1>6 DEF t

\* And so does disableRemoteEnhancementsRuntime.
LEMMA DisabledFlows ==
  ASSUME NEW s, NEW seen, Flow(s, seen), attached \in Client \cup {None}
  PROVE  Flow(DisableRuntime(s), seen)
  BY WithheldFlows, StatusFlows, Disabling

-----------------------------------------------------------------------------
(* They keep trust.                                                        *)

\* handleShellOutput sends visible output.
LEMMA HandlesOutput == \A s, f : s.kind[f] = "output" => HandleFrame(s, f) = SendFrame(s, f)
  BY DEF HandleFrame, IsVisible

\* handleRemoteShellEvent by the helper's state and the kind of the event.
LEMMA HandlesEvent ==
  ASSUME NEW s, NEW f, s.kind[f] # "output", s.gate \in Gate, s.kind[f] \in Kind
  PROVE  \/ s.gate = "disabled" /\ HandleFrame(s, f) = Ignore(s, f)
         \/ s.gate # "disabled" /\ s.kind[f] = "foreign"
           /\ HandleFrame(s, f) = DisableRuntime(Ignore(s, f))
         \/ s.gate = "pending" /\ s.kind[f] = "start" /\ HandleFrame(s, f) = Ignore(s, f)
         \/ /\ s.gate = "pending" /\ s.kind[f] = "ready"
            /\ HandleFrame(s, f) = SendFrame(SendStatus([s EXCEPT !.gate = "active"]), f)
         \/ /\ s.gate = "active" /\ s.kind[f] \in {"ready", "start"}
            /\ HandleFrame(s, f) = SendFrame([s EXCEPT !.started = @ \/ s.kind[f] = "start"], f)
<1>1. HandleFrame(s, f) = HandleEvent(s, f)
  BY DEF HandleFrame, IsVisible
<1>2. CASE s.gate = "disabled"
  <2>1. HandleEvent(s, f) = Ignore(s, f)
    BY <1>2, Zenon DEF HandleEvent
  <2> QED
    BY <1>1, <1>2, <2>1
<1>3. CASE s.gate # "disabled" /\ s.kind[f] = "foreign"
  <2>1. HandleEvent(s, f) = DisableRuntime(Ignore(s, f))
    BY <1>3, Zenon DEF HandleEvent
  <2> QED
    BY <1>1, <1>3, <2>1
<1>4. CASE s.gate = "pending" /\ s.kind[f] = "start"
  <2>1. HandleEvent(s, f) = Ignore(s, f)
    BY <1>4, Zenon DEF HandleEvent
  <2> QED
    BY <1>1, <1>4, <2>1
<1>5. CASE s.gate = "pending" /\ s.kind[f] = "ready"
  <2>1. HandleEvent(s, f) = SendFrame(SendStatus([s EXCEPT !.gate = "active"]), f)
    BY <1>5, Zenon DEF HandleEvent
  <2> QED
    BY <1>1, <1>5, <2>1
<1>6. CASE s.gate = "active" /\ s.kind[f] \in {"ready", "start"}
  <2>1. HandleEvent(s, f) = SendFrame([s EXCEPT !.started = @ \/ s.kind[f] = "start"], f)
    BY <1>6, Zenon DEF HandleEvent
  <2> QED
    BY <1>1, <1>6, <2>1
<1> QED
  BY <1>2, <1>3, <1>4, <1>5, <1>6 DEF Gate, Kind

\* The fields after a frame was sent or buffered.
LEMMA SendFields ==
  ASSUME NEW s \in Streams, NEW f \in Output, Grows(Append(s.pending, f)),
         attached \in Client \cup {None}
  PROVE  LET t == SendFrame(s, f)
         IN  /\ t \in Streams /\ t.gate = s.gate /\ t.kind = s.kind /\ t.ignored = s.ignored
                  /\ t.told = s.told
             /\ t.sent = IF Reachable THEN [s.sent EXCEPT ![attached] = Append(@, f)] ELSE s.sent
             /\ Range(t.pending) \subseteq Range(s.pending) \cup {f}
             /\ (Reachable => t.pending = s.pending) /\ s.dropped \subseteq t.dropped
<1>1. CASE ~Reachable
  <2> DEFINE t == Buffer(s, f)
  <2>1. /\ t \in Streams /\ t.gate = s.gate /\ t.kind = s.kind /\ t.ignored = s.ignored
             /\ t.sent = s.sent /\ t.told = s.told
        /\ t.pending = Evict(Append(s.pending, f))
        /\ t.dropped = s.dropped \cup (Range(Append(s.pending, f)) \ Range(Evict(Append(s.pending, f))))
    BY BufferFields
  <2>2. SendFrame(s, f) = t
    BY <1>1 DEF SendFrame
  <2> HIDE DEF t
  <2>3. s.pending \in Seq(Output) /\ Append(s.pending, f) \in Seq(Output)
          /\ Range(Append(s.pending, f)) = Range(s.pending) \cup {f}
    BY StreamFields, Appended
  <2>4. Range(t.pending) \subseteq Range(Append(s.pending, f))
    BY <2>1, <2>3, EvictKeeps
  <2> QED
    BY <1>1, <2>1, <2>2, <2>3, <2>4
<1>2. CASE Reachable
  <2>1. attached \in Client /\ f \in Frame
    BY <1>2, FrameNumbers DEF Reachable
  <2> DEFINE t == [s EXCEPT !.sent[attached] = Append(@, f)]
  <2>2. /\ t \in Streams /\ t.gate = s.gate /\ t.kind = s.kind /\ t.ignored = s.ignored
             /\ t.told = s.told
        /\ t.pending = s.pending /\ t.dropped = s.dropped
        /\ t.sent = [s.sent EXCEPT ![attached] = Append(@, f)]
    BY <2>1, SentFields
  <2>3. SendFrame(s, f) = t
    BY <1>2 DEF SendFrame
  <2> HIDE DEF t
  <2> QED
    BY <1>2, <2>2, <2>3
<1> QED
  BY <1>1, <1>2

\* A handshake that was heard stays heard.
LEMMA ReadyStays == ASSUME NEW k, NEW seen, NEW more, seen \subseteq more, NEW f, HeardReady(k, seen, f)
  PROVE HeardReady(k, more, f)
  BY DEF HeardReady

\* A frame is heard before it is handled, without breaking trust.
LEMMA Hears ==
  ASSUME NEW s, NEW seen, s \in Streams, Recv(s.sent) \subseteq seen, Trusted(s, seen),
         NEW f \in Output, \A x \in seen : x < f,
         s.kind[f] = "foreign" => s.gate = "disabled" \/ f \in s.dropped
  PROVE  Trusted(s, seen \cup {f})
<1>1. ClearOfForeign(s, seen \cup {f}) /\ ShookHands(s, seen \cup {f}) /\ ToldInTime(s)
  BY DEF Trusted, ClearOfForeign, ShookHands
<1>2. KeepsTrusted(s, seen \cup {f})
  BY ReadyStays DEF Trusted, KeepsTrusted
<1>3. ASSUME NEW c \in Client, NEW i \in 1..Len(s.sent[c]) PROVE MayReceive(s, seen \cup {f}, c, i)
  <2>1. MayReceive(s, seen, c, i)
    BY <1>3 DEF Trusted, SendsTrusted
  <2>2. s.sent[c][i] \in Output => s.sent[c][i] < f /\ s.sent[c][i] \in Nat /\ f \in Nat
    <3>1. s.sent \in [Client -> Seq(Frame)] /\ Recv(s.sent) \subseteq seen
      BY StreamFields
    <3>2. s.sent[c][i] \in Range(s.sent[c])
      BY <3>1, InRange
    <3>3. s.sent[c][i] \in Output => s.sent[c][i] \in Recv(s.sent)
      BY <3>1, <3>2, ReceivedBySome
    <3> QED
      BY <3>1, <3>3, Numbers
  <2>3. s.sent[c][i] \in Output => ~(f <= s.sent[c][i])
    BY <2>2
  <2> DEFINE g == s.sent[c][i]
  <2>4. \A k : HeardReady(k, seen, g) => HeardReady(k, seen \cup {f}, g)
    BY ReadyStays
  <2> HIDE DEF g
  <2> QED
    BY <2>1, <2>3, <2>4 DEF MayReceive, g
<1> QED
  BY <1>1, <1>2, <1>3 DEF Trusted, SendsTrusted

\* A frame that is visible, or an event of an active helper after its
\* handshake, may go to the client or wait.
LEMMA StaysTrusted ==
  ASSUME NEW s \in Streams, NEW t, NEW seen, Trusted(s, seen), KnowsGate(s),
         attached \in Client \cup {None},
         NEW f \in Frame,
         f \in Output /\ s.kind[f] # "output" => s.gate = "active" /\ HeardReady(s.kind, seen, f),
         t.gate = s.gate, t.kind = s.kind, t.told = s.told,
         t.sent = IF Reachable THEN [s.sent EXCEPT ![attached] = Append(@, f)] ELSE s.sent,
         Range(t.pending) \subseteq Range(s.pending) \cup ({f} \cap Output), s.dropped \subseteq t.dropped
  PROVE  Trusted(t, seen) /\ KnowsGate(t)
<1>1. /\ t.gate = s.gate /\ t.kind = s.kind /\ t.told = s.told
      /\ t.sent = IF Reachable THEN [s.sent EXCEPT ![attached] = Append(@, f)] ELSE s.sent
      /\ Range(t.pending) \subseteq Range(s.pending) \cup ({f} \cap Output)
      /\ s.dropped \subseteq t.dropped
  OBVIOUS
<1>2. KnowsGate(t) /\ ClearOfForeign(t, seen) /\ ShookHands(t, seen)
  BY <1>1 DEF KnowsGate, Trusted, ClearOfForeign, ShookHands
<1>3. KeepsTrusted(t, seen)
  BY <1>1 DEF Trusted, KeepsTrusted
<1>4. s.sent \in [Client -> Seq(Frame)] /\ s.told \in [Client -> Seq(Status)]
  BY StreamFields
<1>5. ASSUME NEW c \in Client
      PROVE  /\ Len(s.sent[c]) \in Nat /\ Len(t.sent[c]) \in Nat /\ Len(s.sent[c]) <= Len(t.sent[c])
             /\ \A i \in 1..Len(t.sent[c]) :
                  \/ i \in 1..Len(s.sent[c]) /\ t.sent[c][i] = s.sent[c][i]
                  \/ Reachable /\ c = attached /\ i = Len(s.sent[c]) + 1 /\ t.sent[c][i] = f
  <2>1. s.sent[c] \in Seq(Frame) /\ Len(s.sent[c]) \in Nat
    BY <1>4
  <2>2. CASE Reachable /\ c = attached
    <3>1. t.sent[c] = Append(s.sent[c], f)
      BY <1>1, <1>4, <2>2
    <3> DEFINE q == s.sent[c]
    <3>2. /\ Len(Append(q, f)) = Len(q) + 1 /\ Len(q) \in Nat
          /\ \A i \in 1..Len(q) : Append(q, f)[i] = q[i]
          /\ Append(q, f)[Len(q) + 1] = f
          /\ \A i \in 1..(Len(q) + 1) : i \in 1..Len(q) \/ i = Len(q) + 1
      BY <1>4, <2>1, Appended
    <3> HIDE DEF q
    <3>3. \A i \in 1..Len(Append(q, f)) : \/ i \in 1..Len(q) /\ Append(q, f)[i] = q[i]
                                          \/ i = Len(q) + 1 /\ Append(q, f)[i] = f
      BY <3>2
    <3>4. Len(Append(q, f)) \in Nat /\ Len(q) <= Len(Append(q, f))
      BY <3>2
    <3> QED
      BY <2>2, <3>1, <3>2, <3>3, <3>4 DEF q
  <2>3. CASE ~(Reachable /\ c = attached)
    <3>1. t.sent[c] = s.sent[c]
      BY <1>1, <1>4, <2>3
    <3> QED
      BY <2>1, <3>1
  <2> QED
    BY <2>2, <2>3
<1>6. ToldInTime(t)
  <2>1. ASSUME NEW c \in Client, NEW j \in 1..Len(s.told[c]) PROVE s.told[c][j].at <= Len(t.sent[c])
    <3>1. s.told[c][j].at \in Nat
      <4>1. s.told[c] \in Seq(Status)
        BY <1>4
      <4>2. s.told[c][j] \in Status
        BY <4>1
      <4>3. s.told[c][j].at \in 0..(MaxOutput + 2)
        BY <4>2 DEF Status
      <4> QED
        BY <4>3, Numbers
    <3>2. s.told[c][j].at <= Len(s.sent[c])
      BY DEF Trusted, ToldInTime
    <3> QED
      BY <1>5, <3>1, <3>2
  <2> QED
    BY <1>1, <2>1 DEF ToldInTime
<1>7. ASSUME NEW c \in Client, NEW i \in 1..Len(t.sent[c]) PROVE MayReceive(t, seen, c, i)
  <2>1. CASE i \in 1..Len(s.sent[c]) /\ t.sent[c][i] = s.sent[c][i]
    <3>1. MayReceive(s, seen, c, i)
      BY <2>1 DEF Trusted, SendsTrusted
    <3> QED
      BY <1>1, <2>1, <3>1 DEF MayReceive
  <2>2. CASE Reachable /\ c = attached /\ i = Len(s.sent[c]) + 1 /\ t.sent[c][i] = f
    <3>1. SUFFICES ASSUME f \in Output, s.kind[f] # "output" PROVE MayReceive(t, seen, c, i)
      BY <1>1, <2>2 DEF MayReceive
    <3>2. s.gate = "active" /\ HeardReady(s.kind, seen, f)
      BY <3>1
    <3>3. ToldActive(s.told[c], i)
      <4> DEFINE tl == s.told[c]
                 n == Len(tl)
      <4>1. tl \in Seq(Status) /\ n \in Nat /\ tl # << >> /\ Last(tl).state = "active"
        BY <1>4, <2>2, <3>2 DEF KnowsGate
      <4>2. n \in 1..n /\ tl[n].state = "active"
        BY <4>1 DEF Last
      <4>3. tl[n].at < i
        <5>1. tl[n].at <= Len(s.sent[c]) /\ tl[n] \in Status
          BY <4>1, <4>2 DEF Trusted, ToldInTime
        <5> QED
          <6>1. tl[n].at \in Nat
            BY <5>1, Numbers DEF Status
          <6>2. Len(s.sent[c]) \in Nat /\ i = Len(s.sent[c]) + 1
            BY <1>5, <2>2
          <6> HIDE DEF n, tl
          <6> QED
            BY <5>1, <6>1, <6>2
      <4> HIDE DEF tl
      <4>4. \A l \in (n + 1)..n : FALSE
        BY <4>1
      <4> QED
        BY <4>2, <4>3, <4>4 DEF ToldActive, tl
    <3>4. \A o \in seen : s.kind[o] = "foreign" => o \in t.dropped
      BY <1>1, <3>2 DEF Trusted, ClearOfForeign
    <3> QED
      BY <1>1, <2>2, <3>2, <3>3, <3>4 DEF MayReceive
  <2> QED
    BY <1>5, <2>1, <2>2
<1> QED
  BY <1>2, <1>3, <1>6, <1>7 DEF Trusted, SendsTrusted

\* sendServerMessage keeps trust for such a frame.
LEMMA SendsTrustedFrame ==
  ASSUME NEW s, NEW seen, s \in Streams, Trusted(s, seen), KnowsGate(s),
         attached \in Client \cup {None},
         NEW f \in Output, Grows(Append(s.pending, f)),
         s.kind[f] # "output" => s.gate = "active" /\ HeardReady(s.kind, seen, f)
  PROVE  Trusted(SendFrame(s, f), seen) /\ KnowsGate(SendFrame(s, f))
<1> DEFINE t == SendFrame(s, f)
<1>1. /\ t.gate = s.gate /\ t.kind = s.kind /\ t.told = s.told
      /\ t.sent = IF Reachable THEN [s.sent EXCEPT ![attached] = Append(@, f)] ELSE s.sent
      /\ Range(t.pending) \subseteq Range(s.pending) \cup {f}
      /\ s.dropped \subseteq t.dropped
  BY SendFields
<1>2. f \in Frame /\ {f} \cap Output = {f}
  BY FrameNumbers
<1> HIDE DEF t
<1>3. Trusted(t, seen) /\ KnowsGate(t)
  BY <1>1, <1>2, StaysTrusted
<1> QED
  BY <1>3 DEF t

\* After a status the client knows the helper's state.
LEMMA TellsStatus ==
  ASSUME NEW s, NEW seen, s \in Streams, Ordered(s.sent), Trusted(s, seen),
         attached \in Client \cup {None}
  PROVE  Trusted(SendStatus(s), seen) /\ KnowsGate(SendStatus(s))
<1> DEFINE t == SendStatus(s)
           status == [state |-> s.gate, at |-> Len(s.sent[attached])]
<1>1. /\ t \in Streams /\ t.gate = s.gate /\ t.kind = s.kind
      /\ t.pending = s.pending /\ t.dropped = s.dropped /\ t.sent = s.sent
      /\ t.told = IF Reachable THEN [s.told EXCEPT ![attached] = Append(@, status)] ELSE s.told
  BY ToldFields
<1> HIDE DEF t
<1>2. CASE ~Reachable
  <2>1. KnowsGate(t)
    BY <1>2 DEF KnowsGate
  <2>2. Trusted(t, seen)
    BY <1>1, <1>2 DEF Trusted, ClearOfForeign, ShookHands, KeepsTrusted, SendsTrusted,
       MayReceive, ToldInTime
  <2> QED
    BY <2>1, <2>2 DEF t
<1>3. CASE Reachable
  <2>1. attached \in Client /\ s.sent \in [Client -> Seq(Frame)] /\ s.told \in [Client -> Seq(Status)]
    BY <1>3, StreamFields DEF Reachable
  <2> DEFINE tl == s.told[attached]
  <2>2. status \in Status /\ status.state = s.gate /\ status.at = Len(s.sent[attached])
          /\ status.at \in Nat
    <3>1. Len(s.sent[attached]) \in 0..(MaxOutput + 2)
      BY <2>1, FewFrames DEF Ordered
    <3> QED
      BY <3>1, StreamFields, Numbers DEF Status
  <2> HIDE DEF status
  <2>3. /\ Append(tl, status) \in Seq(Status) /\ Len(Append(tl, status)) = Len(tl) + 1
             /\ Len(tl) \in Nat
        /\ \A j \in 1..Len(tl) : Append(tl, status)[j] = tl[j]
        /\ Append(tl, status)[Len(tl) + 1] = status
        /\ \A j \in 1..(Len(tl) + 1) : j \in 1..Len(tl) \/ j = Len(tl) + 1
    BY <2>1, <2>2, Appended
  <2>4. \A c \in Client : t.told[c] = IF c = attached THEN Append(tl, status) ELSE s.told[c]
    BY <1>1, <1>3, <2>1
  <2>5. KnowsGate(t)
    <3>1. Append(tl, status) # << >>
      BY <2>3
    <3>2. Last(Append(tl, status)) = status
      BY <2>3 DEF Last
    <3> QED
      BY <1>1, <2>1, <2>2, <2>4, <3>1, <3>2 DEF KnowsGate
  <2>6. ToldInTime(t)
    <3>1. ASSUME NEW j \in 1..Len(Append(tl, status))
          PROVE Append(tl, status)[j].at <= Len(s.sent[attached])
      <4>1. CASE j \in 1..Len(tl)
        BY <2>1, <2>3, <4>1 DEF Trusted, ToldInTime
      <4>2. CASE j = Len(tl) + 1
        BY <2>2, <2>3, <4>2
      <4> QED
        BY <2>3, <4>1, <4>2
    <3> QED
      BY <1>1, <2>1, <2>4, <3>1 DEF Trusted, ToldInTime
  <2>7. ASSUME NEW c \in Client, NEW i \in 1..Len(s.sent[c]), ToldActive(s.told[c], i)
        PROVE  ToldActive(t.told[c], i)
    <3>1. CASE c # attached
      BY <2>4, <2>7, <3>1
    <3>2. CASE c = attached
      <4>1. PICK j \in 1..Len(tl) : /\ tl[j].state = "active" /\ tl[j].at < i
                                    /\ \A l \in (j + 1)..Len(tl) : tl[l].at >= i
        BY <2>7, <3>2 DEF ToldActive
      <4> DEFINE p == Append(tl, status)
      <4>2. j \in 1..Len(p) /\ p[j] = tl[j]
        BY <2>3
      <4>3. \A l \in (j + 1)..Len(p) : l \in (j + 1)..Len(tl) \/ l = Len(tl) + 1
        BY <2>3
      <4>4. \A l \in (j + 1)..Len(tl) : p[l] = tl[l]
        BY <2>3
      <4>5. status.at >= i
        BY <2>2, <2>7, <3>2
      <4>6. p[Len(tl) + 1] = status
        BY <2>3
      <4> HIDE DEF p
      <4>7. \A l \in (j + 1)..Len(p) : p[l].at >= i
        BY <4>1, <4>3, <4>4, <4>5, <4>6
      <4>8. ToldActive(p, i)
        BY <4>1, <4>2, <4>7 DEF ToldActive
      <4> QED
        BY <2>4, <3>2, <4>8 DEF p
    <3> QED
      BY <3>1, <3>2
  <2>8. SendsTrusted(t, seen)
    BY <1>1, <2>7 DEF Trusted, SendsTrusted, MayReceive
  <2>9. Trusted(t, seen)
    BY <1>1, <2>6, <2>8 DEF Trusted, ClearOfForeign, ShookHands, KeepsTrusted
  <2> QED
    BY <2>5, <2>9 DEF t
<1> QED
  BY <1>2, <1>3

\* Fewer frames that wait, and more evicted, keep trust.
LEMMA SameTrust ==
  ASSUME NEW s, NEW seen, NEW t, Trusted(s, seen), t.gate = s.gate, t.kind = s.kind,
         Range(t.pending) \subseteq Range(s.pending),
         s.dropped \subseteq t.dropped, t.sent = s.sent, t.told = s.told
  PROVE  Trusted(t, seen) /\ (KnowsGate(s) => KnowsGate(t))
  BY DEF Trusted, ClearOfForeign, ShookHands, KeepsTrusted, SendsTrusted, MayReceive,
     ToldInTime, KnowsGate

\* The handshake: a helper becomes active with no event waiting and nothing
\* foreign heard that was not evicted.
LEMMA Activates ==
  ASSUME NEW s, NEW seen, s \in Streams, Trusted(s, seen), s.gate = "pending",
         NEW f \in seen, s.kind[f] = "ready"
  PROVE  Trusted([s EXCEPT !.gate = "active"], seen)
<1> DEFINE t == [s EXCEPT !.gate = "active"]
<1>1. /\ t.gate = "active" /\ t.kind = s.kind /\ t.pending = s.pending /\ t.dropped = s.dropped
           /\ t.sent = s.sent /\ t.told = s.told
  BY GateFields DEF Gate
<1> HIDE DEF t
<1>2. ClearOfForeign(t, seen) /\ ShookHands(t, seen) /\ KeepsTrusted(t, seen)
  BY <1>1 DEF Trusted, ClearOfForeign, ShookHands, KeepsTrusted
<1>3. SendsTrusted(t, seen) /\ ToldInTime(t)
  BY <1>1 DEF Trusted, SendsTrusted, MayReceive, ToldInTime
<1>4. Trusted(t, seen)
  BY <1>2, <1>3 DEF Trusted
<1> QED
  BY <1>4 DEF t

\* A helper is given up with no event waiting.
LEMMA Distrusts ==
  ASSUME NEW s, NEW seen, s \in Streams, Grows(s.pending), Ordered(s.sent),
         Trusted(s, seen),
         attached \in Client \cup {None}
  PROVE  Trusted(DisableRuntime(s), seen) /\ KnowsGate(DisableRuntime(s))
<1> DEFINE t == Withheld(s)
<1>1. s \in Streams /\ Grows(s.pending) /\ s.pending \in Seq(Output)
  BY StreamFields
<1>2. /\ t \in Streams /\ t.gate = "disabled" /\ t.kind = s.kind
      /\ t.pending = Only(s.pending, Visible(s)) /\ t.dropped = s.dropped /\ t.sent = s.sent
           /\ t.told = s.told
  BY <1>1, WithheldFields
<1>3. Range(Only(s.pending, Visible(s))) \subseteq Visible(s)
  BY <1>1, OnlyKeeps
<1> HIDE DEF t
<1>4. ClearOfForeign(t, seen) /\ ShookHands(t, seen)
  BY <1>2 DEF ClearOfForeign, ShookHands
<1>5. KeepsTrusted(t, seen)
  BY <1>2, <1>3 DEF KeepsTrusted, Visible, IsVisible
<1>6. SendsTrusted(t, seen) /\ ToldInTime(t)
  BY <1>2 DEF Trusted, SendsTrusted, MayReceive, ToldInTime
<1>7. Trusted(t, seen) /\ Ordered(t.sent)
  BY <1>2, <1>4, <1>5, <1>6 DEF Trusted
<1>8. Trusted(SendStatus(t), seen) /\ KnowsGate(SendStatus(t))
  BY <1>2, <1>7, TellsStatus
<1> QED
  BY <1>8, Disabling DEF t

\* The fields disableRemoteEnhancementsRuntime leaves alone.
LEMMA DisabledFields ==
  ASSUME NEW s \in Streams, Grows(s.pending), Ordered(s.sent),
         attached \in Client \cup {None}
  PROVE  LET t == DisableRuntime(s)
         IN  /\ t \in Streams /\ t.kind = s.kind /\ t.dropped = s.dropped /\ t.sent = s.sent
                  /\ t.gate = "disabled"
             /\ (~Reachable => t.told = s.told)
             /\ (s.pending = << >> => t.pending = << >>)
             /\ Range(t.pending) \subseteq Visible(s)
<1> DEFINE w == Withheld(s)
           t == SendStatus(w)
<1>1. /\ w \in Streams /\ w.kind = s.kind /\ w.pending = Only(s.pending, Visible(s))
      /\ w.dropped = s.dropped /\ w.sent = s.sent /\ w.told = s.told /\ w.gate = "disabled"
  BY WithheldFields
<1> HIDE DEF w
<1>2. /\ t \in Streams /\ t.kind = w.kind /\ t.dropped = w.dropped /\ t.sent = w.sent
           /\ t.pending = w.pending
      /\ (~Reachable => t.told = w.told) /\ t.gate = w.gate
  BY <1>1, ToldFields
<1> HIDE DEF t
<1>3. s.pending \in Seq(Output)
  BY StreamFields
<1>4. s.pending = << >> => Only(s.pending, Visible(s)) = << >>
  <2>1. SUFFICES ASSUME s.pending = << >> PROVE Only(s.pending, Visible(s)) = << >>
    OBVIOUS
  <2> DEFINE p == Only(s.pending, Visible(s))
  <2>2. p \in Seq(Output) /\ Len(p) <= Len(s.pending)
    BY <1>3, OnlyKeeps
  <2> HIDE DEF p
  <2>3. Len(p) = 0
    BY <2>1, <2>2, RangeOfNothing
  <2> QED
    BY <2>2, <2>3 DEF p
<1>5. Range(Only(s.pending, Visible(s))) \subseteq Visible(s)
  BY <1>3, OnlyKeeps
<1>6. DisableRuntime(s) = t
  BY Disabling DEF t, w
<1> QED
  BY <1>1, <1>2, <1>4, <1>5, <1>6

-----------------------------------------------------------------------------
(* The whole handler.                                                      *)

\* What the handler is given: the next frame of a stream that may take it.
Takes(s, seen, f) ==
    /\ Flow(s, seen) /\ CanTake(s) /\ f \in Output /\ f \in 1..Len(s.kind)
    /\ \A x \in seen : x < f

\* What follows from that.
LEMMA TakesFacts ==
  ASSUME NEW s, NEW seen, NEW f, Takes(s, seen, f)
  PROVE  /\ s \in Streams /\ s.gate \in Gate /\ s.kind[f] \in Kind /\ f \in Output
         /\ Grows(s.pending) /\ s.pending \in Seq(Output) /\ Ordered(s.sent)
              /\ Grows(Append(s.pending, f))
         /\ Recv(s.sent) \subseteq seen
<1>1. /\ s \in Streams /\ Grows(s.pending) /\ s.pending \in Seq(Output) /\ Ordered(s.sent)
      /\ Recv(s.sent) \subseteq seen /\ Range(s.pending) \subseteq seen /\ f \in Output
           /\ f \in 1..Len(s.kind)
      /\ \A x \in seen : x < f
  BY DEF Takes, Flow, Placed
<1>2. s.gate \in Gate /\ s.kind \in Seq(Kind)
  BY <1>1, StreamFields
<1>3. Grows(Append(s.pending, f))
  BY <1>1, AppendGrows, Numbers
<1> QED
  BY <1>1, <1>2, <1>3

\* The handler may go on with the frame after the handshake.
LEMMA ActiveTakes ==
  ASSUME NEW s, NEW seen, NEW f, Takes(s, seen, f), attached \in Client \cup {None}
  PROVE  LET t == SendStatus([s EXCEPT !.gate = "active"])
         IN  /\ Takes(t, seen, f) /\ t.gate = "active" /\ t.kind = s.kind /\ t.pending = s.pending
             /\ t.sent = s.sent /\ (~Reachable => t.told = s.told)
<1> DEFINE a == [s EXCEPT !.gate = "active"]
           t == SendStatus(a)
<1>1. s \in Streams /\ Ordered(s.sent)
  BY TakesFacts
<1>2. /\ a \in Streams /\ a.gate = "active" /\ a.kind = s.kind /\ a.ignored = s.ignored
      /\ a.pending = s.pending /\ a.dropped = s.dropped /\ a.sent = s.sent /\ a.told = s.told
  BY <1>1, GateFields DEF Gate
<1> HIDE DEF a
<1>3. Flow(a, seen)
  BY <1>2, SameFlows DEF Takes
<1>4. /\ t \in Streams /\ t.gate = a.gate /\ t.kind = a.kind /\ t.pending = a.pending /\ t.sent = a.sent
      /\ (~Reachable => t.told = a.told)
  BY <1>1, <1>2, ToldFields
<1>5. Flow(t, seen)
  BY <1>3, StatusFlows
<1> HIDE DEF t
<1>6. Takes(t, seen, f)
  BY <1>2, <1>4, <1>5 DEF Takes, CanTake
<1> QED
  BY <1>2, <1>4, <1>6 DEF t, a

\* And after a command was seen to start.
LEMMA StartedTakes ==
  ASSUME NEW s, NEW seen, NEW f, Takes(s, seen, f)
  PROVE  LET t == [s EXCEPT !.started = @ \/ s.kind[f] = "start"]
         IN  /\ Takes(t, seen, f) /\ t.gate = s.gate /\ t.kind = s.kind /\ t.pending = s.pending
             /\ t.dropped = s.dropped /\ t.sent = s.sent /\ t.told = s.told
<1> DEFINE b == s.kind[f] = "start"
           t == [s EXCEPT !.started = @ \/ b]
<1>1. s \in Streams /\ b \in BOOLEAN
  BY TakesFacts
<1> HIDE DEF b
<1>2. /\ t \in Streams /\ t.gate = s.gate /\ t.kind = s.kind /\ t.ignored = s.ignored
      /\ t.pending = s.pending /\ t.dropped = s.dropped /\ t.sent = s.sent /\ t.told = s.told
  BY <1>1, StartedFields
<1> HIDE DEF t
<1>3. Flow(t, seen)
  BY <1>2, SameFlows DEF Takes
<1>4. Takes(t, seen, f)
  BY <1>2, <1>3 DEF Takes, CanTake
<1> QED
  BY <1>2, <1>4 DEF t, b

\* The handler of a frame keeps the flow.
LEMMA HandleFlows ==
  ASSUME NEW s, NEW seen, NEW f, Takes(s, seen, f), attached \in Client \cup {None}
  PROVE  Flow(HandleFrame(s, f), seen \cup {f})
<1>1. /\ Flow(s, seen) /\ CanTake(s) /\ f \in Output /\ \A x \in seen : x < f
      /\ s.gate \in Gate /\ s.kind[f] \in Kind
  BY TakesFacts DEF Takes
<1>2. CASE s.kind[f] = "output"
  <2>1. Flow(SendFrame(s, f), seen \cup {f})
    BY <1>1, FrameFlows
  <2> QED
    BY <1>2, <2>1, HandlesOutput
<1>3. CASE s.kind[f] # "output"
  <2>1. Flow(Ignore(s, f), seen \cup {f})
    BY <1>1, <1>3, IgnoredFlows
  <2>2. Flow(DisableRuntime(Ignore(s, f)), seen \cup {f})
    BY <2>1, DisabledFlows
  <2>3. Flow(SendFrame(SendStatus([s EXCEPT !.gate = "active"]), f), seen \cup {f})
    <3> DEFINE t == SendStatus([s EXCEPT !.gate = "active"])
    <3>1. Takes(t, seen, f)
      BY ActiveTakes
    <3> HIDE DEF t
    <3>2. Flow(SendFrame(t, f), seen \cup {f})
      BY <1>1, <3>1, FrameFlows DEF Takes
    <3> QED
      BY <3>2 DEF t
  <2>4. Flow(SendFrame([s EXCEPT !.started = @ \/ s.kind[f] = "start"], f), seen \cup {f})
    <3> DEFINE t == [s EXCEPT !.started = @ \/ s.kind[f] = "start"]
    <3>1. Takes(t, seen, f)
      BY StartedTakes
    <3> HIDE DEF t
    <3>2. Flow(SendFrame(t, f), seen \cup {f})
      BY <1>1, <3>1, FrameFlows DEF Takes
    <3> QED
      BY <3>2 DEF t
  <2>5. \/ HandleFrame(s, f) = Ignore(s, f) \/ HandleFrame(s, f) = DisableRuntime(Ignore(s, f))
        \/ HandleFrame(s, f) = SendFrame(SendStatus([s EXCEPT !.gate = "active"]), f)
        \/ HandleFrame(s, f) = SendFrame([s EXCEPT !.started = @ \/ s.kind[f] = "start"], f)
    BY <1>1, <1>3, HandlesEvent
  <2> QED
    BY <2>1, <2>2, <2>3, <2>4, <2>5
<1> QED
  BY <1>2, <1>3

\* Withholding a frame keeps trust.
LEMMA IgnoresTrusted ==
  ASSUME NEW s, NEW seen, NEW f \in Output, s \in Streams, Trusted(s, seen), KnowsGate(s)
  PROVE  Trusted(Ignore(s, f), seen) /\ KnowsGate(Ignore(s, f))
<1> DEFINE t == Ignore(s, f)
<1>1. /\ t.gate = s.gate /\ t.kind = s.kind /\ t.pending = s.pending /\ t.dropped = s.dropped
      /\ t.sent = s.sent /\ t.told = s.told
  BY IgnoreFields
<1> HIDE DEF t
<1>2. Trusted(t, seen) /\ KnowsGate(t)
  BY <1>1, SameTrust
<1> QED
  BY <1>2 DEF t

\* The handler of a frame keeps trust.
LEMMA HandleTrusts ==
  ASSUME NEW s, NEW seen, NEW f, Takes(s, seen, f), attached \in Client \cup {None},
         Trusted(s, seen), KnowsGate(s)
  PROVE  Trusted(HandleFrame(s, f), seen \cup {f}) /\ KnowsGate(HandleFrame(s, f))
<1> DEFINE more == seen \cup {f}
<1>1. /\ Flow(s, seen) /\ f \in Output /\ \A x \in seen : x < f
      /\ s \in Streams /\ s.gate \in Gate /\ s.kind[f] \in Kind
      /\ Grows(s.pending) /\ Ordered(s.sent) /\ Grows(Append(s.pending, f))
           /\ Recv(s.sent) \subseteq seen
  BY TakesFacts DEF Takes
<1>2. s.kind[f] # "foreign" \/ s.gate = "disabled" => Trusted(s, more)
  BY <1>1, Hears
<1>3. CASE s.kind[f] = "output"
  <2>1. Trusted(s, more)
    BY <1>2, <1>3
  <2> HIDE DEF more
  <2>2. Trusted(SendFrame(s, f), more) /\ KnowsGate(SendFrame(s, f))
    BY <1>1, <1>3, <2>1, SendsTrustedFrame
  <2> QED
    BY <1>3, <2>2, HandlesOutput DEF more
<1>4. CASE s.kind[f] # "output"
  <2>1. CASE (s.gate = "disabled" \/ s.kind[f] = "start") /\ HandleFrame(s, f) = Ignore(s, f)
    <3>1. Trusted(s, more)
      BY <1>2, <2>1
    <3> HIDE DEF more
    <3>2. Trusted(Ignore(s, f), more) /\ KnowsGate(Ignore(s, f))
      BY <1>1, <3>1, IgnoresTrusted
    <3> QED
      BY <2>1, <3>2 DEF more
  <2>2. CASE HandleFrame(s, f) = DisableRuntime(Ignore(s, f))
    <3> DEFINE i == Ignore(s, f)
               d == DisableRuntime(i)
    <3>1. Trusted(i, seen)
      BY <1>1, IgnoresTrusted
    <3>2. i \in Streams /\ i.pending = s.pending /\ i.sent = s.sent
      BY <1>1, IgnoreFields
    <3> HIDE DEF i
    <3>3. Trusted(d, seen) /\ KnowsGate(d)
      BY <1>1, <3>1, <3>2, Distrusts
    <3>4. d \in Streams /\ d.sent = s.sent /\ d.gate = "disabled"
      BY <1>1, <3>2, DisabledFields
    <3> HIDE DEF d
    <3>5. Trusted(d, more)
      BY <1>1, <3>3, <3>4, Hears
    <3> QED
      BY <2>2, <3>3, <3>5 DEF i, d
  <2>3. CASE /\ s.gate = "pending" /\ s.kind[f] = "ready"
             /\ HandleFrame(s, f) = SendFrame(SendStatus([s EXCEPT !.gate = "active"]), f)
    <3> DEFINE a == [s EXCEPT !.gate = "active"]
               t == SendStatus(a)
    <3>1. Trusted(s, more) /\ f \in more
      BY <1>2, <2>3
    <3> HIDE DEF more
    <3>2. Trusted(a, more)
      BY <1>1, <2>3, <3>1, Activates
    <3>3. a \in Streams /\ a.sent = s.sent
      BY <1>1, GateFields DEF Gate
    <3>4. t.gate = "active" /\ t.kind = s.kind /\ t.pending = s.pending /\ t \in Streams
      BY ActiveTakes, TakesFacts
    <3> HIDE DEF a
    <3>5. Trusted(t, more) /\ KnowsGate(t)
      BY <1>1, <3>2, <3>3, TellsStatus
    <3> HIDE DEF t
    <3>6. HeardReady(t.kind, more, f)
      <4>1. f <= f
        BY <1>1, Numbers
      <4> QED
        BY <2>3, <3>1, <3>4, <4>1 DEF HeardReady
    <3>7. Grows(Append(t.pending, f))
      BY <1>1, <3>4
    <3>8. Trusted(SendFrame(t, f), more) /\ KnowsGate(SendFrame(t, f))
      BY <1>1, <3>4, <3>5, <3>6, <3>7, SendsTrustedFrame
    <3> QED
      BY <2>3, <3>8 DEF t, a, more
  <2>4. CASE /\ s.gate = "active" /\ s.kind[f] \in {"ready", "start"}
             /\ HandleFrame(s, f) = SendFrame([s EXCEPT !.started = @ \/ s.kind[f] = "start"], f)
    <3> DEFINE t == [s EXCEPT !.started = @ \/ s.kind[f] = "start"]
    <3>1. Trusted(s, more)
      BY <1>2, <2>4
    <3>2. /\ t.gate = "active" /\ t.kind = s.kind /\ t.pending = s.pending /\ t.dropped = s.dropped
          /\ t.sent = s.sent /\ t.told = s.told /\ t \in Streams
      <4>1. /\ Takes(t, seen, f) /\ t.gate = s.gate /\ t.kind = s.kind /\ t.pending = s.pending
            /\ t.dropped = s.dropped /\ t.sent = s.sent /\ t.told = s.told
        BY StartedTakes
      <4> HIDE DEF t
      <4> QED
        BY <2>4, <4>1, TakesFacts
    <3> HIDE DEF t
    <3>3. Trusted(t, more) /\ KnowsGate(t)
      <4>1. Range(t.pending) \subseteq Range(s.pending) /\ s.dropped \subseteq t.dropped
              /\ t.gate = s.gate
        BY <2>4, <3>2
      <4> HIDE DEF more
      <4> QED
        BY <3>1, <3>2, <4>1, SameTrust
    <3>4. HeardReady(t.kind, more, f)
      <4>1. PICK o \in more : s.kind[o] = "ready"
        BY <2>4, <3>1 DEF Trusted, ShookHands
      <4>2. o <= f
        <5>1. f \in Nat /\ \A x \in seen : x < f
          BY <1>1, Numbers
        <5>2. seen \subseteq Output
          BY <1>1, InRange DEF Flow, Placed, Recv
        <5>3. o \in Nat /\ (o < f \/ o = f)
          BY <1>1, <5>1, <5>2, Numbers
        <5> QED
          BY <5>1, <5>3
      <4> QED
        BY <3>2, <4>1, <4>2 DEF HeardReady
    <3>5. Grows(Append(t.pending, f))
      BY <1>1, <3>2
    <3> HIDE DEF more
    <3>6. Trusted(SendFrame(t, f), more) /\ KnowsGate(SendFrame(t, f))
      BY <1>1, <3>2, <3>3, <3>4, <3>5, SendsTrustedFrame
    <3> QED
      BY <2>4, <3>6 DEF t, more
  <2> HIDE DEF more
  <2> QED
    BY <1>1, <1>4, <2>1, <2>2, <2>3, <2>4, HandlesEvent DEF more
<1> QED
  BY <1>3, <1>4

\* What the handler of a frame may change.
LEMMA HandleFields ==
  ASSUME NEW s, NEW seen, NEW f, Takes(s, seen, f), attached \in Client \cup {None}
  PROVE  LET t == HandleFrame(s, f)
         IN  /\ t.kind = s.kind
             /\ t.sent = s.sent \/ (Reachable /\ t.sent = [s.sent EXCEPT ![attached] = Append(@, f)])
             /\ Reachable => t.pending = << >>
             /\ ~Reachable => t.told = s.told
<1>1. /\ s \in Streams /\ s.gate \in Gate /\ s.kind[f] \in Kind /\ f \in Output
      /\ Grows(s.pending) /\ Ordered(s.sent) /\ Grows(Append(s.pending, f))
           /\ (Reachable => s.pending = << >>)
  BY TakesFacts DEF Takes, CanTake
<1> DEFINE landed == [s.sent EXCEPT ![attached] = Append(@, f)]
<1> HIDE DEF landed
<1> DEFINE Goal == LET t == HandleFrame(s, f)
                   IN  /\ t.kind = s.kind
                       /\ t.sent = s.sent \/ (Reachable /\ t.sent = landed)
                       /\ Reachable => t.pending = << >>
                       /\ ~Reachable => t.told = s.told
<1>2. ASSUME NEW u, Takes(u, seen, f), u.kind = s.kind, u.sent = s.sent, ~Reachable => u.told = s.told
      PROVE  LET t == SendFrame(u, f)
             IN  /\ t.kind = s.kind
                 /\ t.sent = s.sent \/ (Reachable /\ t.sent = landed)
                 /\ Reachable => t.pending = << >>
                 /\ ~Reachable => t.told = s.told
  <2> DEFINE t == SendFrame(u, f)
  <2>1. u \in Streams /\ Grows(Append(u.pending, f)) /\ (Reachable => u.pending = << >>)
    BY <1>2, TakesFacts DEF Takes, CanTake
  <2>2. /\ t.kind = u.kind /\ t.told = u.told
        /\ t.sent = IF Reachable THEN [u.sent EXCEPT ![attached] = Append(@, f)] ELSE u.sent
        /\ (Reachable => t.pending = u.pending)
    BY <1>1, <2>1, SendFields
  <2>3. t.sent = IF Reachable THEN landed ELSE s.sent
    BY <1>2, <2>2 DEF landed
  <2> HIDE DEF t
  <2>4. t.kind = s.kind /\ (t.sent = s.sent \/ (Reachable /\ t.sent = landed))
    BY <1>2, <2>2, <2>3
  <2>5. (Reachable => t.pending = << >>) /\ (~Reachable => t.told = s.told)
    BY <1>2, <2>1, <2>2
  <2> QED
    BY <2>4, <2>5 DEF t
<1>3. ASSUME s.kind[f] = "output" PROVE Goal
  <2>1. Takes(s, seen, f) /\ HandleFrame(s, f) = SendFrame(s, f)
    BY <1>3, HandlesOutput
  <2> QED
    BY <1>2, <2>1
<1>4. ASSUME s.kind[f] # "output" PROVE Goal
  <2>1. CASE HandleFrame(s, f) = Ignore(s, f)
    <3> DEFINE i == Ignore(s, f)
    <3>1. i.pending = s.pending /\ i.sent = s.sent /\ i.kind = s.kind /\ i.told = s.told
      BY <1>1, IgnoreFields
    <3> HIDE DEF i
    <3> QED
      BY <1>1, <2>1, <3>1 DEF i
  <2>2. CASE HandleFrame(s, f) = DisableRuntime(Ignore(s, f))
    <3> DEFINE i == Ignore(s, f)
               d == DisableRuntime(i)
    <3>1. i \in Streams /\ i.pending = s.pending /\ i.sent = s.sent /\ i.kind = s.kind
            /\ i.told = s.told
      BY <1>1, IgnoreFields
    <3> HIDE DEF i
    <3>2. /\ d.kind = i.kind /\ d.sent = i.sent /\ (~Reachable => d.told = i.told)
          /\ (i.pending = << >> => d.pending = << >>)
      BY <1>1, <3>1, DisabledFields
    <3> HIDE DEF d
    <3>3. /\ d.kind = s.kind /\ d.sent = s.sent /\ (~Reachable => d.told = s.told)
          /\ (Reachable => d.pending = << >>)
      BY <1>1, <3>1, <3>2
    <3>4. HandleFrame(s, f) = d
      BY <2>2 DEF i, d
    <3> QED
      BY <3>3, <3>4
  <2>3. CASE HandleFrame(s, f) = SendFrame(SendStatus([s EXCEPT !.gate = "active"]), f)
    <3> DEFINE u == SendStatus([s EXCEPT !.gate = "active"])
    <3>1. Takes(u, seen, f) /\ u.kind = s.kind /\ u.sent = s.sent /\ (~Reachable => u.told = s.told)
      BY ActiveTakes
    <3> HIDE DEF u
    <3> QED
      BY <1>2, <2>3, <3>1 DEF u
  <2>4. CASE HandleFrame(s, f) = SendFrame([s EXCEPT !.started = @ \/ s.kind[f] = "start"], f)
    <3> DEFINE u == [s EXCEPT !.started = @ \/ s.kind[f] = "start"]
    <3>1. Takes(u, seen, f) /\ u.kind = s.kind /\ u.sent = s.sent /\ u.told = s.told
      BY StartedTakes
    <3> HIDE DEF u
    <3> QED
      BY <1>2, <2>4, <3>1 DEF u
  <2> QED
    BY <1>1, <1>4, <2>1, <2>2, <2>3, <2>4, HandlesEvent
<1>5. Goal
  BY <1>3, <1>4
<1> QED
  BY <1>5 DEF landed

-----------------------------------------------------------------------------
(* The replay at the session's creation.                                   *)

\* The recursion of Replayed, as a property of the function it defines.
ReplayTo(g, n) ==
    g = [i \in 0..n |-> IF i = 0 THEN [Stream EXCEPT !.pending = << >>] ELSE HandleFrame(g[i - 1],
                                                                   pending[i])]

\* There is such a function, for any number of frames.
LEMMA ReplayExists ==
  ASSUME NEW N \in Nat
  PROVE  \E g : ReplayTo(g, N)
<1> DEFINE Bad == {n \in 0..N : ~\E g : ReplayTo(g, n)}
<1>1. SUFFICES ASSUME Bad # {} PROVE FALSE
  <2>1. N \in 0..N
    OBVIOUS
  <2> QED
    BY <2>1
<1>2. PICK n \in Bad : \A t \in Bad : n <= t
  <2>1. Bad \subseteq Nat
    OBVIOUS
  <2> HIDE DEF Bad
  <2> QED
    BY <1>1, <2>1, Least
<1>3. n \in Nat /\ n \in 0..N
  OBVIOUS
<1> DEFINE first == [Stream EXCEPT !.pending = << >>]
<1> HIDE DEF first
<1>4. n # 0
  <2> DEFINE g == [i \in 0..0 |-> first]
  <2>1. ReplayTo(g, 0)
    BY DEF ReplayTo, first
  <2> QED
    BY <2>1
<1>5. n - 1 \notin Bad /\ n - 1 \in 0..N
  <2>1. n - 1 \in 0..N /\ ~(n <= n - 1)
    BY <1>3, <1>4
  <2> HIDE DEF Bad
  <2> QED
    BY <1>2, <2>1
<1>6. PICK g : ReplayTo(g, n - 1)
  BY <1>5
<1> DEFINE h == [i \in 0..n |-> IF i < n THEN g[i] ELSE HandleFrame(g[n - 1], pending[n])]
<1>7. \A i \in 0..(n - 1) : g[i] = IF i = 0 THEN first ELSE HandleFrame(g[i - 1], pending[i])
  BY <1>6 DEF ReplayTo, first
<1>8. \A i \in 0..n : h[i] = IF i = 0 THEN first ELSE HandleFrame(h[i - 1], pending[i])
  <2>1. \A i \in 0..n : i = n \/ i \in 0..(n - 1)
    BY <1>3
  <2>2. \A i \in 0..(n - 1) : h[i] = g[i]
    BY <1>3
  <2>3. \A i \in 0..n : i # 0 => i - 1 \in 0..(n - 1)
    BY <1>3
  <2>4. h[n] = HandleFrame(g[n - 1], pending[n])
    BY <1>3
  <2> HIDE DEF h
  <2> QED
    BY <1>3, <1>4, <1>7, <2>1, <2>2, <2>3, <2>4
<1>9. h = [i \in 0..n |-> h[i]]
  OBVIOUS
<1> HIDE DEF h
<1>10. ReplayTo(h, n)
  BY <1>8, <1>9 DEF ReplayTo, first
<1> QED
  BY <1>2, <1>10

\* Replayed is the end of a function that handles one frame at a time.
LEMMA ReplayUnfolds ==
  ASSUME pending \in Seq(Output)
  PROVE  \E g : /\ g[0] = [Stream EXCEPT !.pending = << >>] /\ g[Len(pending)] = Replayed
                /\ \A i \in 1..Len(pending) : g[i] = HandleFrame(g[i - 1], pending[i])
<1> DEFINE g == CHOOSE g : g = [i \in 0..Len(pending) |->
                   IF i = 0 THEN [Stream EXCEPT !.pending = << >>] ELSE HandleFrame(g[i - 1], pending[i])]
<1>1. Replayed = g[Len(pending)]
  BY DEF Replayed
<1>2. ReplayTo(g, Len(pending))
  <2>1. Len(pending) \in Nat
    OBVIOUS
  <2>2. \E f : ReplayTo(f, Len(pending))
    BY <2>1, ReplayExists
  <2> QED
    BY <2>2 DEF ReplayTo
<1> HIDE DEF g
<1> DEFINE first == [Stream EXCEPT !.pending = << >>]
<1> HIDE DEF first
<1>3. \A i \in 0..Len(pending) : g[i] = IF i = 0 THEN first ELSE HandleFrame(g[i - 1], pending[i])
  BY <1>2 DEF ReplayTo, first
<1>4. g[0] = first
  BY <1>3
<1>5. \A i \in 1..Len(pending) : g[i] = HandleFrame(g[i - 1], pending[i])
  BY <1>3
<1> QED
  BY <1>1, <1>4, <1>5 DEF first

\* The fields of the session's stream.
LEMMA StreamIs ==
  /\ Stream.gate = gate /\ Stream.kind = kind /\ Stream.pending = pending /\ Stream.dropped = dropped
  /\ Stream.ignored = ignored /\ Stream.sent = sent /\ Stream.told = told /\ Stream.started = FALSE
  BY DEF Stream

\* At its creation the session has sent nothing and withheld nothing.
LEMMA ReplayBegins ==
  ASSUME Flow(Stream, 1..produced), gate # "active", ignored = {}, attached = None,
         \A c \in Client : sent[c] = << >> /\ told[c] = << >>
  PROVE  LET t == [Stream EXCEPT !.pending = << >>]
         IN  /\ Flow(t, dropped) /\ Trusted(t, dropped) /\ KnowsGate(t)
             /\ t.kind = kind /\ t.sent = sent /\ t.told = told
             /\ 1..produced = dropped \cup Range(pending)
<1> DEFINE t == [Stream EXCEPT !.pending = << >>]
<1>1. Stream \in Streams /\ Placed(pending, dropped, {}, sent, 1..produced) /\ Ordered(sent)
  BY StreamIs DEF Flow
<1>2. /\ t \in Streams /\ t.gate = gate /\ t.kind = kind /\ t.pending = << >> /\ t.dropped = dropped
      /\ t.ignored = {} /\ t.sent = sent /\ t.told = told
  BY <1>1, RangeOfNothing DEF Streams, Stream
<1> HIDE DEF t
<1>3. Recv(sent) = {}
  <2>1. sent \in [Client -> Seq(Frame)]
    BY <1>1 DEF Placed
  <2>2. \A c \in Client : Range(sent[c]) = {}
    BY RangeOfNothing
  <2> QED
    BY <2>1, <2>2, ReceivedBySome
<1>4. Placed(<< >>, dropped, {}, sent, dropped)
  <2>1. InCaps(<< >>)
    BY NothingWeighsNothing, RangeOfNothing, Numbers DEF InCaps
  <2> QED
    BY <1>1, <1>3, <2>1, RangeOfNothing DEF Placed
<1>5. Flow(t, dropped)
  BY <1>1, <1>2, <1>4 DEF Flow
<1>6. KnowsGate(t)
  BY DEF KnowsGate, Reachable
<1>7. Trusted(t, dropped)
  <2>1. ClearOfForeign(t, dropped) /\ ShookHands(t, dropped)
    BY <1>2 DEF ClearOfForeign, ShookHands
  <2>2. KeepsTrusted(t, dropped)
    BY <1>2, RangeOfNothing DEF KeepsTrusted
  <2>3. SendsTrusted(t, dropped) /\ ToldInTime(t)
    <3>1. \A c \in Client : Len(t.sent[c]) = 0 /\ Len(t.told[c]) = 0
      BY <1>2, RangeOfNothing
    <3> QED
      BY <3>1 DEF SendsTrusted, ToldInTime
  <2> QED
    BY <2>1, <2>2, <2>3 DEF Trusted
<1>8. 1..produced = dropped \cup Range(pending)
  BY <1>1, <1>3 DEF Placed
<1> QED
  BY <1>2, <1>5, <1>6, <1>7, <1>8 DEF t

\* The frames that came before the session was registered are handled in
\* their order, each from a state the handler may be given.
LEMMA Replays ==
  ASSUME Flow(Stream, 1..produced), gate # "active", ignored = {}, attached = None,
         Len(kind) = produced,
         \A c \in Client : sent[c] = << >> /\ told[c] = << >>
  PROVE  /\ Flow(Replayed, 1..produced) /\ Trusted(Replayed, 1..produced) /\ KnowsGate(Replayed)
         /\ Replayed.kind = kind /\ Replayed.sent = sent /\ Replayed.told = told
<1>1. /\ pending \in Seq(Output) /\ Grows(pending) /\ dropped \subseteq Output
      /\ \A old \in dropped, kept \in Range(pending) : old < kept
      /\ 1..produced = dropped \cup Range(pending)
  <2>1. Placed(pending, dropped, ignored, sent, 1..produced)
    BY StreamIs DEF Flow
  <2> QED
    BY <2>1, ReplayBegins DEF Placed
<1>2. PICK g : /\ g[0] = [Stream EXCEPT !.pending = << >>] /\ g[Len(pending)] = Replayed
               /\ \A i \in 1..Len(pending) : g[i] = HandleFrame(g[i - 1], pending[i])
  BY <1>1, ReplayUnfolds
<1>3. ~Reachable /\ attached \in Client \cup {None}
  BY DEF Reachable
<1> DEFINE Seen(i) == dropped \cup {pending[k] : k \in 1..i}
           Right(i) == /\ Flow(g[i], Seen(i)) /\ Trusted(g[i], Seen(i)) /\ KnowsGate(g[i])
                       /\ g[i].kind = kind /\ g[i].sent = sent /\ g[i].told = told
           Bad == {i \in 0..Len(pending) : ~Right(i)}
<1>4. Len(pending) \in Nat
  BY <1>1
<1>5. Right(0)
  <2>1. Seen(0) = dropped
    OBVIOUS
  <2> HIDE DEF Seen
  <2> QED
    BY <1>2, <2>1, ReplayBegins
<1>6. ASSUME NEW n \in 1..Len(pending), Right(n - 1) PROVE Right(n)
  <2>1. pending[n] \in Output /\ pending[n] \in Range(pending)
          /\ Seen(n) = Seen(n - 1) \cup {pending[n]}
    <3>1. \A k \in 1..n : k = n \/ k \in 1..(n - 1)
      BY <1>4
    <3>2. \A k \in 1..(n - 1) : k \in 1..n
      BY <1>4
    <3>3. n \in 1..n
      BY <1>4
    <3> QED
      BY <1>1, <1>4, <3>1, <3>2, <3>3, InRange
  <2>2. \A x \in Seen(n - 1) : x < pending[n]
    <3>1. \A k \in 1..(n - 1) : k \in 1..Len(pending) /\ k < n
      BY <1>4
    <3> QED
      BY <1>1, <2>1, <3>1 DEF Grows
  <2>3. pending[n] \in 1..Len(kind)
    BY <1>1, <2>1
  <2> HIDE DEF Seen
  <2>4. CanTake(g[n - 1])
    BY <1>3 DEF CanTake
  <2>5. Takes(g[n - 1], Seen(n - 1), pending[n])
    BY <1>6, <2>1, <2>2, <2>3, <2>4 DEF Takes
  <2>6. g[n] = HandleFrame(g[n - 1], pending[n])
    BY <1>2
  <2> DEFINE s == g[n - 1]
             seen == Seen(n - 1)
             f == pending[n]
  <2>7. Takes(s, seen, f) /\ Trusted(s, seen) /\ KnowsGate(s) /\ g[n] = HandleFrame(s, f)
          /\ Seen(n) = seen \cup {f}
    BY <1>6, <2>1, <2>5, <2>6
  <2> HIDE DEF s, seen, f
  <2>8. Flow(g[n], Seen(n)) /\ Trusted(g[n], Seen(n)) /\ KnowsGate(g[n])
    BY <1>3, <2>7, HandleFlows, HandleTrusts
  <2>9. g[n].kind = s.kind /\ g[n].sent = s.sent /\ g[n].told = s.told
    <3> DEFINE t == HandleFrame(s, f)
               landed == [s.sent EXCEPT ![attached] = Append(@, f)]
    <3>1. t.kind = s.kind /\ (t.sent = s.sent \/ (Reachable /\ t.sent = landed))
            /\ (~Reachable => t.told = s.told)
      BY <1>3, <2>7, HandleFields
    <3>2. g[n] = t
      BY <2>7
    <3> HIDE DEF t, landed
    <3> QED
      BY <1>3, <3>1, <3>2
  <2> QED
    BY <1>6, <2>8, <2>9 DEF s
<1> HIDE DEF Right
<1>7. Bad = {}
  <2>1. SUFFICES ASSUME Bad # {} PROVE FALSE
    OBVIOUS
  <2>2. PICK n \in Bad : \A t \in Bad : n <= t
    <3>1. Bad \subseteq Nat
      OBVIOUS
    <3> HIDE DEF Bad
    <3> QED
      BY <2>1, <3>1, Least
  <2>3. n \in 0..Len(pending) /\ ~Right(n)
    OBVIOUS
  <2>4. n \in 1..Len(pending) /\ n - 1 \in 0..Len(pending) /\ ~(n <= n - 1)
    BY <1>4, <1>5, <2>3
  <2>5. Right(n - 1)
    <3>1. n - 1 \notin Bad
      <4> HIDE DEF Bad
      <4> QED
        BY <2>2, <2>4
    <3> QED
      BY <2>4, <3>1
  <2> QED
    BY <1>6, <2>3, <2>4, <2>5
<1>8. Right(Len(pending))
  BY <1>4, <1>7
<1>9. Seen(Len(pending)) = 1..produced
  <2>1. \A x : x \in Range(pending) <=> \E k \in 1..Len(pending) : pending[k] = x
    BY <1>1, InRange
  <2> QED
    BY <1>1, <2>1
<1> HIDE DEF Seen
<1> QED
  BY <1>2, <1>8, <1>9 DEF Right

-----------------------------------------------------------------------------
(* The steps of the session.                                               *)

\* The fields of the next stream.
LEMMA StreamBecomes == 
  /\ Stream'.gate = gate' /\ Stream'.kind = kind' /\ Stream'.pending = pending'
       /\ Stream'.dropped = dropped'
  /\ Stream'.ignored = ignored' /\ Stream'.sent = sent' /\ Stream'.told = told'
       /\ Stream'.started = FALSE
  BY DEF Stream

\* Its type, from its fields'.
LEMMA StreamTypes ==
  ASSUME gate' \in Gate, kind' \in Seq(Kind), pending' \in Seq(Output),
         dropped' \subseteq Output,
         ignored' \subseteq Output, sent' \in [Client -> Seq(Frame)], told' \in [Client -> Seq(Status)]
  PROVE  Stream' \in Streams
  BY DEF Stream, Streams

\* The next stream is the one the handler made.
LEMMA Becomes ==
  ASSUME NEW s \in Streams, Become(s)
  PROVE  /\ Stream' \in Streams /\ Stream'.gate = s.gate /\ Stream'.kind = s.kind
              /\ Stream'.pending = s.pending
         /\ Stream'.dropped = s.dropped /\ Stream'.ignored = s.ignored /\ Stream'.sent = s.sent
              /\ Stream'.told = s.told
<1>1. Stream' \in Streams
  BY StreamFields, StreamTypes DEF Become
<1> QED
  BY <1>1, StreamBecomes DEF Become

\* So it has the flow and the trust of that one.
LEMMA BecomesSafe ==
  ASSUME NEW s, NEW seen, Flow(s, seen), Become(s)
  PROVE  /\ Flow(Stream', seen)
         /\ Trusted(s, seen) => Trusted(Stream', seen)
         /\ KnowsGate(s) /\ UNCHANGED <<attached, socket>> => KnowsGate(Stream)'
<1> DEFINE t == Stream'
<1>1. /\ t \in Streams /\ t.gate = s.gate /\ t.kind = s.kind /\ t.pending = s.pending
      /\ t.dropped = s.dropped /\ t.ignored = s.ignored /\ t.sent = s.sent /\ t.told = s.told
  BY Becomes DEF Flow
<1>2. KnowsGate(s) /\ UNCHANGED <<attached, socket>> => KnowsGate(Stream)'
  BY <1>1 DEF KnowsGate, Reachable
<1> HIDE DEF t
<1>3. Flow(t, seen)
  BY <1>1, SameFlows
<1>4. Trusted(s, seen) => Trusted(t, seen)
  BY <1>1, SameTrust
<1> QED
  BY <1>2, <1>3, <1>4 DEF t

\* The invariant holds before the session is created.
LEMMA InitSafe == SshInit => SshInv
<1> SUFFICES ASSUME SshInit PROVE SshInv
  OBVIOUS
<1> USE DEF SshInit, Fresh
<1>1. SessionTypes
  <2>1. produced \in 0..MaxOutput
    BY Numbers
  <2>2. live \in BOOLEAN /\ creating \in BOOLEAN /\ service \in {"local", "ssh"}
    OBVIOUS
  <2>3. {syncTimer, reading, again, asked, deleting} \subseteq BOOLEAN
    OBVIOUS
  <2>4. pty \in BOOLEAN /\ timer \in BOOLEAN /\ attached \in Client \cup {None}
          /\ written \in Client \cup {None}
        /\ socket \in [Client -> {"new", "open", "closing", "closed"}]
    OBVIOUS
  <2> QED
    BY <2>1, <2>2, <2>3, <2>4 DEF SessionTypes
<1>2. \A c \in Client : sent[c] = << >> /\ told[c] = << >> /\ Range(sent[c]) = {} /\ Grows(sent[c])
  BY RangeOfNothing
<1>3. Links
  BY <1>2 DEF Links, Reachable
<1>4. 1..produced = {}
  OBVIOUS
<1>5. sent \in [Client -> Seq(Frame)] /\ told \in [Client -> Seq(Status)] /\ gate \in Gate
        /\ kind \in Seq(Kind)
      /\ pending \in Seq(Output)
  BY DEF Gate
<1>6. Recv(sent) = {}
  BY <1>2, <1>5, ReceivedBySome
<1>7. Flow(Stream, {})
  <2>1. Stream \in Streams
    BY <1>5 DEF Stream, Streams
  <2>2. InCaps(<< >>)
    BY NothingWeighsNothing, RangeOfNothing, Numbers DEF InCaps
  <2>3. Placed(pending, dropped, ignored, sent, {})
    BY <1>5, <1>6, <2>2, RangeOfNothing DEF Placed
  <2>4. Ordered(sent)
    BY <1>2 DEF Ordered
  <2> QED
    BY <2>1, <2>3, <2>4, StreamIs DEF Flow
<1>8. ~(service = "ssh" /\ ~creating)
  OBVIOUS
<1> QED
  BY <1>1, <1>3, <1>4, <1>7, <1>8 DEF SshInv

\* Steps that touch no frame keep it, if they make no client reachable.
LEMMA QuietKeeps ==
  ASSUME SshInv, UNCHANGED <<output, sent, service, creating, trust>>, SessionTypes',
         \A c \in Client : socket'[c] \in {socket[c], "closing", "closed"},
         attached' \in {attached, None}, live' => live, attached' # None => live', live' => pty'
  PROVE  SshInv'
<1>1. Stream' = Stream /\ produced' = produced
  BY DEF output, trust, Stream
<1>2. Flow(Stream, 1..produced)'
  BY <1>1 DEF SshInv
<1>3. Reachable' => Reachable /\ attached' = attached
  <2>1. attached' \in Client => socket'[attached'] \in {socket[attached'], "closing", "closed"}
    OBVIOUS
  <2>2. Reachable' => attached' \in Client /\ attached' = attached /\ socket'[attached'] = "open"
    BY DEF Reachable, SessionTypes
  <2> QED
    BY <2>1, <2>2 DEF Reachable
<1>4. Links'
  <2>1. Links
    BY DEF SshInv
  <2> QED
    BY <1>3, <2>1 DEF Links, output, trust
<1>5. KnowsGate(Stream) => KnowsGate(Stream)'
  BY <1>1, <1>3 DEF KnowsGate
<1>6. (service = "ssh" /\ ~creating => Trusted(Stream, 1..produced) /\ KnowsGate(Stream))'
  BY <1>1, <1>5 DEF SshInv
<1> QED
  BY <1>2, <1>4, <1>6 DEF SshInv

\* Sockets come and go, and input.
LEMMA SocketSafe ==
  ASSUME SshInv, NEW c \in Client,
         RejectAttach(c) \/ ClientGoes(c) \/ SocketClosed(c) \/ ClientInput(c),
         UNCHANGED <<service, creating, trust>>, {syncTimer', reading', again', asked',
                     deleting'} \subseteq BOOLEAN
  PROVE  SshInv'
<1>1. SessionTypes /\ Links
  BY DEF SshInv
<1>2. CASE RejectAttach(c)
  <2>1. socket' = [socket EXCEPT ![c] = "closing"] /\ UNCHANGED <<session, output, sent, written>>
    BY <1>2 DEF RejectAttach
  <2>2. /\ UNCHANGED <<output, sent, service, creating, trust>> /\ SessionTypes'
        /\ \A d \in Client : socket'[d] \in {socket[d], "closing", "closed"}
        /\ attached' = attached /\ live' = live /\ (attached' # None => live') /\ (live' => pty')
    BY <1>1, <2>1 DEF SessionTypes, Links, session, output
  <2> QED
    BY <2>2, QuietKeeps
<1>3. CASE ClientGoes(c)
  <2>1. socket' = [socket EXCEPT ![c] = "closing"] /\ UNCHANGED <<session, output, sent, written>>
    BY <1>3 DEF ClientGoes
  <2>2. /\ UNCHANGED <<output, sent, service, creating, trust>> /\ SessionTypes'
        /\ \A d \in Client : socket'[d] \in {socket[d], "closing", "closed"}
        /\ attached' = attached /\ live' = live /\ (attached' # None => live') /\ (live' => pty')
    BY <1>1, <2>1 DEF SessionTypes, Links, session, output
  <2> QED
    BY <2>2, QuietKeeps
<1>4. CASE SocketClosed(c)
  <2>1. /\ socket' = [socket EXCEPT ![c] = "closed"] /\ UNCHANGED <<output, written, sent>>
        /\ \/ live' = FALSE /\ pty' = FALSE /\ timer' = FALSE /\ attached' = None
           \/ UNCHANGED session
    BY <1>4 DEF SocketClosed
  <2>2. /\ live' \in BOOLEAN /\ pty' \in BOOLEAN /\ timer' \in BOOLEAN
        /\ attached' \in {attached, None} /\ (live' => live) /\ (attached' # None => live')
             /\ (live' => pty')
    <3>1. CASE live' = FALSE /\ pty' = FALSE /\ timer' = FALSE /\ attached' = None
      BY <3>1
    <3>2. CASE UNCHANGED session
      <4>1. live' = live /\ pty' = pty /\ timer' = timer /\ attached' = attached
        BY <3>2 DEF session
      <4>2. /\ live \in BOOLEAN /\ pty \in BOOLEAN /\ timer \in BOOLEAN
            /\ (attached # None => live) /\ (live => pty)
        BY <1>1 DEF SessionTypes, Links
      <4> QED
        BY <4>1, <4>2
    <3> QED
      BY <2>1, <3>1, <3>2
  <2>3. UNCHANGED <<output, sent, service, creating, trust, produced, written>>
    BY <2>1 DEF output
  <2>4. /\ socket' \in [Client -> {"new", "open", "closing", "closed"}]
        /\ \A d \in Client : socket'[d] \in {socket[d], "closing", "closed"}
    BY <1>1, <2>1 DEF SessionTypes
  <2>5. SessionTypes'
    BY <1>1, <2>2, <2>3, <2>4 DEF SessionTypes
  <2> QED
    BY <2>2, <2>3, <2>4, <2>5, QuietKeeps
<1>5. CASE ClientInput(c)
  <2>1. written' \in {c, written} /\ UNCHANGED <<session, output, socket, sent>>
    BY <1>5 DEF ClientInput
  <2>2. /\ UNCHANGED <<output, sent, service, creating, trust>> /\ SessionTypes'
        /\ \A d \in Client : socket'[d] \in {socket[d], "closing", "closed"}
        /\ attached' = attached /\ live' = live /\ (attached' # None => live') /\ (live' => pty')
    BY <1>1, <2>1 DEF SessionTypes, Links, session, output
  <2> QED
    BY <2>2, QuietKeeps
<1> QED
  BY <1>2, <1>3, <1>4, <1>5

\* The steps of an SSH session that touch no frame.
LEMMA HistorySafe ==
  ASSUME SshInv,
         \/ SyncHistory \/ HistoryRead \/ DeletionEnds \/ ShellCloses \/ AttachTimeoutTooEarly
         \/ \E c \in Client : SshInput(c) \/ DeleteHistoryEntry(c)
  PROVE  SshInv'
<1>1. SessionTypes /\ Links
  BY DEF SshInv
<1>2. CASE \/ SyncHistory \/ HistoryRead \/ DeletionEnds \/ \E c \in Client : SshInput(c) \/ DeleteHistoryEntry(c)
  <2>1. UNCHANGED <<vars, service, creating, trust>>
          /\ {syncTimer', reading', again', asked', deleting'} \subseteq BOOLEAN
    BY <1>1, <1>2 DEF SessionTypes, SyncHistory, HistoryRead, DeletionEnds, SshInput,
       ScheduleSync, DeleteHistoryEntry
  <2>2. /\ UNCHANGED <<output, sent, service, creating, trust>> /\ SessionTypes'
        /\ \A d \in Client : socket'[d] \in {socket[d], "closing", "closed"}
        /\ attached' = attached /\ live' = live /\ (attached' # None => live') /\ (live' => pty')
    BY <1>1, <2>1 DEF SessionTypes, Links, vars, session, output
  <2> QED
    BY <2>2, QuietKeeps
<1>3. CASE ShellCloses \/ AttachTimeoutTooEarly
  <2>1. /\ UNCHANGED <<live, attached, output, socket, sent, written, sshVars>> /\ creating
        /\ pty' \in BOOLEAN /\ timer' \in BOOLEAN
    BY <1>1, <1>3 DEF SessionTypes, ShellCloses, AttachTimeoutTooEarly
  <2>2. ~live /\ attached = None
    BY <1>1, <2>1 DEF Links
  <2>3. /\ UNCHANGED <<output, sent, service, creating, trust>> /\ SessionTypes'
        /\ \A d \in Client : socket'[d] \in {socket[d], "closing", "closed"}
        /\ attached' = attached /\ live' = live /\ (attached' # None => live') /\ (live' => pty')
    BY <1>1, <2>1, <2>2 DEF SessionTypes, output, sshVars, history
  <2> QED
    BY <2>3, QuietKeeps
<1> QED
  BY <1>2, <1>3

\* What the invariant says of each variable.
LEMMA InvFacts ==
  ASSUME SshInv
  PROVE  /\ SessionTypes /\ Links /\ Flow(Stream, 1..produced) /\ Stream \in Streams
         /\ Placed(pending, dropped, ignored, sent, 1..produced) /\ Ordered(sent)
         /\ sent \in [Client -> Seq(Frame)] /\ told \in [Client -> Seq(Status)]
              /\ kind \in Seq(Kind) /\ gate \in Gate
         /\ pending \in Seq(Output) /\ Grows(pending)
         /\ 1..produced \subseteq Output /\ produced \in Nat
         /\ attached \in Client \cup {None}
         /\ service = "ssh" /\ ~creating => Trusted(Stream, 1..produced) /\ KnowsGate(Stream)
<1>1. SessionTypes /\ Links /\ Flow(Stream, 1..produced) /\ Stream \in Streams
      /\ (service = "ssh" /\ ~creating => Trusted(Stream, 1..produced) /\ KnowsGate(Stream))
  BY DEF SshInv, Flow
<1>2. Placed(pending, dropped, ignored, sent, 1..produced) /\ Ordered(sent)
  BY <1>1, StreamIs DEF Flow
<1>3. produced \in Nat /\ 1..produced \subseteq Output /\ attached \in Client \cup {None}
  BY <1>1, Numbers DEF SessionTypes, Output
<1>4. /\ sent \in [Client -> Seq(Frame)] /\ told \in [Client -> Seq(Status)]
           /\ kind \in Seq(Kind) /\ gate \in Gate
      /\ pending \in Seq(Output)
  BY <1>1, StreamFields, StreamIs
<1> QED
  BY <1>1, <1>2, <1>3, <1>4 DEF Placed

\* How the session stands after its client was sent a frame.
LEMMA SentLinks ==
  ASSUME SshInv, NEW f \in Output, UNCHANGED <<session, socket>>,
         sent' = sent \/ (Reachable /\ sent' = [sent EXCEPT ![attached] = Append(@, f)])
  PROVE  /\ attached' # None => live' /\ sent'[attached'] # << >>
         /\ \A c \in Client : socket'[c] = "new" => sent'[c] = << >>
         /\ live' => pty' /\ \A c \in Client : Exit \notin Range(sent'[c])
         /\ Reachable' = Reachable
<1>1. Links /\ attached \in Client \cup {None} /\ sent \in [Client -> Seq(Frame)] /\ f # Exit
        /\ f \in Frame
  BY InvFacts, Numbers, FrameNumbers
<1>2. live' = live /\ pty' = pty /\ attached' = attached /\ socket' = socket /\ Reachable' = Reachable
  BY DEF session, Reachable
<1>3. CASE sent' = sent
  BY <1>1, <1>2, <1>3 DEF Links
<1>4. CASE Reachable /\ sent' = [sent EXCEPT ![attached] = Append(@, f)]
  <2>1. attached \in Client /\ socket[attached] = "open"
    BY <1>1, <1>4 DEF Reachable
  <2> DEFINE q == sent[attached]
  <2>2. q \in Seq(Frame)
    BY <1>1, <2>1
  <2>3. Append(q, f) # << >> /\ Range(Append(q, f)) = Range(q) \cup {f}
    <3>1. Append(q, f) \in Seq(Frame) /\ Len(Append(q, f)) = Len(q) + 1 /\ Len(q) \in Nat
      BY <1>1, <2>2, Appended
    <3>2. Range(Append(q, f)) = Range(q) \cup {f}
      BY <1>1, <2>2, Appended
    <3> HIDE DEF q
    <3> QED
      BY <3>1, <3>2
  <2>4. \A c \in Client : sent'[c] = IF c = attached THEN Append(q, f) ELSE sent[c]
    BY <1>1, <1>4, <2>1
  <2>5. /\ attached # None => live
        /\ \A c \in Client : socket[c] = "new" => sent[c] = << >>
        /\ live => pty /\ \A c \in Client : Exit \notin Range(sent[c])
    BY <1>1 DEF Links
  <2> QED
    BY <1>1, <1>2, <2>1, <2>3, <2>4, <2>5
<1> QED
  BY <1>3, <1>4

\* disposeSessionWithCommonLifecycle.
LEMMA DisposeSafe ==
  ASSUME SshInv, live, DisposeSession,
         UNCHANGED <<output, written, service, creating, trust>>,
         {syncTimer', reading', again', asked', deleting'} \subseteq BOOLEAN
  PROVE  SshInv'
<1>1. SessionTypes /\ Links
  BY InvFacts
<1>2. live' = FALSE /\ pty' = FALSE /\ timer' = FALSE /\ attached' = None
  BY DEF DisposeSession
<1>3. CASE ~Reachable
  <2>1. sent' = sent /\ socket' = socket
    BY <1>3 DEF DisposeSession
  <2>2. SessionTypes'
    BY <1>1, <1>2, <2>1 DEF SessionTypes, output
  <2> QED
    BY <1>2, <2>1, <2>2, QuietKeeps
<1>4. CASE Reachable
  <2>1. attached \in Client /\ socket[attached] = "open"
    BY <1>1, <1>4 DEF Reachable, SessionTypes
  <2> DEFINE t == [Stream EXCEPT !.sent[attached] = Append(@, Exit)]
  <2>2. Stream \in Streams /\ Exit \in Frame
    BY InvFacts, FrameNumbers
  <2>3. /\ t \in Streams /\ t.gate = gate /\ t.kind = kind /\ t.ignored = ignored
        /\ t.pending = pending /\ t.dropped = dropped /\ t.told = told
        /\ t.sent = [sent EXCEPT ![attached] = Append(@, Exit)]
    BY <2>1, <2>2, SentFields, StreamIs
  <2> HIDE DEF t
  <2>4. sent' = t.sent /\ socket' = [socket EXCEPT ![attached] = "closing"]
    BY <1>4, <2>3 DEF DisposeSession
  <2>5. Become(t)
    BY <2>3, <2>4 DEF Become, output, trust
  <2>6. Placed(pending, dropped, ignored, sent, 1..produced) /\ Ordered(sent)
          /\ sent \in [Client -> Seq(Frame)]
        /\ sent[attached] # << >> /\ Exit \notin Range(sent[attached])
             /\ \A g \in ignored : kind[g] # "output"
    <3>1. attached # None
      BY <2>1, Numbers
    <3>2. sent[attached] # << >> /\ Exit \notin Range(sent[attached])
      BY <1>1, <2>1, <3>1 DEF Links
    <3>3. \A g \in ignored : kind[g] # "output"
      BY InvFacts, StreamIs DEF Flow
    <3> QED
      BY <3>2, <3>3, InvFacts
  <2>7. Recv(t.sent) = Recv(sent) /\ t.sent \in [Client -> Seq(Frame)]
    <3>1. {Exit} \cap Output = {}
      BY Numbers
    <3> QED
      <4> DEFINE more == [sent EXCEPT ![attached] = Append(@, Exit)]
      <4>1. more \in [Client -> Seq(Frame)] /\ Recv(more) = Recv(sent) \cup ({Exit} \cap Output)
        BY <2>1, <2>2, <2>6, SentOne
      <4>2. t.sent = more
        BY <2>3
      <4> HIDE DEF more
      <4> QED
        BY <3>1, <4>1, <4>2
  <2>8. Ordered(t.sent)
    <3>1. \A y \in Range(sent[attached]) : y < Exit
      <4>1. Range(sent[attached]) \subseteq Frame
        BY <2>1, <2>6, InRange
      <4>2. \A y \in Frame : y = Exit \/ y < Exit
        <5>1. Ready < Exit
          BY Numbers
        <5>2. \A y \in Output : y < Exit
          BY Numbers
        <5> QED
          BY <5>1, <5>2, FrameNumbers
      <4> QED
        BY <2>6, <4>1, <4>2
    <3>2. Ordered([sent EXCEPT ![attached] = Append(@, Exit)])
      BY <2>1, <2>2, <2>6, <3>1, OrderedAppends
    <3> QED
      BY <2>3, <3>2
  <2>9. Flow(t, 1..produced)
    <3>1. Placed(t.pending, t.dropped, t.ignored, t.sent, 1..produced)
      BY <2>3, <2>6, <2>7 DEF Placed
    <3> QED
      BY <2>3, <2>6, <2>8, <3>1 DEF Flow
  <2>10. ~creating
    BY <1>1 DEF Links
  <2>11. service = "ssh" => Trusted(t, 1..produced)
    <3>1. SUFFICES ASSUME service = "ssh" PROVE Trusted(t, 1..produced)
      OBVIOUS
    <3>2. Trusted(Stream, 1..produced) /\ KnowsGate(Stream) /\ attached \in Client \cup {None}
      BY <2>10, <3>1, InvFacts
    <3>3. Exit \notin Output
      BY Numbers
    <3>4. t.sent = IF Reachable THEN [Stream.sent EXCEPT ![attached] = Append(@, Exit)] ELSE Stream.sent
      BY <1>4, <2>3, StreamIs
    <3>5. t.gate = Stream.gate /\ t.kind = Stream.kind /\ t.told = Stream.told
          /\ Range(t.pending) \subseteq Range(Stream.pending) \cup ({Exit} \cap Output)
               /\ Stream.dropped \subseteq t.dropped
      BY <2>3, StreamIs
    <3> QED
      BY <2>2, <3>2, <3>3, <3>4, <3>5, StaysTrusted
  <2>12. produced' = produced /\ service' = service /\ creating' = creating
    BY DEF output
  <2>13. Flow(Stream, 1..produced)' /\ (service = "ssh" => Trusted(Stream, 1..produced)')
    BY <2>5, <2>9, <2>11, <2>12, BecomesSafe
  <2>14. ~Reachable'
    BY <1>2 DEF Reachable
  <2>15. SessionTypes'
    BY <1>1, <1>2, <2>4, <2>12 DEF SessionTypes
  <2>16. Links'
    <3>1. \A c \in Client : socket'[c] = "new" => sent'[c] = << >>
      BY <1>1, <2>1, <2>3, <2>4, <2>6 DEF Links, SessionTypes
    <3>2. IF service = "ssh" THEN Len(kind) = produced ELSE ignored = {}
      BY <1>1 DEF Links
    <3> QED
      BY <1>2, <2>10, <2>12, <2>14, <3>1, <3>2 DEF Links, trust
  <2>17. KnowsGate(Stream)'
    BY <2>14 DEF KnowsGate
  <2> QED
    BY <2>12, <2>13, <2>15, <2>16, <2>17 DEF SshInv
<1> QED
  BY <1>3, <1>4

\* Output of a local pty.
LEMMA PtyOutputSafe ==
  ASSUME SshInv, PtyOutput, service = "local", UNCHANGED sshVars
  PROVE  SshInv'
<1> DEFINE f == produced + 1
           t == SendFrame(Stream, f)
<1>1. live /\ produced < MaxOutput /\ produced' = f /\ SendOutput(f)
        /\ UNCHANGED <<session, socket, written>>
  BY DEF PtyOutput
<1>2. SessionTypes /\ Links /\ Stream \in Streams /\ attached \in Client \cup {None} /\ produced \in Nat
  BY InvFacts
<1>3. f \in Output /\ (\A x \in 1..produced : x < f) /\ 1..f = 1..produced \cup {f}
        /\ f \in 0..MaxOutput
  BY <1>1, <1>2, Numbers DEF Output
<1> HIDE DEF f
<1>4. Flow(Stream, 1..produced) /\ CanTake(Stream)
  BY <1>1, <1>2, InvFacts, StreamIs DEF CanTake, Links, Reachable
<1>5. Flow(t, 1..f)
  <2>1. Flow(SendFrame(Stream, f), (1..produced) \cup {f})
    BY <1>2, <1>3, <1>4, FrameFlows
  <2> QED
    BY <1>3, <2>1
<1>6. Grows(Append(Stream.pending, f))
  <2>1. Grows(pending) /\ pending \in Seq(Output) /\ Range(pending) \subseteq 1..produced
    BY InvFacts DEF Placed
  <2> QED
    BY <1>3, <2>1, AppendGrows, Numbers, StreamIs
<1>7. Become(t)
  <2>1. gate' = gate /\ kind' = kind /\ ignored' = ignored /\ told' = told
    BY DEF sshVars, trust
  <2>2. CASE Reachable
    <3>1. attached \in Client /\ f \in Frame
      BY <1>2, <1>3, <2>2, FrameNumbers DEF Reachable
    <3> DEFINE u == [Stream EXCEPT !.sent[attached] = Append(@, f)]
    <3>2. /\ u.gate = gate /\ u.kind = kind /\ u.ignored = ignored
          /\ u.pending = pending /\ u.dropped = dropped /\ u.told = told
          /\ u.sent = [sent EXCEPT ![attached] = Append(@, f)]
      BY <1>2, <3>1, SentFields, StreamIs
    <3>3. t = u
      BY <2>2 DEF SendFrame
    <3> HIDE DEF u, t
    <3> QED
      BY <1>1, <2>1, <2>2, <3>2, <3>3 DEF Become, SendOutput
  <2>3. CASE ~Reachable
    <3> DEFINE u == Buffer(Stream, f)
    <3>1. /\ u.gate = gate /\ u.kind = kind /\ u.ignored = ignored /\ u.sent = sent /\ u.told = told
          /\ u.pending = Evict(Append(pending, f))
          /\ u.dropped = dropped \cup (Range(Append(pending, f)) \ Range(Evict(Append(pending, f))))
      BY <1>2, <1>3, <1>6, BufferFields, StreamIs
    <3>2. t = u
      BY <2>3 DEF SendFrame
    <3> HIDE DEF u, t
    <3> QED
      BY <1>1, <2>1, <2>3, <3>1, <3>2 DEF Become, SendOutput
  <2> QED
    BY <2>2, <2>3
<1>8. t.sent = sent \/ (Reachable /\ t.sent = [sent EXCEPT ![attached] = Append(@, f)])
  BY <1>2, <1>3, <1>6, SendFields, StreamIs
<1>9. Reachable => t.pending = pending
  BY <1>2, <1>3, <1>6, SendFields, StreamIs
<1> HIDE DEF t
<1>10. Flow(Stream, 1..produced)'
  BY <1>1, <1>5, <1>7, BecomesSafe
<1>11. sent' = t.sent /\ pending' = t.pending
  BY <1>7 DEF Become
<1>12. /\ attached' # None => live' /\ sent'[attached'] # << >>
       /\ \A c \in Client : socket'[c] = "new" => sent'[c] = << >>
       /\ live' => pty' /\ \A c \in Client : Exit \notin Range(sent'[c])
       /\ Reachable' = Reachable
  BY <1>1, <1>3, <1>8, <1>11, SentLinks
<1>13. SessionTypes'
  BY <1>1, <1>2, <1>3 DEF SessionTypes, session, sshVars, history
<1>14. Links'
  <2>1. Reachable' => pending' = << >>
    BY <1>2, <1>9, <1>11, <1>12 DEF Links
  <2>2. ignored' = {} /\ ~creating' /\ service' = "local"
    BY <1>2 DEF Links, sshVars, trust
  <2> QED
    BY <1>12, <2>1, <2>2 DEF Links
<1>15. service' = "local"
  BY DEF sshVars
<1> QED
  BY <1>10, <1>13, <1>14, <1>15 DEF SshInv

\* How the session stands after a client was attached.
LEMMA TakeOverLinks ==
  ASSUME SshInv, NEW c \in Client, NEW q \in Seq(Output), Grows(q),
         TakeOver(c, <<Ready>> \o q), pending' = << >>,
         UNCHANGED <<service, creating, history>>, IF service = "ssh" THEN kind' = kind ELSE ignored' = {}
  PROVE  /\ SessionTypes' /\ Links' /\ sent[c] = << >> /\ ~creating /\ attached' = c
         /\ sent' = [sent EXCEPT ![c] = <<Ready>> \o q] /\ UNCHANGED <<produced, dropped>>
<1>1. SessionTypes /\ Links /\ sent \in [Client -> Seq(Frame)]
  BY InvFacts
<1>2. /\ live /\ socket[c] = "new" /\ attached' = c /\ timer' = FALSE
      /\ sent' = [sent EXCEPT ![c] = <<Ready>> \o q]
      /\ live' = live /\ pty' = pty /\ produced' = produced /\ dropped' = dropped /\ written' = written
      /\ \A s \in Client : socket'[s] \in {"open", "closing", socket[s]}
           /\ (s # c => socket'[s] \in {"closing", socket[s]})
      /\ socket'[c] = "open" /\ socket' \in [Client -> {"new", "open", "closing", "closed"}]
  <2>1. /\ live /\ socket[c] = "new" /\ attached' = c /\ timer' = FALSE
        /\ sent' = [sent EXCEPT ![c] = <<Ready>> \o q]
        /\ live' = live /\ pty' = pty /\ produced' = produced /\ dropped' = dropped
             /\ written' = written
    BY DEF TakeOver
  <2>2. socket' = [s \in Client |-> IF s = c THEN "open" ELSE IF s = attached
          /\ Reachable THEN "closing" ELSE socket[s]]
    BY DEF TakeOver
  <2>3. socket \in [Client -> {"new", "open", "closing", "closed"}]
    BY <1>1 DEF SessionTypes
  <2>4. \A s \in Client : socket[s] \in {"new", "open", "closing", "closed"}
    BY <2>3
  <2>5. socket' \in [Client -> {"new", "open", "closing", "closed"}]
    BY <2>2, <2>4
  <2>6. \A s \in Client : socket'[s] = IF s = c THEN "open" ELSE IF s = attached
          /\ Reachable THEN "closing" ELSE socket[s]
    BY <2>2
  <2> QED
    BY <2>1, <2>5, <2>6
<1>3. sent[c] = << >> /\ ~creating /\ pty
  BY <1>1, <1>2 DEF Links
<1>4. SessionTypes'
  BY <1>1, <1>2 DEF SessionTypes, history
<1>5. <<Ready>> \o q # << >> /\ Exit \notin Range(<<Ready>> \o q)
  <2>1. Range(q) \subseteq Output
    BY InRange
  <2> QED
    BY <2>1, Prefixed, Numbers
<1> DEFINE p == <<Ready>> \o q
<1> HIDE DEF p
<1>6. \A s \in Client : sent'[s] = IF s = c THEN p ELSE sent[s]
  BY <1>1, <1>2 DEF p
<1>7. Links'
  <2>1. /\ \A s \in Client : socket[s] = "new" => sent[s] = << >>
        /\ \A s \in Client : Exit \notin Range(sent[s])
        /\ IF service = "ssh" THEN Len(kind) = produced ELSE ignored = {}
    BY <1>1, <1>2 DEF Links
  <2>2. \A s \in Client : socket'[s] = "new" => sent'[s] = << >>
    BY <1>2, <1>6, <2>1
  <2>3. \A s \in Client : Exit \notin Range(sent'[s])
    BY <1>5, <1>6, <2>1 DEF p
  <2>4. sent'[attached'] # << >>
    BY <1>2, <1>5, <1>6 DEF p
  <2>5. IF service' = "ssh" THEN Len(kind') = produced' ELSE ignored' = {}
    BY <1>2, <2>1
  <2>6. ~creating' /\ live' /\ pty'
    BY <1>2, <1>3
  <2> QED
    BY <2>2, <2>3, <2>4, <2>5, <2>6 DEF Links
<1> QED
  BY <1>2, <1>3, <1>4, <1>7

\* A client attaches to a local session and gets what has waited.
LEMMA AttachSafe ==
  ASSUME SshInv, NEW c \in Client, Attach(c), service = "local", UNCHANGED sshVars
  PROVE  SshInv'
<1>1. /\ Links /\ Flow(Stream, 1..produced)
           /\ Placed(pending, dropped, ignored, sent, 1..produced) /\ Ordered(sent)
      /\ pending \in Seq(Output) /\ Grows(pending) /\ gate \in Gate /\ kind \in Seq(Kind)
           /\ told \in [Client -> Seq(Status)]
  BY InvFacts
<1>2. /\ TakeOver(c, <<Ready>> \o pending) /\ pending' = << >>
      /\ UNCHANGED <<service, creating, history, gate, kind, ignored, told>>
  BY DEF Attach, sshVars, trust
<1>3. ignored = {}
  BY <1>1 DEF Links
<1>4. /\ SessionTypes' /\ Links' /\ sent[c] = << >>
      /\ sent' = [sent EXCEPT ![c] = <<Ready>> \o pending] /\ UNCHANGED <<produced, dropped>>
  BY <1>1, <1>2, <1>3, TakeOverLinks
<1>5. Placed(<< >>, dropped, ignored, sent', 1..produced) /\ Ordered(sent')
  BY <1>1, <1>4, FlushPlaces
<1>6. Stream' \in Streams
  BY <1>1, <1>2, <1>4, <1>5, StreamTypes DEF Placed
<1>7. Flow(Stream', 1..produced)
  BY <1>2, <1>3, <1>4, <1>5, <1>6, StreamBecomes DEF Flow
<1> QED
  BY <1>2, <1>4, <1>7 DEF SshInv

\* Every step of a local session.
LEMMA LocalSafe ==
  ASSUME SshInv, service = "local", Next, UNCHANGED sshVars
  PROVE  SshInv'
<1>1. UNCHANGED <<service, creating, trust>>
        /\ {syncTimer', reading', again', asked', deleting'} \subseteq BOOLEAN
  BY InvFacts DEF SessionTypes, sshVars, history
<1>2. CASE \E c \in Client : Attach(c)
  BY <1>2, AttachSafe
<1>3. CASE \E c \in Client : RejectAttach(c) \/ ClientGoes(c) \/ SocketClosed(c) \/ ClientInput(c)
  BY <1>1, <1>3, SocketSafe
<1>4. CASE (\E c \in Client : ClientRequestsClose(c)) \/ PtyExit \/ AttachTimeout \/ CloseSession
  <2>1. live /\ DisposeSession /\ UNCHANGED <<output, written>>
    BY <1>4 DEF ClientRequestsClose, PtyExit, AttachTimeout, CloseSession
  <2> QED
    BY <1>1, <2>1, DisposeSafe
<1>5. CASE PtyOutput
  BY <1>5, PtyOutputSafe
<1> QED
  BY <1>2, <1>3, <1>4, <1>5 DEF Next

-----------------------------------------------------------------------------
(* The steps of an SSH session.                                            *)

\* Output of a shell whose session is not registered yet.
LEMMA RawOutputSafe ==
  ASSUME SshInv, NEW k \in Kind, RawOutput(k)
  PROVE  SshInv'
<1> DEFINE f == produced + 1
           a == Append(pending, f)
           e == Evict(a)
<1>1. /\ creating /\ pty /\ produced < MaxOutput /\ produced' = f /\ kind' = Append(kind, k)
      /\ pending' = e /\ dropped' = dropped \cup (Range(a) \ Range(e))
      /\ UNCHANGED <<session, socket, sent, written, service, creating, gate, ignored, told, history>>
  BY DEF RawOutput
<1>2. /\ SessionTypes /\ Links /\ produced \in Nat
           /\ Placed(pending, dropped, ignored, sent, 1..produced) /\ Ordered(sent)
      /\ kind \in Seq(Kind) /\ gate \in Gate /\ told \in [Client -> Seq(Status)]
  BY InvFacts
<1>3. f \in Output /\ (\A x \in 1..produced : x < f) /\ 1..f = 1..produced \cup {f}
        /\ f \in 0..MaxOutput
  BY <1>1, <1>2, Numbers DEF Output
<1> HIDE DEF f
<1>4. Placed(e, dropped \cup (Range(a) \ Range(e)), ignored, sent, 1..f)
  <2>1. Placed(e, dropped \cup (Range(a) \ Range(e)), ignored, sent, (1..produced) \cup {f})
    BY <1>2, <1>3, BufferPlaces
  <2> QED
    BY <1>3, <2>1
<1> HIDE DEF a, e
<1>5. Append(kind, k) \in Seq(Kind) /\ Len(Append(kind, k)) = Len(kind) + 1
  BY <1>2
<1>6. /\ service = "ssh" /\ ~live /\ attached = None /\ gate # "active" /\ ignored = {}
           /\ Len(kind) = produced
      /\ \A c \in Client : sent[c] = << >> /\ told[c] = << >>
      /\ \A c \in Client : socket[c] = "new" => sent[c] = << >>
  BY <1>1, <1>2 DEF Links
<1>7. Stream' \in Streams
  BY <1>1, <1>2, <1>4, <1>5, StreamTypes DEF Placed
<1>8. Flow(Stream', 1..f)
  BY <1>1, <1>2, <1>4, <1>6, <1>7, StreamBecomes DEF Flow
<1>9. SessionTypes'
  BY <1>1, <1>2, <1>3 DEF SessionTypes, session, history
<1>10. Links'
  <2>1. Len(kind') = produced'
    BY <1>1, <1>5, <1>6 DEF f
  <2>2. ~Reachable'
    BY <1>1, <1>6 DEF Reachable, session
  <2> QED
    BY <1>1, <1>6, <2>1, <2>2 DEF Links, session
<1> QED
  BY <1>1, <1>8, <1>9, <1>10 DEF SshInv

\* createSession registers the session and handles what came before.
LEMMA RegisterSafe ==
  ASSUME SshInv, Register
  PROVE  SshInv'
<1>1. /\ creating /\ creating' = FALSE /\ Become(Replayed) /\ live' = pty /\ timer' = (timer /\ pty)
      /\ syncTimer' = pty /\ asked' = pty
      /\ UNCHANGED <<pty, attached, produced, socket, written, service, reading, again, deleting>>
  BY DEF Register
<1>2. SessionTypes /\ Links /\ Flow(Stream, 1..produced)
  BY InvFacts
<1>3. /\ service = "ssh" /\ attached = None /\ gate # "active" /\ ignored = {} /\ Len(kind) = produced
      /\ \A c \in Client : sent[c] = << >> /\ told[c] = << >>
  BY <1>1, <1>2 DEF Links
<1>4. /\ Flow(Replayed, 1..produced) /\ Trusted(Replayed, 1..produced) /\ KnowsGate(Replayed)
      /\ Replayed.kind = kind /\ Replayed.sent = sent
  BY <1>2, <1>3, Replays
<1>5. Flow(Stream', 1..produced) /\ Trusted(Stream', 1..produced) /\ KnowsGate(Stream)'
  BY <1>1, <1>4, BecomesSafe
<1>6. SessionTypes'
  <2>1. timer' \in BOOLEAN /\ live' \in BOOLEAN /\ creating' \in BOOLEAN
    BY <1>1, <1>2 DEF SessionTypes
  <2>2. {syncTimer', reading', again', asked', deleting'} \subseteq BOOLEAN
    BY <1>1, <1>2 DEF SessionTypes
  <2> QED
    BY <1>1, <1>2, <2>1, <2>2 DEF SessionTypes
<1>7. Links'
  <2>1. kind' = kind /\ sent' = sent
    BY <1>1, <1>4 DEF Become
  <2>2. ~Reachable'
    BY <1>1, <1>3 DEF Reachable
  <2>3. \A c \in Client : Exit \notin Range(sent[c])
    BY <1>3, RangeOfNothing
  <2> QED
    BY <1>1, <1>3, <2>1, <2>2, <2>3 DEF Links
<1> QED
  BY <1>1, <1>5, <1>6, <1>7 DEF SshInv

\* A frame that comes leaves what is known of the earlier ones.
LEMMA LongerKinds ==
  ASSUME NEW s \in Streams, NEW k \in Kind, Flow(s, 1..Len(s.kind))
  PROVE  LET t == [s EXCEPT !.kind = Append(@, k)]
         IN  /\ t.kind = Append(s.kind, k) /\ t.gate = s.gate /\ t.pending = s.pending
                  /\ t.sent = s.sent /\ t.told = s.told
             /\ Flow(t, 1..Len(s.kind))
             /\ Trusted(s, 1..Len(s.kind)) => Trusted(t, 1..Len(s.kind))
             /\ KnowsGate(s) => KnowsGate(t)
<1> DEFINE t == [s EXCEPT !.kind = Append(@, k)]
           n == Len(s.kind)
<1>1. /\ Append(s.kind, k) \in Seq(Kind) /\ \A o \in 1..n : Append(s.kind, k)[o] = s.kind[o]
  BY StreamFields, Appended
<1>2. /\ t \in Streams /\ t.kind = Append(s.kind, k) /\ t.gate = s.gate /\ t.pending = s.pending
           /\ t.dropped = s.dropped
      /\ t.ignored = s.ignored /\ t.sent = s.sent /\ t.told = s.told
  BY <1>1 DEF Streams
<1> HIDE DEF t
<1>3. \A o \in 1..n : t.kind[o] = s.kind[o]
  BY <1>1, <1>2
<1>4. /\ s.ignored \subseteq 1..n /\ Range(s.pending) \subseteq 1..n /\ Recv(s.sent) \subseteq 1..n
      /\ s.sent \in [Client -> Seq(Frame)]
  BY DEF Flow, Placed
<1> HIDE DEF n
<1>5. Flow(t, 1..n)
  BY <1>2, <1>3, <1>4 DEF Flow, n
<1>6. ASSUME Trusted(s, 1..n) PROVE Trusted(t, 1..n)
  <2>1. ClearOfForeign(t, 1..n) /\ ShookHands(t, 1..n) /\ ToldInTime(t)
    BY <1>2, <1>3, <1>6 DEF Trusted, ClearOfForeign, ShookHands, ToldInTime
  <2>2. \A f : HeardReady(s.kind, 1..n, f) => HeardReady(t.kind, 1..n, f)
    BY <1>3 DEF HeardReady
  <2>3. KeepsTrusted(t, 1..n)
    BY <1>2, <1>3, <1>4, <1>6, <2>2 DEF Trusted, KeepsTrusted
  <2>4. ASSUME NEW c \in Client, NEW i \in 1..Len(t.sent[c]) PROVE MayReceive(t, 1..n, c, i)
    <3>1. MayReceive(s, 1..n, c, i)
      BY <1>2, <1>6, <2>4 DEF Trusted, SendsTrusted
    <3>2. s.sent[c][i] \in Output => s.sent[c][i] \in 1..n
      <4>1. s.sent[c][i] \in Range(s.sent[c])
        BY <1>2, <1>4, <2>4, InRange
      <4> QED
        BY <1>4, <4>1, ReceivedBySome
    <3> QED
      BY <1>2, <1>3, <2>2, <3>1, <3>2 DEF MayReceive
  <2> QED
    BY <2>1, <2>3, <2>4 DEF Trusted, SendsTrusted
<1>7. KnowsGate(s) => KnowsGate(t)
  BY <1>2 DEF KnowsGate
<1> QED
  BY <1>2, <1>5, <1>6, <1>7 DEF t, n

\* Output of the shell of a registered session.
LEMMA ShellOutputSafe ==
  ASSUME SshInv, NEW k \in Kind, ShellOutput(k)
  PROVE  SshInv'
<1> DEFINE f == produced + 1
           s == [Stream EXCEPT !.kind = Append(@, k)]
           t == HandleFrame(s, f)
<1>1. /\ service = "ssh" /\ live /\ produced < MaxOutput /\ produced' = f /\ Become(t)
           /\ ScheduleSync(t.started)
      /\ UNCHANGED <<session, socket, written, service, creating>>
  BY DEF ShellOutput
<1>2. /\ SessionTypes /\ Links /\ produced \in Nat /\ Flow(Stream, 1..produced)
           /\ Stream \in Streams /\ kind \in Seq(Kind)
      /\ attached \in Client \cup {None}
  BY InvFacts
<1>3. f \in Output /\ (\A x \in 1..produced : x < f) /\ 1..f = 1..produced \cup {f}
        /\ f \in 0..MaxOutput
  BY <1>1, <1>2, Numbers DEF Output
<1>4. ~creating /\ Len(kind) = produced /\ Trusted(Stream, 1..produced) /\ KnowsGate(Stream)
  <2>1. ~creating /\ Len(kind) = produced
    BY <1>1, <1>2 DEF Links
  <2> QED
    BY <1>1, <2>1, InvFacts
<1>5. Append(kind, k) \in Seq(Kind) /\ Len(Append(kind, k)) = f
  BY <1>2, <1>4
<1>6. /\ s.kind = Append(kind, k) /\ s.pending = pending /\ s.sent = sent
      /\ Flow(s, 1..produced) /\ Trusted(s, 1..produced) /\ KnowsGate(s)
  BY <1>2, <1>4, LongerKinds, StreamIs
<1> HIDE DEF s
<1>7. Takes(s, 1..produced, f)
  <2>1. CanTake(s)
    BY <1>1, <1>2, <1>6 DEF CanTake, Links, Reachable
  <2>2. f \in 1..Len(s.kind)
    BY <1>2, <1>5, <1>6
  <2> QED
    BY <1>3, <1>6, <2>1, <2>2 DEF Takes
<1> HIDE DEF f
<1>8. Flow(t, (1..produced) \cup {f}) /\ Trusted(t, (1..produced) \cup {f}) /\ KnowsGate(t)
  BY <1>2, <1>6, <1>7, HandleFlows, HandleTrusts
<1> DEFINE landed == [sent EXCEPT ![attached] = Append(@, f)]
<1>9. t.kind = s.kind /\ (t.sent = sent \/ (Reachable /\ t.sent = landed))
        /\ (Reachable => t.pending = << >>)
  <2> DEFINE land == [s.sent EXCEPT ![attached] = Append(@, f)]
  <2>1. t.kind = s.kind /\ (t.sent = s.sent \/ (Reachable /\ t.sent = land))
          /\ (Reachable => t.pending = << >>)
    BY <1>2, <1>7, HandleFields
  <2>2. land = landed
    BY <1>6
  <2> HIDE DEF land, landed, t
  <2> QED
    BY <1>6, <2>1, <2>2
<1> HIDE DEF t
<1>10. Flow(t, 1..f) /\ Trusted(t, 1..f) /\ t.started \in BOOLEAN
  BY <1>3, <1>8, StreamFields DEF Flow
<1>11. sent' = t.sent /\ pending' = t.pending /\ kind' = t.kind
  BY <1>1 DEF Become
<1>12. /\ attached' # None => live' /\ sent'[attached'] # << >>
       /\ \A c \in Client : socket'[c] = "new" => sent'[c] = << >>
       /\ live' => pty' /\ \A c \in Client : Exit \notin Range(sent'[c])
       /\ Reachable' = Reachable
  BY <1>1, <1>3, <1>9, <1>11, SentLinks
<1>13. Flow(Stream', 1..f) /\ Trusted(Stream', 1..f) /\ KnowsGate(Stream)'
  <2>1. UNCHANGED <<attached, socket>>
    BY <1>1 DEF session
  <2> QED
    BY <1>1, <1>8, <1>10, <2>1, BecomesSafe
<1>14. SessionTypes'
  <2>1. {syncTimer', reading', again', asked', deleting'} \subseteq BOOLEAN
    BY <1>1, <1>2, <1>10 DEF SessionTypes, ScheduleSync
  <2> QED
    BY <1>1, <1>2, <1>3, <2>1 DEF SessionTypes, session
<1>15. Links'
  <2>1. Len(kind') = produced' /\ service' = "ssh" /\ ~creating'
    BY <1>1, <1>4, <1>5, <1>6, <1>9, <1>11
  <2>2. Reachable' => pending' = << >>
    BY <1>9, <1>11, <1>12
  <2> QED
    BY <1>12, <2>1, <2>2 DEF Links
<1> QED
  BY <1>1, <1>13, <1>14, <1>15 DEF SshInv

\* The handshake of the helper did not come in time.
LEMMA HandshakeTimeoutSafe ==
  ASSUME SshInv, HandshakeTimeout
  PROVE  SshInv'
<1> DEFINE t == DisableRuntime(Stream)
<1>1. /\ service = "ssh" /\ live /\ Become(t)
      /\ UNCHANGED <<session, produced, socket, written, service, creating, history>>
  BY DEF HandshakeTimeout
<1>2. /\ SessionTypes /\ Links /\ Flow(Stream, 1..produced) /\ Stream \in Streams
           /\ attached \in Client \cup {None}
      /\ Grows(Stream.pending) /\ Ordered(Stream.sent)
  BY InvFacts, StreamIs
<1>3. ~creating /\ Trusted(Stream, 1..produced)
  <2>1. ~creating
    BY <1>1, <1>2 DEF Links
  <2> QED
    BY <1>1, <2>1, InvFacts
<1>4. Flow(t, 1..produced) /\ Trusted(t, 1..produced) /\ KnowsGate(t)
  BY <1>2, <1>3, DisabledFlows, Distrusts
<1>5. t.kind = kind /\ t.sent = sent /\ (pending = << >> => t.pending = << >>)
  BY <1>2, DisabledFields, StreamIs
<1> HIDE DEF t
<1>6. UNCHANGED <<live, pty, attached, timer, socket>> /\ Reachable' = Reachable
  BY <1>1 DEF session, Reachable
<1>7. Flow(Stream', 1..produced) /\ Trusted(Stream', 1..produced) /\ KnowsGate(Stream)'
  BY <1>1, <1>4, <1>6, BecomesSafe
<1>8. SessionTypes'
  BY <1>1, <1>2, <1>6 DEF SessionTypes, history
<1>9. Links'
  <2>1. sent' = sent /\ kind' = kind /\ (pending = << >> => pending' = << >>)
    BY <1>1, <1>5 DEF Become
  <2> QED
    BY <1>1, <1>2, <1>3, <1>6, <2>1 DEF Links
<1> QED
  BY <1>1, <1>7, <1>8, <1>9 DEF SshInv

\* A client attaches to an SSH session: it gets what has waited, without the
\* events if the helper is not active, and is told the helper's state.
LEMMA SshAttachSafe ==
  ASSUME SshInv, NEW c \in Client, SshAttach(c)
  PROVE  SshInv'
<1> DEFINE q == IF gate = "active" THEN pending ELSE Only(pending, Visible(Stream))
           p == <<Ready>> \o q
           status == [state |-> gate, at |-> 1]
<1>1. /\ service = "ssh" /\ TakeOver(c, <<Ready>> \o q) /\ pending' = << >>
      /\ told' = [told EXCEPT ![c] = <<status>>]
      /\ ignored' = ignored \cup (Range(pending) \ Range(q))
      /\ UNCHANGED <<service, creating, gate, kind, history>>
  BY DEF SshAttach
<1>2. /\ Links /\ Flow(Stream, 1..produced)
           /\ Placed(pending, dropped, ignored, sent, 1..produced) /\ Ordered(sent)
      /\ pending \in Seq(Output) /\ Grows(pending) /\ gate \in Gate /\ kind \in Seq(Kind)
           /\ told \in [Client -> Seq(Status)]
      /\ sent \in [Client -> Seq(Frame)]
  BY InvFacts
<1>3. /\ q \in Seq(Output) /\ Grows(q) /\ Range(q) \subseteq Range(pending)
      /\ Placed(q, dropped, ignored \cup (Range(pending) \ Range(q)), sent, 1..produced)
      /\ \A g \in Range(pending) \ Range(q) : kind[g] # "output"
  <2>1. CASE gate = "active"
    <3>1. q = pending
      BY <2>1
    <3>2. Range(pending) \ Range(pending) = {} /\ ignored \cup {} = ignored
      OBVIOUS
    <3> HIDE DEF q
    <3> QED
      BY <1>2, <3>1, <3>2
  <2>2. CASE gate # "active"
    <3> DEFINE o == Only(pending, Visible(Stream))
    <3>1. q = o
      BY <2>2
    <3>2. o \in Seq(Output) /\ Grows(o) /\ Range(o) = Range(pending) \cap Visible(Stream)
      BY <1>2, OnlyKeeps
    <3>3. Placed(o, dropped, ignored \cup (Range(pending) \ Range(o)), sent, 1..produced)
      BY <1>2, WithholdPlaces
    <3>4. \A g \in Range(pending) : g \notin Visible(Stream) => kind[g] # "output"
      BY StreamIs DEF Visible, IsVisible
    <3> HIDE DEF o, q
    <3> QED
      BY <3>1, <3>2, <3>3, <3>4
  <2> QED
    BY <2>1, <2>2
<1> HIDE DEF q
<1>4. /\ SessionTypes' /\ Links' /\ sent[c] = << >> /\ ~creating /\ attached' = c
      /\ sent' = [sent EXCEPT ![c] = p] /\ UNCHANGED <<produced, dropped>>
  BY <1>1, <1>3, TakeOverLinks
<1>5. Placed(<< >>, dropped, ignored', sent', 1..produced) /\ Ordered(sent')
  BY <1>1, <1>2, <1>3, <1>4, FlushPlaces
<1>6. status \in Status /\ <<status>> \in Seq(Status) /\ Len(<<status>>) = 1 /\ <<status>>[1] = status
      /\ status.at = 1 /\ status.state = gate
  <2>1. 1 \in 0..(MaxOutput + 2)
    BY Numbers
  <2>2. status \in Status
    BY <1>2, <2>1 DEF Status
  <2> QED
    BY <2>2
<1> HIDE DEF status
<1>7. told' \in [Client -> Seq(Status)]
        /\ \A d \in Client : told'[d] = IF d = c THEN <<status>> ELSE told[d]
  BY <1>1, <1>2, <1>6
<1>8. Stream' \in Streams
  BY <1>1, <1>2, <1>4, <1>5, <1>7, StreamTypes DEF Placed
<1>9. Flow(Stream', 1..produced)
  <2>1. \A g \in ignored' : kind[g] # "output"
    BY <1>1, <1>2, <1>3, StreamIs DEF Flow
  <2> QED
    BY <1>1, <1>4, <1>5, <1>8, <2>1, StreamBecomes DEF Flow
<1>10. Trusted(Stream, 1..produced)
  BY <1>1, <1>4, InvFacts
<1>11. /\ ClearOfForeign(Stream, 1..produced) /\ ShookHands(Stream, 1..produced)
            /\ KeepsTrusted(Stream, 1..produced)
       /\ SendsTrusted(Stream, 1..produced) /\ ToldInTime(Stream)
  BY <1>10 DEF Trusted
<1>12. /\ Len(p) = Len(q) + 1 /\ Len(q) \in Nat /\ p[1] = Ready
       /\ \A i \in 1..(Len(q) + 1) : i = 1 \/ (i - 1 \in 1..Len(q) /\ p[i] = q[i - 1])
  BY <1>3, Prefixed
<1> HIDE DEF p
<1>13. \A d \in Client : sent'[d] = IF d = c THEN p ELSE sent[d]
  BY <1>2, <1>4
<1>14. ClearOfForeign(Stream', 1..produced) /\ ShookHands(Stream', 1..produced)
  BY <1>1, <1>4, <1>11, StreamIs, StreamBecomes DEF ClearOfForeign, ShookHands
<1>15. KeepsTrusted(Stream', 1..produced)
  BY <1>1, RangeOfNothing, StreamBecomes DEF KeepsTrusted
<1>16. ToldInTime(Stream')
  <2>1. ASSUME NEW d \in Client, NEW j \in 1..Len(told'[d]) PROVE told'[d][j].at <= Len(sent'[d])
    <3>1. CASE d = c
      <4>1. j = 1
        <5>1. told'[d] = <<status>>
          BY <1>7, <3>1
        <5>2. j \in 1..1
          BY <1>6, <2>1, <5>1
        <5> QED
          BY <5>2
      <4>2. 1 <= Len(p)
        BY <1>12
      <4> QED
        BY <1>6, <1>7, <1>13, <3>1, <4>1, <4>2
    <3>2. CASE d # c
      BY <1>7, <1>11, <1>13, <2>1, <3>2, StreamIs DEF ToldInTime
    <3> QED
      BY <3>1, <3>2
  <2> QED
    BY <2>1, StreamBecomes DEF ToldInTime
<1>17. ASSUME NEW d \in Client, NEW i \in 1..Len(Stream'.sent[d])
       PROVE MayReceive(Stream', 1..produced, d, i)
  <2>1. i \in 1..Len(sent'[d])
    BY <1>17, StreamBecomes
  <2>2. CASE d # c
    <3>1. sent'[d] = sent[d] /\ told'[d] = told[d]
      BY <1>7, <1>13, <2>2
    <3>2. MayReceive(Stream, 1..produced, d, i)
      BY <1>11, <2>1, <3>1, StreamIs DEF SendsTrusted
    <3> QED
      BY <1>1, <1>4, <3>1, <3>2, StreamIs, StreamBecomes DEF MayReceive
  <2>3. CASE d = c
    <3>1. sent'[d] = p /\ told'[d] = <<status>>
      BY <1>7, <1>13, <2>3
    <3>2. SUFFICES ASSUME p[i] \in Output, kind[p[i]] # "output"
                   PROVE MayReceive(Stream', 1..produced, d, i)
      BY <1>1, <3>1, StreamBecomes DEF MayReceive
    <3>3. i # 1
      BY <1>12, <3>2, Numbers
    <3>4. i - 1 \in 1..Len(q) /\ p[i] = q[i - 1]
      BY <1>12, <2>1, <3>1, <3>3
    <3>5. p[i] \in Range(pending)
      BY <1>3, <3>4, InRange
    <3>6. gate = "active" /\ HeardReady(kind, 1..produced, p[i])
      BY <1>11, <3>2, <3>5, StreamIs DEF KeepsTrusted
    <3>7. ToldActive(<<status>>, i)
      <4>1. 1 \in 1..Len(<<status>>) /\ \A l \in (1 + 1)..Len(<<status>>) : FALSE
        BY <1>6
      <4>2. 1 < i
        BY <1>12, <2>1, <3>1, <3>3
      <4> QED
        BY <1>6, <3>6, <4>1, <4>2 DEF ToldActive
    <3>8. \A o \in 1..produced : kind[o] = "foreign" => o \in dropped
      BY <1>11, <3>6, StreamIs DEF ClearOfForeign
    <3> QED
      BY <1>1, <1>4, <3>1, <3>6, <3>7, <3>8, StreamBecomes DEF MayReceive
  <2> QED
    BY <2>2, <2>3
<1>18. Trusted(Stream', 1..produced)
  BY <1>14, <1>15, <1>16, <1>17 DEF Trusted, SendsTrusted
<1>19. KnowsGate(Stream)'
  <2>1. told'[attached'] = <<status>>
    BY <1>4, <1>7
  <2>2. <<status>> # << >> /\ Last(<<status>>) = status
    BY <1>6 DEF Last
  <2> QED
    BY <1>1, <1>6, <2>1, <2>2, StreamBecomes DEF KnowsGate
<1> QED
  BY <1>1, <1>4, <1>9, <1>18, <1>19 DEF SshInv

\* Every step of an SSH session.
LEMMA SshStepSafe ==
  ASSUME SshInv, SshStep
  PROVE  SshInv'
<1>1. SessionTypes
  BY InvFacts
<1>2. ASSUME Ending
      PROVE  UNCHANGED <<service, creating, trust>>
               /\ {syncTimer', reading', again', asked', deleting'} \subseteq BOOLEAN
  <2>1. CASE UNCHANGED history
    BY <1>1, <1>2, <2>1 DEF SessionTypes, history, Ending
  <2>2. CASE syncTimer' = FALSE /\ reading' = FALSE /\ again' = FALSE /\ asked' = FALSE
          /\ deleting' = FALSE
    BY <1>2, <2>2 DEF Ending
  <2> QED
    BY <1>2, <2>1, <2>2 DEF Ending
<1>3. CASE \E c \in Client : (RejectAttach(c) \/ ClientGoes(c) \/ SocketClosed(c)) /\ Ending
  BY <1>2, <1>3, SocketSafe
<1>4. CASE ((\E c \in Client : ClientRequestsClose(c)) \/ PtyExit \/ AttachTimeout \/ CloseSession) /\ Ending
  <2>1. live /\ DisposeSession /\ UNCHANGED <<output, written>>
    BY <1>4 DEF ClientRequestsClose, PtyExit, AttachTimeout, CloseSession
  <2> QED
    BY <1>2, <1>4, <2>1, DisposeSafe
<1> QED
  BY <1>3, <1>4 DEF SshStep, Socket, Timeout

\* Nothing changes.
LEMMA StutterSafe == SshInv /\ UNCHANGED allVars => SshInv'
<1> SUFFICES ASSUME SshInv, UNCHANGED allVars PROVE SshInv'
  OBVIOUS
<1>1. SessionTypes /\ Links
  BY InvFacts
<1>2. UNCHANGED <<output, sent, service, creating, trust, live, pty, timer, attached, socket, written,
                  history>>
  BY DEF allVars, vars, session, sshVars
<1>3. SessionTypes'
  BY <1>1, <1>2 DEF SessionTypes, output, history
<1>4. \A c \in Client : socket'[c] \in {socket[c], "closing", "closed"}
  BY <1>2
<1>5. attached' = attached /\ live' = live /\ (attached' # None => live') /\ (live' => pty')
  BY <1>1, <1>2 DEF Links
<1> QED
  BY <1>2, <1>3, <1>4, <1>5, QuietKeeps

\* Every step keeps the invariant.
LEMMA StepSafe == SshInv /\ [SshNext]_allVars => SshInv'
<1> SUFFICES ASSUME SshInv, [SshNext]_allVars PROVE SshInv'
  OBVIOUS
<1>1. CASE service = "local" /\ Next /\ UNCHANGED sshVars
  BY <1>1, LocalSafe
<1>2. CASE \E k \in Kind : RawOutput(k) \/ ShellOutput(k)
  BY <1>2, RawOutputSafe, ShellOutputSafe
<1>3. CASE Register \/ HandshakeTimeout
  BY <1>3, RegisterSafe, HandshakeTimeoutSafe
<1>4. CASE \E c \in Client : SshAttach(c)
  BY <1>4, SshAttachSafe
<1>5. CASE \/ SyncHistory \/ HistoryRead \/ DeletionEnds \/ ShellCloses \/ AttachTimeoutTooEarly
           \/ \E c \in Client : SshInput(c) \/ DeleteHistoryEntry(c)
  BY <1>5, HistorySafe
<1>6. CASE SshStep
  BY <1>6, SshStepSafe
<1>7. CASE UNCHANGED allVars
  BY <1>7, StutterSafe
<1> QED
  BY <1>1, <1>2, <1>3, <1>4, <1>5, <1>6, <1>7 DEF SshNext

-----------------------------------------------------------------------------
(* The theorems.                                                           *)

\* The inductive invariant holds in every reachable state.
THEOREM SshInvAlways == SshSpec => []SshInv
  BY InitSafe, StepSafe, PTL DEF SshSpec

\* The invariant implies that the stream is safe.
LEMMA InvIsSafe == SshInv => StreamIsSafe
<1> SUFFICES ASSUME SshInv PROVE StreamIsSafe
  OBVIOUS
<1>1. /\ SessionTypes /\ Links /\ Placed(pending, dropped, ignored, sent, 1..produced)
      /\ told \in [Client -> Seq(Status)] /\ kind \in Seq(Kind) /\ gate \in Gate
      /\ \A f \in ignored : kind[f] # "output"
  BY InvFacts, StreamIs DEF Flow
<1>2. TypeOK
  BY <1>1 DEF TypeOK, SessionTypes, Links, Placed, InCaps, Frame
<1>3. SshTypeOK
  <2>1. DOMAIN told = Client /\ \A c \in Client : told[c] \in Seq(Status)
    BY <1>1
  <2> QED
    BY <1>1, <2>1 DEF SshTypeOK, SessionTypes, Links, Placed, Status, Gate
<1>4. Received = Recv(sent)
  BY DEF Received, Recv
<1> QED
  BY <1>1, <1>2, <1>3, <1>4 DEF StreamIsSafe, Placed

\* And that frames are in order.
LEMMA InvIsOrdered == SshInv => FramesAreInOrder
  BY InvFacts DEF FramesAreInOrder, Ordered, Grows

\* And that events are trusted.
LEMMA InvIsTrusted == SshInv => EventsAreTrusted
<1> SUFFICES ASSUME SshInv PROVE EventsAreTrusted
  OBVIOUS
<1>1. ASSUME NEW c \in Client, NEW i \in 1..Len(sent[c]), Event(sent[c][i])
      PROVE  /\ \E j \in 1..Len(told[c]) :
                  /\ told[c][j].state = "active" /\ told[c][j].at < i
                  /\ \A l \in (j + 1)..Len(told[c]) : told[c][l].at >= i
             /\ \E first \in 1..sent[c][i] : kind[first] = "ready"
             /\ \A other \in 1..sent[c][i] : kind[other] = "foreign" => other \in dropped
  <2> DEFINE f == sent[c][i]
  <2>1. f \in Output /\ service = "ssh" /\ kind[f] # "output"
    BY <1>1 DEF Event
  <2>2. ~creating
    <3>1. i \in 1..Len(<< >>) => FALSE
      OBVIOUS
    <3> QED
      BY <1>1, <3>1, InvFacts DEF Links
  <2>3. MayReceive(Stream, 1..produced, c, i)
    BY <1>1, <2>1, <2>2, InvFacts, StreamIs DEF Trusted, SendsTrusted
  <2>4. f \in 1..produced /\ produced \in Nat
    <3>1. f \in Range(sent[c]) /\ Recv(sent) \subseteq 1..produced /\ sent \in [Client -> Seq(Frame)]
      BY <1>1, InvFacts, InRange DEF Placed
    <3> QED
      BY <2>1, <3>1, ReceivedBySome, InvFacts
  <2>5. ToldActive(told[c], i) /\ HeardReady(kind, 1..produced, f)
          /\ \A o \in 1..produced : o <= f /\ kind[o] = "foreign" => o \in dropped
    BY <2>1, <2>3, StreamIs DEF MayReceive
  <2> HIDE DEF f
  <2>6. \E first \in 1..f : kind[first] = "ready"
    BY <2>4, <2>5 DEF HeardReady
  <2>7. \A other \in 1..f : kind[other] = "foreign" => other \in dropped
    BY <2>4, <2>5
  <2> QED
    BY <2>5, <2>6, <2>7 DEF ToldActive, f
<1>2. ASSUME service = "ssh", live, Reachable PROVE told[attached] # << >>
        /\ Last(told[attached]).state = gate
  <2>1. ~creating
    BY <1>2, InvFacts DEF Links
  <2> QED
    BY <1>2, <2>1, InvFacts, StreamIs DEF KnowsGate
<1> QED
  BY <1>1, <1>2 DEF EventsAreTrusted

\* For every set of clients, length of output and caps of the buffer,
\* whatever the order of output, attachments, closing sockets, timers and the
\* handshake, every frame of the shell was sent once, waits, was evicted as
\* the oldest or withheld by the trust gate, never two of these; the buffer
\* keeps its caps, and no visible output is withheld
\* (bufferPendingStreamFrame, flushPendingStreamFrames,
\* discardPendingRemoteShellEventFrames).
THEOREM StreamAlwaysSafe == SshSpec => []StreamIsSafe
  BY SshInvAlways, InvIsSafe, PTL

\* Every client is sent ready first and then, in the order the shell produced
\* them, frames it was not sent before, through every attachment, flush and
\* replay (BaseTerminalSessionService, flushPendingStreamFrames).
THEOREM FramesAlwaysInOrder == SshSpec => []FramesAreInOrder
  BY SshInvAlways, InvIsOrdered, PTL

\* A client receives an event of the remote helper only when it was last told
\* that the helper is active, after its handshake and before anything that
\* breaks its contract; and the client that can be reached always knows the
\* state of the helper (handleRemoteShellEvent,
\* disableRemoteEnhancementsRuntime, onSessionAttached).
THEOREM EventsAlwaysTrusted == SshSpec => []EventsAreTrusted
  BY SshInvAlways, InvIsTrusted, PTL
=============================================================================
