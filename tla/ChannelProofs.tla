--------------------------- MODULE ChannelProofs ---------------------------
(***************************************************************************)
(* Proofs about the channels of the job runner, for every tree, all jobs   *)
(* and all times: what the runner's rounds do to its memory, and that it   *)
(* sleeps neither too long nor not at all.  And about the queue of one     *)
(* channel, for every order, all times, sequential or not: its two heaps   *)
(* with lazy deletion implement PendingJobs.                               *)
(***************************************************************************)
EXTENDS ChannelManager, ChannelQueue, FiniteSetTheorems, WellFoundedInduction, TLAPS

-----------------------------------------------------------------------------
(* First and least elements. *)

\* A set of times that is not empty has a least one.
LEMMA LeastTime ==
  ASSUME NEW T \in SUBSET Nat, T # {}
  PROVE  \E t \in T : \A u \in T : t <= u
<1> DEFINE R == OpToRel(<, Nat)
<1>1. PICK t \in T : \A u \in T : ~(<<u, t>> \in R)
  <2>1. IsWellFoundedOn(R, Nat) BY NatLessThanWellFounded
  <2> HIDE DEF R
  <2> QED BY <2>1, WFMin
<1>2. \A u \in T : ~(u < t)
  BY <1>1 DEF OpToRel
<1> QED BY <1>2

\* A queue that is not empty has a first job: its key is the least.
LEMMA FirstIn ==
  ASSUME NEW S \in SUBSET Jobs, S # {}
  PROVE  First(S) \in S
<1> DEFINE T == {Key[j] : j \in S}
<1>1. T \in SUBSET Nat /\ T # {}
  BY KeyAssumption
<1>2. PICK x \in T : \A y \in T : x <= y
  <2> HIDE DEF T
  <2> QED BY <1>1, LeastTime
<1>3. PICK j \in S : Key[j] = x
  OBVIOUS
<1>4. \A i \in S \ {j} : Precedes(j, i)
  <2> SUFFICES ASSUME NEW i \in S \ {j} PROVE Key[j] < Key[i]
    BY DEF Precedes
  <2>1. Key[i] \in Nat /\ Key[j] \in Nat /\ Key[j] <= Key[i] /\ Key[i] # Key[j]
    BY <1>2, <1>3, KeyAssumption
  <2> QED BY <2>1
<1> QED BY <1>4 DEF First

-----------------------------------------------------------------------------
(* What the operations of the tree do to the memory. *)

Due(m, c, t) == {j \in m.delayed[c] : m.eta[j] <= t}

\* n is m after the jobs of D, delayed in c, have become ready there.
Moved(m, c, D, n) ==
  /\ n \in Memory /\ n.running = m.running /\ n.failed = m.failed
  /\ \A d \in Tree : n.ready[d] = IF d = c THEN m.ready[d] \cup D ELSE m.ready[d]
  /\ \A d \in Tree : n.delayed[d] = IF d = c THEN m.delayed[d] \ D ELSE m.delayed[d]
  /\ \A j \in Jobs : n.eta[j] = IF j \in D THEN 0 ELSE m.eta[j]

LEMMA MemoryTypes ==
  ASSUME NEW m \in Memory
  PROVE  /\ m.ready \in JobSets /\ m.delayed \in JobSets
         /\ m.running \in JobSets /\ m.failed \in JobSets
         /\ m.pause \in [Tree -> Nat] /\ m.eta \in [Jobs -> Nat]
BY DEF Memory

LEMMA MaturedEffect ==
  ASSUME NEW m \in Memory, NEW c \in Tree, NEW t \in Nat
  PROVE  /\ Moved(m, c, Due(m, c, t), Matured(m, c, t))
         /\ Matured(m, c, t).pause = m.pause
<1> DEFINE due == Due(m, c, t)
           n == [m EXCEPT !.ready[c] = @ \cup due, !.delayed[c] = @ \ due,
                          !.eta = [j \in Jobs |-> IF j \in due THEN 0 ELSE m.eta[j]]]
<1>1. due \in SUBSET Jobs
  BY MemoryTypes DEF Due, JobSets
<1>2. Matured(m, c, t) = n
  BY DEF Matured, Due
<1> HIDE DEF due
<1>3. n \in Memory
  BY <1>1 DEF Memory, JobSets
<1>4. /\ n.running = m.running /\ n.failed = m.failed /\ n.pause = m.pause
      /\ \A d \in Tree : n.ready[d] = IF d = c THEN m.ready[d] \cup due ELSE m.ready[d]
      /\ \A d \in Tree : n.delayed[d] = IF d = c THEN m.delayed[d] \ due ELSE m.delayed[d]
      /\ \A j \in Jobs : n.eta[j] = IF j \in due THEN 0 ELSE m.eta[j]
  BY <1>1 DEF Memory, JobSets
<1> HIDE DEF n
<1> QED BY <1>2, <1>3, <1>4 DEF due, Moved

\* A channel that yields takes its first job, which was ready or has matured.
LEMMA NextIn ==
  ASSUME NEW m \in Memory, NEW c \in Tree, NEW t \in Nat, CanYield(m, c, t)
  PROVE  /\ NextJob(m, c, t) \in m.ready[c] \cup Due(m, c, t)
         /\ NextJob(m, c, t) \in Jobs
<1>1. Matured(m, c, t).ready[c] = m.ready[c] \cup Due(m, c, t)
  BY MaturedEffect DEF Moved
<1>2. m.ready[c] \cup Due(m, c, t) \in SUBSET Jobs
  BY MemoryTypes DEF Due, JobSets
<1> QED BY <1>1, <1>2, FirstIn DEF NextJob, CanYield

\* n is m after c has yielded j at t, the jobs of D being due.
Yielded(m, c, t, D, j, n) ==
  /\ n \in Memory /\ n.failed = m.failed
  /\ \A d \in Tree : n.running[d] = IF d = c THEN m.running[d] \cup {j} ELSE m.running[d]
  /\ \A d \in Tree : n.pause[d] = IF d = c /\ Throttle[c] # 0 THEN t + Throttle[c] ELSE m.pause[d]
  /\ \A d \in Tree : n.ready[d] = IF d = c THEN (m.ready[d] \cup D) \ {j}
                                  ELSE IF c # Root /\ d = Parent[c] THEN m.ready[d] \cup {j}
                                  ELSE m.ready[d]
  /\ \A d \in Tree : n.delayed[d] = IF d = c THEN m.delayed[d] \ D ELSE m.delayed[d]
  /\ \A k \in Jobs : n.eta[k] = IF k \in D THEN 0 ELSE m.eta[k]

LEMMA YieldEffect ==
  ASSUME NEW m \in Memory, NEW c \in Tree, NEW t \in Nat, CanYield(m, c, t)
  PROVE  Yielded(m, c, t, Due(m, c, t), NextJob(m, c, t), Yield(m, c, t))
<1> DEFINE j == NextJob(m, c, t)
           p == IF Throttle[c] = 0 THEN m.pause[c] ELSE t + Throttle[c]
           due == Due(m, c, t)
           o == Matured(m, c, t)
           took == [o EXCEPT !.ready[c] = @ \ {j}, !.running[c] = @ \cup {j}, !.pause[c] = p]
<1>1. j \in Jobs
  BY NextIn
<1>2. p \in Nat
  BY MemoryTypes, ChannelsAssumption DEF Configured
<1>3. Moved(m, c, due, o) /\ o.pause = m.pause
  BY MaturedEffect
<1>4. o.pause[c] = m.pause[c]
  BY <1>3
<1>5. Yield(m, c, t) = IF c = Root THEN took ELSE [took EXCEPT !.ready[Parent[c]] = @ \cup {j}]
  BY <1>4 DEF Yield
<1> HIDE DEF j, p, o, due
<1>6. /\ took \in Memory /\ took.failed = o.failed /\ took.delayed = o.delayed /\ took.eta = o.eta
      /\ \A d \in Tree : took.ready[d] = IF d = c THEN o.ready[d] \ {j} ELSE o.ready[d]
      /\ \A d \in Tree : took.running[d] = IF d = c THEN o.running[d] \cup {j} ELSE o.running[d]
      /\ \A d \in Tree : took.pause[d] = IF d = c THEN p ELSE o.pause[d]
  BY <1>1, <1>2, <1>3 DEF Memory, JobSets, Moved
<1> HIDE DEF took
<1>7. c # Root => Parent[c] \in Tree /\ Parent[c] # c
  BY ChannelsAssumption DEF TreeOK
<1> DEFINE n == Yield(m, c, t)
<1>8. /\ n \in Memory /\ n.failed = took.failed /\ n.delayed = took.delayed /\ n.eta = took.eta
      /\ n.running = took.running /\ n.pause = took.pause
      /\ \A d \in Tree : n.ready[d] = IF c # Root /\ d = Parent[c] THEN took.ready[d] \cup {j} ELSE took.ready[d]
  <2>1. CASE c = Root
    <3>1. n = took
      BY <1>5, <2>1
    <3> QED BY <3>1, <1>6, <2>1
  <2>2. CASE c # Root
    <3>1. n = [took EXCEPT !.ready[Parent[c]] = @ \cup {j}]
      BY <1>5, <2>2
    <3>2. Parent[c] \in Tree /\ took \in Memory
      BY <1>6, <1>7, <2>2
    <3> HIDE DEF n
    <3> QED BY <1>1, <2>2, <3>1, <3>2 DEF Memory, JobSets
  <2> QED BY <2>1, <2>2
<1> HIDE DEF n
<1>9. /\ n \in Memory /\ n.failed = m.failed
      /\ \A d \in Tree : n.running[d] = IF d = c THEN m.running[d] \cup {j} ELSE m.running[d]
      /\ \A k \in Jobs : n.eta[k] = IF k \in due THEN 0 ELSE m.eta[k]
  BY <1>3, <1>6, <1>8 DEF Moved
<1>10. /\ \A d \in Tree : n.pause[d] = IF d = c /\ Throttle[c] # 0 THEN t + Throttle[c] ELSE m.pause[d]
       /\ \A d \in Tree : n.delayed[d] = IF d = c THEN m.delayed[d] \ due ELSE m.delayed[d]
  <2>1. \A d \in Tree : n.pause[d] = IF d = c THEN p ELSE m.pause[d]
    BY <1>3, <1>6, <1>8
  <2>2. p = IF Throttle[c] # 0 THEN t + Throttle[c] ELSE m.pause[c]
    BY DEF p
  <2>3. \A d \in Tree : n.delayed[d] = o.delayed[d]
    BY <1>6, <1>8
  <2>4. \A d \in Tree : o.delayed[d] = IF d = c THEN m.delayed[d] \ due ELSE m.delayed[d]
    BY <1>3 DEF Moved
  <2> QED BY <2>1, <2>2, <2>3, <2>4
<1>11. ASSUME NEW d \in Tree
       PROVE  n.ready[d] = IF d = c THEN (m.ready[d] \cup due) \ {j}
                           ELSE IF c # Root /\ d = Parent[c] THEN m.ready[d] \cup {j}
                           ELSE m.ready[d]
  <2>1. o.ready[d] = IF d = c THEN m.ready[d] \cup due ELSE m.ready[d]
    BY <1>3 DEF Moved
  <2>2. took.ready[d] = IF d = c THEN o.ready[d] \ {j} ELSE o.ready[d]
    BY <1>6
  <2>3. n.ready[d] = IF c # Root /\ d = Parent[c] THEN took.ready[d] \cup {j} ELSE took.ready[d]
    BY <1>8
  <2>4. CASE d = c
    BY <1>7, <2>1, <2>2, <2>3, <2>4
  <2>5. CASE d # c
    BY <2>1, <2>2, <2>3, <2>5
  <2> QED BY <2>4, <2>5
<1> QED BY <1>9, <1>10, <1>11 DEF n, j, due, Yielded

\* What has matured when c gives up: nothing while it is paused or full.
Released(m, c, t) == IF Paused(m, c, t) \/ ~HasCapacity(m, c) THEN {} ELSE Due(m, c, t)

LEMMA GiveUpEffect ==
  ASSUME NEW m \in Memory, NEW c \in Tree, NEW t \in Nat
  PROVE  LET n == GiveUp(m, c, t)
         IN  /\ Moved(m, c, Released(m, c, t), n)
             /\ \A d \in Tree : n.pause[d] = IF d = c /\ ~Paused(m, c, t) THEN 0 ELSE m.pause[d]
<1> DEFINE m1 == IF Paused(m, c, t) THEN m ELSE [m EXCEPT !.pause[c] = 0]
<1>1. /\ m1 \in Memory /\ m1.running = m.running /\ m1.failed = m.failed /\ m1.ready = m.ready
      /\ m1.delayed = m.delayed /\ m1.eta = m.eta
      /\ \A d \in Tree : m1.pause[d] = IF d = c /\ ~Paused(m, c, t) THEN 0 ELSE m.pause[d]
  BY DEF Memory, JobSets
<1> HIDE DEF m1
<1>2. GiveUp(m, c, t) = IF ~Paused(m, c, t) /\ HasCapacity(m, c) THEN Matured(m1, c, t) ELSE m1
  BY DEF GiveUp, m1
<1>3. Due(m1, c, t) = Due(m, c, t)
  BY <1>1 DEF Due
<1>4. CASE ~Paused(m, c, t) /\ HasCapacity(m, c)
  <2> DEFINE n == Matured(m1, c, t)
             due == Due(m1, c, t)
  <2>1. GiveUp(m, c, t) = n
    BY <1>2, <1>4
  <2>2. Moved(m1, c, due, n) /\ n.pause = m1.pause
    BY <1>1, MaturedEffect
  <2>3. due = Released(m, c, t)
    BY <1>3, <1>4 DEF Released
  <2> HIDE DEF n, due
  <2> QED BY <1>1, <2>1, <2>2, <2>3 DEF Moved
<1>5. CASE Paused(m, c, t) \/ ~HasCapacity(m, c)
  <2>1. GiveUp(m, c, t) = m1
    BY <1>2, <1>5
  <2>2. Released(m, c, t) = {}
    BY <1>5 DEF Released
  <2> QED BY <1>1, <2>1, <2>2 DEF Moved
<1> QED BY <1>4, <1>5

\* n is m without j in the job's channel and everything downstream.
Cleared(m, j, n) ==
  /\ n \in Memory /\ n.pause = m.pause /\ n.eta = m.eta
  /\ \A d \in Tree :
       LET gone == IF d \in Up[ChannelOf[j]] THEN {j} ELSE {}
       IN  /\ n.ready[d] = m.ready[d] \ gone /\ n.delayed[d] = m.delayed[d] \ gone
           /\ n.running[d] = m.running[d] \ gone /\ n.failed[d] = m.failed[d] \ gone

\* What Without and With make of job sets.
LEMMA WithoutWith ==
  ASSUME NEW s \in JobSets, NEW j \in Jobs, NEW C
  PROVE  /\ Without(s, j, C) \in JobSets /\ With(s, j, C) \in JobSets
         /\ \A d \in Tree : Without(s, j, C)[d] = IF d \in C THEN s[d] \ {j} ELSE s[d]
         /\ \A d \in Tree : With(s, j, C)[d] = IF d \in C THEN s[d] \cup {j} ELSE s[d]
BY DEF JobSets, Without, With

LEMMA RemoveEffect ==
  ASSUME NEW m \in Memory, NEW j \in Jobs
  PROVE  Cleared(m, j, RemoveJob(m, j))
<1> DEFINE path == Up[ChannelOf[j]]
           n == RemoveJob(m, j)
<1>1. n = [m EXCEPT !.ready = Without(m.ready, j, path), !.delayed = Without(m.delayed, j, path),
                    !.running = Without(m.running, j, path), !.failed = Without(m.failed, j, path)]
  BY DEF RemoveJob
<1> HIDE DEF path, n
<1>2. /\ n.ready = Without(m.ready, j, path) /\ n.delayed = Without(m.delayed, j, path)
      /\ n.running = Without(m.running, j, path) /\ n.failed = Without(m.failed, j, path)
      /\ n.pause = m.pause /\ n.eta = m.eta
  BY <1>1 DEF Memory
<1>3. n \in Memory
  BY <1>1, MemoryTypes, WithoutWith DEF Memory
<1>4. ASSUME NEW s \in JobSets, NEW d \in Tree
      PROVE  Without(s, j, path)[d] = s[d] \ (IF d \in path THEN {j} ELSE {})
  <2>1. Without(s, j, path)[d] = IF d \in path THEN s[d] \ {j} ELSE s[d]
    BY DEF Without
  <2> QED BY <2>1
<1>5. ASSUME NEW d \in Tree
      PROVE  LET gone == IF d \in path THEN {j} ELSE {}
             IN  /\ n.ready[d] = m.ready[d] \ gone /\ n.delayed[d] = m.delayed[d] \ gone
                 /\ n.running[d] = m.running[d] \ gone /\ n.failed[d] = m.failed[d] \ gone
  BY <1>2, <1>4, MemoryTypes
<1> QED BY <1>2, <1>3, <1>5 DEF Cleared, n, path

-----------------------------------------------------------------------------
(* Where the jobs are. *)

On(m, j, c) == j \in m.ready[c] \/ j \in m.delayed[c] \/ j \in m.running[c] \/ j \in m.failed[c]

\* The channels between the job's own and c.
Below(j, c) == {b \in Up[ChannelOf[j]] : b # c /\ c \in Up[b]}

Alone(m, j, c) ==
  /\ j \in m.ready[c] => j \notin m.delayed[c] /\ j \notin m.running[c] /\ j \notin m.failed[c]
  /\ j \in m.delayed[c] => j \notin m.running[c] /\ j \notin m.failed[c]
  /\ j \in m.running[c] => j \notin m.failed[c]

\* What OnePlace says of one job and one channel.
PlacedAt(m, j, c) ==
  /\ Alone(m, j, c)
  /\ On(m, j, c) => c \in Up[ChannelOf[j]] /\ \A b \in Below(j, c) : j \in m.running[b]
  /\ j \in m.delayed[c] \/ j \in m.failed[c] => c = ChannelOf[j]
  /\ j \in m.running[c] /\ c # Root => j \in m.ready[Parent[c]] \/ j \in m.running[Parent[c]]

Placed(m) == \A j \in Jobs : \A c \in Tree : PlacedAt(m, j, c)

SameMarks(m, n, k) ==
  \A d \in Tree :
    /\ k \in n.ready[d] <=> k \in m.ready[d]
    /\ k \in n.delayed[d] <=> k \in m.delayed[d]
    /\ k \in n.running[d] <=> k \in m.running[d]
    /\ k \in n.failed[d] <=> k \in m.failed[d]

\* The channels on the way to the root.
LEMMA TreeFacts ==
  ASSUME NEW c \in Tree
  PROVE  /\ c \in Up[c] /\ Root \in Up[c]
         /\ \A b \in Up[c] : b \in Tree /\ Up[b] \subseteq Up[c]
         /\ \A a, b \in Up[c] : a \in Up[b] \/ b \in Up[a]
         /\ \A a, b \in Up[c] : a \in Up[b] /\ b \in Up[a] => a = b
         /\ Up[Root] = {Root}
         /\ c # Root => /\ Parent[c] \in Tree /\ Parent[c] # c
                        /\ Up[c] = {c} \cup Up[Parent[c]] /\ Parent[c] \in Up[c]
BY ChannelsAssumption DEF TreeOK

LEMMA ChannelOfIn ==
  ASSUME NEW j \in Jobs
  PROVE  ChannelOf[j] \in Tree
BY ChannelsAssumption

\* Nothing lies between a job's channel and itself.
LEMMA NothingBelow ==
  ASSUME NEW j \in Jobs
  PROVE  Below(j, ChannelOf[j]) = {}
BY ChannelOfIn, TreeFacts DEF Below

LEMMA PlacedSame ==
  ASSUME NEW m, NEW n, NEW k \in Jobs, SameMarks(m, n, k), \A c \in Tree : PlacedAt(m, k, c)
  PROVE  \A c \in Tree : PlacedAt(n, k, c)
<1> SUFFICES ASSUME NEW c \in Tree PROVE PlacedAt(n, k, c)
  OBVIOUS
<1>1. PlacedAt(m, k, c)
  OBVIOUS
<1>2. Alone(n, k, c) /\ (On(n, k, c) <=> On(m, k, c))
  BY <1>1 DEF SameMarks, PlacedAt, Alone, On
<1>3. \A b \in Below(k, c) : b \in Tree
  BY ChannelOfIn, TreeFacts DEF Below
<1>4. c # Root => Parent[c] \in Tree
  BY TreeFacts
<1> QED BY <1>1, <1>2, <1>3, <1>4 DEF SameMarks, PlacedAt

\* n differs from m by what concerns j.
Rearranged(m, j, n) ==
  n \in Memory /\ n.pause = m.pause /\ \A k \in Jobs \ {j} : SameMarks(m, n, k)

LEMMA RearrangedPlaced ==
  ASSUME NEW m, NEW j \in Jobs, NEW n, Placed(m), Rearranged(m, j, n),
         \A c \in Tree : PlacedAt(n, j, c)
  PROVE  Placed(n)
BY PlacedSame DEF Placed, Rearranged

\* Once removed, a job is nowhere.
LEMMA RemovedNowhere ==
  ASSUME NEW m \in Memory, NEW j \in Jobs, Placed(m), NEW n, Cleared(m, j, n)
  PROVE  Rearranged(m, j, n) /\ \A c \in Tree : ~On(n, j, c)
<1>1. ASSUME NEW c \in Tree PROVE ~On(n, j, c)
  <2>1. CASE c \in Up[ChannelOf[j]]
    BY <2>1 DEF Cleared, On
  <2>2. CASE c \notin Up[ChannelOf[j]]
    BY <2>2 DEF Cleared, On, Placed, PlacedAt
  <2> QED BY <2>1, <2>2
<1>2. ASSUME NEW k \in Jobs \ {j} PROVE SameMarks(m, n, k)
  BY <1>2 DEF Cleared, SameMarks
<1> QED BY <1>1, <1>2 DEF Rearranged, Cleared

LEMMA NowherePlaced ==
  ASSUME NEW n, NEW j \in Jobs, \A c \in Tree : ~On(n, j, c)
  PROVE  \A c \in Tree : PlacedAt(n, j, c)
BY DEF On, PlacedAt, Alone

\* A job that is only queued, or only failed, in its own channel is well placed.
LEMMA HomePlaced ==
  ASSUME NEW n, NEW j \in Jobs,
         \A c \in Tree : c # ChannelOf[j] => ~On(n, j, c),
         Alone(n, j, ChannelOf[j]), j \notin n.running[ChannelOf[j]]
  PROVE  \A c \in Tree : PlacedAt(n, j, c)
<1> SUFFICES ASSUME NEW c \in Tree PROVE PlacedAt(n, j, c)
  OBVIOUS
<1>1. CASE c = ChannelOf[j]
  BY <1>1, NothingBelow, ChannelOfIn, TreeFacts DEF PlacedAt
<1>2. CASE c # ChannelOf[j]
  BY <1>2 DEF PlacedAt, On, Alone
<1> QED BY <1>1, <1>2

-----------------------------------------------------------------------------
(* Notifications keep every job placed. *)

\* n is a memory in which j and only j may have moved, and is placed.
Renewed(m, j, n) == Rearranged(m, j, n) /\ Placed(n)

LEMMA RemoveRenews ==
  ASSUME NEW m \in Memory, NEW j \in Jobs, Placed(m)
  PROVE  Renewed(m, j, RemoveJob(m, j)) /\ \A c \in Tree : ~On(RemoveJob(m, j), j, c)
<1>1. Cleared(m, j, RemoveJob(m, j))
  BY RemoveEffect
<1>2. Rearranged(m, j, RemoveJob(m, j)) /\ \A c \in Tree : ~On(RemoveJob(m, j), j, c)
  BY <1>1, RemovedNowhere
<1> QED BY <1>2, NowherePlaced, RearrangedPlaced DEF Renewed

\* Queued or failed in its own channel only, after it was nowhere.
LEMMA PutHome ==
  ASSUME NEW m \in Memory, NEW j \in Jobs, Placed(m), NEW r, Rearranged(m, j, r),
         \A c \in Tree : ~On(r, j, c),
         NEW n \in Memory, n.pause = r.pause, n.running = r.running,
         \A k \in Jobs \ {j} : SameMarks(r, n, k),
         \A c \in Tree : c # ChannelOf[j] => ~On(n, j, c),
         Alone(n, j, ChannelOf[j])
  PROVE  Renewed(m, j, n)
<1>1. Rearranged(m, j, n)
  BY DEF Rearranged, SameMarks
<1>2. j \notin n.running[ChannelOf[j]]
  BY ChannelOfIn DEF On
<1>3. \A c \in Tree : PlacedAt(n, j, c)
  BY <1>2, HomePlaced
<1> QED BY <1>1, <1>3, RearrangedPlaced DEF Renewed

LEMMA SetPendingRenews ==
  ASSUME NEW m \in Memory, NEW j \in Jobs, Placed(m)
  PROVE  Renewed(m, j, SetPending(m, j))
<1> DEFINE c == ChannelOf[j]
           r == RemoveJob(m, j)
           n1 == [r EXCEPT !.ready = With(r.ready, j, {c})]
           n2 == [r EXCEPT !.delayed = With(r.delayed, j, {c})]
<1>1. SetPending(m, j) = IF j \in m.ready[c] \cup m.delayed[c] THEN m
                         ELSE IF m.eta[j] = 0 THEN n1 ELSE n2
  BY DEF SetPending
<1>2. Renewed(m, j, m)
  BY DEF Renewed, Rearranged, SameMarks
<1>3. r \in Memory /\ Rearranged(m, j, r) /\ (\A d \in Tree : ~On(r, j, d)) /\ c \in Tree
  BY RemoveRenews, ChannelOfIn DEF Renewed, Rearranged
<1> HIDE DEF r, c
<1>4. Renewed(m, j, n1)
  <2>1. /\ n1 \in Memory /\ n1.pause = r.pause /\ n1.running = r.running /\ n1.failed = r.failed
        /\ n1.delayed = r.delayed
        /\ \A d \in Tree : n1.ready[d] = IF d = c THEN r.ready[d] \cup {j} ELSE r.ready[d]
    BY <1>3 DEF Memory, JobSets, With
  <2> HIDE DEF n1
  <2>2. \A k \in Jobs \ {j} : SameMarks(r, n1, k)
    BY <2>1 DEF SameMarks
  <2>3. (\A d \in Tree : d # c => ~On(n1, j, d)) /\ Alone(n1, j, c)
    BY <1>3, <2>1 DEF On, Alone
  <2> QED BY <1>3, <2>1, <2>2, <2>3, PutHome DEF c
<1>5. Renewed(m, j, n2)
  <2>1. /\ n2 \in Memory /\ n2.pause = r.pause /\ n2.running = r.running /\ n2.failed = r.failed
        /\ n2.ready = r.ready
        /\ \A d \in Tree : n2.delayed[d] = IF d = c THEN r.delayed[d] \cup {j} ELSE r.delayed[d]
    BY <1>3 DEF Memory, JobSets, With
  <2> HIDE DEF n2
  <2>2. \A k \in Jobs \ {j} : SameMarks(r, n2, k)
    BY <2>1 DEF SameMarks
  <2>3. (\A d \in Tree : d # c => ~On(n2, j, d)) /\ Alone(n2, j, c)
    BY <1>3, <2>1 DEF On, Alone
  <2> QED BY <1>3, <2>1, <2>2, <2>3, PutHome DEF c
<1> HIDE DEF n1, n2
<1> QED BY <1>1, <1>2, <1>4, <1>5

LEMMA SetFailedRenews ==
  ASSUME NEW m \in Memory, NEW j \in Jobs, Placed(m)
  PROVE  Renewed(m, j, SetFailed(m, j))
<1> DEFINE c == ChannelOf[j]
           r == RemoveJob(m, j)
           n1 == [r EXCEPT !.failed = With(r.failed, j, {c})]
<1>1. SetFailed(m, j) = IF j \in m.failed[c] THEN m ELSE n1
  BY DEF SetFailed
<1>2. Renewed(m, j, m)
  BY DEF Renewed, Rearranged, SameMarks
<1>3. r \in Memory /\ Rearranged(m, j, r) /\ (\A d \in Tree : ~On(r, j, d)) /\ c \in Tree
  BY RemoveRenews, ChannelOfIn DEF Renewed, Rearranged
<1> HIDE DEF r, c
<1>4. Renewed(m, j, n1)
  <2>1. /\ n1 \in Memory /\ n1.pause = r.pause /\ n1.running = r.running /\ n1.ready = r.ready
        /\ n1.delayed = r.delayed
        /\ \A d \in Tree : n1.failed[d] = IF d = c THEN r.failed[d] \cup {j} ELSE r.failed[d]
    BY <1>3 DEF Memory, JobSets, With
  <2> HIDE DEF n1
  <2>2. \A k \in Jobs \ {j} : SameMarks(r, n1, k)
    BY <2>1 DEF SameMarks
  <2>3. (\A d \in Tree : d # c => ~On(n1, j, d)) /\ Alone(n1, j, c)
    BY <1>3, <2>1 DEF On, Alone
  <2> QED BY <1>3, <2>1, <2>2, <2>3, PutHome DEF c
<1> HIDE DEF n1
<1> QED BY <1>1, <1>2, <1>4

\* A job that runs in its own channel runs all the way already; another one
\* runs nowhere, and is marked all the way.
LEMMA SetRunningRenews ==
  ASSUME NEW m \in Memory, NEW j \in Jobs, Placed(m)
  PROVE  Renewed(m, j, SetRunning(m, j))
<1> DEFINE C == ChannelOf[j]
           path == Up[C]
           marks == {a \in path : \A b \in path : a \in Up[b] => j \notin m.running[b]}
           n == SetRunning(m, j)
<1>1. n = [m EXCEPT !.ready = Without(m.ready, j, marks), !.delayed = Without(m.delayed, j, marks),
                    !.running = With(m.running, j, marks), !.failed = Without(m.failed, j, marks)]
  BY DEF SetRunning
<1>2. C \in Tree /\ path \subseteq Tree
  BY ChannelOfIn, TreeFacts
<1>3. marks = IF j \in m.running[C] THEN {} ELSE path
  <2>1. CASE j \in m.running[C]
    BY <2>1, <1>2, TreeFacts
  <2>2. CASE j \notin m.running[C]
    <3>1. \A b \in path : j \notin m.running[b]
      <4> SUFFICES ASSUME NEW b \in path, j \in m.running[b] PROVE FALSE
        OBVIOUS
      <4>1. b # C /\ b \in Tree
        BY <1>2, <2>2
      <4>2. C \in Below(j, b)
        BY <4>1, <1>2, TreeFacts DEF Below
      <4>3. PlacedAt(m, j, b)
        BY <4>1 DEF Placed
      <4> QED BY <2>2, <4>2, <4>3 DEF PlacedAt, On
    <3> QED BY <2>2, <3>1
  <2> QED BY <2>1, <2>2
<1> HIDE DEF n, marks
<1>4. /\ n \in Memory /\ n.pause = m.pause
      /\ n.ready = Without(m.ready, j, marks) /\ n.delayed = Without(m.delayed, j, marks)
      /\ n.running = With(m.running, j, marks) /\ n.failed = Without(m.failed, j, marks)
  BY <1>1, MemoryTypes, WithoutWith DEF Memory
<1>5. \A d \in Tree :
        /\ d \in marks => /\ n.ready[d] = m.ready[d] \ {j} /\ n.delayed[d] = m.delayed[d] \ {j}
                          /\ n.running[d] = m.running[d] \cup {j} /\ n.failed[d] = m.failed[d] \ {j}
        /\ d \notin marks => /\ n.ready[d] = m.ready[d] /\ n.delayed[d] = m.delayed[d]
                             /\ n.running[d] = m.running[d] /\ n.failed[d] = m.failed[d]
  BY <1>4 DEF Without, With
<1>6. ASSUME NEW k \in Jobs \ {j} PROVE SameMarks(m, n, k)
  BY <1>5, <1>6 DEF SameMarks
<1>7. Rearranged(m, j, n)
  BY <1>4, <1>6 DEF Rearranged
<1>8. \A c \in Tree : PlacedAt(n, j, c)
  <2>1. CASE j \in m.running[C]
    <3>1. SameMarks(m, n, j)
      BY <1>3, <1>5, <2>1 DEF SameMarks
    <3> QED BY <3>1, PlacedSame DEF Placed
  <2>2. CASE j \notin m.running[C]
    <3> SUFFICES ASSUME NEW c \in Tree PROVE PlacedAt(n, j, c)
      OBVIOUS
    <3>0. marks = path
      BY <1>3, <2>2
    <3>1. CASE c \in path
      <4>1. j \in n.running[c] /\ j \notin n.ready[c] /\ j \notin n.delayed[c] /\ j \notin n.failed[c]
        BY <3>0, <3>1, <1>5
      <4>2. \A b \in Below(j, c) : j \in n.running[b]
        BY <3>0, <1>2, <1>5 DEF Below
      <4>3. c # Root => Parent[c] \in path /\ Parent[c] \in Tree
        BY <1>2, <3>1, TreeFacts
      <4>4. c # Root => j \in n.running[Parent[c]]
        BY <3>0, <1>5, <4>3
      <4> QED BY <3>1, <4>1, <4>2, <4>4 DEF PlacedAt, Alone
    <3>2. CASE c \notin path
      <4>1. ~On(m, j, c)
        BY <3>2 DEF Placed, PlacedAt
      <4>2. ~On(n, j, c)
        BY <4>1, <3>0, <3>2, <1>5 DEF On
      <4> QED BY <4>2 DEF PlacedAt, On, Alone
    <3> QED BY <3>1, <3>2
  <2> QED BY <2>1, <2>2
<1> QED BY <1>7, <1>8, RearrangedPlaced DEF Renewed, n

Notified == {"pending", "enqueued", "started", "done", "failed", "cancelled"}

LEMMA NotifyRenews ==
  ASSUME NEW m \in Memory, NEW j \in Jobs, NEW s \in Notified, NEW e \in Nat, Placed(m)
  PROVE  Renewed(m, j, Notify(m, j, s, e))
<1> DEFINE r == RemoveJob(m, j)
           o == [r EXCEPT !.eta[j] = e]
           known == IF m.eta[j] = e THEN m ELSE o
<1>1. Renewed(m, j, r) /\ \A d \in Tree : ~On(r, j, d)
  BY RemoveRenews
<1> HIDE DEF r
<1>2. /\ o \in Memory /\ o.pause = r.pause /\ o.running = r.running /\ o.failed = r.failed
      /\ o.delayed = r.delayed /\ o.ready = r.ready
  BY <1>1 DEF Renewed, Rearranged, Memory
<1> HIDE DEF o
<1>3. Renewed(m, j, o)
  <2>1. \A k \in Jobs : SameMarks(r, o, k)
    BY <1>2 DEF SameMarks
  <2>2. Placed(o)
    BY <1>1, <2>1, PlacedSame DEF Placed, Renewed
  <2> QED BY <1>1, <1>2, <2>1, <2>2 DEF Renewed, Rearranged, SameMarks
<1>4. Renewed(m, j, known)
  <2>1. Renewed(m, j, m)
    BY DEF Renewed, Rearranged, SameMarks
  <2> QED BY <1>3, <2>1
<1>5. known \in Memory /\ Placed(known)
  BY <1>4 DEF Renewed, Rearranged
<1>6. Notify(m, j, s, e) = CASE s \in {"done", "cancelled"} -> RemoveJob(known, j)
                               [] s = "pending" -> SetPending(known, j)
                               [] s \in {"enqueued", "started"} -> SetRunning(known, j)
                               [] s = "failed" -> SetFailed(known, j)
                               [] s = "wait_dependencies" -> known
  BY DEF Notify, o, r
<1> HIDE DEF known
<1>7. \/ Notify(m, j, s, e) = RemoveJob(known, j)
      \/ Notify(m, j, s, e) = SetPending(known, j)
      \/ Notify(m, j, s, e) = SetRunning(known, j)
      \/ Notify(m, j, s, e) = SetFailed(known, j)
  BY <1>6 DEF Notified
<1>8. Renewed(known, j, Notify(m, j, s, e))
  BY <1>5, <1>7, RemoveRenews, SetPendingRenews, SetRunningRenews, SetFailedRenews
<1> QED BY <1>4, <1>8 DEF Renewed, Rearranged, SameMarks

-----------------------------------------------------------------------------
(* The rounds keep every job placed. *)

LEMMA MovedPlaced ==
  ASSUME NEW m \in Memory, Placed(m), NEW c \in Tree, NEW D \in SUBSET m.delayed[c],
         NEW n, Moved(m, c, D, n)
  PROVE  Placed(n)
<1> SUFFICES ASSUME NEW k \in Jobs, NEW d \in Tree PROVE PlacedAt(n, k, d)
  BY DEF Placed
<1>1. PlacedAt(m, k, d)
  BY DEF Placed
<1>2. \A e \in Tree : k \in n.running[e] <=> k \in m.running[e]
  BY DEF Moved
<1>3. \A e \in Tree : k \in m.ready[e] => k \in n.ready[e]
  BY DEF Moved
<1>4. Alone(n, k, d) /\ (On(n, k, d) <=> On(m, k, d))
  <2>1. CASE d = c
    BY <1>1, <2>1 DEF Moved, PlacedAt, Alone, On
  <2>2. CASE d # c
    BY <1>1, <2>2 DEF Moved, PlacedAt, Alone, On
  <2> QED BY <2>1, <2>2
<1>5. k \in n.delayed[d] \/ k \in n.failed[d] => k \in m.delayed[d] \/ k \in m.failed[d]
  BY DEF Moved
<1>6. \A b \in Below(k, d) : b \in Tree
  BY ChannelOfIn, TreeFacts DEF Below
<1>7. d # Root => Parent[d] \in Tree
  BY TreeFacts
<1> QED BY <1>1, <1>2, <1>3, <1>4, <1>5, <1>6, <1>7 DEF PlacedAt

LEMMA YieldPlaced ==
  ASSUME NEW m \in Memory, Placed(m), NEW c \in Tree, NEW t \in Nat,
         NEW D \in SUBSET m.delayed[c], NEW j \in Jobs, j \in m.ready[c] \cup D,
         NEW n, Yielded(m, c, t, D, j, n)
  PROVE  Placed(n)
<1>1. /\ c \in Up[ChannelOf[j]] /\ (\A b \in Below(j, c) : j \in m.running[b])
      /\ j \notin m.running[c] /\ j \notin m.failed[c] /\ Alone(m, j, c)
  BY DEF Placed, PlacedAt, Alone, On
<1> DEFINE path == Up[ChannelOf[j]]
<1>2. path \subseteq Tree
  BY ChannelOfIn, TreeFacts
\* Nothing of j lies above c.
<1>3. ASSUME NEW a \in Up[c], a # c PROVE ~On(m, j, a)
  <2>1. a \in path /\ a \in Tree /\ c \in Below(j, a)
    BY <1>1, <1>3, ChannelOfIn, TreeFacts DEF Below
  <2> QED BY <1>1, <2>1 DEF Placed, PlacedAt
<1>4. ASSUME NEW k \in Jobs \ {j}, NEW d \in Tree PROVE PlacedAt(n, k, d)
  <2>1. PlacedAt(m, k, d)
    BY <1>4 DEF Placed
  <2>2. \A e \in Tree : k \in n.running[e] <=> k \in m.running[e]
    BY <1>4 DEF Yielded
  <2>3. \A e \in Tree : k \in m.ready[e] => k \in n.ready[e]
    BY <1>4 DEF Yielded
  <2>4. Alone(n, k, d) /\ (On(n, k, d) <=> On(m, k, d))
    <3>1. CASE d = c
      BY <1>4, <2>1, <3>1 DEF Yielded, PlacedAt, Alone, On
    <3>2. CASE d # c
      BY <1>4, <2>1, <3>2 DEF Yielded, PlacedAt, Alone, On
    <3> QED BY <3>1, <3>2
  <2>5. k \in n.delayed[d] \/ k \in n.failed[d] => k \in m.delayed[d] \/ k \in m.failed[d]
    BY DEF Yielded
  <2>6. \A b \in Below(k, d) : b \in Tree
    BY ChannelOfIn, TreeFacts DEF Below
  <2>7. d # Root => Parent[d] \in Tree
    BY TreeFacts
  <2> QED BY <2>1, <2>2, <2>3, <2>4, <2>5, <2>6, <2>7 DEF PlacedAt
<1>5. /\ j \in n.running[c] /\ j \notin n.ready[c] /\ j \notin n.failed[c] /\ j \notin n.delayed[c]
  BY <1>1 DEF Yielded, Alone
<1>6. \A e \in Tree : j \in m.running[e] => j \in n.running[e]
  BY DEF Yielded
<1>7. c # Root => /\ Parent[c] \in Tree /\ Parent[c] # c /\ Parent[c] \in Up[c]
                  /\ j \in n.ready[Parent[c]] /\ j \notin n.delayed[Parent[c]]
                  /\ j \notin n.running[Parent[c]] /\ j \notin n.failed[Parent[c]]
  <2> SUFFICES ASSUME c # Root PROVE /\ Parent[c] \in Tree /\ Parent[c] # c /\ Parent[c] \in Up[c]
                  /\ j \in n.ready[Parent[c]] /\ j \notin n.delayed[Parent[c]]
                  /\ j \notin n.running[Parent[c]] /\ j \notin n.failed[Parent[c]]
    OBVIOUS
  <2>1. Parent[c] \in Tree /\ Parent[c] # c /\ Parent[c] \in Up[c]
    BY TreeFacts
  <2>2. ~On(m, j, Parent[c])
    BY <1>3, <2>1
  <2> QED BY <2>1, <2>2 DEF Yielded, On
<1>8. ASSUME NEW d \in Tree PROVE PlacedAt(n, j, d)
  <2>1. CASE d = c
    <3>1. \A b \in Below(j, d) : j \in n.running[b]
      BY <1>1, <1>2, <1>6, <2>1 DEF Below
    <3> QED BY <1>1, <1>5, <1>7, <2>1, <3>1 DEF PlacedAt, Alone, On
  <2>2. CASE c # Root /\ d = Parent[c]
    <3>1. d \in path
      BY <1>1, <1>7, <2>2, TreeFacts, ChannelOfIn
    <3>2. \A b \in Below(j, d) : j \in n.running[b]
      <4> SUFFICES ASSUME NEW b \in Below(j, d) PROVE j \in n.running[b]
        OBVIOUS
      <4>1. b \in path /\ b # d /\ d \in Up[b] /\ b \in Tree
        BY <1>2 DEF Below
      <4>2. CASE b = c
        BY <1>5, <4>2
      <4>3. CASE b # c /\ c \in Up[b]
        BY <1>1, <1>6, <4>1, <4>3 DEF Below
      <4>4. CASE b # c /\ c \notin Up[b]
        <5>1. b \in Up[c]
          BY <4>1, <4>4, <1>1, ChannelOfIn, TreeFacts
        <5>2. b \in Up[d]
          BY <5>1, <4>4, <2>2, TreeFacts
        <5> QED BY <5>2, <4>1, <3>1, ChannelOfIn, TreeFacts
      <4> QED BY <4>2, <4>3, <4>4
    <3> QED BY <1>7, <2>2, <3>1, <3>2 DEF PlacedAt, Alone, On
  <2>3. CASE d # c /\ ~(c # Root /\ d = Parent[c])
    <3>1. /\ n.ready[d] = m.ready[d] /\ n.delayed[d] = m.delayed[d]
          /\ n.running[d] = m.running[d] /\ n.failed[d] = m.failed[d]
      BY <2>3 DEF Yielded
    <3>2. PlacedAt(m, j, d)
      BY DEF Placed
    <3>3. Alone(n, j, d) /\ (On(n, j, d) <=> On(m, j, d))
      BY <3>1, <3>2 DEF PlacedAt, Alone, On
    <3>4. j \in n.running[d] /\ d # Root => j \in n.ready[Parent[d]] \/ j \in n.running[Parent[d]]
      <4> SUFFICES ASSUME j \in n.running[d], d # Root
                   PROVE  j \in n.ready[Parent[d]] \/ j \in n.running[Parent[d]]
        OBVIOUS
      <4>1. Parent[d] \in Tree /\ (j \in m.ready[Parent[d]] \/ j \in m.running[Parent[d]])
        BY <3>1, <3>2, TreeFacts DEF PlacedAt
      <4>2. CASE Parent[d] = c
        BY <1>5, <4>2
      <4>3. CASE Parent[d] # c
        BY <4>1, <4>3 DEF Yielded
      <4> QED BY <4>2, <4>3
    <3>5. \A b \in Below(j, d) : b \in Tree
      BY ChannelOfIn, TreeFacts DEF Below
    <3> QED BY <1>6, <3>1, <3>2, <3>3, <3>4, <3>5 DEF PlacedAt
  <2> QED BY <2>1, <2>2, <2>3
<1> QED BY <1>4, <1>8 DEF Placed

-----------------------------------------------------------------------------
(* A channel that has nothing to do before some time. *)

NoneDue(m, c, t) == \A j \in m.delayed[c] : m.eta[j] > t

\* c has been served at time t: it is paused, full, or has nothing to give.
Settled(m, c, t) ==
  /\ m.pause[c] = 0 \/ m.pause[c] > t
  /\ Open(m, c) => NoneDue(m, c, t) /\ (m.ready[c] = {} \/ Waits(m, c))

\* get_wakeup_time looks into c.
Reached(m, c) == \A a \in Up[c] \ {c} : Open(m, a)

\* Nothing get_wakeup_time looks at can be served at time t.
StuckAt(m, c, t) ==
  Reached(m, c) /\ HasCapacity(m, c) =>
    IF m.pause[c] # 0 THEN m.pause[c] > t
    ELSE NoneDue(m, c, t) /\ (m.ready[c] = {} \/ Waits(m, c))
Stuck(m, t) == \A c \in Tree : StuckAt(m, c, t)

\* c has the same jobs, etas and pause in m and n.
SameAt(m, n, c) ==
  /\ n.ready[c] = m.ready[c] /\ n.delayed[c] = m.delayed[c]
  /\ n.running[c] = m.running[c] /\ n.failed[c] = m.failed[c] /\ n.pause[c] = m.pause[c]
  /\ \A j \in m.delayed[c] : n.eta[j] = m.eta[j]

LEMMA FirstByEtaSame ==
  ASSUME NEW S, NEW e, NEW f, \A j \in S : e[j] = f[j]
  PROVE  FirstByEta(e, S) = FirstByEta(f, S)
<1>1. \A j \in S : (\A i \in S \ {j} : EtaPrecedes(e, j, i)) <=> (\A i \in S \ {j} : EtaPrecedes(f, j, i))
  BY DEF EtaPrecedes
<1>2. (CHOOSE j \in S : \A i \in S \ {j} : EtaPrecedes(e, j, i))
        = (CHOOSE j \in S : \A i \in S \ {j} : EtaPrecedes(f, j, i))
  BY <1>1
<1> QED BY <1>2 DEF FirstByEta

LEMMA WaitsSame ==
  ASSUME NEW m, NEW n, NEW c, n.ready[c] = m.ready[c], n.delayed[c] = m.delayed[c],
         \A j \in m.delayed[c] : n.eta[j] = m.eta[j]
  PROVE  Waits(n, c) <=> Waits(m, c)
<1>1. FirstByEta(n.eta, n.delayed[c]) = FirstByEta(m.eta, m.delayed[c])
  BY FirstByEtaSame
<1> QED BY <1>1 DEF Waits

LEMMA SameAtSame ==
  ASSUME NEW m, NEW n, NEW c, SameAt(m, n, c)
  PROVE  /\ HasCapacity(n, c) <=> HasCapacity(m, c)
         /\ Open(n, c) <=> Open(m, c)
         /\ Waits(n, c) <=> Waits(m, c)
         /\ \A t \in Nat : NoneDue(n, c, t) <=> NoneDue(m, c, t)
         /\ \A t \in Nat : Settled(n, c, t) <=> Settled(m, c, t)
<1>1. HasCapacity(n, c) <=> HasCapacity(m, c)
  BY DEF SameAt, HasCapacity
<1>2. Open(n, c) <=> Open(m, c)
  BY <1>1 DEF SameAt, Open
<1>3. Waits(n, c) <=> Waits(m, c)
  BY WaitsSame DEF SameAt
<1>4. \A t \in Nat : NoneDue(n, c, t) <=> NoneDue(m, c, t)
  BY DEF SameAt, NoneDue
<1>5. \A t \in Nat : Settled(n, c, t) <=> Settled(m, c, t)
  BY <1>2, <1>3, <1>4 DEF SameAt, Settled
<1> QED BY <1>1, <1>2, <1>3, <1>4, <1>5

\* A job is delayed in one channel only, so the others keep their etas.
LEMMA MovedElsewhere ==
  ASSUME NEW m \in Memory, Placed(m), NEW c \in Tree, NEW D \in SUBSET m.delayed[c],
         NEW n, Moved(m, c, D, n), NEW d \in Tree, d # c, n.pause[d] = m.pause[d]
  PROVE  SameAt(m, n, d)
<1>1. m.delayed[c] \subseteq Jobs /\ m.delayed[d] \subseteq Jobs
  BY MemoryTypes DEF JobSets
<1>2. \A j \in m.delayed[d] : j \notin D
  <2> SUFFICES ASSUME NEW j \in m.delayed[d], j \in D PROVE FALSE
    OBVIOUS
  <2>1. PlacedAt(m, j, c) /\ PlacedAt(m, j, d)
    BY <1>1 DEF Placed
  <2> QED BY <2>1 DEF PlacedAt
<1> QED BY <1>1, <1>2 DEF Moved, SameAt

LEMMA YieldedElsewhere ==
  ASSUME NEW m \in Memory, Placed(m), NEW c \in Tree, NEW t \in Nat, NEW D \in SUBSET m.delayed[c],
         NEW j, NEW n, Yielded(m, c, t, D, j, n), NEW d \in Tree, d # c, ~(c # Root /\ d = Parent[c])
  PROVE  SameAt(m, n, d)
<1>1. m.delayed[c] \subseteq Jobs /\ m.delayed[d] \subseteq Jobs
  BY MemoryTypes DEF JobSets
<1>2. \A k \in m.delayed[d] : k \notin D
  <2> SUFFICES ASSUME NEW k \in m.delayed[d], k \in D PROVE FALSE
    OBVIOUS
  <2>1. PlacedAt(m, k, c) /\ PlacedAt(m, k, d)
    BY <1>1 DEF Placed
  <2> QED BY <2>1 DEF PlacedAt
<1> QED BY <1>1, <1>2 DEF Yielded, SameAt

\* A channel that gives up has been served.
LEMMA GiveUpSettles ==
  ASSUME NEW m \in Memory, NEW c \in Tree, NEW t \in Nat, ~CanYield(m, c, t)
  PROVE  Settled(GiveUp(m, c, t), c, t)
<1> DEFINE n == GiveUp(m, c, t)
           o == Matured(m, c, t)
<1> SUFFICES Settled(n, c, t)
  OBVIOUS
<1>1. Moved(m, c, Released(m, c, t), n) /\ n.pause[c] = IF ~Paused(m, c, t) THEN 0 ELSE m.pause[c]
  BY GiveUpEffect
<1>2. Moved(m, c, Due(m, c, t), o)
  BY MaturedEffect
<1> HIDE DEF n
<1>3. HasCapacity(n, c) <=> HasCapacity(m, c)
  BY <1>1 DEF Moved, HasCapacity
<1>4. m.pause[c] \in Nat
  BY MemoryTypes
<1>5. CASE Paused(m, c, t)
  <2>1. n.pause[c] > t /\ n.pause[c] # 0
    BY <1>1, <1>4, <1>5 DEF Paused
  <2> QED BY <2>1 DEF Settled, Open
<1>6. CASE ~Paused(m, c, t) /\ ~HasCapacity(m, c)
  BY <1>1, <1>3, <1>6 DEF Settled, Open
<1>7. CASE ~Paused(m, c, t) /\ HasCapacity(m, c)
  <2>1. Moved(m, c, Due(m, c, t), n)
    BY <1>1, <1>7 DEF Released
  <2>2. m.delayed[c] \subseteq Jobs
    BY MemoryTypes DEF JobSets
  <2>3. n.ready[c] = o.ready[c] /\ n.delayed[c] = o.delayed[c]
    BY <2>1, <1>2 DEF Moved
  <2>4. \A j \in o.delayed[c] : n.eta[j] = o.eta[j]
    BY <2>1, <2>2, <1>2 DEF Moved
  <2>5. NoneDue(n, c, t)
    <3> SUFFICES ASSUME NEW j \in n.delayed[c] PROVE n.eta[j] > t
      BY DEF NoneDue
    <3>1. j \in m.delayed[c] /\ j \notin Due(m, c, t) /\ j \in Jobs
      BY <2>1, <2>2 DEF Moved
    <3>2. n.eta[j] = m.eta[j] /\ m.eta[j] \in Nat
      BY <2>1, <3>1, MemoryTypes DEF Moved
    <3> QED BY <3>1, <3>2 DEF Due
  <2>6. Waits(n, c) <=> Waits(o, c)
    BY <2>3, <2>4, WaitsSame
  <2>7. o.ready[c] = {} \/ Waits(o, c)
    BY <1>7 DEF CanYield
  <2> HIDE DEF o
  <2> QED BY <1>1, <1>7, <2>3, <2>5, <2>6, <2>7 DEF Settled
<1> QED BY <1>5, <1>6, <1>7

\* Only a throttled channel is ever paused.
PausesThrottled(m) == \A c \in Tree : m.pause[c] # 0 => Throttle[c] # 0

\* A channel that can do nothing at t does not yield at t.
LEMMA StuckNoYield ==
  ASSUME NEW m \in Memory, NEW c \in Tree, NEW t \in Nat, PausesThrottled(m),
         Reached(m, c), StuckAt(m, c, t)
  PROVE  ~CanYield(m, c, t)
<1> SUFFICES ASSUME CanYield(m, c, t) PROVE FALSE
  OBVIOUS
<1>1. HasCapacity(m, c) /\ ~Paused(m, c, t)
  BY DEF CanYield
<1>2. m.pause[c] = 0
  BY <1>1, MemoryTypes DEF PausesThrottled, Paused, StuckAt
<1>3. NoneDue(m, c, t) /\ (m.ready[c] = {} \/ Waits(m, c))
  BY <1>1, <1>2 DEF StuckAt
<1>4. m.delayed[c] \subseteq Jobs
  BY MemoryTypes DEF JobSets
<1>5. Due(m, c, t) = {}
  BY <1>3, <1>4, MemoryTypes DEF Due, NoneDue
<1> DEFINE o == Matured(m, c, t)
<1>6. o.ready[c] = m.ready[c] /\ o.delayed[c] = m.delayed[c] /\ \A j \in m.delayed[c] : o.eta[j] = m.eta[j]
  <2>1. Moved(m, c, {}, o)
    BY <1>5, MaturedEffect
  <2> HIDE DEF o
  <2> QED BY <1>4, <2>1 DEF Moved
<1>7. Waits(o, c) <=> Waits(m, c)
  BY <1>6, WaitsSame
<1> QED BY <1>3, <1>6, <1>7 DEF CanYield

\* What happens in a channel that is not reached leaves the others stuck.
LEMMA HiddenKeepsStuck ==
  ASSUME NEW m \in Memory, NEW n, NEW c \in Tree, NEW t \in Nat, Stuck(m, t), ~Reached(m, c),
         \A d \in Tree : d # c => n.pause[d] = m.pause[d] /\ (HasCapacity(n, d) <=> HasCapacity(m, d)),
         \A d \in Tree : d # c /\ ~(c # Root /\ d = Parent[c]) => SameAt(m, n, d)
  PROVE  Stuck(n, t)
<1> SUFFICES ASSUME NEW d \in Tree, Reached(n, d), HasCapacity(n, d)
             PROVE  IF n.pause[d] # 0 THEN n.pause[d] > t
                    ELSE NoneDue(n, d, t) /\ (n.ready[d] = {} \/ Waits(n, d))
  BY DEF Stuck, StuckAt
<1>1. \A e \in Tree : e # c => (Open(n, e) <=> Open(m, e))
  BY DEF Open
<1>2. PICK a \in Up[c] \ {c} : ~Open(m, a)
  BY DEF Reached
<1>3. a \in Tree /\ ~Open(n, a)
  BY <1>1, <1>2, TreeFacts
<1>4. c \notin Up[d]
  <2> SUFFICES ASSUME c \in Up[d] PROVE FALSE
    OBVIOUS
  <2>1. a \in Up[d]
    BY <1>2, TreeFacts
  <2>2. a # d
    BY <1>2, TreeFacts
  <2> QED BY <1>3, <2>1, <2>2 DEF Reached
<1>5. d # c
  BY <1>4, TreeFacts
<1>6. Reached(m, d)
  BY <1>1, <1>4, TreeFacts DEF Reached
<1>7. StuckAt(m, d, t) /\ HasCapacity(m, d)
  BY <1>5 DEF Stuck
<1>8. CASE c # Root /\ d = Parent[c]
  <2>1. Up[c] \ {c} \subseteq {d} \cup (Up[d] \ {d})
    BY <1>8, TreeFacts
  <2>2. ~Open(m, d)
    BY <1>2, <1>6, <2>1 DEF Reached
  <2>3. m.pause[d] # 0
    BY <1>7, <2>2 DEF Open
  <2> QED BY <1>5, <1>6, <1>7, <2>3 DEF StuckAt
<1>9. CASE ~(c # Root /\ d = Parent[c])
  <2>1. SameAt(m, n, d)
    BY <1>5, <1>9
  <2>2. n.pause[d] = m.pause[d] /\ n.ready[d] = m.ready[d]
    BY <2>1 DEF SameAt
  <2> QED BY <1>6, <1>7, <2>1, <2>2, SameAtSame DEF StuckAt
<1> QED BY <1>8, <1>9

\* Nor does a reached channel that gives up.
LEMMA GiveUpKeepsStuck ==
  ASSUME NEW m \in Memory, Placed(m), PausesThrottled(m), NEW c \in Tree, NEW s \in Nat,
         Stuck(m, s), NEW t \in Nat, Stuck(m, t)
  PROVE  Stuck(GiveUp(m, c, s), t)
<1> DEFINE n == GiveUp(m, c, s)
<1>1. /\ Moved(m, c, Released(m, c, s), n)
      /\ \A d \in Tree : n.pause[d] = IF d = c /\ ~Paused(m, c, s) THEN 0 ELSE m.pause[d]
  BY GiveUpEffect
<1>2. Released(m, c, s) \in SUBSET m.delayed[c]
  BY DEF Released, Due
<1> HIDE DEF n
<1>3. ASSUME NEW d \in Tree, d # c PROVE SameAt(m, n, d)
  <2>1. n.pause[d] = m.pause[d]
    BY <1>1, <1>3
  <2> QED BY <1>1, <1>2, <1>3, <2>1, MovedElsewhere
<1>4. \A d \in Tree : HasCapacity(n, d) <=> HasCapacity(m, d)
  BY <1>1 DEF Moved, HasCapacity
<1>5. CASE ~Reached(m, c)
  <2>1. \A d \in Tree : d # c => n.pause[d] = m.pause[d] /\ (HasCapacity(n, d) <=> HasCapacity(m, d))
    BY <1>1, <1>4
  <2> QED BY <1>3, <1>5, <2>1, HiddenKeepsStuck DEF n
<1>6. CASE Reached(m, c)
  <2>1. CASE SameAt(m, n, c)
    <3>1. \A d \in Tree : SameAt(m, n, d)
      BY <1>3, <2>1
    <3>2. \A d \in Tree : Reached(n, d) => Reached(m, d)
      BY <3>1, SameAtSame, TreeFacts DEF Reached
    <3> SUFFICES ASSUME NEW d \in Tree, Reached(n, d), HasCapacity(n, d)
                 PROVE  IF n.pause[d] # 0 THEN n.pause[d] > t
                        ELSE NoneDue(n, d, t) /\ (n.ready[d] = {} \/ Waits(n, d))
      BY DEF Stuck, StuckAt, n
    <3>3. StuckAt(m, d, t) /\ Reached(m, d) /\ HasCapacity(m, d)
      BY <1>4, <3>2 DEF Stuck
    <3>4. n.pause[d] = m.pause[d] /\ n.ready[d] = m.ready[d]
      BY <3>1 DEF SameAt
    <3> QED BY <3>1, <3>3, <3>4, SameAtSame DEF StuckAt
  <2>2. CASE ~HasCapacity(m, c)
    <3>1. \A d \in Tree : Open(n, d) <=> Open(m, d)
      BY <1>3, <1>4, <2>2, SameAtSame DEF Open
    <3>2. \A d \in Tree : Reached(n, d) => Reached(m, d)
      BY <3>1, TreeFacts DEF Reached
    <3> SUFFICES ASSUME NEW d \in Tree, Reached(n, d), HasCapacity(n, d)
                 PROVE  IF n.pause[d] # 0 THEN n.pause[d] > t
                        ELSE NoneDue(n, d, t) /\ (n.ready[d] = {} \/ Waits(n, d))
      BY DEF Stuck, StuckAt, n
    <3>3. StuckAt(m, d, t) /\ Reached(m, d) /\ HasCapacity(m, d)
      BY <1>4, <3>2 DEF Stuck
    <3>4. d # c
      BY <2>2, <3>3
    <3>5. SameAt(m, n, d)
      BY <1>3, <3>4
    <3>6. n.pause[d] = m.pause[d] /\ n.ready[d] = m.ready[d]
      BY <3>5 DEF SameAt
    <3> QED BY <3>3, <3>5, <3>6, SameAtSame DEF StuckAt
  <2>3. CASE HasCapacity(m, c)
    <3>1. StuckAt(m, c, s) /\ m.pause[c] \in Nat
      BY MemoryTypes DEF Stuck
    <3>2. m.delayed[c] \subseteq Jobs
      BY MemoryTypes DEF JobSets
    <3>3. CASE Paused(m, c, s)
      <4>1. Released(m, c, s) = {} /\ n.pause[c] = m.pause[c]
        BY <1>1, <3>3 DEF Released
      <4>2. SameAt(m, n, c)
        BY <1>1, <3>2, <4>1 DEF Moved, SameAt
      <4> QED BY <2>1, <4>2
    <3>4. CASE ~Paused(m, c, s)
      <4>1. m.pause[c] = 0
        BY <1>6, <2>3, <3>1, <3>4 DEF StuckAt, PausesThrottled, Paused
      <4>2. Due(m, c, s) = {}
        BY <1>6, <2>3, <3>1, <3>2, <4>1, MemoryTypes DEF StuckAt, NoneDue, Due
      <4>3. Released(m, c, s) = {} /\ n.pause[c] = m.pause[c]
        BY <1>1, <3>4, <4>1, <4>2 DEF Released
      <4>4. SameAt(m, n, c)
        BY <1>1, <3>2, <4>3 DEF Moved, SameAt
      <4> QED BY <2>1, <4>4
    <3> QED BY <3>3, <3>4
  <2> QED BY <2>2, <2>3
<1> QED BY <1>5, <1>6

-----------------------------------------------------------------------------
(* The wake-up time. *)

LEMMA WakeupTimeIs ==
  ASSUME NEW m \in Memory
  PROVE  /\ WakeupTime(m) \in Nat
         /\ WakeupTimes(m) \in SUBSET Nat
         /\ IF WakeupTimes(m) = {} THEN WakeupTime(m) = 0
            ELSE WakeupTime(m) \in WakeupTimes(m) /\ \A u \in WakeupTimes(m) : WakeupTime(m) <= u
<1>1. WakeupTimes(m) \in SUBSET Nat
  <2> DEFINE reached == {c \in Tree : \A a \in Up[c] \ {c} : Open(m, a)}
             ps == {m.pause[c] : c \in {d \in reached : HasCapacity(m, d) /\ m.pause[d] # 0}}
             es == UNION {{m.eta[j] : j \in m.delayed[c]} : c \in {d \in reached : Open(m, d)}}
  <2>1. ps \in SUBSET Nat
    BY MemoryTypes
  <2>2. \A c \in Tree : {m.eta[j] : j \in m.delayed[c]} \in SUBSET Nat
    BY MemoryTypes DEF JobSets
  <2>3. es \in SUBSET Nat
    BY <2>2
  <2>4. WakeupTimes(m) = ps \cup es
    BY DEF WakeupTimes
  <2> QED BY <2>1, <2>3, <2>4
<1> DEFINE T == WakeupTimes(m)
<1>2. WakeupTime(m) = IF T = {} THEN 0 ELSE CHOOSE t \in T : \A u \in T : t <= u
  BY DEF WakeupTime
<1> HIDE DEF T
<1>3. T # {} => \E t \in T : \A u \in T : t <= u
  BY <1>1, LeastTime DEF T
<1>4. IF T = {} THEN WakeupTime(m) = 0
      ELSE WakeupTime(m) \in T /\ \A u \in T : WakeupTime(m) <= u
  BY <1>2, <1>3
<1> QED BY <1>1, <1>4 DEF T

\* What the set of wake-up times is made of.
LEMMA WakeupTimesAre ==
  ASSUME NEW m, NEW u
  PROVE  u \in WakeupTimes(m) <=>
           \E c \in Tree : Reached(m, c) /\
             (\/ HasCapacity(m, c) /\ m.pause[c] # 0 /\ u = m.pause[c]
              \/ Open(m, c) /\ \E j \in m.delayed[c] : u = m.eta[j])
BY DEF WakeupTimes, Reached

\* When every channel has been served at t, nothing can happen before the
\* wake-up time, and that lies after t.
LEMMA SettledSleep ==
  ASSUME NEW m \in Memory, NEW t \in Nat, \A c \in Tree : Settled(m, c, t)
  PROVE  /\ WakeupTime(m) = 0 \/ WakeupTime(m) > t
         /\ \A u \in Nat : WakeupTime(m) = 0 \/ u < WakeupTime(m) => Stuck(m, u)
<1> DEFINE w == WakeupTime(m)
<1>1. \A u \in WakeupTimes(m) : u \in Nat /\ u > t
  <2> SUFFICES ASSUME NEW u \in WakeupTimes(m) PROVE u > t
    BY WakeupTimeIs
  <2>1. PICK c \in Tree : \/ HasCapacity(m, c) /\ m.pause[c] # 0 /\ u = m.pause[c]
                          \/ Open(m, c) /\ \E j \in m.delayed[c] : u = m.eta[j]
    BY WakeupTimesAre
  <2>2. Settled(m, c, t)
    OBVIOUS
  <2> QED BY <2>1, <2>2 DEF Settled, NoneDue
<1>2. w = 0 \/ w > t
  BY <1>1, WakeupTimeIs
<1>3. ASSUME NEW u \in WakeupTimes(m) PROVE w # 0 /\ w <= u /\ w \in Nat /\ u \in Nat
  BY <1>1, WakeupTimeIs
<1>4. ASSUME NEW u \in Nat, w = 0 \/ u < w, NEW c \in Tree, Reached(m, c), HasCapacity(m, c)
      PROVE  IF m.pause[c] # 0 THEN m.pause[c] > u
             ELSE NoneDue(m, c, u) /\ (m.ready[c] = {} \/ Waits(m, c))
  <2> HIDE DEF w
  <2>1. CASE m.pause[c] # 0
    <3>1. m.pause[c] \in WakeupTimes(m)
      BY <1>4, <2>1, WakeupTimesAre
    <3> QED BY <1>3, <1>4, <2>1, <3>1
  <2>2. CASE m.pause[c] = 0
    <3>1. Open(m, c)
      BY <1>4, <2>2 DEF Open
    <3>2. m.ready[c] = {} \/ Waits(m, c)
      BY <3>1 DEF Settled
    <3>3. NoneDue(m, c, u)
      <4> SUFFICES ASSUME NEW j \in m.delayed[c] PROVE m.eta[j] > u
        BY DEF NoneDue
      <4>1. m.eta[j] \in WakeupTimes(m)
        BY <1>4, <3>1, WakeupTimesAre
      <4> QED BY <1>3, <1>4, <4>1
    <3> QED BY <2>2, <3>2, <3>3
  <2> QED BY <2>1, <2>2
<1> QED BY <1>2, <1>4 DEF Stuck, StuckAt

-----------------------------------------------------------------------------
(* The invariant. *)

\* A notification is about a row that is stored.
Noted == \A j \in notes : row[j].state \in Notified

\* A channel that has yielded is paused for as long as it must be.
ThrottleKept ==
  \A c \in Tree : last[c] # 0 =>
    /\ Throttle[c] # 0
    /\ mem.pause[c] >= last[c] + Throttle[c] \/ now >= last[c] + Throttle[c]

\* A round serves a channel after its children, and what has been served
\* stays settled until the round ends.
RoundOK ==
  /\ phase = "idle" => todo = {}
  /\ \A c \in todo : c # Root => Parent[c] \in todo
  /\ phase = "run" => \A c \in Tree \ todo : Settled(mem, c, now)

\* Between a round and the next notification or wake-up time, nothing that
\* get_wakeup_time looks at could run: sleeping on delays no job.
Asleep ==
  ~fresh /\ (phase = "idle" \/ wake = 0 \/ now < wake) =>
    \A t \in Nat : wake = 0 \/ t < wake => Stuck(mem, t)

Inv ==
  /\ TypeOK /\ Noted
  /\ Placed(mem) /\ PausesThrottled(mem)
  /\ ThrottleKept /\ RoundOK /\ Asleep

\* The times of the clock, and the channels' settings.
LEMMA ClockTimes ==
  ASSUME TypeOK
  PROVE  /\ now \in Nat /\ now > 0 /\ MaxTime \in Nat /\ wake \in Nat
         /\ \A c \in Tree : last[c] \in Nat /\ Throttle[c] \in Nat /\ mem.pause[c] \in Nat
         /\ Etas \subseteq Nat /\ mem \in Memory
BY TimeAssumption, ChannelsAssumption, MemoryTypes DEF TypeOK, Configured

LEMMA InitInv ==
  ASSUME Init
  PROVE  Inv
<1>1. /\ mem \in Memory /\ \A c \in Tree : mem.pause[c] = 0
      /\ \A c \in Tree : /\ mem.ready[c] = {} /\ mem.delayed[c] = {}
                         /\ mem.running[c] = {} /\ mem.failed[c] = {}
  <2>1. mem = EmptyMemory
    BY DEF Init
  <2> QED BY <2>1 DEF EmptyMemory, Memory, JobSets
<1>2. now \in 1..MaxTime
  BY TimeAssumption DEF Init
<1>3. row \in [Jobs -> [state : States, eta : Etas \cup {0}]]
  BY DEF Init, Absent, States
<1>4. last \in [Tree -> 0..MaxTime]
  BY TimeAssumption DEF Init
<1>5. TypeOK
  BY <1>1, <1>2, <1>3, <1>4 DEF TypeOK, Init
<1>6. Noted /\ ThrottleKept /\ RoundOK
  BY DEF Init, Noted, ThrottleKept, RoundOK
<1>7. Placed(mem) /\ PausesThrottled(mem)
  BY <1>1 DEF Placed, PlacedAt, Alone, On, PausesThrottled
<1>8. \A t \in Nat : Stuck(mem, t)
  BY <1>1 DEF Stuck, StuckAt, NoneDue
<1>9. Asleep
  BY <1>8 DEF Asleep
<1> QED BY <1>5, <1>6, <1>7, <1>9 DEF Inv

\* A change of a row.
LEMMA SetRowInv ==
  ASSUME Inv, NEW j \in Jobs, NEW s \in Notified \cap States, NEW e \in Etas \cup {0}, SetRow(j, s, e)
  PROVE  Inv'
<1>1. UNCHANGED <<mem, now, phase, todo, wake, fresh, last>>
  BY DEF SetRow
<1>2. row' \in [Jobs -> [state : States, eta : Etas \cup {0}]] /\ notes' \subseteq Jobs
  BY DEF Inv, TypeOK, SetRow
<1>3. TypeOK'
  BY <1>1, <1>2 DEF Inv, TypeOK
<1>4. Noted'
  BY DEF Inv, TypeOK, SetRow, Noted
<1>5. (Placed(mem) /\ PausesThrottled(mem) /\ ThrottleKept /\ RoundOK /\ Asleep)'
  BY <1>1 DEF Inv, ThrottleKept, RoundOK, Asleep
<1> QED BY <1>3, <1>4, <1>5 DEF Inv

LEMMA RowsInv ==
  ASSUME Inv, NEW j \in Jobs,
         \/ \E e \in Etas : Postpone(j, e)
         \/ \E e \in Etas \cup {0} : Store(j, e)
         \/ Finish(j) \/ Fail(j) \/ Requeue(j) \/ Cancel(j)
  PROVE  Inv'
<1>1. row[j].eta \in Etas \cup {0}
  BY DEF Inv, TypeOK
<1>2. PICK s \in Notified \cap States, e \in Etas \cup {0} : SetRow(j, s, e)
  BY <1>1 DEF Postpone, Store, Finish, Fail, Requeue, Cancel, Notified, States
<1> QED BY <1>2, SetRowInv

LEMMA ProcessInv ==
  ASSUME Inv, NEW j \in Jobs, ProcessNotification(j)
  PROVE  Inv'
<1>1. row[j].state \in Notified /\ row[j].eta \in Nat /\ mem \in Memory
  BY ClockTimes DEF Inv, Noted, ProcessNotification, TypeOK
<1>2. Renewed(mem, j, mem')
  BY <1>1, NotifyRenews DEF Inv, ProcessNotification
<1>3. mem' \in Memory /\ mem'.pause = mem.pause /\ Placed(mem')
  BY <1>2 DEF Renewed, Rearranged
<1>4. UNCHANGED <<now, row, phase, todo, wake, last>> /\ fresh' = TRUE /\ phase = "idle" /\ notes' \subseteq notes
  BY DEF ProcessNotification
<1>5. TypeOK'
  BY <1>3, <1>4 DEF Inv, TypeOK
<1>6. (Noted /\ ThrottleKept /\ RoundOK /\ Asleep /\ PausesThrottled(mem))'
  BY <1>3, <1>4 DEF Inv, Noted, ThrottleKept, RoundOK, Asleep, PausesThrottled
<1> QED BY <1>3, <1>5, <1>6 DEF Inv

LEMMA RunJobsInv ==
  ASSUME Inv, RunJobs
  PROVE  Inv'
<1>1. UNCHANGED <<mem, now, row, notes, wake, fresh, last>> /\ phase = "idle" /\ phase' = "run" /\ todo' = Tree
  BY DEF RunJobs
<1>2. TypeOK'
  BY <1>1 DEF Inv, TypeOK
<1>3. RoundOK'
  BY <1>1, TreeFacts DEF RoundOK
<1>4. Asleep'
  BY <1>1 DEF Inv, Asleep
<1>5. (Noted /\ ThrottleKept /\ Placed(mem) /\ PausesThrottled(mem))'
  BY <1>1 DEF Inv, Noted, ThrottleKept
<1> QED BY <1>2, <1>3, <1>4, <1>5 DEF Inv

LEMMA TickInv ==
  ASSUME Inv, Tick
  PROVE  Inv'
<1>1. /\ UNCHANGED <<mem, row, notes, phase, todo, wake, fresh, last>>
      /\ phase = "idle" /\ now < MaxTime /\ now' = now + 1
  BY DEF Tick
<1>2. TypeOK'
  BY <1>1, ClockTimes DEF Inv, TypeOK
<1>3. ThrottleKept'
  BY <1>1, ClockTimes DEF Inv, ThrottleKept
<1>4. (RoundOK /\ Asleep)'
  BY <1>1 DEF Inv, RoundOK, Asleep
<1>5. (Noted /\ Placed(mem) /\ PausesThrottled(mem))'
  BY <1>1 DEF Inv, Noted
<1> QED BY <1>2, <1>3, <1>4, <1>5 DEF Inv

\* While nothing is due, a reached channel does not yield.
LEMMA AsleepNoYield ==
  ASSUME Inv, ~fresh, wake = 0 \/ now < wake, NEW c \in Tree, Reached(mem, c)
  PROVE  ~CanYield(mem, c, now)
<1>1. mem \in Memory /\ now \in Nat
  BY ClockTimes DEF Inv
<1>2. StuckAt(mem, c, now)
  BY <1>1 DEF Inv, Asleep, Stuck
<1> QED BY <1>1, <1>2, StuckNoYield DEF Inv

LEMMA YieldInv ==
  ASSUME Inv, NEW c \in Tree, YieldJob(c)
  PROVE  Inv'
<1> DEFINE j == NextJob(mem, c, now)
           D == Due(mem, c, now)
<1>1. /\ mem \in Memory /\ now \in Nat /\ now > 0 /\ CanYield(mem, c, now) /\ mem' = Yield(mem, c, now)
      /\ UNCHANGED <<now, phase, wake, fresh>>
      /\ c \in todo /\ Children(c) \cap todo = {}
      /\ Throttle[c] \in Nat /\ TypeOK
  BY ClockTimes DEF Inv, YieldJob, Serving
<1>2. Yielded(mem, c, now, D, j, mem')
  BY <1>1, YieldEffect
<1>3. j \in Jobs /\ j \in mem.ready[c] \cup D /\ D \in SUBSET mem.delayed[c]
  BY <1>1, NextIn DEF Due
<1>4. \/ c = Root /\ row' = [row EXCEPT ![j].state = "enqueued"] /\ notes' = notes \cup {j}
      \/ c # Root /\ UNCHANGED <<row, notes>>
  BY DEF YieldJob
<1>5. /\ todo' = IF Throttle[c] = 0 THEN todo ELSE todo \ {c}
      /\ last' = IF Throttle[c] = 0 THEN last ELSE [last EXCEPT ![c] = now]
  BY DEF YieldJob
<1> HIDE DEF j, D
<1>6. TypeOK'
  <2>1. mem' \in Memory
    BY <1>2 DEF Yielded
  <2>2. row' \in [Jobs -> [state : States, eta : Etas \cup {0}]] /\ notes' \subseteq Jobs
    <3>1. CASE c = Root
      BY <1>1, <1>3, <1>4, <3>1 DEF TypeOK, States
    <3>2. CASE c # Root
      BY <1>1, <1>4, <3>2 DEF TypeOK
    <3> QED BY <3>1, <3>2
  <2>3. last' \in [Tree -> 0..MaxTime]
    BY <1>1, <1>5 DEF TypeOK
  <2>4. todo' \subseteq Tree
    BY <1>1, <1>5 DEF TypeOK
  <2> QED BY <1>1, <2>1, <2>2, <2>3, <2>4 DEF TypeOK
<1>7. Noted'
  <2>1. CASE c = Root
    BY <1>1, <1>3, <1>4, <2>1 DEF Inv, Noted, Notified, TypeOK
  <2>2. CASE c # Root
    BY <1>4, <2>2 DEF Inv, Noted
  <2> QED BY <2>1, <2>2
<1>8. Placed(mem')
  BY <1>1, <1>2, <1>3, YieldPlaced DEF Inv
<1>9. PausesThrottled(mem')
  BY <1>2 DEF Inv, PausesThrottled, Yielded
<1>10. ThrottleKept'
  <2> SUFFICES ASSUME NEW d \in Tree, last'[d] # 0
               PROVE  /\ Throttle[d] # 0
                      /\ mem'.pause[d] >= last'[d] + Throttle[d] \/ now' >= last'[d] + Throttle[d]
    BY DEF ThrottleKept
  <2>1. CASE d = c /\ Throttle[c] # 0
    <3>1. last'[d] = now
      BY <1>1, <1>5, <2>1 DEF TypeOK
    <3>2. mem'.pause[d] = now + Throttle[c]
      BY <1>2, <2>1 DEF Yielded
    <3> QED BY <1>1, <2>1, <3>1, <3>2
  <2>2. CASE ~(d = c /\ Throttle[c] # 0)
    <3>1. last'[d] = last[d]
      BY <1>1, <1>5, <2>2 DEF TypeOK
    <3>2. mem'.pause[d] = mem.pause[d]
      BY <1>2, <2>2 DEF Yielded
    <3> QED BY <1>1, <3>1, <3>2 DEF Inv, ThrottleKept
  <2> QED BY <2>1, <2>2
<1>11. RoundOK'
  <2>1. phase = "run"
    BY <1>1 DEF Inv, RoundOK, TypeOK
  <2>2. ASSUME NEW d \in todo', d # Root PROVE Parent[d] \in todo'
    <3>1. d \in todo /\ Parent[d] \in todo /\ d \in Tree
      BY <1>1, <1>5, <2>2 DEF Inv, RoundOK, TypeOK
    <3>2. Parent[d] # c
      BY <1>1, <2>2, <3>1 DEF Children
    <3> QED BY <1>5, <3>1, <3>2
  <2>3. ASSUME NEW d \in Tree \ todo' PROVE Settled(mem', d, now)
    <3>1. CASE d = c
      <4>1. Throttle[c] # 0
        BY <1>1, <1>5, <2>3, <3>1
      <4>2. mem'.pause[c] = now + Throttle[c]
        BY <1>2, <4>1 DEF Yielded
      <4>3. mem'.pause[c] > now /\ mem'.pause[c] # 0
        BY <1>1, <4>1, <4>2
      <4> QED BY <3>1, <4>3 DEF Settled, Open
    <3>2. CASE d # c
      <4>1. d \notin todo
        BY <1>5, <2>3, <3>2
      <4>2. ~(c # Root /\ d = Parent[c])
        BY <1>1, <4>1 DEF Inv, RoundOK
      <4>3. SameAt(mem, mem', d)
        BY <1>1, <1>2, <1>3, <2>3, <3>2, <4>2, YieldedElsewhere DEF Inv
      <4>4. Settled(mem, d, now)
        BY <2>1, <2>3, <4>1 DEF Inv, RoundOK
      <4> QED BY <1>1, <4>3, <4>4, SameAtSame
    <3> QED BY <3>1, <3>2
  <2> QED BY <1>1, <2>1, <2>2, <2>3 DEF RoundOK
<1>12. Asleep'
  <2>1. phase = "run"
    BY <1>1 DEF Inv, RoundOK, TypeOK
  <2> SUFFICES ASSUME ~fresh, wake = 0 \/ now < wake, NEW t \in Nat, wake = 0 \/ t < wake
               PROVE  Stuck(mem', t)
    BY <1>1, <2>1 DEF Asleep
  <2>2. ~Reached(mem, c)
    BY <1>1, AsleepNoYield
  <2>3. Stuck(mem, t)
    BY DEF Inv, Asleep
  <2>4. ASSUME NEW d \in Tree, d # c
        PROVE  mem'.pause[d] = mem.pause[d] /\ (HasCapacity(mem', d) <=> HasCapacity(mem, d))
    <3>1. mem'.running[d] = mem.running[d] /\ mem'.failed[d] = mem.failed[d] /\ mem'.pause[d] = mem.pause[d]
      BY <1>2, <2>4 DEF Yielded
    <3> QED BY <3>1 DEF HasCapacity
  <2>5. ASSUME NEW d \in Tree, d # c, ~(c # Root /\ d = Parent[c]) PROVE SameAt(mem, mem', d)
    BY <1>1, <1>2, <1>3, <2>5, YieldedElsewhere DEF Inv
  <2> QED BY <1>1, <2>2, <2>3, <2>4, <2>5, HiddenKeepsStuck
<1> QED BY <1>6, <1>7, <1>8, <1>9, <1>10, <1>11, <1>12 DEF Inv

\* A channel that gives up, in the round or at its end.
LEMMA GiveUpInv ==
  ASSUME Inv, NEW c \in Tree, NEW n, n = GiveUp(mem, c, now)
  PROVE  /\ n \in Memory /\ Placed(n) /\ PausesThrottled(n)
         /\ \A d \in Tree : last[d] # 0 => n.pause[d] >= last[d] + Throttle[d] \/ now >= last[d] + Throttle[d]
         /\ \A d \in Tree : d # c => SameAt(mem, n, d)
<1>1. mem \in Memory /\ now \in Nat /\ Placed(mem)
  BY ClockTimes DEF Inv
<1>2. /\ Moved(mem, c, Released(mem, c, now), n)
      /\ \A d \in Tree : n.pause[d] = IF d = c /\ ~Paused(mem, c, now) THEN 0 ELSE mem.pause[d]
  BY <1>1, GiveUpEffect
<1>3. Released(mem, c, now) \in SUBSET mem.delayed[c]
  BY DEF Released, Due
<1>4. n \in Memory /\ Placed(n)
  <2>1. n \in Memory
    BY <1>2 DEF Moved
  <2>2. Moved(mem, c, Released(mem, c, now), n)
    BY <1>2
  <2> QED BY <1>1, <1>3, <2>1, <2>2, MovedPlaced
<1>5. PausesThrottled(n)
  BY <1>2 DEF Inv, PausesThrottled
<1>6. ASSUME NEW d \in Tree, last[d] # 0
      PROVE  n.pause[d] >= last[d] + Throttle[d] \/ now >= last[d] + Throttle[d]
  <2>1. /\ mem.pause[d] >= last[d] + Throttle[d] \/ now >= last[d] + Throttle[d]
        /\ Throttle[d] # 0
    BY <1>6 DEF Inv, ThrottleKept
  <2>2. last[d] \in Nat /\ Throttle[d] \in Nat /\ mem.pause[d] \in Nat
    BY ClockTimes DEF Inv
  <2>3. CASE d = c /\ ~Paused(mem, c, now)
    BY <1>1, <2>1, <2>2, <2>3 DEF Paused
  <2>4. CASE ~(d = c /\ ~Paused(mem, c, now))
    BY <1>2, <2>1, <2>4
  <2> QED BY <2>3, <2>4
<1>7. ASSUME NEW d \in Tree, d # c PROVE SameAt(mem, n, d)
  <2>1. n.pause[d] = mem.pause[d]
    BY <1>2, <1>7
  <2> QED BY <1>1, <1>2, <1>3, <1>7, <2>1, MovedElsewhere
<1> QED BY <1>4, <1>5, <1>6, <1>7

LEMMA PassInv ==
  ASSUME Inv, NEW c \in Tree, PassChannel(c)
  PROVE  Inv'
<1>1. /\ mem \in Memory /\ now \in Nat /\ ~CanYield(mem, c, now) /\ mem' = GiveUp(mem, c, now)
      /\ UNCHANGED <<now, row, notes, phase, wake, fresh, last>>
      /\ c \in todo /\ Children(c) \cap todo = {} /\ todo' = todo \ {c}
  BY ClockTimes DEF Inv, PassChannel, Serving
<1>2. /\ mem' \in Memory /\ Placed(mem') /\ PausesThrottled(mem')
      /\ \A d \in Tree : last[d] # 0 => mem'.pause[d] >= last[d] + Throttle[d] \/ now >= last[d] + Throttle[d]
      /\ \A d \in Tree : d # c => SameAt(mem, mem', d)
  BY <1>1, GiveUpInv
<1>3. TypeOK'
  BY <1>1, <1>2 DEF Inv, TypeOK
<1>4. Noted' /\ ThrottleKept'
  BY <1>1, <1>2 DEF Inv, Noted, ThrottleKept
<1>5. phase = "run"
  BY <1>1 DEF Inv, RoundOK, TypeOK
<1>6. RoundOK'
  <2>1. ASSUME NEW d \in todo', d # Root PROVE Parent[d] \in todo'
    <3>1. d \in todo /\ Parent[d] \in todo /\ d \in Tree
      BY <1>1, <2>1 DEF Inv, RoundOK, TypeOK
    <3>2. Parent[d] # c
      BY <1>1, <2>1, <3>1 DEF Children
    <3> QED BY <1>1, <3>1, <3>2
  <2>2. ASSUME NEW d \in Tree \ todo' PROVE Settled(mem', d, now)
    <3>1. CASE d = c
      BY <1>1, <3>1, GiveUpSettles
    <3>2. CASE d # c
      <4>1. Settled(mem, d, now)
        BY <1>1, <1>5, <2>2, <3>2 DEF Inv, RoundOK
      <4>2. SameAt(mem, mem', d)
        BY <1>2, <2>2, <3>2
      <4> QED BY <1>1, <4>1, <4>2, SameAtSame
    <3> QED BY <3>1, <3>2
  <2> QED BY <1>1, <1>5, <2>1, <2>2 DEF RoundOK
<1>7. Asleep'
  <2> SUFFICES ASSUME ~fresh, wake = 0 \/ now < wake, NEW t \in Nat, wake = 0 \/ t < wake
               PROVE  Stuck(mem', t)
    BY <1>1, <1>5 DEF Asleep
  <2>1. Stuck(mem, t) /\ Stuck(mem, now)
    BY <1>1 DEF Inv, Asleep
  <2> QED BY <1>1, <2>1, GiveUpKeepsStuck DEF Inv
<1> QED BY <1>2, <1>3, <1>4, <1>6, <1>7 DEF Inv

\* When a round ends, every channel has been served.
LEMMA RoundEnds ==
  ASSUME Inv, WaitNotification
  PROVE  /\ mem' \in Memory /\ Placed(mem') /\ PausesThrottled(mem')
         /\ \A d \in Tree : last[d] # 0 => mem'.pause[d] >= last[d] + Throttle[d] \/ now >= last[d] + Throttle[d]
         /\ \A d \in Tree : Settled(mem', d, now)
<1>1. mem \in Memory /\ now \in Nat /\ Root \in Tree
  BY ClockTimes, ChannelsAssumption DEF Inv, TreeOK
<1>2. /\ phase = "run" /\ todo \subseteq {Root} /\ (Root \in todo => ~CanYield(mem, Root, now))
      /\ mem' = IF todo = {Root} THEN GiveUp(mem, Root, now) ELSE mem
  BY DEF WaitNotification
<1>3. \A d \in Tree \ todo : Settled(mem, d, now)
  BY <1>2 DEF Inv, RoundOK
<1>4. CASE todo = {Root}
  <2>1. mem' = GiveUp(mem, Root, now)
    BY <1>2, <1>4
  <2>2. /\ mem' \in Memory /\ Placed(mem') /\ PausesThrottled(mem')
        /\ \A d \in Tree : last[d] # 0 => mem'.pause[d] >= last[d] + Throttle[d] \/ now >= last[d] + Throttle[d]
        /\ \A d \in Tree : d # Root => SameAt(mem, mem', d)
    BY <1>1, <2>1, GiveUpInv
  <2>3. Settled(mem', Root, now)
    BY <1>1, <1>2, <1>4, <2>1, GiveUpSettles
  <2>4. ASSUME NEW d \in Tree PROVE Settled(mem', d, now)
    BY <1>1, <1>3, <1>4, <2>2, <2>3, SameAtSame
  <2> QED BY <2>2, <2>4
<1>5. CASE todo = {}
  BY <1>1, <1>2, <1>3, <1>5 DEF Inv, ThrottleKept
<1> QED BY <1>2, <1>4, <1>5

LEMMA WaitInv ==
  ASSUME Inv, WaitNotification
  PROVE  Inv' /\ (wake' = 0 \/ wake' > now)
<1>1. /\ mem' \in Memory /\ Placed(mem') /\ PausesThrottled(mem')
      /\ \A d \in Tree : last[d] # 0 => mem'.pause[d] >= last[d] + Throttle[d] \/ now >= last[d] + Throttle[d]
      /\ \A d \in Tree : Settled(mem', d, now)
  BY RoundEnds
<1>2. /\ phase' = "idle" /\ todo' = {} /\ fresh' = FALSE /\ wake' = WakeupTime(mem')
      /\ UNCHANGED <<now, row, notes, last>>
  BY DEF WaitNotification
<1>3. now \in Nat
  BY ClockTimes DEF Inv
<1>4. /\ wake' = 0 \/ wake' > now
      /\ \A u \in Nat : wake' = 0 \/ u < wake' => Stuck(mem', u)
  BY <1>1, <1>2, <1>3, SettledSleep
<1>5. TypeOK'
  BY <1>1, <1>2, WakeupTimeIs DEF Inv, TypeOK
<1>6. Noted' /\ ThrottleKept' /\ RoundOK'
  BY <1>1, <1>2 DEF Inv, Noted, ThrottleKept, RoundOK
<1>7. Asleep'
  BY <1>4 DEF Asleep
<1> QED BY <1>1, <1>4, <1>5, <1>6, <1>7 DEF Inv

LEMMA StepInv ==
  ASSUME Inv, [Next]_vars
  PROVE  Inv'
<1>1. CASE Next
  BY <1>1, RowsInv, ProcessInv, RunJobsInv, YieldInv, PassInv, WaitInv, TickInv DEF Next
<1>2. CASE UNCHANGED vars
  <2>1. UNCHANGED <<mem, now, row, notes, phase, todo, wake, fresh, last>>
    BY <1>2 DEF vars
  <2>2. TypeOK'
    BY <2>1 DEF Inv, TypeOK
  <2>3. Noted' /\ ThrottleKept' /\ RoundOK' /\ Asleep'
    BY <2>1 DEF Inv, Noted, ThrottleKept, RoundOK, Asleep
  <2> QED BY <2>1, <2>2, <2>3 DEF Inv
<1> QED BY <1>1, <1>2

LEMMA InvAlways == Spec => []Inv
<1>1. Init => Inv
  BY InitInv
<1>2. Inv /\ [Next]_vars => Inv'
  BY StepInv
<1> QED BY <1>1, <1>2, PTL DEF Spec

-----------------------------------------------------------------------------
\* The memory of the runner, its clock and the rows keep their types; in
\* particular the wake-up time is a time, and every notification is about a
\* row in a state that ChannelManager.notify knows.
THEOREM TypeCorrect == Spec => []TypeOK
<1>1. Inv => TypeOK
  BY DEF Inv
<1> QED BY <1>1, InvAlways, PTL

\* A set without two elements.
LEMMA AtMostOne ==
  ASSUME NEW S, \A x, y \in S : x = y
  PROVE  Cardinality(S) <= 1
<1>1. CASE S = {}
  BY <1>1, FS_EmptySet
<1>2. CASE S # {}
  <2>1. PICK x : S = {x}
    BY <1>2
  <2> QED BY <2>1, FS_Singleton
<1> QED BY <1>1, <1>2

\* Every job is at one place of the tree, on the path from its channel to the
\* root, whatever is notified, requeued, cancelled or served in between.
THEOREM OneJobOnePlace == Spec => []OnePlace
<1>1. Inv => OnePlace
  <2> SUFFICES ASSUME Inv, NEW j \in Jobs, NEW a \in Tree
               PROVE  LET path  == Up[ChannelOf[j]]
                          below == {b \in path : b # a /\ a \in Up[b]}
                          here  == {s \in {"ready", "delayed", "running", "failed"} : j \in mem[s][a]}
                      IN  /\ Cardinality(here) <= 1
                          /\ here # {} => a \in path /\ \A b \in below : j \in mem.running[b]
                          /\ here \cap {"delayed", "failed"} # {} => a = ChannelOf[j]
                          /\ here = {"running"} /\ a # Root =>
                               j \in mem.ready[Parent[a]] \cup mem.running[Parent[a]]
    BY DEF OnePlace
  <2> DEFINE here == {s \in {"ready", "delayed", "running", "failed"} : j \in mem[s][a]}
  <2>1. PlacedAt(mem, j, a)
    BY DEF Inv, Placed
  <2>2. \A x, y \in here : x = y
    BY <2>1 DEF PlacedAt, Alone
  <2>3. Cardinality(here) <= 1
    <3> HIDE DEF here
    <3> QED BY <2>2, AtMostOne
  <2>4. here # {} => On(mem, j, a)
    BY DEF On
  <2>5. here \cap {"delayed", "failed"} # {} => j \in mem.delayed[a] \/ j \in mem.failed[a]
    OBVIOUS
  <2>6. here = {"running"} => j \in mem.running[a]
    OBVIOUS
  <2> HIDE DEF here
  <2> QED BY <2>1, <2>3, <2>4, <2>5, <2>6 DEF PlacedAt, Below, here
<1> QED BY <1>1, InvAlways, PTL

\* A job is sent only in a round that follows a notification or the wake-up
\* time: sleeping until then makes no job late, for every tree of channels,
\* capacities, throttles and etas.
THEOREM SleepsNotTooLong == Spec => NoMissedWakeup
<1>1. Inv /\ [Next]_vars => [YieldJob(Root) => fresh \/ (wake # 0 /\ wake <= now)]_vars
  <2> SUFFICES ASSUME Inv, YieldJob(Root) PROVE fresh \/ (wake # 0 /\ wake <= now)
    OBVIOUS
  <2>1. Root \in Tree /\ Reached(mem, Root)
    BY ChannelsAssumption DEF TreeOK, Reached
  <2>2. CanYield(mem, Root, now)
    BY DEF YieldJob
  <2>3. ~(~fresh /\ (wake = 0 \/ now < wake))
    BY <2>1, <2>2, AsleepNoYield
  <2> QED BY <2>3, ClockTimes DEF Inv
<1> QED BY <1>1, InvAlways, PTL DEF Spec, NoMissedWakeup

\* The wake-up time a round computes lies after the time of the round: the
\* runner never spins on a timeout in the past.
THEOREM SleepsAtAll == Spec => WakeupIsAhead
<1>1. Inv /\ [Next]_vars => [WaitNotification => wake' = 0 \/ wake' > now]_vars
  BY WaitInv
<1> QED BY <1>1, InvAlways, PTL DEF Spec, WakeupIsAhead

\* A throttled channel yields no two jobs closer than its throttle, whatever is
\* cancelled, requeued or notified between them.
THEOREM ThrottleRespected == Spec => Throttled
<1>1. Inv /\ [Next]_vars => [\A c \in Tree : YieldJob(c) => last[c] = 0 \/ now >= last[c] + Throttle[c]]_vars
  <2> SUFFICES ASSUME Inv, NEW c \in Tree, YieldJob(c), last[c] # 0
               PROVE  now >= last[c] + Throttle[c]
    OBVIOUS
  <2>1. /\ Throttle[c] # 0
        /\ mem.pause[c] >= last[c] + Throttle[c] \/ now >= last[c] + Throttle[c]
    BY DEF Inv, ThrottleKept
  <2>2. ~Paused(mem, c, now)
    BY DEF YieldJob, CanYield
  <2> QED BY <2>1, <2>2, ClockTimes DEF Inv, Paused
<1> QED BY <1>1, InvAlways, PTL DEF Spec, Throttled

-----------------------------------------------------------------------------
(* The queue of one channel: what is live in a heap. *)

LEMMA AddedLive ==
  ASSUME NEW q \in PriorityQueue, HeapOK(q), NEW js \in SUBSET Jobs
  PROVE  /\ Added(q, js) \in PriorityQueue
         /\ HeapOK(Added(q, js))
         /\ Added(q, js).known = q.known \cup js
         /\ Live(Added(q, js)) = Live(q) \cup js
BY DEF PriorityQueue, HeapOK, Added, Live

LEMMA RemovedLive ==
  ASSUME NEW q \in PriorityQueue, HeapOK(q), NEW j \in Jobs
  PROVE  /\ Removed(q, j) \in PriorityQueue
         /\ HeapOK(Removed(q, j))
         /\ Removed(q, j).known = q.known
         /\ Live(Removed(q, j)) = Live(q) \ {j}
BY DEF PriorityQueue, HeapOK, Removed, Live

LEMMA PoppedLive ==
  ASSUME NEW q \in PriorityQueue, HeapOK(q), NEW js
  PROVE  /\ Popped(q, js) \in PriorityQueue
         /\ HeapOK(Popped(q, js))
         /\ Popped(q, js).known \subseteq q.known
         /\ Live(Popped(q, js)) = Live(q) \ js
BY DEF PriorityQueue, HeapOK, Popped, Live

(* What is above a job in a heap is marked, so taking it off changes       *)
(* nothing that is still in the queue.                                     *)
LEMMA AboveIsDead ==
  ASSUME NEW q, NEW j
  PROVE  /\ Above(q, j) \cap Live(q) = {}
         /\ AboveByEta(q, j) \cap Live(q) = {}
BY DEF Above, AboveByEta, Live

LEMMA TakenLive ==
  ASSUME NEW q \in PriorityQueue, HeapOK(q)
  PROVE  Live(q) \ TakenFrom(q)
           = IF Live(q) = {} THEN {} ELSE Live(q) \ {First(Live(q))}
<1>1. CASE Live(q) = {}
  BY <1>1 DEF TakenFrom
<1>2. CASE Live(q) # {}
  BY <1>2, AboveIsDead DEF TakenFrom
<1> QED BY <1>1, <1>2

-----------------------------------------------------------------------------
LEMMA QueueTypeInit == QueueInit => QueueTypeOK
BY DEF QueueInit, QueueTypeOK, EmptyQueue, PriorityQueue, HeapOK

(* The effect of Pop on the two heaps, used by both parts of the proof.    *)
LEMMA PopEffect ==
  ASSUME QueueTypeOK, NEW t \in Times, Pop(t)
  PROVE  LET due   == {j \in Live(eta_queue) : eta[j] <= t}
             later == Live(eta_queue) \ due
             able  == Live(queue) \cup due
             waits == /\ IsSequential /\ later # {} /\ able # {}
                      /\ Precedes(FirstByEta(eta, later), First(able))
         IN  /\ queue' \in PriorityQueue /\ HeapOK(queue)'
             /\ eta_queue' \in PriorityQueue /\ HeapOK(eta_queue)'
             /\ queue'.known \subseteq queue.known \cup due
             /\ eta_queue'.known \subseteq eta_queue.known \ due
             /\ eta' = [j \in Jobs |-> IF j \in due THEN 0 ELSE eta[j]]
             /\ Live(eta_queue)' = later
             /\ Live(queue)' = IF waits \/ able = {} THEN able ELSE able \ {First(able)}
             /\ call' = <<"pop", t>>
             /\ out' = IF waits \/ able = {} THEN None ELSE <<First(able)>>
<1> DEFINE due    == {j \in Live(eta_queue) : eta[j] <= t}
           later  == Live(eta_queue) \ due
           next   == IF later = {} THEN {} ELSE {FirstByEta(eta, later)}
           passed == UNION {AboveByEta(eta_queue, j) : j \in due \cup next}
           merged == Added(queue, due)
           able   == Live(queue) \cup due
           waits  == /\ IsSequential /\ later # {} /\ able # {}
                     /\ Precedes(FirstByEta(eta, later), First(able))
           gone   == IF waits THEN Above(merged, First(able)) ELSE TakenFrom(merged)
<1>1. due \in SUBSET Jobs
  BY DEF QueueTypeOK, Live, PriorityQueue
<1>2. /\ merged \in PriorityQueue /\ HeapOK(merged)
      /\ merged.known = queue.known \cup due /\ Live(merged) = able
  BY <1>1, AddedLive DEF QueueTypeOK
<1>3. /\ eta' = [j \in Jobs |-> IF j \in due THEN 0 ELSE eta[j]]
      /\ eta_queue' = Popped(eta_queue, due \cup passed)
      /\ queue' = Popped(merged, gone)
      /\ call' = <<"pop", t>>
      /\ out' = IF waits \/ able = {} THEN None ELSE <<First(able)>>
  BY <1>2 DEF Pop
<1>4. passed \cap Live(eta_queue) = {}
  BY AboveIsDead
<1>5. /\ eta_queue' \in PriorityQueue /\ HeapOK(eta_queue)'
      /\ Live(eta_queue)' = later
  <2>1. Live(eta_queue)' = Live(eta_queue')
    BY DEF Live
  <2>2. HeapOK(eta_queue)' <=> HeapOK(eta_queue')
    BY DEF HeapOK
  <2> QED BY <1>3, <1>4, <2>1, <2>2, PoppedLive DEF QueueTypeOK
<1>6. eta_queue'.known \subseteq eta_queue.known \ due
  BY <1>3 DEF Popped
<1>7. Live(merged) \ gone = IF waits \/ able = {} THEN able ELSE able \ {First(able)}
  <2>1. CASE waits
    BY <2>1, <1>2, AboveIsDead
  <2>2. CASE ~waits
    BY <2>2, <1>2, TakenLive
  <2> QED BY <2>1, <2>2
<1>8. /\ queue' \in PriorityQueue /\ HeapOK(queue)'
      /\ queue'.known \subseteq queue.known \cup due
      /\ Live(queue)' = Live(merged) \ gone
  <2>1. Live(queue)' = Live(queue')
    BY DEF Live
  <2>2. HeapOK(queue)' <=> HeapOK(queue')
    BY DEF HeapOK
  <2> HIDE DEF gone, merged
  <2>3. Popped(merged, gone) \in PriorityQueue /\ HeapOK(Popped(merged, gone))
        /\ Popped(merged, gone).known \subseteq merged.known
        /\ Live(Popped(merged, gone)) = Live(merged) \ gone
    BY <1>2, PoppedLive
  <2> QED BY <1>2, <1>3, <2>1, <2>2, <2>3
<1> QED BY <1>3, <1>5, <1>6, <1>7, <1>8

LEMMA QueueTypeStep == QueueTypeOK /\ [QueueNext]_queueVars => QueueTypeOK'
<1> SUFFICES ASSUME QueueTypeOK, [QueueNext]_queueVars PROVE QueueTypeOK'
  OBVIOUS
<1>1. ASSUME NEW j \in Jobs, Add(j) PROVE QueueTypeOK'
  <2>1. CASE eta[j] # 0
    BY <1>1, <2>1, AddedLive DEF Add, QueueTypeOK, HeapOK
  <2>2. CASE eta[j] = 0
    BY <1>1, <2>2, AddedLive DEF Add, QueueTypeOK, HeapOK
  <2> QED BY <2>1, <2>2
<1>2. ASSUME NEW j \in Jobs, Remove(j) PROVE QueueTypeOK'
  BY <1>2, RemovedLive DEF Remove, QueueTypeOK, HeapOK
<1>3. ASSUME NEW t \in Times, Pop(t) PROVE QueueTypeOK'
  <2> DEFINE due == {j \in Live(eta_queue) : eta[j] <= t}
  <2>1. /\ queue' \in PriorityQueue /\ HeapOK(queue)'
        /\ eta_queue' \in PriorityQueue /\ HeapOK(eta_queue)'
        /\ queue'.known \subseteq queue.known \cup due
        /\ eta_queue'.known \subseteq eta_queue.known \ due
        /\ eta' = [j \in Jobs |-> IF j \in due THEN 0 ELSE eta[j]]
    BY <1>3, PopEffect
  <2> QED BY <2>1 DEF QueueTypeOK, PriorityQueue
<1>4. ASSUME GetWakeupTime PROVE QueueTypeOK'
  <2>1. CASE Live(eta_queue) = {}
    BY <1>4, <2>1 DEF GetWakeupTime, QueueTypeOK, HeapOK
  <2>2. CASE Live(eta_queue) # {}
    BY <1>4, <2>2, PoppedLive DEF GetWakeupTime, QueueTypeOK, HeapOK
  <2> QED BY <2>1, <2>2
<1>5. CASE UNCHANGED queueVars
  BY <1>5 DEF queueVars, QueueTypeOK, HeapOK
<1> QED BY <1>1, <1>2, <1>3, <1>4, <1>5 DEF QueueNext

(* The heaps stay well formed: every entry is known, every mark is of an   *)
(* entry, and the two queues hold jobs without and with an eta.            *)
THEOREM QueueTypeCorrect == QueueSpec => []QueueTypeOK
BY QueueTypeInit, QueueTypeStep, PTL DEF QueueSpec

-----------------------------------------------------------------------------
LEMMA RefinementInit == QueueInit => Pending!Init
BY DEF QueueInit, Pending!Init, EmptyQueue, Live, None, Pending!None, NoCall, Pending!NoCall

LEMMA RefinementStep == QueueTypeOK /\ [QueueNext]_queueVars => [Pending!Next]_Pending!vars
<1> SUFFICES ASSUME QueueTypeOK, [QueueNext]_queueVars PROVE [Pending!Next]_Pending!vars
  OBVIOUS
<1>1. ASSUME NEW j \in Jobs, Add(j) PROVE Pending!Add(j)
  <2>1. CASE eta[j] # 0
    BY <1>1, <2>1, AddedLive DEF Add, Pending!Add, QueueTypeOK, Live
  <2>2. CASE eta[j] = 0
    BY <1>1, <2>2, AddedLive DEF Add, Pending!Add, QueueTypeOK, Live
  <2> QED BY <2>1, <2>2
<1>2. ASSUME NEW j \in Jobs, Remove(j) PROVE Pending!Remove(j)
  BY <1>2, RemovedLive DEF Remove, Pending!Remove, QueueTypeOK, Live
<1>3. ASSUME NEW t \in Times, Pop(t) PROVE Pending!Pop(t)
  <2> DEFINE due   == {j \in Live(eta_queue) : eta[j] <= t}
             later == Live(eta_queue) \ due
             able  == Live(queue) \cup due
             waits == /\ IsSequential /\ later # {} /\ able # {}
                      /\ Precedes(FirstByEta(eta, later), First(able))
             defer == /\ IsSequential /\ later # {}
                      /\ Precedes(FirstByEta(eta, later), First(able))
  <2>1. /\ eta' = [j \in Jobs |-> IF j \in due THEN 0 ELSE eta[j]]
        /\ Live(eta_queue)' = later
        /\ Live(queue)' = IF waits \/ able = {} THEN able ELSE able \ {First(able)}
        /\ call' = <<"pop", t>>
        /\ out' = IF waits \/ able = {} THEN None ELSE <<First(able)>>
    BY <1>3, PopEffect
  <2>2. able = {} \/ waits <=> able = {} \/ defer
    OBVIOUS
  <2> DEFINE taken == IF able = {} \/ defer THEN {} ELSE {First(able)}
  <2>3. Live(queue)' = able \ taken
    BY <2>1, <2>2
  <2>4. out' = IF taken = {} THEN Pending!None ELSE <<First(able)>>
    BY <2>1, <2>2 DEF None, Pending!None
  <2> QED BY <2>1, <2>3, <2>4 DEF Pending!Pop, Pending!First, First, Pending!FirstByEta, FirstByEta, Pending!Precedes, Precedes, Pending!EtaPrecedes, EtaPrecedes
<1>4. ASSUME GetWakeupTime PROVE Pending!GetWakeupTime
  <2>1. CASE Live(eta_queue) = {}
    BY <1>4, <2>1 DEF GetWakeupTime, Pending!GetWakeupTime, None, Pending!None, Live
  <2>2. CASE Live(eta_queue) # {}
    <3>1. Live(eta_queue)' = Live(eta_queue)
      BY <1>4, <2>2, PoppedLive, AboveIsDead DEF GetWakeupTime, QueueTypeOK, Live
    <3> QED BY <1>4, <2>2, <3>1
        DEF GetWakeupTime, Pending!GetWakeupTime, Live, FirstByEta, Pending!FirstByEta,
            EtaPrecedes, Pending!EtaPrecedes, Precedes, Pending!Precedes
  <2> QED BY <2>1, <2>2
<1>5. CASE UNCHANGED queueVars
  BY <1>5 DEF queueVars, Pending!vars, Live
<1> QED BY <1>1, <1>2, <1>3, <1>4, <1>5 DEF QueueNext, Pending!Next

(* The two heaps with lazy deletion implement the two plain sets.          *)
THEOREM Refinement == QueueSpec => ImplementsPendingJobs
BY RefinementInit, RefinementStep, QueueTypeCorrect, PTL
   DEF QueueSpec, Pending!Spec, ImplementsPendingJobs
=============================================================================
