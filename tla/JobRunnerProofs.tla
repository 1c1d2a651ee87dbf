-------------------------- MODULE JobRunnerProofs --------------------------
(***************************************************************************)
(* No channel ever has more jobs enqueued or started than its capacity,    *)
(* for every tree of channels, all jobs, workers and bounds.  The runner's *)
(* memory carries the argument: while it runs, it has every busy job       *)
(* marked running all the way up (RunnerKnowsBusy), and it marks a job     *)
(* only where there is room.  Then: no worker has a job in hand before     *)
(* each job it depends on was done once (ParentsFirst), whatever is        *)
(* requeued, cancelled, repeated or lost; no two workers have the same job *)
(* (OneWorker); and a job whose parents are all done is released           *)
(* (DependenciesResolved).                                                 *)
(***************************************************************************)
EXTENDS JobRunner, FiniteSetTheorems, WellFoundedInduction, TLAPS

IInv == TypeOK /\ RunnerKnowsBusy /\ BusyWithinCapacity

NoEtas(m) ==
  (\A c \in Tree : m.delayed[c] = {}) /\ (\A j \in Jobs : m.eta[j] = 0)

-----------------------------------------------------------------------------
(* The queues.                                                             *)

(* A queue that is not empty has a first job: keys are natural numbers.    *)
LEMMA FirstIn ==
  ASSUME NEW S \in SUBSET Jobs, S # {}
  PROVE  First(S) \in S
<1> DEFINE T == {Key[j] : j \in S}
           R == OpToRel(<, Nat)
<1>1. T \subseteq Nat /\ T # {}
  BY KeyAssumption
<1>2. PICK x \in T : \A y \in T : ~(<<y, x>> \in R)
  <2>1. IsWellFoundedOn(R, Nat) BY NatLessThanWellFounded
  <2> HIDE DEF R, T
  <2> QED BY <2>1, <1>1, WFMin
<1>3. \A y \in T : ~(y < x)
  BY <1>1, <1>2 DEF OpToRel
<1>4. PICK j \in S : Key[j] = x
  OBVIOUS
<1>5. \A i \in S \ {j} : Precedes(j, i)
  <2> SUFFICES ASSUME NEW i \in S \ {j} PROVE Key[j] < Key[i]
    BY DEF Precedes
  <2>1. Key[i] \in T /\ Key[i] \in Nat /\ Key[j] \in Nat
    BY KeyAssumption
  <2>2. ~(Key[i] < Key[j])
    BY <2>1, <1>3, <1>4
  <2>3. Key[i] # Key[j]
    BY KeyAssumption
  <2> QED BY <2>1, <2>2, <2>3
<1> QED BY <1>5 DEF First

LEMMA NothingMatures ==
  ASSUME NEW m \in Memory, NoEtas(m), NEW c \in Tree
  PROVE  Matured(m, c, 0) = m
<1> DEFINE due == {j \in m.delayed[c] : m.eta[j] <= 0}
<1>1. due = {}
  BY DEF NoEtas
<1>2. [m.ready EXCEPT ![c] = @ \cup due] = m.ready
  BY <1>1 DEF Memory, JobSets
<1>3. [m.delayed EXCEPT ![c] = @ \ due] = m.delayed
  BY <1>1 DEF Memory, JobSets
<1>4. [j \in Jobs |-> IF j \in due THEN 0 ELSE m.eta[j]] = m.eta
  BY <1>1 DEF Memory
<1>5. [m EXCEPT !.ready = m.ready, !.delayed = m.delayed, !.eta = m.eta] = m
  BY DEF Memory
<1>6. Matured(m, c, 0) =
        [m EXCEPT !.ready[c] = @ \cup due, !.delayed[c] = @ \ due,
                  !.eta = [j \in Jobs |-> IF j \in due THEN 0 ELSE m.eta[j]]]
  BY DEF Matured
<1> QED BY <1>2, <1>3, <1>4, <1>5, <1>6 DEF Memory

(* One turn of the loop moves the next job from the queue of c to its      *)
(* running jobs and to the queue of its parent.                            *)
LEMMA YieldEffect ==
  ASSUME NEW m \in Memory, NoEtas(m), NEW c \in Tree, CanYield(m, c, 0)
  PROVE  LET j == NextJob(m, c, 0)
             n == Yield(m, c, 0)
         IN  /\ j \in Jobs /\ j \in m.ready[c]
             /\ HasCapacity(m, c)
             /\ n \in Memory /\ NoEtas(n)
             /\ n.running = [m.running EXCEPT ![c] = @ \cup {j}]
             /\ \A d \in Tree : n.ready[d] \subseteq
                  IF c # Root /\ d = Parent[c] THEN m.ready[d] \cup {j}
                                               ELSE m.ready[d]
             /\ j \notin n.ready[c]
<1>1. Matured(m, c, 0) = m
  BY NothingMatures
<1>2. m.ready[c] \in SUBSET Jobs /\ m.ready[c] # {}
  BY <1>1 DEF CanYield, Memory, JobSets
<1> DEFINE j == First(m.ready[c])
           p == IF Throttle[c] = 0 THEN m.pause[c] ELSE 0 + Throttle[c]
           took == [m EXCEPT !.ready[c] = @ \ {j}, !.running[c] = @ \cup {j},
                             !.pause[c] = p]
<1>3. j \in m.ready[c] /\ j \in Jobs
  BY <1>2, FirstIn
<1>4. NextJob(m, c, 0) = j
  BY <1>1 DEF NextJob
<1>5. HasCapacity(m, c)
  BY DEF CanYield
<1>6. p \in Nat
  BY ChannelsAssumption DEF Configured, Memory
<1>7. Yield(m, c, 0) = IF c = Root THEN took
                       ELSE [took EXCEPT !.ready[Parent[c]] = @ \cup {j}]
  BY <1>1, <1>4 DEF Yield
<1>8. /\ took \in Memory /\ NoEtas(took)
      /\ took.running = [m.running EXCEPT ![c] = @ \cup {j}]
      /\ took.ready = [m.ready EXCEPT ![c] = @ \ {j}]
  <2> HIDE DEF p, j
  <2> QED BY <1>3, <1>6 DEF Memory, JobSets, NoEtas
<1>9. c # Root => Parent[c] \in Tree /\ Parent[c] # c
  BY ChannelsAssumption DEF TreeOK
<1> HIDE DEF j, took
<1>10. CASE c = Root
  <2>1. j \notin took.ready[c] /\ \A d \in Tree : took.ready[d] \subseteq m.ready[d]
    BY <1>8 DEF Memory, JobSets
  <2>2. Yield(m, c, 0) = took
    BY <1>7, <1>10
  <2> QED BY <2>1, <2>2, <1>3, <1>4, <1>5, <1>8, <1>10
<1>11. CASE c # Root
  <2> DEFINE n == [took EXCEPT !.ready[Parent[c]] = @ \cup {j}]
  <2>1. /\ n \in Memory /\ NoEtas(n) /\ n.running = took.running
        /\ n.ready = [took.ready EXCEPT ![Parent[c]] = @ \cup {j}]
    <3>1. took \in Memory /\ NoEtas(took) /\ j \in Jobs /\ Parent[c] \in Tree
      BY <1>3, <1>8, <1>9, <1>11
    <3> QED BY <3>1 DEF Memory, JobSets, NoEtas
  <2>2. \A d \in Tree : n.ready[d] \subseteq
          IF d = Parent[c] THEN m.ready[d] \cup {j} ELSE m.ready[d]
    BY <2>1, <1>8, <1>9, <1>11 DEF Memory, JobSets
  <2>3. j \notin n.ready[c]
    BY <2>1, <1>8, <1>9, <1>11 DEF Memory, JobSets
  <2>4. Yield(m, c, 0) = n
    BY <1>7, <1>11
  <2> HIDE DEF n
  <2> QED BY <2>1, <2>2, <2>3, <2>4, <1>3, <1>4, <1>5, <1>8, <1>11
<1> QED BY <1>10, <1>11

LEMMA GiveUpEffect ==
  ASSUME NEW m \in Memory, NoEtas(m), NEW c \in Tree
  PROVE  LET n == GiveUp(m, c, 0)
         IN  /\ n \in Memory /\ NoEtas(n)
             /\ n.running = m.running /\ n.ready = m.ready
<1> DEFINE m1 == IF Paused(m, c, 0) THEN m ELSE [m EXCEPT !.pause[c] = 0]
<1>1. m1 \in Memory /\ NoEtas(m1) /\ m1.running = m.running /\ m1.ready = m.ready
  BY DEF Memory, JobSets, NoEtas
<1>2. Matured(m1, c, 0) = m1
  <2> HIDE DEF m1
  <2> QED BY <1>1, NothingMatures
<1>3. GiveUp(m, c, 0) = m1
  BY <1>2 DEF GiveUp
<1> QED BY <1>1, <1>3

(* A notification of a busy job, which is marked all the way up already,   *)
(* changes nothing; one of any other job takes it out of the channels on   *)
(* its path, at most leaving it queued in its own.                         *)
LEMMA NotifyEffect ==
  ASSUME NEW m \in Memory, NoEtas(m), NEW j \in Jobs, NEW s \in States,
         s \in Busy => \A c \in Up[ChannelOf[j]] : j \in m.running[c]
  PROVE  LET n == Notify(m, j, s, 0)
             path == Up[ChannelOf[j]]
         IN  \/ n = m
             \/ /\ s \notin Busy
                /\ n \in Memory /\ NoEtas(n)
                /\ n.running = Without(m.running, j, path)
                /\ \A c \in Tree : n.ready[c] \subseteq
                     IF s = "pending" /\ c = ChannelOf[j] THEN m.ready[c] \cup {j}
                     ELSE IF c \in path THEN m.ready[c] \ {j}
                     ELSE m.ready[c]
<1> DEFINE path == Up[ChannelOf[j]]
           r == RemoveJob(m, j)
           own == ChannelOf[j]
<1>1. own \in Tree /\ path \subseteq Tree /\ own \in path
  BY ChannelsAssumption DEF TreeOK
<1>2. /\ r \in Memory /\ NoEtas(r)
      /\ r.running = Without(m.running, j, path)
      /\ r.ready = Without(m.ready, j, path)
      /\ \A c \in Tree : r.ready[c] = IF c \in path THEN m.ready[c] \ {j} ELSE m.ready[c]
  BY DEF RemoveJob, Without, Memory, JobSets, NoEtas
<1>3. Notify(m, j, s, 0) =
        CASE s \in {"done", "cancelled"}   -> r
          [] s = "pending"                 -> SetPending(m, j)
          [] s \in {"enqueued", "started"} -> SetRunning(m, j)
          [] s = "failed"                  -> SetFailed(m, j)
          [] s = "wait_dependencies"       -> m
  BY DEF Notify, NoEtas
<1> HIDE DEF r
<1>4. CASE s \in {"done", "cancelled"}
  <2>1. Notify(m, j, s, 0) = r BY <1>3, <1>4
  <2> QED BY <2>1, <1>1, <1>2, <1>4 DEF Busy
<1>5. CASE s = "pending"
  <2>1. Notify(m, j, s, 0) = SetPending(m, j) BY <1>3, <1>5
  <2>2. CASE j \in m.ready[own] \cup m.delayed[own]
    BY <2>1, <2>2 DEF SetPending
  <2>3. CASE j \notin m.ready[own] \cup m.delayed[own]
    <3> DEFINE n == [r EXCEPT !.ready = With(@, j, {own})]
    <3>1. Notify(m, j, s, 0) = n
      BY <2>1, <2>3 DEF SetPending, NoEtas, r
    <3>2. /\ n \in Memory /\ NoEtas(n) /\ n.running = r.running
          /\ \A c \in Tree : n.ready[c] =
               IF c = own THEN r.ready[c] \cup {j} ELSE r.ready[c]
      BY <1>1, <1>2 DEF With, Memory, JobSets, NoEtas
    <3> HIDE DEF n
    <3> QED BY <3>1, <3>2, <1>1, <1>2, <1>5 DEF Busy
  <2> QED BY <2>2, <2>3
<1>6. CASE s \in {"enqueued", "started"}
  <2>1. Notify(m, j, s, 0) = SetRunning(m, j) BY <1>3, <1>6
  <2> DEFINE marks == {a \in path : \A b \in path : a \in Up[b] => j \notin m.running[b]}
  <2>2. marks = {}
    BY <1>1, <1>6, ChannelsAssumption DEF Busy, TreeOK
  <2>3. SetRunning(m, j) =
          [m EXCEPT !.ready = Without(@, j, marks), !.delayed = Without(@, j, marks),
                    !.running = With(@, j, marks), !.failed = Without(@, j, marks)]
    BY DEF SetRunning
  <2>4. \A sets \in JobSets : Without(sets, j, marks) = sets /\ With(sets, j, marks) = sets
    <3> HIDE DEF marks
    <3> QED BY <2>2 DEF Without, With, JobSets
  <2> HIDE DEF marks
  <2>5. SetRunning(m, j) = m
    BY <2>3, <2>4 DEF Memory
  <2> QED BY <2>1, <2>5
<1>7. CASE s = "failed"
  <2>1. Notify(m, j, s, 0) = SetFailed(m, j) BY <1>3, <1>7
  <2>2. CASE j \in m.failed[own]
    BY <2>1, <2>2 DEF SetFailed
  <2>3. CASE j \notin m.failed[own]
    <3> DEFINE n == [r EXCEPT !.failed = With(@, j, {own})]
    <3>1. Notify(m, j, s, 0) = n
      BY <2>1, <2>3 DEF SetFailed, r
    <3>2. n \in Memory /\ NoEtas(n) /\ n.running = r.running /\ n.ready = r.ready
      BY <1>1, <1>2 DEF With, Memory, JobSets, NoEtas
    <3> HIDE DEF n
    <3> QED BY <3>1, <3>2, <1>1, <1>2, <1>7 DEF Busy
  <2> QED BY <2>2, <2>3
<1>8. CASE s = "wait_dependencies"
  BY <1>3, <1>8
<1> QED BY <1>4, <1>5, <1>6, <1>7, <1>8 DEF States

-----------------------------------------------------------------------------
(* Types.                                                                  *)

LEMMA TypeInit == Init => TypeOK
<1> SUFFICES ASSUME Init PROVE TypeOK
  OBVIOUS
<1>1. EmptyMemory \in Memory /\ NoEtas(EmptyMemory)
  BY DEF EmptyMemory, Memory, JobSets, NoEtas
<1>2. state \in [Jobs -> States] /\ retry \in [Jobs -> Nat]
  BY DEF Init, States
<1>3. worker \in [Workers -> {Idle} \cup InHandOf]
  BY DEF Init
<1>4. disturbances \in 0..MaxDisturbances
  BY JobRunnerAssumption DEF Init
<1> QED BY <1>1, <1>2, <1>3, <1>4 DEF Init, TypeOK, NoEtas

(* What the writers of rows have in common.                                *)
LEMMA WriteType ==
  ASSUME TypeOK, NEW js \in SUBSET Jobs
  PROVE  /\ Overtaken(js) \in [Workers -> {Idle} \cup InHandOf]
         /\ Lost(js) \in {NoTx} \cup UserTx
         /\ \A new \in [Jobs -> States] :
              Write(new) => /\ state' \in [Jobs -> States]
                            /\ notes' \subseteq Jobs /\ wasDone' \subseteq Jobs
<1>1. Overtaken(js) \in [Workers -> {Idle} \cup InHandOf]
  <2> SUFFICES ASSUME NEW w \in Workers, worker[w].view = "clean"
               PROVE  [worker[w] EXCEPT !.view = "dirty"] \in InHandOf
    BY DEF Overtaken, TypeOK
  <2>1. worker[w] \in InHandOf
    BY DEF TypeOK, Idle
  <2> QED BY <2>1 DEF InHandOf
<1>2. Lost(js) \in {NoTx} \cup UserTx
  BY DEF Lost, TypeOK, UserTx
<1>3. \A new \in [Jobs -> States] :
        Write(new) => /\ state' \in [Jobs -> States]
                      /\ notes' \subseteq Jobs /\ wasDone' \subseteq Jobs
  BY DEF Write, TypeOK
<1> QED BY <1>1, <1>2, <1>3

LEMMA PendingStateType ==
  ASSUME NEW seen, NEW j
  PROVE  PendingState(seen, j) \in {"pending", "wait_dependencies"}
BY DEF PendingState

LEMMA BackType ==
  ASSUME TypeOK, NEW w \in Workers
  PROVE  worker[w].back \in {"pending", "wait_dependencies"}
BY DEF TypeOK, InHandOf, Idle

LEMMA ChangeType ==
  ASSUME TypeOK, NEW js \in SUBSET Jobs, NEW new \in [Jobs -> States], Change(js, new)
  PROVE  /\ state' \in [Jobs -> States]
         /\ notes' \subseteq Jobs /\ wasDone' \subseteq Jobs /\ meddled' \subseteq Jobs
         /\ worker' \in [Workers -> {Idle} \cup InHandOf]
         /\ UNCHANGED <<phase, mem, todo, requests, threads>>
BY WriteType DEF Change, TypeOK, runnerVars, httpVars

(* The rows a worker leaves, in every way a job can end.                   *)
LEMMA StoreType ==
  ASSUME TypeOK, NEW w \in Workers, Performs(w), NEW s \in States,
         NEW next \in {Idle} \cup InHandOf, Store(w, s, next),
         disturbances' \in 0..MaxDisturbances
  PROVE  TypeOK'
<1>1. worker[w] \in InHandOf
  BY DEF TypeOK, Performs, Idle
<1> DEFINE j == worker[w].job
<1>2. j \in Jobs /\ worker[w].retry \in Nat
  BY <1>1 DEF InHandOf
<1>3. /\ state' \in [Jobs -> States]
      /\ notes' \subseteq Jobs /\ wasDone' \subseteq Jobs
      /\ worker' \in [Workers -> {Idle} \cup InHandOf]
      /\ tx' \in {NoTx} \cup UserTx
  BY <1>2, WriteType DEF Store, TypeOK
<1>4. retry' \in [Jobs -> Nat]
  BY <1>2 DEF Store, TypeOK
<1>5. UNCHANGED <<phase, mem, todo, requests, threads, meddled>>
  BY DEF Store, runnerVars, httpVars
<1> QED BY <1>3, <1>4, <1>5 DEF TypeOK

LEMMA StoreTypeKept ==
  ASSUME TypeOK, NEW w \in Workers, Performs(w), NEW s \in States,
         NEW next \in {Idle} \cup InHandOf, Store(w, s, next), UNCHANGED disturbances
  PROVE  TypeOK'
<1>1. disturbances' \in 0..MaxDisturbances
  BY DEF TypeOK
<1> QED BY <1>1, StoreType

(* The runner's own steps.                                                 *)
LEMMA RunnerType ==
  ASSUME TypeOK, RunnerStep
  PROVE  TypeOK'
<1> USE DEF rowVars, runnerVars, httpVars, history
<1>0. mem \in Memory /\ NoEtas(mem)
  BY DEF TypeOK, NoEtas
<1>1. CASE InitializeDatabases
  BY <1>1 DEF TypeOK, InitializeDatabases
<1>2. CASE LoadJobs
  <2>1. mem' \in Memory /\ NoEtas(mem')
    BY <1>0, <1>2 DEF LoadJobs, Memory, JobSets, NoEtas
  <2> QED BY <2>1, <1>2 DEF TypeOK, LoadJobs, NoEtas
<1>3. CASE RunJobs
  BY <1>3 DEF TypeOK, RunJobs
<1>4. ASSUME NEW c \in Tree, PullJob(c)
      PROVE  TypeOK'
  <2>1. mem' \in Memory /\ NoEtas(mem')
    BY <1>0, <1>4, YieldEffect DEF PullJob
  <2> QED BY <2>1, <1>4 DEF TypeOK, PullJob, NoEtas
<1>5. ASSUME NEW c \in Tree, PassChannel(c)
      PROVE  TypeOK'
  <2>1. mem' \in Memory /\ NoEtas(mem')
    BY <1>0, <1>5, GiveUpEffect DEF PassChannel
  <2> QED BY <2>1, <1>5 DEF TypeOK, PassChannel, NoEtas
<1>6. CASE SendJob
  <2> DEFINE j == NextJob(mem, Root, 0)
  <2>1. /\ CanYield(mem, Root, 0) /\ mem' = Yield(mem, Root, 0)
        /\ Write([state EXCEPT ![j] = "enqueued"])
        /\ worker' = Overtaken({j}) /\ tx' = Lost({j})
        /\ requests' = [requests EXCEPT ![j] = @ + 1]
        /\ threads' = [threads EXCEPT ![j] = @ + 1]
        /\ UNCHANGED <<retry, phase, todo, disturbances, meddled>>
    BY <1>6 DEF SendJob
  <2>2. Root \in Tree
    BY ChannelsAssumption DEF TreeOK
  <2>3. j \in Jobs /\ mem' \in Memory /\ NoEtas(mem')
    BY <1>0, <2>1, <2>2, YieldEffect
  <2> HIDE DEF j
  <2>4. requests' \in [Jobs -> Nat] /\ threads' \in [Jobs -> Nat]
    BY <2>1, <2>3 DEF TypeOK
  <2>5. [state EXCEPT ![j] = "enqueued"] \in [Jobs -> States]
    BY DEF TypeOK, States
  <2>6. {j} \in SUBSET Jobs
    BY <2>3
  <2>7. /\ worker' \in [Workers -> {Idle} \cup InHandOf]
        /\ tx' \in {NoTx} \cup UserTx
        /\ state' \in [Jobs -> States] /\ notes' \subseteq Jobs /\ wasDone' \subseteq Jobs
    BY <2>1, <2>5, <2>6, WriteType
  <2> QED BY <2>1, <2>3, <2>4, <2>7 DEF TypeOK, NoEtas
<1>7. CASE WaitNotification
  <2>1. mem' \in Memory /\ NoEtas(mem')
    BY <1>0, <1>7, GiveUpEffect, ChannelsAssumption DEF WaitNotification, TreeOK
  <2> QED BY <2>1, <1>7 DEF TypeOK, WaitNotification, NoEtas
<1> QED BY <1>1, <1>2, <1>3, <1>4, <1>5, <1>6, <1>7 DEF RunnerStep

(* The ends of a job.                                                      *)
LEMMA WorkerType ==
  ASSUME TypeOK, NEW w \in Workers, WorkerEnds(w)
  PROVE  TypeOK'
<1> DEFINE released == [worker[w] EXCEPT !.step = "release", !.view = "none"]
<1>1. Performs(w) => worker[w] \in InHandOf /\ released \in InHandOf
  <2>1. Performs(w) => worker[w] \in InHandOf
    BY DEF TypeOK, Performs, Idle
  <2> QED BY <2>1 DEF InHandOf
<1>2. "done" \in States /\ "failed" \in States /\ worker[w].back \in States
  BY BackType DEF States
<1>3. CASE PerformDone(w)
  BY <1>1, <1>2, <1>3, StoreTypeKept DEF PerformDone, RetryPostpone
<1>4. CASE PerformNothing(w)
  <2>1. CASE worker[w].view = "dirty"
    BY <1>4, <2>1 DEF PerformNothing, TypeOK, rowVars, runnerVars, httpVars, history
  <2>2. CASE worker[w].view # "dirty"
    BY <1>1, <1>2, <1>4, <2>2, StoreTypeKept DEF PerformNothing
  <2> QED BY <2>1, <2>2
<1>5. CASE PerformRetryable(w)
  BY <1>1, <1>2, <1>5, StoreTypeKept DEF PerformRetryable, RetryPostpone
<1>6. CASE PerformFails(w)
  BY <1>1, <1>2, <1>6, StoreTypeKept DEF PerformFails
<1>7. CASE PerformConflicts(w)
  <2>1. Performs(w) /\ Store(w, worker[w].back, Idle) /\ Disturb
    BY <1>7 DEF PerformConflicts, RetryPostpone
  <2>2. disturbances' \in 0..MaxDisturbances
    BY <2>1, JobRunnerAssumption DEF Disturb, TypeOK
  <2> QED BY <1>2, <2>1, <2>2, StoreType
<1>8. CASE EnqueueDependentJobs(w)
  <2> DEFINE js == Released(state, worker[w].job)
  <2>1. js \in SUBSET Jobs
    BY DEF Released
  <2>2. SetPendingAll(state, js) \in [Jobs -> States]
    BY DEF SetPendingAll, TypeOK, States
  <2> HIDE DEF js
  <2>3. /\ Write(SetPendingAll(state, js))
        /\ worker' = [Overtaken(js) EXCEPT ![w] = Idle] /\ tx' = Lost(js)
        /\ UNCHANGED <<retry, phase, mem, todo, requests, threads, disturbances, meddled>>
    BY <1>8 DEF EnqueueDependentJobs, runnerVars, httpVars, js
  <2>4. /\ state' \in [Jobs -> States] /\ notes' \subseteq Jobs /\ wasDone' \subseteq Jobs
        /\ worker' \in [Workers -> {Idle} \cup InHandOf]
        /\ tx' \in {NoTx} \cup UserTx
    BY <2>1, <2>2, <2>3, WriteType
  <2> QED BY <2>3, <2>4 DEF TypeOK
<1> QED BY <1>3, <1>4, <1>5, <1>6, <1>7, <1>8 DEF WorkerEnds

(* The requests and those who answer them.                                 *)
LEMMA RequestType ==
  ASSUME TypeOK, NEW j \in Jobs,
         \/ LoseRequest(j) \/ SetJobPending(j) \/ ThreadEnds(j)
         \/ \E w \in Workers : TakeRequest(w, j)
  PROVE  TypeOK'
<1> USE DEF rowVars, runnerVars, httpVars, history
<1>1. {j} \in SUBSET Jobs
  OBVIOUS
<1>2. \A s \in States : [state EXCEPT ![j] = s] \in [Jobs -> States]
  BY DEF TypeOK
<1>3. Disturb => disturbances' \in 0..MaxDisturbances
  BY JobRunnerAssumption DEF Disturb, TypeOK
<1>4. CASE LoseRequest(j)
  BY <1>3, <1>4 DEF LoseRequest, TypeOK
<1>5. CASE SetJobPending(j)
  <2>1. /\ threads' \in [Jobs -> Nat] /\ disturbances' \in 0..MaxDisturbances
        /\ UNCHANGED <<retry, phase, mem, todo, requests, meddled>>
    BY <1>3, <1>5 DEF SetJobPending, TypeOK
  <2>2. /\ Write([state EXCEPT ![j] = "pending"])
        /\ worker' = Overtaken({j}) /\ tx' = Lost({j})
    BY <1>5 DEF SetJobPending
  <2>3. [state EXCEPT ![j] = "pending"] \in [Jobs -> States]
    BY <1>2 DEF States
  <2>4. /\ worker' \in [Workers -> {Idle} \cup InHandOf] /\ tx' \in {NoTx} \cup UserTx
        /\ state' \in [Jobs -> States] /\ notes' \subseteq Jobs /\ wasDone' \subseteq Jobs
    BY <1>1, <2>2, <2>3, WriteType
  <2> QED BY <2>1, <2>4 DEF TypeOK
<1>6. CASE ThreadEnds(j)
  BY <1>6 DEF ThreadEnds, TypeOK
<1>7. ASSUME NEW w \in Workers, TakeRequest(w, j)
      PROVE  TypeOK'
  <2> DEFINE job == Started(j)
  <2>1. /\ requests' \in [Jobs -> Nat]
        /\ UNCHANGED <<retry, phase, mem, todo, threads, disturbances, meddled>>
    BY <1>7 DEF TakeRequest, TypeOK
  <2>2. job \in InHandOf
    BY PendingStateType DEF Started, InHandOf, Count, TypeOK
  <2> HIDE DEF job
  <2>3. CASE state[j] # "enqueued"
    BY <1>7, <2>1, <2>3 DEF TakeRequest, TypeOK
  <2>4. CASE state[j] = "enqueued"
    <3>1. /\ Write([state EXCEPT ![j] = "started"])
          /\ worker' = [Overtaken({j}) EXCEPT ![w] = job] /\ tx' = Lost({j})
      BY <1>7, <2>4 DEF TakeRequest, job
    <3>2. [state EXCEPT ![j] = "started"] \in [Jobs -> States]
      BY <1>2 DEF States
    <3>3. /\ worker' \in [Workers -> {Idle} \cup InHandOf] /\ tx' \in {NoTx} \cup UserTx
          /\ state' \in [Jobs -> States] /\ notes' \subseteq Jobs /\ wasDone' \subseteq Jobs
      BY <1>1, <2>2, <3>1, <3>2, WriteType
    <3> QED BY <2>1, <3>3 DEF TypeOK
  <2> QED BY <2>3, <2>4
<1> QED BY <1>4, <1>5, <1>6, <1>7

(* Users and the cron job.                                                 *)
LEMMA UserType ==
  ASSUME TypeOK,
         \/ \E j \in Jobs : \/ ButtonCancelled(j) \/ BeginButtonDone(j)
                            \/ BeginRequeue(j) \/ RequeueStuckJobs(j)
         \/ EndButtonDone \/ EndRequeue
  PROVE  TypeOK'
<1> USE DEF rowVars, runnerVars, httpVars, history
<1>1. Disturb => disturbances' \in 0..MaxDisturbances
  BY JobRunnerAssumption DEF Disturb, TypeOK
<1>2. ASSUME NEW j \in Jobs
      PROVE  /\ {j} \in SUBSET Jobs
             /\ \A s \in States : [state EXCEPT ![j] = s] \in [Jobs -> States]
             /\ \A seen : [state EXCEPT ![j] = PendingState(seen, j)] \in [Jobs -> States]
             /\ [retry EXCEPT ![j] = 0] \in [Jobs -> Nat]
  BY PendingStateType DEF TypeOK, States
<1>3. ASSUME NEW j \in Jobs, ButtonCancelled(j)
      PROVE  TypeOK'
  <2>1. /\ Change({j}, [state EXCEPT ![j] = "cancelled"])
        /\ disturbances' \in 0..MaxDisturbances /\ tx' = Lost({j}) /\ retry' = retry
    BY <1>1, <1>3 DEF ButtonCancelled
  <2>2. [state EXCEPT ![j] = "cancelled"] \in [Jobs -> States]
    BY <1>2 DEF States
  <2>3. tx' \in {NoTx} \cup UserTx
    BY <1>2, <2>1, WriteType
  <2> QED BY <1>2, <2>1, <2>2, <2>3, ChangeType DEF TypeOK
<1>4. ASSUME NEW j \in Jobs, NEW op \in {"done", "requeue"}, Begin(op, j)
      PROVE  TypeOK'
  BY <1>1, <1>4 DEF Begin, TypeOK, UserTx
<1>5. ASSUME NEW j \in Jobs, RequeueStuckJobs(j)
      PROVE  TypeOK'
  <2>1. /\ Change({j}, [state EXCEPT ![j] = PendingState(state, j)])
        /\ disturbances' \in 0..MaxDisturbances
        /\ tx' = Lost({j}) /\ retry' = [retry EXCEPT ![j] = 0]
    BY <1>1, <1>5 DEF RequeueStuckJobs, TypeOK
  <2>2. tx' \in {NoTx} \cup UserTx
    BY <1>2, <2>1, WriteType
  <2>3. retry' \in [Jobs -> Nat]
    BY <1>2, <2>1
  <2> QED BY <1>2, <2>1, <2>2, <2>3, ChangeType DEF TypeOK
<1>6. CASE EndButtonDone
  <2> DEFINE j == tx.job
             js == {j} \cup Released([tx.seen EXCEPT ![j] = "done"], j)
             new == SetPendingAll([state EXCEPT ![j] = "done"], js \ {j})
  <2>1. tx \in UserTx
    BY <1>6 DEF EndButtonDone, TypeOK, NoTx
  <2>2. js \in SUBSET Jobs
    BY <2>1 DEF UserTx, Released
  <2>3. new \in [Jobs -> States]
    BY DEF SetPendingAll, TypeOK, States
  <2>4. tx' = NoTx /\ UNCHANGED <<retry, disturbances>>
    BY <1>6 DEF EndButtonDone
  <2> HIDE DEF j, js, new
  <2>5. CASE Change(js, new)
    BY <2>2, <2>3, <2>4, <2>5, ChangeType DEF TypeOK
  <2>6. CASE UNCHANGED <<state, notes, runnerVars, httpVars, worker, history>>
    BY <2>4, <2>6 DEF TypeOK
  <2> QED BY <1>6, <2>5, <2>6 DEF EndButtonDone, j, js, new
<1>7. CASE EndRequeue
  <2> DEFINE j == tx.job
  <2>1. tx \in UserTx
    BY <1>7 DEF EndRequeue, TypeOK, NoTx
  <2>2. j \in Jobs
    BY <2>1 DEF UserTx
  <2>3. tx' = NoTx /\ UNCHANGED disturbances
    BY <1>7 DEF EndRequeue
  <2>4. CASE /\ Change({j}, [state EXCEPT ![j] = PendingState(tx.seen, j)])
             /\ retry' = [retry EXCEPT ![j] = 0]
    <3> HIDE DEF j
    <3>1. retry' \in [Jobs -> Nat]
      BY <1>2, <2>2, <2>4
    <3> QED BY <1>2, <2>2, <2>3, <2>4, <3>1, ChangeType DEF TypeOK
  <2>5. CASE UNCHANGED <<rowVars, notes, runnerVars, httpVars, worker, history>>
    BY <2>3, <2>5 DEF TypeOK
  <2> QED BY <1>7, <2>4, <2>5 DEF EndRequeue
<1> QED BY <1>3, <1>4, <1>5, <1>6, <1>7 DEF BeginButtonDone, BeginRequeue

-----------------------------------------------------------------------------
(* Capacity.                                                               *)

LEMMA InvInit == Init => RunnerKnowsBusy /\ BusyWithinCapacity
<1> SUFFICES ASSUME Init PROVE RunnerKnowsBusy /\ BusyWithinCapacity
  OBVIOUS
<1>1. \A c \in Tree : BusyUnder(c) = {} /\ mem.ready[c] = {}
  BY DEF Init, BusyUnder, Busy, EmptyMemory
<1>2. RunnerKnowsBusy
  BY <1>1 DEF Init, RunnerKnowsBusy, BusyIsRunning, RunningWithinCapacity, QueuedOnItsPath, Running
<1>3. BusyWithinCapacity
  BY <1>1, FS_EmptySet, ChannelsAssumption DEF BusyWithinCapacity, Configured
<1> QED BY <1>2, <1>3

(* Fewer jobs take no more room.                                           *)
LEMMA FewerFit ==
  ASSUME NEW S \in SUBSET Jobs, NEW T \in SUBSET S, NEW n \in Nat, Cardinality(S) <= n
  PROVE  Cardinality(T) <= n
<1>1. IsFiniteSet(S) /\ IsFiniteSet(T) /\ Cardinality(T) <= Cardinality(S)
  BY FS_Subset, JobRunnerAssumption
<1>2. Cardinality(S) \in Nat /\ Cardinality(T) \in Nat
  BY <1>1, FS_CardinalityType
<1> QED BY <1>1, <1>2

(* While the runner is up, what it has marked running bounds what is busy. *)
LEMMA KnownFit ==
  TypeOK /\ Running /\ BusyIsRunning /\ RunningWithinCapacity => BusyWithinCapacity
<1> SUFFICES ASSUME TypeOK, Running, BusyIsRunning, RunningWithinCapacity,
                    NEW c \in Tree, Capacity[c] # 0
             PROVE  Cardinality(BusyUnder(c)) <= Capacity[c]
  BY DEF BusyWithinCapacity
<1>1. /\ mem.running[c] \in SUBSET Jobs /\ BusyUnder(c) \in SUBSET mem.running[c]
      /\ Capacity[c] \in Nat /\ Cardinality(mem.running[c]) <= Capacity[c]
  BY ChannelsAssumption
  DEF TypeOK, Memory, JobSets, BusyIsRunning, RunningWithinCapacity, Configured
<1> QED BY <1>1, FewerFit

(* A step that leaves the runner alone and makes no job busy.              *)
LEMMA NoneBecomesBusy ==
  ASSUME TypeOK, RunnerKnowsBusy, BusyWithinCapacity, UNCHANGED <<phase, mem>>,
         \A j \in Jobs : state'[j] \in Busy => state[j] \in Busy
  PROVE  RunnerKnowsBusy' /\ BusyWithinCapacity'
<1>1. \A c \in Tree : BusyUnder(c)' \in SUBSET BusyUnder(c)
  BY DEF BusyUnder
<1>2. RunnerKnowsBusy'
  BY <1>1 DEF RunnerKnowsBusy, BusyIsRunning, RunningWithinCapacity, QueuedOnItsPath, Running
<1>3. BusyWithinCapacity'
  <2> SUFFICES ASSUME NEW c \in Tree, Capacity[c] # 0
               PROVE  Cardinality(BusyUnder(c)') <= Capacity[c]
    BY DEF BusyWithinCapacity
  <2>1. BusyUnder(c) \in SUBSET Jobs /\ Capacity[c] \in Nat
        /\ Cardinality(BusyUnder(c)) <= Capacity[c]
    BY ChannelsAssumption DEF BusyUnder, BusyWithinCapacity, Configured
  <2> QED BY <1>1, <2>1, FewerFit
<1> QED BY <1>2, <1>3

(* Putting a job into a channel that has room for it.                      *)
LEMMA OneMoreFits ==
  ASSUME NEW m \in Memory, NEW c \in Tree, NEW j \in Jobs, HasCapacity(m, c),
         Capacity[c] # 0
  PROVE  Cardinality(m.running[c] \cup {j}) <= Capacity[c]
<1>1. IsFiniteSet(m.running[c])
  BY FS_Subset, JobRunnerAssumption DEF Memory, JobSets
<1>2. Cardinality(m.running[c]) \in Nat /\ Capacity[c] \in Nat
  BY <1>1, FS_CardinalityType, ChannelsAssumption DEF Configured
<1>3. Cardinality(m.running[c]) < Capacity[c]
  BY DEF HasCapacity
<1>4. Cardinality(m.running[c] \cup {j}) =
        IF j \in m.running[c] THEN Cardinality(m.running[c])
                              ELSE Cardinality(m.running[c]) + 1
  BY <1>1, FS_AddElement
<1> QED BY <1>2, <1>3, <1>4

LEMMA RunningStays ==
  ASSUME NEW m \in Memory, NEW n \in Memory, NEW c \in Tree, NEW j \in Jobs,
         HasCapacity(m, c), n.running = [m.running EXCEPT ![c] = @ \cup {j}],
         \A d \in Tree : Capacity[d] # 0 => Cardinality(m.running[d]) <= Capacity[d]
  PROVE  \A d \in Tree : Capacity[d] # 0 => Cardinality(n.running[d]) <= Capacity[d]
<1> SUFFICES ASSUME NEW d \in Tree, Capacity[d] # 0
             PROVE  Cardinality(n.running[d]) <= Capacity[d]
  OBVIOUS
<1>1. CASE d = c
  <2>1. n.running[d] = m.running[c] \cup {j}
    BY <1>1 DEF Memory, JobSets
  <2> QED BY <1>1, <2>1, OneMoreFits
<1>2. CASE d # c
  <2>1. n.running[d] = m.running[d]
    BY <1>2 DEF Memory, JobSets
  <2> QED BY <2>1
<1> QED BY <1>1, <1>2

(* A job going up to the parent of c leaves the marks the parent's queue   *)
(* asks for: those of c's queue, and c's own.                              *)
LEMMA PathStays ==
  ASSUME NEW m \in Memory, NEW n \in Memory, NEW c \in Tree, NEW j \in m.ready[c],
         \A d \in Tree : \A k \in m.ready[d] :
           /\ d \in Up[ChannelOf[k]]
           /\ \A b \in Up[ChannelOf[k]] : b # d /\ d \in Up[b] => k \in m.running[b],
         n.running = [m.running EXCEPT ![c] = @ \cup {j}],
         \A d \in Tree : n.ready[d] \subseteq
           IF c # Root /\ d = Parent[c] THEN m.ready[d] \cup {j} ELSE m.ready[d]
  PROVE  \A d \in Tree : \A k \in n.ready[d] :
           /\ d \in Up[ChannelOf[k]]
           /\ \A b \in Up[ChannelOf[k]] : b # d /\ d \in Up[b] => k \in n.running[b]
<1>1. \A b \in Tree : m.running[b] \subseteq n.running[b]
  BY DEF Memory, JobSets
<1> SUFFICES ASSUME NEW d \in Tree, NEW k \in n.ready[d]
             PROVE  /\ d \in Up[ChannelOf[k]]
                    /\ \A b \in Up[ChannelOf[k]] : b # d /\ d \in Up[b] => k \in n.running[b]
  OBVIOUS
<1>2. k \in Jobs /\ ChannelOf[k] \in Tree /\ Up[ChannelOf[k]] \subseteq Tree
  BY ChannelsAssumption DEF Memory, JobSets, TreeOK
<1>3. CASE k \in m.ready[d]
  BY <1>1, <1>2, <1>3
<1>4. CASE k \notin m.ready[d]
  <2>1. c # Root /\ d = Parent[c] /\ k = j
    BY <1>4
  <2>2. c \in Up[ChannelOf[k]]
    BY <2>1
  <2>3. Up[c] = {c} \cup Up[d] /\ d \in Up[d] /\ c \in Up[c]
        /\ Up[c] \subseteq Up[ChannelOf[k]]
    BY <1>2, <2>1, <2>2, ChannelsAssumption DEF TreeOK
  <2>4. d \in Up[ChannelOf[k]]
    BY <2>3
  <2>5. ASSUME NEW b \in Up[ChannelOf[k]], b # d, d \in Up[b]
        PROVE  k \in n.running[b]
    <3>1. CASE b = c
      BY <2>1, <3>1 DEF Memory, JobSets
    <3>2. CASE b # c
      <4>1. c \in Up[b] \/ b \in Up[c]
        BY <1>2, <2>2, ChannelsAssumption DEF TreeOK
      <4>2. b \notin Up[c]
        <5>1. b \in Up[c] => b \in Up[d]
          BY <2>3, <3>2
        <5>2. b \in Up[d] => b = d
          BY <1>2, <2>4, <2>5, ChannelsAssumption DEF TreeOK
        <5> QED BY <5>1, <5>2, <2>5
      <4>3. k \in m.running[b]
        BY <4>1, <4>2, <2>1, <3>2
      <4> QED BY <4>3, <1>1, <1>2
    <3> QED BY <3>1, <3>2
  <2> QED BY <2>4, <2>5
<1> QED BY <1>3, <1>4

LEMMA NotificationStep ==
  ASSUME TypeOK, RunnerKnowsBusy, NEW j \in Jobs, ProcessNotification(j)
  PROVE  TypeOK' /\ RunnerKnowsBusy' /\ BusyWithinCapacity'
<1>1. mem \in Memory /\ NoEtas(mem) /\ state[j] \in States
  BY DEF TypeOK, NoEtas
<1>2. /\ Running /\ mem' = Notify(mem, j, state[j], 0) /\ notes' = notes \ {j}
      /\ UNCHANGED <<state, retry, phase, todo, requests, threads, worker, tx,
                    disturbances, meddled, wasDone>>
  BY DEF ProcessNotification, Running, rowVars, httpVars, history
<1>3. BusyIsRunning /\ RunningWithinCapacity /\ QueuedOnItsPath
  BY DEF RunnerKnowsBusy
<1> DEFINE path == Up[ChannelOf[j]]
<1>4. path \subseteq Tree /\ ChannelOf[j] \in path /\ ChannelOf[j] \in Tree
  BY ChannelsAssumption DEF TreeOK
<1>5. state[j] \in Busy => \A c \in path : j \in mem.running[c]
  BY <1>2, <1>3, <1>4 DEF BusyIsRunning, BusyUnder
<1>6. Running'
  BY <1>2 DEF Running
<1>7. CASE mem' = mem
  <2>1. TypeOK'
    BY <1>2, <1>7 DEF TypeOK
  <2>2. BusyIsRunning' /\ RunningWithinCapacity' /\ QueuedOnItsPath'
    BY <1>2, <1>3, <1>7
    DEF BusyIsRunning, RunningWithinCapacity, QueuedOnItsPath, Running, BusyUnder
  <2>3. BusyWithinCapacity'
    BY <1>6, <2>1, <2>2, KnownFit, PTL
  <2> QED BY <2>1, <2>2, <2>3 DEF RunnerKnowsBusy
<1>8. CASE /\ state[j] \notin Busy
           /\ mem' \in Memory /\ NoEtas(mem')
           /\ mem'.running = Without(mem.running, j, path)
           /\ \A c \in Tree : mem'.ready[c] \subseteq
                IF c = ChannelOf[j] THEN mem.ready[c] \cup {j}
                ELSE IF c \in path THEN mem.ready[c] \ {j}
                ELSE mem.ready[c]
  <2>1. TypeOK'
    BY <1>2, <1>8 DEF TypeOK, NoEtas
  <2>2. \A c \in Tree : /\ mem'.running[c] \subseteq mem.running[c]
                        /\ mem.running[c] \ {j} \subseteq mem'.running[c]
    BY <1>8 DEF Without
  <2>3. BusyIsRunning'
    BY <1>2, <1>3, <1>8, <2>2 DEF BusyIsRunning, BusyUnder, Running
  <2>4. RunningWithinCapacity'
    <3> SUFFICES ASSUME NEW c \in Tree, Capacity[c] # 0
                 PROVE  Cardinality(mem'.running[c]) <= Capacity[c]
      BY DEF RunningWithinCapacity
    <3>1. /\ mem.running[c] \in SUBSET Jobs /\ mem'.running[c] \in SUBSET mem.running[c]
          /\ Capacity[c] \in Nat /\ Cardinality(mem.running[c]) <= Capacity[c]
      BY <1>1, <1>2, <1>3, <2>2, ChannelsAssumption
      DEF Memory, JobSets, RunningWithinCapacity, Configured
    <3> QED BY <3>1, FewerFit
  <2>5. QueuedOnItsPath'
    <3> SUFFICES ASSUME NEW c \in Tree, NEW k \in mem'.ready[c]
                 PROVE  /\ c \in Up[ChannelOf[k]]
                        /\ \A b \in Up[ChannelOf[k]] :
                             b # c /\ c \in Up[b] => k \in mem'.running[b]
      BY DEF QueuedOnItsPath
    <3>1. k \in Jobs /\ Up[ChannelOf[k]] \subseteq Tree
      BY <1>8, ChannelsAssumption DEF Memory, JobSets, TreeOK
    <3>2. CASE k # j
      <4>1. k \in mem.ready[c]
        BY <1>8, <3>2
      <4> QED BY <3>1, <3>2, <4>1, <1>3, <2>2 DEF QueuedOnItsPath
    <3>3. CASE k = j
      <4>1. c = ChannelOf[j]
        <5>1. c # ChannelOf[j] => c \notin path /\ k \in mem.ready[c]
          BY <1>8, <3>3
        <5> QED BY <5>1, <1>3, <3>3 DEF QueuedOnItsPath
      <4>2. \A b \in path : c \in Up[b] => b = c
        BY <1>4, <4>1, ChannelsAssumption DEF TreeOK
      <4> QED BY <1>4, <3>3, <4>1, <4>2
    <3> QED BY <3>2, <3>3
  <2>6. BusyWithinCapacity'
    BY <1>6, <2>1, <2>3, <2>4, KnownFit, PTL
  <2> QED BY <2>1, <2>3, <2>4, <2>5, <2>6 DEF RunnerKnowsBusy
<1>9. \/ mem' = mem
      \/ /\ state[j] \notin Busy
         /\ mem' \in Memory /\ NoEtas(mem')
         /\ mem'.running = Without(mem.running, j, path)
         /\ \A c \in Tree : mem'.ready[c] \subseteq
              IF c = ChannelOf[j] THEN mem.ready[c] \cup {j}
              ELSE IF c \in path THEN mem.ready[c] \ {j}
              ELSE mem.ready[c]
  BY <1>1, <1>2, <1>5, NotifyEffect
<1> QED BY <1>7, <1>8, <1>9

(* Pulling a job up, and out of the root channel to a worker.              *)
LEMMA PullStep ==
  ASSUME TypeOK, TypeOK', RunnerKnowsBusy, Running, phase' = phase,
         NEW c \in Tree, CanYield(mem, c, 0), mem' = Yield(mem, c, 0),
         \A k \in Jobs : state'[k] \in Busy =>
           state[k] \in Busy \/ (c = Root /\ k = NextJob(mem, c, 0))
  PROVE  RunnerKnowsBusy' /\ BusyWithinCapacity'
<1> DEFINE j == NextJob(mem, c, 0)
<1>1. mem \in Memory /\ NoEtas(mem)
  BY DEF TypeOK, NoEtas
<1>2. /\ j \in Jobs /\ j \in mem.ready[c] /\ HasCapacity(mem, c)
      /\ mem' \in Memory
      /\ mem'.running = [mem.running EXCEPT ![c] = @ \cup {j}]
      /\ \A d \in Tree : mem'.ready[d] \subseteq
           IF c # Root /\ d = Parent[c] THEN mem.ready[d] \cup {j} ELSE mem.ready[d]
  BY <1>1, YieldEffect
<1>3. Running'
  BY DEF Running
<1>4. BusyIsRunning /\ RunningWithinCapacity /\ QueuedOnItsPath
  BY DEF RunnerKnowsBusy
<1>5. \A k \in Jobs : state'[k] \in Busy => state[k] \in Busy \/ (c = Root /\ k = j)
  OBVIOUS
<1> HIDE DEF j
<1>6. BusyIsRunning'
  <2> SUFFICES ASSUME NEW d \in Tree, NEW k \in Jobs,
                      state'[k] \in Busy, d \in Up[ChannelOf[k]]
               PROVE  k \in mem'.running[d]
    BY DEF BusyIsRunning, BusyUnder
  <2>1. mem.running[d] \subseteq mem'.running[d]
    BY <1>1, <1>2 DEF Memory, JobSets
  <2>2. CASE state[k] \in Busy
    BY <1>4, <2>1, <2>2 DEF BusyIsRunning, BusyUnder
  <2>3. CASE c = Root /\ k = j
    <3>1. CASE d = c
      BY <1>1, <1>2, <2>3, <3>1 DEF Memory, JobSets
    <3>2. CASE d # c
      <4>1. c \in Up[d]
        BY <2>3, ChannelsAssumption DEF TreeOK
      <4> QED BY <1>2, <1>4, <2>1, <2>3, <3>2, <4>1 DEF QueuedOnItsPath
    <3> QED BY <3>1, <3>2
  <2> QED BY <1>5, <2>2, <2>3
<1>7. RunningWithinCapacity'
  BY <1>1, <1>2, <1>4, RunningStays DEF RunningWithinCapacity
<1>8. QueuedOnItsPath'
  BY <1>1, <1>2, <1>4, PathStays DEF QueuedOnItsPath
<1>9. BusyWithinCapacity'
  BY <1>3, <1>6, <1>7, KnownFit, PTL
<1> QED BY <1>6, <1>7, <1>8, <1>9 DEF RunnerKnowsBusy

(* A step of the runner that moves no job: its state may change from up to *)
(* up, or to down.                                                         *)
LEMMA IdleStep ==
  ASSUME TypeOK, RunnerKnowsBusy, BusyWithinCapacity, state' = state,
         Running' => Running,
         mem'.running = mem.running, mem'.ready = mem.ready
  PROVE  RunnerKnowsBusy' /\ BusyWithinCapacity'
<1>1. \A c \in Tree : BusyUnder(c)' = BusyUnder(c)
  BY DEF BusyUnder
<1> QED BY <1>1 DEF RunnerKnowsBusy, BusyIsRunning, RunningWithinCapacity, QueuedOnItsPath,
              BusyWithinCapacity

(* A new runner takes its count from the database.                         *)
LEMMA LoadStep ==
  ASSUME TypeOK, RunnerKnowsBusy, BusyWithinCapacity, LoadJobs
  PROVE  RunnerKnowsBusy' /\ BusyWithinCapacity'
<1>1. /\ mem'.running = [c \in Tree |-> BusyUnder(c)]
      /\ mem'.ready = [c \in Tree |-> {j \in Jobs : state[j] = "pending" /\ c = ChannelOf[j]}]
      /\ state' = state
  BY DEF LoadJobs, BusyUnder, TypeOK, Memory, rowVars
<1>2. \A c \in Tree : BusyUnder(c)' = BusyUnder(c)
  BY <1>1 DEF BusyUnder
<1>3. BusyIsRunning' /\ RunningWithinCapacity' /\ BusyWithinCapacity'
  BY <1>1, <1>2 DEF BusyIsRunning, RunningWithinCapacity, BusyWithinCapacity
<1>4. QueuedOnItsPath'
  BY <1>1, ChannelsAssumption DEF QueuedOnItsPath, TreeOK
<1> QED BY <1>3, <1>4 DEF RunnerKnowsBusy

LEMMA RunnerStepKeeps ==
  ASSUME TypeOK, RunnerKnowsBusy, BusyWithinCapacity, RunnerStep
  PROVE  TypeOK' /\ RunnerKnowsBusy' /\ BusyWithinCapacity'
<1> USE DEF rowVars, runnerVars, httpVars, history
<1>1. TypeOK' /\ mem \in Memory /\ NoEtas(mem) /\ Root \in Tree
  BY RunnerType, ChannelsAssumption DEF TypeOK, NoEtas, TreeOK
<1>2. CASE InitializeDatabases
  BY <1>1, <1>2, IdleStep DEF InitializeDatabases, Running
<1>3. CASE LoadJobs
  BY <1>1, <1>3, LoadStep
<1>4. CASE RunJobs
  BY <1>1, <1>4, IdleStep DEF RunJobs, Running
<1>5. ASSUME NEW c \in Tree, PullJob(c)
      PROVE  TypeOK' /\ RunnerKnowsBusy' /\ BusyWithinCapacity'
  <2>1. /\ Running /\ phase' = phase /\ state' = state
        /\ CanYield(mem, c, 0) /\ mem' = Yield(mem, c, 0)
    BY <1>5 DEF PullJob, Serving, Running
  <2> QED BY <1>1, <2>1, PullStep
<1>6. ASSUME NEW c \in Tree, PassChannel(c)
      PROVE  TypeOK' /\ RunnerKnowsBusy' /\ BusyWithinCapacity'
  <2>1. mem'.running = mem.running /\ mem'.ready = mem.ready
    BY <1>1, <1>6, GiveUpEffect DEF PassChannel
  <2> QED BY <1>1, <1>6, <2>1, IdleStep DEF PassChannel, Running
<1>7. CASE SendJob
  <2>1. /\ Running /\ phase' = phase
        /\ CanYield(mem, Root, 0) /\ mem' = Yield(mem, Root, 0)
        /\ state' = [state EXCEPT ![NextJob(mem, Root, 0)] = "enqueued"]
    BY <1>7 DEF SendJob, Serving, Running, Write
  <2>2. \A k \in Jobs : state'[k] \in Busy =>
          state[k] \in Busy \/ (Root = Root /\ k = NextJob(mem, Root, 0))
    BY <2>1 DEF TypeOK
  <2> QED BY <1>1, <2>1, <2>2, PullStep
<1>8. CASE WaitNotification
  <2>1. mem'.running = mem.running /\ mem'.ready = mem.ready
    BY <1>1, <1>8, GiveUpEffect DEF WaitNotification
  <2> QED BY <1>1, <1>8, <2>1, IdleStep DEF WaitNotification, Serving, Running
<1> QED BY <1>2, <1>3, <1>4, <1>5, <1>6, <1>7, <1>8 DEF RunnerStep

(* Requests, workers, users and the cron job make no job busy: only the    *)
(* runner does.                                                            *)
LEMMA OthersStep ==
  ASSUME TypeOK, RunnerKnowsBusy, BusyWithinCapacity,
         \/ \E j \in Jobs :
              \/ LoseRequest(j) \/ SetJobPending(j) \/ ThreadEnds(j)
              \/ \E w \in Workers : TakeRequest(w, j)
              \/ ButtonCancelled(j) \/ BeginButtonDone(j) \/ BeginRequeue(j)
              \/ RequeueStuckJobs(j)
         \/ \E w \in Workers : BeginTransaction(w) \/ WorkerEnds(w) \/ WorkerDies(w)
         \/ EndButtonDone \/ EndRequeue \/ UNCHANGED vars
  PROVE  TypeOK' /\ RunnerKnowsBusy' /\ BusyWithinCapacity'
<1> USE DEF rowVars, runnerVars, httpVars, history
<1>1. TypeOK'
  <2>1. ASSUME NEW w \in Workers, BeginTransaction(w)
        PROVE  TypeOK'
    <3>1. worker[w] \in InHandOf
      BY <2>1 DEF BeginTransaction, Performs, TypeOK, Idle
    <3>2. [worker[w] EXCEPT !.view = "clean"] \in InHandOf
      BY <3>1 DEF InHandOf
    <3> QED BY <2>1, <3>2 DEF BeginTransaction, TypeOK
  <2>2. ASSUME NEW w \in Workers, WorkerDies(w)
        PROVE  TypeOK'
    BY <2>2, JobRunnerAssumption DEF WorkerDies, TypeOK, Disturb
  <2>3. CASE UNCHANGED vars
    BY <2>3 DEF vars, TypeOK
  <2> QED BY <2>1, <2>2, <2>3, RequestType, UserType, WorkerType
<1>2. UNCHANGED <<phase, mem>>
  BY DEF LoseRequest, SetJobPending, ThreadEnds, TakeRequest, ButtonCancelled, BeginButtonDone,
     BeginRequeue, Begin, RequeueStuckJobs, BeginTransaction, WorkerEnds, WorkerDies, PerformDone,
     PerformNothing, PerformRetryable, PerformConflicts, PerformFails, RetryPostpone, Store, EnqueueDependentJobs,
     EndButtonDone, EndRequeue, Change, vars
<1>3. \A k \in Jobs : state'[k] \in Busy => state[k] \in Busy
  <2>1. \A seen, j : PendingState(seen, j) \notin Busy
    BY PendingStateType DEF Busy
  <2>2. ASSUME NEW j \in Jobs,
               \/ LoseRequest(j) \/ SetJobPending(j) \/ ThreadEnds(j)
               \/ \E w \in Workers : TakeRequest(w, j)
               \/ ButtonCancelled(j) \/ BeginButtonDone(j) \/ BeginRequeue(j)
               \/ RequeueStuckJobs(j)
        PROVE  \A k \in Jobs : state'[k] \in Busy => state[k] \in Busy
    BY <2>1, <2>2 DEF LoseRequest, SetJobPending, ThreadEnds, TakeRequest, ButtonCancelled,
         BeginButtonDone, BeginRequeue, Begin, RequeueStuckJobs, Change, Write, Busy, TypeOK
  <2>3. ASSUME NEW w \in Workers, BeginTransaction(w) \/ WorkerDies(w)
        PROVE  state' = state
    BY <2>3 DEF BeginTransaction, WorkerDies
  <2>4. ASSUME NEW w \in Workers, WorkerEnds(w)
        PROVE  \A k \in Jobs : state'[k] \in Busy => state[k] \in Busy
    <3>1. ASSUME NEW s, s \notin Busy, NEW next, Store(w, s, next)
          PROVE  \A k \in Jobs : state'[k] \in Busy => state[k] \in Busy
      BY <3>1 DEF Store, Write, TypeOK
    <3>2. "done" \notin Busy /\ "failed" \notin Busy
      BY DEF Busy
    <3>3. CASE EnqueueDependentJobs(w)
      BY <3>3 DEF EnqueueDependentJobs, Write, SetPendingAll, Busy
    <3>4. worker[w].back \notin Busy
      BY BackType DEF Busy
    <3> QED BY <2>4, <3>1, <3>2, <3>3, <3>4 DEF WorkerEnds, PerformDone, PerformNothing,
              PerformRetryable, PerformConflicts, PerformFails, RetryPostpone
  <2>5. CASE EndButtonDone
    BY <2>5 DEF EndButtonDone, Change, Write, SetPendingAll, Busy, TypeOK
  <2>6. CASE EndRequeue
    BY <2>1, <2>6 DEF EndRequeue, Change, Write, TypeOK
  <2>7. CASE UNCHANGED vars
    BY <2>7 DEF vars
  <2> QED BY <2>2, <2>3, <2>4, <2>5, <2>6, <2>7
<1> QED BY <1>1, <1>2, <1>3, NoneBecomesBusy

LEMMA FailStep ==
  ASSUME TypeOK, RunnerKnowsBusy, BusyWithinCapacity, RunnerFails
  PROVE  TypeOK' /\ RunnerKnowsBusy' /\ BusyWithinCapacity'
<1>1. EmptyMemory \in Memory /\ NoEtas(EmptyMemory)
  BY DEF EmptyMemory, Memory, JobSets, NoEtas
<1>2. /\ phase' = "stopped" /\ mem' = EmptyMemory /\ state' = state
  BY DEF RunnerFails, rowVars
<1>3. TypeOK'
  BY <1>1, JobRunnerAssumption DEF RunnerFails, TypeOK, NoEtas, Disturb, rowVars, history
<1>4. RunnerKnowsBusy'
  BY <1>2 DEF RunnerKnowsBusy, BusyIsRunning, RunningWithinCapacity, QueuedOnItsPath,
     Running, EmptyMemory
<1>5. \A c \in Tree : BusyUnder(c)' = BusyUnder(c)
  BY <1>2 DEF BusyUnder
<1>6. BusyWithinCapacity'
  BY <1>5 DEF BusyWithinCapacity
<1> QED BY <1>3, <1>4, <1>6

(* The inductive invariant.                                                *)
LEMMA Inductive == IInv /\ [Next]_vars => IInv'
<1> SUFFICES ASSUME IInv, [Next]_vars PROVE IInv'
  OBVIOUS
<1>1. TypeOK /\ RunnerKnowsBusy /\ BusyWithinCapacity
  BY DEF IInv
<1>2. CASE RunnerStep
  BY <1>1, <1>2, RunnerStepKeeps DEF IInv
<1>3. CASE RunnerFails
  BY <1>1, <1>3, FailStep DEF IInv
<1>4. ASSUME NEW j \in Jobs, ProcessNotification(j)
      PROVE  IInv'
  BY <1>1, <1>4, NotificationStep DEF IInv
<1>5. CASE ~RunnerStep /\ ~RunnerFails /\ ~\E j \in Jobs : ProcessNotification(j)
  BY <1>1, <1>5, OthersStep DEF IInv, Next
<1> QED BY <1>2, <1>3, <1>4, <1>5

(* The rows, the memory and the workers keep their types (what TypeOK      *)
(* says of QueueJobRunner, the controller and queue.job).                  *)
THEOREM TypeCorrect == Spec => []TypeOK
<1>1. Init => IInv
  BY TypeInit, InvInit DEF IInv
<1>2. IInv => TypeOK
  BY DEF IInv
<1> QED BY <1>1, <1>2, Inductive, PTL DEF Spec

(* At all times the runner has every enqueued or started job marked in all *)
(* the channels it belongs to, within their capacities.                    *)
THEOREM MemoryCorrect == Spec => []RunnerKnowsBusy
<1>1. Init => IInv
  BY TypeInit, InvInit DEF IInv
<1>2. IInv => RunnerKnowsBusy
  BY DEF IInv
<1> QED BY <1>1, <1>2, Inductive, PTL DEF Spec

(* No channel has more jobs enqueued or started than its capacity.         *)
THEOREM CapacityCorrect == Spec => []BusyWithinCapacity
<1>1. Init => IInv
  BY TypeInit, InvInit DEF IInv
<1>2. IInv => BusyWithinCapacity
  BY DEF IInv
<1> QED BY <1>1, <1>2, Inductive, PTL DEF Spec

-----------------------------------------------------------------------------
(* The jobs a job depends on come first.                                   *)

Ready(j) == DependsOn[j] \subseteq wasDone

\* What each place a job can be in knows of the jobs it depends on.
RowsReady ==
  \A j \in Jobs : /\ state[j] \notin {"wait_dependencies", "done"} => Ready(j)
                  /\ state[j] = "done" => j \in wasDone
QueuesReady == \A c \in Tree : \A j \in mem.ready[c] : Ready(j)
TxReady == tx # NoTx => \A p \in Jobs : tx.seen[p] = "done" => p \in wasDone

OInv == IInv /\ RowsReady /\ QueuesReady /\ ParentsFirst /\ TxReady

LEMMA OrderInit == Init => OInv
<1> SUFFICES ASSUME Init PROVE OInv
  OBVIOUS
<1>1. IInv
  BY TypeInit, InvInit DEF IInv
<1>2. RowsReady /\ QueuesReady /\ ParentsFirst /\ TxReady
  BY JobRunnerAssumption
  DEF Init, RowsReady, QueuesReady, ParentsFirst, TxReady, Ready, EmptyMemory, Idle
<1> QED BY <1>1, <1>2 DEF OInv

(* A write of the rows that makes no job runnable whose parents were not   *)
(* done, by a step that leaves the queues and the open transaction alone.  *)
LEMMA WriteKeepsOrder ==
  ASSUME OInv, NEW new \in [Jobs -> States], Write(new),
         \A j \in Jobs : new[j] \notin {"wait_dependencies", "done"} =>
           state[j] \notin {"wait_dependencies", "done"} \/ Ready(j),
         mem' = mem, tx' = NoTx \/ (tx # NoTx /\ tx'.seen = tx.seen),
         \A w \in Workers : worker'[w].job # NoJob => Ready(worker'[w].job)
  PROVE  RowsReady' /\ QueuesReady' /\ ParentsFirst' /\ TxReady'
<1>1. state' = new /\ wasDone \subseteq wasDone'
      /\ \A j \in Jobs : new[j] = "done" => j \in wasDone'
  BY DEF Write
<1>2. RowsReady'
  BY <1>1 DEF OInv, RowsReady, Ready
<1>3. QueuesReady'
  BY <1>1 DEF OInv, QueuesReady, Ready
<1>4. ParentsFirst'
  BY <1>1 DEF ParentsFirst, Ready
<1>5. TxReady'
  BY <1>1 DEF OInv, TxReady
<1> QED BY <1>2, <1>3, <1>4, <1>5

(* Overtaken and Lost change neither who has a job in hand nor what a      *)
(* transaction has seen.                                                   *)
LEMMA SameJobs ==
  ASSUME TypeOK, NEW js
  PROVE  /\ \A w \in Workers : Overtaken(js)[w].job = worker[w].job
         /\ Lost(js) = NoTx \/ (tx # NoTx /\ Lost(js).seen = tx.seen)
<1>1. ASSUME NEW w \in Workers
      PROVE  Overtaken(js)[w].job = worker[w].job
  <2>1. worker[w] \in {Idle} \cup InHandOf
    BY DEF TypeOK
  <2>2. CASE worker[w] = Idle
    BY <2>2 DEF Overtaken, Idle
  <2>3. CASE worker[w] \in InHandOf
    BY <2>3 DEF Overtaken, InHandOf
  <2> QED BY <2>1, <2>2, <2>3
<1>2. CASE tx = NoTx
  BY <1>1, <1>2 DEF Lost
<1>3. CASE tx # NoTx
  <2>1. tx \in UserTx
    BY <1>3 DEF TypeOK
  <2> QED BY <1>1, <1>3, <2>1 DEF Lost, UserTx
<1> QED BY <1>2, <1>3

(* A transaction that sends a job back to the queue has seen its parents   *)
(* done.                                                                   *)
LEMMA PendingIsReady ==
  ASSUME NEW seen, \A p \in Jobs : seen[p] = "done" => p \in wasDone, NEW j \in Jobs
  PROVE  PendingState(seen, j) \notin {"wait_dependencies", "done"} => Ready(j)
BY JobRunnerAssumption DEF PendingState, Ready

LEMMA ReleasedAreReady ==
  ASSUME NEW i \in Jobs, NEW seen,
         \A p \in Jobs : seen[p] = "done" => p \in wasDone \/ p = i,
         NEW j \in Released(seen, i)
  PROVE  DependsOn[j] \subseteq wasDone \cup {i}
BY JobRunnerAssumption DEF Released

-----------------------------------------------------------------------------
(* The runner serves only jobs that are in its queues.                     *)
LEMMA RunnerOrder ==
  ASSUME OInv, RunnerStep
  PROVE  RowsReady' /\ QueuesReady' /\ ParentsFirst' /\ TxReady'
<1> USE DEF rowVars, runnerVars, httpVars, history
<1>1. TypeOK /\ mem \in Memory /\ NoEtas(mem) /\ Root \in Tree
  BY ChannelsAssumption DEF OInv, IInv, TypeOK, NoEtas, TreeOK
<1>2. ASSUME UNCHANGED <<state, wasDone, worker, tx>>,
             \A c \in Tree : \A j \in mem'.ready[c] : Ready(j)
      PROVE  RowsReady' /\ QueuesReady' /\ ParentsFirst' /\ TxReady'
  BY <1>2 DEF OInv, RowsReady, QueuesReady, ParentsFirst, TxReady, Ready
<1>3. CASE InitializeDatabases \/ RunJobs
  BY <1>2, <1>3 DEF InitializeDatabases, RunJobs, OInv, QueuesReady
<1>4. CASE LoadJobs
  <2>1. \A c \in Tree : \A j \in mem'.ready[c] : j \in Jobs /\ state[j] = "pending"
    BY <1>1, <1>4 DEF LoadJobs, Memory
  <2> QED BY <1>2, <1>4, <2>1 DEF LoadJobs, OInv, RowsReady
<1>5. ASSUME NEW c \in Tree, CanYield(mem, c, 0), mem' = Yield(mem, c, 0)
      PROVE  /\ \A d \in Tree : \A j \in mem'.ready[d] : Ready(j)
             /\ NextJob(mem, c, 0) \in Jobs /\ Ready(NextJob(mem, c, 0))
  <2> DEFINE k == NextJob(mem, c, 0)
  <2>1. /\ k \in Jobs /\ k \in mem.ready[c]
        /\ \A d \in Tree : mem'.ready[d] \subseteq
             IF c # Root /\ d = Parent[c] THEN mem.ready[d] \cup {k} ELSE mem.ready[d]
    BY <1>1, <1>5, YieldEffect
  <2> HIDE DEF k
  <2> QED BY <2>1 DEF OInv, QueuesReady, k
<1>6. ASSUME NEW c \in Tree, PullJob(c)
      PROVE  RowsReady' /\ QueuesReady' /\ ParentsFirst' /\ TxReady'
  BY <1>2, <1>5, <1>6 DEF PullJob
<1>7. ASSUME NEW c \in Tree, PassChannel(c)
      PROVE  RowsReady' /\ QueuesReady' /\ ParentsFirst' /\ TxReady'
  <2>1. mem'.ready = mem.ready
    BY <1>1, <1>7, GiveUpEffect DEF PassChannel
  <2> QED BY <1>2, <1>7, <2>1 DEF PassChannel, OInv, QueuesReady
<1>8. CASE SendJob
  <2> DEFINE j == NextJob(mem, Root, 0)
  <2>1. /\ Write([state EXCEPT ![j] = "enqueued"])
        /\ worker' = Overtaken({j}) /\ tx' = Lost({j})
    BY <1>8 DEF SendJob
  <2>2. /\ \A d \in Tree : \A k \in mem'.ready[d] : Ready(k)
        /\ j \in Jobs /\ Ready(j)
    BY <1>1, <1>5, <1>8 DEF SendJob
  <2> HIDE DEF j
  <2>3. state' = [state EXCEPT ![j] = "enqueued"] /\ wasDone \subseteq wasDone'
    BY <2>1 DEF Write
  <2>4. RowsReady'
    BY <1>1, <2>2, <2>3 DEF OInv, RowsReady, Ready, TypeOK
  <2>5. QueuesReady'
    BY <2>2, <2>3 DEF QueuesReady, Ready
  <2>6. ParentsFirst'
    BY <1>1, <2>1, <2>3, SameJobs DEF OInv, ParentsFirst
  <2>7. TxReady'
    BY <1>1, <2>1, <2>3, SameJobs DEF OInv, TxReady
  <2> QED BY <2>4, <2>5, <2>6, <2>7
<1>9. CASE WaitNotification
  <2>1. mem'.ready = mem.ready
    BY <1>1, <1>9, GiveUpEffect DEF WaitNotification
  <2> QED BY <1>2, <1>9, <2>1 DEF WaitNotification, OInv, QueuesReady
<1> QED BY <1>3, <1>4, <1>6, <1>7, <1>8, <1>9 DEF RunnerStep

(* A notification queues a job only when its row says pending.             *)
LEMMA NotificationOrder ==
  ASSUME OInv, NEW j \in Jobs, ProcessNotification(j)
  PROVE  RowsReady' /\ QueuesReady' /\ ParentsFirst' /\ TxReady'
<1>1. /\ UNCHANGED <<state, wasDone, worker, tx>> /\ Running
      /\ mem' = Notify(mem, j, state[j], 0)
  BY DEF ProcessNotification, rowVars, history, Running
<1>2. mem \in Memory /\ NoEtas(mem) /\ state[j] \in States
  BY DEF OInv, IInv, TypeOK, NoEtas
<1>3. \A c \in Tree : mem'.ready[c] \subseteq
        IF state[j] = "pending" THEN mem.ready[c] \cup {j} ELSE mem.ready[c]
  <2>1. state[j] \in Busy => \A c \in Up[ChannelOf[j]] : j \in mem.running[c]
    BY <1>1, ChannelsAssumption
    DEF OInv, IInv, RunnerKnowsBusy, BusyIsRunning, BusyUnder, TreeOK
  <2> QED BY <1>1, <1>2, <2>1, NotifyEffect
<1>4. QueuesReady'
  BY <1>1, <1>3 DEF OInv, QueuesReady, RowsReady, Ready
<1> QED BY <1>1, <1>4 DEF OInv, RowsReady, ParentsFirst, TxReady, Ready

(* What the requests, the users and the cron job write.                    *)
LEMMA RequestOrder ==
  ASSUME OInv, NEW j \in Jobs,
         \/ SetJobPending(j) \/ RequeueStuckJobs(j) \/ ButtonCancelled(j)
         \/ \E w \in Workers : TakeRequest(w, j)
  PROVE  RowsReady' /\ QueuesReady' /\ ParentsFirst' /\ TxReady'
<1> USE DEF rowVars, runnerVars, httpVars, history
<1>1. TypeOK /\ ParentsFirst /\ \A p \in Jobs : state[p] = "done" => p \in wasDone
  BY DEF OInv, IInv, RowsReady
<1>2. ASSUME NEW s \in States, s \notin {"wait_dependencies", "done"} => Ready(j),
             Write([state EXCEPT ![j] = s]), mem' = mem,
             worker' = Overtaken({j}), tx' = Lost({j})
      PROVE  RowsReady' /\ QueuesReady' /\ ParentsFirst' /\ TxReady'
  <2>1. [state EXCEPT ![j] = s] \in [Jobs -> States]
    BY <1>1 DEF TypeOK
  <2>2. \A k \in Jobs : [state EXCEPT ![j] = s][k] \notin {"wait_dependencies", "done"} =>
          state[k] \notin {"wait_dependencies", "done"} \/ Ready(k)
    BY <1>1, <1>2 DEF TypeOK
  <2>3. \A w \in Workers : worker'[w].job # NoJob => Ready(worker'[w].job)
    BY <1>1, <1>2, SameJobs DEF ParentsFirst, Ready
  <2>4. tx' = NoTx \/ (tx # NoTx /\ tx'.seen = tx.seen)
    BY <1>1, <1>2, SameJobs
  <2> QED BY <1>2, <2>1, <2>2, <2>3, <2>4, WriteKeepsOrder
<1>3. CASE SetJobPending(j)
  BY <1>2, <1>3 DEF SetJobPending, OInv, RowsReady, States
<1>4. CASE RequeueStuckJobs(j)
  <2>1. PendingState(state, j) \in States
    BY PendingStateType DEF States
  <2>2. PendingState(state, j) \notin {"wait_dependencies", "done"} => Ready(j)
    BY <1>1, PendingIsReady
  <2> QED BY <1>2, <1>4, <2>1, <2>2 DEF RequeueStuckJobs, Change
<1>5. CASE ButtonCancelled(j)
  BY <1>2, <1>5 DEF ButtonCancelled, Change, OInv, RowsReady, States
<1>6. ASSUME NEW w \in Workers, TakeRequest(w, j)
      PROVE  RowsReady' /\ QueuesReady' /\ ParentsFirst' /\ TxReady'
  <2>1. CASE state[j] # "enqueued"
    BY <1>6, <2>1 DEF TakeRequest, OInv, RowsReady, QueuesReady, ParentsFirst, TxReady, Ready
  <2>2. CASE state[j] = "enqueued"
    <3> DEFINE job == Started(j)
    <3>1. /\ Write([state EXCEPT ![j] = "started"]) /\ mem' = mem
          /\ worker' = [Overtaken({j}) EXCEPT ![w] = job] /\ tx' = Lost({j})
      BY <1>6, <2>2 DEF TakeRequest
    <3>2. Ready(j)
      BY <2>2 DEF OInv, RowsReady
    <3>3. job.job = j
      BY DEF Started
    <3> HIDE DEF job
    <3>4. \A v \in Workers : worker'[v].job # NoJob => Ready(worker'[v].job)
      <4>1. Overtaken({j}) \in [Workers -> {Idle} \cup InHandOf]
        BY <1>1, WriteType
      <4>2. \A v \in Workers : worker'[v].job = IF v = w THEN j ELSE worker[v].job
        BY <1>1, <3>1, <3>3, <4>1, SameJobs
      <4> QED BY <1>1, <3>2, <4>2 DEF ParentsFirst, Ready
    <3>5. tx' = NoTx \/ (tx # NoTx /\ tx'.seen = tx.seen)
      BY <1>1, <3>1, SameJobs
    <3> QED BY <1>1, <3>1, <3>2, <3>4, <3>5, WriteKeepsOrder DEF TypeOK, States
  <2> QED BY <2>1, <2>2
<1> QED BY <1>3, <1>4, <1>5, <1>6

(* The ends of a job, which a worker had in hand rightly.                  *)
LEMMA WorkerOrder ==
  ASSUME OInv, NEW w \in Workers, WorkerEnds(w)
  PROVE  RowsReady' /\ QueuesReady' /\ ParentsFirst' /\ TxReady'
<1> USE DEF rowVars, runnerVars, httpVars, history
<1> DEFINE j == worker[w].job
           released == [worker[w] EXCEPT !.step = "release", !.view = "none"]
<1>1. TypeOK /\ ParentsFirst /\ \A p \in Jobs : state[p] = "done" => p \in wasDone
  BY DEF OInv, IInv, RowsReady
<1>2. \A js \in SUBSET Jobs : Overtaken(js) \in [Workers -> {Idle} \cup InHandOf]
  BY <1>1, WriteType
<1>3. ASSUME NEW js \in SUBSET Jobs, NEW new \in [Jobs -> States], Write(new),
             \A k \in Jobs : new[k] \notin {"wait_dependencies", "done"} =>
               state[k] \notin {"wait_dependencies", "done"} \/ Ready(k),
             mem' = mem, tx' = Lost(js), NEW next,
             next.job = NoJob \/ next.job = j,
             worker' = [Overtaken(js) EXCEPT ![w] = next]
      PROVE  RowsReady' /\ QueuesReady' /\ ParentsFirst' /\ TxReady'
  <2>1. \A v \in Workers : worker'[v].job = IF v = w THEN next.job ELSE worker[v].job
    BY <1>1, <1>2, <1>3, SameJobs
  <2>2. \A v \in Workers : worker'[v].job # NoJob => Ready(worker'[v].job)
    BY <1>1, <1>3, <2>1 DEF ParentsFirst, Ready
  <2> QED BY <1>1, <1>3, <2>2, SameJobs, WriteKeepsOrder
<1>4. ASSUME Performs(w)
      PROVE  worker[w] \in InHandOf /\ j \in Jobs /\ Ready(j) /\ released.job = j
  <2>1. worker[w] \in InHandOf
    BY <1>1, <1>4 DEF TypeOK, Performs, Idle
  <2> QED BY <1>1, <2>1, JobRunnerAssumption DEF InHandOf, ParentsFirst, Ready
<1>5. ASSUME Performs(w), NEW s \in States, NEW next, next = Idle \/ next = released,
             Store(w, s, next)
      PROVE  RowsReady' /\ QueuesReady' /\ ParentsFirst' /\ TxReady'
  <2>1. j \in Jobs /\ Ready(j) /\ (next.job = NoJob \/ next.job = j)
    <3>1. Idle.job = NoJob
      BY DEF Idle
    <3> HIDE DEF released
    <3> QED BY <1>4, <1>5, <3>1
  <2>2. /\ Write([state EXCEPT ![j] = s]) /\ mem' = mem /\ tx' = Lost({j})
        /\ worker' = [Overtaken({j}) EXCEPT ![w] = next]
    BY <1>5 DEF Store
  <2>3. [state EXCEPT ![j] = s] \in [Jobs -> States]
    BY <1>1 DEF TypeOK
  <2>4. \A k \in Jobs : [state EXCEPT ![j] = s][k] \notin {"wait_dependencies", "done"} =>
          state[k] \notin {"wait_dependencies", "done"} \/ Ready(k)
    BY <1>1, <2>1 DEF TypeOK
  <2>5. {j} \in SUBSET Jobs
    BY <2>1
  <2> HIDE DEF j, released
  <2> QED BY <1>3, <2>1, <2>2, <2>3, <2>4, <2>5
<1>6. "done" \in States /\ "failed" \in States /\ worker[w].back \in States
  BY <1>1, BackType DEF States
<1>7. CASE PerformDone(w)
  BY <1>5, <1>6, <1>7 DEF PerformDone, RetryPostpone
<1>8. CASE PerformNothing(w)
  <2>1. CASE worker[w].view = "dirty"
    <3>1. \A v \in Workers : worker'[v].job # NoJob => worker'[v].job = worker[v].job
      BY <1>1, <1>8, <2>1 DEF PerformNothing, TypeOK, Idle
    <3>2. UNCHANGED <<state, wasDone, mem, tx>>
      BY <1>8, <2>1 DEF PerformNothing
    <3> QED BY <3>1, <3>2 DEF OInv, RowsReady, QueuesReady, ParentsFirst, TxReady, Ready
  <2>2. CASE worker[w].view # "dirty"
    BY <1>5, <1>6, <1>8, <2>2 DEF PerformNothing
  <2> QED BY <2>1, <2>2
<1>9. CASE PerformRetryable(w)
  BY <1>5, <1>6, <1>9 DEF PerformRetryable, RetryPostpone
<1>10. CASE PerformFails(w)
  BY <1>5, <1>6, <1>10 DEF PerformFails
<1>11. CASE PerformConflicts(w)
  BY <1>5, <1>6, <1>11 DEF PerformConflicts, RetryPostpone
<1>12. CASE EnqueueDependentJobs(w)
  <2> DEFINE js == Released(state, j)
  <2>1. js \in SUBSET Jobs
    BY DEF Released
  <2>2. \A k \in js : Ready(k)
    BY <1>1, JobRunnerAssumption DEF Released, Ready
  <2>3. /\ Write(SetPendingAll(state, js)) /\ mem' = mem /\ tx' = Lost(js)
        /\ worker' = [Overtaken(js) EXCEPT ![w] = Idle]
    BY <1>12 DEF EnqueueDependentJobs
  <2> HIDE DEF js
  <2>4. /\ SetPendingAll(state, js) \in [Jobs -> States]
        /\ \A k \in Jobs : SetPendingAll(state, js)[k] \notin {"wait_dependencies", "done"} =>
             state[k] \notin {"wait_dependencies", "done"} \/ Ready(k)
    BY <1>1, <2>2 DEF SetPendingAll, TypeOK, States
  <2>5. Idle.job = NoJob
    BY DEF Idle
  <2> QED BY <1>3, <2>1, <2>3, <2>4, <2>5
<1> QED BY <1>7, <1>8, <1>9, <1>10, <1>11, <1>12 DEF WorkerEnds

(* A user's transaction commits on what it saw at its beginning.           *)
LEMMA UserOrder ==
  ASSUME OInv,
         \/ \E j \in Jobs : BeginButtonDone(j) \/ BeginRequeue(j)
         \/ EndButtonDone \/ EndRequeue
  PROVE  RowsReady' /\ QueuesReady' /\ ParentsFirst' /\ TxReady'
<1> USE DEF rowVars, runnerVars, httpVars, history
<1>1. TypeOK /\ ParentsFirst /\ \A p \in Jobs : state[p] = "done" => p \in wasDone
  BY DEF OInv, IInv, RowsReady
<1>2. ASSUME NEW j \in Jobs, NEW op, Begin(op, j)
      PROVE  RowsReady' /\ QueuesReady' /\ ParentsFirst' /\ TxReady'
  BY <1>1, <1>2 DEF Begin, OInv, RowsReady, QueuesReady, ParentsFirst, TxReady, Ready
<1>3. ASSUME UNCHANGED <<state, wasDone, mem, worker>>, tx' = NoTx
      PROVE  RowsReady' /\ QueuesReady' /\ ParentsFirst' /\ TxReady'
  BY <1>3 DEF OInv, RowsReady, QueuesReady, ParentsFirst, TxReady, Ready
<1>4. ASSUME tx # NoTx
      PROVE  /\ tx \in UserTx /\ tx.job \in Jobs
             /\ \A p \in Jobs : tx.seen[p] = "done" => p \in wasDone
  BY <1>1, <1>4 DEF OInv, TxReady, TypeOK, UserTx
<1>5. CASE EndButtonDone
  <2> DEFINE j == tx.job
             seen == [tx.seen EXCEPT ![j] = "done"]
             js == {j} \cup Released(seen, j)
             new == SetPendingAll([state EXCEPT ![j] = "done"], js \ {j})
  <2>1. tx # NoTx
    BY <1>5 DEF EndButtonDone, NoTx
  <2>2. j \in Jobs /\ \A p \in Jobs : seen[p] = "done" => p \in wasDone \/ p = j
    BY <1>4, <2>1 DEF UserTx
  <2>3. js \in SUBSET Jobs /\ j \in js
    BY <2>2 DEF Released
  <2>4. \A k \in js \ {j} : DependsOn[k] \subseteq wasDone \cup {j}
    <3> HIDE DEF seen, j
    <3> QED BY <2>2, ReleasedAreReady
  <2>5. tx' = NoTx
    BY <1>5 DEF EndButtonDone
  <2> HIDE DEF j, seen, js
  <2>6. CASE Change(js, new)
    <3>1. state' = new /\ wasDone' = wasDone \cup {k \in Jobs : new[k] = "done"}
          /\ mem' = mem /\ worker' = Overtaken(js)
      BY <2>6 DEF Change, Write
    <3>2. /\ new[j] = "done" /\ \A k \in js \ {j} : new[k] = "pending"
          /\ \A k \in Jobs \ js : new[k] = state[k]
      BY <1>1, <2>2, <2>3 DEF SetPendingAll, TypeOK
    <3> HIDE DEF new
    <3>3. wasDone \cup {j} \subseteq wasDone'
      BY <2>2, <3>1, <3>2
    <3>4. RowsReady'
      <4> SUFFICES ASSUME NEW k \in Jobs
                   PROVE  /\ new[k] \notin {"wait_dependencies", "done"} => DependsOn[k] \subseteq wasDone'
                          /\ new[k] = "done" => k \in wasDone'
        BY <3>1 DEF RowsReady, Ready
      <4>1. CASE k \in js
        BY <2>4, <3>1, <3>2, <3>3, <4>1
      <4>2. CASE k \notin js
        BY <3>1, <3>2, <3>3, <4>2 DEF OInv, RowsReady, Ready
      <4> QED BY <4>1, <4>2
    <3>5. QueuesReady'
      BY <3>1 DEF OInv, QueuesReady, Ready
    <3>6. ParentsFirst'
      BY <1>1, <3>1, SameJobs DEF ParentsFirst
    <3> QED BY <2>5, <3>4, <3>5, <3>6 DEF TxReady
  <2>7. CASE UNCHANGED <<state, notes, runnerVars, httpVars, worker, history>>
    BY <1>3, <2>5, <2>7
  <2> QED BY <1>5, <2>6, <2>7 DEF EndButtonDone, j, seen, js
<1>6. CASE EndRequeue
  <2> DEFINE j == tx.job
  <2>1. tx # NoTx /\ tx' = NoTx
    BY <1>6 DEF EndRequeue, NoTx
  <2>2. j \in Jobs /\ (PendingState(tx.seen, j) \notin {"wait_dependencies", "done"} => Ready(j))
    BY <1>4, <2>1, PendingIsReady
  <2>3. CASE Change({j}, [state EXCEPT ![j] = PendingState(tx.seen, j)])
    <3> DEFINE new == [state EXCEPT ![j] = PendingState(tx.seen, j)]
    <3> HIDE DEF j
    <3>1. Write(new) /\ mem' = mem /\ worker' = Overtaken({j})
      BY <2>3 DEF Change
    <3>2. new \in [Jobs -> States]
      BY <1>1, PendingStateType DEF TypeOK, States
    <3>3. \A k \in Jobs : new[k] \notin {"wait_dependencies", "done"} =>
            state[k] \notin {"wait_dependencies", "done"} \/ Ready(k)
      BY <1>1, <2>2 DEF TypeOK
    <3>4. \A w \in Workers : worker'[w].job # NoJob => Ready(worker'[w].job)
      BY <1>1, <3>1, SameJobs DEF ParentsFirst, Ready
    <3> HIDE DEF new
    <3> QED BY <2>1, <3>1, <3>2, <3>3, <3>4, WriteKeepsOrder
  <2>4. CASE UNCHANGED <<rowVars, notes, runnerVars, httpVars, worker, history>>
    BY <1>3, <2>1, <2>4
  <2> QED BY <1>6, <2>3, <2>4 DEF EndRequeue
<1> QED BY <1>2, <1>5, <1>6 DEF BeginButtonDone, BeginRequeue

LEMMA OrderInductive == OInv /\ [Next]_vars => OInv'
<1> SUFFICES ASSUME OInv, [Next]_vars PROVE OInv'
  OBVIOUS
<1> USE DEF rowVars, runnerVars, httpVars, history
<1>1. IInv'
  BY Inductive DEF OInv
<1>2. TypeOK
  BY DEF OInv, IInv
<1>3. CASE RunnerStep
  BY <1>1, <1>3, RunnerOrder DEF OInv
<1>4. CASE RunnerFails
  BY <1>1, <1>4 DEF RunnerFails, EmptyMemory, OInv, RowsReady, QueuesReady, ParentsFirst,
     TxReady, Ready
<1>5. ASSUME NEW j \in Jobs,
             \/ ProcessNotification(j) \/ SetJobPending(j) \/ RequeueStuckJobs(j)
             \/ ButtonCancelled(j) \/ \E w \in Workers : TakeRequest(w, j)
      PROVE  OInv'
  BY <1>1, <1>5, NotificationOrder, RequestOrder DEF OInv
<1>6. ASSUME NEW j \in Jobs, LoseRequest(j) \/ ThreadEnds(j)
      PROVE  OInv'
  BY <1>1, <1>6 DEF LoseRequest, ThreadEnds, OInv, RowsReady, QueuesReady, ParentsFirst,
     TxReady, Ready
<1>7. CASE \/ \E j \in Jobs : BeginButtonDone(j) \/ BeginRequeue(j)
           \/ EndButtonDone \/ EndRequeue
  BY <1>1, <1>7, UserOrder DEF OInv
<1>8. ASSUME NEW w \in Workers, BeginTransaction(w) \/ WorkerDies(w)
      PROVE  OInv'
  <2>1. \A v \in Workers : worker'[v].job # NoJob => worker'[v].job = worker[v].job
    <3>1. CASE BeginTransaction(w)
      <4>1. worker[w] \in InHandOf
        BY <1>2, <3>1 DEF BeginTransaction, Performs, TypeOK, Idle
      <4> QED BY <1>2, <3>1, <4>1 DEF BeginTransaction, TypeOK, InHandOf
    <3>2. CASE WorkerDies(w)
      BY <1>2, <3>2 DEF WorkerDies, TypeOK, Idle
    <3> QED BY <1>8, <3>1, <3>2
  <2>2. UNCHANGED <<state, wasDone, mem, tx>>
    BY <1>8 DEF BeginTransaction, WorkerDies
  <2> QED BY <1>1, <2>1, <2>2 DEF OInv, RowsReady, QueuesReady, ParentsFirst, TxReady, Ready
<1>9. ASSUME NEW w \in Workers, WorkerEnds(w)
      PROVE  OInv'
  BY <1>1, <1>9, WorkerOrder DEF OInv
<1>10. CASE UNCHANGED vars
  BY <1>1, <1>10 DEF vars, OInv, RowsReady, QueuesReady, ParentsFirst, TxReady, Ready
<1> QED BY <1>3, <1>4, <1>5, <1>6, <1>7, <1>8, <1>9, <1>10 DEF Next

(* A worker has a job in hand only after each job it depends on was done.  *)
THEOREM DependenciesFirst == Spec => []ParentsFirst
<1>1. OInv => ParentsFirst
  BY DEF OInv
<1> QED BY <1>1, OrderInit, OrderInductive, PTL DEF Spec

-----------------------------------------------------------------------------
(* Two workers.  A job that waits in a queue is marked running neither     *)
(* there nor further up, so it waits in one queue only; its row is neither *)
(* enqueued nor started, and no worker has it unless a user interfered.    *)

Apart(m) == \A c \in Tree : \A j \in m.ready[c] : \A a \in Up[c] : j \notin m.running[a]
OnPath(m) ==
  \A c \in Tree : \A j \in m.ready[c] :
    /\ c \in Up[ChannelOf[j]]
    /\ \A b \in Up[ChannelOf[j]] : b # c /\ c \in Up[b] => j \in m.running[b]
Queued(m) == UNION {m.ready[c] : c \in Tree}

QueuedFree ==
  \A j \in Queued(mem) : state[j] \notin Busy /\ (InHand(j) => j \in meddled)

(* The row of a job in hand is as its worker left it, users aside.         *)
HandAgrees(w) ==
  state[worker[w].job] = (IF worker[w].step = "perform" THEN "started" ELSE "done")
HandRow ==
  \A w \in Workers : worker[w].job \notin meddled \cup {NoJob} => HandAgrees(w)

WInv == IInv /\ Apart(mem) /\ QueuedFree /\ HandRow /\ OneWorker

LEMMA OneQueue ==
  ASSUME NEW m \in Memory, Apart(m), OnPath(m),
         NEW c \in Tree, NEW d \in Tree, NEW j \in m.ready[c], j \in m.ready[d]
  PROVE  c = d
<1>1. j \in Jobs /\ ChannelOf[j] \in Tree
  BY ChannelsAssumption DEF Memory, JobSets
<1>2. c \in Up[ChannelOf[j]] /\ d \in Up[ChannelOf[j]]
  BY DEF OnPath
<1>3. c \in Up[d] \/ d \in Up[c]
  BY <1>1, <1>2, ChannelsAssumption DEF TreeOK
<1>4. c \in Up[c] /\ d \in Up[d]
  BY ChannelsAssumption DEF TreeOK
<1> QED BY <1>2, <1>3, <1>4 DEF Apart, OnPath

(* A turn of the loop keeps the queues apart from the marks; a job the     *)
(* root channel yields is in no queue any more.                            *)
LEMMA YieldApart ==
  ASSUME NEW m \in Memory, NoEtas(m), Apart(m), OnPath(m), NEW c \in Tree, CanYield(m, c, 0)
  PROVE  LET j == NextJob(m, c, 0)
             n == Yield(m, c, 0)
         IN  /\ Apart(n) /\ j \in Queued(m)
             /\ Queued(n) \subseteq Queued(m)
             /\ c = Root => j \notin Queued(n)
<1> DEFINE j == NextJob(m, c, 0)
           n == Yield(m, c, 0)
<1>1. /\ j \in Jobs /\ j \in m.ready[c] /\ j \notin n.ready[c]
      /\ n.running = [m.running EXCEPT ![c] = @ \cup {j}]
      /\ \A d \in Tree : n.ready[d] \subseteq
           IF c # Root /\ d = Parent[c] THEN m.ready[d] \cup {j} ELSE m.ready[d]
  BY YieldEffect
<1> HIDE DEF j, n
<1>2. \A a \in Tree : n.running[a] \subseteq m.running[a] \cup (IF a = c THEN {j} ELSE {})
  BY <1>1 DEF Memory, JobSets
<1>3. \A d \in Tree : j \in m.ready[d] => d = c
  BY <1>1, OneQueue
<1>4. \A d \in Tree : Up[d] \subseteq Tree
  BY ChannelsAssumption DEF TreeOK
<1>5. ASSUME NEW d \in Tree, j \in n.ready[d]
      PROVE  c # Root /\ d = Parent[c]
  BY <1>1, <1>3, <1>5
<1>6. Apart(n)
  <2> SUFFICES ASSUME NEW d \in Tree, NEW k \in n.ready[d], NEW a \in Up[d]
               PROVE  k \notin n.running[a]
    BY DEF Apart
  <2>1. CASE k # j
    <3>1. k \in m.ready[d]
      BY <1>1, <2>1
    <3>2. k \notin m.running[a]
      BY <3>1 DEF Apart
    <3> QED BY <1>2, <1>4, <2>1, <3>2
  <2>2. CASE k = j
    <3>1. c # Root /\ d = Parent[c]
      BY <1>5, <2>2
    <3>2. a \in Up[c] /\ d \in Up[c] /\ d # c /\ c \in Up[c]
      BY <3>1, ChannelsAssumption DEF TreeOK
    <3>3. a # c
      BY <3>2, ChannelsAssumption DEF TreeOK
    <3>4. j \notin m.running[a]
      BY <1>1, <3>2 DEF Apart
    <3> QED BY <1>2, <1>4, <2>2, <3>3, <3>4
  <2> QED BY <2>1, <2>2
<1>7. Queued(n) \subseteq Queued(m)
  <2> SUFFICES ASSUME NEW d \in Tree, NEW k \in n.ready[d] PROVE k \in Queued(m)
    BY DEF Queued
  <2>1. k \in m.ready[d] \/ k = j
    BY <1>1
  <2> QED BY <1>1, <2>1 DEF Queued
<1>8. c = Root => j \notin Queued(n)
  BY <1>5 DEF Queued
<1>9. j \in Queued(m)
  BY <1>1 DEF Queued
<1> QED BY <1>6, <1>7, <1>8, <1>9 DEF j, n

LEMMA NotifyApart ==
  ASSUME NEW m \in Memory, NoEtas(m), Apart(m), NEW j \in Jobs, NEW s \in States,
         s \in Busy => \A c \in Up[ChannelOf[j]] : j \in m.running[c]
  PROVE  LET n == Notify(m, j, s, 0)
         IN  /\ Apart(n)
             /\ Queued(n) \subseteq IF s = "pending" THEN Queued(m) \cup {j} ELSE Queued(m)
<1> DEFINE n == Notify(m, j, s, 0)
           path == Up[ChannelOf[j]]
<1>1. CASE n = m
  BY <1>1
<1>2. CASE /\ n.running = Without(m.running, j, path)
           /\ \A c \in Tree : n.ready[c] \subseteq
                IF s = "pending" /\ c = ChannelOf[j] THEN m.ready[c] \cup {j}
                ELSE IF c \in path THEN m.ready[c] \ {j}
                ELSE m.ready[c]
  <2>1. \A a \in Tree : n.running[a] = IF a \in path THEN m.running[a] \ {j} ELSE m.running[a]
    BY <1>2 DEF Without
  <2> HIDE DEF n
  <2>2. \A c \in Tree : Up[c] \subseteq Tree
    BY ChannelsAssumption DEF TreeOK
  <2>3. Apart(n)
    <3> SUFFICES ASSUME NEW c \in Tree, NEW k \in n.ready[c], NEW a \in Up[c]
                 PROVE  k \notin n.running[a]
      BY DEF Apart
    <3>1. CASE k # j
      <4>1. k \in m.ready[c]
        BY <1>2, <3>1
      <4>2. k \notin m.running[a]
        BY <4>1 DEF Apart
      <4> QED BY <2>1, <2>2, <4>2
    <3>2. CASE k = j
      <4>1. CASE k \in m.ready[c]
        <5>1. k \notin m.running[a]
          BY <4>1 DEF Apart
        <5> QED BY <2>1, <2>2, <5>1
      <4>2. CASE k \notin m.ready[c]
        <5>1. c = ChannelOf[j]
          BY <1>2, <3>2, <4>2
        <5> QED BY <2>1, <2>2, <3>2, <5>1
      <4> QED BY <4>1, <4>2
    <3> QED BY <3>1, <3>2
  <2>4. ASSUME NEW c \in Tree, NEW k \in n.ready[c]
        PROVE  k \in m.ready[c] \/ (s = "pending" /\ k = j)
    BY <1>2
  <2>5. Queued(n) \subseteq IF s = "pending" THEN Queued(m) \cup {j} ELSE Queued(m)
    BY <2>4 DEF Queued
  <2> QED BY <2>3, <2>5 DEF n
<1> QED BY <1>1, <1>2, NotifyEffect

LEMMA HandsInit == Init => WInv
<1> SUFFICES ASSUME Init PROVE WInv
  OBVIOUS
<1>1. IInv
  BY TypeInit, InvInit DEF IInv
<1>2. Apart(mem) /\ Queued(mem) = {}
  BY DEF Init, EmptyMemory, Apart, Queued
<1>3. \A w \in Workers : worker[w].job = NoJob
  BY DEF Init, Idle
<1> QED BY <1>1, <1>2, <1>3 DEF WInv, QueuedFree, HandRow, OneWorker

(* The steps of the runner that write no row.                              *)
LEMMA MemoryHands ==
  ASSUME WInv, IInv', Apart(mem'), UNCHANGED <<state, worker, meddled>>,
         \A j \in Queued(mem') : j \in Queued(mem) \/ (j \in Jobs /\ state[j] = "pending")
  PROVE  WInv'
<1>1. HandRow' /\ OneWorker'
  BY DEF WInv, HandRow, HandAgrees, OneWorker
<1>2. ASSUME NEW j \in Queued(mem')
      PROVE  state[j] \notin Busy /\ (InHand(j) => j \in meddled)
  <2>1. CASE j \in Queued(mem)
    BY <2>1 DEF WInv, QueuedFree
  <2>2. CASE j \in Jobs /\ state[j] = "pending"
    BY <2>2, JobRunnerAssumption DEF WInv, HandRow, HandAgrees, InHand, Busy
  <2> QED BY <1>2, <2>1, <2>2
<1>3. QueuedFree'
  BY <1>2 DEF QueuedFree, InHand
<1> QED BY <1>1, <1>3 DEF WInv

(* The steps that leave the memory alone and write the rows js: none of    *)
(* them becomes busy, and whoever still has a job in hand had it before.   *)
HandKept(w, js) ==
  /\ worker'[w].job = worker[w].job
  /\ \/ worker'[w].job \in meddled'
     \/ worker'[w].step = worker[w].step /\ worker'[w].job \notin js
     \/ HandAgrees(w)'

LEMMA RowsHands ==
  ASSUME WInv, IInv', mem' = mem, meddled \subseteq meddled', NEW js,
         \A k \in Jobs \ js : state'[k] = state[k],
         \A k \in js : state'[k] \notin Busy,
         \A w \in Workers : worker'[w].job = NoJob \/ HandKept(w, js)
  PROVE  WInv'
<1>1. \A w \in Workers : worker[w].job \in Jobs \cup {NoJob}
  BY DEF WInv, IInv, TypeOK, InHandOf, Idle
<1>2. ASSUME NEW w \in Workers, worker'[w].job \notin meddled' \cup {NoJob}
      PROVE  HandAgrees(w)'
  <2>1. CASE HandAgrees(w)'
    BY <2>1
  <2>2. CASE worker'[w].step = worker[w].step /\ worker'[w].job \notin js
    <3>1. worker'[w].job = worker[w].job /\ worker[w].job \in Jobs \ js
      BY <1>1, <1>2, <2>2 DEF HandKept
    <3>2. HandAgrees(w)
      BY <1>2, <3>1 DEF WInv, HandRow
    <3> QED BY <2>2, <3>1, <3>2 DEF HandAgrees
  <2> QED BY <1>2, <2>1, <2>2 DEF HandKept
<1>3. HandRow'
  BY <1>2 DEF HandRow
<1>4. OneWorker'
  BY DEF WInv, OneWorker, HandKept
<1>5. QueuedFree'
  <2> SUFFICES ASSUME NEW j \in Queued(mem)
               PROVE  state'[j] \notin Busy /\ (InHand(j)' => j \in meddled')
    BY DEF QueuedFree
  <2>1. j \in Jobs /\ state[j] \notin Busy /\ (InHand(j) => j \in meddled)
    BY DEF WInv, IInv, TypeOK, QueuedFree, Queued, Memory, JobSets
  <2>2. InHand(j)' => InHand(j)
    BY <2>1, JobRunnerAssumption DEF InHand, HandKept
  <2> QED BY <2>1, <2>2
<1> QED BY <1>3, <1>4, <1>5 DEF WInv

LEMMA SameHands ==
  ASSUME TypeOK, NEW js, NEW w \in Workers
  PROVE  Overtaken(js)[w].job = worker[w].job /\ Overtaken(js)[w].step = worker[w].step
<1>1. worker[w] \in {Idle} \cup InHandOf
  BY DEF TypeOK
<1>2. CASE worker[w] = Idle
  BY <1>2 DEF Overtaken, Idle
<1>3. CASE worker[w] \in InHandOf
  BY <1>3 DEF Overtaken, InHandOf
<1> QED BY <1>1, <1>2, <1>3

(* A write by somebody who has no job in hand: either it counts as         *)
(* meddling, or no worker has one of these jobs in hand.                   *)
LEMMA OutsideHands ==
  ASSUME WInv, IInv', mem' = mem, meddled \subseteq meddled', NEW js, worker' = Overtaken(js),
         \A k \in Jobs \ js : state'[k] = state[k],
         \A k \in js : state'[k] \notin Busy /\ (InHand(k) => k \in meddled')
  PROVE  WInv'
<1>1. ASSUME NEW w \in Workers
      PROVE  HandKept(w, js)
  <2>1. worker'[w].job = worker[w].job /\ worker'[w].step = worker[w].step
    BY SameHands DEF WInv, IInv
  <2> QED BY <2>1 DEF HandKept, InHand
<1> QED BY <1>1, RowsHands

LEMMA NotInHand ==
  ASSUME WInv, NEW j \in Jobs, state[j] \notin {"started", "done"}
  PROVE  InHand(j) => j \in meddled
BY JobRunnerAssumption DEF WInv, HandRow, HandAgrees, InHand

(* What the runner does to the queues without writing a row: a job that    *)
(* gets into one has a row that is pending.                                *)
LEMMA RunnerQueues ==
  ASSUME WInv, RunnerStep \/ RunnerFails \/ \E j \in Jobs : ProcessNotification(j), ~SendJob
  PROVE  /\ UNCHANGED <<state, worker, meddled, wasDone, tx>> /\ Apart(mem')
         /\ \A j \in Queued(mem') : j \in Queued(mem) \/ (j \in Jobs /\ state[j] = "pending")
<1> USE DEF rowVars, runnerVars, httpVars, history
<1> DEFINE Kept == UNCHANGED <<state, worker, meddled, wasDone, tx>>
           Fine == /\ Apart(mem')
                   /\ \A j \in Queued(mem') :
                        j \in Queued(mem) \/ (j \in Jobs /\ state[j] = "pending")
<1>1. /\ TypeOK /\ mem \in Memory /\ NoEtas(mem) /\ Apart(mem) /\ OnPath(mem)
      /\ Root \in Tree
  BY ChannelsAssumption
  DEF WInv, IInv, TypeOK, NoEtas, TreeOK, RunnerKnowsBusy, QueuedOnItsPath, OnPath
<1>2. ASSUME InitializeDatabases \/ RunJobs
      PROVE  Kept /\ Fine
  BY <1>1, <1>2 DEF InitializeDatabases, RunJobs
<1>3. ASSUME LoadJobs
      PROVE  Kept /\ Fine
  <2>1. /\ \A c \in Tree : mem'.ready[c] = {j \in Jobs : state[j] = "pending" /\ c = ChannelOf[j]}
        /\ \A c \in Tree : mem'.running[c] = {j \in Jobs : state[j] \in Busy /\ c \in Up[ChannelOf[j]]}
        /\ Kept
    BY <1>1, <1>3 DEF LoadJobs, Memory
  <2>2. \A c \in Tree : Up[c] \subseteq Tree
    BY ChannelsAssumption DEF TreeOK
  <2>3. Apart(mem')
    BY <2>1, <2>2 DEF Apart, Busy
  <2>4. \A j \in Queued(mem') : j \in Jobs /\ state[j] = "pending"
    BY <2>1 DEF Queued
  <2> QED BY <2>1, <2>3, <2>4
<1>4. ASSUME NEW c \in Tree, PullJob(c)
      PROVE  Kept /\ Fine
  <2>1. Apart(mem') /\ Queued(mem') \subseteq Queued(mem)
    BY <1>1, <1>4, YieldApart DEF PullJob
  <2>2. Kept
    BY <1>4 DEF PullJob
  <2> QED BY <2>1, <2>2
<1>5. ASSUME NEW c \in Tree, mem' = GiveUp(mem, c, 0)
      PROVE  Fine
  <2>1. mem'.ready = mem.ready /\ mem'.running = mem.running
    BY <1>1, <1>5, GiveUpEffect
  <2> QED BY <1>1, <2>1 DEF Apart, Queued
<1>6. ASSUME NEW c \in Tree, PassChannel(c)
      PROVE  Kept /\ Fine
  BY <1>5, <1>6 DEF PassChannel
<1>7. ASSUME WaitNotification
      PROVE  Kept /\ Fine
  BY <1>1, <1>5, <1>7 DEF WaitNotification
<1>8. ASSUME RunnerFails
      PROVE  Kept /\ Fine
  BY <1>8 DEF RunnerFails, EmptyMemory, Apart, Queued
<1>9. ASSUME NEW j \in Jobs, ProcessNotification(j)
      PROVE  Kept /\ Fine
  <2>1. /\ Kept /\ Running
        /\ mem' = Notify(mem, j, state[j], 0) /\ state[j] \in States
    BY <1>1, <1>9 DEF ProcessNotification, Running, TypeOK
  <2>2. state[j] \in Busy => \A c \in Up[ChannelOf[j]] : j \in mem.running[c]
    BY <2>1, ChannelsAssumption
    DEF WInv, IInv, RunnerKnowsBusy, BusyIsRunning, BusyUnder, TreeOK
  <2>3. /\ Apart(mem')
        /\ Queued(mem') \subseteq IF state[j] = "pending" THEN Queued(mem) \cup {j} ELSE Queued(mem)
    BY <1>1, <2>1, <2>2, NotifyApart
  <2> QED BY <2>1, <2>3
<1> HIDE DEF Kept, Fine
<1>10. Kept /\ Fine
  BY <1>2, <1>3, <1>4, <1>6, <1>7, <1>8, <1>9 DEF RunnerStep
<1> QED BY <1>10 DEF Kept, Fine

LEMMA SendQueues ==
  ASSUME WInv, SendJob
  PROVE  LET j == NextJob(mem, Root, 0)
         IN  /\ Apart(mem') /\ j \in Jobs /\ j \in Queued(mem)
             /\ Queued(mem') \subseteq Queued(mem) \ {j}
<1>1. mem \in Memory /\ NoEtas(mem) /\ Apart(mem) /\ OnPath(mem) /\ Root \in Tree
  BY ChannelsAssumption
  DEF WInv, IInv, TypeOK, NoEtas, TreeOK, RunnerKnowsBusy, QueuedOnItsPath, OnPath
<1>2. CanYield(mem, Root, 0) /\ mem' = Yield(mem, Root, 0)
  BY DEF SendJob
<1>3. /\ Apart(mem') /\ NextJob(mem, Root, 0) \in Jobs
      /\ NextJob(mem, Root, 0) \in Queued(mem) /\ Queued(mem') \subseteq Queued(mem)
      /\ NextJob(mem, Root, 0) \notin Queued(mem')
  BY <1>1, <1>2, YieldApart, YieldEffect
<1> QED BY <1>3

LEMMA RunnerHands ==
  ASSUME WInv, IInv',
         RunnerStep \/ RunnerFails \/ \E j \in Jobs : ProcessNotification(j)
  PROVE  WInv'
<1> USE DEF rowVars, runnerVars, httpVars, history
<1>1. TypeOK /\ mem \in Memory
  BY DEF WInv, IInv, TypeOK
<1>2. CASE ~SendJob
  BY <1>2, RunnerQueues, MemoryHands
<1>3. CASE SendJob
  <2> DEFINE j == NextJob(mem, Root, 0)
  <2>1. /\ Apart(mem') /\ j \in Queued(mem) /\ Queued(mem') \subseteq Queued(mem) \ {j}
    BY <1>3, SendQueues
  <2>2. /\ state' = [state EXCEPT ![j] = "enqueued"] /\ worker' = Overtaken({j})
        /\ meddled' = meddled
    BY <1>3 DEF SendJob, Write
  <2> HIDE DEF j
  <2>3. InHand(j) => j \in meddled
    BY <2>1 DEF WInv, QueuedFree
  <2>4. \A w \in Workers : worker'[w].job = worker[w].job /\ worker'[w].step = worker[w].step
    BY <1>1, <2>2, SameHands
  <2>5. \A k \in Jobs \ {j} : state'[k] = state[k]
    BY <1>1, <2>2 DEF TypeOK
  <2>6. \A w \in Workers : worker[w].job \in Jobs \cup {NoJob}
    BY <1>1 DEF TypeOK, InHandOf, Idle
  <2>7. HandRow'
    BY <2>2, <2>3, <2>4, <2>5, <2>6 DEF WInv, HandRow, HandAgrees, InHand
  <2>8. OneWorker'
    BY <2>2, <2>4 DEF WInv, OneWorker
  <2>9. QueuedFree'
    <3> SUFFICES ASSUME NEW k \in Queued(mem')
                 PROVE  state'[k] \notin Busy /\ (InHand(k)' => k \in meddled)
      BY <2>2 DEF QueuedFree
    <3>1. k \in Queued(mem) /\ k # j /\ k \in Jobs
      BY <1>1, <2>1 DEF Queued, Memory, JobSets
    <3> QED BY <2>4, <2>5, <3>1 DEF WInv, QueuedFree, InHand
  <2> QED BY <2>1, <2>7, <2>8, <2>9 DEF WInv
<1> QED BY <1>2, <1>3

LEMMA RequestHands ==
  ASSUME WInv, IInv', NEW j \in Jobs,
         \/ SetJobPending(j) \/ RequeueStuckJobs(j) \/ ButtonCancelled(j)
         \/ \E w \in Workers : TakeRequest(w, j)
  PROVE  WInv'
<1> USE DEF rowVars, runnerVars, httpVars, history
<1>1. TypeOK
  BY DEF WInv, IInv
<1>2. ASSUME NEW s, s \notin Busy, state' = [state EXCEPT ![j] = s],
             worker' = Overtaken({j}), mem' = mem, meddled \subseteq meddled',
             InHand(j) => j \in meddled'
      PROVE  WInv'
  <2>1. /\ \A k \in Jobs \ {j} : state'[k] = state[k]
        /\ \A k \in {j} : state'[k] \notin Busy /\ (InHand(k) => k \in meddled')
    BY <1>1, <1>2 DEF TypeOK
  <2> QED BY <1>2, <2>1, OutsideHands
<1>3. PendingState(state, j) \notin Busy
  BY DEF PendingState, Busy
<1>4. CASE SetJobPending(j)
  <2>1. InHand(j) => j \in meddled
    BY <1>4, NotInHand DEF SetJobPending
  <2> QED BY <1>2, <1>4, <2>1 DEF SetJobPending, Write, Busy
<1>5. CASE RequeueStuckJobs(j)
  BY <1>2, <1>3, <1>5 DEF RequeueStuckJobs, Change, Write
<1>6. CASE ButtonCancelled(j)
  BY <1>2, <1>6 DEF ButtonCancelled, Change, Write, Busy
<1>7. ASSUME NEW w \in Workers, TakeRequest(w, j)
      PROVE  WInv'
  <2>1. CASE state[j] # "enqueued"
    <3>1. UNCHANGED <<state, mem, worker, meddled>>
      BY <1>7, <2>1 DEF TakeRequest
    <3> QED BY <3>1, MemoryHands DEF WInv
  <2>2. CASE state[j] = "enqueued"
    <3>1. /\ state' = [state EXCEPT ![j] = "started"] /\ mem' = mem /\ meddled' = meddled
          /\ worker' = [Overtaken({j}) EXCEPT ![w] = Started(j)]
      BY <1>7, <2>2 DEF TakeRequest, Write
    <3>2. InHand(j) => j \in meddled
      BY <2>2, NotInHand
    <3>3. j \notin Queued(mem)
      BY <2>2 DEF WInv, QueuedFree, Busy
    <3>4. Overtaken({j}) \in [Workers -> {Idle} \cup InHandOf]
      BY <1>1, WriteType
    <3>5. /\ worker'[w].job = j /\ worker'[w].step = "perform"
          /\ \A v \in Workers \ {w} :
               worker'[v].job = worker[v].job /\ worker'[v].step = worker[v].step
      BY <1>1, <3>1, <3>4, SameHands DEF Started
    <3>6. state'[j] = "started" /\ \A k \in Jobs \ {j} : state'[k] = state[k]
      BY <1>1, <3>1 DEF TypeOK
    <3>7. \A v \in Workers : worker[v].job \in Jobs \cup {NoJob}
      BY <1>1 DEF TypeOK, InHandOf, Idle
    <3>8. HandRow'
      <4> SUFFICES ASSUME NEW v \in Workers, worker'[v].job \notin meddled \cup {NoJob}
                   PROVE  HandAgrees(v)'
        BY <3>1 DEF HandRow
      <4>1. CASE v = w
        BY <3>5, <3>6, <4>1 DEF HandAgrees
      <4>2. CASE v # w
        <5>1. worker'[v].job = worker[v].job /\ worker'[v].step = worker[v].step
          BY <3>5, <4>2
        <5>2. worker[v].job \in Jobs \ {j}
          BY <3>2, <3>7, <5>1 DEF InHand
        <5>3. HandAgrees(v)
          BY <5>1 DEF WInv, HandRow
        <5> QED BY <3>6, <5>1, <5>2, <5>3 DEF HandAgrees
      <4> QED BY <4>1, <4>2
    <3>9. OneWorker'
      <4> SUFFICES ASSUME NEW u \in Workers, NEW v \in Workers, u # v,
                          worker'[u].job = worker'[v].job, worker'[u].job # NoJob
                   PROVE  worker'[u].job \in meddled
        BY <3>1 DEF OneWorker
      <4>1. CASE u = w \/ v = w
        <5>1. worker'[u].job = j /\ InHand(j)
          BY <3>5, <4>1 DEF InHand
        <5> QED BY <3>2, <5>1
      <4>2. CASE u # w /\ v # w
        BY <3>5, <4>2 DEF WInv, OneWorker
      <4> QED BY <4>1, <4>2
    <3>10. QueuedFree'
      <4> SUFFICES ASSUME NEW k \in Queued(mem)
                   PROVE  state'[k] \notin Busy /\ (InHand(k)' => k \in meddled)
        BY <3>1 DEF QueuedFree
      <4>1. k # j /\ k \in Jobs
        BY <1>1, <3>3 DEF Queued, TypeOK, Memory, JobSets
      <4> QED BY <3>5, <3>6, <4>1 DEF WInv, QueuedFree, InHand
    <3> QED BY <3>1, <3>8, <3>9, <3>10 DEF WInv
  <2> QED BY <2>1, <2>2
<1> QED BY <1>4, <1>5, <1>6, <1>7

(* The ends of a job.  Another worker that has the same one in hand has it *)
(* because a user interfered.                                              *)
LEMMA WorkerHands ==
  ASSUME WInv, IInv', NEW w \in Workers, WorkerEnds(w)
  PROVE  WInv'
<1> USE DEF rowVars, runnerVars, httpVars, history
<1> DEFINE j == worker[w].job
           released == [worker[w] EXCEPT !.step = "release", !.view = "none"]
<1>1. TypeOK
  BY DEF WInv, IInv
<1>2. \A js : \A v \in Workers :
        Overtaken(js)[v].job = worker[v].job /\ Overtaken(js)[v].step = worker[v].step
  BY <1>1, SameHands
<1>3. \A js \in SUBSET Jobs : Overtaken(js) \in [Workers -> {Idle} \cup InHandOf]
  BY <1>1, WriteType
<1>4. Idle.job = NoJob
  BY DEF Idle
<1>5. ASSUME worker[w].step \in {"perform", "release"}
      PROVE  j \in Jobs /\ j # NoJob /\ released.job = j /\ released.step = "release"
  BY <1>1, <1>5, JobRunnerAssumption DEF TypeOK, Idle, InHandOf
<1>6. ASSUME Performs(w), NEW s, s \notin Busy, NEW next,
             next = Idle \/ (next = released /\ s = "done"), Store(w, s, next)
      PROVE  WInv'
  <2>1. /\ state' = [state EXCEPT ![j] = s] /\ mem' = mem /\ meddled' = meddled
        /\ worker' = [Overtaken({j}) EXCEPT ![w] = next]
    BY <1>6 DEF Store, Write
  <2>2. j \in Jobs /\ j # NoJob /\ released.job = j /\ released.step = "release"
    BY <1>5, <1>6 DEF Performs
  <2> HIDE DEF j, released
  <2>3. /\ worker'[w] = next
        /\ \A v \in Workers \ {w} :
             worker'[v].job = worker[v].job /\ worker'[v].step = worker[v].step
    BY <1>2, <1>3, <2>1, <2>2
  <2>4. state'[j] = s /\ \A k \in Jobs \ {j} : state'[k] = state[k]
    BY <1>1, <2>1, <2>2 DEF TypeOK
  <2>5. ASSUME NEW v \in Workers
        PROVE  worker'[v].job = NoJob \/ HandKept(v, {j})
    <3>1. CASE v = w
      <4>1. CASE next = Idle
        BY <1>4, <2>3, <3>1, <4>1
      <4>2. CASE next = released /\ s = "done"
        <5>1. HandAgrees(w)'
          BY <2>2, <2>3, <2>4, <4>2 DEF HandAgrees
        <5> QED BY <2>2, <2>3, <3>1, <4>2, <5>1 DEF HandKept, j
      <4> QED BY <1>6, <4>1, <4>2 DEF j, released
    <3>2. CASE v # w
      <4>1. worker[v].job = j => j \in meddled
        BY <2>2, <3>2 DEF WInv, OneWorker, j
      <4>2. worker'[v].job = worker[v].job /\ worker'[v].step = worker[v].step
        BY <2>3, <3>2
      <4>3. CASE worker[v].job = j
        BY <2>1, <4>1, <4>2, <4>3 DEF HandKept
      <4>4. CASE worker[v].job # j
        BY <4>2, <4>4 DEF HandKept
      <4> QED BY <4>3, <4>4
    <3> QED BY <3>1, <3>2
  <2>6. \A k \in {j} : state'[k] \notin Busy
    BY <1>6, <2>4
  <2> QED BY <2>1, <2>4, <2>5, <2>6, RowsHands
<1>7. /\ "done" \notin Busy /\ "failed" \notin Busy
      /\ worker[w].back \notin Busy
  BY <1>1, BackType DEF Busy
<1>8. ASSUME Performs(w), RetryPostpone(w)
      PROVE  WInv'
  BY <1>6, <1>7, <1>8 DEF RetryPostpone
<1>9. CASE PerformDone(w)
  BY <1>6, <1>7, <1>8, <1>9 DEF PerformDone
<1>10. CASE PerformNothing(w)
  <2>1. CASE worker[w].view = "dirty"
    <3>1. /\ worker' = [worker EXCEPT ![w] = Idle]
          /\ UNCHANGED <<state, mem, meddled>>
      BY <1>10, <2>1 DEF PerformNothing
    <3>2. \A v \in Workers : worker'[v].job = NoJob \/ HandKept(v, {})
      BY <1>1, <1>4, <3>1 DEF HandKept, TypeOK
    <3> QED BY <3>1, <3>2, RowsHands
  <2>2. CASE worker[w].view # "dirty"
    BY <1>6, <1>7, <1>10, <2>2 DEF PerformNothing
  <2> QED BY <2>1, <2>2
<1>11. CASE PerformRetryable(w)
  BY <1>6, <1>7, <1>8, <1>11 DEF PerformRetryable
<1>12. CASE PerformFails(w)
  BY <1>6, <1>7, <1>12 DEF PerformFails
<1>13. CASE PerformConflicts(w)
  BY <1>8, <1>13 DEF PerformConflicts
<1>14. CASE EnqueueDependentJobs(w)
  <2> DEFINE js == Released(state, j)
  <2>1. js \in SUBSET Jobs /\ \A k \in js : state[k] = "wait_dependencies"
    BY DEF Released
  <2>2. /\ state' = SetPendingAll(state, js) /\ mem' = mem /\ meddled' = meddled
        /\ worker' = [Overtaken(js) EXCEPT ![w] = Idle]
    BY <1>14 DEF EnqueueDependentJobs, Write
  <2> HIDE DEF js
  <2>3. \A k \in js : InHand(k) => k \in meddled
    BY <2>1, NotInHand
  <2>4. /\ \A k \in Jobs \ js : state'[k] = state[k]
        /\ \A k \in js : state'[k] \notin Busy
    BY <2>1, <2>2 DEF SetPendingAll, Busy
  <2>5. ASSUME NEW v \in Workers
        PROVE  worker'[v].job = NoJob \/ HandKept(v, js)
    <3>1. CASE v = w
      BY <1>3, <1>4, <2>1, <2>2, <3>1
    <3>2. CASE v # w
      <4>1. worker'[v].job = worker[v].job /\ worker'[v].step = worker[v].step
        BY <1>2, <1>3, <2>1, <2>2, <3>2
      <4> QED BY <2>2, <2>3, <4>1 DEF HandKept, InHand
    <3> QED BY <3>1, <3>2
  <2> QED BY <2>2, <2>4, <2>5, RowsHands
<1> QED BY <1>9, <1>10, <1>11, <1>12, <1>13, <1>14 DEF WorkerEnds

LEMMA UserHands ==
  ASSUME WInv, IInv', EndButtonDone \/ EndRequeue
  PROVE  WInv'
<1> USE DEF rowVars, runnerVars, httpVars, history
<1>1. ASSUME NEW js, NEW new, Change(js, new),
             \A k \in Jobs \ js : new[k] = state[k],
             \A k \in js : new[k] \notin Busy
      PROVE  WInv'
  <2>1. /\ mem' = mem /\ meddled \subseteq meddled' /\ worker' = Overtaken(js)
        /\ state' = new /\ \A k \in js : InHand(k) => k \in meddled'
    BY <1>1 DEF Change, Write
  <2> QED BY <1>1, <2>1, OutsideHands
<1>2. ASSUME UNCHANGED <<state, mem, worker, meddled>>
      PROVE  WInv'
  BY <1>2, MemoryHands DEF WInv
<1>3. TypeOK
  BY DEF WInv, IInv
<1>4. CASE EndButtonDone
  <2> DEFINE j == tx.job
             js == {j} \cup Released([tx.seen EXCEPT ![j] = "done"], j)
             new == SetPendingAll([state EXCEPT ![j] = "done"], js \ {j})
  <2>1. j \in js
    OBVIOUS
  <2> HIDE DEF js
  <2>2. /\ \A k \in Jobs \ js : new[k] = state[k]
        /\ \A k \in Jobs \cap js : new[k] \notin Busy
    BY <1>3, <2>1 DEF SetPendingAll, Busy, TypeOK
  <2>3. tx # NoTx
    BY <1>4 DEF EndButtonDone, NoTx
  <2>4. js \subseteq Jobs
    BY <1>3, <2>3 DEF TypeOK, UserTx, Released, js
  <2> HIDE DEF new
  <2>5. CASE Change(js, new)
    BY <1>1, <2>2, <2>4, <2>5
  <2>6. CASE UNCHANGED <<state, notes, runnerVars, httpVars, worker, history>>
    BY <1>2, <2>6
  <2> QED BY <1>4, <2>5, <2>6 DEF EndButtonDone, js, new
<1>5. CASE EndRequeue
  <2> DEFINE j == tx.job
             new == [state EXCEPT ![j] = PendingState(tx.seen, j)]
  <2>1. tx # NoTx
    BY <1>5 DEF EndRequeue, NoTx
  <2>2. j \in Jobs
    BY <1>3, <2>1 DEF TypeOK, UserTx
  <2>3. /\ \A k \in Jobs \ {j} : new[k] = state[k]
        /\ \A k \in {j} : new[k] \notin Busy
    BY <1>3, <2>2 DEF PendingState, Busy, TypeOK
  <2> HIDE DEF new
  <2>4. CASE Change({j}, new)
    BY <1>1, <2>3, <2>4
  <2>5. CASE UNCHANGED <<rowVars, notes, runnerVars, httpVars, worker, history>>
    BY <1>2, <2>5
  <2> QED BY <1>5, <2>4, <2>5 DEF EndRequeue, new
<1> QED BY <1>4, <1>5

LEMMA HandsInductive == WInv /\ [Next]_vars => WInv'
<1> SUFFICES ASSUME WInv, [Next]_vars PROVE WInv'
  OBVIOUS
<1> USE DEF rowVars, runnerVars, httpVars, history
<1>1. IInv'
  BY Inductive DEF WInv
<1>2. TypeOK
  BY DEF WInv, IInv
<1>3. CASE RunnerStep \/ RunnerFails \/ \E j \in Jobs : ProcessNotification(j)
  BY <1>1, <1>3, RunnerHands
<1>4. ASSUME NEW j \in Jobs,
             \/ SetJobPending(j) \/ RequeueStuckJobs(j) \/ ButtonCancelled(j)
             \/ \E w \in Workers : TakeRequest(w, j)
      PROVE  WInv'
  BY <1>1, <1>4, RequestHands
<1>5. ASSUME UNCHANGED <<state, mem, worker, meddled>>
      PROVE  WInv'
  BY <1>1, <1>5, MemoryHands DEF WInv
<1>6. ASSUME NEW j \in Jobs,
             LoseRequest(j) \/ ThreadEnds(j) \/ BeginButtonDone(j) \/ BeginRequeue(j)
      PROVE  WInv'
  BY <1>5, <1>6 DEF LoseRequest, ThreadEnds, BeginButtonDone, BeginRequeue, Begin
<1>7. ASSUME NEW w \in Workers, BeginTransaction(w) \/ WorkerDies(w)
      PROVE  WInv'
  <2>1. UNCHANGED <<state, mem, meddled>>
    BY <1>7 DEF BeginTransaction, WorkerDies
  <2>2. \A v \in Workers : worker'[v].job = NoJob \/ HandKept(v, {})
    <3>1. CASE BeginTransaction(w)
      <4>1. worker[w] \in InHandOf
        BY <1>2, <3>1 DEF BeginTransaction, Performs, TypeOK, Idle
      <4> QED BY <1>2, <3>1, <4>1 DEF BeginTransaction, TypeOK, InHandOf, HandKept
    <3>2. CASE WorkerDies(w)
      BY <1>2, <3>2 DEF WorkerDies, TypeOK, Idle, HandKept
    <3> QED BY <1>7, <3>1, <3>2
  <2> QED BY <1>1, <2>1, <2>2, RowsHands
<1>8. ASSUME NEW w \in Workers, WorkerEnds(w)
      PROVE  WInv'
  BY <1>1, <1>8, WorkerHands
<1>9. CASE EndButtonDone \/ EndRequeue
  BY <1>1, <1>9, UserHands
<1>10. CASE UNCHANGED vars
  BY <1>5, <1>10 DEF vars
<1> QED BY <1>3, <1>4, <1>6, <1>7, <1>8, <1>9, <1>10 DEF Next

(* Two workers have the same job in hand only if a user changed it while a *)
(* worker had it: repeated, late and lost requests, timeouts, the cron job *)
(* and restarts never bring that about.                                    *)
THEOREM OneWorkerCorrect == Spec => []OneWorker
<1>1. WInv => OneWorker
  BY DEF WInv
<1> QED BY <1>1, HandsInit, HandsInductive, PTL DEF Spec

-----------------------------------------------------------------------------
(* Dependents are released.                                                *)

ParentsDone(j) == \A p \in DependsOn[j] : state[p] = "done"
Releasing(j) == \E w \in Workers : worker[w].step = "release" /\ worker[w].job \in DependsOn[j]

(* What users who only cancel and workers that live leave alone: a job     *)
(* that was done is done, is not queued any more, and a job in hand will   *)
(* not be sent back to wait, since its parents were done when it was taken.*)
Undisturbed ==
  /\ tx = NoTx /\ meddled = {}
  /\ \A p \in wasDone : state[p] = "done"
  /\ \A j \in Queued(mem) : state[j] # "done"
  /\ \A w \in Workers : worker[w].back = "pending"

DInv == OInv /\ WInv /\ Undisturbed /\ DependenciesResolved

(* A step that makes no job done, makes none wait whose parents are done,  *)
(* and ends no release.                                                    *)
LEMMA StillResolved ==
  ASSUME DependenciesResolved,
         \A j \in Jobs : state'[j] = "done" => state[j] = "done",
         \A j \in Jobs : state'[j] = "wait_dependencies" =>
           state[j] = "wait_dependencies" \/ ~ParentsDone(j)',
         \A w \in Workers : worker[w].step = "release" =>
           worker'[w].step = "release" /\ worker'[w].job = worker[w].job
  PROVE  DependenciesResolved'
<1> SUFFICES ASSUME NEW j \in Jobs, state'[j] = "wait_dependencies", ParentsDone(j)'
             PROVE  Releasing(j)'
  BY DEF DependenciesResolved, ParentsDone, Releasing
<1>1. DependsOn[j] \subseteq Jobs
  BY JobRunnerAssumption
<1>2. state[j] = "wait_dependencies" /\ ParentsDone(j)
  BY <1>1 DEF ParentsDone
<1>3. Releasing(j)
  BY <1>2 DEF DependenciesResolved, ParentsDone, Releasing
<1> QED BY <1>3 DEF Releasing

(* One row written, not to done.                                           *)
LEMMA RowResolved ==
  ASSUME DInv, NEW j \in Jobs, NEW s, s # "done", state' = [state EXCEPT ![j] = s],
         s = "wait_dependencies" => ~ParentsDone(j),
         \A w \in Workers : worker[w].step = "release" =>
           worker'[w].step = "release" /\ worker'[w].job = worker[w].job
  PROVE  DependenciesResolved'
<1>1. state'[j] = s /\ \A k \in Jobs \ {j} : state'[k] = state[k]
  BY DEF DInv, WInv, IInv, TypeOK
<1>2. s = "wait_dependencies" => ~ParentsDone(j)'
  <2> SUFFICES ASSUME s = "wait_dependencies" PROVE ~ParentsDone(j)'
    OBVIOUS
  <2>1. PICK p \in DependsOn[j] : state[p] # "done"
    BY DEF ParentsDone
  <2>2. p \in Jobs /\ state'[p] # "done"
    BY <1>1, <2>1, JobRunnerAssumption
  <2> QED BY <2>2 DEF ParentsDone
<1> QED BY <1>1, <1>2, StillResolved DEF DInv

LEMMA ResolvedStep ==
  ASSUME Users \subseteq {"cancel"}, Deaths = FALSE, DInv, [Next]_vars
  PROVE  DependenciesResolved' /\ tx' = NoTx
<1> USE DEF rowVars, runnerVars, httpVars, history
<1>1. TypeOK /\ tx = NoTx /\ \A js : Lost(js) = NoTx
  BY DEF DInv, WInv, IInv, Undisturbed, Lost
<1>2. \A js : \A v \in Workers :
        Overtaken(js)[v].job = worker[v].job /\ Overtaken(js)[v].step = worker[v].step
  BY <1>1, SameHands
<1>3. \A js \in SUBSET Jobs : Overtaken(js) \in [Workers -> {Idle} \cup InHandOf]
  BY <1>1, WriteType
<1>4. \A j : PendingState(state, j) # "done" /\
             (PendingState(state, j) = "wait_dependencies" => ~ParentsDone(j))
  BY DEF PendingState, ParentsDone
<1>5. Idle.step = "idle"
  BY DEF Idle
<1>6. ASSUME UNCHANGED <<state, worker, tx>>
      PROVE  DependenciesResolved' /\ tx' = NoTx
  BY <1>1, <1>6 DEF DInv, DependenciesResolved
<1>7. ASSUME NEW j \in Jobs, NEW s, s # "done", state' = [state EXCEPT ![j] = s],
             s = "wait_dependencies" => ~ParentsDone(j),
             worker' = Overtaken({j}), tx' = Lost({j})
      PROVE  DependenciesResolved' /\ tx' = NoTx
  BY <1>1, <1>2, <1>7, RowResolved
<1>8. CASE SendJob
  <2> DEFINE j == NextJob(mem, Root, 0)
  <2>1. mem \in Memory /\ NoEtas(mem) /\ Root \in Tree
    BY <1>1, ChannelsAssumption DEF TypeOK, NoEtas, TreeOK
  <2>2. j \in Jobs
    BY <1>8, <2>1, YieldEffect DEF SendJob
  <2>3. state' = [state EXCEPT ![j] = "enqueued"] /\ worker' = Overtaken({j}) /\ tx' = Lost({j})
    BY <1>8 DEF SendJob, Write
  <2> HIDE DEF j
  <2> QED BY <1>7, <2>2, <2>3
<1>9. ASSUME NEW j \in Jobs, SetJobPending(j) \/ RequeueStuckJobs(j) \/ ButtonCancelled(j)
      PROVE  DependenciesResolved' /\ tx' = NoTx
  BY <1>4, <1>7, <1>9 DEF SetJobPending, RequeueStuckJobs, ButtonCancelled, Change, Write
<1>10. ASSUME NEW w \in Workers, NEW j \in Jobs, TakeRequest(w, j)
       PROVE  DependenciesResolved' /\ tx' = NoTx
  <2>1. CASE state[j] # "enqueued"
    BY <1>6, <1>10, <2>1 DEF TakeRequest
  <2>2. CASE state[j] = "enqueued"
    <3>1. /\ state' = [state EXCEPT ![j] = "started"] /\ tx' = Lost({j}) /\ worker[w] = Idle
          /\ worker' = [Overtaken({j}) EXCEPT ![w] = Started(j)]
      BY <1>10, <2>2 DEF TakeRequest, Write
    <3>2. \A v \in Workers : worker[v].step = "release" =>
            worker'[v].step = "release" /\ worker'[v].job = worker[v].job
      BY <1>2, <1>3, <1>5, <3>1
    <3> QED BY <1>1, <3>1, <3>2, RowResolved
  <2> QED BY <2>1, <2>2
<1>11. ASSUME NEW w \in Workers, Performs(w), NEW s, NEW next, Store(w, s, next),
              s # "done" /\ (s = "wait_dependencies" => ~ParentsDone(worker[w].job))
       PROVE  DependenciesResolved' /\ tx' = NoTx
  <2> DEFINE j == worker[w].job
  <2>1. worker[w] \in InHandOf
    BY <1>1, <1>11 DEF TypeOK, Performs, Idle
  <2>2. j \in Jobs /\ worker[w].step = "perform"
    BY <1>11, <2>1 DEF InHandOf, Performs
  <2>3. /\ state' = [state EXCEPT ![j] = s] /\ tx' = Lost({j})
        /\ worker' = [Overtaken({j}) EXCEPT ![w] = next]
    BY <1>11 DEF Store, Write
  <2>4. \A v \in Workers : worker[v].step = "release" =>
          worker'[v].step = "release" /\ worker'[v].job = worker[v].job
    BY <1>2, <1>3, <2>2, <2>3
  <2> HIDE DEF j
  <2>5. s = "wait_dependencies" => ~ParentsDone(j)
    BY <1>11 DEF j
  <2> QED BY <1>1, <1>11, <2>2, <2>3, <2>4, <2>5, RowResolved
<1>12. ASSUME NEW w \in Workers, Performs(w), NEW next,
              next = [worker[w] EXCEPT !.step = "release", !.view = "none"],
              Store(w, "done", next)
       PROVE  DependenciesResolved' /\ tx' = NoTx
  <2> DEFINE j == worker[w].job
  <2>1. worker[w] \in InHandOf
    BY <1>1, <1>12 DEF TypeOK, Performs, Idle
  <2>2. j \in Jobs /\ worker[w].step = "perform" /\ next.step = "release" /\ next.job = j
    BY <1>12, <2>1 DEF InHandOf, Performs
  <2>3. /\ state' = [state EXCEPT ![j] = "done"] /\ tx' = Lost({j})
        /\ worker' = [Overtaken({j}) EXCEPT ![w] = next]
    BY <1>12 DEF Store, Write
  <2>4. /\ worker'[w] = next
        /\ \A v \in Workers \ {w} :
             worker'[v].job = worker[v].job /\ worker'[v].step = worker[v].step
    BY <1>2, <1>3, <2>2, <2>3
  <2> HIDE DEF j
  <2>5. state'[j] = "done" /\ \A k \in Jobs \ {j} : state'[k] = state[k]
    BY <1>1, <2>2, <2>3 DEF TypeOK
  <2>6. ASSUME NEW k \in Jobs, state'[k] = "wait_dependencies", ParentsDone(k)'
        PROVE  Releasing(k)'
    <3>1. DependsOn[k] \subseteq Jobs /\ state[k] = "wait_dependencies"
      BY <2>5, <2>6, JobRunnerAssumption
    <3>2. CASE j \in DependsOn[k]
      BY <2>2, <2>4, <3>2 DEF Releasing
    <3>3. CASE j \notin DependsOn[k]
      <4>1. ParentsDone(k)
        BY <2>5, <2>6, <3>1, <3>3 DEF ParentsDone
      <4>2. PICK v \in Workers : worker[v].step = "release" /\ worker[v].job \in DependsOn[k]
        BY <3>1, <4>1 DEF DInv, DependenciesResolved, ParentsDone
      <4>3. v # w
        BY <2>2, <4>2
      <4> QED BY <2>4, <4>2, <4>3 DEF Releasing
    <3> QED BY <3>2, <3>3
  <2>7. DependenciesResolved'
    BY <2>6 DEF DependenciesResolved, ParentsDone, Releasing
  <2> QED BY <1>1, <2>3, <2>7
<1>13. ASSUME NEW w \in Workers, EnqueueDependentJobs(w)
       PROVE  DependenciesResolved' /\ tx' = NoTx
  <2> DEFINE i == worker[w].job
             js == Released(state, i)
  <2>1. /\ state' = SetPendingAll(state, js) /\ tx' = Lost(js)
        /\ worker' = [Overtaken(js) EXCEPT ![w] = Idle]
    BY <1>13 DEF EnqueueDependentJobs, Write
  <2>2. js \in SUBSET Jobs
    BY DEF Released
  <2>3. \A k \in Jobs : (state[k] = "wait_dependencies" /\ ParentsDone(k) /\ i \in DependsOn[k]) => k \in js
    BY DEF Released, ParentsDone
  <2>4. \A v \in Workers \ {w} :
          worker'[v].job = worker[v].job /\ worker'[v].step = worker[v].step
    BY <1>2, <1>3, <2>1, <2>2
  <2> HIDE DEF js
  <2>5. \A k \in Jobs : state'[k] = IF k \in js THEN "pending" ELSE state[k]
    BY <2>1 DEF SetPendingAll
  <2>6. ASSUME NEW k \in Jobs, state'[k] = "wait_dependencies", ParentsDone(k)'
        PROVE  Releasing(k)'
    <3>1. DependsOn[k] \subseteq Jobs /\ state[k] = "wait_dependencies" /\ k \notin js
      BY <2>5, <2>6, JobRunnerAssumption
    <3>2. ParentsDone(k)
      BY <2>5, <2>6, <3>1 DEF ParentsDone
    <3>3. PICK v \in Workers : worker[v].step = "release" /\ worker[v].job \in DependsOn[k]
      BY <3>1, <3>2 DEF DInv, DependenciesResolved, ParentsDone
    <3>4. v # w
      BY <2>3, <3>1, <3>2, <3>3
    <3> QED BY <2>4, <3>3, <3>4 DEF Releasing
  <2>7. DependenciesResolved'
    BY <2>6 DEF DependenciesResolved, ParentsDone, Releasing
  <2> QED BY <1>1, <2>1, <2>7
<1>14. ASSUME NEW w \in Workers, WorkerEnds(w)
       PROVE  DependenciesResolved' /\ tx' = NoTx
  <2>1. ASSUME Performs(w), RetryPostpone(w)
        PROVE  DependenciesResolved' /\ tx' = NoTx
    BY <1>11, <2>1 DEF RetryPostpone, DInv, Undisturbed
  <2>2. CASE PerformDone(w)
    BY <1>12, <2>1, <2>2 DEF PerformDone
  <2>3. CASE PerformNothing(w)
    <3>1. CASE worker[w].view = "dirty"
      <4>1. UNCHANGED <<state, tx>> /\ worker' = [worker EXCEPT ![w] = Idle] /\ worker[w].step = "perform"
        BY <2>3, <3>1 DEF PerformNothing, Performs
      <4>2. \A v \in Workers : worker[v].step = "release" =>
              worker'[v].step = "release" /\ worker'[v].job = worker[v].job
        BY <1>1, <4>1 DEF TypeOK
      <4> QED BY <1>1, <4>1, <4>2, StillResolved DEF DInv
    <3>2. CASE worker[w].view # "dirty"
      BY <1>12, <2>3, <3>2 DEF PerformNothing
    <3> QED BY <3>1, <3>2
  <2>4. CASE PerformRetryable(w)
    BY <1>11, <2>1, <2>4 DEF PerformRetryable
  <2>5. CASE PerformFails(w)
    BY <1>11, <2>5 DEF PerformFails
  <2>6. CASE PerformConflicts(w)
    BY <2>1, <2>6 DEF PerformConflicts
  <2> QED BY <1>13, <1>14, <2>2, <2>3, <2>4, <2>5, <2>6 DEF WorkerEnds
<1>15. ASSUME NEW w \in Workers, BeginTransaction(w)
       PROVE  DependenciesResolved' /\ tx' = NoTx
  <2>1. worker[w] \in InHandOf /\ UNCHANGED <<state, tx>> /\ worker' = [worker EXCEPT ![w].view = "clean"]
    BY <1>1, <1>15 DEF BeginTransaction, Performs, TypeOK, Idle
  <2>2. \A v \in Workers : worker'[v].job = worker[v].job /\ worker'[v].step = worker[v].step
    BY <1>1, <2>1 DEF TypeOK, InHandOf
  <2> QED BY <1>1, <2>1, <2>2, StillResolved DEF DInv
<1>16. /\ \A w \in Workers : ~WorkerDies(w)
       /\ \A j \in Jobs : ~BeginButtonDone(j) /\ ~BeginRequeue(j)
       /\ ~EndButtonDone /\ ~EndRequeue
  BY <1>1 DEF WorkerDies, BeginButtonDone, BeginRequeue, Begin, EndButtonDone, EndRequeue, NoTx
<1>17. ASSUME \/ InitializeDatabases \/ LoadJobs \/ RunJobs \/ WaitNotification \/ RunnerFails
              \/ \E c \in Tree : PullJob(c) \/ PassChannel(c)
              \/ \E j \in Jobs : ProcessNotification(j) \/ LoseRequest(j) \/ ThreadEnds(j)
              \/ UNCHANGED vars
       PROVE  UNCHANGED <<state, worker, tx>>
  BY <1>17
  DEF InitializeDatabases, LoadJobs, RunJobs, WaitNotification, RunnerFails, PullJob, PassChannel,
      ProcessNotification, LoseRequest, ThreadEnds, vars
<1> QED
  BY <1>6, <1>8, <1>9, <1>10, <1>14, <1>15, <1>16, <1>17 DEF Next, RunnerStep

LEMMA SameBack ==
  ASSUME TypeOK, NEW js, NEW w \in Workers
  PROVE  Overtaken(js)[w].back = worker[w].back
<1>1. worker[w] \in {Idle} \cup InHandOf
  BY DEF TypeOK
<1>2. CASE worker[w] = Idle
  BY <1>2 DEF Overtaken, Idle
<1>3. CASE worker[w] \in InHandOf
  BY <1>3 DEF Overtaken, InHandOf
<1> QED BY <1>1, <1>2, <1>3

LEMMA UndisturbedWrite ==
  ASSUME TypeOK, Undisturbed, NEW new \in [Jobs -> States], Write(new),
         tx' = NoTx, meddled' = meddled,
         \A p \in Jobs : state[p] = "done" => new[p] = "done",
         \A j \in Queued(mem') : new[j] # "done",
         \A w \in Workers : worker'[w].back = "pending"
  PROVE  Undisturbed'
<1>1. state' = new /\ wasDone' = wasDone \cup {j \in Jobs : new[j] = "done"}
  BY DEF Write
<1>2. \A p \in wasDone' : state'[p] = "done"
  BY <1>1 DEF Undisturbed, TypeOK
<1> QED BY <1>1, <1>2 DEF Undisturbed

LEMMA UndisturbedStep ==
  ASSUME Users \subseteq {"cancel"}, Deaths = FALSE, DInv, [Next]_vars, tx' = NoTx
  PROVE  Undisturbed'
<1> USE DEF rowVars, runnerVars, httpVars, history
<1>1. TypeOK /\ WInv /\ Undisturbed /\ tx = NoTx /\ meddled = {}
  BY DEF DInv, WInv, IInv, Undisturbed
<1>2. \A js : \A v \in Workers : Overtaken(js)[v].back = "pending"
  BY <1>1, SameBack DEF Undisturbed
<1>3. \A js \in SUBSET Jobs : Overtaken(js) \in [Workers -> {Idle} \cup InHandOf]
  BY <1>1, WriteType
<1>4. \A j \in Jobs : state[j] \notin {"started", "done"} => ~InHand(j)
  BY <1>1, NotInHand
<1>5. \A j \in Queued(mem) : j \in Jobs /\ state[j] # "done" /\ ~InHand(j)
  BY <1>1 DEF WInv, QueuedFree, Undisturbed, Queued, TypeOK, Memory, JobSets
<1>6. ASSUME NEW j \in Jobs, NEW s \in States, s # "done", state[j] \notin {"started", "done"},
             Write([state EXCEPT ![j] = s]), mem' = mem, worker' = Overtaken({j}),
             meddled' = meddled \/ meddled' = meddled \cup {k \in {j} : InHand(k)}
      PROVE  Undisturbed'
  <2>1. [state EXCEPT ![j] = s] \in [Jobs -> States] /\ meddled' = meddled
    BY <1>1, <1>4, <1>6 DEF TypeOK
  <2>2. /\ \A p \in Jobs : state[p] = "done" => [state EXCEPT ![j] = s][p] = "done"
        /\ \A k \in Queued(mem') : [state EXCEPT ![j] = s][k] # "done"
    BY <1>1, <1>5, <1>6 DEF TypeOK
  <2> QED BY <1>1, <1>2, <1>6, <2>1, <2>2, UndisturbedWrite
<1>7. ASSUME NEW j \in Jobs, SetJobPending(j) \/ RequeueStuckJobs(j) \/ ButtonCancelled(j)
      PROVE  Undisturbed'
  <2>1. /\ {"pending", "cancelled", PendingState(state, j)} \subseteq States
        /\ PendingState(state, j) # "done"
    BY PendingStateType DEF States
  <2> QED BY <1>6, <1>7, <2>1 DEF SetJobPending, RequeueStuckJobs, ButtonCancelled, Change
<1>8. CASE (RunnerStep \/ RunnerFails \/ \E j \in Jobs : ProcessNotification(j)) /\ ~SendJob
  BY <1>1, <1>8, RunnerQueues DEF Undisturbed
<1>9. CASE SendJob
  <2> DEFINE j == NextJob(mem, Root, 0)
             new == [state EXCEPT ![j] = "enqueued"]
  <2>1. j \in Jobs /\ j \in Queued(mem) /\ Queued(mem') \subseteq Queued(mem)
    BY <1>1, <1>9, SendQueues
  <2>2. Write(new) /\ worker' = Overtaken({j}) /\ meddled' = meddled
    BY <1>9 DEF SendJob
  <2> HIDE DEF j
  <2>3. /\ new \in [Jobs -> States]
        /\ \A k \in Jobs : new[k] = IF k = j THEN "enqueued" ELSE state[k]
    BY <1>1, <2>1 DEF TypeOK, States
  <2> HIDE DEF new
  <2>4. /\ \A p \in Jobs : state[p] = "done" => new[p] = "done"
        /\ \A k \in Queued(mem') : new[k] # "done"
    BY <1>5, <2>1, <2>3
  <2> QED BY <1>1, <1>2, <2>2, <2>3, <2>4, UndisturbedWrite
<1>10. ASSUME NEW w \in Workers, NEW j \in Jobs, TakeRequest(w, j)
       PROVE  Undisturbed'
  <2>1. mem' = mem /\ meddled' = meddled
    BY <1>10 DEF TakeRequest
  <2>2. CASE state[j] # "enqueued"
    BY <1>1, <1>10, <2>1, <2>2 DEF TakeRequest, Undisturbed
  <2>3. CASE state[j] = "enqueued"
    <3> DEFINE new == [state EXCEPT ![j] = "started"]
    <3>1. Write(new) /\ worker' = [Overtaken({j}) EXCEPT ![w] = Started(j)]
      BY <1>10, <2>3 DEF TakeRequest
    <3>2. Ready(j)
      BY <2>3 DEF DInv, OInv, RowsReady
    <3>3. PendingState(state, j) = "pending"
      BY <1>1, <3>2 DEF PendingState, Ready, Undisturbed
    <3>4. Started(j).back = "pending"
      BY <3>3 DEF Started
    <3>5. \A v \in Workers : worker'[v].back = "pending"
      BY <1>2, <1>3, <3>1, <3>4
    <3>6. /\ new \in [Jobs -> States]
          /\ \A k \in Jobs : new[k] = IF k = j THEN "started" ELSE state[k]
      BY <1>1 DEF TypeOK, States
    <3> HIDE DEF new
    <3>7. /\ \A p \in Jobs : state[p] = "done" => new[p] = "done"
          /\ \A k \in Queued(mem') : new[k] # "done"
      BY <1>5, <2>1, <2>3, <3>6
    <3> QED BY <1>1, <2>1, <3>1, <3>5, <3>6, <3>7, UndisturbedWrite
  <2> QED BY <2>2, <2>3
<1>11. ASSUME NEW w \in Workers, Performs(w), NEW s \in States, NEW next,
              next.back = "pending", Store(w, s, next)
       PROVE  Undisturbed'
  <2> DEFINE j == worker[w].job
             new == [state EXCEPT ![j] = s]
  <2>1. worker[w] \in InHandOf
    BY <1>1, <1>11 DEF TypeOK, Performs, Idle
  <2>2. j \in Jobs /\ j # NoJob /\ worker[w].step = "perform" /\ InHand(j)
    BY <1>11, <2>1, JobRunnerAssumption DEF InHandOf, Performs, InHand
  <2>3. state[j] = "started"
    BY <1>1, <2>2 DEF WInv, HandRow, HandAgrees
  <2>4. /\ Write(new) /\ mem' = mem /\ meddled' = meddled
        /\ worker' = [Overtaken({j}) EXCEPT ![w] = next]
    BY <1>11 DEF Store
  <2> HIDE DEF j
  <2>5. \A v \in Workers : worker'[v].back = "pending"
    BY <1>2, <1>3, <1>11, <2>2, <2>4
  <2>6. /\ new \in [Jobs -> States]
        /\ \A k \in Jobs : new[k] = IF k = j THEN s ELSE state[k]
    BY <1>1, <2>2 DEF TypeOK
  <2> HIDE DEF new
  <2>7. /\ \A p \in Jobs : state[p] = "done" => new[p] = "done"
        /\ \A k \in Queued(mem') : new[k] # "done"
    BY <1>5, <2>2, <2>3, <2>4, <2>6
  <2> QED BY <1>1, <2>4, <2>5, <2>6, <2>7, UndisturbedWrite
<1>12. ASSUME NEW w \in Workers, EnqueueDependentJobs(w)
       PROVE  Undisturbed'
  <2> DEFINE js == Released(state, worker[w].job)
             new == SetPendingAll(state, js)
  <2>1. /\ Write(new) /\ mem' = mem /\ meddled' = meddled
        /\ worker' = [Overtaken(js) EXCEPT ![w] = Idle]
    BY <1>12 DEF EnqueueDependentJobs
  <2>2. js \in SUBSET Jobs /\ \A k \in js : state[k] = "wait_dependencies"
    BY DEF Released
  <2> HIDE DEF js
  <2>3. /\ new \in [Jobs -> States]
        /\ \A k \in Jobs : new[k] = IF k \in js THEN "pending" ELSE state[k]
    BY <1>1 DEF SetPendingAll, TypeOK, States
  <2> HIDE DEF new
  <2>4. \A v \in Workers : worker'[v].back = "pending"
    BY <1>2, <1>3, <2>1, <2>2 DEF Idle
  <2>5. /\ \A p \in Jobs : state[p] = "done" => new[p] = "done"
        /\ \A k \in Queued(mem') : new[k] # "done"
    BY <1>5, <2>1, <2>2, <2>3
  <2> QED BY <1>1, <2>1, <2>3, <2>4, <2>5, UndisturbedWrite
<1>13. ASSUME NEW w \in Workers, WorkerEnds(w)
       PROVE  Undisturbed'
  <2> DEFINE released == [worker[w] EXCEPT !.step = "release", !.view = "none"]
  <2>1. Performs(w) => released.back = "pending"
    <3> SUFFICES ASSUME Performs(w) PROVE released.back = "pending"
      OBVIOUS
    <3>1. worker[w] \in InHandOf /\ worker[w].back = "pending"
      BY <1>1 DEF TypeOK, Performs, Idle, Undisturbed
    <3> QED BY <3>1 DEF InHandOf
  <2>2. Idle.back = "pending" /\ worker[w].back = "pending"
    BY <1>1 DEF Idle, Undisturbed
  <2>3. {"done", "failed", "pending"} \subseteq States
    BY DEF States
  <2>4. ASSUME Performs(w), RetryPostpone(w)
        PROVE  Undisturbed'
    BY <1>11, <2>2, <2>3, <2>4 DEF RetryPostpone
  <2>5. ASSUME Performs(w), Store(w, "done", released)
        PROVE  Undisturbed'
    BY <1>11, <2>1, <2>3, <2>5
  <2>6. ASSUME Performs(w), Store(w, "failed", Idle)
        PROVE  Undisturbed'
    BY <1>11, <2>2, <2>3, <2>6
  <2>7. CASE PerformNothing(w) /\ worker[w].view = "dirty"
    <3>1. worker' = [worker EXCEPT ![w] = Idle] /\ UNCHANGED <<state, mem, tx, meddled, wasDone>>
      BY <2>7 DEF PerformNothing
    <3> QED BY <1>1, <2>2, <3>1 DEF Undisturbed, TypeOK
  <2> QED BY <1>12, <1>13, <2>4, <2>5, <2>6, <2>7
          DEF WorkerEnds, PerformDone, PerformNothing, PerformRetryable, PerformConflicts, PerformFails
<1>14. ASSUME NEW w \in Workers, BeginTransaction(w)
       PROVE  Undisturbed'
  <2>1. /\ worker[w] \in InHandOf /\ worker' = [worker EXCEPT ![w].view = "clean"]
        /\ UNCHANGED <<state, mem, tx, meddled, wasDone>>
    BY <1>1, <1>14 DEF BeginTransaction, Performs, TypeOK, Idle
  <2>2. \A v \in Workers : worker'[v].back = worker[v].back
    BY <1>1, <2>1 DEF TypeOK, InHandOf
  <2> QED BY <1>1, <2>1, <2>2 DEF Undisturbed
<1>15. /\ \A w \in Workers : ~WorkerDies(w)
       /\ \A j \in Jobs : ~BeginButtonDone(j) /\ ~BeginRequeue(j)
       /\ ~EndButtonDone /\ ~EndRequeue
  BY <1>1 DEF WorkerDies, BeginButtonDone, BeginRequeue, Begin, EndButtonDone, EndRequeue, NoTx
<1>16. CASE \/ \E j \in Jobs : LoseRequest(j) \/ ThreadEnds(j)
            \/ UNCHANGED vars
  <2>1. UNCHANGED <<state, mem, worker, tx, meddled, wasDone>>
    BY <1>16 DEF LoseRequest, ThreadEnds, vars
  <2> QED BY <1>1, <2>1 DEF Undisturbed
<1> QED
  BY <1>7, <1>8, <1>9, <1>10, <1>13, <1>14, <1>15, <1>16 DEF Next

(* When no worker is killed and users do no more than cancel, a job never  *)
(* goes on waiting for parents that are all done: the worker that finished *)
(* the last of them sees the others done and releases it, although workers *)
(* finish together and the runner overwrites rows unseen; and a job that   *)
(* is tried again is not sent back to wait by what its worker remembers.   *)
THEOREM Resolved ==
  ASSUME Users \subseteq {"cancel"}, Deaths = FALSE
  PROVE  Spec => []DependenciesResolved
<1>1. Init => DInv
  <2> SUFFICES ASSUME Init PROVE DInv
    OBVIOUS
  <2>1. OInv /\ WInv
    BY OrderInit, HandsInit
  <2>2. \A j \in Jobs : state[j] # "done"
    BY DEF Init
  <2>3. DependenciesResolved
    <3> SUFFICES ASSUME NEW j \in Jobs, state[j] = "wait_dependencies",
                        \A p \in DependsOn[j] : state[p] = "done"
                 PROVE  FALSE
      BY DEF DependenciesResolved
    <3>1. DependsOn[j] # {} /\ DependsOn[j] \subseteq Jobs
      BY JobRunnerAssumption DEF Init
    <3> QED BY <2>2, <3>1
  <2>4. Undisturbed
    BY DEF Init, Undisturbed, Idle, EmptyMemory, Queued
  <2> QED BY <2>1, <2>3, <2>4 DEF DInv
<1>2. DInv /\ [Next]_vars => DInv'
  <2>1. DInv /\ [Next]_vars => DependenciesResolved' /\ Undisturbed'
    BY ResolvedStep, UndisturbedStep
  <2> QED BY <2>1, OrderInductive, HandsInductive DEF DInv
<1>3. DInv => DependenciesResolved
  BY DEF DInv
<1> QED BY <1>1, <1>2, <1>3, PTL DEF Spec
=============================================================================
