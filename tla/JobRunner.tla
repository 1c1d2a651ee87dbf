----------------------------- MODULE JobRunner -----------------------------
(***************************************************************************)
(* The job queue as a whole: the rows of queue_job with the trigger on     *)
(* them, the runner with the channels in its memory, the requests it       *)
(* sends, the workers that answer them, the cron job that requeues stuck   *)
(* jobs and the users who change jobs by hand.  Time is left out (no etas, *)
(* no throttle: ChannelManager has them); a timeout may strike any time.   *)
(* Names follow jobrunner/runner.py, controllers/main.py, job.py and       *)
(* models/queue_job.py.                                                    *)
(***************************************************************************)
EXTENDS Channels

CONSTANTS
  DependsOn,        \* DependsOn[j]: the jobs j waits for
  MaxRetries,       \* MaxRetries[j]; 0 for no limit
  Workers,          \* the processes that answer requests
  NoJob,            \* "no job"
  Users,            \* what users do: a subset of {"requeue", "cancel", "done"}
  Deaths,           \* whether a worker may be killed
  MaxInFlight,      \* bound on the requests, and the threads, of one job
  MaxDisturbances   \* bound on faults and interventions in one behaviour

ASSUME JobRunnerAssumption ==
  /\ IsFiniteSet(Jobs) /\ NoJob \notin Jobs
  /\ DependsOn \in [Jobs -> SUBSET Jobs] /\ MaxRetries \in [Jobs -> Nat]
  /\ Deaths \in BOOLEAN /\ MaxInFlight \in Nat /\ MaxDisturbances \in Nat

VARIABLES
  state,     \* queue_job.state
  retry,     \* queue_job.retry
  notes,     \* jobs with a notification under way to the runner
  phase,     \* where the runner is in QueueJobRunner.run
  mem,       \* its ChannelManager
  todo,      \* the channels get_jobs_to_run has yet to serve
  requests,  \* requests[j]: requests no worker has looked at yet
  threads,   \* threads[j]: HTTP threads of the runner that wait for an answer
  worker,    \* what each worker is doing
  tx,        \* a user's transaction that sets a job to done or requeues it
  disturbances,
  meddled,   \* history: jobs a user changed while a worker had them in hand
  wasDone    \* history: jobs that were done at some time

rowVars == <<state, retry>>
runnerVars == <<phase, mem, todo>>
httpVars == <<requests, threads>>
history == <<meddled, wasDone>>
vars == <<rowVars, notes, runnerVars, httpVars, worker, tx, disturbances, history>>

States == {"wait_dependencies", "pending", "enqueued", "started", "done", "failed", "cancelled"}
Busy == {"enqueued", "started"}

Idle == [job |-> NoJob, step |-> "idle", view |-> "none", retry |-> 0, back |-> "pending"]
NoTx == [op |-> "none", job |-> NoJob, seen |-> [j \in Jobs |-> "pending"], lost |-> {}]

\* DelayableGraph.delay stores the graph in one transaction.
Init ==
  /\ state = [j \in Jobs |-> IF DependsOn[j] = {} THEN "pending" ELSE "wait_dependencies"]
  /\ retry = [j \in Jobs |-> 0]
  /\ notes = {}
  /\ phase = "stopped" /\ mem = EmptyMemory /\ todo = {}
  /\ requests = [j \in Jobs |-> 0] /\ threads = [j \in Jobs |-> 0]
  /\ worker = [w \in Workers |-> Idle]
  /\ tx = NoTx
  /\ disturbances = 0
  /\ meddled = {} /\ wasDone = {}

Disturb == disturbances < MaxDisturbances /\ disturbances' = disturbances + 1

-----------------------------------------------------------------------------
(* Rows.                                                                   *)

\* A transaction that read row j before this write can no longer write it.
Overtaken(js) ==
  [w \in Workers |->
     IF worker[w].job \in js /\ worker[w].view = "clean"
     THEN [worker[w] EXCEPT !.view = "dirty"] ELSE worker[w]]

\* Nor can a user's transaction that is under way.
Lost(js) == IF tx = NoTx THEN tx ELSE [tx EXCEPT !.lost = @ \cup js]

\* The rows change as in 'new'; the trigger notifies the runner.
Write(new) ==
  LET changed == {j \in Jobs : new[j] # state[j]}
  IN  /\ state' = new
      /\ notes' = notes \cup changed
      /\ wasDone' = wasDone \cup {j \in Jobs : new[j] = "done"}

MutPendingState(seen, j) == "pending"
\* Job.set_pending: back to the queue, or to wait for a dependency, by what
\* the transaction sees of the other rows.
PendingState(seen, j) ==
  IF \E p \in DependsOn[j] : seen[p] # "done" THEN "wait_dependencies" ELSE "pending"

\* Job.enqueue_waiting on what a transaction sees: the children of j all of
\* whose parents are done.
Released(seen, j) ==
  {c \in Jobs : /\ j \in DependsOn[c] /\ seen[c] = "wait_dependencies"
                /\ \A p \in DependsOn[c] : seen[p] = "done"}
SetPendingAll(s, js) == [j \in Jobs |-> IF j \in js THEN "pending" ELSE s[j]]

-----------------------------------------------------------------------------
(* The runner.                                                             *)

\* A new connection listens first and reads the rows then.
InitializeDatabases ==
  /\ phase = "stopped"
  /\ phase' = "listening" /\ notes' = {}
  /\ UNCHANGED <<rowVars, mem, todo, httpVars, worker, tx, disturbances, history>>

MutLoadJobs ==
  /\ phase = "listening"
  /\ phase' = "notify"
  /\ mem' = [mem EXCEPT
       !.ready = [c \in Tree |-> {j \in Jobs : state[j] = "pending" /\ c = ChannelOf[j]}],
       !.running = [c \in Tree |-> {j \in Jobs : state[j] = "started" /\ c \in Up[ChannelOf[j]]}],
       !.failed = [c \in Tree |-> {j \in Jobs : state[j] = "failed" /\ c = ChannelOf[j]}]]
  /\ UNCHANGED <<rowVars, notes, todo, httpVars, worker, tx, disturbances, history>>
LoadJobs ==
  /\ phase = "listening"
  /\ phase' = "notify"
  /\ mem' = [mem EXCEPT
       !.ready = [c \in Tree |-> {j \in Jobs : state[j] = "pending" /\ c = ChannelOf[j]}],
       !.running = [c \in Tree |-> {j \in Jobs : state[j] \in Busy /\ c \in Up[ChannelOf[j]]}],
       !.failed = [c \in Tree |-> {j \in Jobs : state[j] = "failed" /\ c = ChannelOf[j]}]]
  /\ UNCHANGED <<rowVars, notes, todo, httpVars, worker, tx, disturbances, history>>

\* The row is read when the notification is processed, not when it was sent.
ProcessNotification(j) ==
  /\ phase = "notify" /\ j \in notes
  /\ notes' = notes \ {j}
  /\ mem' = Notify(mem, j, state[j], 0)
  /\ UNCHANGED <<rowVars, phase, todo, httpVars, worker, tx, disturbances, history>>

RunJobs ==
  /\ phase = "notify"
  /\ phase' = "run" /\ todo' = Tree
  /\ UNCHANGED <<rowVars, notes, mem, httpVars, worker, tx, disturbances, history>>

Serving(c) == phase = "run" /\ c \in todo /\ Children(c) \cap todo = {}

MutPullJob(c) ==
  /\ c # Root /\ Serving(c) /\ CanYield(mem, c, 0)
  /\ mem' = [Yield(mem, c, 0) EXCEPT !.running[c] = mem.running[c]]
  /\ UNCHANGED <<rowVars, notes, phase, todo, httpVars, worker, tx, disturbances, history>>
PullJob(c) ==
  /\ c # Root /\ Serving(c) /\ CanYield(mem, c, 0)
  /\ mem' = Yield(mem, c, 0)
  /\ UNCHANGED <<rowVars, notes, phase, todo, httpVars, worker, tx, disturbances, history>>

PassChannel(c) ==
  /\ c # Root /\ Serving(c) /\ ~CanYield(mem, c, 0)
  /\ mem' = GiveUp(mem, c, 0)
  /\ todo' = todo \ {c}
  /\ UNCHANGED <<rowVars, notes, phase, httpVars, worker, tx, disturbances, history>>

\* set_job_enqueued writes the row whatever it says by now, then a thread
\* sends the request.
SendJob ==
  /\ Serving(Root) /\ CanYield(mem, Root, 0)
  /\ mem' = Yield(mem, Root, 0)
  /\ LET j == NextJob(mem, Root, 0)
     IN  /\ requests[j] < MaxInFlight /\ threads[j] < MaxInFlight
         /\ Write([state EXCEPT ![j] = "enqueued"])
         /\ worker' = Overtaken({j})
         /\ requests' = [requests EXCEPT ![j] = @ + 1]
         /\ threads' = [threads EXCEPT ![j] = @ + 1]
         /\ tx' = Lost({j})
  /\ UNCHANGED <<retry, phase, todo, disturbances, meddled>>

WaitNotification ==
  /\ Serving(Root) /\ ~CanYield(mem, Root, 0)
  /\ phase' = "notify" /\ todo' = {}
  /\ mem' = GiveUp(mem, Root, 0)
  /\ UNCHANGED <<rowVars, notes, httpVars, worker, tx, disturbances, history>>

\* An exception in run(): the memory is emptied; notifications are lost with
\* the connection.  When the whole process is gone its threads are, too.
RunnerFails ==
  /\ phase # "stopped" /\ Disturb
  /\ phase' = "stopped" /\ mem' = EmptyMemory /\ todo' = {} /\ notes' = {}
  /\ threads' \in {threads, [j \in Jobs |-> 0]}
  /\ UNCHANGED <<rowVars, requests, worker, tx, history>>

RunnerStep ==
  \/ InitializeDatabases \/ LoadJobs \/ RunJobs
  \/ \E c \in Tree : PullJob(c) \/ PassChannel(c)
  \/ SendJob \/ WaitNotification

-----------------------------------------------------------------------------
(* The requests.                                                           *)

\* The request is lost on its way, or the server drops it.
LoseRequest(j) ==
  /\ requests[j] > 0 /\ Disturb
  /\ requests' = [requests EXCEPT ![j] = @ - 1]
  /\ UNCHANGED <<rowVars, notes, runnerVars, threads, worker, tx, history>>

\* A timeout, a refused connection or an error status: the thread puts the job
\* back if no worker has started it, even when the request is still queued.
SetJobPending(j) ==
  /\ threads[j] > 0 /\ state[j] = "enqueued"
  /\ IF requests[j] = 0 THEN UNCHANGED disturbances ELSE Disturb
  /\ threads' = [threads EXCEPT ![j] = @ - 1]
  /\ Write([state EXCEPT ![j] = "pending"])
  /\ worker' = Overtaken({j}) /\ tx' = Lost({j})
  /\ UNCHANGED <<retry, runnerVars, requests, meddled>>

MutThreadEnds(j) ==
  /\ threads[j] >= 0
  /\ threads' = [threads EXCEPT ![j] = @ - 1]
  /\ UNCHANGED <<rowVars, notes, runnerVars, requests, worker, tx, disturbances, history>>
\* An answer, or a timeout of a job that has been started.
ThreadEnds(j) ==
  /\ threads[j] > 0
  /\ state[j] # "enqueued" \/ requests[j] < threads[j]
  /\ threads' = [threads EXCEPT ![j] = @ - 1]
  /\ UNCHANGED <<rowVars, notes, runnerVars, requests, worker, tx, disturbances, history>>

-----------------------------------------------------------------------------
(* The workers.                                                            *)

\* Retries are counted as far as they matter.
Count(j) == IF retry[j] < MaxRetries[j] THEN retry[j] + 1 ELSE retry[j]

\* The job as the worker has it.  Storing it loads the parents, and it keeps
\* them: 'back' is what set_pending will make of them, whatever their rows say.
Started(j) ==
  [job |-> j, step |-> "perform", view |-> "none", retry |-> Count(j),
   back |-> PendingState(state, j)]

MutTakeRequest(w, j) ==
  /\ worker[w] = Idle /\ requests[j] > 0
  /\ requests' = [requests EXCEPT ![j] = @ - 1]
  /\ IF state[j] \in Busy
     THEN /\ Write([state EXCEPT ![j] = "started"])
          /\ worker' = [Overtaken({j}) EXCEPT ![w] = Started(j)]
          /\ tx' = Lost({j})
     ELSE UNCHANGED <<state, notes, wasDone, worker, tx>>
  /\ UNCHANGED <<retry, runnerVars, threads, disturbances, meddled>>
\* runjob up to the first commit: the row is locked, checked and set started.
TakeRequest(w, j) ==
  /\ worker[w] = Idle /\ requests[j] > 0
  /\ requests' = [requests EXCEPT ![j] = @ - 1]
  /\ IF state[j] = "enqueued"
     THEN /\ Write([state EXCEPT ![j] = "started"])
          /\ worker' = [Overtaken({j}) EXCEPT ![w] = Started(j)]
          /\ tx' = Lost({j})
     ELSE UNCHANGED <<state, notes, wasDone, worker, tx>>
  /\ UNCHANGED <<retry, runnerVars, threads, disturbances, meddled>>

Performs(w) == worker[w].step = "perform"

\* The first query of the job's own transaction fixes what it sees.
BeginTransaction(w) ==
  /\ Performs(w) /\ worker[w].view = "none"
  /\ worker' = [worker EXCEPT ![w].view = "clean"]
  /\ UNCHANGED <<rowVars, notes, runnerVars, httpVars, tx, disturbances, history>>

\* The row as worker w leaves it, with the retries it has counted.
Store(w, s, next) ==
  LET j == worker[w].job
  IN  /\ Write([state EXCEPT ![j] = s])
      /\ retry' = [retry EXCEPT ![j] = worker[w].retry]
      /\ worker' = [Overtaken({j}) EXCEPT ![w] = next] /\ tx' = Lost({j})
      /\ UNCHANGED <<runnerVars, httpVars, meddled>>

\* retry_postpone, in a cursor of its own: it overwrites the last row, by the
\* parents as they were when the request was taken.
RetryPostpone(w) == Store(w, worker[w].back, Idle)

\* The job succeeded.  When somebody wrote the row meanwhile the commit fails,
\* and the worker treats that as a job to be tried again.
PerformDone(w) ==
  /\ Performs(w) /\ UNCHANGED disturbances
  /\ IF worker[w].view = "dirty" THEN RetryPostpone(w)
     ELSE Store(w, "done", [worker[w] EXCEPT !.step = "release", !.view = "none"])

MutPerformNothing(w) == Performs(w) /\ Store(w, "done", Idle) /\ UNCHANGED disturbances
\* NothingToDoJob: done as well, but a failing commit is not caught.
PerformNothing(w) ==
  /\ Performs(w) /\ UNCHANGED disturbances
  /\ IF worker[w].view = "dirty"
     THEN /\ worker' = [worker EXCEPT ![w] = Idle]
          /\ UNCHANGED <<rowVars, notes, runnerVars, httpVars, tx, history>>
     ELSE Store(w, "done", [worker[w] EXCEPT !.step = "release", !.view = "none"])

\* RetryableJobError, until the retries are used up.
PerformRetryable(w) ==
  LET j == worker[w].job
  IN  /\ Performs(w) /\ UNCHANGED disturbances
      /\ IF MaxRetries[j] # 0 /\ worker[w].retry >= MaxRetries[j]
         THEN Store(w, "failed", Idle)
         ELSE RetryPostpone(w)

\* A concurrency error of the database in the job's own work: it is tried
\* again, however often it has been.
PerformConflicts(w) == Performs(w) /\ Disturb /\ RetryPostpone(w)

\* Any other exception.
PerformFails(w) == Performs(w) /\ Store(w, "failed", Idle) /\ UNCHANGED disturbances

\* _enqueue_dependent_jobs, after the commit that made the job done.
EnqueueDependentJobs(w) ==
  LET js == Released(state, worker[w].job)
  IN  /\ worker[w].step = "release"
      /\ Write(SetPendingAll(state, js))
      /\ worker' = [Overtaken(js) EXCEPT ![w] = Idle] /\ tx' = Lost(js)
      /\ UNCHANGED <<retry, runnerVars, httpVars, disturbances, meddled>>

\* The process is killed; its row stays as it is.
WorkerDies(w) ==
  /\ Deaths /\ worker[w] # Idle /\ Disturb
  /\ worker' = [worker EXCEPT ![w] = Idle]
  /\ UNCHANGED <<rowVars, notes, runnerVars, httpVars, tx, history>>

WorkerEnds(w) ==
  \/ PerformDone(w) \/ PerformNothing(w) \/ PerformRetryable(w) \/ PerformConflicts(w)
  \/ PerformFails(w)
  \/ EnqueueDependentJobs(w)

-----------------------------------------------------------------------------
(* Users and the cron job.                                                 *)

InHand(j) == \E w \in Workers : worker[w].job = j

\* A write that is not a worker's: the rows js, as in 'new'.
Change(js, new) ==
  /\ Write(new)
  /\ worker' = Overtaken(js)
  /\ meddled' = meddled \cup {k \in js : InHand(k)}
  /\ UNCHANGED <<runnerVars, httpVars>>

ButtonCancelled(j) ==
  /\ "cancel" \in Users /\ state[j] \in {"pending", "failed", "enqueued"} /\ Disturb
  /\ Change({j}, [state EXCEPT ![j] = "cancelled"])
  /\ tx' = Lost({j})
  /\ UNCHANGED retry

\* button_done and requeue read other rows than the one they are about; each
\* is one transaction, and what it reads is as of its beginning.
Begin(op, j) ==
  /\ op \in Users /\ tx = NoTx /\ Disturb
  /\ tx' = [op |-> op, job |-> j, seen |-> state, lost |-> {}]
  /\ UNCHANGED <<rowVars, notes, runnerVars, httpVars, worker, history>>

BeginButtonDone(j) == state[j] # "done" /\ Begin("done", j)
BeginRequeue(j) == state[j] # "wait_dependencies" /\ Begin("requeue", j)

\* The rows a transaction has written are its own: it does not commit if
\* somebody else wrote one of them after its beginning.
Commits(js) == js \cap tx.lost = {}

EndButtonDone ==
  LET j  == tx.job
      js == {j} \cup Released([tx.seen EXCEPT ![j] = "done"], j)
  IN  /\ tx.op = "done" /\ tx' = NoTx
      /\ IF Commits(js)
         THEN Change(js, SetPendingAll([state EXCEPT ![j] = "done"], js \ {j}))
         ELSE UNCHANGED <<state, notes, runnerVars, httpVars, worker, history>>
      /\ UNCHANGED <<retry, disturbances>>

EndRequeue ==
  LET j == tx.job
  IN  /\ tx.op = "requeue" /\ tx' = NoTx
      /\ IF Commits({j})
         THEN /\ Change({j}, [state EXCEPT ![j] = PendingState(tx.seen, j)])
              /\ retry' = [retry EXCEPT ![j] = 0]
         ELSE UNCHANGED <<rowVars, notes, runnerVars, httpVars, worker, history>>
      /\ UNCHANGED disturbances

MutRequeueStuckJobs(j) ==
  /\ state[j] = "started" /\ Disturb
  /\ Change({j}, [state EXCEPT ![j] = PendingState(state, j)])
  /\ retry' = [retry EXCEPT ![j] = 0]
  /\ tx' = Lost({j})
\* requeue_stuck_jobs: enqueued for more than five minutes.  That the request
\* is still under way by then counts as a disturbance.
RequeueStuckJobs(j) ==
  /\ state[j] = "enqueued"
  /\ IF requests[j] = 0 /\ threads[j] = 0 THEN UNCHANGED disturbances ELSE Disturb
  /\ Change({j}, [state EXCEPT ![j] = PendingState(state, j)])
  /\ retry' = [retry EXCEPT ![j] = 0]
  /\ tx' = Lost({j})

-----------------------------------------------------------------------------
Next ==
  \/ RunnerStep \/ RunnerFails
  \/ \E j \in Jobs :
       \/ ProcessNotification(j)
       \/ LoseRequest(j) \/ SetJobPending(j) \/ ThreadEnds(j)
       \/ ButtonCancelled(j) \/ BeginButtonDone(j) \/ BeginRequeue(j)
       \/ RequeueStuckJobs(j)
  \/ \E w \in Workers :
       \/ \E j \in Jobs : TakeRequest(w, j)
       \/ BeginTransaction(w) \/ WorkerEnds(w) \/ WorkerDies(w)
  \/ EndButtonDone \/ EndRequeue

Spec == Init /\ [][Next]_vars

\* The loop of the runner goes on and gets to every notification in the end;
\* the server gets to every request; a request is answered or times out within
\* a second; the cron job comes round; a job ends.
Fairness ==
  /\ WF_vars(RunnerStep) /\ SF_vars(\E j \in Jobs : ProcessNotification(j))
  /\ \A j \in Jobs :
       /\ WF_vars(\E w \in Workers : TakeRequest(w, j))
       /\ WF_vars(ThreadEnds(j) \/ (requests[j] = 0 /\ SetJobPending(j)))
       /\ WF_vars(requests[j] = 0 /\ threads[j] = 0 /\ RequeueStuckJobs(j))
  /\ \A w \in Workers : WF_vars(BeginTransaction(w) \/ WorkerEnds(w))
  /\ WF_vars(EndButtonDone \/ EndRequeue)

LiveSpec == Spec /\ Fairness

-----------------------------------------------------------------------------
(* The rows, the runner's memory and the workers have their types; as time *)
(* is left out, no job is delayed.                                         *)
InHandOf ==
  [job : Jobs, step : {"perform", "release"}, view : {"none", "clean", "dirty"}, retry : Nat,
   back : {"pending", "wait_dependencies"}]
UserTx == [op : {"done", "requeue"}, job : Jobs, seen : [Jobs -> States], lost : SUBSET Jobs]
TypeOK ==
  /\ state \in [Jobs -> States] /\ retry \in [Jobs -> Nat]
  /\ notes \subseteq Jobs
  /\ phase \in {"stopped", "listening", "notify", "run"}
  /\ mem \in Memory /\ todo \subseteq Tree
  /\ \A c \in Tree : mem.delayed[c] = {}
  /\ \A j \in Jobs : mem.eta[j] = 0
  /\ requests \in [Jobs -> Nat] /\ threads \in [Jobs -> Nat]
  /\ worker \in [Workers -> {Idle} \cup InHandOf]
  /\ tx \in {NoTx} \cup UserTx
  /\ disturbances \in 0..MaxDisturbances
  /\ meddled \subseteq Jobs /\ wasDone \subseteq Jobs

Running == phase \in {"notify", "run"}

(* No more jobs of a channel and its subchannels are enqueued or started   *)
(* in the database than the channel has capacity for, whatever requests    *)
(* are lost, answered late or repeated, jobs are changed by hand, and the  *)
(* runner is restarted: the count it starts again with is the database's.  *)
BusyUnder(c) == {j \in Jobs : state[j] \in Busy /\ c \in Up[ChannelOf[j]]}
BusyWithinCapacity ==
  \A c \in Tree : Capacity[c] # 0 => Cardinality(BusyUnder(c)) <= Capacity[c]

(* Why that is so: while the runner is up, every such job is marked        *)
(* running in all channels on its path, ...                                *)
BusyIsRunning ==
  Running => \A c \in Tree : BusyUnder(c) \subseteq mem.running[c]

(* ... no channel has more jobs marked running than its capacity, ...      *)
RunningWithinCapacity ==
  Running => \A c \in Tree : Capacity[c] # 0 => Cardinality(mem.running[c]) <= Capacity[c]

(* ... and a job queued in a channel is on its way up from its own: the    *)
(* channels it passed have it marked running.                              *)
QueuedOnItsPath ==
  \A c \in Tree : \A j \in mem.ready[c] :
    /\ c \in Up[ChannelOf[j]]
    /\ \A b \in Up[ChannelOf[j]] : b # c /\ c \in Up[b] => j \in mem.running[b]

RunnerKnowsBusy == BusyIsRunning /\ RunningWithinCapacity /\ QueuedOnItsPath

(* Requests are repeated after timeouts, by the cron job and by a new      *)
(* runner, and old ones come late; still two workers have the same job in  *)
(* hand only if a user changed it while a worker had it.                   *)
OneWorker ==
  \A v, w \in Workers :
    v # w /\ worker[v].job = worker[w].job /\ worker[v].job # NoJob =>
      worker[v].job \in meddled

(* A worker has a job in hand only after each job it depends on was done.  *)
ParentsFirst ==
  \A w \in Workers : worker[w].job # NoJob => DependsOn[worker[w].job] \subseteq wasDone

(* "When and only when all the jobs of the group [A] are executed, the     *)
(* jobs of the group [B] are executed": once all its parents are done, two *)
(* that end together included, a job does not go on waiting for them,      *)
(* unless a worker is about to release it.  (For users who at most cancel: *)
(* whoever requeues or sets a parent to done while a worker has the child  *)
(* in hand or releases it can leave it waiting.)                           *)
DependenciesResolved ==
  \A j \in Jobs :
    state[j] = "wait_dependencies" /\ (\A p \in DependsOn[j] : state[p] = "done") =>
      \E w \in Workers : worker[w].step = "release" /\ worker[w].job \in DependsOn[j]

(* Once the faults are over every job comes to an end.  It ends waiting    *)
(* only for a job that did not end well: one it depends on, or a failed    *)
(* one in a sequential channel on its path ("a sequential queue blocks on  *)
(* failed jobs").                                                          *)
Held(j) == \E k \in Jobs : /\ state[k] = "failed"
                         /\ ChannelOf[k] \in Sequential \cap Up[ChannelOf[j]]
Settled(j) ==
  \/ state[j] \in {"done", "failed", "cancelled"}
  \/ state[j] = "wait_dependencies" /\ \E p \in DependsOn[j] : state[p] # "done"
  \/ state[j] = "pending" /\ Held(j)
EventuallySettled == <>[](\A j \in Jobs : Settled(j))

(* "A sequential queue blocks on failed jobs".  That nothing else blocks   *)
(* it for good is what one reads into it, not what it says: a pending job  *)
(* is taken up unless a failed one holds it back.                          *)
PendingIsServed == \A j \in Jobs : state[j] = "pending" ~> (state[j] # "pending" \/ Held(j))
=============================================================================
