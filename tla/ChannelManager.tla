--------------------------- MODULE ChannelManager ---------------------------
(***************************************************************************)
(* The main loop of the runner against a clock (jobrunner/runner.py with   *)
(* channels.py): process the notifications, collect the jobs that may run, *)
(* ask the channels for a wake-up time and sleep until then or until the   *)
(* next notification.  Users and workers appear by what they do to a row   *)
(* of queue_job; JobRunner models them in full, without the clock.         *)
(***************************************************************************)
EXTENDS Channels

CONSTANTS
  MaxTime,  \* the clock runs from 1 to MaxTime
  Etas      \* the etas given to jobs

ASSUME TimeAssumption == MaxTime \in Nat \ {0} /\ Etas \subseteq 1..MaxTime

VARIABLES
  mem,    \* the memory of the ChannelManager
  now,    \* the clock
  row,    \* row[j]: state and eta of the job in the database
  notes,  \* jobs with a notification under way
  phase,  \* "idle" between two rounds, "run" in run_jobs
  todo,   \* channels get_jobs_to_run has yet to serve
  wake,   \* what get_wakeup_time returned, 0 for no time
  fresh,  \* a notification was processed since the last round began
  last    \* history: when each throttled channel yielded last

vars == <<mem, now, row, notes, phase, todo, wake, fresh, last>>

Absent == [state |-> "absent", eta |-> 0]

Init ==
  /\ mem = EmptyMemory
  /\ now = 1
  /\ row = [j \in Jobs |-> Absent]
  /\ notes = {} /\ phase = "idle" /\ todo = {} /\ wake = 0 /\ fresh = FALSE
  /\ last = [c \in Tree |-> 0]

-----------------------------------------------------------------------------
(* The rows.  Every change fires the trigger queue_job_notify.  A change   *)
(* during a round is the same as one just before it, not yet notified.     *)

SetRow(j, state, eta) ==
  /\ phase = "idle"
  /\ row' = [row EXCEPT ![j] = [state |-> state, eta |-> eta]]
  /\ notes' = notes \cup {j}
  /\ UNCHANGED <<mem, now, phase, todo, wake, fresh, last>>

Store(j, eta) == row[j] = Absent /\ SetRow(j, "pending", eta)
Postpone(j, eta) == row[j].state = "enqueued" /\ SetRow(j, "pending", eta)
Finish(j) == row[j].state = "enqueued" /\ SetRow(j, "done", row[j].eta)
Fail(j) == row[j].state = "enqueued" /\ SetRow(j, "failed", row[j].eta)
Requeue(j) == row[j].state = "failed" /\ SetRow(j, "pending", row[j].eta)
Cancel(j) == row[j].state \in {"pending", "failed"} /\ SetRow(j, "cancelled", row[j].eta)

-----------------------------------------------------------------------------
(* The runner.                                                             *)

ProcessNotification(j) ==
  /\ phase = "idle" /\ j \in notes
  /\ notes' = notes \ {j}
  /\ mem' = Notify(mem, j, row[j].state, row[j].eta)
  /\ fresh' = TRUE
  /\ UNCHANGED <<now, row, phase, todo, wake, last>>

\* run_jobs begins: after a notification, at the wake-up time, or because
\* select() came back for nothing.
RunJobs ==
  /\ phase = "idle"
  /\ phase' = "run" /\ todo' = Tree
  /\ UNCHANGED <<mem, now, row, notes, wake, fresh, last>>

Serving(c) == c \in todo /\ Children(c) \cap todo = {}

\* A channel yields a job; the root channel's are enqueued and sent.
YieldJob(c) ==
  /\ Serving(c) /\ CanYield(mem, c, now)
  /\ mem' = Yield(mem, c, now)
  /\ todo' = IF Throttle[c] = 0 THEN todo ELSE todo \ {c}
  /\ last' = IF Throttle[c] = 0 THEN last ELSE [last EXCEPT ![c] = now]
  /\ LET j == NextJob(mem, c, now)
     IN  IF c = Root
         THEN row' = [row EXCEPT ![j].state = "enqueued"] /\ notes' = notes \cup {j}
         ELSE UNCHANGED <<row, notes>>
  /\ UNCHANGED <<now, phase, wake, fresh>>

\* A channel has no more to yield.
PassChannel(c) ==
  /\ c # Root /\ Serving(c) /\ ~CanYield(mem, c, now)
  /\ mem' = GiveUp(mem, c, now)
  /\ todo' = todo \ {c}
  /\ UNCHANGED <<now, row, notes, phase, wake, fresh, last>>

\* The root has no more to yield (or is throttled); wait_notification follows.
WaitNotification ==
  /\ phase = "run" /\ todo \subseteq {Root}
  /\ Root \in todo => ~CanYield(mem, Root, now)
  /\ mem' = IF todo = {Root} THEN GiveUp(mem, Root, now) ELSE mem
  /\ phase' = "idle" /\ todo' = {} /\ fresh' = FALSE
  /\ wake' = WakeupTime(mem')
  /\ UNCHANGED <<now, row, notes, last>>

Tick ==
  /\ phase = "idle" /\ now < MaxTime
  /\ now' = now + 1
  /\ UNCHANGED <<mem, row, notes, phase, todo, wake, fresh, last>>

Next ==
  \/ \E j \in Jobs :
       \/ \E eta \in Etas : Postpone(j, eta)
       \/ \E eta \in Etas \cup {0} : Store(j, eta)
       \/ Finish(j) \/ Fail(j) \/ Requeue(j) \/ Cancel(j)
       \/ ProcessNotification(j)
  \/ RunJobs
  \/ \E c \in Tree : YieldJob(c) \/ PassChannel(c)
  \/ WaitNotification
  \/ Tick

Spec == Init /\ [][Next]_vars

-----------------------------------------------------------------------------
States == {"absent", "pending", "enqueued", "done", "failed", "cancelled"}

TypeOK ==
  /\ mem \in Memory
  /\ now \in 1..MaxTime
  /\ row \in [Jobs -> [state : States, eta : Etas \cup {0}]]
  /\ notes \subseteq Jobs
  /\ phase \in {"idle", "run"} /\ todo \subseteq Tree
  /\ wake \in Nat /\ fresh \in BOOLEAN
  /\ last \in [Tree -> 0..MaxTime]

(* A job is at one place of the tree, on the path from its channel to the  *)
(* root: it runs in every channel up to some point and is queued in the    *)
(* one after, or it is queued or failed in its own channel.  What would    *)
(* break it is set_running stopping half-way, or a job made anew while the *)
(* old object is still in a parent's queue.                                *)
OnePlace ==
  \A j \in Jobs, a \in Tree :
    LET path  == Up[ChannelOf[j]]
        below == {b \in path : b # a /\ a \in Up[b]}
        here  == {s \in {"ready", "delayed", "running", "failed"} : j \in mem[s][a]}
    IN  /\ Cardinality(here) <= 1
        /\ here # {} => a \in path /\ \A b \in below : j \in mem.running[b]
        /\ here \cap {"delayed", "failed"} # {} => a = ChannelOf[j]
        /\ here = {"running"} /\ a # Root =>
             j \in mem.ready[Parent[a]] \cup mem.running[Parent[a]]

(* A job is sent only in a round that follows a notification or the        *)
(* wake-up time: if the runner slept exactly as long as get_wakeup_time    *)
(* told it to, no job would start later than it does.                      *)
NoMissedWakeup ==
  [][YieldJob(Root) => fresh \/ (wake # 0 /\ wake <= now)]_vars

(* The wake-up time lies ahead: select() never gets a timeout in the past, *)
(* which would have the runner spin ("it is most probably a bug").         *)
WakeupIsAhead ==
  [][WaitNotification => wake' = 0 \/ wake' > now]_vars

(* "yields no job until at least throttle seconds have elapsed since the   *)
(* previous yield", whatever was cancelled or requeued in between.         *)
Throttled ==
  [][\A c \in Tree : YieldJob(c) => last[c] = 0 \/ now >= last[c] + Throttle[c]]_vars
=============================================================================
