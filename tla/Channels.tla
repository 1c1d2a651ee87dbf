------------------------------ MODULE Channels ------------------------------
(***************************************************************************)
(* The channel tree of the job runner (queue_job/jobrunner/channels.py),   *)
(* as operators on its memory m.  A channel hands a job to its parent by   *)
(* marking it running and adding it to the parent's queue; a job running   *)
(* in the root channel has been sent to a worker.  The two queues of a     *)
(* channel are the two sets of PendingJobs, which ChannelQueue implements. *)
(***************************************************************************)
EXTENDS JobOrder, FiniteSets

CONSTANTS
  Tree,        \* the configured channels
  Root,        \* the one without a parent
  Parent,      \* Parent[c], for the others
  Up,          \* Up[c]: c, its parent, and so on to Root
  Capacity,    \* Capacity[c]; 0 for unlimited
  Sequential,  \* the channels with the option 'sequential'
  Throttle,    \* Throttle[c]: seconds between two jobs of c
  ChannelOf    \* the channel of each job

TreeOK ==
  /\ Root \in Tree /\ Up[Root] = {Root}
  /\ Parent \in [Tree \ {Root} -> Tree]
  /\ Up \in [Tree -> SUBSET Tree]
  /\ \A c \in Tree \ {Root} : Parent[c] # c /\ Up[c] = {c} \cup Up[Parent[c]]
  /\ \A c \in Tree : Root \in Up[c] /\ c \in Up[c]
  /\ \A c \in Tree : \A b \in Up[c] : Up[b] \subseteq Up[c]
  /\ \A c \in Tree : \A a, b \in Up[c] :
       (a \in Up[b] \/ b \in Up[a]) /\ (a \in Up[b] /\ b \in Up[a] => a = b)

\* "A sequential channel must have a capacity of 1."
Configured ==
  /\ Capacity \in [Tree -> Nat] /\ Throttle \in [Tree -> Nat]
  /\ \A c \in Sequential : c \in Tree /\ Capacity[c] = 1

ASSUME ChannelsAssumption == TreeOK /\ Configured /\ ChannelOf \in [Jobs -> Tree]

Children(c) == {d \in Tree \ {Root} : Parent[d] = c}

\* One job set per channel.
JobSets == [Tree -> SUBSET Jobs]

Memory ==
  [ready : JobSets, delayed : JobSets, running : JobSets, failed : JobSets,
   pause : [Tree -> Nat], eta : [Jobs -> Nat]]

EmptyMemory ==
  LET none == [c \in Tree |-> {}]
  IN  [ready |-> none, delayed |-> none, running |-> none, failed |-> none,
       pause |-> [c \in Tree |-> 0], eta |-> [j \in Jobs |-> 0]]

Without(sets, j, C) == [c \in Tree |-> IF c \in C THEN sets[c] \ {j} ELSE sets[c]]
With(sets, j, C)    == [c \in Tree |-> IF c \in C THEN sets[c] \cup {j} ELSE sets[c]]

-----------------------------------------------------------------------------
(* What a notification does to the memory.                                 *)

\* Channel.remove: from the job's channel and everything downstream.
RemoveJob(m, j) ==
  LET path == Up[ChannelOf[j]]
  IN  [m EXCEPT !.ready = Without(@, j, path), !.delayed = Without(@, j, path),
                !.running = Without(@, j, path), !.failed = Without(@, j, path)]

MutSetPending(m, j) ==
  LET c == ChannelOf[j]
  IN  IF j \in m.ready[c] \cup m.delayed[c] THEN m
      ELSE [m EXCEPT !.ready = With(@, j, {c}), !.running = Without(@, j, {c}),
                     !.failed = Without(@, j, {c})]
SetPending(m, j) ==
  LET c == ChannelOf[j]
      r == RemoveJob(m, j)
  IN  IF j \in m.ready[c] \cup m.delayed[c] THEN m
      ELSE IF m.eta[j] = 0 THEN [r EXCEPT !.ready = With(@, j, {c})]
                           ELSE [r EXCEPT !.delayed = With(@, j, {c})]

\* The recursion to the parent ends at the first channel that has it running.
SetRunning(m, j) ==
  LET path  == Up[ChannelOf[j]]
      marks == {a \in path : \A b \in path : a \in Up[b] => j \notin m.running[b]}
  IN  [m EXCEPT !.ready = Without(@, j, marks), !.delayed = Without(@, j, marks),
                !.running = With(@, j, marks), !.failed = Without(@, j, marks)]

SetFailed(m, j) ==
  LET c == ChannelOf[j]
  IN  IF j \in m.failed[c] THEN m
      ELSE [RemoveJob(m, j) EXCEPT !.failed = With(@, j, {c})]

\* ChannelManager.notify, for a row with this state and this eta.  A job whose
\* eta differs from the one in memory is removed and made anew; a job that
\* waits for its dependencies stays where it is.
Notify(m, j, state, eta) ==
  LET known == IF m.eta[j] = eta THEN m ELSE [RemoveJob(m, j) EXCEPT !.eta[j] = eta]
  IN  CASE state \in {"done", "cancelled"}    -> RemoveJob(known, j)
        [] state = "pending"                  -> SetPending(known, j)
        [] state \in {"enqueued", "started"}  -> SetRunning(known, j)
        [] state = "failed"                   -> SetFailed(known, j)
        [] state = "wait_dependencies"        -> known

-----------------------------------------------------------------------------
(* What get_jobs_to_run does with one channel, its children being served.  *)

HasCapacity(m, c) ==
  /\ c \in Sequential => m.failed[c] = {}
  /\ Capacity[c] = 0 \/ Cardinality(m.running[c]) < Capacity[c]

MutPaused(m, c, now) == Throttle[c] # 0 /\ now + 1 < m.pause[c]
Paused(m, c, now) == Throttle[c] # 0 /\ now < m.pause[c]

MutMatured(m, c, now) ==
  LET due == {j \in m.delayed[c] : m.eta[j] <= now}
  IN  [m EXCEPT !.ready[c] = @ \cup due, !.delayed[c] = @ \ due,
                !.eta = [j \in Jobs |-> IF j \in due THEN m.eta[j] - now - 1 ELSE m.eta[j]]]
\* ChannelQueue.pop first moves the jobs whose eta has come.
Matured(m, c, now) ==
  LET due == {j \in m.delayed[c] : m.eta[j] <= now}
  IN  [m EXCEPT !.ready[c] = @ \cup due, !.delayed[c] = @ \ due,
                !.eta = [j \in Jobs |-> IF j \in due THEN 0 ELSE m.eta[j]]]

\* A sequential channel waits for a delayed job that has precedence.
Waits(m, c) ==
  /\ c \in Sequential /\ m.delayed[c] # {} /\ m.ready[c] # {}
  /\ Precedes(FirstByEta(m.eta, m.delayed[c]), First(m.ready[c]))

CanYield(m, c, now) ==
  /\ ~Paused(m, c, now) /\ HasCapacity(m, c)
  /\ Matured(m, c, now).ready[c] # {}
  /\ ~Waits(Matured(m, c, now), c)

NextJob(m, c, now) == First(Matured(m, c, now).ready[c])

\* One turn of the loop: the next job runs in c and waits in the parent.
Yield(m, c, now) ==
  LET j    == NextJob(m, c, now)
      took == [Matured(m, c, now) EXCEPT
                 !.ready[c] = @ \ {j}, !.running[c] = @ \cup {j},
                 !.pause[c] = IF Throttle[c] = 0 THEN @ ELSE now + Throttle[c]]
  IN  IF c = Root THEN took ELSE [took EXCEPT !.ready[Parent[c]] = @ \cup {j}]

MutGiveUp(m, c, now) ==
  IF ~Paused(m, c, now) /\ HasCapacity(m, c) THEN Matured(m, c, now) ELSE m
\* The end of the loop, when nothing more can be yielded.
GiveUp(m, c, now) ==
  LET m1 == IF Paused(m, c, now) THEN m ELSE [m EXCEPT !.pause[c] = 0]
  IN  IF ~Paused(m, c, now) /\ HasCapacity(m, c) THEN Matured(m1, c, now) ELSE m1

\* get_wakeup_time: a channel that is full asks for nothing and hides its
\* children; a paused one asks for the end of the pause and hides them too.
\* (The pause that counts is the one in memory, whatever the time.)
Open(m, c) == HasCapacity(m, c) /\ m.pause[c] = 0
MutWakeupTimes(m) ==
  UNION {{m.eta[j] : j \in m.delayed[c]} : c \in {d \in Tree : HasCapacity(m, d)}}
WakeupTimes(m) ==
  LET reached == {c \in Tree : \A a \in Up[c] \ {c} : Open(m, a)}
  IN  {m.pause[c] : c \in {d \in reached : HasCapacity(m, d) /\ m.pause[d] # 0}}
      \cup UNION {{m.eta[j] : j \in m.delayed[c]} : c \in {d \in reached : Open(m, d)}}
WakeupTime(m) ==
  LET times == WakeupTimes(m)
  IN  IF times = {} THEN 0 ELSE CHOOSE t \in times : \A u \in times : t <= u
=============================================================================
