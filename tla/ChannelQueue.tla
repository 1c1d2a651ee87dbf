---------------------------- MODULE ChannelQueue ----------------------------
(***************************************************************************)
(* The queue of a channel (queue_job/jobrunner/channels.py): two heaps     *)
(* with lazy deletion.  Removing a job only marks it; the marked entries   *)
(* leave a heap when they come to its top, and adding a marked job again   *)
(* takes the mark away.  A heap is the set of its entries: the top is the  *)
(* first of them, and no job is in it twice.                               *)
(***************************************************************************)
EXTENDS JobOrder

CONSTANTS
  IsSequential,  \* ChannelQueue.sequential
  Times          \* the values of 'now'

ASSUME TimesAssumption == IsSequential \in BOOLEAN /\ Times \subseteq Nat \ {0}

VARIABLES
  queue,      \* the PriorityQueue of jobs without an eta
  eta_queue,  \* the PriorityQueue of jobs with one
  eta,        \* ChannelJob.eta, 0 for None
  call,       \* the last call
  out         \* what it returned

queueVars == <<queue, eta_queue, eta, call, out>>

PriorityQueue == [heap : SUBSET Jobs, known : SUBSET Jobs, removed : SUBSET Jobs]
EmptyQueue == [heap |-> {}, known |-> {}, removed |-> {}]

Live(q) == q.known \ q.removed

\* Slips of the two operations below, for the mutants.
MutAdded(q, js) ==
  [heap |-> q.heap \cup (js \ q.known), known |-> q.known \cup js,
   removed |-> q.removed]
MutRemoved(q, j) == [q EXCEPT !.removed = @ \cup {j}]

\* Several additions; a job that is known already keeps its entry.
Added(q, js) ==
  [heap |-> q.heap \cup (js \ q.known), known |-> q.known \cup js,
   removed |-> q.removed \ js]

Removed(q, j) ==
  IF j \in q.known THEN [q EXCEPT !.removed = @ \cup {j}] ELSE q

\* Entries taken off the top of the heap.
Popped(q, js) ==
  [heap |-> q.heap \ js, known |-> q.known \ js, removed |-> q.removed \ js]

\* The marked entries that are above a job, and go when the job is looked at.
Above(q, j) == {r \in q.heap \cap q.removed : Precedes(r, j)}
AboveByEta(q, j) == {r \in q.heap \cap q.removed : EtaPrecedes(eta, r, j)}

None == <<>>
NoCall == <<"none">>

QueueInit ==
  /\ queue = EmptyQueue /\ eta_queue = EmptyQueue
  /\ eta \in [Jobs -> Times \cup {0}]
  /\ call = NoCall /\ out = None

Add(j) ==
  /\ call' = <<"add", j>>
  /\ IF eta[j] # 0
     THEN eta_queue' = Added(eta_queue, {j}) /\ UNCHANGED queue
     ELSE queue' = Added(queue, {j}) /\ UNCHANGED eta_queue
  /\ UNCHANGED <<eta, out>>

Remove(j) ==
  /\ call' = <<"remove", j>>
  /\ eta_queue' = Removed(eta_queue, j)
  /\ queue' = Removed(queue, j)
  /\ UNCHANGED <<eta, out>>

\* PriorityQueue.pop: up to the first live entry, or the whole heap.
TakenFrom(q) ==
  IF Live(q) = {} THEN q.heap ELSE Above(q, First(Live(q))) \cup {First(Live(q))}

Pop(now) ==
  LET due    == {j \in Live(eta_queue) : eta[j] <= now}
      later  == Live(eta_queue) \ due
      next   == IF later = {} THEN {} ELSE {FirstByEta(eta, later)}
      passed == UNION {AboveByEta(eta_queue, j) : j \in due \cup next}
      merged == Added(queue, due)
      able   == Live(merged)
      waits  == /\ IsSequential /\ later # {} /\ able # {}
                /\ Precedes(FirstByEta(eta, later), First(able))
  IN  /\ call' = <<"pop", now>>
      /\ eta' = [j \in Jobs |-> IF j \in due THEN 0 ELSE eta[j]]
      /\ eta_queue' = Popped(eta_queue, due \cup passed)
      /\ queue' = Popped(merged, IF waits THEN Above(merged, First(able))
                                          ELSE TakenFrom(merged))
      /\ out' = IF waits \/ able = {} THEN None ELSE <<First(able)>>

GetWakeupTime ==
  /\ call' = <<"get_wakeup_time">>
  /\ IF Live(eta_queue) = {}
     THEN out' = None /\ UNCHANGED eta_queue
     ELSE LET next == FirstByEta(eta, Live(eta_queue))
          IN  /\ out' = <<eta[next]>>
              /\ eta_queue' = Popped(eta_queue, AboveByEta(eta_queue, next))
  /\ UNCHANGED <<queue, eta>>

QueueNext ==
  \/ \E j \in Jobs : Add(j) \/ Remove(j)
  \/ \E now \in Times : Pop(now)
  \/ GetWakeupTime

QueueSpec == QueueInit /\ [][QueueNext]_queueVars

-----------------------------------------------------------------------------
(* Every object the code has put into a heap and not yet taken off is both *)
(* in the heap and 'known', only such objects carry a removal mark, and a  *)
(* heap never holds a job whose eta changed under it.                      *)
HeapOK(q) == q.heap = q.known /\ q.removed \subseteq q.known

QueueTypeOK ==
  /\ queue \in PriorityQueue /\ eta_queue \in PriorityQueue
  /\ HeapOK(queue) /\ HeapOK(eta_queue)
  /\ eta \in [Jobs -> Times \cup {0}]
  /\ \A j \in queue.known : eta[j] = 0
  /\ \A j \in eta_queue.known : eta[j] # 0

Pending == INSTANCE PendingJobs WITH ready <- Live(queue), delayed <- Live(eta_queue)

(* The heaps with lazy deletion behave as two plain sets: a removed job    *)
(* never comes out, a job added again after its removal does, none is lost *)
(* or returned twice, and the order is that of the jobs still there.       *)
ImplementsPendingJobs == Pending!Spec
=============================================================================
