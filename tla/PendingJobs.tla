----------------------------- MODULE PendingJobs -----------------------------
(***************************************************************************)
(* What a channel queue promises: two sets of jobs, those that may run and *)
(* those that wait for their eta, served in order.  A job is in the queue  *)
(* from the moment it is added until it is taken or removed.               *)
(***************************************************************************)
EXTENDS JobOrder

CONSTANTS
  IsSequential,  \* the queue belongs to a sequential channel
  Times          \* the values the clock may show

VARIABLES
  ready,    \* the jobs without an eta
  delayed,  \* the jobs with one
  eta,      \* eta[j]: when j may run; 0 for "no eta"
  call,     \* the last call
  out       \* what it returned

vars == <<ready, delayed, eta, call, out>>

None == <<>>
NoCall == <<"none">>

Init ==
  /\ ready = {} /\ delayed = {}
  /\ eta \in [Jobs -> Times \cup {0}]
  /\ call = NoCall /\ out = None

Add(j) ==
  /\ call' = <<"add", j>>
  /\ IF eta[j] # 0
     THEN delayed' = delayed \cup {j} /\ UNCHANGED ready
     ELSE ready' = ready \cup {j} /\ UNCHANGED delayed
  /\ UNCHANGED <<eta, out>>

Remove(j) ==
  /\ call' = <<"remove", j>>
  /\ ready' = ready \ {j}
  /\ delayed' = delayed \ {j}
  /\ UNCHANGED <<eta, out>>

\* Jobs whose eta has come join the others for good; then the first of them is
\* taken, unless the queue is sequential and the next one to come has precedence.
Pop(now) ==
  LET due   == {j \in delayed : eta[j] <= now}
      able  == ready \cup due
      later == delayed \ due
      waits == IsSequential /\ later # {} /\ Precedes(FirstByEta(eta, later), First(able))
      taken == IF able = {} \/ waits THEN {} ELSE {First(able)}
  IN  /\ call' = <<"pop", now>>
      /\ eta' = [j \in Jobs |-> IF j \in due THEN 0 ELSE eta[j]]
      /\ delayed' = later
      /\ ready' = able \ taken
      /\ out' = IF taken = {} THEN None ELSE <<First(able)>>

\* The time at which the runner has to come back, if any.
GetWakeupTime ==
  /\ call' = <<"get_wakeup_time">>
  /\ out' = IF delayed = {} THEN None ELSE <<eta[FirstByEta(eta, delayed)]>>
  /\ UNCHANGED <<ready, delayed, eta>>

Next ==
  \/ \E j \in Jobs : Add(j) \/ Remove(j)
  \/ \E now \in Times : Pop(now)
  \/ GetWakeupTime

Spec == Init /\ [][Next]_vars
=============================================================================
