------------------------------ MODULE JobGraph ------------------------------
(***************************************************************************)
(* How a caller puts jobs together (queue_job/delay.py): delayables, the   *)
(* chains and groups made of them and of each other, the edges on_done     *)
(* adds, and delay(), which flattens all of it into one graph of jobs and  *)
(* stores them with their dependencies, or executes them on the spot.      *)
(***************************************************************************)
EXTENDS Integers, FiniteSets, SequencesExt

CONSTANTS
  Delayables,   \* one job each
  Composites,   \* the chains and groups the caller may make
  Nobody,       \* no node
  MaxParts,     \* bound on the members of a chain or a group
  MaxCalls,     \* bound on the calls of on_done
  NestChains    \* whether a chain may begin or end with another chain

Nodes == Delayables \cup Composites

ASSUME JobGraphAssumption ==
  /\ Delayables \cap Composites = {} /\ Nobody \notin Nodes /\ IsFiniteSet(Nodes)
  /\ MaxParts \in Nat /\ MaxCalls \in Nat /\ NestChains \in BOOLEAN

VARIABLES
  node,     \* the delayables, chains and groups, each with its DelayableGraph
  calls,    \* of on_done
  top,      \* the node delay() was called on
  mode,     \* "caller", then "stored", "direct", "existing" or "refused"
  links,    \* the edges between jobs that delay() has made
  done,     \* the jobs that have been performed
  queue,    \* topological_sort: the jobs all of whose dependencies are resolved
  depends   \* topological_sort: depends_per_node

sortVars == <<queue, depends>>
vars == <<node, calls, top, mode, links, done, sortVars>>

\* What the caller makes: its members in order, and the edges of its graph.
Node(kind, parts, edges) == [kind |-> kind, parts |-> parts, edges |-> edges]

Made == {n \in Nodes : node[n].kind # "none"}
PartsOf(n) == ToSet(node[n].parts)

\* The transitive closure of r, one node after another let in between.
Closure(r, S) ==
  LET through(k, c) == c \cup {p \in S \X S : <<p[1], k>> \in c /\ <<k, p[2]>> \in c}
  IN  FoldSet(through, r, S)

Init ==
  /\ node = [n \in Nodes |-> IF n \in Delayables THEN Node("job", <<n>>, {}) ELSE Node("none", <<>>, {})]
  /\ calls = 0
  /\ top = Nobody /\ mode = "caller" /\ links = {} /\ done = {}
  /\ queue = {} /\ depends = [d \in Delayables |-> 0]

-----------------------------------------------------------------------------
(* What is asked for.  The jobs a node begins and ends with: all those of  *)
(* a group, the first and the last of a chain.                             *)
Ends[x \in Nodes \X {"first", "last"}] ==
  LET it == node[x[1]]
  IN  CASE it.kind \in {"job", "none"} -> {x[1]}
        [] it.kind = "group" -> UNION {Ends[<<p, x[2]>>] : p \in ToSet(it.parts)}
        [] OTHER ->  \* a chain
             Ends[<<IF x[2] = "first" THEN Head(it.parts) ELSE Last(it.parts), x[2]>>]

Required(ns) ==
  UNION {Ends[<<e[1], "last">>] \X Ends[<<e[2], "first">>] : e \in UNION {node[n].edges : n \in ns}}

Ordered(ns) == Closure(Required(ns), Delayables)
NoCycle == \A d \in Delayables : <<d, d>> \notin Ordered(Nodes)

-----------------------------------------------------------------------------
(* The caller.                                                             *)

\* (A node is made a member of one composite only.)
Free == {n \in Made : \A m \in Composites : n \notin PartsOf(m)}

\* A node in which no chain is first or last, not even within a group.
Flat(n) == Ends[<<n, "first">>] = Ends[<<n, "last">>]

Make(n, it) ==
  /\ mode = "caller" /\ n \notin Made
  /\ node' = [node EXCEPT ![n] = it]
  /\ NoCycle'
  /\ UNCHANGED <<calls, top, mode, links, done, sortVars>>

MakeChain(n) ==
  \E ps \in BoundedSeq(Free, MaxParts) :
    /\ ps # <<>> /\ IsInjective(ps)
    /\ NestChains \/ (Flat(Head(ps)) /\ Flat(Last(ps)))
    /\ Make(n, Node("chain", ps, {<<ps[i], ps[i + 1]>> : i \in 1..(Len(ps) - 1)}))

\* (A group without members joins nothing and is left out.)
MakeGroup(n) ==
  \E ps \in SUBSET Free :
    /\ ps # {} /\ Cardinality(ps) <= MaxParts
    /\ Make(n, Node("group", SetToSeq(ps), {}))

\* From the last member of a chain, each member of a group, a delayable itself.
Sources(n) == IF node[n].kind = "chain" THEN {Last(node[n].parts)} ELSE PartsOf(n)

OnDone(n, m) ==
  /\ mode = "caller" /\ n \in Made /\ m \in Made /\ calls < MaxCalls
  /\ calls' = calls + 1
  /\ node' = [node EXCEPT ![n].edges = @ \cup (Sources(n) \X {m})]
  /\ NoCycle'
  /\ UNCHANGED <<top, mode, links, done, sortVars>>

-----------------------------------------------------------------------------
(* delay().                                                                *)

\* _head and _tail.  A chain asks its first member for the tail and its last
\* one for the head.
Found[x \in Nodes \X {"head", "tail"}] ==
  LET it == node[x[1]]
  IN  CASE it.kind \in {"job", "none"} -> {x[1]}
        [] it.kind = "group" -> UNION {Found[<<p, x[2]>>] : p \in ToSet(it.parts)}
        [] OTHER -> IF x[2] = "head" THEN Found[<<Head(it.parts), "tail">>]
                                     ELSE Found[<<Last(it.parts), "head">>]

\* DelayableGraph.vertices
Vertices(n) == PartsOf(n) \cup UNION {{e[1], e[2]} : e \in node[n].edges}

\* The graphs _connect_graphs visits when it begins with n's.
Visited(n) ==
  {n} \cup {m \in Made : <<n, m>> \in Closure({e \in Made \X Made : e[2] \in Vertices(e[1])}, Made)}

\* _merge_graph of each of them: the vertices and the edges that result.
JobsOf(n) == UNION {Found[<<v, "tail">>] : v \in UNION {Vertices(m) : m \in Visited(n)}}
MutLinksOf(n) ==
  UNION {Found[<<e[1], "head">>] \X Found[<<e[2], "tail">>] :
           e \in UNION {node[m].edges : m \in Visited(n)}}

LinksOf(n) ==
  UNION {Found[<<e[1], "tail">>] \X Found[<<e[2], "head">>] :
           e \in UNION {node[m].edges : m \in Visited(n)}}

\* "delay must be called on the top-level delayable/chain/group".
TopLevel(n) == n \in Made /\ \A m \in Made \ {n} : n \notin Vertices(m)

\* With no identity keys, or not all of them taken, the graph is stored; in
\* tests it may be executed at once; when every key that is given is taken
\* nothing is.  A job cannot depend on itself; a direct execution is over
\* before that is found out.
Delay(n) ==
  /\ mode = "caller" /\ TopLevel(n)
  /\ top' = n /\ links' = LinksOf(n)
  /\ mode' \in {"direct"} \cup IF \E d \in Delayables : <<d, d>> \in LinksOf(n) THEN {"refused"}
                              ELSE {"stored", "existing"}
  /\ IF mode' = "direct"
     THEN /\ queue' = {d \in JobsOf(n) : \A l \in LinksOf(n) : l[2] # d}
          /\ depends' = [d \in Delayables |-> Cardinality({l \in LinksOf(n) : l[2] = d})]
     ELSE UNCHANGED sortVars
  /\ UNCHANGED <<node, calls, done>>

\* What the workers do with stored jobs (JobRunner).
Perform(d) ==
  /\ mode = "stored" /\ d \in JobsOf(top) \ done
  /\ \A l \in links : l[2] = d => l[1] \in done
  /\ done' = done \cup {d}
  /\ UNCHANGED <<node, calls, top, mode, links, sortVars>>

MutNodeStays(d) ==
  /\ mode = "direct" /\ d \in queue
  /\ done' = done \cup {d}
  /\ depends' = [c \in Delayables |-> IF <<d, c>> \in links THEN depends[c] - 1 ELSE depends[c]]
  /\ queue' = queue \cup {c \in Delayables : <<d, c>> \in links /\ depends'[c] = 0}
  /\ UNCHANGED <<node, calls, top, mode, links>>

MutCountsOnce(d) ==
  /\ mode = "direct" /\ d \in queue
  /\ done' = done \cup {d}
  /\ depends' = [c \in Delayables |-> IF <<d, c>> \in links THEN depends[c] - 1 ELSE depends[c]]
  /\ queue' = (queue \ {d}) \cup {c \in Delayables : <<d, c>> \in links /\ depends[c] = 0}
  /\ UNCHANGED <<node, calls, top, mode, links>>

\* One turn of topological_sort and _execute_direct.
ExecuteDirect(d) ==
  /\ mode = "direct" /\ d \in queue
  /\ done' = done \cup {d}
  /\ depends' = [c \in Delayables |-> IF <<d, c>> \in links THEN depends[c] - 1 ELSE depends[c]]
  /\ queue' = (queue \ {d}) \cup {c \in Delayables : <<d, c>> \in links /\ depends'[c] = 0}
  /\ UNCHANGED <<node, calls, top, mode, links>>

-----------------------------------------------------------------------------
Next ==
  \/ \E n \in Composites : MakeChain(n) \/ MakeGroup(n)
  \/ \E n, m \in Nodes : OnDone(n, m)
  \/ \E n \in Nodes : Delay(n)
  \/ \E d \in Delayables : Perform(d) \/ ExecuteDirect(d)

Spec == Init /\ [][Next]_vars

-----------------------------------------------------------------------------
TypeOK ==
  /\ node \in [Nodes -> [kind : {"none", "job", "chain", "group"},
                         parts : {<<n>> : n \in Nodes} \cup BoundedSeq(Nodes, MaxParts),
                         edges : SUBSET (Nodes \X Nodes)]]
  /\ calls \in 0..MaxCalls /\ top \in Nodes \cup {Nobody}
  /\ mode \in {"caller", "stored", "direct", "existing", "refused"}
  /\ links \subseteq Delayables \X Delayables /\ done \subseteq Delayables
  /\ queue \subseteq Delayables \ done /\ depends \in [Delayables -> Nat]

(* "A job or a group of jobs depending on a group can be executed only     *)
(* after all the jobs of the group are done", after the last one of a      *)
(* chain: whatever is nested in what, every job that has been performed    *)
(* came after the jobs it was put behind.                                  *)
PerformedInOrder ==
  mode \in {"stored", "direct"} =>
    \A l \in Required(Visited(top)) : l[2] \in done => l[1] \in done

(* A graph without cycles is never stuck: as long as a job of it has not   *)
(* been performed there is one that can be, for the workers and for the    *)
(* loop of a direct execution (no edge counted twice or left waiting).     *)
NeverStuck ==
  mode \in {"stored", "direct"} /\ ~ (Delayables \cap (Visited(top)) \subseteq done) =>
    ENABLED \E d \in Delayables : Perform(d) \/ ExecuteDirect(d)
=============================================================================
