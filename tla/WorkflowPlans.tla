--------------------------- MODULE WorkflowPlans ---------------------------
(***************************************************************************)
(* Classes of plans.  The parser of the engine accepts more plans than the *)
(* runtime can execute as one would expect: what a run promises beyond its *)
(* own consistency depends on the shape of the plan.  These definitions    *)
(* name the shapes that the theorems of WorkflowEndProofs and              *)
(* WorkflowOnceProofs assume.                                              *)
(***************************************************************************)
EXTENDS Workflow, FiniteSets, Functions

\* The nodes that dispatch jobs, at once or through their paths.
Dispatching == {n \in Node : Plan[n].type \in {"action", "fork"}}

\* The start node and the forks of the plan lead to actions and forks only.
DispatchFirst ==
  \A n \in Node : Plan[n].type \in {"start", "fork"} => Plan[n].to \in Seq(Dispatching)

\* The nodes that the handler of node p may hand to processNextNodes.
Successors(p) ==
  CASE Plan[p].type \in {"start", "fork", "join"} -> Range(Plan[p].to)
    [] Plan[p].type = "action" -> Range(Plan[p].ok) \cup Range(Plan[p].error)
    [] OTHER -> {}

\* Node p makes way for node n: it leads to n, or it is the fork that sets the
\* count of the join n.
Edge(p, n) ==
  \/ n \in Dispatching /\ n \in Successors(p)
  \/ Plan[p].type = "fork" /\ Plan[n].type = "join" /\ Plan[p].peer = n

\* Some chain of edges leads from a to n: n is in every set that holds what a
\* makes way for and is closed under Edge.
Before(a, n) ==
  \A S \in SUBSET Node :
    /\ \A m \in Node : Edge(a, m) => m \in S
    /\ \A p \in S : \A m \in Node : Edge(p, m) => m \in S
    => n \in S

\* There is one way to every action and fork, and one fork to every join.
OneWay ==
  /\ \A n, p, q \in Node : Edge(p, n) /\ Edge(q, n) => p = q
  /\ \A n \in Node : \A i, k \in DOMAIN Plan[n].to :
       Plan[n].to[i] = Plan[n].to[k] /\ Plan[n].to[i] \in Dispatching => i = k

\* Where the timer may complete a node as failed, errors end the run.
ErrorsEnd ==
  "timer" \in Features =>
    \A n \in Node : Plan[n].type = "action" =>
      \A m \in Range(Plan[n].error) : Plan[m].type \in {"end", "fail"}

\* The actions whose success leads to join j.
Into(j) == {p \in Node : Plan[p].type = "action" /\ Plan[p].ok = <<j>>}

\* A join is reached by the success of actions only, as many as its fork has
\* paths, and all of them lie behind the fork.
Balanced ==
  \A j \in Node : Plan[j].type = "join" =>
    LET f == Plan[j].peer IN
    /\ Plan[f].type = "fork" /\ Plan[f].peer = j
    /\ \A p \in Node : j \in Successors(p) =>
         p \in Into(j) /\ j \notin Range(Plan[p].error)
    /\ IsFiniteSet(Into(j))
    /\ Cardinality(Into(j)) = Len(Plan[f].to)
    /\ \A p \in Into(j) : Before(f, p)

\* Only the error of an action leads to a fail node.
FailOnError ==
  \A n \in Node : Plan[n].type = "fail" =>
    \A p \in Node : n \in Successors(p) =>
      Plan[p].type = "action" /\ n \notin Range(Plan[p].ok)
=============================================================================
