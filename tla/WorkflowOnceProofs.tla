------------------------- MODULE WorkflowOnceProofs -------------------------
(***************************************************************************)
(* Proofs about what a run of Workflow does with the nodes of its plan:    *)
(* none is executed twice, a join waits for every path into it, and a run  *)
(* fails only for a reason.  They hold for any number of runs and          *)
(* executions and for the classes of plans of WorkflowPlans.               *)
(***************************************************************************)
EXTENDS WorkflowEndProofs, FiniteSetTheorems

-----------------------------------------------------------------------------
(* The order of the nodes of a plan. *)

\* What a node makes way for comes after it.
LEMMA EdgeIsBefore ==
  ASSUME NEW a \in Node, NEW n \in Node, Edge(a, n)
  PROVE  Before(a, n)
BY DEF Before

\* So does what that node makes way for.
LEMMA BeforeThenEdge ==
  ASSUME NEW a \in Node, NEW p \in Node, NEW n \in Node, Before(a, p), Edge(p, n)
  PROVE  Before(a, n)
BY DEF Before

\* A chain may be extended at its beginning.
LEMMA EdgeThenBefore ==
  ASSUME NEW a \in Node, NEW b \in Node, NEW n \in Node, Edge(a, b), Before(b, n)
  PROVE  Before(a, n)
<1> SUFFICES ASSUME NEW S \in SUBSET Node,
                    \A m \in Node : Edge(a, m) => m \in S,
                    \A p \in S : \A m \in Node : Edge(p, m) => m \in S
             PROVE  n \in S
  BY DEF Before
<1>1. \A m \in Node : Edge(b, m) => m \in S
  OBVIOUS
<1> QED
  BY <1>1 DEF Before

\* Every chain has a last edge.
LEMMA LastEdge ==
  ASSUME NEW a \in Node, NEW n \in Node, Before(a, n)
  PROVE  Edge(a, n) \/ \E p \in Node : Before(a, p) /\ Edge(p, n)
<1> DEFINE S == {m \in Node : Edge(a, m) \/ \E p \in Node : Before(a, p) /\ Edge(p, m)}
<1>1. \A m \in Node : Edge(a, m) => m \in S
  OBVIOUS
<1>2. \A p \in S : \A m \in Node : Edge(p, m) => m \in S
  <2> SUFFICES ASSUME NEW p \in S, NEW m \in Node, Edge(p, m) PROVE m \in S
    OBVIOUS
  <2>1. Before(a, p)
    BY EdgeIsBefore, BeforeThenEdge
  <2> QED
    BY <2>1
<1>3. n \in S
  <2> HIDE DEF S
  <2>1. S \in SUBSET Node
    BY DEF S
  <2> QED
    BY <1>1, <1>2, <2>1 DEF Before
<1> QED
  BY <1>3

\* Whatever comes before a node of R is in P.
Ordered(R, P) == \A n \in R : \A a \in Node : Before(a, n) => a \in P

\* R and P grow to R2 and P2: p is passed, and it makes way for what is new in
\* R2 and for what is not in P2 any more.
Passes(p, R, P, R2, P2) ==
  /\ \A n \in R2 : n \in R \/ Edge(p, n)
  /\ p \in P2
  /\ \A a \in P : a \in P2 \/ Edge(p, a)

\* The argument of the proof.  Node p is reached and not passed, and everything
\* before a reached node has been passed: then nothing that p makes way for was
\* reached.
LEMMA NothingAhead ==
  ASSUME NEW R \in SUBSET Node, NEW P, NEW p \in R, p \notin P, Ordered(R, P)
  PROVE  \A n \in R : ~Edge(p, n)
BY EdgeIsBefore DEF Ordered

\* A step that passes p may reach nodes that p makes way for; everything before
\* a reached node has still been passed.
LEMMA Advance ==
  ASSUME OneWay, NEW R \in SUBSET Node, NEW P, NEW p \in R, p \notin P,
         Ordered(R, P), NEW R2 \in SUBSET Node, NEW P2, Passes(p, R, P, R2, P2)
  PROVE  Ordered(R2, P2)
<1> USE DEF Ordered, Passes
<1>1. \A n \in R : ~Before(p, n)
  OBVIOUS
<1>2. ASSUME NEW a \in Node, NEW n \in R, Before(a, n) PROVE a \in P2
  <2>1. a \in P
    BY <1>2
  <2>2. ~Edge(p, a)
    BY <1>1, <1>2, EdgeThenBefore
  <2> QED
    BY <2>1, <2>2
<1>3. ASSUME NEW a \in Node, NEW n \in R2, Edge(p, n), Before(a, n) PROVE a \in P2
  <2>1. CASE Edge(a, n)
    <3>1. a = p
      BY <1>3, <2>1 DEF OneWay
    <3> QED
      BY <3>1
  <2>2. CASE \E q \in Node : Before(a, q) /\ Edge(q, n)
    <3>1. Before(a, p)
      BY <1>3, <2>2 DEF OneWay
    <3> QED
      BY <1>2, <3>1
  <2> QED
    BY <1>3, <2>1, <2>2, LastEdge
<1> QED
  BY <1>2, <1>3

-----------------------------------------------------------------------------
(* The names on a stack. *)

Names(fs) == UNION {Range(fs[i]) : i \in DOMAIN fs}

\* Name n stands at no more than one place of the stack.
Once(fs, n) ==
  \A i, j \in DOMAIN fs : \A k \in DOMAIN fs[i], l \in DOMAIN fs[j] :
    fs[i][k] = n /\ fs[j][l] = n => i = j /\ k = l

\* The names of a stack by their places.
LEMMA NamesPlaces ==
  ASSUME NEW fs, NEW n
  PROVE  n \in Names(fs) <=> \E i \in DOMAIN fs : \E k \in DOMAIN fs[i] : fs[i][k] = n
BY DEF Names, Range

\* A stack without a call.
LEMMA NamesEmpty ==
  /\ Names(<<>>) = {}
  /\ \A n : Once(<<>>, n)
BY DEF Names, Once

\* Taking the next name of the innermost loop leaves the other names where they
\* are; one that stands at a single place is gone then.
LEMMA RestNames ==
  ASSUME NEW fs \in Frames, fs # <<>>
  PROVE  /\ Names(Rest(fs)) \subseteq Names(fs)
         /\ Head(Head(fs)) \in Names(fs)
         /\ \A n : Once(fs, n) => Once(Rest(fs), n)
         /\ Once(fs, Head(Head(fs))) => Head(Head(fs)) \notin Names(Rest(fs))
<1> DEFINE S  == Seq(Node) \ {<<>>}
           gs == Rest(fs)
<1>1. /\ fs \in Seq(S) /\ Len(fs) \in Nat /\ Len(fs) >= 1 /\ DOMAIN fs = 1..Len(fs)
      /\ Head(fs) = fs[1] /\ Tail(fs) \in Seq(S) /\ Len(Tail(fs)) = Len(fs) - 1
      /\ DOMAIN Tail(fs) = 1..(Len(fs) - 1)
      /\ \A i \in 1..(Len(fs) - 1) : Tail(fs)[i] = fs[i + 1]
  BY EmptySeq, LenProperties, HeadTailProperties DEF Frames
<1>2. /\ fs[1] \in S /\ fs[1] \in Seq(Node) /\ Len(fs[1]) \in Nat /\ Len(fs[1]) >= 1
      /\ DOMAIN fs[1] = 1..Len(fs[1]) /\ Head(fs[1]) = fs[1][1]
      /\ Tail(fs[1]) \in Seq(Node) /\ Len(Tail(fs[1])) = Len(fs[1]) - 1
      /\ DOMAIN Tail(fs[1]) = 1..(Len(fs[1]) - 1)
      /\ \A k \in 1..(Len(fs[1]) - 1) : Tail(fs[1])[k] = fs[1][k + 1]
  <2>1. fs[1] \in S
    BY <1>1, ElementOfSeq
  <2> QED
    BY <2>1, EmptySeq, LenProperties, HeadTailProperties
<1>3. Head(Head(fs)) = fs[1][1] /\ 1 \in DOMAIN fs /\ 1 \in DOMAIN fs[1]
  BY <1>1, <1>2
<1>4. Head(Head(fs)) \in Names(fs)
  BY <1>3, NamesPlaces
<1>5. CASE Len(fs[1]) = 1
  <2>1. /\ DOMAIN gs = 1..(Len(fs) - 1)
        /\ \A i \in DOMAIN gs : gs[i] = fs[i + 1] /\ i + 1 \in DOMAIN fs /\ i \in Int /\ i # 0
    BY <1>1, <1>5 DEF Rest
  <2> HIDE DEF gs
  <2>2. Names(gs) \subseteq Names(fs)
    BY <2>1, NamesPlaces
  <2>3. ASSUME NEW n, Once(fs, n) PROVE Once(gs, n)
    <3> SUFFICES ASSUME NEW i \in DOMAIN gs, NEW j \in DOMAIN gs,
                        NEW k \in DOMAIN gs[i], NEW l \in DOMAIN gs[j],
                        gs[i][k] = n, gs[j][l] = n
                 PROVE  i = j /\ k = l
      BY DEF Once
    <3>1. i + 1 = j + 1 /\ k = l
      BY <2>1, <2>3 DEF Once
    <3> QED
      BY <2>1, <3>1
  <2>4. ASSUME Once(fs, Head(Head(fs))) PROVE Head(Head(fs)) \notin Names(gs)
    <3> SUFFICES ASSUME NEW i \in DOMAIN gs, NEW k \in DOMAIN gs[i], gs[i][k] = fs[1][1]
                 PROVE  FALSE
      BY <1>3, NamesPlaces
    <3>1. i + 1 = 1
      BY <1>3, <2>1, <2>4 DEF Once
    <3> QED
      BY <2>1, <3>1
  <2> QED
    BY <1>4, <2>2, <2>3, <2>4 DEF gs
<1>6. CASE Len(fs[1]) # 1
  <2>0. gs = <<Tail(fs[1])>> \o Tail(fs)
    BY <1>1, <1>6 DEF Rest
  <2>1. /\ DOMAIN gs = DOMAIN fs
        /\ gs[1] = Tail(fs[1])
        /\ \A i \in DOMAIN fs \ {1} : gs[i] = fs[i]
    <3>1. <<Tail(fs[1])>> \in Seq(Seq(Node)) /\ Tail(fs) \in Seq(Seq(Node))
      BY <1>1, <1>2
    <3>2. /\ Len(<<Tail(fs[1])>>) = 1 /\ Len(gs) = 1 + Len(Tail(fs))
          /\ \A i \in 1..(1 + Len(Tail(fs))) :
               gs[i] = IF i <= 1 THEN <<Tail(fs[1])>>[i] ELSE Tail(fs)[i - 1]
          /\ gs \in Seq(Seq(Node))
      BY <2>0, <3>1, ConcatProperties
    <3> HIDE DEF gs
    <3>3. DOMAIN gs = 1..Len(fs)
      BY <1>1, <3>2, LenProperties
    <3>4. gs[1] = Tail(fs[1])
      BY <1>1, <3>2
    <3>5. ASSUME NEW i \in 1..Len(fs), i # 1 PROVE gs[i] = fs[i]
      <4>1. gs[i] = Tail(fs)[i - 1] /\ i - 1 \in 1..(Len(fs) - 1)
        BY <1>1, <3>2, <3>5
      <4> QED
        BY <1>1, <3>5, <4>1
    <3> QED
      BY <1>1, <3>3, <3>4, <3>5
  <2> HIDE DEF gs
  <2>2. \A k \in DOMAIN gs[1] : /\ gs[1][k] = fs[1][k + 1] /\ k + 1 \in DOMAIN fs[1]
                                /\ k \in Int /\ k # 0
    BY <1>2, <2>1
  <2>3. Names(gs) \subseteq Names(fs)
    <3> SUFFICES ASSUME NEW i \in DOMAIN gs, NEW k \in DOMAIN gs[i]
                 PROVE  \E j \in DOMAIN fs : \E l \in DOMAIN fs[j] : fs[j][l] = gs[i][k]
      BY NamesPlaces
    <3>1. CASE i = 1
      BY <1>3, <2>2, <3>1
    <3>2. CASE i # 1
      BY <2>1, <3>2
    <3> QED
      BY <3>1, <3>2
  <2>4. ASSUME NEW n, Once(fs, n) PROVE Once(gs, n)
    <3> SUFFICES ASSUME NEW i \in DOMAIN gs, NEW j \in DOMAIN gs,
                        NEW k \in DOMAIN gs[i], NEW l \in DOMAIN gs[j],
                        gs[i][k] = n, gs[j][l] = n
                 PROVE  i = j /\ k = l
      BY DEF Once
    <3>1. CASE i = 1 /\ j = 1
      <4>1. k + 1 = l + 1
        BY <1>3, <2>2, <2>4, <3>1 DEF Once
      <4> QED
        BY <2>2, <3>1, <4>1
    <3>2. CASE i = 1 /\ j # 1
      BY <1>3, <2>1, <2>2, <2>4, <3>2 DEF Once
    <3>3. CASE i # 1 /\ j = 1
      BY <1>3, <2>1, <2>2, <2>4, <3>3 DEF Once
    <3>4. CASE i # 1 /\ j # 1
      BY <2>1, <2>4, <3>4 DEF Once
    <3> QED
      BY <3>1, <3>2, <3>3, <3>4
  <2>5. ASSUME Once(fs, Head(Head(fs))) PROVE Head(Head(fs)) \notin Names(gs)
    <3> SUFFICES ASSUME NEW i \in DOMAIN gs, NEW k \in DOMAIN gs[i], gs[i][k] = fs[1][1]
                 PROVE  FALSE
      BY <1>3, NamesPlaces
    <3>1. CASE i = 1
      <4>1. k + 1 = 1
        BY <1>3, <2>2, <2>5, <3>1 DEF Once
      <4> QED
        BY <2>2, <3>1, <4>1
    <3>2. CASE i # 1
      BY <1>3, <2>1, <2>5, <3>2 DEF Once
    <3> QED
      BY <3>1, <3>2
  <2> QED
    BY <1>4, <2>3, <2>4, <2>5 DEF gs
<1> QED
  BY <1>5, <1>6

\* A loop that is abandoned takes its names with it.
LEMMA TailNames ==
  ASSUME NEW fs \in Frames, fs # <<>>
  PROVE  /\ Names(Tail(fs)) \subseteq Names(fs)
         /\ \A n : Once(fs, n) => Once(Tail(fs), n)
<1> DEFINE gs == Tail(fs)
<1>1. /\ DOMAIN gs = 1..(Len(fs) - 1) /\ DOMAIN fs = 1..Len(fs) /\ Len(fs) \in Nat
      /\ \A i \in 1..(Len(fs) - 1) : gs[i] = fs[i + 1]
  BY EmptySeq, LenProperties, HeadTailProperties DEF Frames
<1>2. \A i \in DOMAIN gs : gs[i] = fs[i + 1] /\ i + 1 \in DOMAIN fs /\ i \in Int
  BY <1>1
<1> HIDE DEF gs
<1>3. Names(gs) \subseteq Names(fs)
  BY <1>2, NamesPlaces
<1>4. ASSUME NEW n, Once(fs, n) PROVE Once(gs, n)
  <2> SUFFICES ASSUME NEW i \in DOMAIN gs, NEW j \in DOMAIN gs,
                      NEW k \in DOMAIN gs[i], NEW l \in DOMAIN gs[j],
                      gs[i][k] = n, gs[j][l] = n
               PROVE  i = j /\ k = l
    BY DEF Once
  <2>1. i + 1 = j + 1 /\ k = l
    BY <1>2, <1>4 DEF Once
  <2> QED
    BY <1>2, <2>1
<1> QED
  BY <1>3, <1>4 DEF gs

\* A call of processNextNodes adds its names.
LEMMA PushNames ==
  ASSUME NEW names \in Seq(Node), NEW fs \in Frames
  PROVE  /\ Names(Push(names, fs)) = Range(names) \cup Names(fs)
         /\ \A n : /\ Once(fs, n)
                   /\ \A i, k \in DOMAIN names : names[i] = n /\ names[k] = n => i = k
                   /\ n \notin Range(names) \/ n \notin Names(fs)
                   => Once(Push(names, fs), n)
<1> DEFINE gs == Push(names, fs)
<1>1. CASE names = <<>>
  BY <1>1 DEF Push, Range
<1>2. CASE names # <<>>
  <2>1. /\ Len(fs) \in Nat /\ DOMAIN fs = 1..Len(fs)
        /\ gs = <<names>> \o fs
    BY <1>2, LenProperties DEF Frames, Push
  <2>2. /\ Len(gs) = 1 + Len(fs) /\ gs \in Seq(Seq(Node))
        /\ \A i \in 1..(1 + Len(fs)) : gs[i] = IF i <= 1 THEN <<names>>[i] ELSE fs[i - 1]
    <3>1. <<names>> \in Seq(Seq(Node)) /\ fs \in Seq(Seq(Node)) /\ Len(<<names>>) = 1
      BY DEF Frames
    <3> QED
      BY <2>1, <3>1, ConcatProperties
  <2> HIDE DEF gs
  <2>3. /\ DOMAIN gs = 1..(1 + Len(fs)) /\ 1 \in DOMAIN gs
        /\ gs[1] = names
        /\ \A i \in DOMAIN gs \ {1} : gs[i] = fs[i - 1] /\ i - 1 \in DOMAIN fs /\ i \in Int
        /\ \A i \in DOMAIN fs : i + 1 \in DOMAIN gs /\ gs[i + 1] = fs[i] /\ i \in Int
    <3>1. DOMAIN gs = 1..(1 + Len(fs)) /\ 1 \in DOMAIN gs
      BY <2>1, <2>2, LenProperties
    <3>2. gs[1] = names
      BY <2>2, <3>1
    <3>3. ASSUME NEW i \in DOMAIN gs, i # 1
          PROVE  gs[i] = fs[i - 1] /\ i - 1 \in DOMAIN fs /\ i \in Int
      BY <2>1, <2>2, <3>1, <3>3
    <3>4. ASSUME NEW i \in DOMAIN fs
          PROVE  i + 1 \in DOMAIN gs /\ gs[i + 1] = fs[i] /\ i \in Int
      <4>1. i \in Int /\ i + 1 \in DOMAIN gs /\ i + 1 # 1 /\ (i + 1) - 1 = i
        BY <2>1, <3>1
      <4> QED
        BY <3>3, <4>1
    <3> QED
      BY <3>1, <3>2, <3>3, <3>4
  <2>4. Names(gs) \subseteq Range(names) \cup Names(fs)
    <3> SUFFICES ASSUME NEW i \in DOMAIN gs, NEW k \in DOMAIN gs[i]
                 PROVE  gs[i][k] \in Range(names) \cup Names(fs)
      BY NamesPlaces
    <3>1. CASE i = 1
      BY <2>3, <3>1 DEF Range
    <3>2. CASE i # 1
      BY <2>3, <3>2, NamesPlaces
    <3> QED
      BY <3>1, <3>2
  <2>5. Range(names) \subseteq Names(gs)
    BY <2>3, NamesPlaces DEF Range
  <2>6. Names(fs) \subseteq Names(gs)
    <3> SUFFICES ASSUME NEW i \in DOMAIN fs, NEW k \in DOMAIN fs[i]
                 PROVE  fs[i][k] \in Names(gs)
      BY NamesPlaces
    <3>1. i + 1 \in DOMAIN gs /\ gs[i + 1] = fs[i]
      BY <2>3
    <3> QED
      BY <3>1, NamesPlaces
  <2>7. ASSUME NEW n, Once(fs, n),
               \A i, k \in DOMAIN names : names[i] = n /\ names[k] = n => i = k,
               n \notin Range(names) \/ n \notin Names(fs)
        PROVE  Once(gs, n)
    <3> SUFFICES ASSUME NEW i \in DOMAIN gs, NEW j \in DOMAIN gs,
                        NEW k \in DOMAIN gs[i], NEW l \in DOMAIN gs[j],
                        gs[i][k] = n, gs[j][l] = n
                 PROVE  i = j /\ k = l
      BY DEF Once
    <3>1. CASE i = 1 /\ j = 1
      BY <2>3, <2>7, <3>1
    <3>2. CASE i = 1 /\ j # 1
      BY <2>3, <2>7, <3>2, NamesPlaces DEF Range
    <3>3. CASE i # 1 /\ j = 1
      BY <2>3, <2>7, <3>3, NamesPlaces DEF Range
    <3>4. CASE i # 1 /\ j # 1
      <4>1. i - 1 = j - 1 /\ k = l
        BY <2>3, <2>7, <3>4 DEF Once
      <4> QED
        BY <2>3, <3>4, <4>1
    <3> QED
      BY <3>1, <3>2, <3>3, <3>4
  <2> QED
    BY <2>4, <2>5, <2>6, <2>7 DEF gs
<1> QED
  BY <1>1, <1>2

-----------------------------------------------------------------------------
(* What a run has reached and passed. *)

\* The actions and forks that some thread still has to process for run r.
Pend(r) == {n \in Dispatching : \E t \in Thread : on[t] = r /\ n \in Names(frames[t])}

\* The RPC thread has completed the node of x, or is about to walk on from it.
Exited(x) == x \notin info \/ completing["rpc"] = x

Done(r) == {n \in Node : \E x \in Exec : owner[x] = r /\ node[x] = n}
Left(r) == {n \in Node : \E x \in Exec : owner[x] = r /\ node[x] = n /\ Exited(x)}

Reach(r) == {n \in Node : \/ Plan[n].type = "start"
                          \/ n \in Pend(r)
                          \/ n \in Done(r)
                          \/ Plan[n].type = "join" /\ forkCount[r][n] # 0}

Pass(r) == {n \in Node : /\ Plan[n].type = "start" => status[r] # "PREP"
                         /\ Plan[n].type = "fork" => n \notin Pend(r)
                         /\ Plan[n].type = "action" => n \in Left(r)
                         /\ Plan[n].type = "join" => forkCount[r][n] = 0}

\* Whatever lies before a node that was reached has been passed.
Order == \A r \in Run : Ordered(Reach(r), Pass(r))

\* A thread that walks no graph has no stack; the timer's holds ends only, and
\* the timer dispatches nothing and joins nothing.
Stacks ==
  /\ \A t \in Thread : pc[t] \notin WalkPC => frames[t] = <<>>
  /\ \A n \in Names(frames["timer"]) : Plan[n].type \in {"end", "fail"}
  /\ pc["timer"] # "idle" => "timer" \in Features
  /\ pc["timer"] \notin {"notify", "joinSet"}

\* No action or fork stands on a stack twice.
Places == \A t \in Thread : \A n \in Dispatching : Once(frames[t], n)

\* The RPC thread works on the run of the execution that it completes, and
\* completes none when it waits for a report.
Handling ==
  /\ pc["rpc"] \in WalkPC => owner[completing["rpc"]] = on["rpc"]
  /\ pc["rpc"] \notin WalkPC => completing["rpc"] = NoExec

\* A count that was read is not stale when it is written back.
Counting ==
  \A t \in Thread : pc[t] = "joinSet" =>
    /\ Plan[Current(t)].type = "join"
    /\ forkCount[on[t]][Current(t)] = val[t] + 1

\* What is executed is an action, and in a run it is not pending any more.
Apart ==
  /\ \A x \in Exec : node[x] # NoNode => Plan[node[x]].type = "action"
  /\ \A r \in Run : Done(r) \cap Pend(r) = {}

OInv == Stacks /\ Places /\ Handling /\ Counting /\ Apart /\ ExecutedOnce /\ Order

-----------------------------------------------------------------------------
(* The stacks. *)

\* The name a thread is about to process stands on its stack.
LEMMA CurrentNamed ==
  ASSUME IInv, NEW t \in Thread, frames[t] # <<>>
  PROVE  /\ frames[t] \in Frames /\ Current(t) \in Node
         /\ Current(t) \in Names(frames[t])
         /\ Rest(frames[t]) \in Frames
         /\ Names(Rest(frames[t])) \subseteq Names(frames[t])
         /\ Names(Tail(frames[t])) \subseteq Names(frames[t])
         /\ \A n : Once(frames[t], n) => Once(Rest(frames[t]), n) /\ Once(Tail(frames[t]), n)
         /\ Once(frames[t], Current(t)) => Current(t) \notin Names(Rest(frames[t]))
<1>1. frames[t] \in Frames /\ Current(t) \in Node /\ Rest(frames[t]) \in Frames
  BY CurrentType DEF IInv
<1> QED
  BY <1>1, RestNames, TailNames DEF Current

\* A thread that meets an action, fork or join is not the timer.
LEMMA NotTimer ==
  ASSUME IInv, Stacks, NEW t \in Thread,
         \/ pc[t] \in {"notify", "joinSet"}
         \/ At(t, "action") \/ At(t, "fork") \/ At(t, "join")
  PROVE  t # "timer"
<1>1. CASE pc[t] \in {"notify", "joinSet"}
  BY <1>1 DEF Stacks
<1>2. CASE At(t, "action") \/ At(t, "fork") \/ At(t, "join")
  <2>1. frames[t] # <<>> /\ Plan[Current(t)].type \in {"action", "fork", "join"}
    BY <1>2 DEF At, Current
  <2>2. Current(t) \in Names(frames[t])
    BY <2>1, CurrentNamed
  <2> QED
    BY <2>1, <2>2 DEF Stacks
<1> QED
  BY <1>1, <1>2

\* Besides the timer no two threads walk the same instance.
LEMMA Alone ==
  ASSUME IInv, NEW t \in Thread, NEW u \in Thread, t # "timer", u # "timer",
         pc[t] \in WalkPC, pc[u] \in WalkPC, on[t] = on[u]
  PROVE  t = u
<1>1. ASSUME NEW v \in Thread, v # "timer", pc[v] \in WalkPC PROVE v \in Run \/ v = "rpc"
  BY <1>1, ThreadNames DEF IInv, Located
<1>2. ASSUME NEW v \in Run, NEW w \in Thread, w # v, pc[v] \in WalkPC PROVE on[w] # on[v]
  BY <1>2 DEF IInv, OwnRun, Private
<1> QED
  BY <1>1, <1>2

\* The walk of the timer comes to its end.
LEMMA StacksTimer ==
  ASSUME IInv, Stacks, ProcessNextNodes("timer")
  PROVE  /\ Names(frames'["timer"]) \subseteq Names(frames["timer"])
         /\ pc'["timer"] \in {"walk", "setSucceeded", "setFailed"}
<1> DEFINE t == "timer"
<1>t. /\ t \in Thread /\ frames \in [Thread -> Frames] /\ pc \in [Thread -> PC]
  BY ThreadNames DEF IInv, TypeOK, Frames
<1>1. CASE EnterAction(t)
  BY <1>1, <1>t, NotTimer DEF EnterAction
<1>2. CASE NotifySuccess(t) \/ JoinWrite(t)
  BY <1>2, <1>t, NotTimer DEF NotifySuccess, JoinWrite
<1>3. CASE SkipSignal(t) \/ Fork(t) \/ JoinRead(t)
  BY <1>3, <1>t, NotTimer DEF SkipSignal, Fork, JoinRead
<1>4. CASE EnterEnd(t) \/ EnterFail(t)
  <2>1. frames'[t] = Rest(frames[t]) /\ frames[t] # <<>>
        /\ pc'[t] \in {"walk", "setSucceeded", "setFailed"}
    BY <1>4, <1>t DEF EnterEnd, EnterFail, At, Goto
  <2> QED
    BY <1>t, <2>1, CurrentNamed
<1>5. CASE EndNodeThrows(t)
  <2>1. frames'[t] = Tail(frames[t]) /\ frames[t] # <<>> /\ pc'[t] = "walk"
    BY <1>5, <1>t DEF EndNodeThrows, At
  <2> QED
    BY <1>t, <2>1, CurrentNamed
<1>6. CASE SetEndStatus(t)
  BY <1>6, <1>t DEF SetEndStatus, Goto
<1> QED
  BY <1>1, <1>2, <1>3, <1>4, <1>5, <1>6 DEF ProcessNextNodes

\* What an overdue action leads to is an end.
LEMMA TimeOutEnds ==
  ASSUME ErrorsEnd, "timer" \in Features, NEW n \in Node, Plan[n].type = "action",
         NEW m \in Names(Push(ExitTo(n, "RESULT_ERROR"), <<>>))
  PROVE  Plan[m].type \in {"end", "fail"}
<1>1. ExitTo(n, "RESULT_ERROR") = Plan[n].error /\ Plan[n].error \in Seq(Node)
  BY PlanType DEF ExitTo
<1>2. <<>> \in Frames
  BY EmptySeq DEF Frames
<1>3. m \in Range(Plan[n].error)
  BY <1>1, <1>2, PushNames, NamesEmpty
<1> QED
  BY <1>3 DEF ErrorsEnd

\* Every step keeps the stacks in order.
LEMMA StacksStep ==
  ASSUME ErrorsEnd, IInv, Stacks, Apart, [Next]_vars
  PROVE  Stacks'
<1>t. /\ frames \in [Thread -> Frames] /\ pc \in [Thread -> PC]
      /\ "timer" \in Thread /\ "rpc" \in Thread /\ "web" \in Thread /\ Run \subseteq Thread
      /\ "timer" \notin Run
  BY ThreadNames DEF IInv, TypeOK, Frames
<1>w. /\ "walk" \in WalkPC /\ "idle" \notin WalkPC /\ "scan" \notin WalkPC
      /\ "onceUpdate" \notin WalkPC
  BY DEF WalkPC
<1>a. ASSUME UNCHANGED <<pc, frames>> PROVE Stacks'
  BY <1>a DEF Stacks
<1>1. ASSUME NEW r \in Run, StartJobPlan(r) PROVE Stacks'
  <2>1. /\ pc'[r] = "walk"
        /\ \A t \in Thread \ {r} : pc'[t] = pc[t] /\ frames'[t] = frames[t]
    BY <1>1, <1>t DEF StartJobPlan, EnterStart, Goto
  <2> QED
    BY <1>t, <1>w, <2>1 DEF Stacks
<1>2. ASSUME NEW r \in Run, AddWorkflow(r) PROVE Stacks'
  <2>1. frames' = frames /\ frames[r] = <<>> /\ \A t \in Thread \ {r} : pc'[t] = pc[t]
    BY <1>2, <1>t DEF AddWorkflow, WalkDone, Goto
  <2> QED
    BY <1>t, <2>1 DEF Stacks
<1>3. ASSUME NEW r \in Run, TimerQuery(r) PROVE Stacks'
  <2>1. /\ frames' = frames /\ "timer" \in Features /\ pc["timer"] = "idle"
        /\ pc'["timer"] = "scan" /\ \A t \in Thread \ {"timer"} : pc'[t] = pc[t]
    BY <1>3, <1>t DEF TimerQuery, Goto
  <2> QED
    BY <1>t, <1>w, <2>1 DEF Stacks
<1>4. ASSUME NEW t \in Thread, ProcessNextNodes(t) PROVE Stacks'
  <2>1. /\ pc'[t] \in WalkPC /\ pc[t] \in WalkPC
        /\ \A u \in Thread \ {t} : pc'[u] = pc[u] /\ frames'[u] = frames[u]
    BY <1>4, WalkFrame
  <2>2. CASE t # "timer"
    BY <1>t, <2>1, <2>2 DEF Stacks
  <2>3. CASE t = "timer"
    <3>1. /\ Names(frames'["timer"]) \subseteq Names(frames["timer"])
          /\ pc'["timer"] \in {"walk", "setSucceeded", "setFailed"}
      BY <1>4, <2>3, StacksTimer
    <3> QED
      BY <1>t, <1>w, <2>1, <2>3, <3>1 DEF Stacks
  <2> QED
    BY <2>2, <2>3
<1>5. ASSUME NEW x \in Exec, HandleOnce(x) \/ HandleForgotten(x) \/ Answer(x) PROVE Stacks'
  BY <1>5, <1>a DEF HandleOnce, HandleForgotten, Answer, local
<1>6. ASSUME NEW x \in Exec, HandleProgress(x) PROVE Stacks'
  <2>1. /\ pc'["rpc"] = "walk"
        /\ \A t \in Thread \ {"rpc"} : pc'[t] = pc[t] /\ frames'[t] = frames[t]
    BY <1>6, <1>t DEF HandleProgress, CompleteJobPlanNode, Goto
  <2> QED
    BY <1>t, <1>w, <2>1 DEF Stacks
<1>7. ASSUME NEW x \in Exec, NotOverdue(x) \/ Overdue(x) PROVE Stacks'
  <2>1. /\ frames' = frames /\ pc["timer"] = "scan" /\ pc'["timer"] \in {"idle", "scan"}
        /\ \A t \in Thread \ {"timer"} : pc'[t] = pc[t]
    BY <1>7, <1>t DEF NotOverdue, Overdue, ScanOn, Goto
  <2> QED
    BY <1>t, <1>w, <2>1 DEF Stacks
<1>8. ASSUME NEW x \in Exec, TimeOutKill(x) PROVE Stacks'
  <2>1. /\ pc'["timer"] = "walk" /\ pc["timer"] = "scan" /\ x \in scan
        /\ \A t \in Thread \ {"timer"} : pc'[t] = pc[t] /\ frames'[t] = frames[t]
        /\ \/ frames'["timer"] = <<>>
           \/ frames'["timer"] = Push(ExitTo(node[x], "RESULT_ERROR"), <<>>)
    BY <1>8, <1>t DEF TimeOutKill, CompleteJobPlanNode, Goto
  <2>2. node[x] \in Node /\ Plan[node[x]].type = "action" /\ "timer" \in Features
    BY <2>1 DEF IInv, TypeOK, ScanOwned, Apart, Stacks
  <2>3. \A n \in Names(frames'["timer"]) : Plan[n].type \in {"end", "fail"}
    BY <2>1, <2>2, TimeOutEnds, NamesEmpty
  <2> QED
    BY <1>t, <1>w, <2>1, <2>2, <2>3 DEF Stacks
<1>9. CASE FinishProgress
  <2>1. frames' = frames /\ frames["rpc"] = <<>>
        /\ \A t \in Thread \ {"rpc"} : pc'[t] = pc[t]
    BY <1>9, <1>t DEF FinishProgress, WalkDone, Goto
  <2> QED
    BY <1>t, <2>1 DEF Stacks
<1>10. CASE FinishTimeOut
  <2>1. /\ frames' = frames /\ frames["timer"] = <<>> /\ pc["timer"] = "walk"
        /\ pc'["timer"] \in {"idle", "scan"}
        /\ \A t \in Thread \ {"timer"} : pc'[t] = pc[t]
    BY <1>10, <1>t DEF FinishTimeOut, WalkDone, ScanOn, Goto
  <2> QED
    BY <1>t, <2>1 DEF Stacks
<1>11. ASSUME NEW n \in Node, ExecuteOnce(n) PROVE Stacks'
  <2>1. /\ frames' = frames /\ pc["web"] = "idle"
        /\ \A t \in Thread \ {"web"} : pc'[t] = pc[t]
    BY <1>11, <1>t DEF ExecuteOnce, Goto
  <2> QED
    BY <1>t, <1>w, <2>1 DEF Stacks
<1>12. CASE OnceUpdate
  <2>1. /\ frames' = frames /\ pc["web"] = "onceUpdate"
        /\ \A t \in Thread \ {"web"} : pc'[t] = pc[t]
    BY <1>12, <1>t DEF OnceUpdate, Goto
  <2> QED
    BY <1>t, <1>w, <2>1 DEF Stacks
<1>13. CASE UNCHANGED vars
  BY <1>13, <1>a DEF vars, local
<1> QED
  BY <1>1, <1>2, <1>3, <1>4, <1>5, <1>6, <1>7, <1>8, <1>9, <1>10, <1>11, <1>12, <1>13, NextCases

-----------------------------------------------------------------------------
(* The RPC thread and the counts. *)

\* An execution belongs to its run and its node for good.
LEMMA OwnerKept ==
  ASSUME IInv, [Next]_vars, NEW x \in Exec, owner[x] # NoRun
  PROVE  owner'[x] = owner[x] /\ node'[x] = node[x]
<1>f. (\E y \in Exec : node[y] = NoNode) => x # Fresh
  BY FreshType DEF IInv, ScanOwned
<1>t. owner \in [Exec -> Run \cup {NoRun}] /\ node \in [Exec -> Node \cup {NoNode}]
  BY DEF IInv, TypeOK
<1>1. ASSUME NEW t \in Thread, ProcessNextNodes(t)
      PROVE  owner'[x] = owner[x] /\ node'[x] = node[x]
  <2>1. CASE EnterAction(t)
    BY <1>f, <1>t, <2>1 DEF EnterAction, executeXJob
  <2>2. CASE ~EnterAction(t)
    BY <1>1, <2>2 DEF ProcessNextNodes, NotifySuccess, SkipSignal, Fork, JoinRead, JoinWrite,
                      EnterEnd, EnterFail, EndNodeThrows, SetEndStatus, execs
  <2> QED
    BY <2>1, <2>2
<1>2. ASSUME NEW r \in Run, StartJobPlan(r) \/ AddWorkflow(r) \/ TimerQuery(r)
      PROVE  owner'[x] = owner[x] /\ node'[x] = node[x]
  BY <1>2 DEF StartJobPlan, AddWorkflow, TimerQuery, execs
<1>3. ASSUME NEW y \in Exec, \/ HandleOnce(y) \/ HandleForgotten(y) \/ HandleProgress(y)
                             \/ NotOverdue(y) \/ Overdue(y) \/ TimeOutKill(y) \/ Answer(y)
      PROVE  owner'[x] = owner[x] /\ node'[x] = node[x]
  BY <1>3 DEF HandleOnce, HandleForgotten, HandleProgress, NotOverdue, Overdue, TimeOutKill,
              Answer, execs
<1>4. CASE FinishProgress \/ FinishTimeOut \/ OnceUpdate
  BY <1>4 DEF FinishProgress, FinishTimeOut, OnceUpdate
<1>5. ASSUME NEW n \in Node, ExecuteOnce(n)
      PROVE  owner'[x] = owner[x] /\ node'[x] = node[x]
  BY <1>5, <1>f, <1>t DEF ExecuteOnce, executeXJob
<1>6. CASE UNCHANGED vars
  BY <1>6 DEF vars, execs
<1> QED
  BY <1>1, <1>2, <1>3, <1>4, <1>5, <1>6, NextCases

\* A step of the walk completes nothing, and changes no count but one of the
\* run that the thread works on.
LEMMA WalkCounts ==
  ASSUME IInv, Stacks, NEW t \in Thread, ProcessNextNodes(t)
  PROVE  /\ completing' = completing
         /\ \A u \in Thread \ {t} : val'[u] = val[u]
         /\ \A r \in Run : forkCount'[r] = forkCount[r] \/ (r = on[t] /\ t # "timer")
<1>t. val \in [Thread -> Nat] /\ forkCount \in [Run -> [Node -> Nat]] /\ on[t] \in Run
  BY WalkFrame DEF IInv, TypeOK
<1>1. CASE Fork(t)
  BY <1>1, <1>t, NotTimer DEF Fork
<1>2. CASE JoinWrite(t)
  BY <1>2, <1>t, NotTimer DEF JoinWrite
<1>3. CASE JoinRead(t)
  BY <1>3, <1>t DEF JoinRead
<1>4. CASE \/ EnterAction(t) \/ NotifySuccess(t) \/ SkipSignal(t) \/ EnterEnd(t)
           \/ EnterFail(t) \/ EndNodeThrows(t) \/ SetEndStatus(t)
  BY <1>4 DEF EnterAction, NotifySuccess, SkipSignal, EnterEnd, EnterFail, EndNodeThrows,
              SetEndStatus, inst
<1> QED
  BY <1>1, <1>2, <1>3, <1>4 DEF ProcessNextNodes

\* The RPC thread keeps to the run of the execution it completes.
LEMMA HandlingStep ==
  ASSUME IInv, Stacks, Handling, [Next]_vars
  PROVE  Handling'
<1>t. /\ pc \in [Thread -> PC] /\ on \in [Thread -> Run \cup {NoRun}]
      /\ completing \in [Thread -> Exec \cup {NoExec}]
      /\ "timer" \in Thread /\ "rpc" \in Thread /\ "web" \in Thread /\ Run \subseteq Thread
      /\ "rpc" \notin Run /\ NoRun \notin Run
  BY ThreadNames DEF IInv, TypeOK
<1>w. "walk" \in WalkPC /\ "idle" \notin WalkPC
  BY DEF WalkPC
<1>c. pc["rpc"] \in WalkPC => completing["rpc"] \in Exec /\ on["rpc"] \in Run
  BY <1>t DEF IInv, Located
<1>o. pc["rpc"] \in WalkPC => owner'[completing["rpc"]] = on["rpc"]
  BY <1>t, <1>c, OwnerKept DEF Handling
<1>a. ASSUME pc'["rpc"] \in WalkPC <=> pc["rpc"] \in WalkPC,
             completing'["rpc"] = completing["rpc"], on'["rpc"] = on["rpc"]
      PROVE  Handling'
  BY <1>a, <1>o DEF Handling
<1>1. ASSUME NEW r \in Run, StartJobPlan(r) \/ AddWorkflow(r) PROVE Handling'
  <2>1. pc'["rpc"] = pc["rpc"] /\ completing' = completing /\ on'["rpc"] = on["rpc"]
    BY <1>1, <1>t DEF StartJobPlan, AddWorkflow, Goto
  <2> QED
    BY <1>a, <2>1
<1>2. ASSUME NEW r \in Run, TimerQuery(r) PROVE Handling'
  <2>1. pc'["rpc"] = pc["rpc"] /\ completing' = completing /\ on'["rpc"] = on["rpc"]
    BY <1>2, <1>t DEF TimerQuery, Goto
  <2> QED
    BY <1>a, <2>1
<1>3. ASSUME NEW t \in Thread, ProcessNextNodes(t) PROVE Handling'
  <2>1. /\ completing' = completing /\ on' = on /\ pc[t] \in WalkPC /\ pc'[t] \in WalkPC
        /\ \A u \in Thread \ {t} : pc'[u] = pc[u]
    BY <1>3, WalkFrame, WalkCounts
  <2> QED
    BY <1>a, <1>t, <2>1
<1>4. ASSUME NEW x \in Exec, HandleOnce(x) \/ HandleForgotten(x) \/ Answer(x) PROVE Handling'
  BY <1>4, <1>a DEF HandleOnce, HandleForgotten, Answer, local
<1>5. ASSUME NEW x \in Exec, HandleProgress(x) PROVE Handling'
  BY <1>5, <1>t, <1>w DEF HandleProgress, CompleteJobPlanNode, Goto, Handling
<1>6. ASSUME NEW x \in Exec, NotOverdue(x) \/ Overdue(x) \/ TimeOutKill(x) PROVE Handling'
  <2>1. pc'["rpc"] = pc["rpc"] /\ completing'["rpc"] = completing["rpc"] /\ on'["rpc"] = on["rpc"]
    BY <1>6, <1>t DEF NotOverdue, Overdue, TimeOutKill, CompleteJobPlanNode, ScanOn, Goto
  <2> QED
    BY <1>a, <2>1
<1>7. CASE FinishProgress
  BY <1>7, <1>t, <1>w DEF FinishProgress, Goto, Handling
<1>8. CASE FinishTimeOut
  <2>1. pc'["rpc"] = pc["rpc"] /\ completing'["rpc"] = completing["rpc"] /\ on'["rpc"] = on["rpc"]
    BY <1>8, <1>t DEF FinishTimeOut, ScanOn, Goto
  <2> QED
    BY <1>a, <2>1
<1>9. ASSUME NEW n \in Node, ExecuteOnce(n) PROVE Handling'
  <2>1. pc'["rpc"] = pc["rpc"] /\ completing' = completing /\ on' = on
    BY <1>9, <1>t DEF ExecuteOnce, Goto
  <2> QED
    BY <1>a, <2>1
<1>10. CASE OnceUpdate
  <2>1. pc'["rpc"] = pc["rpc"] /\ completing' = completing /\ on' = on
    BY <1>10, <1>t DEF OnceUpdate, Goto
  <2> QED
    BY <1>a, <2>1
<1>11. CASE UNCHANGED vars
  BY <1>11, <1>a DEF vars, local
<1> QED
  BY <1>1, <1>2, <1>3, <1>4, <1>5, <1>6, <1>7, <1>8, <1>9, <1>10, <1>11, NextCases

\* A thread that is about to write a count is left alone.
LEMMA CountingFrame ==
  ASSUME Counting, UNCHANGED forkCount,
         \A t \in Thread : pc'[t] = "joinSet" =>
           /\ pc[t] = "joinSet" /\ frames'[t] = frames[t] /\ on'[t] = on[t] /\ val'[t] = val[t]
  PROVE  Counting'
BY DEF Counting, Current

\* Nobody else writes the count between a join's read and its write.
LEMMA CountingWalk ==
  ASSUME IInv, Stacks, Counting, NEW t \in Thread, ProcessNextNodes(t)
  PROVE  Counting'
<1>t. /\ val \in [Thread -> Nat] /\ forkCount \in [Run -> [Node -> Nat]]
      /\ pc \in [Thread -> PC] /\ frames \in [Thread -> Frames]
  BY DEF IInv, TypeOK, Frames
<1>0. /\ on[t] \in Run /\ pc[t] \in WalkPC /\ on' = on
      /\ \A u \in Thread \ {t} : /\ pc'[u] = pc[u] /\ frames'[u] = frames[u]
                                 /\ val'[u] = val[u]
      /\ \A r \in Run : forkCount'[r] = forkCount[r] \/ (r = on[t] /\ t # "timer")
  BY WalkFrame, WalkCounts
<1>1. ASSUME NEW u \in Thread, u # t, pc'[u] = "joinSet"
      PROVE  /\ Plan[Current(u)'].type = "join"
             /\ forkCount'[on'[u]][Current(u)'] = val'[u] + 1
  <2>1. pc[u] = "joinSet" /\ Current(u)' = Current(u) /\ on'[u] = on[u] /\ val'[u] = val[u]
    BY <1>0, <1>1 DEF Current
  <2>2. u # "timer" /\ pc[u] \in WalkPC /\ on[u] \in Run
    BY <2>1, NotTimer DEF WalkPC, IInv, Located
  <2>3. forkCount'[on[u]] = forkCount[on[u]]
    BY <1>0, <1>1, <2>2, Alone
  <2> QED
    BY <2>1, <2>3 DEF Counting
<1>2. ASSUME pc'[t] = "joinSet"
      PROVE  /\ Plan[Current(t)'].type = "join"
             /\ forkCount'[on'[t]][Current(t)'] = val'[t] + 1
  <2>1. JoinRead(t)
    BY <1>2, <1>t DEF ProcessNextNodes, EnterAction, NotifySuccess, SkipSignal, Fork, JoinWrite,
                      EnterEnd, EnterFail, EndNodeThrows, SetEndStatus, At, Goto
  <2>2. /\ frames' = frames /\ forkCount' = forkCount /\ At(t, "join")
        /\ val'[t] = forkCount[on[t]][Current(t)] - 1
    BY <1>2, <1>t, <2>1 DEF JoinRead, At
  <2>3. Plan[Current(t)].type = "join" /\ Current(t) \in Node /\ Current(t)' = Current(t)
    BY <2>2, CurrentNamed DEF At, Current
  <2>4. forkCount[on[t]][Current(t)] \in Nat
    BY <1>0, <1>t, <2>3
  <2> QED
    BY <1>0, <2>2, <2>3, <2>4
<1> QED
  BY <1>1, <1>2 DEF Counting

\* Nor does any other step disturb it.
LEMMA CountingStep ==
  ASSUME IInv, Stacks, Counting, [Next]_vars
  PROVE  Counting'
<1>t. /\ pc \in [Thread -> PC] /\ frames \in [Thread -> Frames]
      /\ on \in [Thread -> Run \cup {NoRun}]
      /\ "timer" \in Thread /\ "rpc" \in Thread /\ "web" \in Thread /\ Run \subseteq Thread
  BY ThreadNames DEF IInv, TypeOK, Frames
<1>1. ASSUME NEW r \in Run, StartJobPlan(r) PROVE Counting'
  <2>1. /\ forkCount' = forkCount /\ val' = val /\ pc'[r] = "walk"
        /\ \A t \in Thread \ {r} : pc'[t] = pc[t] /\ frames'[t] = frames[t] /\ on'[t] = on[t]
    BY <1>1, <1>t DEF StartJobPlan, EnterStart, Goto
  <2> QED
    BY <2>1, CountingFrame
<1>2. ASSUME NEW r \in Run, AddWorkflow(r) PROVE Counting'
  <2>1. /\ forkCount' = forkCount /\ val' = val /\ pc'[r] = "idle" /\ frames' = frames
        /\ \A t \in Thread \ {r} : pc'[t] = pc[t] /\ on'[t] = on[t]
    BY <1>2, <1>t DEF AddWorkflow, Goto
  <2> QED
    BY <2>1, CountingFrame
<1>3. ASSUME NEW r \in Run, TimerQuery(r) PROVE Counting'
  <2>1. /\ forkCount' = forkCount /\ val' = val /\ pc'["timer"] = "scan" /\ frames' = frames
        /\ \A t \in Thread \ {"timer"} : pc'[t] = pc[t] /\ on'[t] = on[t]
    BY <1>3, <1>t DEF TimerQuery, Goto, inst
  <2> QED
    BY <2>1, CountingFrame
<1>4. ASSUME NEW t \in Thread, ProcessNextNodes(t) PROVE Counting'
  BY <1>4, CountingWalk
<1>5. ASSUME NEW x \in Exec, HandleOnce(x) \/ HandleForgotten(x) \/ Answer(x) PROVE Counting'
  BY <1>5, CountingFrame DEF HandleOnce, HandleForgotten, Answer, local, inst
<1>6. ASSUME NEW x \in Exec, HandleProgress(x) PROVE Counting'
  <2>1. /\ forkCount' = forkCount /\ val' = val /\ pc'["rpc"] = "walk"
        /\ \A t \in Thread \ {"rpc"} : pc'[t] = pc[t] /\ frames'[t] = frames[t] /\ on'[t] = on[t]
    BY <1>6, <1>t DEF HandleProgress, CompleteJobPlanNode, Goto
  <2> QED
    BY <2>1, CountingFrame
<1>7. ASSUME NEW x \in Exec, NotOverdue(x) \/ Overdue(x) PROVE Counting'
  <2>1. /\ forkCount' = forkCount /\ val' = val /\ pc'["timer"] \in {"idle", "scan"}
        /\ frames' = frames
        /\ \A t \in Thread \ {"timer"} : pc'[t] = pc[t] /\ on'[t] = on[t]
    BY <1>7, <1>t DEF NotOverdue, Overdue, ScanOn, Goto, inst
  <2> QED
    BY <2>1, CountingFrame
<1>8. ASSUME NEW x \in Exec, TimeOutKill(x) PROVE Counting'
  <2>1. /\ forkCount' = forkCount /\ val' = val /\ pc'["timer"] = "walk"
        /\ \A t \in Thread \ {"timer"} : pc'[t] = pc[t] /\ frames'[t] = frames[t] /\ on'[t] = on[t]
    BY <1>8, <1>t DEF TimeOutKill, CompleteJobPlanNode, Goto
  <2> QED
    BY <2>1, CountingFrame
<1>9. CASE FinishProgress
  <2>1. /\ forkCount' = forkCount /\ val' = val /\ pc'["rpc"] = "idle" /\ frames' = frames
        /\ \A t \in Thread \ {"rpc"} : pc'[t] = pc[t] /\ on'[t] = on[t]
    BY <1>9, <1>t DEF FinishProgress, Goto
  <2> QED
    BY <2>1, CountingFrame
<1>10. CASE FinishTimeOut
  <2>1. /\ forkCount' = forkCount /\ val' = val /\ pc'["timer"] \in {"idle", "scan"}
        /\ frames' = frames
        /\ \A t \in Thread \ {"timer"} : pc'[t] = pc[t] /\ on'[t] = on[t]
    BY <1>10, <1>t DEF FinishTimeOut, ScanOn, Goto
  <2> QED
    BY <2>1, CountingFrame
<1>11. ASSUME NEW n \in Node, ExecuteOnce(n) PROVE Counting'
  <2>1. /\ forkCount' = forkCount /\ val' = val /\ pc'["web"] = "onceUpdate"
        /\ frames' = frames /\ on' = on
        /\ \A t \in Thread \ {"web"} : pc'[t] = pc[t]
    BY <1>11, <1>t DEF ExecuteOnce, Goto, inst
  <2> QED
    BY <2>1, CountingFrame
<1>12. CASE OnceUpdate
  <2>1. /\ forkCount' = forkCount /\ val' = val /\ pc'["web"] = "idle"
        /\ frames' = frames /\ on' = on
        /\ \A t \in Thread \ {"web"} : pc'[t] = pc[t]
    BY <1>12, <1>t DEF OnceUpdate, Goto, inst
  <2> QED
    BY <2>1, CountingFrame
<1>13. CASE UNCHANGED vars
  BY <1>13, CountingFrame DEF vars, local, inst
<1> QED
  BY <1>1, <1>2, <1>3, <1>4, <1>5, <1>6, <1>7, <1>8, <1>9, <1>10, <1>11, <1>12, <1>13, NextCases

-----------------------------------------------------------------------------
(* What the steps have to keep. *)

\* A node that is reached in this step was made way for by a node that is passed
\* in this step: a fork then sets its count, a join is left in a run that goes on.
Advanced ==
  \A r \in Run : \A n \in Reach(r)' :
    \/ n \in Reach(r)
    \/ \E p \in Node : /\ Edge(p, n) /\ p \in Reach(r) /\ p \notin Pass(r) /\ p \in Pass(r)'
                       /\ Plan[p].type = "fork" => forkCount'[r][Plan[p].peer] = Len(Plan[p].to)
                       /\ Plan[p].type = "join" => status'[r] \notin EndStatus

Kept == Places' /\ Apart' /\ ExecutedOnce' /\ Order' /\ Advanced

-----------------------------------------------------------------------------
(* Steps that reach nothing new. *)

\* A step that adds no action or fork to a stack, dispatches nothing for a run
\* and sets no count reaches nothing, and passes what was passed.
LEMMA Quiet ==
  ASSUME OInv,
         \A t \in Thread : /\ Names(frames'[t]) \cap Dispatching \subseteq Names(frames[t])
                           /\ \A n \in Dispatching : Once(frames[t], n) => Once(frames'[t], n)
                           /\ on'[t] = on[t] \/ Names(frames'[t]) = {},
         \A x \in Exec : /\ owner[x] # NoRun \/ owner'[x] # NoRun
                            => owner'[x] = owner[x] /\ node'[x] = node[x]
                         /\ node'[x] # NoNode => Plan[node'[x]].type = "action"
                         /\ owner[x] # NoRun /\ Exited(x) => Exited(x)',
         \A r \in Run : status[r] # "PREP" => status'[r] # "PREP",
         \A r \in Run : \A n \in Node :
           Plan[n].type = "join" /\ forkCount[r][n] = 0 => forkCount'[r][n] = 0
  PROVE  Kept
<1>0. NoRun \notin Run
  BY ThreadNames
<1>1. \A r \in Run : Pend(r)' \subseteq Pend(r)
  BY DEF Pend
<1>2. \A r \in Run : Done(r)' = Done(r)
  BY <1>0 DEF Done
<1>3. \A r \in Run : Left(r) \subseteq Left(r)'
  BY <1>0 DEF Left
<1>4. \A r \in Run : Reach(r)' \subseteq Reach(r)
  BY <1>1, <1>2 DEF Reach
<1>5. \A r \in Run : Pass(r) \subseteq Pass(r)'
  BY <1>1, <1>3 DEF Pass
<1>6. Order'
  BY <1>4, <1>5 DEF Order, Ordered, OInv
<1>7. Places'
  BY DEF Places, OInv
<1>8. Apart'
  BY <1>1, <1>2 DEF Apart, OInv
<1>9. ExecutedOnce'
  BY DEF ExecutedOnce, OInv
<1>10. Advanced
  BY <1>4 DEF Advanced
<1> QED
  BY <1>6, <1>7, <1>8, <1>9, <1>10 DEF Kept

-----------------------------------------------------------------------------
(* Steps that pass a node and reach others. *)

\* Thread t goes on or begins to walk run r, and is the only one that has
\* something to dispatch for it.
Walks(t, r) ==
  /\ on'[t] = r
  /\ on[t] = r \/ Names(frames[t]) = {}
  /\ \A u \in Thread \ {t} : /\ frames'[u] = frames[u] /\ on'[u] = on[u]
                             /\ on[u] = r => Names(frames[u]) \cap Dispatching = {}

\* What is pending for r then is on the stack of t.
LEMMA PendMove ==
  ASSUME NEW t \in Thread, NEW r \in Run, Walks(t, r)
  PROVE  /\ Pend(r)' = Names(frames'[t]) \cap Dispatching
         /\ Pend(r) = Names(frames[t]) \cap Dispatching
         /\ \A q \in Run \ {r} : Pend(q)' = Pend(q)
BY DEF Pend, Walks

\* A thread that meets an action, fork or join has its run to itself.
LEMMA Owns ==
  ASSUME IInv, Stacks, NEW t \in Thread, t # "timer", pc[t] \in WalkPC,
         NEW u \in Thread \ {t}, on[u] = on[t]
  PROVE  Names(frames[u]) \cap Dispatching = {}
<1>1. CASE u = "timer"
  BY <1>1 DEF Stacks, Dispatching
<1>2. CASE u # "timer" /\ pc[u] \in WalkPC
  BY <1>2, Alone
<1>3. CASE pc[u] \notin WalkPC
  BY <1>3, NamesEmpty DEF Stacks
<1> QED
  BY <1>1, <1>2, <1>3

\* Thread t passes node p of run r and calls processNextNodes with some of
\* the names that p leads to.
LEMMA Pushed ==
  ASSUME OneWay, OInv, NEW t \in Thread, NEW r \in Run,
         NEW p \in Node, p \in Reach(r), p \notin Pass(r),
         NEW names \in Seq(Node), Range(names) \subseteq Successors(p),
         \A i, k \in DOMAIN names : names[i] = names[k] /\ names[i] \in Dispatching => i = k,
         NEW fs \in Frames, frames'[t] = Push(names, fs), Names(fs) \subseteq Names(frames[t]),
         \A n \in Dispatching : Once(fs, n),
         Walks(t, r), UNCHANGED <<owner, node>>, \A x \in Exec : Exited(x) => Exited(x)',
         \A q \in Run : status[q] # "PREP" => status'[q] # "PREP",
         \A q \in Run \ {r} : forkCount'[q] = forkCount[q],
         \A n \in Node : Plan[n].type = "join" /\ forkCount[r][n] = 0
                         => forkCount'[r][n] = 0 \/ Edge(p, n),
         Plan[p].type = "start" => status'[r] # "PREP",
         Plan[p].type = "fork" => /\ p \notin Names(fs)
                                  /\ forkCount'[r][Plan[p].peer] = Len(Plan[p].to),
         Plan[p].type = "action" => p \in Left(r)',
         Plan[p].type = "join" => forkCount'[r][p] = 0 /\ status'[r] \notin EndStatus
  PROVE  Kept
<1>1. /\ Pend(r)' = Names(frames'[t]) \cap Dispatching
      /\ Pend(r) = Names(frames[t]) \cap Dispatching
      /\ \A q \in Run \ {r} : Pend(q)' = Pend(q)
  BY PendMove
<1>2. Names(frames'[t]) = Range(names) \cup Names(fs)
  BY PushNames
<1>3. \A n \in Dispatching : n \in Range(names) => Edge(p, n) /\ n \in Node
  BY DEF Edge, Dispatching
<1>r. /\ \A q \in Run : Reach(q) \in SUBSET Node /\ Reach(q)' \in SUBSET Node
      /\ Ordered(Reach(r), Pass(r))
  BY DEF Reach, Order, OInv
<1>4. \A n \in Reach(r) : ~Edge(p, n)
  BY <1>r, NothingAhead
<1>5. \A n \in Dispatching : n \in Range(names) => n \notin Pend(r) /\ n \notin Done(r)
  BY <1>3, <1>4 DEF Reach
<1>6. \A q \in Run : Done(q)' = Done(q) /\ Left(q) \subseteq Left(q)'
  BY DEF Done, Left
<1>7. \A n \in Pend(r)' : n \in Pend(r) \/ Edge(p, n)
  BY <1>1, <1>2, <1>3
<1>8. \A n \in Reach(r)' : n \in Reach(r) \/ Edge(p, n)
  BY <1>6, <1>7 DEF Reach
<1>9. \A a \in Pass(r) : a \in Pass(r)' \/ Edge(p, a)
  BY <1>6, <1>7 DEF Pass
<1>10. p \in Pass(r)'
  <2>1. Plan[p].type = "fork" => p \notin Pend(r)'
    BY <1>1, <1>2, <1>3, <1>4
  <2> QED
    BY <2>1 DEF Pass
<1>11. Order'
  <2>1. Ordered(Reach(r)', Pass(r)')
    <3>1. Passes(p, Reach(r), Pass(r), Reach(r)', Pass(r)')
      BY <1>8, <1>9, <1>10 DEF Passes
    <3> QED
      BY <1>r, <3>1, Advance
  <2>2. ASSUME NEW q \in Run \ {r}
        PROVE  Reach(q)' \subseteq Reach(q) /\ Pass(q) \subseteq Pass(q)'
    <3>1. Pend(q)' = Pend(q) /\ forkCount'[q] = forkCount[q]
      BY <1>1
    <3> QED
      BY <1>6, <3>1 DEF Reach, Pass
  <2> QED
    BY <2>1, <2>2 DEF Order, Ordered, OInv
<1>12. Places'
  <2>1. ASSUME NEW n \in Dispatching PROVE Once(frames'[t], n)
    <3>1. n \notin Range(names) \/ n \notin Names(fs)
      BY <1>1, <1>5
    <3> QED
      BY <3>1, PushNames
  <2> QED
    BY <2>1 DEF Places, OInv, Walks
<1>13. Apart'
  <2>1. Done(r)' \cap Pend(r)' = {}
    BY <1>1, <1>2, <1>5, <1>6 DEF Apart, OInv
  <2> QED
    BY <1>1, <1>6, <2>1 DEF Apart, OInv
<1>14. ExecutedOnce'
  BY DEF ExecutedOnce, OInv
<1>15. Advanced
  <2>1. ASSUME NEW q \in Run \ {r} PROVE Reach(q)' \subseteq Reach(q)
    <3>1. Pend(q)' = Pend(q) /\ forkCount'[q] = forkCount[q]
      BY <1>1
    <3> QED
      BY <1>6, <3>1 DEF Reach
  <2> QED
    BY <1>8, <1>10, <2>1 DEF Advanced
<1> QED
  BY <1>11, <1>12, <1>13, <1>14, <1>15 DEF Kept

-----------------------------------------------------------------------------
(* The steps. *)

\* EnterAction: a pending action becomes an executed one.
LEMMA EnterActionKeeps ==
  ASSUME IInv, OInv, NEW t \in Thread, EnterAction(t)
  PROVE  Kept
<1>t. /\ frames \in [Thread -> Frames] /\ owner \in [Exec -> Run \cup {NoRun}]
      /\ node \in [Exec -> Node \cup {NoNode}]
  BY DEF IInv, TypeOK, Frames
<1>r. PICK r \in Run, n \in Node : r = on[t] /\ n = Current(t)
  BY CurrentNamed DEF EnterAction, At, WalkPC, IInv, Located
<1>0. /\ At(t, "action") /\ frames[t] # <<>> /\ pc[t] \in WalkPC /\ r \in Run /\ on' = on
      /\ Plan[n].type = "action" /\ t # "timer"
  BY <1>r, NotTimer DEF EnterAction, At, Current, WalkPC, IInv, Located, OInv
<1>1. /\ n \in Node /\ n \in Names(frames[t]) /\ n \in Dispatching
      /\ Names(Rest(frames[t])) \subseteq Names(frames[t])
      /\ n \notin Names(Rest(frames[t]))
      /\ \A m \in Dispatching : Once(Rest(frames[t]), m)
  <2>1. n \in Node /\ n \in Dispatching
    BY <1>0 DEF Dispatching
  <2> QED
    BY <1>0, <1>r, <2>1, CurrentNamed DEF Places, OInv
<1>2. frames' = [frames EXCEPT ![t] = Rest(frames[t])]
  BY DEF EnterAction
<1>3. /\ Fresh \in Exec /\ owner[Fresh] = NoRun
      /\ node' = [node EXCEPT ![Fresh] = n] /\ owner' = [owner EXCEPT ![Fresh] = r]
      /\ info' = info \cup {Fresh} /\ completing' = completing
      /\ status' = status /\ forkCount' = forkCount
  BY <1>r, FreshType DEF EnterAction, executeXJob, IInv, ScanOwned, inst
<1>n. NoRun \notin Run
  BY ThreadNames
<1>4. Walks(t, r)
  BY <1>0, <1>2, <1>r, <1>t, Owns DEF Walks, OInv
<1>5. /\ Pend(r)' \subseteq Pend(r) \ {n} /\ n \in Pend(r)
      /\ \A q \in Run \ {r} : Pend(q)' = Pend(q)
  <2>1. frames'[t] = Rest(frames[t])
    BY <1>2, <1>t
  <2>2. /\ Pend(r)' = Names(frames'[t]) \cap Dispatching
        /\ Pend(r) = Names(frames[t]) \cap Dispatching
        /\ \A q \in Run \ {r} : Pend(q)' = Pend(q)
    BY <1>0, <1>4, PendMove
  <2> QED
    BY <1>1, <2>1, <2>2
<1>6. /\ Done(r)' = Done(r) \cup {n}
      /\ \A q \in Run \ {r} : Done(q)' = Done(q)
  <2>1. ASSUME NEW q \in Run \ {r} PROVE Done(q)' = Done(q)
    BY <1>3, <1>n, <1>t DEF Done
  <2>2. Done(r)' = Done(r) \cup {n}
    BY <1>0, <1>1, <1>3, <1>n, <1>t DEF Done
  <2> QED
    BY <2>1, <2>2
<1>7. \A q \in Run : Left(q) \subseteq Left(q)'
  BY <1>3, <1>n, <1>t DEF Left, Exited
<1>8. \A q \in Run : Reach(q)' \subseteq Reach(q)
  BY <1>3, <1>5, <1>6 DEF Reach
<1>9. \A q \in Run : Pass(q) \subseteq Pass(q)'
  BY <1>3, <1>5, <1>7 DEF Pass
<1>10. Order'
  BY <1>8, <1>9 DEF Order, Ordered, OInv
<1>11. Places'
  BY <1>1, <1>2, <1>t DEF Places, OInv
<1>12. Apart'
  <2>1. \A q \in Run : Done(q)' \cap Pend(q)' = {}
    BY <1>5, <1>6 DEF Apart, OInv
  <2>2. \A x \in Exec : node'[x] # NoNode => Plan[node'[x]].type = "action"
    BY <1>0, <1>3, <1>t DEF Apart, OInv
  <2> QED
    BY <2>1, <2>2 DEF Apart
<1>13. ExecutedOnce'
  <2>1. n \notin Done(r)
    BY <1>5, <1>0 DEF Apart, OInv
  <2>2. \A x \in Exec : ~(owner[x] = r /\ node[x] = n)
    BY <1>1, <2>1 DEF Done
  <2> QED
    BY <1>3, <1>t, <2>2 DEF ExecutedOnce, OInv
<1>14. Advanced
  BY <1>8 DEF Advanced
<1> QED
  BY <1>10, <1>11, <1>12, <1>13, <1>14 DEF Kept

\* Fork: the fork makes way for its paths and for its join.
LEMMA ForkKeeps ==
  ASSUME OneWay, IInv, OInv, NEW t \in Thread, Fork(t)
  PROVE  Kept
<1>t. /\ frames \in [Thread -> Frames] /\ forkCount \in [Run -> [Node -> Nat]]
  BY DEF IInv, TypeOK, Frames
<1>r. PICK r \in Run, p \in Node : r = on[t] /\ p = Current(t)
  BY CurrentNamed DEF Fork, At, WalkPC, IInv, Located
<1>s. PICK names, fs : names = Plan[p].to /\ fs = Rest(frames[t])
  OBVIOUS
<1>0. /\ At(t, "fork") /\ frames[t] # <<>> /\ pc[t] \in WalkPC /\ r \in Run /\ on' = on
      /\ Plan[p].type = "fork" /\ t # "timer"
  BY <1>r, NotTimer DEF Fork, At, Current, WalkPC, IInv, Located, OInv
<1>1. p \in Node /\ p \in Names(frames[t]) /\ p \in Dispatching /\ fs \in Frames
  BY <1>0, <1>r, <1>s, CurrentNamed DEF Dispatching
<1>2. /\ Names(fs) \subseteq Names(frames[t]) /\ p \notin Names(fs)
      /\ \A m \in Dispatching : Once(fs, m)
  BY <1>0, <1>1, <1>r, <1>s, CurrentNamed DEF Places, OInv
<1>3. names \in Seq(Node) /\ Range(names) \subseteq Successors(p)
  BY <1>0, <1>1, <1>s, PlanType DEF Successors
<1>4. \A i, k \in DOMAIN names : names[i] = names[k] /\ names[i] \in Dispatching => i = k
  BY <1>1, <1>s DEF OneWay
<1>5. /\ frames' = [frames EXCEPT ![t] = Push(names, fs)]
      /\ forkCount' = [forkCount EXCEPT ![r][Plan[p].peer] = Len(names)]
      /\ UNCHANGED <<status, owner, node, info, completing>>
  BY <1>r, <1>s DEF Fork, execs
<1>6. Plan[p].peer \in Node
  BY <1>0, <1>1, WorkflowAssumption
<1>7. frames'[t] = Push(names, fs)
  BY <1>5, <1>t
<1>8. Walks(t, r)
  BY <1>0, <1>5, <1>r, <1>t, Owns DEF Walks, OInv
<1>9. p \in Reach(r) /\ p \notin Pass(r)
  <2>1. p \in Pend(r)
    BY <1>0, <1>1, <1>r DEF Pend
  <2> QED
    BY <1>0, <1>1, <2>1 DEF Reach, Pass
<1>10. \A q \in Run \ {r} : forkCount'[q] = forkCount[q]
  BY <1>5, <1>t
<1>11. ASSUME NEW m \in Node, Plan[m].type = "join", forkCount[r][m] = 0
       PROVE  forkCount'[r][m] = 0 \/ Edge(p, m)
  <2>1. CASE m = Plan[p].peer
    BY <1>0, <1>11, <2>1 DEF Edge
  <2>2. CASE m # Plan[p].peer
    BY <1>0, <1>5, <1>11, <1>t, <2>2
  <2> QED
    BY <2>1, <2>2
<1>12. \A x \in Exec : Exited(x) => Exited(x)'
  BY <1>5 DEF Exited
<1>13. /\ Plan[p].type # "start" /\ Plan[p].type # "action" /\ Plan[p].type # "join"
       /\ forkCount'[r][Plan[p].peer] = Len(Plan[p].to)
  BY <1>0, <1>5, <1>6, <1>s, <1>t
<1>14. /\ UNCHANGED <<owner, node>>
       /\ \A q \in Run : status[q] # "PREP" => status'[q] # "PREP"
  BY <1>5
<1> QED
  BY <1>0, <1>1, <1>2, <1>3, <1>4, <1>7, <1>8, <1>9, <1>10, <1>11, <1>12, <1>13, <1>14, Pushed

\* JoinWrite: the last arrival passes the join.
LEMMA JoinWriteKeeps ==
  ASSUME OneWay, IInv, OInv, NEW t \in Thread, JoinWrite(t)
  PROVE  Kept
<1>t. /\ frames \in [Thread -> Frames] /\ forkCount \in [Run -> [Node -> Nat]]
      /\ val \in [Thread -> Nat]
  BY DEF IInv, TypeOK, Frames
<1>r. PICK r \in Run, p \in Node : r = on[t] /\ p = Current(t)
  BY CurrentNamed DEF JoinWrite, WalkPC, IInv, Located
<1>s. PICK names, fs : names = Plan[p].to /\ fs = Rest(frames[t])
  OBVIOUS
<1>0. /\ pc[t] = "joinSet" /\ frames[t] # <<>> /\ pc[t] \in WalkPC /\ r \in Run /\ on' = on
      /\ Plan[p].type = "join" /\ forkCount[r][p] = val[t] + 1 /\ t # "timer"
  BY <1>r, NotTimer DEF JoinWrite, Counting, WalkPC, IInv, Located, OInv
<1>1. p \in Node /\ p \in Names(frames[t]) /\ p \notin Dispatching /\ fs \in Frames
  BY <1>0, <1>r, <1>s, CurrentNamed DEF Dispatching
<1>2. /\ Names(fs) \subseteq Names(frames[t])
      /\ \A m \in Dispatching : Once(fs, m)
  BY <1>0, <1>1, <1>r, <1>s, CurrentNamed DEF Places, OInv
<1>3. names \in Seq(Node) /\ Range(names) \subseteq Successors(p)
  BY <1>0, <1>1, <1>s, PlanType DEF Successors
<1>4. \A i, k \in DOMAIN names : names[i] = names[k] /\ names[i] \in Dispatching => i = k
  BY <1>1, <1>s DEF OneWay
<1>5. /\ frames' = [frames EXCEPT ![t] = IF val[t] = 0 /\ status[r] \notin EndStatus
                                         THEN Push(names, fs) ELSE fs]
      /\ forkCount' = [forkCount EXCEPT ![r][p] = val[t]]
      /\ UNCHANGED <<status, owner, node, info, completing>>
  BY <1>r, <1>s DEF JoinWrite, execs
<1>6. forkCount[r][p] # 0
  BY <1>0, <1>t
<1>7. \A m \in Node : Plan[m].type = "join" /\ forkCount[r][m] = 0 => forkCount'[r][m] = 0
  BY <1>0, <1>1, <1>5, <1>6, <1>t
<1>8. \A q \in Run \ {r} : forkCount'[q] = forkCount[q]
  BY <1>5, <1>t
<1>9. /\ \A x \in Exec : Exited(x) => Exited(x)'
      /\ \A q \in Run : status[q] # "PREP" => status'[q] # "PREP"
      /\ UNCHANGED <<owner, node>>
  BY <1>5 DEF Exited
<1>10. CASE val[t] = 0 /\ status[r] \notin EndStatus
  <2>1. frames'[t] = Push(names, fs)
    BY <1>5, <1>10, <1>t
  <2>2. Walks(t, r)
    BY <1>0, <1>5, <1>r, <1>t, Owns DEF Walks, OInv
  <2>3. p \in Reach(r) /\ p \notin Pass(r)
    BY <1>0, <1>1, <1>6 DEF Reach, Pass
  <2>4. forkCount'[r][p] = 0 /\ status'[r] \notin EndStatus
    BY <1>0, <1>1, <1>5, <1>10, <1>t
  <2>5. Plan[p].type # "start" /\ Plan[p].type # "action" /\ Plan[p].type # "fork"
    BY <1>0
  <2>6. \A m \in Node : Plan[m].type = "join" /\ forkCount[r][m] = 0
                        => forkCount'[r][m] = 0 \/ Edge(p, m)
    BY <1>7
  <2> QED
    BY <1>0, <1>1, <1>2, <1>3, <1>4, <1>8, <1>9, <2>1, <2>2, <2>3, <2>4, <2>5, <2>6, Pushed
<1>11. CASE ~(val[t] = 0 /\ status[r] \notin EndStatus)
  <2>1. frames'[t] = fs /\ \A u \in Thread \ {t} : frames'[u] = frames[u]
    BY <1>5, <1>11, <1>t
  <2>2. \A u \in Thread : /\ Names(frames'[u]) \cap Dispatching \subseteq Names(frames[u])
                          /\ \A n \in Dispatching : Once(frames[u], n) => Once(frames'[u], n)
                          /\ on'[u] = on[u] \/ Names(frames'[u]) = {}
    BY <1>0, <1>2, <2>1
  <2>3. \A q \in Run : \A n \in Node :
          Plan[n].type = "join" /\ forkCount[q][n] = 0 => forkCount'[q][n] = 0
    BY <1>7, <1>8
  <2>4. \A x \in Exec : node'[x] # NoNode => Plan[node'[x]].type = "action"
    BY <1>9 DEF OInv, Apart
  <2> QED
    BY <1>9, <2>2, <2>3, <2>4, Quiet
<1> QED
  BY <1>10, <1>11

\* StartJobPlan: the start node makes way for the first node.
LEMMA StartJobPlanKeeps ==
  ASSUME OneWay, IInv, OInv, NEW r \in Run, StartJobPlan(r)
  PROVE  Kept
<1>t. /\ frames \in [Thread -> Frames] /\ status \in [Run -> Status]
      /\ on \in [Thread -> Run \cup {NoRun}] /\ r \in Thread
  BY ThreadNames DEF IInv, TypeOK, Frames
<1>0. /\ status[r] = "PREP" /\ status' = [status EXCEPT ![r] = "RUNNING"]
      /\ on' = [on EXCEPT ![r] = r]
      /\ UNCHANGED <<forkCount, owner, node, info, completing>>
  BY DEF StartJobPlan, execs
<1>1. \A u \in Thread : on[u] # r
  BY <1>0 DEF IInv, Private
<1>2. frames[r] = <<>>
  BY <1>1, <1>t DEF IInv, OwnRun, OInv, Stacks
<1>3. /\ \A x \in Exec : Exited(x) => Exited(x)'
      /\ \A q \in Run : status[q] # "PREP" => status'[q] # "PREP"
      /\ status'[r] # "PREP"
  BY <1>0, <1>t DEF Exited
<1>e. <<>> \in Frames
  BY EmptySeq DEF Frames
<1>4. ASSUME NEW p \in Node, Plan[p].type = "start",
             frames' = [frames EXCEPT ![r] = Push(Plan[p].to, <<>>)]
      PROVE  Kept
  <2>1. p \in Reach(r) /\ p \notin Pass(r)
    BY <1>0, <1>4 DEF Reach, Pass
  <2>2. PICK names \in Seq(Node), fs \in Frames : names = Plan[p].to /\ fs = <<>>
    BY <1>e, PlanType
  <2>3. /\ Range(names) \subseteq Successors(p)
        /\ \A i, k \in DOMAIN names : names[i] = names[k] /\ names[i] \in Dispatching => i = k
    BY <1>4, <2>2 DEF Successors, OneWay
  <2>4. frames'[r] = Push(names, fs) /\ \A u \in Thread \ {r} : frames'[u] = frames[u]
    BY <1>4, <1>t, <2>2
  <2>5. Walks(r, r)
    BY <1>0, <1>1, <1>2, <1>t, <2>4, NamesEmpty DEF Walks
  <2>6. /\ Names(fs) \subseteq Names(frames[r])
        /\ \A n \in Dispatching : Once(fs, n)
    BY <2>2, NamesEmpty
  <2>7. Plan[p].type # "fork" /\ Plan[p].type # "action" /\ Plan[p].type # "join"
    BY <1>4
  <2>8. /\ UNCHANGED <<owner, node>>
        /\ \A q \in Run \ {r} : forkCount'[q] = forkCount[q]
        /\ \A n \in Node : Plan[n].type = "join" /\ forkCount[r][n] = 0
                           => forkCount'[r][n] = 0 \/ Edge(p, n)
    BY <1>0
  <2> QED
    BY <1>3, <1>t, <2>1, <2>3, <2>4, <2>5, <2>6, <2>7, <2>8, Pushed
<1>5. CASE frames' = frames
  <2>1. \A u \in Thread : /\ Names(frames'[u]) \cap Dispatching \subseteq Names(frames[u])
                          /\ \A n \in Dispatching : Once(frames[u], n) => Once(frames'[u], n)
                          /\ on'[u] = on[u] \/ Names(frames'[u]) = {}
    BY <1>0, <1>2, <1>5, <1>t, NamesEmpty
  <2>2. \A x \in Exec : node'[x] # NoNode => Plan[node'[x]].type = "action"
    BY <1>0 DEF OInv, Apart
  <2> QED
    BY <1>0, <1>3, <2>1, <2>2, Quiet
<1> QED
  BY <1>4, <1>5 DEF StartJobPlan, EnterStart

\* ActionNodeHandler.exit returns names that the action leads to.
LEMMA ExitToSuccessors ==
  ASSUME NEW n \in Node, Plan[n].type = "action", NEW s
  PROVE  Range(ExitTo(n, s)) \subseteq Successors(n)
<1>1. Range(<<>>) = {}
  BY DEF Range
<1>2. Successors(n) = Range(Plan[n].ok) \cup Range(Plan[n].error)
  BY DEF Successors
<1>3. CASE s = "RESULT_SUCCESS"
  BY <1>2, <1>3 DEF ExitTo
<1>4. CASE s = "RESULT_ERROR"
  BY <1>2, <1>4 DEF ExitTo
<1>5. CASE s \notin {"RESULT_SUCCESS", "RESULT_ERROR"}
  BY <1>1, <1>5 DEF ExitTo
<1> QED
  BY <1>3, <1>4, <1>5

\* HandleProgress: an action is completed, once, and makes way for what follows.
LEMMA HandleProgressKeeps ==
  ASSUME OneWay, IInv, OInv, NEW x \in Exec, HandleProgress(x)
  PROVE  Kept
<1> DEFINE t == "rpc"
<1>t. /\ frames \in [Thread -> Frames] /\ status \in [Run -> Status] /\ t \in Thread
      /\ on \in [Thread -> Run \cup {NoRun}] /\ workflows \subseteq Run
      /\ owner \in [Exec -> Run \cup {NoRun}] /\ node \in [Exec -> Node \cup {NoNode}]
      /\ completing \in [Thread -> Exec \cup {NoExec}]
      /\ NoExec \notin Exec /\ NoRun \notin Run
  BY ThreadNames, WorkflowAssumption DEF IInv, TypeOK, Frames
<1>0. /\ pc[t] = "idle" /\ x \in info /\ owner[x] \in workflows
      /\ UNCHANGED <<forkCount, owner, node, info>>
      /\ on' = [on EXCEPT ![t] = owner[x]]
      /\ completing' = [completing EXCEPT ![t] = x]
      /\ \/ status' = status
         \/ status' = [status EXCEPT ![owner[x]] = "FAILED"]
      /\ \/ frames' = [frames EXCEPT ![t] = <<>>]
         \/ frames' = [frames EXCEPT ![t] = Push(ExitTo(node[x], answer[x]), <<>>)]
  BY DEF HandleProgress, Reported, CompleteJobPlanNode
<1>r. PICK r \in Run, p \in Node : r = owner[x] /\ p = node[x]
  <2>1. owner[x] \in Run
    BY <1>0, <1>t
  <2>2. node[x] # NoNode
    BY <1>t, <2>1 DEF IInv, ScanOwned
  <2> QED
    BY <1>t, <2>1, <2>2
<1>1. Plan[p].type = "action"
  BY <1>r, WorkflowAssumption DEF OInv, Apart
<1>2. frames[t] = <<>> /\ completing[t] = NoExec
  BY <1>0, <1>t DEF OInv, Stacks, Handling, WalkPC
<1>3. \A u \in Thread \ {t} : on[u] = r => Names(frames[u]) \cap Dispatching = {}
  <2> SUFFICES ASSUME NEW u \in Thread \ {t}, on[u] = r
               PROVE  Names(frames[u]) \cap Dispatching = {}
    OBVIOUS
  <2>1. CASE pc[u] \notin WalkPC
    BY <2>1, NamesEmpty DEF OInv, Stacks
  <2>2. CASE u = "timer"
    BY <2>2 DEF OInv, Stacks, Dispatching
  <2>3. CASE pc[u] \in WalkPC /\ u \in Run
    BY <1>0, <1>r, <2>3 DEF IInv, OwnRun, Private
  <2>4. CASE pc[u] \in WalkPC /\ u = "web"
    BY <2>4 DEF IInv, Located
  <2> QED
    BY <2>1, <2>2, <2>3, <2>4, ThreadNames
<1>4. \A y \in Exec : Exited(y) => Exited(y)'
  BY <1>0, <1>2, <1>t DEF Exited
<1>5. /\ \A q \in Run : status[q] # "PREP" => status'[q] # "PREP"
  BY <1>0, <1>t
<1>6. p \in Reach(r) /\ p \notin Pass(r)
  <2>1. p \in Done(r)
    BY <1>r DEF Done
  <2>2. p \notin Left(r)
    <3> SUFFICES ASSUME NEW y \in Exec, owner[y] = r, node[y] = p, Exited(y) PROVE FALSE
      BY DEF Left
    <3>1. x = y
      BY <1>r, <1>t, WorkflowAssumption DEF OInv, ExecutedOnce
    <3> QED
      BY <1>0, <1>2, <1>t, <3>1 DEF Exited
  <2> QED
    BY <1>1, <2>1, <2>2 DEF Reach, Pass
<1>7. p \in Left(r)'
  BY <1>0, <1>r, <1>t DEF Left, Exited
<1>e. <<>> \in Frames /\ Names(<<>>) \subseteq Names(frames[t]) /\ p \notin Names(<<>>)
      /\ \A n \in Dispatching : Once(<<>>, n)
  BY EmptySeq, NamesEmpty DEF Frames
<1>8. PICK names \in Seq(Node) : /\ Range(names) \subseteq Successors(p)
                                 /\ Len(names) <= 1
                                 /\ frames' = [frames EXCEPT ![t] = Push(names, <<>>)]
  <2>1. CASE frames' = [frames EXCEPT ![t] = <<>>]
    <3>1. <<>> \in Seq(Node) /\ Range(<<>>) = {} /\ Len(<<>>) <= 1 /\ Push(<<>>, <<>>) = <<>>
      BY EmptySeq DEF Range, Push
    <3> QED
      BY <2>1, <3>1
  <2>2. CASE frames' = [frames EXCEPT ![t] = Push(ExitTo(node[x], answer[x]), <<>>)]
    BY <1>1, <1>r, <2>2, ExitToType, ExitToShort, ExitToSuccessors
  <2> QED
    BY <1>0, <2>1, <2>2
<1>9. \A i, k \in DOMAIN names : names[i] = names[k] /\ names[i] \in Dispatching => i = k
  <2>1. DOMAIN names = 1..Len(names) /\ Len(names) \in Nat
    BY LenProperties
  <2> QED
    BY <1>8, <2>1
<1>10. frames'[t] = Push(names, <<>>) /\ \A u \in Thread \ {t} : frames'[u] = frames[u]
  BY <1>8, <1>t
<1>11. Walks(t, r)
  BY <1>0, <1>2, <1>3, <1>r, <1>t, <1>10, NamesEmpty DEF Walks
<1>12. Plan[p].type # "fork" /\ Plan[p].type # "start" /\ Plan[p].type # "join"
  BY <1>1
<1>13. /\ UNCHANGED <<owner, node>>
       /\ \A q \in Run \ {r} : forkCount'[q] = forkCount[q]
       /\ \A n \in Node : Plan[n].type = "join" /\ forkCount[r][n] = 0
                          => forkCount'[r][n] = 0 \/ Edge(p, n)
  BY <1>0
<1> HIDE DEF t
<1> QED
  BY <1>4, <1>5, <1>6, <1>7, <1>e, <1>t, <1>8, <1>9, <1>10, <1>11, <1>12, <1>13, Pushed

\* The other steps of the walk take names off a stack.
LEMMA WalkKeeps ==
  ASSUME IInv, OInv, NEW t \in Thread,
         \/ NotifySuccess(t) \/ SkipSignal(t) \/ JoinRead(t) \/ EnterEnd(t) \/ EnterFail(t)
         \/ EndNodeThrows(t) \/ SetEndStatus(t)
  PROVE  Kept
<1>t. frames \in [Thread -> Frames] /\ status \in [Run -> Status]
  BY DEF IInv, TypeOK, Frames
<1>0. /\ \A r \in Run : status'[r] = status[r] \/ status'[r] \in EndStatus
      /\ \A u \in Thread \ {t} : frames'[u] = frames[u]
      /\ on' = on
  BY WalkFrame DEF ProcessNextNodes
<1>1. UNCHANGED <<owner, node, info, completing, forkCount>>
  BY DEF NotifySuccess, SkipSignal, JoinRead, EnterEnd, EnterFail, EndNodeThrows, SetEndStatus,
         inst, execs
<1>2. \/ frames'[t] = frames[t]
      \/ frames[t] # <<>> /\ frames'[t] = Rest(frames[t])
      \/ frames[t] # <<>> /\ frames'[t] = Tail(frames[t])
  BY <1>t DEF NotifySuccess, SkipSignal, JoinRead, EnterEnd, EnterFail, EndNodeThrows,
              SetEndStatus, At
<1>3. \A u \in Thread : /\ Names(frames'[u]) \cap Dispatching \subseteq Names(frames[u])
                        /\ \A n \in Dispatching : Once(frames[u], n) => Once(frames'[u], n)
                        /\ on'[u] = on[u] \/ Names(frames'[u]) = {}
  BY <1>0, <1>2, CurrentNamed
<1>4. \A r \in Run : status[r] # "PREP" => status'[r] # "PREP"
  BY <1>0 DEF EndStatus
<1>5. \A x \in Exec : /\ node'[x] # NoNode => Plan[node'[x]].type = "action"
                      /\ Exited(x) => Exited(x)'
  BY <1>1 DEF OInv, Apart, Exited
<1> QED
  BY <1>1, <1>3, <1>4, <1>5, Quiet

\* The other steps leave the stacks alone or give the timer ends to visit.
LEMMA OtherKeeps ==
  ASSUME ErrorsEnd, IInv, OInv, Stacks',
         \/ \E r \in Run : AddWorkflow(r) \/ TimerQuery(r)
         \/ \E x \in Exec : \/ HandleOnce(x) \/ HandleForgotten(x)
                            \/ NotOverdue(x) \/ Overdue(x) \/ TimeOutKill(x) \/ Answer(x)
         \/ FinishProgress \/ FinishTimeOut
         \/ \E n \in Node : ExecuteOnce(n)
         \/ OnceUpdate
         \/ UNCHANGED vars
  PROVE  Kept
<1>t. /\ frames \in [Thread -> Frames] /\ status \in [Run -> Status]
      /\ on \in [Thread -> Run \cup {NoRun}]
      /\ owner \in [Exec -> Run \cup {NoRun}] /\ node \in [Exec -> Node \cup {NoNode}]
      /\ completing \in [Thread -> Exec \cup {NoExec}]
      /\ "timer" \in Thread /\ "rpc" \in Thread /\ "web" \in Thread /\ Run \subseteq Thread
      /\ NoExec \notin Exec
  BY ThreadNames, WorkflowAssumption DEF IInv, TypeOK, Frames
<1> DEFINE Still == \A t \in Thread : frames'[t] = frames[t] /\ (on'[t] = on[t] \/ frames[t] = <<>>)
           Same == /\ \A r \in Run : status'[r] = status[r]
                   /\ UNCHANGED <<forkCount, owner, node>>
                   /\ \A x \in Exec : Exited(x) => Exited(x)'
<1>a. ASSUME Still, Same PROVE Kept
  <2>1. \A u \in Thread : /\ Names(frames'[u]) \cap Dispatching \subseteq Names(frames[u])
                          /\ \A n \in Dispatching : Once(frames[u], n) => Once(frames'[u], n)
                          /\ on'[u] = on[u] \/ Names(frames'[u]) = {}
    BY <1>a, NamesEmpty
  <2>2. \A x \in Exec : node'[x] # NoNode => Plan[node'[x]].type = "action"
    BY <1>a DEF OInv, Apart
  <2> QED
    BY <1>a, <2>1, <2>2, Quiet
<1>1. ASSUME NEW r \in Run, AddWorkflow(r) PROVE Kept
  <2>1. Still /\ Same
    BY <1>1, <1>t DEF AddWorkflow, WalkDone, execs, Exited
  <2> QED
    BY <1>a, <2>1
<1>2. ASSUME NEW r \in Run, TimerQuery(r) PROVE Kept
  <2>1. frames["timer"] = <<>>
    BY <1>2, <1>t DEF TimerQuery, OInv, Stacks, WalkPC
  <2>2. Still /\ Same
    BY <1>2, <1>t, <2>1 DEF TimerQuery, execs, inst, Exited
  <2> QED
    BY <1>a, <2>2
<1>3. ASSUME NEW x \in Exec, HandleOnce(x) PROVE Kept
  <2>1. Still /\ Same
    BY <1>3, <1>t DEF HandleOnce, inst, local, Exited
  <2> QED
    BY <1>a, <2>1
<1>4. ASSUME NEW x \in Exec, HandleForgotten(x) \/ Answer(x) PROVE Kept
  <2>1. Still /\ Same
    BY <1>4, <1>t DEF HandleForgotten, Answer, inst, local, Exited
  <2> QED
    BY <1>a, <2>1
<1>5. ASSUME NEW x \in Exec, NotOverdue(x) \/ Overdue(x) PROVE Kept
  <2>1. frames["timer"] = <<>>
    BY <1>5, <1>t DEF NotOverdue, Overdue, OInv, Stacks, WalkPC
  <2>2. Still /\ Same
    BY <1>5, <1>t, <2>1 DEF NotOverdue, Overdue, ScanOn, execs, inst, Exited
  <2> QED
    BY <1>a, <2>2
<1>6. ASSUME NEW x \in Exec, TimeOutKill(x) PROVE Kept
  <2>1. /\ \A u \in Thread \ {"timer"} : frames'[u] = frames[u] /\ on'[u] = on[u]
        /\ \/ status' = status \/ status' = [status EXCEPT ![owner[x]] = "FAILED"]
        /\ UNCHANGED <<forkCount, owner, node, info>> /\ completing'["rpc"] = completing["rpc"]
        /\ pc["timer"] = "scan" /\ x \in scan
    BY <1>6, <1>t DEF TimeOutKill, CompleteJobPlanNode
  <2>2. \A n \in Dispatching : n \notin Names(frames'["timer"])
    BY DEF Stacks, Dispatching
  <2>3. frames["timer"] = <<>> /\ on'["timer"] = on["timer"]
    BY <1>6, <1>t, <2>1 DEF TimeOutKill, CompleteJobPlanNode, IInv, ScanOwned, OInv, Stacks, WalkPC
  <2>4. \A n \in Dispatching : Once(frames'["timer"], n)
    BY <2>2, NamesPlaces DEF Once
  <2>5. \A u \in Thread : /\ Names(frames'[u]) \cap Dispatching \subseteq Names(frames[u])
                          /\ \A n \in Dispatching : Once(frames[u], n) => Once(frames'[u], n)
                          /\ on'[u] = on[u] \/ Names(frames'[u]) = {}
    BY <2>1, <2>2, <2>3, <2>4
  <2>6. \A y \in Exec : /\ node'[y] # NoNode => Plan[node'[y]].type = "action"
                        /\ Exited(y) => Exited(y)'
    BY <2>1 DEF OInv, Apart, Exited
  <2>7. \A r \in Run : status[r] # "PREP" => status'[r] # "PREP"
    BY <1>t, <2>1
  <2> QED
    BY <2>1, <2>5, <2>6, <2>7, Quiet
<1>7. CASE FinishProgress
  <2>1. Still
    BY <1>7, <1>t DEF FinishProgress, WalkDone
  <2>2. Same
    BY <1>7, <1>t DEF FinishProgress, Exited
  <2> QED
    BY <1>a, <2>1, <2>2
<1>8. CASE FinishTimeOut
  <2>1. Still
    BY <1>8, <1>t DEF FinishTimeOut, WalkDone, ScanOn
  <2>2. Same
    BY <1>8, <1>t DEF FinishTimeOut, Exited
  <2> QED
    BY <1>a, <2>1, <2>2
<1>9. ASSUME NEW n \in Node, ExecuteOnce(n) PROVE Kept
  <2>1. /\ UNCHANGED <<frames, on, completing, status, forkCount>>
        /\ Fresh \in Exec /\ owner[Fresh] = NoRun /\ node' = [node EXCEPT ![Fresh] = n]
        /\ owner' = [owner EXCEPT ![Fresh] = NoRun] /\ info' = info \cup {Fresh}
        /\ Plan[n].type = "action"
    BY <1>9, FreshType DEF ExecuteOnce, executeXJob, inst, IInv, ScanOwned
  <2>2. \A y \in Exec : /\ owner[y] # NoRun \/ owner'[y] # NoRun
                           => owner'[y] = owner[y] /\ node'[y] = node[y]
                        /\ node'[y] # NoNode => Plan[node'[y]].type = "action"
                        /\ owner[y] # NoRun /\ Exited(y) => Exited(y)'
    BY <1>t, <2>1 DEF OInv, Apart, Exited
  <2>3. \A u \in Thread : /\ Names(frames'[u]) \cap Dispatching \subseteq Names(frames[u])
                          /\ \A m \in Dispatching : Once(frames[u], m) => Once(frames'[u], m)
                          /\ on'[u] = on[u] \/ Names(frames'[u]) = {}
    BY <2>1
  <2> QED
    BY <2>1, <2>2, <2>3, Quiet
<1>10. CASE OnceUpdate
  <2>1. Still /\ Same
    BY <1>10, <1>t DEF OnceUpdate, inst, Exited
  <2> QED
    BY <1>a, <2>1
<1>11. CASE UNCHANGED vars
  <2>1. Still /\ Same
    BY <1>11 DEF vars, inst, execs, local, Exited
  <2> QED
    BY <1>a, <2>1
<1> HIDE DEF Still, Same
<1> QED
  BY <1>1, <1>2, <1>3, <1>4, <1>5, <1>6, <1>7, <1>8, <1>9, <1>10, <1>11

-----------------------------------------------------------------------------
(* No node is executed twice. *)

\* At first nothing is reached but the start.
LEMMA OrderInit == Init => OInv
<1> SUFFICES ASSUME Init PROVE OInv
  OBVIOUS
<1>1. Stacks /\ Places
  BY NamesEmpty, ThreadNames DEF Init, Stacks, Places, WalkPC
<1>2. Handling /\ Counting
  BY ThreadNames DEF Init, Handling, Counting, WalkPC
<1>3. \A r \in Run : Pend(r) = {} /\ Done(r) = {}
  BY ThreadNames, NamesEmpty DEF Init, Pend, Done
<1>4. Apart /\ ExecutedOnce
  BY <1>3 DEF Init, Apart, ExecutedOnce
<1>5. \A r \in Run : \A n \in Reach(r) : n \in Node /\ Plan[n].type = "start"
  BY <1>3 DEF Init, Reach
<1>6. \A n, a \in Node : Plan[n].type = "start" => ~Edge(a, n)
  BY DEF Edge, Dispatching
<1>7. Order
  BY <1>5, <1>6, LastEdge DEF Order, Ordered
<1> QED
  BY <1>1, <1>2, <1>4, <1>7 DEF OInv

\* Every step passes nodes before it reaches what they make way for.
LEMMA KeptStep ==
  ASSUME OneWay, ErrorsEnd, IInv, OInv, [Next]_vars
  PROVE  Kept
<1>1. Stacks'
  BY StacksStep DEF OInv
<1>2. ASSUME NEW t \in Thread, ProcessNextNodes(t) PROVE Kept
  BY <1>2, EnterActionKeeps, ForkKeeps, JoinWriteKeeps, WalkKeeps DEF ProcessNextNodes
<1> QED
  BY <1>1, <1>2, StartJobPlanKeeps, HandleProgressKeeps, OtherKeeps, NextCases

\* So it keeps the order.
LEMMA OrderStep ==
  ASSUME OneWay, ErrorsEnd, IInv, OInv, [Next]_vars
  PROVE  OInv'
<1>1. Stacks' /\ Handling' /\ Counting'
  BY StacksStep, HandlingStep, CountingStep DEF OInv
<1> QED
  BY <1>1, KeptStep DEF OInv, Kept

\* So what lies before a node that was reached is passed in every state.
LEMMA OrderInvariant ==
  ASSUME OneWay, ErrorsEnd
  PROVE  Spec => [](IInv /\ OInv)
<1>1. IInv /\ OInv /\ [Next]_vars => OInv'
  BY OrderStep
<1> QED
  BY <1>1, OrderInit, Invariance, PTL DEF Spec

\* However often results are reported, and although the timer and the RPC
\* thread may complete the same node at once, no node of a run is executed
\* twice (processNextNodes, handlejobProgress, timeOutHandle).  This needs a
\* plan with one way to every action and fork and, where there is a timer,
\* errors that end the run.
THEOREM NoNodeTwice ==
  ASSUME OneWay, ErrorsEnd
  PROVE  Spec => []ExecutedOnce
<1>1. OInv => ExecutedOnce
  BY DEF OInv
<1> QED
  BY <1>1, OrderInvariant, PTL


-----------------------------------------------------------------------------
(* A join waits for every path into it. *)

Joins == {n \in Node : Plan[n].type = "join"}

\* The RPC thread has completed x and has join j still before it.
Waiting(x, j) == completing["rpc"] = x /\ j \in Names(frames["rpc"])

\* The actions that have arrived at join j of run r.
Arrived(r, j) ==
  {p \in Into(j) : \E x \in Exec : /\ owner[x] = r /\ node[x] = p /\ Exited(x)
                                   /\ answer[x] = "RESULT_SUCCESS" /\ ~Waiting(x, j)}

Succeeded(r, p) ==
  \E x \in Exec : owner[x] = r /\ node[x] = p /\ answer[x] = "RESULT_SUCCESS"

\* A join is on a stack only when the RPC thread walks on from an action that
\* has succeeded, and then it is alone there.
Arrivals ==
  \A t \in Thread : \A j \in Joins : j \in Names(frames[t]) =>
    /\ t = "rpc" /\ frames[t] = << <<j>> >>
    /\ node[completing[t]] \in Into(j) /\ answer[completing[t]] = "RESULT_SUCCESS"

\* What was completed was reported.
Answered == \A x \in Exec : owner[x] # NoRun /\ Exited(x) => answer[x] # NoRow

\* Once the fork was passed, and as long as the run goes on, the count is the
\* number of actions that have not arrived.
Counted ==
  \A r \in Run : \A j \in Joins :
    \/ status[r] \in EndStatus
    \/ \A n \in Reach(r) : ~Before(Plan[j].peer, n)
    \/ forkCount[r][j] = Cardinality(Into(j) \ Arrived(r, j))

\* What a join leads to is reached when all the actions have succeeded.
Waited ==
  \A r \in Run : \A j \in Joins : \A n \in Reach(r) :
    Edge(j, n) => \A p \in Into(j) : Succeeded(r, p)

JInv == Arrivals /\ Answered /\ Counted /\ Waited

\* A result that was reported stays.
LEMMA AnswerKept ==
  ASSUME IInv, [Next]_vars, NEW x \in Exec, answer[x] # NoRow
  PROVE  answer'[x] = answer[x]
<1>t. answer \in [Exec -> Outcome \cup {NoRow}]
  BY DEF IInv, TypeOK
<1>1. ASSUME NEW y \in Exec, Answer(y) PROVE answer'[x] = answer[x]
  BY <1>1, <1>t DEF Answer
<1>2. ASSUME NEW t \in Thread, ProcessNextNodes(t) PROVE answer' = answer
  BY <1>2 DEF ProcessNextNodes, EnterAction, NotifySuccess, SkipSignal, Fork, JoinRead,
              JoinWrite, EnterEnd, EnterFail, EndNodeThrows, SetEndStatus, execs
<1>3. ASSUME NEW r \in Run, StartJobPlan(r) \/ AddWorkflow(r) \/ TimerQuery(r)
      PROVE  answer' = answer
  BY <1>3 DEF StartJobPlan, AddWorkflow, TimerQuery, execs
<1>4. ASSUME NEW y \in Exec, \/ HandleOnce(y) \/ HandleForgotten(y) \/ HandleProgress(y)
                             \/ NotOverdue(y) \/ Overdue(y) \/ TimeOutKill(y)
      PROVE  answer' = answer
  BY <1>4 DEF HandleOnce, HandleForgotten, HandleProgress, NotOverdue, Overdue, TimeOutKill, execs
<1>5. ASSUME \/ FinishProgress \/ FinishTimeOut \/ OnceUpdate \/ UNCHANGED vars
             \/ \E n \in Node : ExecuteOnce(n)
      PROVE  answer' = answer
  BY <1>5 DEF FinishProgress, FinishTimeOut, OnceUpdate, ExecuteOnce, vars, execs
<1> QED
  BY <1>1, <1>2, <1>3, <1>4, <1>5, NextCases

\* A run that has ended stays ended.
LEMMA EndedStays ==
  ASSUME IInv, [Next]_vars, NEW r \in Run, status[r] \in EndStatus
  PROVE  status'[r] \in EndStatus
<1>t. status \in [Run -> Status]
  BY DEF IInv, TypeOK
<1>1. ASSUME NEW t \in Thread, ProcessNextNodes(t) PROVE status'[r] \in EndStatus
  BY <1>1, WalkFrame
<1>2. ASSUME NEW q \in Run, StartJobPlan(q) \/ AddWorkflow(q) \/ TimerQuery(q)
      PROVE  status'[r] \in EndStatus
  BY <1>2, <1>t DEF StartJobPlan, AddWorkflow, TimerQuery, inst, EndStatus
<1>3. ASSUME NEW x \in Exec, HandleProgress(x) \/ TimeOutKill(x)
      PROVE  status'[r] \in EndStatus
  BY <1>3, <1>t DEF HandleProgress, TimeOutKill, CompleteJobPlanNode, EndStatus
<1>4. ASSUME NEW x \in Exec, \/ HandleOnce(x) \/ HandleForgotten(x) \/ NotOverdue(x)
                             \/ Overdue(x) \/ Answer(x)
      PROVE  status' = status
  BY <1>4 DEF HandleOnce, HandleForgotten, NotOverdue, Overdue, Answer, inst
<1>5. ASSUME \/ FinishProgress \/ FinishTimeOut \/ OnceUpdate \/ UNCHANGED vars
             \/ \E n \in Node : ExecuteOnce(n)
      PROVE  status' = status
  BY <1>5 DEF FinishProgress, FinishTimeOut, OnceUpdate, ExecuteOnce, vars, inst
<1> QED
  BY <1>1, <1>2, <1>3, <1>4, <1>5, NextCases

\* The RPC thread completes an execution of a run.
LEMMA CompletesOwned ==
  ASSUME IInv, OInv
  PROVE  /\ completing["rpc"] = NoExec \/ owner[completing["rpc"]] \in Run
         /\ NoExec \notin Exec /\ NoRun \notin Run
<1>1. "rpc" \in Thread /\ NoRun \notin Run /\ NoExec \notin Exec
  BY ThreadNames, WorkflowAssumption
<1> QED
  BY <1>1 DEF IInv, Located, OInv, Handling

\* An execution of a run is completed by handlejobProgress only, and for good.
LEMMA ExitedStep ==
  ASSUME IInv, OInv, [Next]_vars, NEW x \in Exec, owner'[x] # NoRun
  PROVE  /\ owner[x] # NoRun /\ Exited(x) => Exited(x)'
         /\ Exited(x)' => owner[x] # NoRun /\ (Exited(x) \/ HandleProgress(x))
<1> DEFINE Goal == /\ owner[x] # NoRun /\ Exited(x) => Exited(x)'
                   /\ Exited(x)' => owner[x] # NoRun /\ (Exited(x) \/ HandleProgress(x))
<1>t. /\ owner \in [Exec -> Run \cup {NoRun}] /\ completing \in [Thread -> Exec \cup {NoExec}]
      /\ "timer" \in Thread /\ "rpc" \in Thread
      /\ NoExec \notin Exec /\ NoRun \notin Run
      /\ completing["rpc"] = NoExec \/ owner[completing["rpc"]] \in Run
  BY ThreadNames, CompletesOwned DEF IInv, TypeOK
<1>a. ASSUME UNCHANGED <<owner, info>>, completing'["rpc"] = completing["rpc"] PROVE Goal
  BY <1>a DEF Exited
<1>1. ASSUME NEW t \in Thread, ProcessNextNodes(t) PROVE Goal
  <2>1. CASE EnterAction(t)
    <3>1. /\ Fresh \in Exec /\ owner[Fresh] = NoRun /\ owner' = [owner EXCEPT ![Fresh] = on[t]]
          /\ info' = info \cup {Fresh} /\ completing' = completing
      BY <2>1, FreshType DEF EnterAction, executeXJob, IInv, ScanOwned
    <3> QED
      BY <1>t, <3>1 DEF Exited
  <2>2. CASE ~EnterAction(t)
    BY <1>1, <1>a, <2>2 DEF ProcessNextNodes, NotifySuccess, SkipSignal, Fork, JoinRead,
                            JoinWrite, EnterEnd, EnterFail, EndNodeThrows, SetEndStatus, execs
  <2> QED
    BY <2>1, <2>2
<1>2. ASSUME NEW r \in Run, StartJobPlan(r) \/ AddWorkflow(r) \/ TimerQuery(r) PROVE Goal
  BY <1>2, <1>a DEF StartJobPlan, AddWorkflow, TimerQuery, execs
<1>3. ASSUME NEW y \in Exec, \/ HandleForgotten(y) \/ NotOverdue(y) \/ Overdue(y) \/ Answer(y)
      PROVE  Goal
  BY <1>3, <1>a DEF HandleForgotten, NotOverdue, Overdue, Answer, execs, local
<1>4. ASSUME NEW y \in Exec, TimeOutKill(y) PROVE Goal
  <2>1. UNCHANGED <<owner, info>> /\ completing'["rpc"] = completing["rpc"]
    BY <1>4, <1>t DEF TimeOutKill, CompleteJobPlanNode
  <2> QED
    BY <1>a, <2>1
<1>5. ASSUME NEW y \in Exec, HandleOnce(y) PROVE Goal
  BY <1>5, <1>t DEF HandleOnce, local, Exited
<1>6. ASSUME NEW y \in Exec, HandleProgress(y) PROVE Goal
  <2>1. /\ pc["rpc"] = "idle" /\ UNCHANGED <<owner, info>>
        /\ completing' = [completing EXCEPT !["rpc"] = y]
    BY <1>6 DEF HandleProgress, Reported, CompleteJobPlanNode
  <2>2. completing["rpc"] = NoExec
    BY <2>1 DEF OInv, Handling, WalkPC
  <2> QED
    BY <1>6, <1>t, <2>1, <2>2 DEF Exited
<1>7. CASE FinishProgress
  <2>1. /\ UNCHANGED owner /\ info' = info \ {completing["rpc"]}
        /\ completing' = [completing EXCEPT !["rpc"] = NoExec]
    BY <1>7 DEF FinishProgress
  <2> QED
    BY <1>t, <2>1 DEF Exited
<1>8. CASE FinishTimeOut
  <2>1. UNCHANGED <<owner, info>> /\ completing'["rpc"] = completing["rpc"]
    BY <1>8, <1>t DEF FinishTimeOut
  <2> QED
    BY <1>a, <2>1
<1>9. ASSUME NEW n \in Node, ExecuteOnce(n) PROVE Goal
  <2>1. /\ Fresh \in Exec /\ owner[Fresh] = NoRun /\ owner' = [owner EXCEPT ![Fresh] = NoRun]
        /\ info' = info \cup {Fresh} /\ completing' = completing
    BY <1>9, FreshType DEF ExecuteOnce, executeXJob, IInv, ScanOwned
  <2> QED
    BY <1>t, <2>1 DEF Exited
<1>10. CASE OnceUpdate \/ UNCHANGED vars
  BY <1>10, <1>a DEF OnceUpdate, vars, execs, local
<1> QED
  BY <1>1, <1>2, <1>3, <1>4, <1>5, <1>6, <1>7, <1>8, <1>9, <1>10, NextCases

\* A stack on which a join is holds nothing else.
LEMMA JoinOnTop ==
  ASSUME Arrivals, NEW t \in Thread, NEW j \in Joins, j \in Names(frames[t])
  PROVE  /\ frames[t] = << <<j>> >> /\ frames[t] # <<>> /\ Current(t) = j
         /\ Rest(frames[t]) = <<>> /\ Tail(frames[t]) = <<>>
<1>1. frames[t] = << <<j>> >>
  BY DEF Arrivals
<1> QED
  BY <1>1 DEF Current, Rest

\* Only the success of an action leads to a join.
LEMMA NotToJoin ==
  ASSUME Balanced, NEW p \in Node, Plan[p].type \in {"start", "fork", "join"}, NEW j \in Joins
  PROVE  j \notin Range(Plan[p].to)
<1>1. Successors(p) = Range(Plan[p].to)
  BY DEF Successors
<1>2. j \in Successors(p) => p \in Into(j)
  BY DEF Balanced, Joins
<1> QED
  BY <1>1, <1>2 DEF Into

\* The walk: no join is put on a stack, and one is taken off it by its arrival,
\* or in a run that has ended.
LEMMA JoinWalk ==
  ASSUME Balanced, IInv, OInv, Arrivals, NEW t \in Thread, ProcessNextNodes(t), NEW j \in Joins
  PROVE  /\ j \in Names(frames'[t]) => frames'[t] = frames[t]
         /\ j \in Names(frames[t]) => \/ frames'[t] = frames[t]
                                      \/ status'[on[t]] \in EndStatus
                                      \/ JoinWrite(t) /\ Current(t) = j
<1> DEFINE Goal == /\ j \in Names(frames'[t]) => frames'[t] = frames[t]
                   /\ j \in Names(frames[t]) => \/ frames'[t] = frames[t]
                                                \/ status'[on[t]] \in EndStatus
                                                \/ JoinWrite(t) /\ Current(t) = j
<1>t. /\ frames \in [Thread -> Frames] /\ status \in [Run -> Status] /\ on[t] \in Run
      /\ j \in Node /\ Plan[j].type = "join" /\ Names(<<>>) = {}
  BY WalkFrame, NamesEmpty DEF IInv, TypeOK, Frames, Joins
<1>c. j \in Names(frames[t]) => Current(t) = j /\ Rest(frames[t]) = <<>>
  BY JoinOnTop
<1>a. ASSUME frames'[t] = frames[t] PROVE Goal
  BY <1>a
<1>b. ASSUME frames[t] # <<>>, Plan[Current(t)].type # "join",
             frames'[t] = Rest(frames[t]) \/ frames'[t] = Tail(frames[t])
      PROVE  Goal
  <2>1. Names(frames'[t]) \subseteq Names(frames[t])
    BY <1>b, CurrentNamed
  <2> QED
    BY <1>b, <1>c, <1>t, <2>1
<1>1. CASE NotifySuccess(t) \/ SetEndStatus(t)
  BY <1>1, <1>a DEF NotifySuccess, SetEndStatus
<1>2. CASE EnterAction(t) \/ EnterEnd(t) \/ EnterFail(t) \/ EndNodeThrows(t)
  <2>1. /\ frames[t] # <<>> /\ Plan[Current(t)].type # "join"
        /\ frames'[t] = Rest(frames[t]) \/ frames'[t] = Tail(frames[t])
    BY <1>2, <1>t DEF EnterAction, EnterEnd, EnterFail, EndNodeThrows, At, Current
  <2> QED
    BY <1>b, <2>1
<1>3. CASE SkipSignal(t)
  <2>1. /\ frames[t] # <<>> /\ frames'[t] = Rest(frames[t]) /\ UNCHANGED status
        /\ status[on[t]] # "RUNNING"
    BY <1>3, <1>t DEF SkipSignal, At, inst
  <2>2. status'[on[t]] \in EndStatus
    BY <1>t, <2>1 DEF IInv, Private, Status, EndStatus
  <2>3. Names(frames'[t]) \subseteq Names(frames[t])
    BY <2>1, CurrentNamed
  <2> QED
    BY <1>c, <1>t, <2>1, <2>2, <2>3
<1>4. CASE Fork(t)
  <2>1. /\ frames[t] # <<>> /\ frames'[t] = Push(Plan[Current(t)].to, Rest(frames[t]))
        /\ Plan[Current(t)].type = "fork"
    BY <1>4, <1>t DEF Fork, At, Current
  <2>2. Current(t) \in Node /\ Rest(frames[t]) \in Frames
        /\ Names(Rest(frames[t])) \subseteq Names(frames[t])
    BY <2>1, CurrentNamed
  <2>3. Names(frames'[t]) = Range(Plan[Current(t)].to) \cup Names(Rest(frames[t]))
    BY <2>1, <2>2, PlanType, PushNames
  <2>4. j \notin Range(Plan[Current(t)].to)
    BY <2>1, <2>2, NotToJoin
  <2> QED
    BY <1>c, <1>t, <2>1, <2>2, <2>3, <2>4
<1>5. CASE JoinRead(t)
  <2>1. /\ frames[t] # <<>>
        /\ \/ frames'[t] = frames[t]
           \/ frames'[t] = Rest(frames[t]) /\ status'[on[t]] = "FAILED"
    BY <1>5, <1>t DEF JoinRead, At
  <2>2. Names(Rest(frames[t])) \subseteq Names(frames[t])
    BY <2>1, CurrentNamed
  <2> QED
    BY <1>c, <1>t, <2>1, <2>2 DEF EndStatus
<1>6. CASE JoinWrite(t)
  <2>1. /\ frames[t] # <<>> /\ Plan[Current(t)].type = "join"
        /\ \/ frames'[t] = Push(Plan[Current(t)].to, Rest(frames[t]))
           \/ frames'[t] = Rest(frames[t])
    BY <1>6, <1>t DEF JoinWrite, IInv, Located, OInv, Counting
  <2>2. Current(t) \in Node /\ Rest(frames[t]) \in Frames
        /\ Names(Rest(frames[t])) \subseteq Names(frames[t])
    BY <2>1, CurrentNamed
  <2>3. Names(frames'[t]) \subseteq Range(Plan[Current(t)].to) \cup Names(Rest(frames[t]))
    BY <2>1, <2>2, PlanType, PushNames
  <2>4. j \notin Range(Plan[Current(t)].to)
    BY <2>1, <2>2, NotToJoin
  <2> QED
    BY <1>6, <1>c, <1>t, <2>2, <2>3, <2>4
<1> QED
  BY <1>1, <1>2, <1>3, <1>4, <1>5, <1>6 DEF ProcessNextNodes

\* The RPC thread puts a join on its stack for an action that has succeeded,
\* unless the run has ended.
LEMMA HandleArrives ==
  ASSUME Balanced, IInv, OInv, NEW x \in Exec, HandleProgress(x), NEW j \in Joins
  PROVE  /\ owner[x] \in Run /\ node[x] \in Node /\ completing'["rpc"] = x
         /\ answer[x] # NoRow /\ frames["rpc"] = <<>> /\ ~Exited(x)
         /\ \A t \in Thread \ {"rpc"} : frames'[t] = frames[t]
         /\ j \in Names(frames'["rpc"]) => /\ frames'["rpc"] = << <<j>> >> /\ node[x] \in Into(j)
                                           /\ answer[x] = "RESULT_SUCCESS"
         /\ node[x] \in Into(j) /\ answer[x] = "RESULT_SUCCESS"
            => j \in Names(frames'["rpc"]) \/ status'[owner[x]] \in EndStatus
<1>t. /\ frames \in [Thread -> Frames] /\ status \in [Run -> Status] /\ "rpc" \in Thread
      /\ workflows \subseteq Run /\ node \in [Exec -> Node \cup {NoNode}]
      /\ completing \in [Thread -> Exec \cup {NoExec}]
      /\ NoExec \notin Exec /\ NoRun \notin Run /\ Names(<<>>) = {}
  BY ThreadNames, WorkflowAssumption, NamesEmpty DEF IInv, TypeOK, Frames
<1>0. /\ pc["rpc"] = "idle" /\ x \in info /\ owner[x] \in workflows /\ answer[x] # NoRow
      /\ completing' = [completing EXCEPT !["rpc"] = x]
      /\ status' = IF ExitThrows(x, answer[x])
                   THEN [status EXCEPT ![owner[x]] = "FAILED"] ELSE status
      /\ frames' = [frames EXCEPT !["rpc"] =
                      IF ExitThrows(x, answer[x]) \/ status[owner[x]] \in EndStatus THEN <<>>
                      ELSE Push(ExitTo(node[x], answer[x]), <<>>)]
  BY DEF HandleProgress, Reported, CompleteJobPlanNode
<1>1. owner[x] \in Run /\ node[x] \in Node
  BY <1>0, <1>t DEF IInv, ScanOwned
<1>2. frames["rpc"] = <<>> /\ completing["rpc"] = NoExec /\ ~Exited(x)
  BY <1>0, <1>t DEF OInv, Stacks, Handling, WalkPC, Exited
<1>p. PICK p \in Node, s \in {answer[x]} : p = node[x] /\ s = answer[x]
  BY <1>1
<1>3. Plan[p].type = "action"
  BY <1>1, <1>p, WorkflowAssumption DEF OInv, Apart
<1>4. j \in Node /\ Push(<<j>>, <<>>) = << <<j>> >> /\ j \in Names(<< <<j>> >>)
  <2>1. j \in Node
    BY DEF Joins
  <2>2. Push(<<j>>, <<>>) = << <<j>> >>
    BY <2>1 DEF Push
  <2>3. 1 \in DOMAIN << <<j>> >> /\ 1 \in DOMAIN << <<j>> >>[1] /\ << <<j>> >>[1][1] = j
    OBVIOUS
  <2> QED
    BY <2>1, <2>2, <2>3, NamesPlaces
<1>5. ASSUME j \in Names(frames'["rpc"])
      PROVE  frames'["rpc"] = << <<j>> >> /\ p \in Into(j) /\ s = "RESULT_SUCCESS"
  <2>1. frames'["rpc"] = Push(ExitTo(p, s), <<>>)
    BY <1>0, <1>5, <1>p, <1>t
  <2>2. <<>> \in Frames /\ ExitTo(p, s) \in Seq(Node)
    BY ExitToType, EmptySeq DEF Frames
  <2>3. j \in Range(ExitTo(p, s))
    BY <1>5, <1>t, <2>1, <2>2, PushNames
  <2>4. p \in Into(j) /\ j \notin Range(Plan[p].error)
    BY <1>3, <2>3, ExitToSuccessors DEF Balanced, Joins
  <2>5. s = "RESULT_SUCCESS"
    <3>1. Range(<<>>) = {}
      BY DEF Range
    <3> QED
      BY <2>3, <2>4, <3>1 DEF ExitTo
  <2>6. ExitTo(p, s) = <<j>>
    BY <2>4, <2>5 DEF ExitTo, Into
  <2> QED
    BY <1>4, <2>1, <2>4, <2>5, <2>6
<1>6. ASSUME p \in Into(j), s = "RESULT_SUCCESS"
      PROVE  j \in Names(frames'["rpc"]) \/ status'[owner[x]] \in EndStatus
  <2>1. ExitTo(p, s) = <<j>>
    BY <1>6 DEF ExitTo, Into
  <2>2. CASE ExitThrows(x, s)
    BY <1>0, <1>1, <1>p, <1>t, <2>2 DEF EndStatus
  <2>3. CASE ~ExitThrows(x, s) /\ status[owner[x]] \in EndStatus
    BY <1>0, <1>p, <2>3
  <2>4. CASE ~ExitThrows(x, s) /\ status[owner[x]] \notin EndStatus
    <3>1. frames'["rpc"] = Push(ExitTo(p, s), <<>>)
      BY <1>0, <1>p, <1>t, <2>4
    <3> QED
      BY <1>4, <2>1, <3>1
  <2> QED
    BY <2>2, <2>3, <2>4
<1> QED
  BY <1>0, <1>1, <1>2, <1>5, <1>6, <1>p, <1>t

\* How joins get on and off the stacks.
LEMMA JoinStep ==
  ASSUME Balanced, ErrorsEnd, IInv, OInv, Arrivals, [Next]_vars, NEW j \in Joins
  PROVE  /\ \A t \in Thread : j \in Names(frames'[t]) =>
              \/ /\ frames'[t] = frames[t]
                 /\ t = "rpc" => completing'["rpc"] = completing["rpc"]
              \/ /\ t = "rpc" /\ frames'["rpc"] = << <<j>> >>
                 /\ \E x \in Exec : /\ HandleProgress(x) /\ completing'["rpc"] = x
                                    /\ node[x] \in Into(j) /\ answer[x] = "RESULT_SUCCESS"
         /\ j \in Names(frames["rpc"]) =>
              \/ j \in Names(frames'["rpc"]) /\ completing'["rpc"] = completing["rpc"]
              \/ status'[on["rpc"]] \in EndStatus
              \/ JoinWrite("rpc") /\ Current("rpc") = j
<1> DEFINE On(t) == j \in Names(frames'[t]) =>
              \/ /\ frames'[t] = frames[t]
                 /\ t = "rpc" => completing'["rpc"] = completing["rpc"]
              \/ /\ t = "rpc" /\ frames'["rpc"] = << <<j>> >>
                 /\ \E x \in Exec : /\ HandleProgress(x) /\ completing'["rpc"] = x
                                    /\ node[x] \in Into(j) /\ answer[x] = "RESULT_SUCCESS"
           Off == j \in Names(frames["rpc"]) =>
              \/ j \in Names(frames'["rpc"]) /\ completing'["rpc"] = completing["rpc"]
              \/ status'[on["rpc"]] \in EndStatus
              \/ JoinWrite("rpc") /\ Current("rpc") = j
           Goal == (\A t \in Thread : On(t)) /\ Off
<1>t. /\ frames \in [Thread -> Frames] /\ completing \in [Thread -> Exec \cup {NoExec}]
      /\ "timer" \in Thread /\ "rpc" \in Thread /\ Run \subseteq Thread
      /\ "rpc" \notin Run /\ Names(<<>>) = {} /\ Plan[j].type = "join"
  BY ThreadNames, NamesEmpty DEF IInv, TypeOK, Frames, Joins
<1>a. ASSUME \A t \in Thread : frames'[t] = frames[t] \/ j \notin Names(frames'[t]),
             frames'["rpc"] = frames["rpc"], completing'["rpc"] = completing["rpc"]
      PROVE  Goal
  BY <1>a
<1>1. ASSUME NEW r \in Run, StartJobPlan(r) PROVE Goal
  <2>1. /\ completing' = completing /\ \A t \in Thread \ {r} : frames'[t] = frames[t]
        /\ \/ frames'[r] = frames[r]
           \/ \E n \in Node : Plan[n].type = "start" /\ frames'[r] = Push(Plan[n].to, <<>>)
    BY <1>1, <1>t DEF StartJobPlan, EnterStart
  <2>2. ASSUME NEW n \in Node, Plan[n].type = "start" PROVE j \notin Names(Push(Plan[n].to, <<>>))
    <3>1. <<>> \in Frames /\ Plan[n].to \in Seq(Node)
      BY EmptySeq, PlanType DEF Frames
    <3>2. j \notin Range(Plan[n].to)
      BY <2>2, NotToJoin
    <3> QED
      BY <1>t, <3>1, <3>2, PushNames
  <2> QED
    BY <1>a, <1>t, <2>1, <2>2
<1>2. ASSUME NEW r \in Run, AddWorkflow(r) \/ TimerQuery(r) PROVE Goal
  BY <1>2, <1>a DEF AddWorkflow, TimerQuery
<1>3. ASSUME NEW t \in Thread, ProcessNextNodes(t) PROVE Goal
  <2>1. /\ \A u \in Thread \ {t} : frames'[u] = frames[u]
        /\ completing' = completing /\ on' = on
    BY <1>3, WalkFrame, WalkCounts DEF OInv
  <2>2. /\ j \in Names(frames'[t]) => frames'[t] = frames[t]
        /\ j \in Names(frames[t]) => \/ frames'[t] = frames[t]
                                     \/ status'[on[t]] \in EndStatus
                                     \/ JoinWrite(t) /\ Current(t) = j
    BY <1>3, JoinWalk
  <2>3. \A u \in Thread : On(u)
    BY <2>1, <2>2
  <2>4. Off
    BY <1>t, <2>1, <2>2
  <2> QED
    BY <2>3, <2>4
<1>4. ASSUME NEW x \in Exec, HandleOnce(x) \/ HandleForgotten(x) \/ Answer(x) PROVE Goal
  BY <1>4, <1>a DEF HandleOnce, HandleForgotten, Answer, local
<1>5. ASSUME NEW x \in Exec, NotOverdue(x) \/ Overdue(x) PROVE Goal
  BY <1>5, <1>a DEF NotOverdue, Overdue
<1>6. ASSUME NEW x \in Exec, TimeOutKill(x) PROVE Goal
  <2>1. /\ \A u \in Thread \ {"timer"} : frames'[u] = frames[u]
        /\ completing'["rpc"] = completing["rpc"]
    BY <1>6, <1>t DEF TimeOutKill, CompleteJobPlanNode
  <2>2. Stacks'
    BY StacksStep DEF OInv
  <2>3. j \notin Names(frames'["timer"])
    BY <1>t, <2>2 DEF Stacks
  <2> QED
    BY <1>a, <1>t, <2>1, <2>3
<1>7. ASSUME NEW x \in Exec, HandleProgress(x) PROVE Goal
  <2>1. /\ completing'["rpc"] = x /\ frames["rpc"] = <<>>
        /\ \A t \in Thread \ {"rpc"} : frames'[t] = frames[t]
        /\ j \in Names(frames'["rpc"]) => /\ frames'["rpc"] = << <<j>> >> /\ node[x] \in Into(j)
                                          /\ answer[x] = "RESULT_SUCCESS"
    BY <1>7, HandleArrives
  <2>2. Off
    BY <1>t, <2>1
  <2>3. \A t \in Thread : On(t)
    BY <1>7, <2>1
  <2> QED
    BY <2>2, <2>3
<1>8. ASSUME FinishProgress PROVE Goal
  <2>1. frames' = frames /\ frames["rpc"] = <<>>
    BY <1>8 DEF FinishProgress, WalkDone
  <2> QED
    BY <1>t, <2>1
<1>9. ASSUME FinishTimeOut PROVE Goal
  <2>1. frames' = frames /\ completing'["rpc"] = completing["rpc"]
    BY <1>9, <1>t DEF FinishTimeOut
  <2> QED
    BY <1>a, <2>1
<1>10. ASSUME OnceUpdate \/ (\E n \in Node : ExecuteOnce(n)) \/ UNCHANGED vars PROVE Goal
  BY <1>10, <1>a DEF OnceUpdate, ExecuteOnce, vars, local
<1> HIDE DEF Goal
<1>11. Goal
  BY <1>1, <1>2, <1>3, <1>4, <1>5, <1>6, <1>7, <1>8, <1>9, <1>10, NextCases
<1> QED
  BY <1>11 DEF Goal

\* How counts change.
LEMMA CountStep ==
  ASSUME IInv, OInv, [Next]_vars, NEW r \in Run, NEW j \in Joins
  PROVE  \/ forkCount'[r][j] = forkCount[r][j]
         \/ \E t \in Thread : \/ Fork(t) /\ on[t] = r /\ Plan[Current(t)].peer = j
                              \/ JoinWrite(t) /\ on[t] = r /\ Current(t) = j
<1>t. forkCount \in [Run -> [Node -> Nat]] /\ j \in Node
  BY DEF IInv, TypeOK, Joins
<1>1. ASSUME NEW t \in Thread, Fork(t), ~(on[t] = r /\ Plan[Current(t)].peer = j)
      PROVE  forkCount'[r][j] = forkCount[r][j]
  BY <1>1, <1>t DEF Fork
<1>2. ASSUME NEW t \in Thread, JoinWrite(t), ~(on[t] = r /\ Current(t) = j)
      PROVE  forkCount'[r][j] = forkCount[r][j]
  BY <1>2, <1>t DEF JoinWrite
<1>3. ASSUME NEW t \in Thread, ProcessNextNodes(t), ~Fork(t), ~JoinWrite(t)
      PROVE  forkCount' = forkCount
  BY <1>3 DEF ProcessNextNodes, EnterAction, NotifySuccess, SkipSignal, JoinRead, EnterEnd,
              EnterFail, EndNodeThrows, SetEndStatus, inst
<1>4. ASSUME NEW q \in Run, StartJobPlan(q) \/ AddWorkflow(q) \/ TimerQuery(q)
      PROVE  forkCount' = forkCount
  BY <1>4 DEF StartJobPlan, AddWorkflow, TimerQuery, inst
<1>5. ASSUME NEW x \in Exec, \/ HandleOnce(x) \/ HandleForgotten(x) \/ HandleProgress(x)
                             \/ NotOverdue(x) \/ Overdue(x) \/ TimeOutKill(x) \/ Answer(x)
      PROVE  forkCount' = forkCount
  BY <1>5 DEF HandleOnce, HandleForgotten, HandleProgress, NotOverdue, Overdue, TimeOutKill,
              Answer, inst
<1>6. ASSUME \/ FinishProgress \/ FinishTimeOut \/ OnceUpdate \/ UNCHANGED vars
             \/ \E n \in Node : ExecuteOnce(n)
      PROVE  forkCount' = forkCount
  BY <1>6 DEF FinishProgress, FinishTimeOut, OnceUpdate, ExecuteOnce, vars, inst
<1> QED
  BY <1>1, <1>2, <1>3, <1>4, <1>5, <1>6, NextCases

\* Joins arrive one at a time.
LEMMA ArrivalsStep ==
  ASSUME Balanced, ErrorsEnd, IInv, OInv, Arrivals, [Next]_vars
  PROVE  Arrivals'
<1> SUFFICES ASSUME NEW t \in Thread, NEW j \in Joins, j \in Names(frames'[t])
             PROVE  /\ t = "rpc" /\ frames'[t] = << <<j>> >>
                    /\ node'[completing'[t]] \in Into(j)
                    /\ answer'[completing'[t]] = "RESULT_SUCCESS"
  BY DEF Arrivals
<1>t. "RESULT_SUCCESS" # NoRow /\ NoRun \notin Run
  BY ThreadNames DEF NoRow
<1>1. CASE /\ frames'[t] = frames[t]
           /\ t = "rpc" => completing'["rpc"] = completing["rpc"]
  <2>1. /\ t = "rpc" /\ frames[t] = << <<j>> >> /\ completing'[t] = completing[t]
        /\ node[completing[t]] \in Into(j) /\ answer[completing[t]] = "RESULT_SUCCESS"
    BY <1>1 DEF Arrivals
  <2>2. frames[t] # <<>>
    BY <2>1
  <2>3. completing[t] \in Exec /\ owner[completing[t]] # NoRun
    BY <1>t, <2>1, <2>2 DEF OInv, Stacks, Handling, IInv, Located
  <2>4. node'[completing[t]] = node[completing[t]] /\ answer'[completing[t]] = answer[completing[t]]
    BY <1>t, <2>1, <2>3, OwnerKept, AnswerKept
  <2> QED
    BY <1>1, <2>1, <2>4
<1>2. CASE /\ t = "rpc" /\ frames'["rpc"] = << <<j>> >>
           /\ \E x \in Exec : /\ HandleProgress(x) /\ completing'["rpc"] = x
                              /\ node[x] \in Into(j) /\ answer[x] = "RESULT_SUCCESS"
  <2>1. PICK x \in Exec : /\ HandleProgress(x) /\ completing'["rpc"] = x
                          /\ node[x] \in Into(j) /\ answer[x] = "RESULT_SUCCESS"
    BY <1>2
  <2>2. node' = node /\ answer' = answer
    BY <2>1 DEF HandleProgress
  <2> QED
    BY <1>2, <2>1, <2>2
<1> QED
  BY <1>1, <1>2, JoinStep

\* What is completed was reported.
LEMMA AnsweredStep ==
  ASSUME IInv, OInv, Answered, [Next]_vars
  PROVE  Answered'
<1> SUFFICES ASSUME NEW x \in Exec, owner'[x] # NoRun, Exited(x)' PROVE answer'[x] # NoRow
  BY DEF Answered
<1>1. owner[x] # NoRun /\ (Exited(x) \/ HandleProgress(x))
  BY ExitedStep
<1>2. answer[x] # NoRow
  BY <1>1 DEF Answered, HandleProgress, Reported
<1> QED
  BY <1>2, AnswerKept

\* The fork of a join makes way for it.
LEMMA ForkOfJoin ==
  ASSUME Balanced, NEW j \in Joins
  PROVE  /\ j \in Node /\ Plan[j].peer \in Node /\ Edge(Plan[j].peer, j)
         /\ Plan[Plan[j].peer].type = "fork" /\ Plan[Plan[j].peer].peer = j
         /\ IsFiniteSet(Into(j)) /\ Cardinality(Into(j)) = Len(Plan[Plan[j].peer].to)
         /\ \A p \in Into(j) : p \in Node /\ Before(Plan[j].peer, p)
<1>1. j \in Node /\ Plan[j].type = "join" /\ Plan[j].peer \in Node
  BY WorkflowAssumption DEF Joins
<1> QED
  BY <1>1 DEF Balanced, Edge, Into

\* The action from which the RPC thread comes to a join has not arrived yet.
LEMMA NotArrived ==
  ASSUME IInv, OInv, Arrivals, NEW j \in Joins, j \in Names(frames["rpc"])
  PROVE  /\ completing["rpc"] \in Exec /\ owner[completing["rpc"]] = on["rpc"]
         /\ on["rpc"] \in Run /\ node[completing["rpc"]] \in Into(j)
         /\ answer[completing["rpc"]] = "RESULT_SUCCESS"
         /\ node[completing["rpc"]] \notin Arrived(on["rpc"], j)
<1>t. "rpc" \in Thread /\ NoRun \notin Run /\ Names(<<>>) = {}
  BY ThreadNames, NamesEmpty
<1>1. pc["rpc"] \in WalkPC
  BY <1>t DEF OInv, Stacks
<1>2. /\ completing["rpc"] \in Exec /\ on["rpc"] \in Run
      /\ owner[completing["rpc"]] = on["rpc"]
  BY <1>1, <1>t DEF IInv, Located, OInv, Handling
<1>3. node[completing["rpc"]] \in Into(j) /\ answer[completing["rpc"]] = "RESULT_SUCCESS"
  BY <1>t DEF Arrivals
<1>4. ASSUME NEW x \in Exec, owner[x] = on["rpc"], node[x] = node[completing["rpc"]]
      PROVE  x = completing["rpc"]
  <2>1. node[x] # NoNode /\ owner[x] # NoRun
    BY <1>2, <1>3, <1>4, <1>t, WorkflowAssumption DEF Into
  <2> QED
    BY <1>2, <1>4, <2>1 DEF OInv, ExecutedOnce
<1>5. node[completing["rpc"]] \notin Arrived(on["rpc"], j)
  BY <1>4 DEF Arrived, Waiting
<1> QED
  BY <1>2, <1>3, <1>5

\* What has arrived in the next state.
LEMMA ArrivedStep ==
  ASSUME Balanced, ErrorsEnd, IInv, OInv, Arrivals, Answered, [Next]_vars,
         NEW r \in Run, NEW j \in Joins, status'[r] \notin EndStatus
  PROVE  /\ Arrived(r, j) \subseteq Arrived(r, j)'
         /\ \A p \in Arrived(r, j)' : \/ p \in Arrived(r, j)
                                      \/ /\ JoinWrite("rpc") /\ Current("rpc") = j
                                         /\ on["rpc"] = r /\ p = node[completing["rpc"]]
<1>t. "rpc" \in Thread /\ NoRun \notin Run /\ "RESULT_SUCCESS" # NoRow
  BY ThreadNames DEF NoRow
<1>1. ASSUME NEW p \in Arrived(r, j) PROVE p \in Arrived(r, j)'
  <2>1. PICK x \in Exec : /\ owner[x] = r /\ node[x] = p /\ Exited(x)
                          /\ answer[x] = "RESULT_SUCCESS" /\ ~Waiting(x, j)
    BY DEF Arrived
  <2>2. owner'[x] = r /\ node'[x] = p /\ answer'[x] = "RESULT_SUCCESS"
    BY <1>t, <2>1, OwnerKept, AnswerKept
  <2>3. Exited(x)'
    BY <1>t, <2>1, <2>2, ExitedStep
  <2>4. ASSUME Waiting(x, j)' PROVE FALSE
    <3>1. completing'["rpc"] = x /\ j \in Names(frames'["rpc"])
      BY <2>4 DEF Waiting
    <3>2. CASE frames'["rpc"] = frames["rpc"] /\ completing'["rpc"] = completing["rpc"]
      BY <2>1, <3>1, <3>2 DEF Waiting
    <3>3. CASE \E y \in Exec : HandleProgress(y) /\ completing'["rpc"] = y
      <4>1. HandleProgress(x)
        BY <3>1, <3>3
      <4> QED
        BY <2>1, <4>1, HandleArrives
    <3> QED
      BY <1>t, <3>1, <3>2, <3>3, JoinStep
  <2>5. p \in Into(j)
    BY DEF Arrived
  <2> QED
    BY <2>2, <2>3, <2>4, <2>5 DEF Arrived
<1>2. ASSUME NEW p \in Arrived(r, j)', p \notin Arrived(r, j)
      PROVE  /\ JoinWrite("rpc") /\ Current("rpc") = j
             /\ on["rpc"] = r /\ p = node[completing["rpc"]]
  <2>1. PICK x \in Exec : /\ owner'[x] = r /\ node'[x] = p /\ Exited(x)'
                          /\ answer'[x] = "RESULT_SUCCESS" /\ ~Waiting(x, j)'
    BY DEF Arrived
  <2>2. owner[x] # NoRun /\ (Exited(x) \/ HandleProgress(x)) /\ p \in Into(j)
    BY <1>t, <2>1, ExitedStep DEF Arrived
  <2>3. owner[x] = r /\ node[x] = p /\ answer[x] # NoRow
    BY <2>1, <2>2, OwnerKept DEF Answered, HandleProgress, Reported
  <2>4. answer[x] = "RESULT_SUCCESS"
    BY <2>1, <2>3, AnswerKept
  <2>5. CASE HandleProgress(x)
    BY <2>1, <2>2, <2>3, <2>4, <2>5, HandleArrives DEF Waiting
  <2>6. CASE Exited(x)
    <3>1. Waiting(x, j)
      BY <1>2, <2>2, <2>3, <2>4, <2>6 DEF Arrived
    <3>2. completing["rpc"] = x /\ j \in Names(frames["rpc"])
      BY <3>1 DEF Waiting
    <3>3. on["rpc"] = r
      BY <2>3, <3>2, NotArrived
    <3>4. ~(j \in Names(frames'["rpc"]) /\ completing'["rpc"] = completing["rpc"])
      BY <2>1, <3>2 DEF Waiting
    <3>5. JoinWrite("rpc") /\ Current("rpc") = j
      BY <3>2, <3>3, <3>4, JoinStep
    <3> QED
      BY <2>3, <3>2, <3>3, <3>5
  <2> QED
    BY <2>2, <2>5, <2>6
<1> QED
  BY <1>1, <1>2

\* An arrival is counted.
LEMMA JoinCounts ==
  ASSUME Balanced, ErrorsEnd, IInv, OInv, Arrivals, Answered, [Next]_vars,
         JoinWrite("rpc"), NEW j \in Joins, Current("rpc") = j, NEW r \in Run, on["rpc"] = r,
         status'[r] \notin EndStatus, forkCount[r][j] = Cardinality(Into(j) \ Arrived(r, j))
  PROVE  forkCount'[r][j] = Cardinality(Into(j) \ Arrived(r, j)')
<1>t. /\ "rpc" \in Thread /\ forkCount \in [Run -> [Node -> Nat]] /\ val \in [Thread -> Nat]
      /\ frames \in [Thread -> Frames] /\ j \in Node
  BY ThreadNames DEF IInv, TypeOK, Frames, Joins
<1>1. /\ frames["rpc"] # <<>> /\ forkCount[r][j] = val["rpc"] + 1
      /\ forkCount' = [forkCount EXCEPT ![r][j] = val["rpc"]]
      /\ UNCHANGED <<owner, node, info, answer, completing>>
  BY <1>t DEF JoinWrite, OInv, Counting, IInv, Located, execs
<1>2. j \in Names(frames["rpc"])
  BY <1>1, <1>t, CurrentNamed
<1>x. PICK x, p : x = completing["rpc"] /\ p = node[x]
  OBVIOUS
<1>3. /\ x \in Exec /\ owner[x] = r /\ p \in Into(j) /\ p \notin Arrived(r, j)
      /\ answer[x] = "RESULT_SUCCESS"
  BY <1>2, <1>x, NotArrived
<1>4. j \notin Names(frames'["rpc"])
  <2>1. Rest(frames["rpc"]) = <<>>
    BY <1>2, <1>t, JoinOnTop
  <2>2. \/ frames'["rpc"] = Push(Plan[j].to, <<>>)
        \/ frames'["rpc"] = <<>>
    BY <1>t, <2>1 DEF JoinWrite
  <2>3. <<>> \in Frames /\ Plan[j].to \in Seq(Node)
    BY <1>t, EmptySeq, PlanType DEF Frames
  <2>4. j \notin Range(Plan[j].to)
    BY <1>t, NotToJoin DEF Joins
  <2> QED
    BY <2>2, <2>3, <2>4, PushNames, NamesEmpty
<1>5. p \in Arrived(r, j)'
  <2>1. Exited(x)' /\ ~Waiting(x, j)'
    BY <1>1, <1>4, <1>x DEF Exited, Waiting
  <2> QED
    BY <1>1, <1>3, <1>x, <2>1 DEF Arrived
<1>6. Into(j) \ Arrived(r, j)' = (Into(j) \ Arrived(r, j)) \ {p}
  <2>1. /\ Arrived(r, j) \subseteq Arrived(r, j)'
        /\ \A q \in Arrived(r, j)' : q \in Arrived(r, j) \/ q = p
    BY <1>x, ArrivedStep
  <2> QED
    BY <1>5, <2>1
<1>7. IsFiniteSet(Into(j) \ Arrived(r, j))
  BY ForkOfJoin, FS_Subset
<1>8. Cardinality((Into(j) \ Arrived(r, j)) \ {p}) = Cardinality(Into(j) \ Arrived(r, j)) - 1
  BY <1>3, <1>7, FS_RemoveElement
<1>9. forkCount'[r][j] = val["rpc"] /\ val["rpc"] \in Nat
  BY <1>1, <1>t
<1>10. Cardinality(Into(j) \ Arrived(r, j)') = forkCount[r][j] - 1
  BY <1>6, <1>8
<1> QED
  BY <1>1, <1>9, <1>10

\* The counts stay right.
LEMMA CountedStep ==
  ASSUME OneWay, ErrorsEnd, Balanced, IInv, OInv, Arrivals, Answered, Counted, [Next]_vars
  PROVE  Counted'
<1> SUFFICES ASSUME NEW r \in Run, NEW j \in Joins, status'[r] \notin EndStatus,
                    NEW n \in Reach(r)', Before(Plan[j].peer, n)
             PROVE  forkCount'[r][j] = Cardinality(Into(j) \ Arrived(r, j)')
  BY DEF Counted
<1>f. PICK f \in Node : f = Plan[j].peer
  BY ForkOfJoin
<1>0. status[r] \notin EndStatus
  BY EndedStays
<1>n. n \in Node /\ Reach(r) \in SUBSET Node /\ Ordered(Reach(r), Pass(r))
  BY DEF Reach, OInv, Order
<1>1. CASE \E m \in Reach(r) : Before(f, m)
  <2>1. forkCount[r][j] = Cardinality(Into(j) \ Arrived(r, j))
    BY <1>0, <1>1, <1>f DEF Counted
  <2>2. CASE JoinWrite("rpc") /\ Current("rpc") = j /\ on["rpc"] = r
    BY <2>1, <2>2, JoinCounts
  <2>3. CASE ~(JoinWrite("rpc") /\ Current("rpc") = j /\ on["rpc"] = r)
    <3>1. Arrived(r, j)' = Arrived(r, j)
      BY <2>3, ArrivedStep
    <3>2. ASSUME NEW t \in Thread, Fork(t), on[t] = r, Plan[Current(t)].peer = j
          PROVE  FALSE
      <4>1. frames[t] # <<>> /\ Plan[Current(t)].type = "fork"
        BY <3>2 DEF Fork, At, Current
      <4>2. Current(t) \in Node /\ Current(t) \in Names(frames[t])
        BY <4>1, CurrentNamed
      <4>3. Edge(Current(t), j)
        BY <3>2, <4>1 DEF Edge, Joins
      <4>4. Current(t) = f
        BY <1>f, <4>2, <4>3, ForkOfJoin DEF OneWay
      <4>5. f \in Pend(r)
        BY <3>2, <4>1, <4>2, <4>4 DEF Pend, Dispatching
      <4>6. f \notin Pass(r)
        BY <4>1, <4>4, <4>5 DEF Pass
      <4> QED
        BY <1>1, <1>n, <4>6 DEF Ordered
    <3>3. ASSUME NEW t \in Thread, JoinWrite(t), on[t] = r, Current(t) = j
          PROVE  FALSE
      <4>1. frames[t] # <<>>
        BY <3>3 DEF JoinWrite, IInv, Located
      <4>2. t = "rpc"
        BY <3>3, <4>1, CurrentNamed DEF Arrivals
      <4> QED
        BY <2>3, <3>3, <4>2
    <3>4. forkCount'[r][j] = forkCount[r][j]
      BY <3>2, <3>3, CountStep
    <3> QED
      BY <2>1, <3>1, <3>4
  <2> QED
    BY <2>2, <2>3
<1>2. CASE \A m \in Reach(r) : ~Before(f, m)
  <2>1. PICK p \in Node :
          /\ Edge(p, n) /\ p \in Reach(r)
          /\ Plan[p].type = "fork" => forkCount'[r][Plan[p].peer] = Len(Plan[p].to)
    <3>1. n \notin Reach(r)
      BY <1>2, <1>f
    <3> QED
      BY <3>1, KeptStep DEF Kept, Advanced
  <2>2. p = f
    <3>1. CASE Edge(f, n)
      BY <1>n, <2>1, <3>1 DEF OneWay
    <3>2. CASE \E q \in Node : Before(f, q) /\ Edge(q, n)
      <4>1. Before(f, p)
        BY <1>n, <2>1, <3>2 DEF OneWay
      <4> QED
        BY <1>2, <2>1, <4>1
    <3> QED
      BY <1>f, <1>n, <3>1, <3>2, LastEdge
  <2>3. forkCount'[r][j] = Cardinality(Into(j))
    BY <1>f, <2>1, <2>2, ForkOfJoin
  <2>4. Arrived(r, j)' = {}
    <3> SUFFICES ASSUME NEW q \in Arrived(r, j)' PROVE FALSE
      OBVIOUS
    <3>1. PICK x \in Exec : owner'[x] = r /\ node'[x] = q /\ Exited(x)'
      BY DEF Arrived
    <3>2. owner[x] # NoRun
      BY <3>1, ExitedStep, ThreadNames
    <3>3. owner[x] = r /\ node[x] = q
      BY <3>1, <3>2, OwnerKept
    <3>4. q \in Into(j) /\ q \in Node /\ Before(f, q)
      BY <1>f, ForkOfJoin DEF Arrived
    <3>5. q \in Reach(r)
      BY <3>3, <3>4 DEF Reach, Done
    <3> QED
      BY <1>2, <3>4, <3>5
  <2> QED
    BY <2>3, <2>4
<1> QED
  BY <1>1, <1>2

\* So a join that is left has been waited for.
LEMMA WaitedStep ==
  ASSUME OneWay, ErrorsEnd, Balanced, IInv, OInv, Waited, Counted', [Next]_vars
  PROVE  Waited'
<1> SUFFICES ASSUME NEW r \in Run, NEW j \in Joins, NEW n \in Reach(r)', Edge(j, n),
                    NEW p \in Into(j)
             PROVE  Succeeded(r, p)'
  BY DEF Waited
<1>t. NoRun \notin Run /\ "RESULT_SUCCESS" # NoRow /\ n \in Node /\ j \in Node
  BY ThreadNames DEF NoRow, Reach, Joins
<1>1. CASE n \in Reach(r)
  <2>1. PICK x \in Exec : owner[x] = r /\ node[x] = p /\ answer[x] = "RESULT_SUCCESS"
    BY <1>1 DEF Waited, Succeeded
  <2>2. owner'[x] = r /\ node'[x] = p /\ answer'[x] = "RESULT_SUCCESS"
    BY <1>t, <2>1, OwnerKept, AnswerKept
  <2> QED
    BY <2>2 DEF Succeeded
<1>2. CASE n \notin Reach(r)
  <2>1. PICK q \in Node : /\ Edge(q, n) /\ q \in Pass(r)'
                          /\ Plan[q].type = "join" => status'[r] \notin EndStatus
    BY <1>2, KeptStep DEF Kept, Advanced
  <2>2. q = j
    BY <1>t, <2>1 DEF OneWay
  <2>3. forkCount'[r][j] = 0 /\ status'[r] \notin EndStatus
    BY <2>1, <2>2 DEF Pass, Joins
  <2>4. Before(Plan[j].peer, n)
    BY <1>t, ForkOfJoin, EdgeIsBefore, BeforeThenEdge
  <2>5. Cardinality(Into(j) \ Arrived(r, j)') = 0
    BY <2>3, <2>4 DEF Counted
  <2>6. Into(j) \ Arrived(r, j)' = {}
    <3>1. IsFiniteSet(Into(j) \ Arrived(r, j)')
      BY ForkOfJoin, FS_Subset
    <3> QED
      BY <2>5, <3>1, FS_EmptySet
  <2>7. p \in Arrived(r, j)'
    BY <2>6
  <2> QED
    BY <2>7 DEF Arrived, Succeeded
<1> QED
  BY <1>1, <1>2

\* At first nothing waits.
LEMMA JoinInit ==
  ASSUME Init
  PROVE  JInv
<1>1. Arrivals /\ Answered
  BY NamesEmpty DEF Init, Arrivals, Answered
<1>2. ASSUME NEW r \in Run, NEW n \in Reach(r), NEW a \in Node PROVE ~Before(a, n)
  <2>0. Pend(r) = {} /\ Done(r) = {}
    BY ThreadNames, NamesEmpty DEF Init, Pend, Done
  <2>1. n \in Node /\ Plan[n].type = "start"
    BY <2>0 DEF Init, Reach
  <2>2. \A p \in Node : ~Edge(p, n)
    BY <2>1 DEF Edge, Dispatching
  <2> QED
    BY <2>1, <2>2, LastEdge
<1>3. Counted
  BY <1>2, WorkflowAssumption DEF Counted, Joins
<1>4. Waited
  BY <1>2, EdgeIsBefore DEF Waited, Joins, Reach
<1> QED
  BY <1>1, <1>3, <1>4 DEF JInv

\* The counts are right in every state.
LEMMA JoinInvariant ==
  ASSUME OneWay, ErrorsEnd, Balanced
  PROVE  Spec => [](IInv /\ OInv /\ JInv)
<1>1. IInv /\ OInv /\ JInv /\ [Next]_vars => JInv'
  <2> SUFFICES ASSUME IInv, OInv, JInv, [Next]_vars PROVE JInv'
    OBVIOUS
  <2>1. Arrivals' /\ Answered' /\ Counted'
    BY ArrivalsStep, AnsweredStep, CountedStep DEF JInv
  <2> QED
    BY <2>1, WaitedStep DEF JInv
<1>2. Init => JInv
  BY JoinInit
<1> QED
  BY <1>1, <1>2, OrderInvariant, PTL DEF Spec

\* The job behind a join is dispatched only when all the actions that lead to
\* the join were reported to have succeeded, although nobody holds a lock on
\* the count (ForkNodeHandler, JoinNodeHandler).  This needs a plan in which the
\* paths of a fork meet again at its join.
THEOREM JoinsWait ==
  ASSUME OneWay, ErrorsEnd, Balanced
  PROVE  Spec => []JoinWaitsForAll
<1>1. IInv /\ OInv /\ JInv => JoinWaitsForAll
  <2> SUFFICES ASSUME IInv, OInv, JInv, NEW x \in Exec, NEW j \in Node, NEW n \in Node,
                      owner[x] # NoRun, Plan[j].type = "join", Plan[j].to = <<node[x]>>,
                      Plan[n].type = "action", Plan[n].ok = <<j>>
               PROVE  \E y \in Exec : /\ node[y] = n /\ owner[y] = owner[x]
                                      /\ answer[y] = "RESULT_SUCCESS"
    BY DEF JoinWaitsForAll
  <2>1. owner[x] \in Run /\ node[x] \in Node /\ Plan[node[x]].type = "action"
    BY WorkflowAssumption DEF IInv, TypeOK, ScanOwned, OInv, Apart
  <2>2. node[x] \in Reach(owner[x])
    BY <2>1 DEF Reach, Done
  <2>3. Edge(j, node[x])
    <3>1. node[x] \in Range(Plan[j].to)
      BY DEF Range
    <3> QED
      BY <2>1, <3>1 DEF Edge, Dispatching, Successors
  <2>4. j \in Joins /\ n \in Into(j)
    BY DEF Joins, Into
  <2>5. Succeeded(owner[x], n)
    BY <2>1, <2>2, <2>3, <2>4 DEF JInv, Waited
  <2> QED
    BY <2>5 DEF Succeeded
<1> QED
  BY <1>1, JoinInvariant, PTL

-----------------------------------------------------------------------------
(* A run fails only for a reason. *)

\* Some execution of run r was reported to have failed.
Cause(r) == \E x \in Exec : owner[x] = r /\ answer[x] \in FailState

\* Every execution of a run has its row.
HasRow == \A x \in Exec : owner[x] # NoRun => row[x] # NoRow

\* A thread that has a fail node before it, or has entered one, has a reason.
Blamed ==
  /\ \A t \in Thread : \A n \in Names(frames[t]) : Plan[n].type = "fail" => Cause(on[t])
  /\ \A t \in Thread : pc[t] = "setFailed" => Cause(on[t])
  /\ FailureHasCause

\* A reason stays one.
LEMMA CauseKept ==
  ASSUME IInv, [Next]_vars, NEW r \in Run, Cause(r)
  PROVE  Cause(r)'
<1>1. PICK x \in Exec : owner[x] = r /\ answer[x] \in FailState
  BY DEF Cause
<1>2. owner[x] # NoRun /\ answer[x] # NoRow
  BY <1>1, ThreadNames DEF FailState, NoRow
<1>3. owner'[x] = r /\ answer'[x] \in FailState
  BY <1>1, <1>2, OwnerKept, AnswerKept
<1> QED
  BY <1>3 DEF Cause

\* As long as the table accepts rows, they are there.
LEMMA HasRowStep ==
  ASSUME "dbfail" \notin Features, IInv, OInv, HasRow, [Next]_vars
  PROVE  HasRow'
<1>t. /\ row \in [Exec -> RunningState \cup ResultState \cup {NoRow}]
      /\ owner \in [Exec -> Run \cup {NoRun}] /\ answer \in [Exec -> Outcome \cup {NoRow}]
  BY DEF IInv, TypeOK
<1>n. /\ "INIT" # NoRow /\ "NOTIFY_SUCCESS" # NoRow /\ "RESULT_ERROR" # NoRow
  BY DEF NoRow
<1>a. ASSUME UNCHANGED <<owner, row>> PROVE HasRow'
  BY <1>a DEF HasRow
<1>1. ASSUME NEW t \in Thread, ProcessNextNodes(t) PROVE HasRow'
  <2>1. CASE EnterAction(t)
    <3>1. /\ Fresh \in Exec /\ owner' = [owner EXCEPT ![Fresh] = on[t]]
          /\ row' = [row EXCEPT ![Fresh] = "INIT"]
      BY <2>1, FreshType DEF EnterAction, executeXJob
    <3> QED
      BY <1>n, <1>t, <3>1 DEF HasRow
  <2>2. CASE NotifySuccess(t)
    BY <1>n, <1>t, <2>2 DEF NotifySuccess, HasRow
  <2>3. CASE EnterFail(t)
    BY <1>n, <1>t, <2>3 DEF EnterFail, HasRow
  <2>4. CASE ~(EnterAction(t) \/ NotifySuccess(t) \/ EnterFail(t))
    BY <1>1, <1>a, <2>4 DEF ProcessNextNodes, SkipSignal, Fork, JoinRead, JoinWrite, EnterEnd,
                            EndNodeThrows, SetEndStatus, execs
  <2> QED
    BY <2>1, <2>2, <2>3, <2>4
<1>2. ASSUME NEW r \in Run, StartJobPlan(r) \/ AddWorkflow(r) \/ TimerQuery(r) PROVE HasRow'
  BY <1>2, <1>a DEF StartJobPlan, AddWorkflow, TimerQuery, execs
<1>3. ASSUME NEW x \in Exec, HandleForgotten(x) \/ NotOverdue(x) \/ Overdue(x) \/ Answer(x)
      PROVE  HasRow'
  BY <1>3, <1>a DEF HandleForgotten, NotOverdue, Overdue, Answer, execs
<1>4. ASSUME NEW x \in Exec, HandleOnce(x) PROVE HasRow'
  BY <1>4, <1>t DEF HandleOnce, HasRow
<1>5. ASSUME NEW x \in Exec, HandleProgress(x) \/ TimeOutKill(x) PROVE HasRow'
  <2>1. /\ owner' = owner
        /\ \E s : s # NoRow /\ (row' = row \/ row' = [row EXCEPT ![x] = s])
    BY <1>5, <1>n DEF HandleProgress, TimeOutKill, CompleteJobPlanNode, Reported
  <2> QED
    BY <1>t, <2>1 DEF HasRow
<1>6. CASE FinishProgress \/ FinishTimeOut \/ UNCHANGED vars
  BY <1>6, <1>a DEF FinishProgress, FinishTimeOut, vars, execs
<1>7. ASSUME NEW n \in Node, ExecuteOnce(n) PROVE HasRow'
  <2>1. /\ Fresh \in Exec /\ owner' = [owner EXCEPT ![Fresh] = NoRun]
        /\ row' = [row EXCEPT ![Fresh] = "INIT"]
    BY <1>7, FreshType DEF ExecuteOnce, executeXJob
  <2> QED
    BY <1>n, <1>t, <2>1 DEF HasRow
<1>8. CASE OnceUpdate
  BY <1>8, <1>n, <1>t DEF OnceUpdate, HasRow
<1> QED
  BY <1>1, <1>2, <1>3, <1>4, <1>5, <1>6, <1>7, <1>8, NextCases

\* A join that a thread comes to has its count.
LEMMA CountIsThere ==
  ASSUME Balanced, IInv, OInv, JInv, NEW t \in Thread, At(t, "join"), status[on[t]] = "RUNNING"
  PROVE  forkCount[on[t]][Current(t)] # 0
<1>1. frames[t] # <<>> /\ Plan[Current(t)].type = "join"
  BY DEF At, Current
<1>j. PICK j \in Joins : j = Current(t)
  BY <1>1, CurrentNamed DEF Joins
<1>2. t = "rpc" /\ j \in Names(frames["rpc"])
  BY <1>1, <1>j, CurrentNamed DEF JInv, Arrivals
<1>r. PICK r \in Run, p \in Into(j) :
        /\ r = on["rpc"] /\ p \notin Arrived(r, j)
        /\ \E x \in Exec : owner[x] = r /\ node[x] = p
  BY <1>2, NotArrived DEF JInv
<1>3. p \in Node /\ Before(Plan[j].peer, p)
  BY ForkOfJoin
<1>4. p \in Reach(r)
  BY <1>3, <1>r DEF Reach, Done
<1>5. forkCount[r][j] = Cardinality(Into(j) \ Arrived(r, j))
  BY <1>2, <1>3, <1>4, <1>r DEF JInv, Counted, EndStatus
<1>6. IsFiniteSet(Into(j) \ Arrived(r, j)) /\ Into(j) \ Arrived(r, j) # {}
  BY <1>r, ForkOfJoin, FS_Subset
<1> QED
  BY <1>2, <1>5, <1>6, <1>j, <1>r, FS_EmptySet

\* Only an error leads to a fail node.
LEMMA NotToFail ==
  ASSUME FailOnError, NEW p \in Node, Plan[p].type \in {"start", "fork", "join"},
         NEW n \in Range(Plan[p].to)
  PROVE  Plan[n].type # "fail"
<1>1. n \in Successors(p) /\ n \in Node
  <2>1. Plan[p].to \in Seq(Node)
    BY PlanType
  <2> QED
    BY <2>1, ElementOfSeq, LenProperties DEF Successors, Range
<1> QED
  BY <1>1 DEF FailOnError

\* The walk fails a run for a reason.
LEMMA BlamedWalk ==
  ASSUME Balanced, FailOnError, "dbfail" \notin Features, IInv, OInv, JInv, Blamed,
         [Next]_vars, NEW t \in Thread, ProcessNextNodes(t)
  PROVE  Blamed'
<1>t. /\ frames \in [Thread -> Frames] /\ pc \in [Thread -> PC] /\ status \in [Run -> Status]
  BY DEF IInv, TypeOK, Frames
<1>0. /\ on[t] \in Run /\ pc[t] \in WalkPC /\ on' = on
      /\ \A u \in Thread \ {t} : pc'[u] = pc[u] /\ frames'[u] = frames[u]
  BY WalkFrame
<1>c. \A r \in Run : Cause(r) => Cause(r)'
  BY CauseKept
<1>1. ASSUME NEW n \in Names(frames'[t]), Plan[n].type = "fail" PROVE Cause(on[t])
  <2>1. n \in Names(frames[t])
    <3>1. CASE Fork(t) \/ JoinWrite(t)
      <4>1. frames[t] # <<>> /\ Plan[Current(t)].type \in {"fork", "join"}
        BY <3>1 DEF Fork, JoinWrite, At, Current, IInv, Located, OInv, Counting
      <4>2. /\ Current(t) \in Node /\ Rest(frames[t]) \in Frames
            /\ Names(Rest(frames[t])) \subseteq Names(frames[t])
        BY <4>1, CurrentNamed
      <4>3. \/ frames'[t] = Rest(frames[t])
            \/ frames'[t] = Push(Plan[Current(t)].to, Rest(frames[t]))
        BY <1>t, <3>1 DEF Fork, JoinWrite
      <4>4. n \in Names(Rest(frames[t])) \/ n \in Range(Plan[Current(t)].to)
        BY <4>2, <4>3, PlanType, PushNames
      <4> QED
        BY <1>1, <4>1, <4>2, <4>4, NotToFail
    <3>2. CASE ~(Fork(t) \/ JoinWrite(t))
      <4>1. \/ frames'[t] = frames[t]
            \/ frames[t] # <<>> /\ frames'[t] = Rest(frames[t])
            \/ frames[t] # <<>> /\ frames'[t] = Tail(frames[t])
        BY <1>t, <3>2 DEF ProcessNextNodes, EnterAction, NotifySuccess, SkipSignal, JoinRead,
                          EnterEnd, EnterFail, EndNodeThrows, SetEndStatus, At
      <4> QED
        BY <4>1, CurrentNamed
    <3> QED
      BY <3>1, <3>2
  <2> QED
    BY <1>1, <2>1 DEF Blamed
<1>2. ASSUME pc'[t] = "setFailed" PROVE Cause(on[t])
  <2>1. EnterFail(t)
    BY <1>2, <1>t DEF ProcessNextNodes, EnterAction, NotifySuccess, SkipSignal, Fork, JoinRead,
                      JoinWrite, EnterEnd, EndNodeThrows, SetEndStatus, At, Goto
  <2>2. frames[t] # <<>> /\ Plan[Current(t)].type = "fail"
    BY <2>1 DEF EnterFail, At, Current
  <2>3. Current(t) \in Names(frames[t])
    BY <2>2, CurrentNamed
  <2> QED
    BY <2>2, <2>3 DEF Blamed
<1>3. ASSUME NEW r \in Run, status'[r] = "FAILED" PROVE Cause(r)
  <2>1. CASE status[r] = "FAILED"
    BY <2>1 DEF Blamed, FailureHasCause, Cause
  <2>2. CASE status[r] # "FAILED" /\ SetEndStatus(t)
    BY <1>3, <1>t, <2>2 DEF SetEndStatus, Blamed
  <2>3. CASE status[r] # "FAILED" /\ JoinRead(t)
    <3>1. At(t, "join") /\ status[on[t]] = "RUNNING" /\ forkCount[on[t]][Current(t)] = 0
      BY <1>3, <1>t, <2>3 DEF JoinRead
    <3> QED
      BY <3>1, CountIsThere
  <2>4. CASE status[r] # "FAILED" /\ ~SetEndStatus(t) /\ ~JoinRead(t)
    BY <1>3, <2>4 DEF ProcessNextNodes, EnterAction, NotifySuccess, SkipSignal, Fork, JoinWrite,
                      EnterEnd, EnterFail, EndNodeThrows, inst
  <2> QED
    BY <2>1, <2>2, <2>3, <2>4
<1>4. FailureHasCause'
  BY <1>3, <1>c DEF FailureHasCause, Cause
<1>5. ASSUME NEW u \in Thread, NEW n \in Names(frames'[u]), Plan[n].type = "fail"
      PROVE  Cause(on[u])'
  <2>1. on[u] \in Run
    BY <1>0, <1>5, <1>t, NamesEmpty DEF OInv, Stacks, IInv, Located
  <2>2. Cause(on[u])
    BY <1>0, <1>1, <1>5 DEF Blamed
  <2>3. PICK r \in Run : r = on[u] /\ Cause(r)'
    BY <1>c, <2>1, <2>2
  <2> QED
    BY <1>0, <2>3 DEF Cause
<1>6. ASSUME NEW u \in Thread, pc'[u] = "setFailed" PROVE Cause(on[u])'
  <2>1. on[u] \in Run
    BY <1>0, <1>6 DEF IInv, Located, WalkPC
  <2>2. Cause(on[u])
    BY <1>0, <1>2, <1>6 DEF Blamed
  <2>3. PICK r \in Run : r = on[u] /\ Cause(r)'
    BY <1>c, <2>1, <2>2
  <2> QED
    BY <1>0, <2>3 DEF Cause
<1> QED
  BY <1>4, <1>5, <1>6 DEF Blamed

\* A thread that is left alone keeps its reason.
LEMMA BlamedFrame ==
  ASSUME IInv, OInv, Blamed, [Next]_vars,
         \A r \in Run : status'[r] = "FAILED" => status[r] = "FAILED" \/ Cause(r),
         \A t \in Thread : /\ pc'[t] = "setFailed" => pc[t] = "setFailed" /\ on'[t] = on[t]
                           /\ \A n \in Names(frames'[t]) : Plan[n].type = "fail" =>
                                \/ n \in Names(frames[t]) /\ on'[t] = on[t]
                                \/ on'[t] \in Run /\ \E r \in Run : r = on'[t] /\ Cause(r)
  PROVE  Blamed'
<1>c. \A r \in Run : Cause(r) => Cause(r)'
  BY CauseKept
<1>1. FailureHasCause'
  <2> SUFFICES ASSUME NEW r \in Run, status'[r] = "FAILED"
               PROVE  \E x \in Exec : owner'[x] = r /\ answer'[x] \in FailState
    BY DEF FailureHasCause
  <2>1. Cause(r)
    BY DEF Blamed, FailureHasCause, Cause
  <2> QED
    BY <1>c, <2>1 DEF Cause
<1>a. ASSUME NEW t \in Thread, NEW r \in Run, r = on'[t], Cause(r) PROVE Cause(on[t])'
  BY <1>a, <1>c DEF Cause
<1>2. ASSUME NEW t \in Thread, NEW n \in Names(frames'[t]), Plan[n].type = "fail"
      PROVE  Cause(on[t])'
  <2>1. CASE n \in Names(frames[t]) /\ on'[t] = on[t]
    <3>1. on[t] \in Run /\ Cause(on[t])
      BY <1>2, <2>1, NamesEmpty DEF OInv, Stacks, IInv, Located, Blamed
    <3>2. PICK r \in Run : r = on[t] /\ Cause(r)
      BY <3>1
    <3> QED
      BY <1>a, <2>1, <3>2
  <2>2. CASE \E r \in Run : r = on'[t] /\ Cause(r)
    BY <1>a, <2>2
  <2> QED
    BY <1>2, <2>1, <2>2
<1>3. ASSUME NEW t \in Thread, pc'[t] = "setFailed" PROVE Cause(on[t])'
  <2>1. on[t] \in Run /\ Cause(on[t]) /\ on'[t] = on[t]
    BY <1>3 DEF IInv, Located, WalkPC, Blamed
  <2>2. PICK r \in Run : r = on[t] /\ Cause(r)
    BY <2>1
  <2> QED
    BY <1>a, <2>1, <2>2
<1> QED
  BY <1>1, <1>2, <1>3 DEF Blamed

\* handlejobProgress goes on to a fail node, or fails the run, for a reason.
LEMMA BlamedHandle ==
  ASSUME FailOnError, IInv, OInv, HasRow, Blamed, [Next]_vars, NEW x \in Exec, HandleProgress(x)
  PROVE  Blamed'
<1>t. /\ frames \in [Thread -> Frames] /\ status \in [Run -> Status] /\ "rpc" \in Thread
      /\ pc \in [Thread -> PC] /\ on \in [Thread -> Run \cup {NoRun}]
      /\ workflows \subseteq Run /\ node \in [Exec -> Node \cup {NoNode}]
      /\ NoRun \notin Run /\ Names(<<>>) = {} /\ <<>> \in Frames
  BY ThreadNames, NamesEmpty, EmptySeq DEF IInv, TypeOK, Frames
<1>0. /\ owner[x] \in workflows /\ on' = [on EXCEPT !["rpc"] = owner[x]]
      /\ pc' = [pc EXCEPT !["rpc"] = "walk"]
      /\ status' = IF ExitThrows(x, answer[x])
                   THEN [status EXCEPT ![owner[x]] = "FAILED"] ELSE status
      /\ \/ frames' = [frames EXCEPT !["rpc"] = <<>>]
         \/ frames' = [frames EXCEPT !["rpc"] = Push(ExitTo(node[x], answer[x]), <<>>)]
  BY DEF HandleProgress, CompleteJobPlanNode, Goto
<1>1. owner[x] \in Run /\ node[x] \in Node
  BY <1>0, <1>t DEF IInv, ScanOwned
<1>2. Plan[node[x]].type = "action"
  BY <1>1, WorkflowAssumption DEF OInv, Apart
<1>3. answer[x] = "RESULT_ERROR" => Cause(owner[x])
  BY DEF Cause, FailState
<1>4. ASSUME NEW r \in Run, status'[r] = "FAILED" PROVE status[r] = "FAILED" \/ Cause(r)
  <2>1. CASE status[r] # "FAILED"
    <3>1. r = owner[x] /\ ExitThrows(x, answer[x])
      BY <1>0, <1>4, <1>t, <2>1
    <3>2. answer[x] = "RESULT_ERROR"
      BY <1>1, <1>t, <3>1 DEF ExitThrows, HasRow
    <3> QED
      BY <1>3, <3>1, <3>2
  <2> QED
    BY <2>1
<1>5. ASSUME NEW n \in Names(frames'["rpc"]), Plan[n].type = "fail"
      PROVE  Cause(owner[x])
  <2>1. frames'["rpc"] = Push(ExitTo(node[x], answer[x]), <<>>)
    BY <1>0, <1>5, <1>t
  <2>2. n \in Range(ExitTo(node[x], answer[x])) /\ ExitTo(node[x], answer[x]) \in Seq(Node)
    BY <1>1, <1>5, <1>t, <2>1, ExitToType, PushNames
  <2>3. n \in Successors(node[x]) /\ n \in Node
    <3>1. n \in Successors(node[x])
      BY <1>1, <1>2, <2>2, ExitToSuccessors
    <3>2. n \in Node
      BY <2>2, ElementOfSeq, LenProperties DEF Range
    <3> QED
      BY <3>1, <3>2
  <2>4. n \notin Range(Plan[node[x]].ok)
    BY <1>1, <1>5, <2>3 DEF FailOnError
  <2>5. answer[x] = "RESULT_ERROR"
    <3>1. Range(<<>>) = {}
      BY DEF Range
    <3> QED
      BY <2>2, <2>4, <3>1 DEF ExitTo
  <2> QED
    BY <1>3, <2>5
<1>6. ASSUME NEW t \in Thread
      PROVE  /\ pc'[t] = "setFailed" => pc[t] = "setFailed" /\ on'[t] = on[t]
             /\ \A n \in Names(frames'[t]) : Plan[n].type = "fail" =>
                  \/ n \in Names(frames[t]) /\ on'[t] = on[t]
                  \/ on'[t] \in Run /\ \E r \in Run : r = on'[t] /\ Cause(r)
  <2>1. CASE t = "rpc"
    BY <1>0, <1>1, <1>5, <1>t, <2>1
  <2>2. CASE t # "rpc"
    BY <1>0, <1>t, <2>2
  <2> QED
    BY <2>1, <2>2
<1> QED
  BY <1>4, <1>6, BlamedFrame

\* Without the timer and with a table that accepts rows, no step fails a run
\* without a reason.
LEMMA BlamedStep ==
  ASSUME Balanced, FailOnError, "timer" \notin Features, "dbfail" \notin Features,
         IInv, OInv, JInv, HasRow, Blamed, [Next]_vars
  PROVE  Blamed'
<1>t. /\ frames \in [Thread -> Frames] /\ status \in [Run -> Status]
      /\ pc \in [Thread -> PC] /\ on \in [Thread -> Run \cup {NoRun}]
      /\ "rpc" \in Thread /\ "web" \in Thread /\ Run \subseteq Thread /\ Names(<<>>) = {}
      /\ pc["timer"] = "idle"
  BY ThreadNames, NamesEmpty DEF IInv, TypeOK, Frames, OInv, Stacks
<1>a. ASSUME status' = status, frames' = frames,
             \A t \in Thread : /\ pc'[t] = "setFailed" => pc[t] = "setFailed" /\ on'[t] = on[t]
                               /\ on'[t] = on[t] \/ frames[t] = <<>>
      PROVE  Blamed'
  BY <1>a, <1>t, BlamedFrame
<1>1. ASSUME NEW r \in Run, StartJobPlan(r) PROVE Blamed'
  <2>1. /\ status' = [status EXCEPT ![r] = "RUNNING"] /\ pc' = [pc EXCEPT ![r] = "walk"]
        /\ on' = [on EXCEPT ![r] = r] /\ status[r] = "PREP"
        /\ \/ frames' = frames
           \/ \E n \in Node : /\ Plan[n].type = "start"
                              /\ frames' = [frames EXCEPT ![r] = Push(Plan[n].to, <<>>)]
    BY <1>1 DEF StartJobPlan, EnterStart, Goto
  <2>2. on[r] # r /\ frames[r] = <<>>
    BY <1>t, <2>1 DEF IInv, Private, OwnRun, OInv, Stacks
  <2>3. \A m \in Names(frames'[r]) : Plan[m].type # "fail"
    <3>1. CASE frames' = frames
      BY <1>t, <2>2, <3>1
    <3>2. ASSUME NEW n \in Node, Plan[n].type = "start",
                 frames' = [frames EXCEPT ![r] = Push(Plan[n].to, <<>>)]
          PROVE  \A m \in Names(frames'[r]) : Plan[m].type # "fail"
      <4>1. <<>> \in Frames /\ Plan[n].to \in Seq(Node)
        BY EmptySeq, PlanType DEF Frames
      <4>2. frames'[r] = Push(Plan[n].to, <<>>) /\ Names(<<>>) = {}
        BY <1>t, <3>2
      <4>3. Names(frames'[r]) = Range(Plan[n].to)
        BY <4>1, <4>2, PushNames
      <4> QED
        BY <3>2, <4>3, NotToFail
    <3> QED
      BY <2>1, <3>1, <3>2
  <2>4. \A q \in Run : status'[q] = "FAILED" => status[q] = "FAILED"
    BY <1>t, <2>1
  <2>5. \A t \in Thread \ {r} : pc'[t] = pc[t] /\ on'[t] = on[t] /\ frames'[t] = frames[t]
    BY <1>t, <2>1
  <2>6. pc'[r] = "walk"
    BY <1>t, <2>1
  <2> QED
    BY <2>3, <2>4, <2>5, <2>6, BlamedFrame
<1>2. ASSUME NEW r \in Run, AddWorkflow(r) PROVE Blamed'
  BY <1>2, <1>a, <1>t DEF AddWorkflow, WalkDone, Goto
<1>3. ASSUME NEW t \in Thread, ProcessNextNodes(t) PROVE Blamed'
  BY <1>3, BlamedWalk
<1>4. ASSUME NEW x \in Exec, HandleOnce(x) \/ HandleForgotten(x) \/ Answer(x) PROVE Blamed'
  BY <1>4, <1>a DEF HandleOnce, HandleForgotten, Answer, inst, local
<1>5. ASSUME NEW x \in Exec, HandleProgress(x) PROVE Blamed'
  BY <1>5, BlamedHandle
<1>6. \A r \in Run : ~TimerQuery(r)
  BY DEF TimerQuery
<1>7. \A x \in Exec : ~(NotOverdue(x) \/ Overdue(x) \/ TimeOutKill(x))
  BY <1>t DEF NotOverdue, Overdue, TimeOutKill
<1>8. CASE FinishProgress
  BY <1>8, <1>a, <1>t DEF FinishProgress, WalkDone, Goto
<1>9. ~FinishTimeOut
  BY <1>t DEF FinishTimeOut, WalkDone
<1>10. ASSUME NEW n \in Node, ExecuteOnce(n) PROVE Blamed'
  BY <1>10, <1>a, <1>t DEF ExecuteOnce, Goto, inst
<1>11. CASE OnceUpdate
  BY <1>11, <1>a, <1>t DEF OnceUpdate, Goto, inst
<1>12. CASE UNCHANGED vars
  BY <1>12, <1>a DEF vars, inst, local
<1> QED
  BY <1>1, <1>2, <1>3, <1>4, <1>5, <1>6, <1>7, <1>8, <1>9, <1>10, <1>11, <1>12, NextCases

\* A run fails only when some execution of it was reported to have failed; in
\* particular no join misses its count, and no report that is delivered again
\* does harm (handlejobProgress, JoinNodeHandler.enter).  The timer fails runs
\* for another reason and a table that accepts no rows for a third; and it is
\* the error of an action only that leads to a fail node.
THEOREM FailsForAReason ==
  ASSUME OneWay, Balanced, FailOnError, "timer" \notin Features, "dbfail" \notin Features
  PROVE  Spec => []FailureHasCause
<1>1. IInv /\ OInv /\ JInv /\ HasRow /\ Blamed /\ [Next]_vars => HasRow' /\ Blamed'
  BY HasRowStep, BlamedStep
<1>2. Init => HasRow /\ Blamed
  BY NamesEmpty DEF Init, HasRow, Blamed, FailureHasCause
<1>3. ErrorsEnd
  BY DEF ErrorsEnd
<1>4. Spec => [](IInv /\ OInv /\ JInv)
  BY <1>3, JoinInvariant
<1>5. Blamed => FailureHasCause
  BY DEF Blamed
<1> QED
  BY <1>1, <1>2, <1>4, <1>5, PTL DEF Spec
=============================================================================
