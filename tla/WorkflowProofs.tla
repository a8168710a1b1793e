--------------------------- MODULE WorkflowProofs ---------------------------
(***************************************************************************)
(* Proofs about Workflow, for every plan and any number of runs and        *)
(* executions: type correctness, and the confinement of an instance to the *)
(* thread that starts it.                                                  *)
(***************************************************************************)
EXTENDS WorkflowPlans, SequenceTheorems, TLAPS

WalkPC == {"walk", "notify", "joinSet", "setSucceeded", "setFailed"}

\* A thread that walks an instance has one; the RPC thread and the timer then
\* also have the execution whose node they complete.  A join is not left
\* before its count is written.
Located ==
  /\ \A t \in Thread : pc[t] \in WalkPC \cup {"scan"} => on[t] \in Run
  /\ \A t \in {"rpc", "timer"} : pc[t] \in WalkPC => completing[t] \in Exec
  /\ \A t \in Thread : pc[t] = "joinSet" => frames[t] # <<>>
  /\ pc["web"] \notin WalkPC

\* A starter works on its own run or on none.
OwnRun ==
  \A r \in Run : /\ on[r] \in {r, NoRun}
                 /\ pc[r] \in WalkPC => on[r] = r

\* A run that was not started is nobody's and not registered; one that is
\* being started is its starter's alone.
Private ==
  \A r \in Run :
    /\ status[r] = "PREP" => r \notin workflows /\ \A t \in Thread : on[t] # r
    /\ on[r] = r => r \notin workflows /\ \A t \in Thread \ {r} : on[t] # r

\* What the timer's query returned belongs to the run it looks at.
ScanOwned ==
  /\ \A x \in Exec : node[x] = NoNode => owner[x] = NoRun
  /\ \A x \in scan : owner[x] = on["timer"] /\ node[x] # NoNode

IInv == TypeOK /\ Located /\ OwnRun /\ Private /\ ScanOwned
-----------------------------------------------------------------------------
(* Lemmas about the stack and the plan. *)

Frames == Seq(Seq(Node) \ {<<>>})

\* Taking the next name of the innermost loop leaves a stack of lists of names
\* out of N without empty lists (processNextNodes).
LEMMA RestKeeps ==
  ASSUME NEW N, NEW fs \in Seq(Seq(N) \ {<<>>}), fs # <<>>
  PROVE  /\ Rest(fs) \in Seq(Seq(N) \ {<<>>})
         /\ Head(Head(fs)) \in N
<1> DEFINE S == Seq(N) \ {<<>>}
<1>1. Head(fs) \in S /\ Tail(fs) \in Seq(S)
  BY HeadTailProperties
<1>2. CASE Len(Head(fs)) = 1
  BY <1>1, <1>2, HeadTailProperties DEF Rest
<1>3. CASE Len(Head(fs)) # 1
  <2>1. /\ Tail(Head(fs)) \in Seq(N) /\ Len(Tail(Head(fs))) = Len(Head(fs)) - 1
        /\ Head(Head(fs)) \in N
    BY <1>1, HeadTailProperties
  <2>2. Len(Head(fs)) \in Nat /\ Len(Head(fs)) # 0
    BY <1>1, EmptySeq, LenProperties
  <2>3. Len(Tail(Head(fs))) # 0
    BY <2>1, <2>2, <1>3
  <2>4. Tail(Head(fs)) \in S
    <3>1. Tail(Head(fs)) # <<>>
      BY <2>1, <2>3, EmptySeq
    <3> QED BY <2>1, <3>1
  <2>5. <<Tail(Head(fs))>> \in Seq(S)
    BY <2>4
  <2>6. <<Tail(Head(fs))>> \o Tail(fs) \in Seq(S)
    BY <2>5, <1>1, ConcatProperties
  <2> QED BY <2>1, <2>6, <1>3 DEF Rest
<1> QED BY <1>2, <1>3

\* So does a call of processNextNodes with names out of N.
LEMMA PushKeeps ==
  ASSUME NEW N, NEW names \in Seq(N), NEW fs \in Seq(Seq(N) \ {<<>>})
  PROVE  Push(names, fs) \in Seq(Seq(N) \ {<<>>})
<1> DEFINE S == Seq(N) \ {<<>>}
<1>1. CASE names = <<>>
  BY <1>1 DEF Push
<1>2. CASE names # <<>>
  <2>1. <<names>> \in Seq(S)
    BY <1>2
  <2>2. <<names>> \o fs \in Seq(S)
    BY <2>1, ConcatProperties
  <2> QED BY <2>2, <1>2 DEF Push
<1> QED BY <1>1, <1>2

\* The stack holds names of nodes.
LEMMA RestType ==
  ASSUME NEW fs \in Frames, fs # <<>>
  PROVE  Rest(fs) \in Frames
BY RestKeeps DEF Frames

\* And a call keeps it so.
LEMMA PushType ==
  ASSUME NEW names \in Seq(Node), NEW fs \in Frames
  PROVE  Push(names, fs) \in Frames
BY PushKeeps DEF Frames

\* The transitions of a plan are lists of node names.
LEMMA PlanType ==
  ASSUME NEW n \in Node
  PROVE  /\ Plan[n].to \in Seq(Node)
         /\ Plan[n].ok \in Seq(Node)
         /\ Plan[n].error \in Seq(Node)
BY WorkflowAssumption DEF NodeDef

\* The node a thread is about to process is a node of the plan.
LEMMA CurrentType ==
  ASSUME TypeOK, NEW t \in Thread, frames[t] # <<>>
  PROVE  /\ frames[t] \in Frames
         /\ Current(t) \in Node
         /\ Rest(frames[t]) \in Frames
         /\ Tail(frames[t]) \in Frames
<1>1. frames[t] \in Frames
  BY DEF TypeOK, Frames
<1>2. Head(frames[t]) \in Seq(Node) \ {<<>>} /\ Tail(frames[t]) \in Frames
  BY <1>1, HeadTailProperties DEF Frames
<1>3. Head(Head(frames[t])) \in Node
  BY <1>2, HeadTailProperties
<1> QED BY <1>1, <1>2, <1>3, RestType DEF Current

\* UniqueIDGenerator and the table hand out a new identity.
LEMMA FreshType ==
  ASSUME \E x \in Exec : node[x] = NoNode
  PROVE  Fresh \in Exec /\ node[Fresh] = NoNode
BY DEF Fresh

\* ActionNodeHandler.exit returns node names.
LEMMA ExitToType ==
  ASSUME NEW n \in Node, NEW s
  PROVE  ExitTo(n, s) \in Seq(Node)
<1>1. <<>> \in Seq(Node)
  BY EmptySeq
<1>2. CASE s = "RESULT_SUCCESS"
  BY <1>2, PlanType DEF ExitTo
<1>3. CASE s = "RESULT_ERROR"
  BY <1>3, PlanType DEF ExitTo
<1>4. CASE s \notin {"RESULT_SUCCESS", "RESULT_ERROR"}
  BY <1>1, <1>4 DEF ExitTo
<1> QED BY <1>2, <1>3, <1>4
-----------------------------------------------------------------------------
(* The steps of processNextNodes, by any thread. *)

\* EnterAction: a new execution is dispatched (ActionNodeHandler.enter).
LEMMA EnterActionInv ==
  ASSUME IInv, NEW t \in Thread, EnterAction(t)
  PROVE  IInv'
<1> USE DEF IInv
<1>0. /\ Fresh \in Exec /\ node[Fresh] = NoNode
      /\ Current(t) \in Node /\ Rest(frames[t]) \in Frames
      /\ on[t] \in Run
  BY FreshType, CurrentType DEF EnterAction, executeXJob, At, Located, WalkPC
<1>1. TypeOK'
  <2>1. /\ pc' \in [Thread -> PC]
        /\ frames' \in [Thread -> Frames]
    BY <1>0 DEF EnterAction, Goto, PC, Frames, TypeOK
  <2>2. /\ owner' \in [Exec -> Run \cup {NoRun}]
        /\ node' \in [Exec -> Node \cup {NoNode}]
        /\ row' \in [Exec -> RunningState \cup ResultState \cup {NoRow}]
        /\ info' \subseteq Exec
        /\ entering' \in [Thread -> Exec \cup {NoExec}]
    BY <1>0 DEF EnterAction, executeXJob, RunningState, TypeOK
  <2> QED BY <2>1, <2>2 DEF EnterAction, inst, Frames, TypeOK
<1>2. Located'
  BY DEF EnterAction, executeXJob, At, Goto, Located, WalkPC, TypeOK
<1>3. OwnRun'
  BY DEF EnterAction, executeXJob, At, Goto, OwnRun, WalkPC, TypeOK, Thread
<1>4. Private'
  BY DEF EnterAction, inst, Private
<1>5. ScanOwned'
  BY <1>0, WorkflowAssumption DEF EnterAction, executeXJob, ScanOwned, TypeOK
<1> QED BY <1>1, <1>2, <1>3, <1>4, <1>5

\* NotifySuccess: the end of ActionNodeHandler.enter.
LEMMA NotifySuccessInv ==
  ASSUME IInv, NEW t \in Thread, NotifySuccess(t)
  PROVE  IInv'
<1> USE DEF IInv, NotifySuccess, Goto, inst
<1>1. TypeOK'
  BY DEF PC, RunningState, TypeOK
<1>2. Located'
  BY DEF Located, WalkPC, TypeOK
<1>3. OwnRun'
  BY DEF OwnRun, WalkPC, TypeOK, Thread
<1>4. Private'
  BY DEF Private
<1>5. ScanOwned'
  BY DEF ScanOwned
<1> QED BY <1>1, <1>2, <1>3, <1>4, <1>5

\* SkipSignal: signal returns at once.
LEMMA SkipSignalInv ==
  ASSUME IInv, NEW t \in Thread, SkipSignal(t)
  PROVE  IInv'
<1> USE DEF IInv, SkipSignal, inst, execs
<1>0. Rest(frames[t]) \in Frames
  BY CurrentType DEF At
<1>1. TypeOK'
  BY <1>0 DEF Frames, TypeOK
<1>2. Located'
  BY DEF Located, At, TypeOK
<1>3. OwnRun'
  BY DEF OwnRun
<1>4. Private'
  BY DEF Private
<1>5. ScanOwned'
  BY DEF ScanOwned
<1> QED BY <1>1, <1>2, <1>3, <1>4, <1>5

\* Fork: the join's count is set (ForkNodeHandler.multiExit).
LEMMA ForkInv ==
  ASSUME IInv, NEW t \in Thread, Fork(t)
  PROVE  IInv'
<1> USE DEF IInv, Fork, execs
<1>0. /\ Plan[Current(t)].to \in Seq(Node)
      /\ Len(Plan[Current(t)].to) \in Nat
      /\ Push(Plan[Current(t)].to, Rest(frames[t])) \in Frames
  BY CurrentType, PlanType, PushType, LenProperties DEF At
<1>1. TypeOK'
  <2>1. forkCount' \in [Run -> [Node -> Nat]]
    BY <1>0 DEF TypeOK
  <2>2. frames' \in [Thread -> Frames]
    BY <1>0 DEF TypeOK, Frames
  <2> QED BY <2>1, <2>2 DEF TypeOK, Frames
<1>2. Located'
  BY DEF Located, At, TypeOK
<1>3. OwnRun'
  BY DEF OwnRun
<1>4. Private'
  BY DEF Private
<1>5. ScanOwned'
  BY DEF ScanOwned
<1> QED BY <1>1, <1>2, <1>3, <1>4, <1>5

\* JoinRead: the count is read, or the instance fails.
LEMMA JoinReadInv ==
  ASSUME IInv, NEW t \in Thread, JoinRead(t)
  PROVE  IInv'
<1> USE DEF IInv, JoinRead, execs, Goto
<1>0. /\ on[t] \in Run /\ Current(t) \in Node
      /\ Rest(frames[t]) \in Frames
      /\ pc[t] = "walk" /\ frames[t] # <<>>
  BY CurrentType DEF At, Located, WalkPC
<1>a. \/ pc' = pc /\ val' = val
      \/ /\ pc' = [pc EXCEPT ![t] = "joinSet"]
         /\ forkCount[on[t]][Current(t)] > 0
         /\ val' = [val EXCEPT ![t] = forkCount[on[t]][Current(t)] - 1]
  OBVIOUS
<1>1. TypeOK'
  <2>0. forkCount[on[t]][Current(t)] \in Nat
    BY <1>0 DEF TypeOK
  <2>1. val' \in [Thread -> Nat]
    <3>1. val \in [Thread -> Nat]
      BY DEF TypeOK
    <3> HIDE DEF IInv, JoinRead
    <3> QED BY <1>a, <2>0, <3>1
  <2>2. frames' \in [Thread -> Frames]
    BY <1>0 DEF TypeOK, Frames
  <2>3. status' \in [Run -> Status] /\ pc' \in [Thread -> PC]
    BY DEF TypeOK, Status, EndStatus, PC
  <2> QED BY <2>1, <2>2, <2>3 DEF TypeOK, Frames
<1>2. Located'
  <2>1. /\ on' = on /\ completing' = completing /\ pc \in [Thread -> PC]
        /\ pc' = pc => \A u \in Thread : pc[u] = "joinSet" => frames'[u] # <<>>
        /\ frames' = frames \/ pc' = pc
        /\ Located
    BY <1>0 DEF TypeOK, Located
  <2> HIDE DEF IInv, JoinRead
  <2> QED BY <1>0, <1>a, <2>1 DEF Located, WalkPC, Thread, EngineThread
<1>3. OwnRun'
  BY <1>0 DEF OwnRun, WalkPC, TypeOK, Thread
<1>4. Private'
  BY DEF Private, TypeOK
<1>5. ScanOwned'
  BY DEF ScanOwned
<1> QED BY <1>1, <1>2, <1>3, <1>4, <1>5

\* JoinWrite: the count is written back.
LEMMA JoinWriteInv ==
  ASSUME IInv, NEW t \in Thread, JoinWrite(t)
  PROVE  IInv'
<1> USE DEF IInv, JoinWrite, execs, Goto
<1>0. /\ Plan[Current(t)].to \in Seq(Node)
      /\ Rest(frames[t]) \in Frames
      /\ Push(Plan[Current(t)].to, Rest(frames[t])) \in Frames
      /\ val[t] \in Nat
  BY CurrentType, PlanType, PushType DEF TypeOK, Located
<1>1. TypeOK'
  <2>1. forkCount' \in [Run -> [Node -> Nat]] /\ val' \in [Thread -> Nat]
    BY <1>0 DEF TypeOK
  <2>2. frames' \in [Thread -> Frames]
    BY <1>0 DEF TypeOK, Frames
  <2>3. pc' \in [Thread -> PC]
    BY DEF TypeOK, PC
  <2> QED BY <2>1, <2>2, <2>3 DEF TypeOK, Frames
<1>2. Located'
  BY DEF Located, WalkPC, TypeOK
<1>3. OwnRun'
  BY DEF OwnRun, WalkPC, TypeOK, Thread
<1>4. Private'
  BY DEF Private
<1>5. ScanOwned'
  BY DEF ScanOwned
<1> QED BY <1>1, <1>2, <1>3, <1>4, <1>5

\* EnterEnd: EndNodeHandler.enter and exit.
LEMMA EnterEndInv ==
  ASSUME IInv, NEW t \in Thread, EnterEnd(t)
  PROVE  IInv'
<1> USE DEF IInv, EnterEnd, execs, Goto, At
<1>0. Rest(frames[t]) \in Frames
  BY CurrentType
<1>1. TypeOK'
  BY <1>0 DEF Frames, TypeOK, PC
<1>2. Located'
  BY DEF Located, WalkPC, TypeOK
<1>3. OwnRun'
  BY DEF OwnRun, WalkPC, TypeOK, Thread
<1>4. Private'
  BY DEF Private
<1>5. ScanOwned'
  BY DEF ScanOwned
<1> QED BY <1>1, <1>2, <1>3, <1>4, <1>5

\* EnterFail: FailNodeHandler.enter and exit.
LEMMA EnterFailInv ==
  ASSUME IInv, NEW t \in Thread, EnterFail(t)
  PROVE  IInv'
<1> USE DEF IInv, EnterFail, Goto, At
<1>0. Rest(frames[t]) \in Frames
  BY CurrentType
<1>1. TypeOK'
  BY <1>0 DEF Frames, TypeOK, PC, ResultState
<1>2. Located'
  BY DEF Located, WalkPC, TypeOK
<1>3. OwnRun'
  BY DEF OwnRun, WalkPC, TypeOK, Thread
<1>4. Private'
  BY DEF Private
<1>5. ScanOwned'
  BY DEF ScanOwned
<1> QED BY <1>1, <1>2, <1>3, <1>4, <1>5

\* EndNodeThrows: the row of an end or fail node cannot be saved.
LEMMA EndNodeThrowsInv ==
  ASSUME IInv, NEW t \in Thread, EndNodeThrows(t)
  PROVE  IInv'
<1> USE DEF IInv, EndNodeThrows, execs, At
<1>0. Tail(frames[t]) \in Frames
  BY CurrentType
<1>1. TypeOK'
  BY <1>0 DEF Frames, TypeOK, Status, EndStatus
<1>2. Located'
  BY DEF Located, TypeOK
<1>3. OwnRun'
  BY DEF OwnRun
<1>4. Private'
  BY DEF Private, TypeOK
<1>5. ScanOwned'
  BY DEF ScanOwned
<1> QED BY <1>1, <1>2, <1>3, <1>4, <1>5

\* SetEndStatus: the status after an end or fail node.
LEMMA SetEndStatusInv ==
  ASSUME IInv, NEW t \in Thread, SetEndStatus(t)
  PROVE  IInv'
<1> USE DEF IInv, SetEndStatus, execs, Goto
<1>1. TypeOK'
  BY DEF TypeOK, Status, EndStatus, PC
<1>2. Located'
  BY DEF Located, WalkPC, TypeOK
<1>3. OwnRun'
  BY DEF OwnRun, WalkPC, TypeOK, Thread
<1>4. Private'
  BY DEF Private, TypeOK
<1>5. ScanOwned'
  BY DEF ScanOwned
<1> QED BY <1>1, <1>2, <1>3, <1>4, <1>5

\* Every step of the walk, by whichever thread.
LEMMA ProcessNextNodesInv ==
  ASSUME IInv, NEW t \in Thread, ProcessNextNodes(t)
  PROVE  IInv'
BY EnterActionInv, NotifySuccessInv, SkipSignalInv, ForkInv, JoinReadInv, JoinWriteInv,
   EnterEndInv, EnterFailInv, EndNodeThrowsInv, SetEndStatusInv DEF ProcessNextNodes

-----------------------------------------------------------------------------
(* The starter thread. *)

\* StartJobPlan: the run becomes its starter's.
LEMMA StartJobPlanInv ==
  ASSUME IInv, NEW r \in Run, StartJobPlan(r)
  PROVE  IInv'
<1> USE DEF IInv, StartJobPlan, EnterStart, execs, Goto
<1>0. /\ r \in Thread /\ r # NoRun /\ r \notin EngineThread
      /\ r \notin workflows /\ \A t \in Thread : on[t] # r
      /\ frames' \in [Thread -> Frames]
  <2>1. /\ r \in Thread /\ r # NoRun /\ r \notin EngineThread
        /\ r \notin workflows /\ \A t \in Thread : on[t] # r
    BY WorkflowAssumption DEF Thread, Private
  <2>2. <<>> \in Frames
    BY EmptySeq DEF Frames
  <2>3. frames \in [Thread -> Frames]
    BY DEF TypeOK, Frames
  <2>4. frames' = frames \/ \E n \in Node : frames' = [frames EXCEPT ![r] = Push(Plan[n].to, <<>>)]
    OBVIOUS
  <2>5. \A n \in Node : Push(Plan[n].to, <<>>) \in Frames
    BY <2>2, PushType, PlanType
  <2>6. frames' \in [Thread -> Frames]
    BY <2>3, <2>4, <2>5
  <2> QED BY <2>1, <2>6
<1>1. TypeOK'
  BY <1>0 DEF TypeOK, Status, PC, Frames
<1>2. Located'
  <2>1. /\ pc \in [Thread -> PC] /\ on \in [Thread -> Run \cup {NoRun}]
        /\ pc' = [pc EXCEPT ![r] = "walk"] /\ on' = [on EXCEPT ![r] = r]
        /\ completing' = completing /\ Located
        /\ \A t \in Thread \ {r} : frames'[t] = frames[t]
    BY DEF TypeOK
  <2> HIDE DEF IInv, StartJobPlan, EnterStart
  <2> QED BY <1>0, <2>1 DEF Located, WalkPC, EngineThread, Thread
<1>3. OwnRun'
  BY <1>0 DEF OwnRun, WalkPC, TypeOK, Thread
<1>4. Private'
  BY <1>0 DEF Private, TypeOK, Thread, OwnRun
<1>5. ScanOwned'
  BY <1>0 DEF ScanOwned, TypeOK, EngineThread
<1> QED BY <1>1, <1>2, <1>3, <1>4, <1>5

\* AddWorkflow: the started instance is registered.
LEMMA AddWorkflowInv ==
  ASSUME IInv, NEW r \in Run, AddWorkflow(r)
  PROVE  IInv'
<1> USE DEF IInv, AddWorkflow, WalkDone, execs, Goto
<1>0. /\ r \in Thread /\ r # NoRun /\ r \notin EngineThread /\ on[r] = r
  BY WorkflowAssumption DEF Thread, OwnRun, WalkPC
<1>1. TypeOK'
  BY <1>0 DEF TypeOK, PC
<1>2. Located'
  BY <1>0 DEF Located, WalkPC, TypeOK, EngineThread
<1>3. OwnRun'
  BY <1>0 DEF OwnRun, WalkPC, TypeOK, Thread
<1>4. Private'
  BY <1>0, WorkflowAssumption DEF Private, TypeOK, Thread, OwnRun
<1>5. ScanOwned'
  BY <1>0 DEF ScanOwned, TypeOK, EngineThread
<1> QED BY <1>1, <1>2, <1>3, <1>4, <1>5

-----------------------------------------------------------------------------
(* Completing a node, and the RPC thread. *)

\* What completeJobPlanNode writes has its type, and the thread that runs it
\* works on a run that no starter has.
LEMMA CompleteJobPlanNodeType ==
  ASSUME IInv, NEW t \in {"rpc", "timer"}, NEW x \in Exec, NEW s \in ResultState,
         owner[x] \in Run, CompleteJobPlanNode(t, x, s)
  PROVE  /\ row' \in [Exec -> RunningState \cup ResultState \cup {NoRow}]
         /\ status' \in [Run -> Status]
         /\ \A r \in Run : status'[r] = "PREP" => status[r] = "PREP"
         /\ frames' \in [Thread -> Seq(Seq(Node) \ {<<>>})]
         /\ \A u \in Thread \ {t} : frames'[u] = frames[u]
<1> USE DEF IInv, CompleteJobPlanNode
<1>0. node[x] \in Node /\ t \in Thread
  BY WorkflowAssumption DEF ScanOwned, TypeOK, Thread, EngineThread
<1>1. row' \in [Exec -> RunningState \cup ResultState \cup {NoRow}]
  BY DEF TypeOK
<1>2. status' \in [Run -> Status] /\ \A r \in Run : status'[r] = "PREP" => status[r] = "PREP"
  BY DEF TypeOK, Status, EndStatus
<1>3. frames' \in [Thread -> Frames] /\ \A u \in Thread \ {t} : frames'[u] = frames[u]
  <2>1. <<>> \in Frames
    BY EmptySeq DEF Frames
  <2>2. Push(ExitTo(node[x], s), <<>>) \in Frames
    BY <1>0, <2>1, ExitToType, PushType
  <2>3. frames \in [Thread -> Frames]
    BY DEF TypeOK, Frames
  <2>4. \E f \in {<<>>, Push(ExitTo(node[x], s), <<>>)} : frames' = [frames EXCEPT ![t] = f]
    OBVIOUS
  <2> QED BY <2>1, <2>2, <2>3, <2>4
<1> QED BY <1>1, <1>2, <1>3 DEF Frames

\* Answer: the executor has a result.
LEMMA AnswerInv ==
  ASSUME IInv, NEW x \in Exec, Answer(x)
  PROVE  IInv'
<1> USE DEF IInv, Answer, inst, local
<1>1. TypeOK'
  BY DEF TypeOK
<1>2. Located'
  BY DEF Located
<1>3. OwnRun'
  BY DEF OwnRun
<1>4. Private'
  BY DEF Private
<1>5. ScanOwned'
  BY DEF ScanOwned
<1> QED BY <1>1, <1>2, <1>3, <1>4, <1>5

\* HandleOnce: the result of a job executed from the web.
LEMMA HandleOnceInv ==
  ASSUME IInv, NEW x \in Exec, HandleOnce(x)
  PROVE  IInv'
<1> USE DEF IInv, HandleOnce, Reported, inst, local
<1>1. TypeOK'
  BY WorkflowAssumption DEF TypeOK
<1>2. Located'
  BY DEF Located
<1>3. OwnRun'
  BY DEF OwnRun
<1>4. Private'
  BY DEF Private
<1>5. ScanOwned'
  BY DEF ScanOwned
<1> QED BY <1>1, <1>2, <1>3, <1>4, <1>5

\* HandleForgotten: a report for no registered run.
LEMMA HandleForgottenInv ==
  ASSUME IInv, NEW x \in Exec, HandleForgotten(x)
  PROVE  IInv'
<1> USE DEF IInv, HandleForgotten, inst, local
<1>1. TypeOK'
  BY DEF TypeOK
<1>2. Located'
  BY DEF Located
<1>3. OwnRun'
  BY DEF OwnRun
<1>4. Private'
  BY DEF Private
<1>5. ScanOwned'
  BY DEF ScanOwned
<1> QED BY <1>1, <1>2, <1>3, <1>4, <1>5

\* HandleProgress: the RPC thread gets a registered run.
LEMMA HandleProgressInv ==
  ASSUME IInv, NEW x \in Exec, HandleProgress(x)
  PROVE  IInv'
<1> DEFINE r == owner[x]
<1> USE DEF IInv, HandleProgress, Reported, Goto
<1>0. /\ r \in Run /\ "rpc" \in Thread /\ "rpc" \notin Run
      /\ on[r] # r /\ status[r] # "PREP" /\ answer[x] \in ResultState
  BY WorkflowAssumption DEF Private, TypeOK, Thread, EngineThread
<1>a. /\ row' \in [Exec -> RunningState \cup ResultState \cup {NoRow}]
      /\ status' \in [Run -> Status]
      /\ \A q \in Run : status'[q] = "PREP" => status[q] = "PREP"
      /\ frames' \in [Thread -> Seq(Seq(Node) \ {<<>>})]
      /\ \A u \in Thread \ {"rpc"} : frames'[u] = frames[u]
  BY <1>0, CompleteJobPlanNodeType
<1>b. /\ pc' = [pc EXCEPT !["rpc"] = "walk"]
      /\ on' = [on EXCEPT !["rpc"] = r]
      /\ completing' = [completing EXCEPT !["rpc"] = x]
  BY DEF CompleteJobPlanNode
<1>1. TypeOK'
  BY <1>0, <1>a, <1>b DEF TypeOK, PC
<1>2. Located'
  BY <1>0, <1>a, <1>b DEF Located, WalkPC, TypeOK, Thread, EngineThread
<1>3. OwnRun'
  BY <1>0, <1>b DEF OwnRun, WalkPC, TypeOK, Thread
<1>4. Private'
  BY <1>0, <1>a, <1>b DEF Private, TypeOK
<1>5. ScanOwned'
  BY <1>0, <1>b DEF ScanOwned, TypeOK, Thread, EngineThread
<1> QED BY <1>1, <1>2, <1>3, <1>4, <1>5

\* FinishProgress: the end of handlejobProgress.
LEMMA FinishProgressInv ==
  ASSUME IInv, FinishProgress
  PROVE  IInv'
<1> USE DEF IInv, FinishProgress, WalkDone, Goto
<1>0. /\ "rpc" \in Thread /\ "rpc" \notin Run /\ NoRun \notin Run
      /\ completing["rpc"] \in Exec /\ on["rpc"] \in Run
      /\ workflows' \subseteq workflows
  BY WorkflowAssumption DEF Thread, EngineThread, Located, WalkPC, RemoveEnded
<1>1. TypeOK'
  <2>1. reports' \subseteq Run \X {"error", "timeout", "timeoutButSuccess"}
    BY <1>0 DEF TypeOK
  <2>2. paused' \in BOOLEAN
    BY DEF TypeOK
  <2> QED BY <1>0, <2>1, <2>2 DEF TypeOK, PC
<1>2. Located'
  BY <1>0 DEF Located, WalkPC, TypeOK
<1>3. OwnRun'
  BY <1>0 DEF OwnRun, WalkPC, TypeOK, Thread
<1>4. Private'
  BY <1>0 DEF Private, TypeOK, Thread
<1>5. ScanOwned'
  BY <1>0 DEF ScanOwned, TypeOK, Thread, EngineThread
<1> QED BY <1>1, <1>2, <1>3, <1>4, <1>5

-----------------------------------------------------------------------------
(* The timer thread and the web thread. *)

\* TimerQuery: the timer gets a registered run.
LEMMA TimerQueryInv ==
  ASSUME IInv, NEW r \in Run, TimerQuery(r)
  PROVE  IInv'
<1> USE DEF IInv, TimerQuery, Goto, inst, execs
<1>0. "timer" \in Thread /\ "timer" \notin Run /\ NoRun \notin Run
  BY WorkflowAssumption DEF Thread, EngineThread
<1>1. TypeOK'
  BY <1>0 DEF TypeOK, PC
<1>2. Located'
  BY <1>0 DEF Located, WalkPC, TypeOK
<1>3. OwnRun'
  BY <1>0 DEF OwnRun, WalkPC, TypeOK, Thread
<1>4. Private'
  BY <1>0 DEF Private, TypeOK, Thread
<1>5. ScanOwned'
  BY <1>0 DEF ScanOwned, TypeOK
<1> QED BY <1>1, <1>2, <1>3, <1>4, <1>5

\* NotOverdue: nothing to do for a row.
LEMMA NotOverdueInv ==
  ASSUME IInv, NEW x \in Exec, NotOverdue(x)
  PROVE  IInv'
<1> USE DEF IInv, NotOverdue, ScanOn, Goto, inst, execs
<1>0. "timer" \in Thread /\ "timer" \notin Run /\ NoRun \notin Run
  BY WorkflowAssumption DEF Thread, EngineThread
<1>1. TypeOK'
  BY <1>0 DEF TypeOK, PC
<1>2. Located'
  BY <1>0 DEF Located, WalkPC, TypeOK
<1>3. OwnRun'
  BY <1>0 DEF OwnRun, WalkPC, TypeOK, Thread
<1>4. Private'
  BY <1>0 DEF Private, TypeOK, Thread
<1>5. ScanOwned'
  BY <1>0 DEF ScanOwned, TypeOK
<1> QED BY <1>1, <1>2, <1>3, <1>4, <1>5

\* Overdue: the subscribers are told.
LEMMA OverdueInv ==
  ASSUME IInv, NEW x \in Exec, Overdue(x)
  PROVE  IInv'
<1> USE DEF IInv, Overdue, ScanOn, Goto, inst, execs
<1>0. "timer" \in Thread /\ "timer" \notin Run /\ NoRun \notin Run
  BY WorkflowAssumption DEF Thread, EngineThread
<1>a. on["timer"] \in Run
  BY <1>0 DEF Located
<1>1. TypeOK'
  <2>1. reports' \subseteq Run \X {"error", "timeout", "timeoutButSuccess"}
    BY <1>a DEF TypeOK
  <2>2. alarm' \in [Run -> {"none", "timeOut", "hasAlarm"}]
    BY DEF TypeOK
  <2> QED BY <1>0, <2>1, <2>2 DEF TypeOK, PC
<1>2. Located'
  BY <1>0 DEF Located, WalkPC, TypeOK
<1>3. OwnRun'
  BY <1>0 DEF OwnRun, WalkPC, TypeOK, Thread
<1>4. Private'
  BY <1>0 DEF Private, TypeOK, Thread
<1>5. ScanOwned'
  BY <1>0 DEF ScanOwned, TypeOK
<1> QED BY <1>1, <1>2, <1>3, <1>4, <1>5

\* TimeOutKill: the timer completes a node of the run it looks at.
LEMMA TimeOutKillInv ==
  ASSUME IInv, NEW x \in Exec, TimeOutKill(x)
  PROVE  IInv'
<1> DEFINE r == owner[x]
<1> USE DEF IInv, TimeOutKill, Goto
<1>0. "timer" \in Thread /\ "timer" \notin Run /\ NoRun \notin Run
  BY WorkflowAssumption DEF Thread, EngineThread
<1>z. /\ r \in Run /\ r = on["timer"] /\ on[r] # r /\ status[r] # "PREP"
  BY <1>0 DEF Private, ScanOwned, Located, Thread
<1>a. /\ row' \in [Exec -> RunningState \cup ResultState \cup {NoRow}]
      /\ status' \in [Run -> Status]
      /\ \A q \in Run : status'[q] = "PREP" => status[q] = "PREP"
      /\ frames' \in [Thread -> Seq(Seq(Node) \ {<<>>})]
      /\ \A u \in Thread \ {"timer"} : frames'[u] = frames[u]
  BY <1>0, <1>z, CompleteJobPlanNodeType, "RESULT_ERROR" \in ResultState DEF ResultState
<1>b. /\ pc' = [pc EXCEPT !["timer"] = "walk"]
      /\ on' = [on EXCEPT !["timer"] = r]
      /\ completing' = [completing EXCEPT !["timer"] = x]
  BY DEF CompleteJobPlanNode
<1>1. TypeOK'
  BY <1>0, <1>z, <1>a, <1>b DEF TypeOK, PC
<1>2. Located'
  BY <1>0, <1>z, <1>a, <1>b DEF Located, WalkPC, TypeOK, Thread, EngineThread
<1>3. OwnRun'
  BY <1>0, <1>b DEF OwnRun, WalkPC, TypeOK, Thread
<1>4. Private'
  BY <1>0, <1>z, <1>a, <1>b DEF Private, TypeOK
<1>5. ScanOwned'
  BY <1>0, <1>z, <1>b DEF ScanOwned, TypeOK
<1> QED BY <1>1, <1>2, <1>3, <1>4, <1>5

\* FinishTimeOut: the end of timeOutHandle.
LEMMA FinishTimeOutInv ==
  ASSUME IInv, FinishTimeOut
  PROVE  IInv'
<1> USE DEF IInv, FinishTimeOut, WalkDone, ScanOn, Goto
<1>0. "timer" \in Thread /\ "timer" \notin Run /\ NoRun \notin Run
  BY WorkflowAssumption DEF Thread, EngineThread
<1>z. /\ completing["timer"] \in Exec
      /\ workflows' \subseteq workflows
      /\ on' = on \/ on' = [on EXCEPT !["timer"] = NoRun]
      /\ on["timer"] \in Run
  BY <1>0 DEF Located, WalkPC, RemoveEnded
<1>1. TypeOK'
  <2>1. reports' \subseteq Run \X {"error", "timeout", "timeoutButSuccess"}
    BY <1>z DEF TypeOK
  <2>2. paused' \in BOOLEAN
    <3>1. \A n \in Node : Plan[n].hard \in BOOLEAN
      BY WorkflowAssumption DEF NodeDef
    <3> QED BY <3>1, <1>z DEF TypeOK
  <2> QED BY <1>0, <1>z, <2>1, <2>2 DEF TypeOK, PC
<1>2. Located'
  BY <1>0, <1>z DEF Located, WalkPC, TypeOK
<1>3. OwnRun'
  BY <1>0 DEF OwnRun, WalkPC, TypeOK, Thread
<1>4. Private'
  BY <1>0, <1>z DEF Private, TypeOK, Thread
<1>5. ScanOwned'
  BY <1>0 DEF ScanOwned, TypeOK
<1> QED BY <1>1, <1>2, <1>3, <1>4, <1>5

\* ExecuteOnce: a node is executed from the web.
LEMMA ExecuteOnceInv ==
  ASSUME IInv, NEW n \in Node, ExecuteOnce(n)
  PROVE  IInv'
<1> USE DEF IInv, ExecuteOnce, executeXJob, Goto, inst
<1>0. /\ "web" \in Thread /\ "web" \notin Run
      /\ Fresh \in Exec /\ node[Fresh] = NoNode
  BY FreshType, WorkflowAssumption DEF Thread, EngineThread
<1>1. TypeOK'
  BY <1>0 DEF TypeOK, PC, RunningState
<1>2. Located'
  BY <1>0 DEF Located, WalkPC, TypeOK
<1>3. OwnRun'
  BY <1>0 DEF OwnRun, WalkPC, TypeOK, Thread
<1>4. Private'
  BY DEF Private
<1>5. ScanOwned'
  BY <1>0, WorkflowAssumption DEF ScanOwned, TypeOK
<1> QED BY <1>1, <1>2, <1>3, <1>4, <1>5

\* OnceUpdate: the web thread writes its copy of the row.
LEMMA OnceUpdateInv ==
  ASSUME IInv, OnceUpdate
  PROVE  IInv'
<1> USE DEF IInv, OnceUpdate, Goto, inst
<1>0. "web" \in Thread /\ "web" \notin Run
  BY WorkflowAssumption DEF Thread, EngineThread
<1>1. TypeOK'
  BY <1>0 DEF TypeOK, PC, RunningState
<1>2. Located'
  BY <1>0 DEF Located, WalkPC, TypeOK
<1>3. OwnRun'
  BY <1>0 DEF OwnRun, WalkPC, TypeOK, Thread
<1>4. Private'
  BY DEF Private
<1>5. ScanOwned'
  BY DEF ScanOwned
<1> QED BY <1>1, <1>2, <1>3, <1>4, <1>5

-----------------------------------------------------------------------------
(* The theorems. *)

\* The inductive invariant holds when the engine starts.
LEMMA InitInv == Init => IInv
<1> SUFFICES ASSUME Init PROVE IInv
  OBVIOUS
<1> USE WorkflowAssumption DEF Init
<1>1. TypeOK
  <2>1. <<>> \in Seq(Seq(Node) \ {<<>>})
    BY EmptySeq
  <2> QED BY <2>1 DEF TypeOK, Status, PC
<1>2. Located /\ OwnRun
  BY DEF Located, OwnRun, WalkPC, Thread, EngineThread
<1>3. Private /\ ScanOwned
  BY DEF Private, ScanOwned, Thread
<1> QED BY <1>1, <1>2, <1>3 DEF IInv

\* Every step of every thread preserves it.
LEMMA NextInv == IInv /\ [Next]_vars => IInv'
<1> SUFFICES ASSUME IInv, [Next]_vars PROVE IInv'
  OBVIOUS
<1>1. ASSUME NEW r \in Run, StarterStep(r) PROVE IInv'
  <2>1. r \in Thread
    BY DEF Thread
  <2> QED BY <1>1, <2>1, StartJobPlanInv, ProcessNextNodesInv, AddWorkflowInv DEF StarterStep
<1>2. CASE RpcDelivery
  BY <1>2, HandleOnceInv, HandleForgottenInv, HandleProgressInv DEF RpcDelivery
<1>3. CASE RpcWork
  <2>1. "rpc" \in Thread
    BY DEF Thread, EngineThread
  <2> QED BY <1>3, <2>1, ProcessNextNodesInv, FinishProgressInv DEF RpcWork
<1>4. CASE TimerStep
  <2>1. "timer" \in Thread
    BY DEF Thread, EngineThread
  <2> QED BY <1>4, <2>1, TimerQueryInv, NotOverdueInv, OverdueInv, TimeOutKillInv,
             ProcessNextNodesInv, FinishTimeOutInv DEF TimerStep
<1>5. CASE WebStep
  BY <1>5, ExecuteOnceInv, OnceUpdateInv DEF WebStep
<1>6. ASSUME NEW x \in Exec, Answer(x) PROVE IInv'
  BY <1>6, AnswerInv
<1>7. CASE UNCHANGED vars
  BY <1>7 DEF vars, inst, execs, local, IInv, TypeOK, Located, OwnRun, Private, ScanOwned
<1> QED BY <1>1, <1>2, <1>3, <1>4, <1>5, <1>6, <1>7 DEF Next

\* The inductive invariant holds in every reachable state.
THEOREM Invariance == Spec => []IInv
BY InitInv, NextInv, PTL DEF Spec

\* Type correctness of the engine's state and of the threads' local state,
\* for every plan: in particular the stack that processNextNodes walks never
\* holds an empty list, and a join's count never becomes negative.
THEOREM TypeCorrect == Spec => []TypeOK
<1>1. IInv => TypeOK
  BY DEF IInv
<1> QED BY <1>1, Invariance, PTL

\* startJobPlan registers an instance only after start() has returned; so,
\* for every plan and any number of runs, executions, failures of the table
\* and timeouts, no other thread reaches it before.
THEOREM Confinement == Spec => []StarterConfined
<1>1. IInv => StarterConfined
  BY DEF IInv, Private, StarterConfined, Thread
<1> QED BY <1>1, Invariance, PTL
=============================================================================
