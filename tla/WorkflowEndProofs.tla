------------------------- MODULE WorkflowEndProofs -------------------------
(***************************************************************************)
(* Proofs about how the runs of Workflow end, for any number of runs and   *)
(* executions: who walks an instance, what becomes of a recorded result,   *)
(* what the registry holds and whether an ended run stays as it is.        *)
(***************************************************************************)
EXTENDS WorkflowProofs

\* The timer is off.
NoTimer == pc["timer"] = "idle"

\* An execution that a thread has dispatched and not yet marked belongs to
\* the run it works on and has no result; one dispatched from the web belongs
\* to no run.
Marked ==
  /\ \A t \in Thread : pc[t] = "notify" =>
       /\ entering[t] \in Exec
       /\ owner[entering[t]] = on[t]
       /\ row[entering[t]] \notin ResultState
  /\ pc["web"] = "onceUpdate" =>
       /\ entering["web"] \in Exec
       /\ owner[entering["web"]] = NoRun
       /\ node[entering["web"]] # NoNode

-----------------------------------------------------------------------------
(* What the steps have in common. *)

\* The steps of the walk, whoever takes them, and all the others.
LEMMA NextCases ==
  ASSUME [Next]_vars
  PROVE  \/ \E r \in Run : StartJobPlan(r) \/ AddWorkflow(r) \/ TimerQuery(r)
         \/ \E t \in Thread : ProcessNextNodes(t)
         \/ \E x \in Exec : \/ HandleOnce(x) \/ HandleForgotten(x) \/ HandleProgress(x)
                            \/ NotOverdue(x) \/ Overdue(x) \/ TimeOutKill(x) \/ Answer(x)
         \/ FinishProgress \/ FinishTimeOut
         \/ \E n \in Node : ExecuteOnce(n)
         \/ OnceUpdate
         \/ UNCHANGED vars
<1>1. "rpc" \in Thread /\ "timer" \in Thread /\ Run \subseteq Thread
  BY DEF Thread, EngineThread
<1> QED
  BY <1>1 DEF Next, StarterStep, RpcDelivery, RpcWork, TimerStep, WebStep

\* A step of the walk of thread t: processNextNodes leaves the registry and
\* the other threads alone, and a status it changes is that of the run t
\* works on, which has ended then.
LEMMA WalkFrame ==
  ASSUME IInv, NEW t \in Thread, ProcessNextNodes(t)
  PROVE  /\ on[t] \in Run /\ pc[t] \in WalkPC /\ pc'[t] \in WalkPC
         /\ UNCHANGED <<workflows, on, scan>>
         /\ \A u \in Thread \ {t} : /\ pc'[u] = pc[u] /\ frames'[u] = frames[u]
                                    /\ entering'[u] = entering[u]
         /\ \A r \in Run : \/ status'[r] = status[r]
                           \/ r = on[t] /\ status'[r] \in EndStatus
<1> DEFINE Frame ==
         /\ pc[t] \in WalkPC /\ pc'[t] \in WalkPC
         /\ UNCHANGED <<workflows, on, scan>>
         /\ \A u \in Thread \ {t} : /\ pc'[u] = pc[u] /\ frames'[u] = frames[u]
                                    /\ entering'[u] = entering[u]
         /\ \A r \in Run : \/ status'[r] = status[r]
                           \/ r = on[t] /\ status'[r] \in EndStatus
<1>0. /\ pc \in [Thread -> PC] /\ frames \in [Thread -> Frames]
      /\ entering \in [Thread -> Exec \cup {NoExec}] /\ status \in [Run -> Status]
  BY DEF IInv, TypeOK, Frames
<1>1. ASSUME EnterAction(t) PROVE Frame
  BY <1>0, <1>1 DEF EnterAction, executeXJob, At, Goto, WalkPC, inst
<1>2. ASSUME NotifySuccess(t) PROVE Frame
  BY <1>0, <1>2 DEF NotifySuccess, Goto, WalkPC, inst
<1>3. ASSUME SkipSignal(t) PROVE Frame
  BY <1>0, <1>3 DEF SkipSignal, At, WalkPC, inst
<1>4. ASSUME Fork(t) PROVE Frame
  BY <1>0, <1>4 DEF Fork, At, WalkPC
<1>5. ASSUME JoinRead(t) PROVE Frame
  BY <1>0, <1>5 DEF JoinRead, At, Goto, WalkPC, EndStatus
<1>6. ASSUME JoinWrite(t) PROVE Frame
  BY <1>0, <1>6 DEF JoinWrite, Goto, WalkPC
<1>7. ASSUME EnterEnd(t) PROVE Frame
  BY <1>0, <1>7 DEF EnterEnd, At, Goto, WalkPC
<1>8. ASSUME EnterFail(t) PROVE Frame
  BY <1>0, <1>8 DEF EnterFail, At, Goto, WalkPC
<1>9. ASSUME EndNodeThrows(t) PROVE Frame
  BY <1>0, <1>9 DEF EndNodeThrows, At, WalkPC, EndStatus
<1>10. ASSUME SetEndStatus(t) PROVE Frame
  BY <1>0, <1>10 DEF SetEndStatus, Goto, WalkPC, EndStatus
<1>11. Frame
  BY <1>1, <1>2, <1>3, <1>4, <1>5, <1>6, <1>7, <1>8, <1>9, <1>10 DEF ProcessNextNodes
<1>12. on[t] \in Run
  BY <1>11 DEF IInv, Located
<1> QED
  BY <1>11, <1>12

\* The names of the threads.
LEMMA ThreadNames ==
  /\ "rpc" \in Thread /\ "timer" \in Thread /\ "web" \in Thread /\ Run \subseteq Thread
  /\ "rpc" \notin Run /\ "timer" \notin Run /\ "web" \notin Run /\ NoRun \notin Run
  /\ \A t \in Thread : t \in Run \/ t = "rpc" \/ t = "timer" \/ t = "web"
BY WorkflowAssumption DEF Thread, EngineThread

-----------------------------------------------------------------------------
(* Without the timer. *)

\* The timer thread stays where it is.
LEMMA NoTimerStep ==
  ASSUME "timer" \notin Features, IInv, NoTimer, [Next]_vars
  PROVE  NoTimer'
<1> USE DEF NoTimer
<1>0. pc \in [Thread -> PC]
  BY DEF IInv, TypeOK
<1>1. ASSUME NEW r \in Run, StartJobPlan(r) \/ AddWorkflow(r) PROVE NoTimer'
  BY <1>0, <1>1, ThreadNames DEF StartJobPlan, AddWorkflow, Goto
<1>2. ASSUME NEW r \in Run, TimerQuery(r) PROVE NoTimer'
  BY <1>2 DEF TimerQuery
<1>3. ASSUME NEW t \in Thread, ProcessNextNodes(t) PROVE NoTimer'
  BY <1>3, WalkFrame, ThreadNames DEF WalkPC
<1>4. ASSUME NEW x \in Exec, HandleOnce(x) \/ HandleForgotten(x) \/ Answer(x) PROVE NoTimer'
  BY <1>4 DEF HandleOnce, HandleForgotten, Answer, local
<1>5. ASSUME NEW x \in Exec, HandleProgress(x) PROVE NoTimer'
  BY <1>0, <1>5 DEF HandleProgress, CompleteJobPlanNode, Goto
<1>6. ASSUME NEW x \in Exec, NotOverdue(x) \/ Overdue(x) \/ TimeOutKill(x) PROVE NoTimer'
  BY <1>6 DEF NotOverdue, Overdue, TimeOutKill
<1>7. CASE FinishProgress
  BY <1>0, <1>7 DEF FinishProgress, Goto
<1>f. CASE FinishTimeOut
  BY <1>f DEF FinishTimeOut, WalkDone
<1>8. ASSUME NEW n \in Node, ExecuteOnce(n) PROVE NoTimer'
  BY <1>0, <1>8 DEF ExecuteOnce, Goto
<1>9. CASE OnceUpdate
  BY <1>0, <1>9 DEF OnceUpdate, Goto
<1>10. CASE UNCHANGED vars
  BY <1>10 DEF vars, local
<1> QED
  BY <1>1, <1>2, <1>3, <1>4, <1>5, <1>6, <1>7, <1>f, <1>8, <1>9, <1>10, NextCases

\* Then an instance has one walker: a starter's is its own (Private), and the
\* only other thread that walks is the RPC thread.
LEMMA OneWalker == IInv /\ NoTimer => SingleWalker
<1> SUFFICES ASSUME IInv, NoTimer, NEW t \in Thread, NEW u \in Thread, t # u,
                    Walking(t), Walking(u), on[t] = on[u]
             PROVE  FALSE
  BY DEF SingleWalker
<1>1. \A v \in Thread : Walking(v) => pc[v] \in WalkPC
  BY DEF Walking, WalkPC
<1>2. ASSUME NEW v \in Thread, Walking(v) PROVE v \in Run \/ v = "rpc"
  BY <1>1, <1>2, ThreadNames DEF IInv, Located, NoTimer, WalkPC
<1>3. ASSUME NEW v \in Run, NEW w \in Thread, w # v, Walking(v) PROVE on[v] = v /\ on[w] # v
  BY <1>1, <1>3, ThreadNames DEF IInv, OwnRun, Private
<1> QED
  BY <1>2, <1>3

\* A step that dispatches nothing and gives no dispatched execution a result.
LEMMA MarkedFrame ==
  ASSUME Marked, UNCHANGED <<owner, node, entering>>,
         \A t \in Thread : pc'[t] = "notify" => pc[t] = "notify" /\ on'[t] = on[t],
         pc'["web"] = "onceUpdate" => pc["web"] = "onceUpdate",
         \A t \in Thread : pc'[t] = "notify" => row'[entering[t]] = row[entering[t]]
  PROVE  Marked'
BY DEF Marked

\* Every step of the walk keeps the executions marked.
LEMMA MarkedWalk ==
  ASSUME IInv, NoTimer, Marked, NEW t \in Thread, ProcessNextNodes(t)
  PROVE  Marked'
<1>0. /\ on[t] \in Run /\ on' = on /\ pc[t] \in WalkPC
      /\ \A u \in Thread \ {t} : pc'[u] = pc[u] /\ entering'[u] = entering[u]
      /\ t # "web" /\ NoRun \notin Run /\ "web" \in Thread
      /\ \A u \in Thread : pc[u] = "notify" => on[u] \in Run
  BY WalkFrame, ThreadNames DEF IInv, Located, WalkPC
<1>t. /\ pc \in [Thread -> PC] /\ entering \in [Thread -> Exec \cup {NoExec}]
      /\ owner \in [Exec -> Run \cup {NoRun}] /\ node \in [Exec -> Node \cup {NoNode}]
      /\ row \in [Exec -> RunningState \cup ResultState \cup {NoRow}]
  BY DEF IInv, TypeOK
<1>1. CASE EnterAction(t)
  <2>1. PICK state \in {"INIT", NoRow} :
          /\ Fresh \in Exec /\ node[Fresh] = NoNode
          /\ node' = [node EXCEPT ![Fresh] = Current(t)]
          /\ owner' = [owner EXCEPT ![Fresh] = on[t]]
          /\ row' = [row EXCEPT ![Fresh] = state]
          /\ entering' = [entering EXCEPT ![t] = Fresh]
    BY <1>1, FreshType DEF EnterAction, executeXJob
  <2>2. owner[Fresh] = NoRun /\ state \notin ResultState
    BY <2>1 DEF IInv, ScanOwned, ResultState, NoRow
  <2>3. ASSUME NEW u \in Thread, pc'[u] = "notify"
        PROVE  /\ entering'[u] \in Exec /\ owner'[entering'[u]] = on'[u]
               /\ row'[entering'[u]] \notin ResultState
    <3>1. CASE u = t
      BY <1>0, <1>t, <2>1, <2>2, <3>1
    <3>2. CASE u # t
      <4>1. /\ pc[u] = "notify" /\ entering'[u] = entering[u] /\ on[u] \in Run
            /\ entering[u] \in Exec /\ owner[entering[u]] = on[u]
            /\ row[entering[u]] \notin ResultState
        BY <1>0, <2>3, <3>2 DEF Marked
      <4>2. entering[u] # Fresh
        BY <1>0, <2>2, <4>1
      <4> QED
        BY <1>0, <1>t, <2>1, <4>1, <4>2
    <3> QED
      BY <3>1, <3>2
  <2>4. ASSUME pc'["web"] = "onceUpdate"
        PROVE  /\ entering'["web"] \in Exec /\ owner'[entering'["web"]] = NoRun
               /\ node'[entering'["web"]] # NoNode
    <3>1. /\ entering'["web"] = entering["web"] /\ entering["web"] \in Exec
          /\ owner[entering["web"]] = NoRun /\ node[entering["web"]] # NoNode
      BY <1>0, <2>4 DEF Marked
    <3>2. entering["web"] # Fresh
      BY <2>1, <3>1
    <3> QED
      BY <1>t, <2>1, <3>1, <3>2
  <2> QED
    BY <2>3, <2>4 DEF Marked
<1>2. CASE NotifySuccess(t)
  <2>1. /\ row' = [row EXCEPT ![entering[t]] =
                     IF row[entering[t]] = NoRow THEN NoRow ELSE "NOTIFY_SUCCESS"]
        /\ UNCHANGED <<owner, node>> /\ pc'[t] = "walk"
    BY <1>2, <1>t DEF NotifySuccess, Goto
  <2>2. \A x \in Exec : row[x] \notin ResultState => row'[x] \notin ResultState
    BY <1>t, <2>1 DEF ResultState, NoRow
  <2> QED
    BY <1>0, <2>1, <2>2 DEF Marked
<1>3. CASE EnterFail(t)
  <2>1. /\ row' = [x \in Exec |-> IF owner[x] = on[t] /\ row[x] \in RunningState
                                  THEN "RESULT_ERROR" ELSE row[x]]
        /\ UNCHANGED <<owner, node, entering>> /\ pc'[t] = "setFailed" /\ pc[t] = "walk"
    BY <1>3, <1>t DEF EnterFail, Goto, At
  <2>2. ASSUME NEW u \in Thread, pc'[u] = "notify" PROVE row'[entering[u]] = row[entering[u]]
    <3>1. u # t /\ pc[u] = "notify" /\ owner[entering[u]] = on[u] /\ entering[u] \in Exec
      BY <1>0, <2>1, <2>2 DEF Marked
    <3>2. on[u] # on[t]
      BY <2>1, <3>1, OneWalker DEF SingleWalker, Walking
    <3> QED
      BY <2>1, <3>1, <3>2
  <2> QED
    BY <1>0, <2>1, <2>2, MarkedFrame
<1>4. CASE \/ SkipSignal(t) \/ Fork(t) \/ JoinRead(t) \/ JoinWrite(t) \/ EnterEnd(t)
           \/ EndNodeThrows(t) \/ SetEndStatus(t)
  <2>1. UNCHANGED <<owner, node, entering, row>>
    BY <1>4 DEF SkipSignal, Fork, JoinRead, JoinWrite, EnterEnd, EndNodeThrows, SetEndStatus, execs
  <2>2. pc'[t] # "notify"
    BY <1>4, <1>t
    DEF SkipSignal, Fork, JoinRead, JoinWrite, EnterEnd, EndNodeThrows, SetEndStatus, Goto, At
  <2> QED
    BY <1>0, <2>1, <2>2, MarkedFrame
<1> QED
  BY <1>1, <1>2, <1>3, <1>4 DEF ProcessNextNodes

\* So does every other step.
LEMMA MarkedStep ==
  ASSUME IInv, NoTimer, Marked, [Next]_vars
  PROVE  Marked'
<1>t. /\ pc \in [Thread -> PC] /\ on \in [Thread -> Run \cup {NoRun}]
      /\ entering \in [Thread -> Exec \cup {NoExec}]
      /\ owner \in [Exec -> Run \cup {NoRun}] /\ node \in [Exec -> Node \cup {NoNode}]
      /\ row \in [Exec -> RunningState \cup ResultState \cup {NoRow}]
  BY DEF IInv, TypeOK
<1>m. \A u \in Thread : pc[u] = "notify" =>
         /\ entering[u] \in Exec /\ owner[entering[u]] = on[u] /\ on[u] \in Run
         /\ row[entering[u]] \notin ResultState
  BY DEF Marked, IInv, Located, WalkPC
<1>1. ASSUME NEW r \in Run, StartJobPlan(r) \/ AddWorkflow(r) PROVE Marked'
  <2>1. UNCHANGED <<owner, node, entering, row>>
    BY <1>1 DEF StartJobPlan, AddWorkflow, execs
  <2>2. \/ pc' = [pc EXCEPT ![r] = "walk"] /\ on' = [on EXCEPT ![r] = r]
        \/ pc' = [pc EXCEPT ![r] = "idle"] /\ on' = [on EXCEPT ![r] = NoRun]
    BY <1>1 DEF StartJobPlan, AddWorkflow, Goto
  <2>3. \A t \in Thread : pc'[t] = "notify" => pc[t] = "notify" /\ on'[t] = on[t]
    BY <1>t, <2>2, ThreadNames
  <2>4. pc'["web"] = pc["web"]
    BY <1>t, <2>2, ThreadNames
  <2> QED
    BY <2>1, <2>3, <2>4, MarkedFrame
<1>2. CASE \/ \E r \in Run : TimerQuery(r)
           \/ \E x \in Exec : NotOverdue(x) \/ Overdue(x) \/ TimeOutKill(x)
           \/ FinishTimeOut
  <2>2. PICK r \in Run : TimerQuery(r)
    BY <1>2 DEF NotOverdue, Overdue, TimeOutKill, FinishTimeOut, WalkDone, NoTimer
  <2>3. /\ UNCHANGED <<owner, node, entering, row>>
        /\ pc' = [pc EXCEPT !["timer"] = "scan"] /\ on' = [on EXCEPT !["timer"] = r]
    BY <2>2 DEF TimerQuery, execs, Goto
  <2>4. /\ pc'["web"] = pc["web"]
        /\ \A t \in Thread : pc'[t] = "notify" => pc[t] = "notify" /\ on'[t] = on[t]
    BY <1>t, <2>3, ThreadNames
  <2> QED
    BY <2>3, <2>4, MarkedFrame
<1>3. ASSUME NEW x \in Exec, HandleForgotten(x) \/ Answer(x) PROVE Marked'
  <2>1. UNCHANGED <<owner, node, entering, row, pc, on>>
    BY <1>3 DEF HandleForgotten, Answer, local
  <2> QED
    BY <2>1, MarkedFrame
<1>4. ASSUME NEW x \in Exec, HandleOnce(x) PROVE Marked'
  <2>1. /\ UNCHANGED <<owner, node, entering, pc, on>>
        /\ owner[x] = NoRun /\ row' = [row EXCEPT ![x] = answer[x]]
    BY <1>4 DEF HandleOnce, local
  <2>2. ASSUME NEW t \in Thread, pc'[t] = "notify" PROVE row'[entering[t]] = row[entering[t]]
    BY <1>t, <1>m, <2>1, <2>2, ThreadNames
  <2> QED
    BY <2>1, <2>2, MarkedFrame
<1>5. ASSUME NEW x \in Exec, HandleProgress(x) PROVE Marked'
  <2>1. /\ UNCHANGED <<owner, node, entering>>
        /\ owner[x] \in workflows /\ pc["rpc"] = "idle"
        /\ row' = row \/ row' = [row EXCEPT ![x] = answer[x]]
        /\ pc' = [pc EXCEPT !["rpc"] = "walk"] /\ on' = [on EXCEPT !["rpc"] = owner[x]]
    BY <1>5 DEF HandleProgress, Reported, CompleteJobPlanNode, Goto
  <2>2. /\ pc'["web"] = pc["web"]
        /\ \A t \in Thread : pc'[t] = "notify" => pc[t] = "notify" /\ on'[t] = on[t]
    BY <1>t, <2>1, ThreadNames
  <2>3. ASSUME NEW t \in Thread, pc'[t] = "notify" PROVE row'[entering[t]] = row[entering[t]]
    <3>1. pc[t] = "notify" /\ t \in Run
      BY <2>1, <2>2, <2>3, ThreadNames DEF IInv, Located, NoTimer, WalkPC
    <3>2. on[t] = t /\ t \notin workflows
      BY <3>1 DEF IInv, OwnRun, Private, WalkPC
    <3>3. entering[t] # x
      BY <1>m, <2>1, <3>1, <3>2
    <3> QED
      BY <1>t, <1>m, <2>1, <3>1, <3>3
  <2> QED
    BY <2>1, <2>2, <2>3, MarkedFrame
<1>6. CASE FinishProgress
  <2>1. /\ UNCHANGED <<owner, node, entering, row>>
        /\ pc' = [pc EXCEPT !["rpc"] = "idle"] /\ on' = [on EXCEPT !["rpc"] = NoRun]
    BY <1>6 DEF FinishProgress, Goto
  <2>2. /\ pc'["web"] = pc["web"]
        /\ \A t \in Thread : pc'[t] = "notify" => pc[t] = "notify" /\ on'[t] = on[t]
    BY <1>t, <2>1, ThreadNames
  <2> QED
    BY <2>1, <2>2, MarkedFrame
<1>7. ASSUME NEW n \in Node, ExecuteOnce(n) PROVE Marked'
  <2>1. /\ Fresh \in Exec /\ node[Fresh] = NoNode /\ owner[Fresh] = NoRun
        /\ node' = [node EXCEPT ![Fresh] = n]
        /\ owner' = [owner EXCEPT ![Fresh] = NoRun]
        /\ row' = [row EXCEPT ![Fresh] = "INIT"]
        /\ entering' = [entering EXCEPT !["web"] = Fresh]
        /\ pc' = [pc EXCEPT !["web"] = "onceUpdate"] /\ on' = on
    BY <1>7, FreshType DEF ExecuteOnce, executeXJob, Goto, IInv, ScanOwned
  <2>2. entering'["web"] = Fresh /\ owner'[Fresh] = NoRun /\ node'[Fresh] # NoNode
    BY <1>t, <2>1, ThreadNames, WorkflowAssumption
  <2>3. ASSUME NEW t \in Thread, pc'[t] = "notify"
        PROVE  /\ entering'[t] \in Exec /\ owner'[entering'[t]] = on'[t]
               /\ row'[entering'[t]] \notin ResultState
    <3>1. t # "web" /\ pc[t] = "notify" /\ entering'[t] = entering[t]
      BY <1>t, <2>1, <2>3
    <3>2. entering[t] # Fresh
      BY <1>m, <2>1, <3>1, ThreadNames
    <3> QED
      BY <1>t, <1>m, <2>1, <3>1, <3>2
  <2> QED
    BY <2>1, <2>2, <2>3 DEF Marked
<1>8. CASE OnceUpdate
  <2>1. /\ UNCHANGED <<owner, node, on>> /\ pc["web"] = "onceUpdate"
        /\ row' = [row EXCEPT ![entering["web"]] = "INIT"]
        /\ entering' = [entering EXCEPT !["web"] = NoExec]
        /\ pc' = [pc EXCEPT !["web"] = "idle"]
    BY <1>8 DEF OnceUpdate, Goto
  <2>2. pc'["web"] = "idle"
    BY <1>t, <2>1, ThreadNames
  <2>3. ASSUME NEW t \in Thread, pc'[t] = "notify"
        PROVE  /\ entering'[t] \in Exec /\ owner'[entering'[t]] = on'[t]
               /\ row'[entering'[t]] \notin ResultState
    <3>1. t # "web" /\ pc[t] = "notify" /\ entering'[t] = entering[t]
      BY <1>t, <2>1, <2>3
    <3>2. entering[t] # entering["web"]
      BY <1>m, <2>1, <3>1, ThreadNames DEF Marked
    <3> QED
      BY <1>t, <1>m, <2>1, <3>1, <3>2
  <2> QED
    BY <2>2, <2>3 DEF Marked
<1>9. CASE UNCHANGED vars
  <2>1. UNCHANGED <<owner, node, entering, row, pc, on>>
    BY <1>9 DEF vars, execs, local
  <2> QED
    BY <2>1, MarkedFrame
<1> QED
  BY <1>1, <1>2, <1>3, <1>4, <1>5, <1>6, <1>7, <1>8, <1>9, MarkedWalk, NextCases

\* No step replaces a result by a running state.
LEMMA ResultStep ==
  ASSUME IInv, NoTimer, Marked, [Next]_vars,
         NEW x \in Exec, owner[x] # NoRun, row[x] \in ResultState
  PROVE  row'[x] \in ResultState
<1>t. /\ owner \in [Exec -> Run \cup {NoRun}] /\ answer \in [Exec -> Outcome \cup {NoRow}]
      /\ row \in [Exec -> RunningState \cup ResultState \cup {NoRow}]
  BY DEF IInv, TypeOK
<1>f. (\E y \in Exec : node[y] = NoNode) => Fresh \in Exec /\ x # Fresh
  BY FreshType DEF IInv, ScanOwned
<1>1. ASSUME NEW t \in Thread, ProcessNextNodes(t) PROVE row'[x] \in ResultState
  <2>1. CASE EnterAction(t)
    <3>1. x # Fresh /\ \E state : row' = [row EXCEPT ![Fresh] = state]
      BY <1>f, <2>1 DEF EnterAction, executeXJob
    <3> QED
      BY <1>t, <3>1
  <2>2. CASE NotifySuccess(t)
    <3>1. entering[t] # x
      BY <2>2 DEF NotifySuccess, Marked
    <3> QED
      BY <1>t, <2>2, <3>1 DEF NotifySuccess
  <2>3. CASE EnterFail(t)
    BY <1>t, <2>3 DEF EnterFail, ResultState
  <2>4. CASE row' = row
    BY <2>4
  <2> QED
    BY <1>1, <2>1, <2>2, <2>3, <2>4
    DEF ProcessNextNodes, SkipSignal, Fork, JoinRead, JoinWrite, EnterEnd, EndNodeThrows,
        SetEndStatus, execs
<1>2. ASSUME NEW y \in Exec, HandleOnce(y) PROVE row'[x] \in ResultState
  BY <1>t, <1>2 DEF HandleOnce
<1>3. ASSUME NEW y \in Exec, HandleProgress(y) PROVE row'[x] \in ResultState
  <2>1. answer[y] \in ResultState
    BY <1>t, <1>3, WorkflowAssumption DEF HandleProgress, Reported
  <2>2. row' = row \/ row' = [row EXCEPT ![y] = answer[y]]
    BY <1>3 DEF HandleProgress, CompleteJobPlanNode
  <2> QED
    BY <1>t, <2>1, <2>2
<1>4. ASSUME NEW n \in Node, ExecuteOnce(n) PROVE row'[x] \in ResultState
  BY <1>t, <1>f, <1>4 DEF ExecuteOnce, executeXJob
<1>5. CASE OnceUpdate
  <2>1. entering["web"] # x
    BY <1>5 DEF OnceUpdate, Marked
  <2> QED
    BY <1>t, <1>5, <2>1 DEF OnceUpdate
<1>6. CASE \E y \in Exec : TimeOutKill(y)
  BY <1>6 DEF TimeOutKill, NoTimer
<1>7. CASE row' = row
  BY <1>7
<1>8. CASE \/ \E r \in Run : StartJobPlan(r) \/ AddWorkflow(r) \/ TimerQuery(r)
           \/ \E y \in Exec : HandleForgotten(y) \/ NotOverdue(y) \/ Overdue(y) \/ Answer(y)
           \/ FinishProgress \/ FinishTimeOut \/ UNCHANGED vars
  BY <1>7, <1>8 DEF StartJobPlan, AddWorkflow, TimerQuery, HandleForgotten, NotOverdue, Overdue,
     Answer, FinishProgress, FinishTimeOut, vars, execs
<1> QED
  BY <1>1, <1>2, <1>3, <1>4, <1>5, <1>6, <1>8, NextCases

\* In a timerless engine the timer's thread does nothing.
LEMMA TimerSleeps ==
  ASSUME "timer" \notin Features
  PROVE  Spec => []NoTimer
<1>1. Init => NoTimer
  BY ThreadNames DEF Init, NoTimer
<1>2. IInv /\ NoTimer /\ [Next]_vars => NoTimer'
  BY NoTimerStep
<1> QED
  BY <1>1, <1>2, Invariance, PTL DEF Spec

\* LiteWorkflowInstance has no lock and, as long as nothing times out, needs
\* none: of all the threads at most one walks an instance.
THEOREM WalksAlone ==
  ASSUME "timer" \notin Features
  PROVE  Spec => []SingleWalker
BY OneWalker, TimerSleeps, Invariance, PTL

\* The unconditional update at the end of ActionNodeHandler.enter meets no
\* result: for every plan, as long as nothing times out, a result recorded in
\* XJOB_STATE for a node of a run stays a result.
THEOREM ResultsStay ==
  ASSUME "timer" \notin Features
  PROVE  Spec => ResultIsStable
<1>1. Init => Marked
  BY ThreadNames DEF Init, Marked
<1>2. IInv /\ NoTimer /\ Marked /\ [Next]_vars => Marked'
  BY MarkedStep
<1>3. IInv /\ NoTimer /\ Marked /\ [Next]_vars
        => [\A x \in Exec : owner[x] # NoRun /\ row[x] \in ResultState
                            => row'[x] \in ResultState]_row
  BY ResultStep
<1> QED
  BY <1>1, <1>2, <1>3, Invariance, TimerSleeps, PTL DEF Spec, ResultIsStable

-----------------------------------------------------------------------------
(* The registry.  startJobPlan registers a run when its starter has walked  *)
(* as far as it can, without a look at the status: what follows is about    *)
(* plans whose starter cannot reach an end before an action is executed.    *)

DFrames == Seq(Seq(Dispatching) \ {<<>>})

\* A starter dispatches actions and nothing else, and its run goes on.
Started ==
  \A r \in Run :
    /\ frames[r] \in DFrames
    /\ on[r] = r => status[r] = "RUNNING" /\ pc[r] \in {"walk", "notify"}

\* A run that goes on is registered or its starter's; one that has ended and
\* is still registered has a thread that will remove it.
Registered ==
  /\ \A r \in Run : status[r] = "RUNNING" => r \in workflows \/ on[r] = r
  /\ \A r \in workflows : status[r] \in EndStatus =>
       \E t \in {"rpc", "timer"} : on[t] = r /\ pc[t] \in WalkPC

\* A step that leaves the starters alone.
LEMMA StartedFrame ==
  ASSUME Started,
         \A r \in Run : /\ frames'[r] = frames[r]
                        /\ on'[r] = r => /\ on[r] = r
                                         /\ status'[r] = status[r] /\ pc'[r] = pc[r]
  PROVE  Started'
BY DEF Started

\* A step of the walk keeps a starter at dispatching.
LEMMA StartedWalk ==
  ASSUME DispatchFirst, IInv, Started, NEW t \in Thread, ProcessNextNodes(t)
  PROVE  Started'
<1>0. /\ on[t] \in Run /\ pc[t] \in WalkPC /\ on' = on
      /\ \A u \in Thread \ {t} : pc'[u] = pc[u] /\ frames'[u] = frames[u]
      /\ \A r \in Run : status'[r] = status[r] \/ r = on[t]
  BY WalkFrame
<1>1. ASSUME NEW r \in Run, r # t
      PROVE  /\ frames'[r] \in DFrames
             /\ on'[r] = r => status'[r] = "RUNNING" /\ pc'[r] \in {"walk", "notify"}
  <2>1. on[r] = r => on[t] # r
    BY <1>1 DEF IInv, Private
  <2> QED
    BY <1>0, <1>1, <2>1, ThreadNames DEF Started
<1>2. ASSUME t \in Run
      PROVE  /\ frames'[t] \in DFrames
             /\ status'[t] = "RUNNING" /\ pc'[t] \in {"walk", "notify"}
  <2>1. on[t] = t
    BY <1>0, <1>2 DEF IInv, OwnRun
  <2>2. frames[t] \in DFrames /\ status[t] = "RUNNING" /\ pc[t] \in {"walk", "notify"}
    BY <1>2, <2>1 DEF Started
  <2>3. /\ pc \in [Thread -> PC] /\ frames \in [Thread -> Frames]
    BY DEF IInv, TypeOK, Frames
  <2>4. ASSUME frames[t] # <<>>
        PROVE  Rest(frames[t]) \in DFrames /\ Current(t) \in Dispatching
    BY <2>2, <2>4, RestKeeps DEF DFrames, Current
  <2>5. CASE EnterAction(t)
    BY <2>2, <2>3, <2>4, <2>5 DEF EnterAction, At, Goto, inst
  <2>6. CASE NotifySuccess(t)
    BY <2>2, <2>3, <2>6 DEF NotifySuccess, Goto, inst
  <2>7. CASE SkipSignal(t)
    BY <2>1, <2>2, <2>7 DEF SkipSignal
  <2>8. CASE Fork(t)
    <3>1. /\ frames[t] # <<>> /\ Plan[Current(t)].type = "fork"
          /\ frames' = [frames EXCEPT ![t] = Push(Plan[Current(t)].to, Rest(frames[t]))]
          /\ status' = status /\ pc' = pc
      BY <2>8 DEF Fork, At, Current
    <3>2. Plan[Current(t)].to \in Seq(Dispatching)
      BY <2>4, <3>1 DEF DispatchFirst, Dispatching
    <3>3. Push(Plan[Current(t)].to, Rest(frames[t])) \in DFrames
      BY <2>4, <3>1, <3>2, PushKeeps DEF DFrames
    <3> QED
      BY <2>2, <2>3, <3>1, <3>3
  <2>9. ~(JoinRead(t) \/ EnterEnd(t) \/ EnterFail(t) \/ EndNodeThrows(t))
    BY <2>4 DEF JoinRead, EnterEnd, EnterFail, EndNodeThrows, At, Current, Dispatching
  <2>10. ~(JoinWrite(t) \/ SetEndStatus(t))
    BY <2>2 DEF JoinWrite, SetEndStatus
  <2> QED
    BY <2>5, <2>6, <2>7, <2>8, <2>9, <2>10 DEF ProcessNextNodes
<1> QED
  BY <1>1, <1>2 DEF Started

\* completeJobPlanNode changes no status but that of the node's run, which
\* has ended then, and no other thread's stack.
LEMMA CompleteFrame ==
  ASSUME IInv, NEW t \in {"rpc", "timer"}, NEW x \in Exec, NEW s, owner[x] \in Run,
         CompleteJobPlanNode(t, x, s)
  PROVE  /\ \A r \in Run : \/ status'[r] = status[r]
                           \/ r = owner[x] /\ status'[r] \in EndStatus
         /\ \A u \in Thread \ {t} : /\ frames'[u] = frames[u] /\ pc'[u] = pc[u]
                                    /\ on'[u] = on[u]
         /\ pc'[t] = "walk" /\ on'[t] = owner[x]
<1>1. /\ status \in [Run -> Status] /\ pc \in [Thread -> PC]
      /\ frames \in [Thread -> Frames] /\ on \in [Thread -> Run \cup {NoRun}]
  BY DEF IInv, TypeOK, Frames
<1>2. t \in Thread
  BY ThreadNames
<1>3. status' = status \/ status' = [status EXCEPT ![owner[x]] = "FAILED"]
  BY DEF CompleteJobPlanNode
<1>4. \E f : frames' = [frames EXCEPT ![t] = f]
  BY DEF CompleteJobPlanNode
<1>5. pc' = [pc EXCEPT ![t] = "walk"] /\ on' = [on EXCEPT ![t] = owner[x]]
  BY DEF CompleteJobPlanNode, Goto
<1> QED
  BY <1>1, <1>2, <1>3, <1>4, <1>5 DEF EndStatus

\* Every step keeps the starters at dispatching.
LEMMA StartedStep ==
  ASSUME DispatchFirst, IInv, Started, [Next]_vars
  PROVE  Started'
<1>t. /\ status \in [Run -> Status] /\ pc \in [Thread -> PC]
      /\ frames \in [Thread -> Frames] /\ on \in [Thread -> Run \cup {NoRun}]
  BY DEF IInv, TypeOK, Frames
<1>1. ASSUME NEW q \in Run, StartJobPlan(q) PROVE Started'
  <2>1. /\ status' = [status EXCEPT ![q] = "RUNNING"] /\ pc' = [pc EXCEPT ![q] = "walk"]
        /\ on' = [on EXCEPT ![q] = q]
    BY <1>1 DEF StartJobPlan, Goto
  <2>2. frames'[q] \in DFrames /\ \A r \in Run \ {q} : frames'[r] = frames[r]
    <3>1. CASE frames' = frames
      BY <3>1 DEF Started
    <3>2. CASE frames' # frames
      <4>1. PICK n \in Node : /\ Plan[n].type = "start"
                              /\ frames' = [frames EXCEPT ![q] = Push(Plan[n].to, <<>>)]
        BY <1>1, <3>2 DEF StartJobPlan, EnterStart
      <4>2. Plan[n].to \in Seq(Dispatching) /\ <<>> \in DFrames
        BY <4>1, EmptySeq DEF DispatchFirst, DFrames
      <4>3. Push(Plan[n].to, <<>>) \in DFrames
        BY <4>2, PushKeeps DEF DFrames
      <4> QED
        BY <1>t, <4>1, <4>3, ThreadNames
    <3> QED
      BY <3>1, <3>2
  <2>3. ASSUME NEW r \in Run, r # q
        PROVE  /\ frames'[r] \in DFrames
               /\ on'[r] = r => status'[r] = "RUNNING" /\ pc'[r] \in {"walk", "notify"}
    BY <1>t, <2>1, <2>2, <2>3, ThreadNames DEF Started
  <2>4. status'[q] = "RUNNING" /\ pc'[q] = "walk"
    BY <1>t, <2>1, ThreadNames
  <2> QED
    BY <2>2, <2>3, <2>4 DEF Started
<1>2. ASSUME NEW q \in Run, AddWorkflow(q) PROVE Started'
  <2>1. /\ UNCHANGED <<status, frames>> /\ pc' = [pc EXCEPT ![q] = "idle"]
        /\ on' = [on EXCEPT ![q] = NoRun]
    BY <1>2 DEF AddWorkflow, Goto
  <2>2. ASSUME NEW r \in Run, on'[r] = r PROVE on[r] = r /\ pc'[r] = pc[r]
    BY <1>t, <2>1, <2>2, ThreadNames
  <2> QED
    BY <2>1, <2>2, StartedFrame
<1>3. ASSUME NEW x \in Exec, HandleProgress(x) PROVE Started'
  <2>1. owner[x] \in Run /\ owner[x] \in workflows /\ CompleteJobPlanNode("rpc", x, answer[x])
    BY <1>3 DEF HandleProgress, IInv, TypeOK
  <2>2. on[owner[x]] # owner[x]
    BY <2>1 DEF IInv, Private
  <2>3. /\ \A r \in Run : status'[r] = status[r] \/ r = owner[x]
        /\ \A u \in Thread \ {"rpc"} : frames'[u] = frames[u] /\ pc'[u] = pc[u] /\ on'[u] = on[u]
    BY <2>1, CompleteFrame
  <2> QED
    BY <2>2, <2>3, StartedFrame, ThreadNames
<1>4. ASSUME NEW x \in Exec, TimeOutKill(x) PROVE Started'
  <2>1. /\ owner[x] \in Run /\ owner[x] = on["timer"]
        /\ CompleteJobPlanNode("timer", x, "RESULT_ERROR")
    BY <1>4, ThreadNames DEF TimeOutKill, IInv, ScanOwned, Located
  <2>2. on[owner[x]] # owner[x]
    BY <2>1, ThreadNames DEF IInv, Private
  <2>3. /\ \A r \in Run : status'[r] = status[r] \/ r = owner[x]
        /\ \A u \in Thread \ {"timer"} : frames'[u] = frames[u] /\ pc'[u] = pc[u] /\ on'[u] = on[u]
    BY <2>1, CompleteFrame
  <2> QED
    BY <2>2, <2>3, StartedFrame, ThreadNames
<1>5. CASE \/ \E r \in Run : TimerQuery(r)
           \/ \E x \in Exec : NotOverdue(x) \/ Overdue(x)
           \/ FinishProgress \/ FinishTimeOut
           \/ \E n \in Node : ExecuteOnce(n)
           \/ OnceUpdate
  <2>1. UNCHANGED <<status, frames>>
    BY <1>5 DEF TimerQuery, NotOverdue, Overdue, FinishProgress, FinishTimeOut, ExecuteOnce,
       OnceUpdate, inst
  <2>2. \E t \in EngineThread : \E l : pc' = [pc EXCEPT ![t] = l]
    BY <1>5 DEF TimerQuery, NotOverdue, Overdue, FinishProgress, FinishTimeOut, ExecuteOnce,
       OnceUpdate, ScanOn, Goto, EngineThread
  <2>3. on' = on \/ \E t \in EngineThread : \E q : on' = [on EXCEPT ![t] = q]
    BY <1>5 DEF TimerQuery, NotOverdue, Overdue, FinishProgress, FinishTimeOut, ExecuteOnce,
       OnceUpdate, ScanOn, EngineThread
  <2>4. \A r \in Run : r \notin EngineThread /\ r \in Thread
    BY ThreadNames DEF EngineThread
  <2>5. \A r \in Run : on'[r] = on[r] /\ pc'[r] = pc[r]
    BY <1>t, <2>2, <2>3, <2>4
  <2> QED
    BY <2>1, <2>5, StartedFrame
<1>6. CASE \/ \E x \in Exec : HandleOnce(x) \/ HandleForgotten(x) \/ Answer(x)
           \/ UNCHANGED vars
  <2>1. UNCHANGED <<status, frames, on, pc>>
    BY <1>6 DEF HandleOnce, HandleForgotten, Answer, vars, inst, local
  <2> QED
    BY <2>1, StartedFrame
<1> QED
  BY <1>1, <1>2, <1>3, <1>4, <1>5, <1>6, StartedWalk, NextCases

\* A step that changes neither the registry nor a status, and calls nobody
\* off.
LEMMA RegisteredFrame ==
  ASSUME IInv, Registered, UNCHANGED <<workflows, status>>,
         \A t \in {"rpc", "timer"} : pc[t] \in WalkPC => pc'[t] \in WalkPC /\ on'[t] = on[t],
         \A r \in Run : on'[r] = on[r]
  PROVE  Registered'
<1>1. workflows \subseteq Run
  BY DEF IInv, TypeOK
<1> QED
  BY <1>1 DEF Registered

\* Every step keeps the registry in order.
LEMMA RegisteredStep ==
  ASSUME IInv, Started, Registered, [Next]_vars
  PROVE  Registered'
<1>t. /\ status \in [Run -> Status] /\ pc \in [Thread -> PC]
      /\ on \in [Thread -> Run \cup {NoRun}] /\ workflows \subseteq Run
  BY DEF IInv, TypeOK
<1>s. /\ "RUNNING" \notin EndStatus
      /\ "idle" \notin WalkPC /\ "scan" \notin WalkPC /\ "walk" \in WalkPC
  BY DEF EndStatus, WalkPC
<1>1. ASSUME NEW q \in Run, StartJobPlan(q) PROVE Registered'
  <2>1. /\ status' = [status EXCEPT ![q] = "RUNNING"] /\ pc' = [pc EXCEPT ![q] = "walk"]
        /\ on' = [on EXCEPT ![q] = q] /\ workflows' = workflows
    BY <1>1 DEF StartJobPlan, Goto
  <2>2. \A t \in {"rpc", "timer"} : pc'[t] = pc[t] /\ on'[t] = on[t]
    BY <1>t, <2>1, ThreadNames
  <2>3. on'[q] = q /\ \A r \in Run \ {q} : status'[r] = status[r] /\ on'[r] = on[r]
    BY <1>t, <2>1, ThreadNames
  <2>4. status'[q] = "RUNNING"
    BY <1>t, <2>1
  <2>5. \A r \in Run : status'[r] = "RUNNING" => r \in workflows' \/ on'[r] = r
    BY <2>1, <2>3 DEF Registered
  <2>6. ASSUME NEW r \in workflows', status'[r] \in EndStatus
        PROVE  \E t \in {"rpc", "timer"} : on'[t] = r /\ pc'[t] \in WalkPC
    <3>1. r \in workflows /\ r \in Run /\ r # q
      BY <1>t, <1>s, <2>1, <2>4, <2>6
    <3>2. status[r] \in EndStatus
      BY <2>3, <2>6, <3>1
    <3> QED
      BY <2>2, <3>1, <3>2 DEF Registered
  <2> QED
    BY <2>5, <2>6 DEF Registered
<1>2. ASSUME NEW q \in Run, AddWorkflow(q) PROVE Registered'
  <2>1. /\ status' = status /\ pc' = [pc EXCEPT ![q] = "idle"]
        /\ on' = [on EXCEPT ![q] = NoRun] /\ workflows' = workflows \cup {q}
        /\ on[q] = q
    BY <1>2 DEF AddWorkflow, WalkDone, Goto, IInv, OwnRun, WalkPC
  <2>2. \A t \in {"rpc", "timer"} : pc'[t] = pc[t] /\ on'[t] = on[t]
    BY <1>t, <2>1, ThreadNames
  <2>3. \A r \in Run \ {q} : on'[r] = on[r]
    BY <1>t, <2>1, ThreadNames
  <2>4. status[q] \notin EndStatus
    BY <1>s, <2>1 DEF Started
  <2>5. \A r \in Run : status'[r] = "RUNNING" => r \in workflows' \/ on'[r] = r
    BY <2>1, <2>3 DEF Registered
  <2>6. ASSUME NEW r \in workflows', status'[r] \in EndStatus
        PROVE  \E t \in {"rpc", "timer"} : on'[t] = r /\ pc'[t] \in WalkPC
    <3>1. r \in workflows
      BY <2>1, <2>4, <2>6
    <3> QED
      BY <2>1, <2>2, <2>6, <3>1 DEF Registered
  <2> QED
    BY <2>5, <2>6 DEF Registered
<1>3. ASSUME NEW t \in Thread, ProcessNextNodes(t) PROVE Registered'
  <2>1. /\ pc[t] \in WalkPC /\ pc'[t] \in WalkPC /\ UNCHANGED <<workflows, on>>
        /\ \A u \in Thread \ {t} : pc'[u] = pc[u]
        /\ \A r \in Run : status'[r] = status[r] \/ (r = on[t] /\ status'[r] \in EndStatus)
    BY <1>3, WalkFrame
  <2>2. \A r \in Run : status'[r] = "RUNNING" => r \in workflows' \/ on'[r] = r
    BY <1>s, <2>1 DEF Registered
  <2>3. ASSUME NEW r \in workflows', status'[r] \in EndStatus
        PROVE  \E u \in {"rpc", "timer"} : on'[u] = r /\ pc'[u] \in WalkPC
    <3>1. r \in workflows /\ r \in Run
      BY <1>t, <2>1, <2>3
    <3>2. CASE status[r] \in EndStatus
      BY <2>1, <3>1, <3>2, ThreadNames DEF Registered
    <3>3. CASE status[r] \notin EndStatus
      <4>1. r = on[t]
        BY <2>1, <2>3, <3>1, <3>3
      <4>2. t # "web"
        BY <2>1 DEF IInv, Located
      <4>3. t \notin Run
        BY <2>1, <3>1, <4>1 DEF IInv, OwnRun, Private
      <4> QED
        BY <2>1, <4>1, <4>2, <4>3, ThreadNames
    <3> QED
      BY <3>2, <3>3
  <2> QED
    BY <2>2, <2>3 DEF Registered
<1>4. ASSUME NEW u \in {"rpc", "timer"}, NEW x \in Exec, NEW s, owner[x] \in Run,
             CompleteJobPlanNode(u, x, s), pc[u] \notin WalkPC, workflows' = workflows
      PROVE  Registered'
  <2>1. /\ \A r \in Run : status'[r] = status[r] \/ (r = owner[x] /\ status'[r] \in EndStatus)
        /\ \A t \in Thread \ {u} : pc'[t] = pc[t] /\ on'[t] = on[t]
        /\ pc'[u] \in WalkPC /\ on'[u] = owner[x]
    BY <1>4, <1>s, CompleteFrame
  <2>2. \A r \in Run : on'[r] = on[r]
    BY <2>1, ThreadNames
  <2>3. \A r \in Run : status'[r] = "RUNNING" => r \in workflows' \/ on'[r] = r
    BY <1>4, <1>s, <2>1, <2>2 DEF Registered
  <2>4. ASSUME NEW r \in workflows', status'[r] \in EndStatus
        PROVE  \E t \in {"rpc", "timer"} : on'[t] = r /\ pc'[t] \in WalkPC
    <3>1. CASE r = owner[x]
      BY <2>1, <3>1
    <3>2. CASE r # owner[x]
      <4>1. r \in workflows /\ status[r] \in EndStatus
        BY <1>t, <1>4, <2>1, <2>4, <3>2
      <4>2. PICK t \in {"rpc", "timer"} : on[t] = r /\ pc[t] \in WalkPC
        BY <4>1 DEF Registered
      <4>3. t # u /\ t \in Thread
        BY <1>4, <4>2, ThreadNames
      <4> QED
        BY <2>1, <4>2, <4>3
    <3> QED
      BY <3>1, <3>2
  <2> QED
    BY <2>3, <2>4 DEF Registered
<1>5. ASSUME NEW x \in Exec, HandleProgress(x) PROVE Registered'
  <2>1. /\ owner[x] \in Run /\ CompleteJobPlanNode("rpc", x, answer[x])
        /\ pc["rpc"] \notin WalkPC /\ workflows' = workflows
    BY <1>5, <1>t, <1>s DEF HandleProgress, Reported
  <2> QED
    BY <1>4, <2>1
<1>6. ASSUME NEW x \in Exec, TimeOutKill(x) PROVE Registered'
  <2>1. /\ owner[x] \in Run /\ CompleteJobPlanNode("timer", x, "RESULT_ERROR")
        /\ pc["timer"] \notin WalkPC /\ workflows' = workflows
    BY <1>6, <1>s, ThreadNames DEF TimeOutKill, IInv, ScanOwned, Located
  <2> QED
    BY <1>4, <2>1
<1>7. ASSUME NEW u \in {"rpc", "timer"}, workflows' = RemoveEnded(on[u]), status' = status,
             \A t \in Thread \ {u} : pc'[t] = pc[t] /\ on'[t] = on[t]
      PROVE  Registered'
  <2>1. \A r \in Run : on'[r] = on[r]
    BY <1>7, ThreadNames
  <2>2. /\ workflows' \subseteq workflows
        /\ \A r \in workflows \ workflows' : status[r] \in EndStatus
        /\ \A r \in workflows' : r = on[u] => status[r] \notin EndStatus
    BY <1>7 DEF RemoveEnded
  <2>3. \A r \in Run : status'[r] = "RUNNING" => r \in workflows' \/ on'[r] = r
    BY <1>7, <1>s, <2>1, <2>2 DEF Registered
  <2>4. ASSUME NEW r \in workflows', status'[r] \in EndStatus
        PROVE  \E t \in {"rpc", "timer"} : on'[t] = r /\ pc'[t] \in WalkPC
    <3>1. PICK t \in {"rpc", "timer"} : on[t] = r /\ pc[t] \in WalkPC
      BY <1>7, <2>2, <2>4 DEF Registered
    <3>2. t # u /\ t \in Thread
      BY <1>7, <2>2, <2>4, <3>1, ThreadNames
    <3> QED
      BY <1>7, <3>1, <3>2
  <2> QED
    BY <2>3, <2>4 DEF Registered
<1>8. CASE FinishProgress
  <2>1. /\ workflows' = RemoveEnded(on["rpc"]) /\ status' = status
        /\ pc' = [pc EXCEPT !["rpc"] = "idle"] /\ on' = [on EXCEPT !["rpc"] = NoRun]
    BY <1>8 DEF FinishProgress, Goto
  <2>2. \A t \in Thread \ {"rpc"} : pc'[t] = pc[t] /\ on'[t] = on[t]
    BY <1>t, <2>1
  <2> QED
    BY <1>7, <2>1, <2>2
<1>9. CASE FinishTimeOut
  <2>1. /\ workflows' = RemoveEnded(on["timer"]) /\ status' = status
        /\ \E l : pc' = [pc EXCEPT !["timer"] = l]
        /\ on' = on \/ on' = [on EXCEPT !["timer"] = NoRun]
    BY <1>9 DEF FinishTimeOut, ScanOn, Goto
  <2>2. \A t \in Thread \ {"timer"} : pc'[t] = pc[t] /\ on'[t] = on[t]
    BY <1>t, <2>1
  <2> QED
    BY <1>7, <2>1, <2>2
<1>10. CASE \/ \E r \in Run : TimerQuery(r)
            \/ \E x \in Exec : NotOverdue(x) \/ Overdue(x)
  <2>1. /\ UNCHANGED <<workflows, status>> /\ pc["timer"] \in {"idle", "scan"}
        /\ \E l : pc' = [pc EXCEPT !["timer"] = l]
        /\ on' = on \/ \E q : on' = [on EXCEPT !["timer"] = q]
    BY <1>10 DEF TimerQuery, NotOverdue, Overdue, ScanOn, Goto, inst
  <2>2. \A t \in Thread \ {"timer"} : pc'[t] = pc[t] /\ on'[t] = on[t]
    BY <1>t, <2>1
  <2>3. pc["timer"] \notin WalkPC
    BY <1>s, <2>1
  <2> QED
    BY <2>1, <2>2, <2>3, RegisteredFrame, ThreadNames
<1>11. CASE (\E n \in Node : ExecuteOnce(n)) \/ OnceUpdate
  <2>1. UNCHANGED <<workflows, status, on>> /\ \E l : pc' = [pc EXCEPT !["web"] = l]
    BY <1>11 DEF ExecuteOnce, OnceUpdate, Goto, inst
  <2>2. pc'["rpc"] = pc["rpc"] /\ pc'["timer"] = pc["timer"]
    BY <1>t, <2>1, ThreadNames
  <2> QED
    BY <2>1, <2>2, RegisteredFrame
<1>12. CASE \/ \E x \in Exec : HandleOnce(x) \/ HandleForgotten(x) \/ Answer(x)
            \/ UNCHANGED vars
  <2>1. UNCHANGED <<workflows, status, on, pc>>
    BY <1>12 DEF HandleOnce, HandleForgotten, Answer, vars, inst, local
  <2> QED
    BY <2>1, RegisteredFrame
<1> QED
  BY <1>1, <1>2, <1>3, <1>5, <1>6, <1>8, <1>9, <1>10, <1>11, <1>12, NextCases

\* Only addWorkflow adds to the registry, and what it adds has not ended.
LEMMA AddedRuns ==
  ASSUME IInv, Started, [Next]_vars, NEW r \in Run, r \in workflows' \ workflows
  PROVE  status[r] \notin EndStatus
<1>1. ASSUME NEW q \in Run, AddWorkflow(q) PROVE status[r] \notin EndStatus
  <2>1. r = q /\ on[q] = q
    BY <1>1 DEF AddWorkflow, WalkDone, IInv, OwnRun, WalkPC
  <2> QED
    BY <2>1 DEF Started, EndStatus
<1>2. ASSUME NEW t \in Thread, ProcessNextNodes(t) PROVE workflows' = workflows
  BY <1>2, WalkFrame
<1>3. CASE \/ \E q \in Run : StartJobPlan(q) \/ TimerQuery(q)
           \/ \E x \in Exec : \/ HandleOnce(x) \/ HandleForgotten(x) \/ HandleProgress(x)
                              \/ NotOverdue(x) \/ Overdue(x) \/ TimeOutKill(x) \/ Answer(x)
           \/ (\E n \in Node : ExecuteOnce(n)) \/ OnceUpdate \/ UNCHANGED vars
  BY <1>3 DEF StartJobPlan, TimerQuery, HandleOnce, HandleForgotten, HandleProgress, NotOverdue,
     Overdue, TimeOutKill, Answer, ExecuteOnce, OnceUpdate, vars, inst
<1>4. CASE FinishProgress \/ FinishTimeOut
  BY <1>4 DEF FinishProgress, FinishTimeOut, RemoveEnded
<1> QED
  BY <1>1, <1>2, <1>3, <1>4, NextCases

\* The registry is in order from the beginning.
LEMMA RegistryInit == Init => Started /\ Registered
<1>1. <<>> \in DFrames
  BY EmptySeq DEF DFrames
<1> QED
  BY <1>1, ThreadNames DEF Init, Started, Registered, EndStatus

\* And it stays so.
LEMMA RegistryInvariant ==
  ASSUME DispatchFirst
  PROVE  Spec => [](IInv /\ Started /\ Registered)
<1>1. IInv /\ Started /\ [Next]_vars => Started'
  BY StartedStep
<1>2. IInv /\ Started /\ Registered /\ [Next]_vars => Registered'
  BY RegisteredStep
<1> QED
  BY <1>1, <1>2, RegistryInit, Invariance, PTL DEF Spec

\* addWorkflow and removeWorkflow: when no thread works on a run, it is in
\* the registry exactly if it has started and not ended, with any number of
\* runs, and with timeouts, failures of the table and late reports.
THEOREM RegistryIsExact ==
  ASSUME DispatchFirst
  PROVE  Spec => []RegistryExact
<1>1. IInv /\ Started /\ Registered => RegistryExact
  <2> SUFFICES ASSUME IInv, Started, Registered, NEW r \in Run, \A t \in Thread : on[t] # r
               PROVE  r \in workflows <=> status[r] = "RUNNING"
    BY DEF RegistryExact
  <2>1. status[r] = "RUNNING" => r \in workflows
    BY ThreadNames DEF Registered
  <2>2. r \in workflows => status[r] \notin EndStatus /\ status[r] # "PREP"
    BY ThreadNames DEF Registered, IInv, Private
  <2>3. status[r] \in {"PREP", "RUNNING"} \cup EndStatus
    BY DEF IInv, TypeOK, Status
  <2> QED
    BY <2>1, <2>2, <2>3
<1> QED
  BY <1>1, RegistryInvariant, PTL

\* addWorkflow: a run that was removed does not come back, because the only
\* thread that registers a run is its starter, and only while it goes on.
THEOREM StaysRemoved ==
  ASSUME DispatchFirst
  PROVE  Spec => NeverReregistered
<1>1. IInv /\ IInv' /\ Started /\ [Next]_vars
        => [\A r \in Run : r \in workflows' \ workflows => status[r] \notin EndStatus]_workflows
  BY AddedRuns
<1> QED
  BY <1>1, RegistryInvariant, PTL DEF Spec, NeverReregistered

-----------------------------------------------------------------------------
(* What comes after the end of a run.  Only a fork has more than one path,  *)
(* and with DispatchFirst its paths begin with actions: so the RPC thread   *)
(* has nothing left to walk when it comes to a join, an end or a fail node. *)

\* A stack with one name.
Single(fs) == \E n \in Node : fs = << <<n>> >>

\* The RPC thread walks on only while its run goes on.
LastSteps ==
  pc["rpc"] \in WalkPC =>
    /\ pc["rpc"] # "walk" \/ frames["rpc"] # <<>> => status[on["rpc"]] = "RUNNING"
    /\ frames["rpc"] \in DFrames \/ Single(frames["rpc"])
    /\ pc["rpc"] \in {"setSucceeded", "setFailed"} => frames["rpc"] = <<>>
    /\ pc["rpc"] = "joinSet" => /\ Single(frames["rpc"])
                                /\ Plan[Current("rpc")].type = "join"

\* Nothing is left of a stack with one name.
LEMMA SingleRest ==
  ASSUME NEW fs, Single(fs)
  PROVE  Rest(fs) = <<>> /\ Tail(fs) = <<>> /\ fs # <<>>
<1>1. PICK n \in Node : fs = << <<n>> >>
  BY DEF Single
<1> QED
  BY <1>1 DEF Rest

\* A call for at most one name on an empty stack.
LEMMA SinglePush ==
  ASSUME NEW names \in Seq(Node), Len(names) <= 1
  PROVE  Push(names, <<>>) = <<>> \/ Single(Push(names, <<>>))
<1>1. CASE names = <<>>
  BY <1>1 DEF Push
<1>2. CASE names # <<>>
  <2>0. Len(names) \in Nat /\ Len(names) # 0
    BY <1>2, EmptySeq, LenProperties
  <2>1. Len(names) = 1
    BY <2>0
  <2>2. names = <<names[1]>> /\ names[1] \in Node
    BY <2>1
  <2>3. Push(names, <<>>) = <<names>>
    BY <1>2 DEF Push
  <2> QED
    BY <2>2, <2>3 DEF Single
<1> QED
  BY <1>1, <1>2

\* ActionNodeHandler.exit returns at most one name.
LEMMA ExitToShort ==
  ASSUME NEW n \in Node, NEW s
  PROVE  Len(ExitTo(n, s)) <= 1
<1>1. Len(Plan[n].ok) <= 1 /\ Len(Plan[n].error) <= 1
  BY WorkflowAssumption
<1>2. CASE s = "RESULT_SUCCESS"
  BY <1>1, <1>2 DEF ExitTo
<1>3. CASE s = "RESULT_ERROR"
  BY <1>1, <1>3 DEF ExitTo
<1>4. CASE s \notin {"RESULT_SUCCESS", "RESULT_ERROR"}
  <2>1. ExitTo(n, s) = <<>>
    BY <1>4 DEF ExitTo
  <2> QED
    BY <2>1
<1> QED
  BY <1>2, <1>3, <1>4

\* A step that leaves the RPC thread and its run alone.
LEMMA LastStepsFrame ==
  ASSUME LastSteps, pc'["rpc"] = pc["rpc"],
         pc["rpc"] \in WalkPC => /\ frames'["rpc"] = frames["rpc"] /\ on'["rpc"] = on["rpc"]
                                 /\ status'[on["rpc"]] = status[on["rpc"]]
  PROVE  LastSteps'
BY DEF LastSteps, Single, Current

\* The walk of the RPC thread.
LEMMA LastStepsWalk ==
  ASSUME DispatchFirst, IInv, LastSteps, ProcessNextNodes("rpc")
  PROVE  LastSteps'
<1> DEFINE t == "rpc"
           r == on[t]
<1>t. /\ pc \in [Thread -> PC] /\ frames \in [Thread -> Frames] /\ status \in [Run -> Status]
      /\ t \in Thread
  BY ThreadNames DEF IInv, TypeOK, Frames
<1>0. pc[t] \in WalkPC /\ r \in Run /\ on' = on /\ pc'[t] \in WalkPC
  BY <1>t, WalkFrame
<1>1. /\ pc[t] # "walk" \/ frames[t] # <<>> => status[r] = "RUNNING"
      /\ frames[t] \in DFrames \/ Single(frames[t])
      /\ pc[t] \in {"setSucceeded", "setFailed"} => frames[t] = <<>>
      /\ pc[t] = "joinSet" => Single(frames[t]) /\ Plan[Current(t)].type = "join"
  BY <1>0 DEF LastSteps
<1>2. <<>> \in DFrames
  BY EmptySeq DEF DFrames
<1>3. ASSUME frames[t] # <<>>
      PROVE  /\ Rest(frames[t]) \in DFrames
             /\ Single(frames[t]) \/ Current(t) \in Dispatching
             /\ Current(t) \in Node
  <2>1. CASE frames[t] \in DFrames
    <3>1. Rest(frames[t]) \in DFrames /\ Head(Head(frames[t])) \in Dispatching
      BY <1>3, <2>1, RestKeeps DEF DFrames
    <3> QED
      BY <3>1 DEF Dispatching, Current
  <2>2. CASE Single(frames[t])
    <3>1. Current(t) \in Node
      BY <1>3, <1>t, CurrentType DEF IInv
    <3> QED
      BY <1>2, <2>2, <3>1, SingleRest
  <2> QED
    BY <1>1, <2>1, <2>2
<1>4. ASSUME frames[t] # <<>>, Plan[Current(t)].type \in {"join", "end", "fail"}
      PROVE  Single(frames[t]) /\ Rest(frames[t]) = <<>> /\ Tail(frames[t]) = <<>>
  BY <1>3, <1>4, SingleRest DEF Dispatching
<1> SUFFICES
      /\ pc'[t] # "walk" \/ frames'[t] # <<>> => status'[r] = "RUNNING"
      /\ frames'[t] \in DFrames \/ Single(frames'[t])
      /\ pc'[t] \in {"setSucceeded", "setFailed"} => frames'[t] = <<>>
      /\ pc'[t] = "joinSet" => Single(frames'[t]) /\ Plan[Current(t)'].type = "join"
  BY <1>0 DEF LastSteps, Single
<1>5. CASE EnterAction(t)
  <2>1. frames[t] # <<>> /\ frames'[t] = Rest(frames[t]) /\ pc'[t] = "notify" /\ status' = status
    BY <1>5, <1>t DEF EnterAction, At, Goto, inst
  <2> QED
    BY <1>1, <1>3, <2>1
<1>6. CASE NotifySuccess(t)
  <2>1. pc[t] = "notify" /\ frames' = frames /\ pc'[t] = "walk" /\ status' = status
    BY <1>6, <1>t DEF NotifySuccess, Goto, inst
  <2> QED
    BY <1>1, <2>1
<1>7. CASE SkipSignal(t)
  BY <1>1, <1>7 DEF SkipSignal, At
<1>8. CASE Fork(t)
  <2>1. /\ frames[t] # <<>> /\ Plan[Current(t)].type = "fork" /\ pc[t] = "walk" /\ pc' = pc
        /\ frames'[t] = Push(Plan[Current(t)].to, Rest(frames[t])) /\ status' = status
    BY <1>8, <1>t DEF Fork, At, Current
  <2>2. Plan[Current(t)].to \in Seq(Dispatching)
    BY <1>3, <2>1 DEF DispatchFirst
  <2>3. frames'[t] \in DFrames
    BY <1>3, <2>1, <2>2, PushKeeps DEF DFrames
  <2> QED
    BY <1>1, <2>1, <2>3
<1>9. CASE JoinRead(t)
  <2>1. frames[t] # <<>> /\ Plan[Current(t)].type = "join" /\ pc[t] = "walk"
    BY <1>9 DEF JoinRead, At, Current
  <2>2. \/ frames'[t] = Rest(frames[t]) /\ pc' = pc
        \/ frames' = frames /\ pc'[t] = "joinSet" /\ status' = status
    BY <1>9, <1>t DEF JoinRead, Goto
  <2>3. frames' = frames => Current(t)' = Current(t)
    BY DEF Current
  <2> QED
    BY <1>1, <1>2, <1>4, <2>1, <2>2, <2>3
<1>10. CASE JoinWrite(t)
  <2>1. pc[t] = "joinSet" /\ pc'[t] = "walk" /\ status' = status
    BY <1>10, <1>t DEF JoinWrite, Goto
  <2>2. Single(frames[t]) /\ Rest(frames[t]) = <<>> /\ frames[t] # <<>>
    BY <1>1, <2>1, SingleRest
  <2>3. frames'[t] = <<>> \/ frames'[t] = Push(Plan[Current(t)].to, <<>>)
    BY <1>10, <1>t, <2>2 DEF JoinWrite
  <2>4. Current(t) \in Node /\ Plan[Current(t)].type # "fork"
    BY <1>1, <1>3, <2>1, <2>2
  <2>5. Plan[Current(t)].to \in Seq(Node) /\ Len(Plan[Current(t)].to) <= 1
    BY <2>4, PlanType, WorkflowAssumption
  <2>6. frames'[t] = <<>> \/ Single(frames'[t])
    BY <2>3, <2>5, SinglePush
  <2> QED
    BY <1>1, <1>2, <2>1, <2>6
<1>11. CASE EnterEnd(t) \/ EnterFail(t)
  <2>1. /\ frames[t] # <<>> /\ Plan[Current(t)].type \in {"end", "fail"} /\ status' = status
        /\ frames'[t] = Rest(frames[t]) /\ pc'[t] \in {"setSucceeded", "setFailed"}
    BY <1>11, <1>t DEF EnterEnd, EnterFail, At, Current, Goto
  <2> QED
    BY <1>1, <1>2, <1>4, <2>1
<1>12. CASE EndNodeThrows(t)
  <2>1. /\ frames[t] # <<>> /\ Plan[Current(t)].type \in {"end", "fail"}
        /\ pc[t] = "walk" /\ pc' = pc /\ frames'[t] = Tail(frames[t])
    BY <1>12, <1>t DEF EndNodeThrows, At, Current
  <2> QED
    BY <1>2, <1>4, <2>1
<1>13. CASE SetEndStatus(t)
  <2>1. pc[t] \in {"setSucceeded", "setFailed"} /\ frames' = frames /\ pc'[t] = "walk"
    BY <1>13, <1>t DEF SetEndStatus, Goto
  <2> QED
    BY <1>1, <2>1
<1> QED
  BY <1>5, <1>6, <1>7, <1>8, <1>9, <1>10, <1>11, <1>12, <1>13 DEF ProcessNextNodes

\* In a timerless engine a report is only handled for a run that goes on.
LEMMA HandledRuns ==
  ASSUME IInv, NoTimer, Registered, NEW x \in Exec, HandleProgress(x)
  PROVE  owner[x] \in Run /\ status[owner[x]] = "RUNNING" /\ node[x] \in Node
<1>1. owner[x] \in workflows /\ owner[x] \in Run /\ pc["rpc"] = "idle"
  BY DEF HandleProgress, Reported, IInv, TypeOK
<1>2. status[owner[x]] # "PREP"
  BY <1>1 DEF IInv, Private
<1>3. status[owner[x]] \notin EndStatus
  BY <1>1 DEF Registered, NoTimer, WalkPC
<1>4. status[owner[x]] \in {"PREP", "RUNNING"} \cup EndStatus
  BY <1>1 DEF IInv, TypeOK, Status
<1>5. node[x] \in Node
  BY <1>1, ThreadNames DEF IInv, TypeOK, ScanOwned
<1> QED
  BY <1>1, <1>2, <1>3, <1>4, <1>5

\* Every step keeps the RPC thread from walking on.
LEMMA LastStepsStep ==
  ASSUME DispatchFirst, IInv, NoTimer, Registered, LastSteps, [Next]_vars
  PROVE  LastSteps'
<1>t. /\ status \in [Run -> Status] /\ pc \in [Thread -> PC]
      /\ frames \in [Thread -> Frames] /\ on \in [Thread -> Run \cup {NoRun}]
  BY DEF IInv, TypeOK, Frames
<1>o. pc["rpc"] \in WalkPC => on["rpc"] \in Run
  BY ThreadNames DEF IInv, Located
<1>1. ASSUME NEW q \in Run, StartJobPlan(q) \/ AddWorkflow(q) PROVE LastSteps'
  <2>1. /\ status' = status \/ (status[q] = "PREP" /\ status' = [status EXCEPT ![q] = "RUNNING"])
        /\ \E l : pc' = [pc EXCEPT ![q] = l]
        /\ \E p : on' = [on EXCEPT ![q] = p]
        /\ frames' = frames \/ \E f : frames' = [frames EXCEPT ![q] = f]
    BY <1>1 DEF StartJobPlan, AddWorkflow, EnterStart, Goto
  <2>2. pc'["rpc"] = pc["rpc"] /\ on'["rpc"] = on["rpc"] /\ frames'["rpc"] = frames["rpc"]
    BY <1>t, <2>1, ThreadNames
  <2>3. status[q] = "PREP" => on["rpc"] # q
    BY ThreadNames DEF IInv, Private
  <2>4. pc["rpc"] \in WalkPC => status'[on["rpc"]] = status[on["rpc"]]
    BY <1>t, <1>o, <2>1, <2>3
  <2> QED
    BY <2>2, <2>4, LastStepsFrame
<1>2. ASSUME NEW t \in Thread, ProcessNextNodes(t) PROVE LastSteps'
  <2>1. CASE t = "rpc"
    BY <1>2, <2>1, LastStepsWalk
  <2>2. CASE t # "rpc"
    <3>1. /\ pc[t] \in WalkPC /\ on' = on
          /\ pc'["rpc"] = pc["rpc"] /\ frames'["rpc"] = frames["rpc"]
          /\ \A r \in Run : status'[r] = status[r] \/ r = on[t]
      BY <1>2, <2>2, WalkFrame, ThreadNames
    <3>2. t \in Run
      BY <2>2, <3>1, ThreadNames DEF IInv, Located, NoTimer, WalkPC
    <3>3. on[t] = t /\ on["rpc"] # t
      BY <2>2, <3>1, <3>2, ThreadNames DEF IInv, OwnRun, Private
    <3> QED
      BY <1>o, <3>1, <3>3, LastStepsFrame
  <2> QED
    BY <2>1, <2>2
<1>3. ASSUME NEW x \in Exec, HandleProgress(x) PROVE LastSteps'
  <2> DEFINE f == Push(ExitTo(node[x], answer[x]), <<>>)
  <2>1. owner[x] \in Run /\ status[owner[x]] = "RUNNING" /\ node[x] \in Node
    BY <1>3, HandledRuns
  <2>2. /\ frames'["rpc"] = <<>> \/ (frames'["rpc"] = f /\ status' = status)
        /\ pc'["rpc"] = "walk" /\ on'["rpc"] = owner[x]
    BY <1>3, <1>t, ThreadNames DEF HandleProgress, CompleteJobPlanNode, Goto
  <2>3. f = <<>> \/ Single(f)
    BY <2>1, ExitToType, ExitToShort, SinglePush
  <2>4. <<>> \in DFrames
    BY EmptySeq DEF DFrames
  <2> HIDE DEF f
  <2>5. frames'["rpc"] \in DFrames \/ Single(frames'["rpc"])
    BY <2>2, <2>3, <2>4
  <2> QED
    BY <2>1, <2>2, <2>5 DEF LastSteps, Single
<1>4. CASE FinishProgress
  <2>1. pc'["rpc"] = "idle"
    BY <1>4, <1>t, ThreadNames DEF FinishProgress, Goto
  <2> QED
    BY <2>1 DEF LastSteps, WalkPC
<1>5. CASE \/ \E r \in Run : TimerQuery(r)
           \/ \E x \in Exec : NotOverdue(x) \/ Overdue(x) \/ TimeOutKill(x)
           \/ FinishTimeOut
  <2>1. PICK r \in Run : TimerQuery(r)
    BY <1>5 DEF NotOverdue, Overdue, TimeOutKill, FinishTimeOut, WalkDone, NoTimer
  <2>2. /\ UNCHANGED <<status, frames>> /\ pc' = [pc EXCEPT !["timer"] = "scan"]
        /\ on' = [on EXCEPT !["timer"] = r]
    BY <2>1 DEF TimerQuery, Goto, inst
  <2>3. pc'["rpc"] = pc["rpc"] /\ on'["rpc"] = on["rpc"]
    BY <1>t, <2>2, ThreadNames
  <2> QED
    BY <2>2, <2>3, LastStepsFrame
<1>6. CASE (\E n \in Node : ExecuteOnce(n)) \/ OnceUpdate
  <2>1. UNCHANGED <<status, frames, on>> /\ \E l : pc' = [pc EXCEPT !["web"] = l]
    BY <1>6 DEF ExecuteOnce, OnceUpdate, Goto, inst
  <2>2. pc'["rpc"] = pc["rpc"]
    BY <1>t, <2>1, ThreadNames
  <2> QED
    BY <2>1, <2>2, LastStepsFrame
<1>7. CASE \/ \E x \in Exec : HandleOnce(x) \/ HandleForgotten(x) \/ Answer(x)
           \/ UNCHANGED vars
  <2>1. UNCHANGED <<status, frames, on, pc>>
    BY <1>7 DEF HandleOnce, HandleForgotten, Answer, vars, inst, local
  <2> QED
    BY <2>1, LastStepsFrame
<1> QED
  BY <1>1, <1>2, <1>3, <1>4, <1>5, <1>6, <1>7, NextCases

\* A step of the walk that changes a status or dispatches an execution is for
\* a run that goes on.
LEMMA WalkRuns ==
  ASSUME IInv, NoTimer, Started, LastSteps, NEW t \in Thread, ProcessNextNodes(t)
  PROVE  UNCHANGED <<status, owner>> \/ status[on[t]] = "RUNNING"
<1>0. pc[t] \in WalkPC /\ on[t] \in Run
  BY WalkFrame
<1>1. CASE t \in Run
  BY <1>0, <1>1 DEF IInv, OwnRun, Started
<1>2. CASE t \notin Run
  <2>1. t = "rpc"
    BY <1>0, <1>2, ThreadNames DEF IInv, Located, NoTimer, WalkPC
  <2>2. pc[t] # "walk" \/ frames[t] # <<>> => status[on[t]] = "RUNNING"
    BY <1>0, <2>1 DEF LastSteps
  <2>3. CASE \/ EnterAction(t) \/ JoinRead(t) \/ EndNodeThrows(t) \/ SetEndStatus(t)
    BY <2>2, <2>3 DEF EnterAction, JoinRead, EndNodeThrows, SetEndStatus, At
  <2>4. CASE \/ NotifySuccess(t) \/ SkipSignal(t) \/ Fork(t) \/ JoinWrite(t)
             \/ EnterEnd(t) \/ EnterFail(t)
    BY <2>4 DEF NotifySuccess, SkipSignal, Fork, JoinWrite, EnterEnd, EnterFail, inst, execs
  <2> QED
    BY <2>3, <2>4 DEF ProcessNextNodes
<1> QED
  BY <1>1, <1>2

\* No step changes the status of a run that has ended, or gives it an
\* execution.
LEMMA EndedStep ==
  ASSUME IInv, NoTimer, Started, Registered, LastSteps, [Next]_vars,
         NEW r \in Run, status[r] \in EndStatus
  PROVE  /\ status'[r] = status[r]
         /\ \A x \in Exec : owner'[x] = r => owner[x] = r
<1>t. status \in [Run -> Status] /\ owner \in [Exec -> Run \cup {NoRun}]
  BY DEF IInv, TypeOK
<1>s. status[r] # "RUNNING" /\ status[r] # "PREP"
  BY DEF EndStatus
<1> DEFINE Kept == status'[r] = status[r] /\ \A x \in Exec : owner'[x] = r => owner[x] = r
<1>1. ASSUME NEW q \in Run, StartJobPlan(q) PROVE Kept
  BY <1>1, <1>t, <1>s DEF StartJobPlan, execs
<1>2. ASSUME NEW t \in Thread, ProcessNextNodes(t) PROVE Kept
  <2>1. CASE UNCHANGED <<status, owner>>
    BY <2>1
  <2>2. CASE status[on[t]] = "RUNNING"
    <3>1. r # on[t]
      BY <1>s, <2>2
    <3>2. status'[r] = status[r]
      BY <1>2, <3>1, WalkFrame
    <3>3. owner' = owner \/ owner' = [owner EXCEPT ![Fresh] = on[t]]
      BY <1>2 DEF ProcessNextNodes, EnterAction, executeXJob, NotifySuccess, SkipSignal, Fork,
         JoinRead, JoinWrite, EnterEnd, EnterFail, EndNodeThrows, SetEndStatus, execs
    <3> QED
      BY <1>t, <3>1, <3>2, <3>3
  <2> QED
    BY <1>2, <2>1, <2>2, WalkRuns
<1>3. ASSUME NEW x \in Exec, HandleProgress(x) PROVE Kept
  <2>1. owner[x] \in Run /\ owner[x] # r
    BY <1>3, <1>s, HandledRuns
  <2>2. owner' = owner /\ CompleteJobPlanNode("rpc", x, answer[x])
    BY <1>3 DEF HandleProgress
  <2>3. status'[r] = status[r]
    BY <2>1, <2>2, CompleteFrame
  <2> QED
    BY <2>2, <2>3
<1>4. ASSUME NEW n \in Node, ExecuteOnce(n) PROVE Kept
  BY <1>4, <1>t, ThreadNames DEF ExecuteOnce, executeXJob, inst
<1>5. CASE \E x \in Exec : TimeOutKill(x)
  BY <1>5 DEF TimeOutKill, NoTimer
<1>6. CASE \/ \E q \in Run : AddWorkflow(q) \/ TimerQuery(q)
           \/ \E x \in Exec : \/ HandleOnce(x) \/ HandleForgotten(x)
                              \/ NotOverdue(x) \/ Overdue(x) \/ Answer(x)
           \/ FinishProgress \/ FinishTimeOut \/ OnceUpdate \/ UNCHANGED vars
  BY <1>6 DEF AddWorkflow, TimerQuery, HandleOnce, HandleForgotten, NotOverdue, Overdue, Answer,
     FinishProgress, FinishTimeOut, OnceUpdate, vars, inst, execs
<1> QED
  BY <1>1, <1>2, <1>3, <1>4, <1>5, <1>6, NextCases

\* The isEndState checks and removeWorkflow: as long as nothing times out, a
\* run that has ended keeps its status, and no job is dispatched for it.
THEOREM EndIsFinal ==
  ASSUME "timer" \notin Features, DispatchFirst
  PROVE  Spec => EndedIsFinal
<1>1. Init => LastSteps
  BY ThreadNames DEF Init, LastSteps, WalkPC
<1>2. IInv /\ NoTimer /\ Registered /\ LastSteps /\ [Next]_vars => LastSteps'
  BY LastStepsStep
<1>3. IInv /\ NoTimer /\ Started /\ Registered /\ LastSteps /\ [Next]_vars
        => [\A r \in Run : status[r] \in EndStatus =>
              /\ status'[r] = status[r]
              /\ \A x \in Exec : owner'[x] = r => owner[x] = r]_<<status, owner>>
  BY EndedStep
<1> QED
  BY <1>1, <1>2, <1>3, RegistryInvariant, TimerSleeps, PTL DEF Spec, EndedIsFinal
=============================================================================
