------------------------------ MODULE Workflow ------------------------------
(***************************************************************************)
(* The workflow runtime of the hella engine: LiteWorkflowInstance walks a  *)
(* plan graph of start, action, fork, join, end and fail nodes.  It is     *)
(* driven by four kinds of threads that share the instances, the registry  *)
(* of WorkflowContext and the XJOB_STATE table:                            *)
(*   - a starter thread per run (Quartz worker, event consumer or web):    *)
(*     DefaultJobPlanManager.startJobPlan;                                 *)
(*   - the RPC thread: DefaultJobStateManager.handlejobProgress, one       *)
(*     progress report at a time (sendHeartbeat is synchronized);          *)
(*   - the timer thread: autoTimeOutHandlejobProgress;                     *)
(*   - a web thread that executes a single node (executeJobPlanNode).      *)
(* A step is a stretch of code that no other thread can observe half-way.  *)
(***************************************************************************)
EXTENDS Naturals, Sequences

CONSTANTS
  Node,         \* the names of the plan's nodes
  Plan,         \* Plan[n]: the JobPlanNode called n (see NodeDef)
  IgnoreError,  \* the plan's ignoreError attribute
  Run,          \* the runs of the plan; r also names the thread that starts r
  Exec,         \* identities of executions: an event ID and its XJOB_STATE row
  Outcome,      \* the result states the executors may report
  Features      \* which of "timer", "once", "dbfail" this instance includes

NoRun  == "no run"
NoNode == "no node"
NoExec == "no exec"

EngineThread == {"rpc", "timer", "web"}
Thread == Run \cup EngineThread

NodeType  == {"start", "action", "fork", "join", "end", "fail"}
\* A name that getNode does not find is skipped, so every transition is a
\* sequence of names: one per path of a fork, at most one otherwise.
NodeDef == [type: NodeType, to: Seq(Node), ok: Seq(Node), error: Seq(Node),
            peer: Node \cup {NoNode}, redo: Nat, hard: BOOLEAN]

RunningState == {"INIT", "NOTIFY_SUCCESS"}
ResultState  == {"DISPATCH_FAIL", "RESULT_SUCCESS", "RESULT_ERROR"}
FailState    == {"DISPATCH_FAIL", "RESULT_ERROR"}
NoRow        == "no row"
EndStatus    == {"SUCCEEDED", "FAILED"}
Status       == {"PREP", "RUNNING"} \cup EndStatus

ASSUME WorkflowAssumption ==
  /\ Plan \in [Node -> NodeDef]
  /\ IgnoreError \in BOOLEAN
  /\ Outcome \subseteq ResultState
  /\ Features \subseteq {"timer", "once", "dbfail"}
  /\ Run \cap (EngineThread \cup {NoRun}) = {}
  /\ NoNode \notin Node /\ NoExec \notin Exec
  /\ \A n \in Node : Plan[n].type \in {"fork", "join"} => Plan[n].peer \in Node
  /\ \A n \in Node : Plan[n].type # "fork" => Len(Plan[n].to) <= 1
  /\ \A n \in Node : Len(Plan[n].ok) <= 1 /\ Len(Plan[n].error) <= 1

VARIABLES
  status,     \* status[r]: LiteWorkflowInstance.status
  forkCount,  \* forkCount[r][j]: the fork/join variable of join j, 0 if unset
  workflows,  \* the keys of WorkflowContext.workflowsMap
  owner,      \* owner[x]: the run that execution x belongs to
  node,       \* node[x]: the node that x executes, NoNode while x is unused
  row,        \* row[x]: jobPlanNodeState of x's XJOB_STATE row
  info,       \* the keys of WorkflowContext.jobNodeRuningInfosMap
  answer,     \* answer[x]: what the executor reports for x, NoRow before
  kills,      \* executions for which a KILL_JOB_EVENT has been dispatched
  planState,  \* JobExecutionPlan.currentXjobState
  paused,     \* the plan was paused by the engine
  alarm,      \* alarm[r]: isTimeOut and isHasAlarm of the instance
  reports,    \* the subscriber reports sent: <<r, kind>>
  pc,         \* pc[t]: where thread t is
  on,         \* on[t]: the run whose instance t works on, or NoRun
  frames,     \* frames[t]: the lists processNextNodes still has to walk,
              \*   innermost call first; no list is empty
  entering,   \* entering[t]: the execution t has dispatched and not yet marked
  completing, \* completing[t]: the execution whose node t is completing
  val,        \* val[t]: a local: the join's new count
  scan        \* the rows of the timer's query result still to be looked at

inst  == <<status, forkCount, workflows, planState, paused, alarm>>
execs == <<owner, node, row, info, answer, kills, reports>>
local == <<pc, on, frames, entering, completing, val, scan>>
vars  == <<inst, execs, local>>

PC == {"idle", "walk", "notify", "joinSet", "setSucceeded", "setFailed",
       "scan", "onceUpdate"}

(* The states the variables may take. *)
TypeOK ==
  /\ status \in [Run -> Status]
  /\ forkCount \in [Run -> [Node -> Nat]]
  /\ workflows \subseteq Run
  /\ owner \in [Exec -> Run \cup {NoRun}]
  /\ node \in [Exec -> Node \cup {NoNode}]
  /\ row \in [Exec -> RunningState \cup ResultState \cup {NoRow}]
  /\ info \subseteq Exec
  /\ answer \in [Exec -> Outcome \cup {NoRow}]
  /\ kills \subseteq Exec
  /\ planState \in {"init", "doing", "success", "error"}
  /\ paused \in BOOLEAN
  /\ alarm \in [Run -> {"none", "timeOut", "hasAlarm"}]
  /\ reports \subseteq Run \X {"error", "timeout", "timeoutButSuccess"}
  /\ pc \in [Thread -> PC]
  /\ on \in [Thread -> Run \cup {NoRun}]
  /\ frames \in [Thread -> Seq(Seq(Node) \ {<<>>})]
  /\ entering \in [Thread -> Exec \cup {NoExec}]
  /\ completing \in [Thread -> Exec \cup {NoExec}]
  /\ val \in [Thread -> Nat]
  /\ scan \subseteq Exec

Init ==
  /\ status = [r \in Run |-> "PREP"]
  /\ forkCount = [r \in Run |-> [n \in Node |-> 0]]
  /\ workflows = {}
  /\ owner = [x \in Exec |-> NoRun]
  /\ node = [x \in Exec |-> NoNode]
  /\ row = [x \in Exec |-> NoRow]
  /\ info = {}
  /\ answer = [x \in Exec |-> NoRow]
  /\ kills = {}
  /\ planState = "init"
  /\ paused = FALSE
  /\ alarm = [r \in Run |-> "none"]
  /\ reports = {}
  /\ pc = [t \in Thread |-> "idle"]
  /\ on = [t \in Thread |-> NoRun]
  /\ frames = [t \in Thread |-> <<>>]
  /\ entering = [t \in Thread |-> NoExec]
  /\ completing = [t \in Thread |-> NoExec]
  /\ val = [t \in Thread |-> 0]
  /\ scan = {}

-----------------------------------------------------------------------------
(* The call stack of signal and processNextNodes. *)

\* The stack after the loop on top of it has taken its next name.
Rest(fs) == IF Len(Head(fs)) = 1 THEN Tail(fs)
                                 ELSE <<Tail(Head(fs))>> \o Tail(fs)

\* The stack after a call of processNextNodes with these names.
Push(names, fs) == IF names = <<>> THEN fs ELSE <<names>> \o fs

\* Thread t is about to process a node of the given type.
At(t, type) == /\ pc[t] = "walk"
               /\ frames[t] # <<>>
               /\ Plan[Head(Head(frames[t]))].type = type

Current(t) == Head(Head(frames[t]))

WalkDone(t) == pc[t] = "walk" /\ frames[t] = <<>>

\* An identity that UniqueIDGenerator and the table have not handed out yet.
Fresh == CHOOSE x \in Exec : node[x] = NoNode

Goto(t, l) == pc' = [pc EXCEPT ![t] = l]

\* DefaultJobPlanManager.executeXJob for node n of run r (NoRun for a web
\* request); state is what addJobState has saved, NoRow if it failed.
executeXJob(t, r, n, state) ==
  /\ \E x \in Exec : node[x] = NoNode
  /\ node' = [node EXCEPT ![Fresh] = n]
  /\ owner' = [owner EXCEPT ![Fresh] = r]
  /\ row' = [row EXCEPT ![Fresh] = state]
  /\ info' = info \cup {Fresh}
  /\ entering' = [entering EXCEPT ![t] = Fresh]

-----------------------------------------------------------------------------
(* The starter thread of run r. *)

\* StartNodeHandler: if the start node's row cannot be saved, enter returns
\* false and nothing follows.
EnterStart(r) ==
  \/ /\ planState' = "doing"
     /\ \E n \in Node : /\ Plan[n].type = "start"
                        /\ frames' = [frames EXCEPT ![r] = Push(Plan[n].to, <<>>)]
  \/ /\ "dbfail" \in Features
     /\ UNCHANGED <<planState, frames>>

\* Mutant of StartJobPlan: the instance is registered before it is started.
StartRegistered(r) ==
  /\ status[r] = "PREP"
  /\ status' = [status EXCEPT ![r] = "RUNNING"]
  /\ workflows' = workflows \cup {r}
  /\ Goto(r, "walk")
  /\ on' = [on EXCEPT ![r] = r]
  /\ EnterStart(r)
  /\ UNCHANGED <<forkCount, paused, alarm, execs, entering, completing, val, scan>>

\* startJobPlan up to the first node after the start node.
StartJobPlan(r) ==
  /\ status[r] = "PREP"
  /\ status' = [status EXCEPT ![r] = "RUNNING"]
  /\ Goto(r, "walk")
  /\ on' = [on EXCEPT ![r] = r]
  /\ EnterStart(r)
  /\ UNCHANGED <<forkCount, workflows, paused, alarm, execs, entering, completing, val, scan>>

\* Only when start() has returned does startJobPlan call addWorkflow.
AddWorkflow(r) ==
  /\ WalkDone(r)
  /\ workflows' = workflows \cup {r}
  /\ Goto(r, "idle")
  /\ on' = [on EXCEPT ![r] = NoRun]
  /\ UNCHANGED <<status, forkCount, planState, paused, alarm, execs,
                 frames, entering, completing, val, scan>>

-----------------------------------------------------------------------------
(* processNextNodes, one node at a time, by any thread.                    *)

\* ActionNodeHandler.enter up to the dispatch of the job.
EnterAction(t) ==
  /\ At(t, "action")
  /\ \E state \in {"INIT"} \cup (IF "dbfail" \in Features THEN {NoRow} ELSE {}) :
        executeXJob(t, on[t], Current(t), state)
  /\ frames' = [frames EXCEPT ![t] = Rest(@)]
  /\ Goto(t, "notify")
  /\ UNCHANGED <<inst, answer, kills, reports, on, completing, val, scan>>

\* The end of ActionNodeHandler.enter: the row is overwritten, whatever it
\* holds by now.
NotifySuccess(t) ==
  /\ pc[t] = "notify"
  /\ row' = [row EXCEPT ![entering[t]] = IF @ = NoRow THEN @ ELSE "NOTIFY_SUCCESS"]
  /\ entering' = [entering EXCEPT ![t] = NoExec]
  /\ Goto(t, "walk")
  /\ UNCHANGED <<inst, owner, node, info, answer, kills, reports,
                 on, frames, completing, val, scan>>

\* signal does nothing unless the instance is RUNNING.
SkipSignal(t) ==
  /\ At(t, "fork") \/ At(t, "join")
  /\ status[on[t]] # "RUNNING"
  /\ frames' = [frames EXCEPT ![t] = Rest(@)]
  /\ UNCHANGED <<inst, execs, pc, on, entering, completing, val, scan>>

\* Mutant of Fork: the count is the last index of the paths, not their number.
ForkMiscounted(t) ==
  LET f == Current(t) IN
  /\ At(t, "fork")
  /\ status[on[t]] = "RUNNING"
  /\ forkCount' = [forkCount EXCEPT ![on[t]][Plan[f].peer] = Len(Plan[f].to) - 1]
  /\ frames' = [frames EXCEPT ![t] = Push(Plan[f].to, Rest(@))]
  /\ UNCHANGED <<status, workflows, planState, paused, alarm, execs,
                 pc, on, entering, completing, val, scan>>

\* ForkNodeHandler.multiExit.
Fork(t) ==
  LET f == Current(t) IN
  /\ At(t, "fork")
  /\ status[on[t]] = "RUNNING"
  /\ forkCount' = [forkCount EXCEPT ![on[t]][Plan[f].peer] = Len(Plan[f].to)]
  /\ frames' = [frames EXCEPT ![t] = Push(Plan[f].to, Rest(@))]
  /\ UNCHANGED <<status, workflows, planState, paused, alarm, execs,
                 pc, on, entering, completing, val, scan>>

\* Mutant of JoinRead: a missing count is not noticed.
JoinUnchecked(t) ==
  LET r == on[t]
      j == Current(t) IN
  /\ At(t, "join")
  /\ status[r] = "RUNNING"
  /\ val' = [val EXCEPT ![t] = forkCount[r][j] - 1]
  /\ Goto(t, "joinSet")
  /\ UNCHANGED <<inst, execs, on, frames, entering, completing, scan>>

\* JoinNodeHandler.enter reads the count; without one it throws, and signal
\* fails the instance.
JoinRead(t) ==
  LET r == on[t]
      j == Current(t) IN
  /\ At(t, "join")
  /\ status[r] = "RUNNING"
  /\ \/ /\ forkCount[r][j] = 0
        /\ status' = [status EXCEPT ![r] = "FAILED"]
        /\ frames' = [frames EXCEPT ![t] = Rest(@)]
        /\ UNCHANGED <<pc, val>>
     \/ /\ forkCount[r][j] > 0
        /\ val' = [val EXCEPT ![t] = forkCount[r][j] - 1]
        /\ Goto(t, "joinSet")
        /\ UNCHANGED <<status, frames>>
  /\ UNCHANGED <<forkCount, workflows, planState, paused, alarm, execs,
                 on, entering, completing, scan>>

\* Mutant of JoinWrite: every arrival goes on.
JoinAny(t) ==
  LET r == on[t]
      j == Current(t) IN
  /\ pc[t] = "joinSet"
  /\ forkCount' = [forkCount EXCEPT ![r][j] = val[t]]
  /\ frames' = [frames EXCEPT ![t] =
                  IF status[r] \notin EndStatus
                  THEN Push(Plan[j].to, Rest(@)) ELSE Rest(@)]
  /\ val' = [val EXCEPT ![t] = 0]
  /\ Goto(t, "walk")
  /\ UNCHANGED <<status, workflows, planState, paused, alarm, execs,
                 on, entering, completing, scan>>

\* ... writes it back, or removes it and goes on to the join's successor.
JoinWrite(t) ==
  LET r == on[t]
      j == Current(t) IN
  /\ pc[t] = "joinSet"
  /\ forkCount' = [forkCount EXCEPT ![r][j] = val[t]]
  /\ frames' = [frames EXCEPT ![t] =
                  IF val[t] = 0 /\ status[r] \notin EndStatus
                  THEN Push(Plan[j].to, Rest(@)) ELSE Rest(@)]
  /\ val' = [val EXCEPT ![t] = 0]
  /\ Goto(t, "walk")
  /\ UNCHANGED <<status, workflows, planState, paused, alarm, execs,
                 on, entering, completing, scan>>

\* EndNodeHandler.enter and exit.  They are called whatever the status is.
EnterEnd(t) ==
  /\ At(t, "end")
  /\ planState' = "success"
  /\ frames' = [frames EXCEPT ![t] = Rest(@)]
  /\ Goto(t, "setSucceeded")
  /\ UNCHANGED <<status, forkCount, workflows, paused, alarm, execs,
                 on, entering, completing, val, scan>>

\* FailNodeHandler.enter and exit: the rows of the run that are still in a
\* running state become errors.
EnterFail(t) ==
  /\ At(t, "fail")
  /\ planState' = "error"
  /\ row' = [x \in Exec |-> IF owner[x] = on[t] /\ row[x] \in RunningState
                            THEN "RESULT_ERROR" ELSE row[x]]
  /\ frames' = [frames EXCEPT ![t] = Rest(@)]
  /\ Goto(t, "setFailed")
  /\ UNCHANGED <<status, forkCount, workflows, paused, alarm,
                 owner, node, info, answer, kills, reports, on, entering, completing, val, scan>>

\* The row of an end or fail node cannot be saved: the handler throws, the
\* loop on top of the stack is abandoned and the caller fails the instance.
EndNodeThrows(t) ==
  /\ "dbfail" \in Features
  /\ At(t, "end") \/ At(t, "fail")
  /\ status' = [status EXCEPT ![on[t]] = "FAILED"]
  /\ frames' = [frames EXCEPT ![t] = Tail(@)]
  /\ UNCHANGED <<forkCount, workflows, planState, paused, alarm, execs,
                 pc, on, entering, completing, val, scan>>

\* The assignment to status that follows the exit of an end or fail node.
SetEndStatus(t) ==
  /\ \/ /\ pc[t] = "setSucceeded"
        /\ status' = [status EXCEPT ![on[t]] = "SUCCEEDED"]
     \/ /\ pc[t] = "setFailed"
        /\ status' = [status EXCEPT ![on[t]] = "FAILED"]
  /\ Goto(t, "walk")
  /\ UNCHANGED <<forkCount, workflows, planState, paused, alarm, execs,
                 on, frames, entering, completing, val, scan>>

ProcessNextNodes(t) ==
  \/ EnterAction(t) \/ NotifySuccess(t)
  \/ SkipSignal(t) \/ Fork(t) \/ JoinRead(t) \/ JoinWrite(t)
  \/ EnterEnd(t) \/ EnterFail(t) \/ EndNodeThrows(t) \/ SetEndStatus(t)

-----------------------------------------------------------------------------
(* Completing an action node. *)

\* The names ActionNodeHandler.exit returns for the reported state s.
ExitTo(n, s) == CASE s = "RESULT_SUCCESS" -> Plan[n].ok
                  [] s = "RESULT_ERROR"   -> Plan[n].error
                  [] OTHER                -> <<>>

\* ActionNodeHandler.exit throws: the execution has no row, or the node may
\* be redone: redoXjob dereferences a context that only enter has set, and
\* the handler that runs exit is a new one.
ExitThrows(x, s) == row[x] = NoRow \/ (s = "RESULT_ERROR" /\ Plan[node[x]].redo > 0)

\* completeJobPlanNode by thread t with result s, up to the walk it starts.
CompleteJobPlanNode(t, x, s) ==
  LET r == owner[x] IN
  /\ row' = IF row[x] = NoRow THEN row ELSE [row EXCEPT ![x] = s]
  /\ status' = IF ExitThrows(x, s) THEN [status EXCEPT ![r] = "FAILED"] ELSE status
  /\ frames' = [frames EXCEPT ![t] =
                  IF ExitThrows(x, s) \/ status[r] \in EndStatus THEN <<>>
                  ELSE Push(ExitTo(node[x], s), <<>>)]
  /\ Goto(t, "walk")
  /\ on' = [on EXCEPT ![t] = r]
  /\ completing' = [completing EXCEPT ![t] = x]

\* Mutant of RemoveEnded: only a run that succeeded is removed.
RemoveSucceeded(r) == IF status[r] = "SUCCEEDED" THEN workflows \ {r} ELSE workflows

\* The end of completeJobPlanNode: an ended instance leaves the registry.
RemoveEnded(r) == IF status[r] \in EndStatus THEN workflows \ {r} ELSE workflows

-----------------------------------------------------------------------------
(* The executor and the RPC thread.  A report stays deliverable, because   *)
(* the executor may send it again, and need not be delivered at all.       *)

\* External: the executor has run the job, or failed to.
Answer(x) ==
  /\ node[x] # NoNode
  /\ answer[x] = NoRow
  /\ \E s \in Outcome : answer' = [answer EXCEPT ![x] = s]
  /\ UNCHANGED <<inst, owner, node, row, info, kills, reports, local>>

\* handlejobProgress is called for x.  Without running info it throws.
Reported(x) == pc["rpc"] = "idle" /\ answer[x] # NoRow /\ x \in info

\* A node executed from the web: handlejobProgressOnce.
HandleOnce(x) ==
  /\ Reported(x)
  /\ owner[x] = NoRun
  /\ info' = info \ {x}
  /\ row' = [row EXCEPT ![x] = answer[x]]
  /\ UNCHANGED <<inst, owner, node, answer, kills, reports, local>>

\* No instance is registered under the run's key: killJobHandle.
HandleForgotten(x) ==
  /\ Reported(x)
  /\ owner[x] # NoRun
  /\ owner[x] \notin workflows
  /\ kills' = kills \cup {x}
  /\ UNCHANGED <<inst, owner, node, row, info, answer, reports, local>>

HandleProgress(x) ==
  /\ Reported(x)
  /\ owner[x] \in workflows
  /\ CompleteJobPlanNode("rpc", x, answer[x])
  /\ UNCHANGED <<forkCount, workflows, planState, paused, alarm,
                 owner, node, info, answer, kills, reports, entering, val, scan>>

\* Mutant of FinishProgress: the running info is kept.
FinishRemembering ==
  LET x == completing["rpc"]
      r == on["rpc"] IN
  /\ WalkDone("rpc")
  /\ workflows' = RemoveEnded(r)
  /\ Goto("rpc", "idle")
  /\ on' = [on EXCEPT !["rpc"] = NoRun]
  /\ completing' = [completing EXCEPT !["rpc"] = NoExec]
  /\ UNCHANGED <<status, forkCount, planState, alarm, paused, reports, info,
                 owner, node, row, answer, kills, frames, entering, val, scan>>

\* handlejobProgress after completeJobPlanNode: pause the plan, report to
\* the subscribers, forget the running info.
FinishProgress ==
  LET x == completing["rpc"]
      r == on["rpc"] IN
  /\ WalkDone("rpc")
  /\ workflows' = RemoveEnded(r)
  /\ paused' = (paused \/ (answer[x] \in FailState /\ ~IgnoreError))
  /\ reports' = reports
       \cup (IF answer[x] \in FailState THEN {<<r, "error">>} ELSE {})
       \cup (IF alarm[r] = "hasAlarm" THEN {<<r, "timeoutButSuccess">>} ELSE {})
  /\ info' = info \ {x}
  /\ Goto("rpc", "idle")
  /\ on' = [on EXCEPT !["rpc"] = NoRun]
  /\ completing' = [completing EXCEPT !["rpc"] = NoExec]
  /\ UNCHANGED <<status, forkCount, planState, alarm,
                 owner, node, row, answer, kills, frames, entering, val, scan>>

-----------------------------------------------------------------------------
(* The timer thread.  Time is not modelled: a row that is in a running     *)
(* state may at any moment be found young, overdue or overdue five times.  *)

\* Mutant of TimerQuery: jobs that the executor was notified of are no longer
\* supervised.
TimerQueryInit(r) ==
  LET rows == {x \in Exec : owner[x] = r /\ row[x] = "INIT"} IN
  /\ "timer" \in Features
  /\ pc["timer"] = "idle"
  /\ r \in workflows
  /\ rows # {}
  /\ scan' = rows
  /\ Goto("timer", "scan")
  /\ on' = [on EXCEPT !["timer"] = r]
  /\ UNCHANGED <<inst, execs, frames, entering, completing, val>>

\* autoTimeOutHandlejobProgress reads the rows of one registered run.
TimerQuery(r) ==
  LET rows == {x \in Exec : owner[x] = r /\ row[x] \in RunningState} IN
  /\ "timer" \in Features
  /\ pc["timer"] = "idle"
  /\ r \in workflows
  /\ rows # {}
  /\ scan' = rows
  /\ Goto("timer", "scan")
  /\ on' = [on EXCEPT !["timer"] = r]
  /\ UNCHANGED <<inst, execs, frames, entering, completing, val>>

\* The loop over the query result goes on, or is over.
ScanOn(rest) ==
  /\ scan' = rest
  /\ Goto("timer", IF rest = {} THEN "idle" ELSE "scan")
  /\ on' = IF rest = {} THEN [on EXCEPT !["timer"] = NoRun] ELSE on

\* timeOutHandle: x is not overdue.
NotOverdue(x) ==
  /\ pc["timer"] = "scan"
  /\ x \in scan
  /\ ScanOn(scan \ {x})
  /\ UNCHANGED <<inst, execs, frames, entering, completing, val>>

\* x is overdue: the first time, the subscribers are told.
Overdue(x) ==
  LET r == on["timer"] IN
  /\ pc["timer"] = "scan"
  /\ x \in scan
  /\ alarm[r] # "hasAlarm"
  /\ alarm' = [alarm EXCEPT ![r] = "hasAlarm"]
  /\ reports' = reports \cup {<<r, "timeout">>}
  /\ ScanOn(scan \ {x})
  /\ UNCHANGED <<status, forkCount, workflows, planState, paused,
                 owner, node, row, info, answer, kills, frames, entering, completing, val>>

\* x is overdue JOB_KILL_TIMES times: it is completed as an error.  Its row
\* was read in the query, perhaps long before.  Timing assumption: a thread
\* does not spend five delay times between the two halves of enter.
TimeOutKill(x) ==
  LET r == on["timer"] IN
  /\ pc["timer"] = "scan"
  /\ x \in scan
  /\ \A t \in Thread : ~(pc[t] = "notify" /\ entering[t] = x)
  /\ CompleteJobPlanNode("timer", x, "RESULT_ERROR")
  /\ alarm' = [alarm EXCEPT ![r] = IF @ = "none" THEN "timeOut" ELSE @]
  /\ scan' = scan \ {x}
  /\ UNCHANGED <<forkCount, workflows, planState, paused,
                 owner, node, info, answer, kills, reports, entering, val>>

\* timeOutHandle and its caller after completeJobPlanNode.
FinishTimeOut ==
  LET x == completing["timer"]
      r == on["timer"] IN
  /\ WalkDone("timer")
  /\ workflows' = RemoveEnded(r)
  /\ paused' = (paused \/ Plan[node[x]].hard)
  /\ reports' = reports \cup (IF alarm[r] = "timeOut" THEN {<<r, "timeout">>} ELSE {})
  /\ alarm' = [alarm EXCEPT ![r] = "hasAlarm"]
  /\ ScanOn(scan)
  /\ completing' = [completing EXCEPT !["timer"] = NoExec]
  /\ UNCHANGED <<status, forkCount, planState,
                 owner, node, row, info, answer, kills, frames, entering, val>>

-----------------------------------------------------------------------------
(* The web thread: executeJobPlanNode saves a row, dispatches the job and  *)
(* then updates the row from its own copy.                                 *)

ExecuteOnce(n) ==
  /\ "once" \in Features
  /\ pc["web"] = "idle"
  /\ Plan[n].type = "action"
  /\ executeXJob("web", NoRun, n, "INIT")
  /\ Goto("web", "onceUpdate")
  /\ UNCHANGED <<inst, answer, kills, reports, on, frames, completing, val, scan>>

OnceUpdate ==
  /\ pc["web"] = "onceUpdate"
  /\ row' = [row EXCEPT ![entering["web"]] = "INIT"]
  /\ entering' = [entering EXCEPT !["web"] = NoExec]
  /\ Goto("web", "idle")
  /\ UNCHANGED <<inst, owner, node, info, answer, kills, reports,
                 on, frames, completing, val, scan>>

-----------------------------------------------------------------------------
StarterStep(r) == StartJobPlan(r) \/ ProcessNextNodes(r) \/ AddWorkflow(r)

RpcDelivery == \E x \in Exec : HandleOnce(x) \/ HandleForgotten(x) \/ HandleProgress(x)

RpcWork == ProcessNextNodes("rpc") \/ FinishProgress

TimerStep ==
  \/ \E r \in Run : TimerQuery(r)
  \/ \E x \in Exec : NotOverdue(x) \/ Overdue(x) \/ TimeOutKill(x)
  \/ ProcessNextNodes("timer")
  \/ FinishTimeOut

WebStep == (\E n \in Node : ExecuteOnce(n)) \/ OnceUpdate

Next ==
  \/ \E r \in Run : StarterStep(r)
  \/ RpcDelivery
  \/ RpcWork
  \/ TimerStep
  \/ WebStep
  \/ \E x \in Exec : Answer(x)

Spec == Init /\ [][Next]_vars

\* The engine's threads keep running; a row that stays in a running state is
\* sooner or later overdue five times.  The executor may stay silent, and a
\* report may get lost: delivery is not fair.
FairSpec ==
  /\ Spec
  /\ \A r \in Run : WF_vars(StarterStep(r))
  /\ WF_vars(RpcWork)
  /\ WF_vars(TimerStep)
  /\ \A r \in Run : SF_vars(TimerQuery(r))
  /\ \A x \in Exec : SF_vars(TimeOutKill(x))

-----------------------------------------------------------------------------
(* Properties. *)

\* An instance under construction is private to its starter: until
\* addWorkflow no other thread gets hold of it (DefaultJobPlanManager.
\* startJobPlan registers it only after start() has returned), so the
\* unsynchronised fields of LiteWorkflowInstance are not shared by then.
StarterConfined ==
  \A r \in Run : status[r] = "PREP" \/ on[r] = r =>
    /\ r \notin workflows
    /\ \A t \in Thread \ {r} : on[t] # r

\* Threads that walk the graph of an instance or wait to write to it.
Walking(t) == pc[t] \in {"walk", "notify", "joinSet", "setSucceeded", "setFailed"}

\* Without the timer no two threads walk the same instance: status and
\* vars of LiteWorkflowInstance have no lock, and need none.
SingleWalker ==
  \A t, u \in Thread : t # u /\ Walking(t) /\ Walking(u) => on[t] # on[u]

\* A node is executed at most once in a run, whatever is reported and
\* however often (processNextNodes, handlejobProgress).
ExecutedOnce ==
  \A x, y \in Exec : node[x] # NoNode /\ owner[x] # NoRun
                     /\ node[x] = node[y] /\ owner[x] = owner[y] => x = y

\* A join goes on only when every path into it is complete: the job behind it
\* is not dispatched before the executors have reported success for all the
\* actions that lead to the join, not even when the timer and the RPC thread
\* complete the same node at once (the fork/join count of ForkNodeHandler and
\* JoinNodeHandler).
JoinWaitsForAll ==
  \A x \in Exec, j, n \in Node :
    /\ owner[x] # NoRun
    /\ Plan[j].type = "join" /\ Plan[j].to = <<node[x]>>
    /\ Plan[n].type = "action" /\ Plan[n].ok = <<j>>
    => \E y \in Exec : /\ node[y] = n /\ owner[y] = owner[x]
                      /\ answer[y] = "RESULT_SUCCESS"

\* A run fails only for a reason: some execution of it was reported to have
\* failed.  In particular reports that are delivered again change nothing,
\* because the running info of a completed node is gone.
FailureHasCause ==
  \A r \in Run : status[r] = "FAILED" =>
    \E x \in Exec : owner[x] = r /\ answer[x] \in FailState

\* A result that is recorded in XJOB_STATE is not overwritten by a running
\* state: the late NOTIFY_SUCCESS of ActionNodeHandler.enter does not meet a
\* result, because the starter's jobs are not completed before addWorkflow
\* and the RPC thread's jobs are completed by the RPC thread.
ResultIsStable ==
  [][\A x \in Exec : owner[x] # NoRun /\ row[x] \in ResultState
                      => row'[x] \in ResultState]_row

\* An ended instance is over: its status does not change again and no job is
\* dispatched for it (the isEndState checks and removeWorkflow).
EndedIsFinal ==
  [][\A r \in Run : status[r] \in EndStatus =>
       /\ status'[r] = status[r]
       /\ \A x \in Exec : owner'[x] = r => owner[x] = r]_<<status, owner>>

\* The registry holds exactly the instances that started and have not ended,
\* as soon as no thread works on them (addWorkflow, removeWorkflow).
RegistryExact ==
  \A r \in Run : (\A t \in Thread : on[t] # r) =>
    (r \in workflows <=> status[r] = "RUNNING")

\* A run that the registry has dropped does not come back.
NeverReregistered ==
  [][\A r \in Run : r \in workflows' \ workflows => status[r] \notin EndStatus]_workflows

\* Every run that was triggered ends, although executors may stay silent: the
\* timer completes what no executor answers for.  The exception is a job that
\* reports DISPATCH_FAIL, for which ActionNodeHandler.exit returns no successor
\* and which the timer no longer sees.
EveryRunEnds ==
  \A r \in Run : <>(\/ status[r] \in EndStatus
                    \/ \E x \in Exec : owner[x] = r /\ answer[x] = "DISPATCH_FAIL")
=============================================================================
