----------------------------- MODULE MCWorkflow -----------------------------
(* Plans for the workflow runs, after the sample plans of hella-executor/   *)
(* src/test/resources.                                                      *)
EXTENDS WorkflowPlans

Def(type, to, ok, error, peer, redo) ==
  [type |-> type, to |-> to, ok |-> ok, error |-> error, peer |-> peer,
   redo |-> redo, hard |-> FALSE]

Start(to)       == Def("start", <<to>>, <<>>, <<>>, NoNode, 0)
Action(ok, err) == Def("action", <<>>, <<ok>>, <<err>>, NoNode, 0)
End             == Def("end", <<>>, <<>>, <<>>, NoNode, 0)
Fail            == Def("fail", <<>>, <<>>, <<>>, NoNode, 0)

(* start, fork {a, b}, join, m, end: job_executor_multijob_jobplan.xml with *)
(* one action per path.                                                     *)
ForkNode == {"start", "fork", "a", "b", "join", "m", "end", "fail"}
ForkPlan ==
  [n \in ForkNode |->
     CASE n = "start" -> Start("fork")
       [] n = "fork"  -> Def("fork", <<"a", "b">>, <<>>, <<>>, "join", 0)
       [] n = "a"     -> Action("join", "fail")
       [] n = "b"     -> Action("join", "fail")
       [] n = "join"  -> Def("join", <<"m">>, <<>>, <<>>, "fork", 0)
       [] n = "m"     -> Action("end", "fail")
       [] n = "end"   -> End
       [] n = "fail"  -> Fail]

(* The same, but the join does not mind an error of a, b may be redone and  *)
(* a timeout of m pauses the plan.                                          *)
TolerantPlan == [ForkPlan EXCEPT !["a"] = Action("join", "join"),
                                 !["b"].redo = 1,
                                 !["m"].hard = TRUE]

(* start, a, b, end. *)
LineNode == {"start", "a", "b", "end", "fail"}
LinePlan ==
  [n \in LineNode |->
     CASE n = "start" -> Start("a")
       [] n = "a"     -> Action("b", "fail")
       [] n = "b"     -> Action("end", "fail")
       [] n = "end"   -> End
       [] n = "fail"  -> Fail]

(* The theorems of WorkflowEndProofs and WorkflowOnceProofs are about plans   *)
(* like ForkPlan; TLC evaluates their hypotheses for it.                     *)
ASSUME ForkPlanShape ==
  Plan = ForkPlan => DispatchFirst /\ OneWay /\ ErrorsEnd /\ Balanced /\ FailOnError

-----------------------------------------------------------------------------
(* What the repository says of the program and the code does not do. *)

\* A run that succeeded is not made a failed one: LiteWorkflowInstance.fail
\* refuses that ("this Workflow has end,so can not make it failed").
SucceededIsNotFailed ==
  [][\A r \in Run : status[r] = "SUCCEEDED" => status'[r] # "FAILED"]_status

\* A kill event is dispatched only for a run that is over: timeOutHandle's
\* comment gives the removal of the run as the reason to kill.
KillMeansOver ==
  [][\A x \in kills' \ kills : status[owner[x]] \in EndStatus]_kills
=============================================================================
