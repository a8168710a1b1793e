----------------------------- MODULE Heartbeat -----------------------------
(***************************************************************************)
(* The protocol between an executor and the engine master.  The engine     *)
(* never calls the executor: the StatusReporter thread of DefaultJobClient *)
(* sends a heartbeat with the results of finished jobs, and the response   *)
(* carries the events that DefaultDispatcher has collected.  A request or  *)
(* its response may get lost; a request that the executor has given up may *)
(* still be served later (sendHeartbeat and doRegister are synchronized, a *)
(* call can wait for the lock longer than the RPC timeout).                *)
(*                                                                         *)
(* The workflow (module Workflow) appears as Dispatch, which is            *)
(* executeXJob, and as EndRun, after which the run of a job is no longer   *)
(* registered.  Time is abstracted to whether the time stamp that the      *)
(* engine keeps for the executor is older than heartbeatMaxTimeout.        *)
(***************************************************************************)
EXTENDS Naturals

CONSTANTS
  Job,         \* the event IDs of the jobs
  MaxFaults,   \* bound on the requests given up and the restarts
  Restarts,    \* the processes that may restart, of "engine" and "executor"
  ClockSkew,   \* the executor's clock may be ahead of the engine's by more
               \*   than heartbeatMaxTimeout
  NoContent    \* there may be jobs without executionContent

ASSUME HeartbeatAssumption ==
  /\ MaxFaults \in Nat
  /\ Restarts \subseteq {"engine", "executor"}
  /\ ClockSkew \in BOOLEAN
  /\ NoContent \in BOOLEAN

\* The states of an Xjob.  "dispatchFail" stands for DISPATCH_FAIL before
\* jobRunDate is assigned; "silent" for a job whose exec threw, its state
\* stays null; "lost" for a job of an executor that was restarted.
Final    == {"DISPATCH_FAIL", "RESULT_SUCCESS", "RESULT_ERROR"}
JobState == {"none", "queued", "DISPATCH_SUCCESS", "dispatchFail", "silent",
             "lost"} \cup Final

VARIABLES
  \* the engine
  issued,      \* the jobs that executeXJob was called for
  info,        \* the keys of jobNodeRuningInfosMap
  over,        \* the jobs whose run has ended and left the registry
  handled,     \* handled[j]: how often a result of j completed its node
  registered,  \* the executor is in executorRegisterDateMap
  access,      \* its entry in executorsLatestAccessTimeMap
  pendRun,     \* the EXECUTE_JOB_EVENTs of jobEventsMap
  pendKill,    \* the KILL_JOB_EVENTs of jobEventsMap
  checker,     \* the ExecutorChecker thread
  \* the executor
  booting,     \* main is still to call doRegister (ExecutorNode.start)
  reporter,    \* where the StatusReporter thread is
  runners,     \* the keys of xjobRunners
  progress,    \* the keys of jobProgressMap
  state,       \* state[j]: see JobState
  starts,      \* starts[j]: how often j was given to the thread pool
  \* the network
  list,        \* the jobs reported in the current request
  wire,        \* the current request: none, sent or answered
  stale,       \* the reports of requests given up and still to be served
  lateRegs,    \* the number of doRegisters given up and still to be served
  status,      \* the executorStatus of the response
  respRun,     \* the events of the response
  respKill,
  faults       \* the faults so far

engine   == <<issued, info, over, handled, registered, access, pendRun, pendKill, checker>>
executor == <<booting, reporter, runners, progress, state, starts>>
network  == <<list, wire, stale, lateRegs, status, respRun, respKill, faults>>
vars     == <<engine, executor, network>>

(* The states the variables may take. *)
TypeOK ==
  /\ issued \subseteq Job
  /\ info \subseteq Job
  /\ over \subseteq Job
  /\ handled \in [Job -> Nat]
  /\ registered \in BOOLEAN
  /\ access \in {"none", "recent", "old"}
  /\ pendRun \subseteq Job
  /\ pendKill \subseteq Job
  /\ checker \in {"started", "ended"}
  /\ booting \in BOOLEAN
  /\ reporter \in {"idle", "waiting", "register", "dead"}
  /\ runners \subseteq Job
  /\ progress \subseteq Job
  /\ state \in [Job -> JobState]
  /\ starts \in [Job -> Nat]
  /\ list \subseteq Job
  /\ wire \in {"none", "sent", "answered"}
  /\ stale \subseteq SUBSET Job
  /\ lateRegs \in Nat
  /\ status \in {"none", "NORMAL", "HEARTBEAT_TIMEOUT", "UNREGISTER"}
  /\ respRun \subseteq Job
  /\ respKill \subseteq Job
  /\ faults \in 0..MaxFaults

\* The executor may be the master of its cluster or a slave: only the master
\* calls doRegister when it starts.
Init ==
  /\ issued = {} /\ info = {} /\ over = {}
  /\ handled = [j \in Job |-> 0]
  /\ registered = FALSE /\ access = "none"
  /\ pendRun = {} /\ pendKill = {} /\ checker = "started"
  /\ booting \in BOOLEAN
  /\ reporter = "idle"
  /\ runners = {} /\ progress = {}
  /\ state = [j \in Job |-> "none"]
  /\ starts = [j \in Job |-> 0]
  /\ list = {} /\ wire = "none" /\ stale = {} /\ lateRegs = 0
  /\ status = "none" /\ respRun = {} /\ respKill = {}
  /\ faults = 0

-----------------------------------------------------------------------------
(* The engine. *)

\* executeXJob: the running info is stored, then doDispatch drops the event
\* unless the executor is registered.
Dispatch(j) ==
  /\ j \notin issued
  /\ issued' = issued \cup {j}
  /\ info' = info \cup {j}
  /\ pendRun' = IF registered THEN pendRun \cup {j} ELSE pendRun
  /\ UNCHANGED <<over, handled, registered, access, pendKill, checker, executor, network>>

\* Mutant of EndRun: the timer sends a kill event itself.
EndRunKilling(j) ==
  /\ j \in info \ over
  /\ over' = over \cup {j}
  /\ pendKill' = IF registered THEN pendKill \cup {j} ELSE pendKill
  /\ UNCHANGED <<issued, info, handled, registered, access, pendRun, checker,
                 executor, network>>

\* The run of job j ends without j's result: the timer completes the node, or
\* another path of the run fails.
EndRun(j) ==
  /\ j \in info \ over
  /\ over' = over \cup {j}
  /\ UNCHANGED <<issued, info, handled, registered, access, pendRun, pendKill, checker,
                 executor, network>>

\* Mutant of Process: the running info is kept.
ProcessRemembering(l) ==
  LET good == {j \in l \cap info : j \notin over} IN
  /\ handled' = [j \in Job |-> IF j \in good THEN handled[j] + 1 ELSE handled[j]]
  /\ info' = info

\* processJobProgress for the reports of l.  A report without running info
\* throws and is skipped; one of a run that is over leads to a kill event.
Process(l) ==
  LET good == {j \in l \cap info : j \notin over} IN
  /\ handled' = [j \in Job |-> IF j \in good THEN handled[j] + 1 ELSE handled[j]]
  /\ info' = info \ good

\* Mutant of Fetch: the events stay in jobEventsMap.
FetchKeeping == pendRun' = pendRun /\ pendKill' = pendKill

\* getJobEventsByExecutorClusterID empties the executor's list.
Fetch == pendRun' = {} /\ pendKill' = {}

\* The kill events that processJobProgress adds; doDispatch drops them when
\* the executor is not registered.
Kills(l) == IF registered THEN l \cap info \cap over ELSE {}

\* The ages that the time stamp of a request may have: a request that was
\* given up carries the time when it was sent.
SeenAt(late) == {"recent"} \cup (IF late THEN {"old"} ELSE {})

\* Mutant of Serve: a timeout removes the time stamp, not the registration.
ServeForgetting(l, s, late) ==
  /\ \/ /\ access = "none" /\ s = "UNREGISTER"
        /\ UNCHANGED <<info, handled, access, pendRun, pendKill>>
     \/ /\ access = "old" /\ s = "HEARTBEAT_TIMEOUT"
        /\ access' = "none"
        /\ UNCHANGED <<info, handled, pendRun, pendKill>>
     \/ /\ access \in SeenAt(late) /\ s = "NORMAL"
        /\ access' \in SeenAt(late)
        /\ Process(l)
        /\ Fetch
  /\ UNCHANGED <<issued, over, registered, checker>>

\* sendHeartbeat with the reports of l: s is the executorStatus it answers.
\* The time stamp of a late request may not have reached heartbeatMaxTimeout
\* when that of a new one would have, and replaces the one that is stored.
Serve(l, s, late) ==
  /\ \/ /\ access = "none"
        /\ s = "UNREGISTER"
        /\ UNCHANGED <<info, handled, registered, access, pendRun, pendKill>>
     \/ /\ access = "old"
        /\ s = "HEARTBEAT_TIMEOUT"
        /\ registered' = FALSE
        /\ UNCHANGED <<info, handled, access, pendRun, pendKill>>
     \/ /\ access \in SeenAt(late)
        /\ s = "NORMAL"
        /\ access' \in SeenAt(late)
        /\ Process(l)
        /\ Fetch
        /\ UNCHANGED registered
  /\ UNCHANGED <<issued, over, checker>>

ServeHeartbeat ==
  /\ wire = "sent"
  /\ \E s \in {"NORMAL", "HEARTBEAT_TIMEOUT", "UNREGISTER"} :
       /\ Serve(list, s, FALSE)
       /\ status' = s
       /\ respRun' = IF s = "NORMAL" THEN pendRun ELSE {}
       /\ respKill' = IF s = "NORMAL" THEN pendKill \cup Kills(list) ELSE {}
  /\ wire' = "answered"
  /\ UNCHANGED <<executor, list, stale, lateRegs, faults>>

\* A request that was given up is served, its response goes nowhere.
ServeStale(l) ==
  /\ l \in stale
  /\ \E s \in {"NORMAL", "HEARTBEAT_TIMEOUT", "UNREGISTER"} : Serve(l, s, TRUE)
  /\ stale' = stale \ {l}
  /\ UNCHANGED <<executor, list, wire, lateRegs, status, respRun, respKill, faults>>

\* Mutant of Enroll: an entry in executorsLatestAccessTimeMap is taken for a
\* registration, too.
EnrollOnce ==
  IF access # "none" THEN UNCHANGED <<registered, access>>
  ELSE /\ registered' = TRUE
       /\ access' \in {"recent"} \cup (IF ClockSkew THEN {"old"} ELSE {})

\* doRegister: throws when the executor is registered, otherwise stores the
\* engine's time, which later heartbeats compare with the executor's.
Enroll ==
  IF registered THEN UNCHANGED <<registered, access>>
  ELSE /\ registered' = TRUE
       /\ access' \in {"recent"} \cup (IF ClockSkew THEN {"old"} ELSE {})

\* A doRegister that was given up is served.
ServeLateRegister ==
  /\ lateRegs > 0
  /\ lateRegs' = lateRegs - 1
  /\ Enroll
  /\ UNCHANGED <<issued, info, over, handled, pendRun, pendKill, checker,
                 executor, list, wire, stale, status, respRun, respKill, faults>>

\* ExecutorChecker.run: isRunning is false from the start, its loop is over
\* before the first check.
RunChecker ==
  /\ checker = "started"
  /\ checker' = "ended"
  /\ UNCHANGED <<issued, info, over, handled, registered, access, pendRun, pendKill,
                 executor, network>>

-----------------------------------------------------------------------------
(* The executor. *)

\* Mutant of SendHeartbeat: the jobs that still run are reported, too.
SendAll ==
  /\ reporter = "idle"
  /\ reporter' = "waiting"
  /\ list' = progress
  /\ wire' = "sent"
  /\ UNCHANGED <<engine, booting, runners, progress, state, starts, stale, lateRegs,
                 status, respRun, respKill, faults>>

\* doReport: getJobProgressList collects the jobs that are over.  It runs
\* outside the try block, and formats jobRunDate: a job that has failed and
\* not yet set it ends the thread.
SendHeartbeat ==
  /\ reporter = "idle"
  /\ \/ /\ \E j \in progress : state[j] = "dispatchFail"
        /\ reporter' = "dead"
        /\ UNCHANGED <<list, wire>>
     \/ /\ \A j \in progress : state[j] # "dispatchFail"
        /\ reporter' = "waiting"
        /\ list' = {j \in progress : state[j] \in Final}
        /\ wire' = "sent"
  /\ UNCHANGED <<engine, booting, runners, progress, state, starts, stale, lateRegs,
                 status, respRun, respKill, faults>>

\* progressCollector.clear(jobProgresses), whatever the response says.
Clear(new) == /\ progress' = (progress \ list) \cup new
              /\ runners' = (runners \ list) \cup new

\* executeXJob: the Xjobs of new are given to the thread pool.
Submit(new) ==
  /\ starts' = [j \in Job |-> IF j \in new THEN starts[j] + 1 ELSE starts[j]]
  /\ state' = [j \in Job |-> IF j \in new THEN "queued" ELSE state[j]]

\* The response arrives: the reported jobs are cleared, then the events are
\* processed in turn (their order is left open).  An event of a job that is in
\* xjobRunners ends the loop; so killXjob meets no runner, and has no effect.
\* An Xjob class that cannot be instantiated is skipped.
ReceiveNormal ==
  LET left    == runners \ list
      events  == respRun \cup respKill IN
  /\ reporter = "waiting" /\ wire = "answered"
  /\ status = "NORMAL"
  /\ \E done \in SUBSET events, bad \in SUBSET respRun :
       /\ done \cap left = {}
       /\ events \cap left = {} => done = events
       /\ LET new == (done \cap respRun) \ bad IN
          /\ Clear(new)
          /\ Submit(new)
  /\ reporter' = "idle" /\ wire' = "none"
  /\ list' = {} /\ respRun' = {} /\ respKill' = {}
  /\ UNCHANGED <<engine, booting, stale, lateRegs, status, faults>>

\* The engine does not know the executor: the reports are cleared all the
\* same, then doRegister is called.
ReceiveRegister ==
  /\ reporter = "waiting" /\ wire = "answered"
  /\ status # "NORMAL"
  /\ Clear({})
  /\ reporter' = "register" /\ wire' = "none"
  /\ list' = {}
  /\ UNCHANGED <<engine, booting, state, starts, stale, lateRegs, status, respRun,
                 respKill, faults>>

\* The StatusReporter registers; an exception is logged like any other.
Register ==
  /\ reporter = "register"
  /\ Enroll
  /\ reporter' = "idle"
  /\ UNCHANGED <<issued, info, over, handled, pendRun, pendKill, checker,
                 booting, runners, progress, state, starts, network>>

\* ExecutorNode.start of a master: main registers beside the StatusReporter,
\* which initialize has started, and logs that it was refused.
Boot ==
  /\ booting
  /\ Enroll
  /\ booting' = FALSE
  /\ UNCHANGED <<issued, info, over, handled, pendRun, pendKill, checker,
                 reporter, runners, progress, state, starts, network>>

-----------------------------------------------------------------------------
(* External: the jobs. *)

\* An Xjob of the pool starts, and fails or ends.
RunJob(j) ==
  /\ \E s \in JobState :
       /\ \/ state[j] = "queued" /\ s \in {"DISPATCH_SUCCESS", "silent"}
          \/ state[j] = "queued" /\ NoContent /\ s = "dispatchFail"
          \/ state[j] = "dispatchFail" /\ s = "DISPATCH_FAIL"
          \/ state[j] = "DISPATCH_SUCCESS" /\ s \in {"RESULT_SUCCESS", "RESULT_ERROR"}
       /\ state' = [state EXCEPT ![j] = s]
  /\ UNCHANGED <<engine, booting, reporter, runners, progress, starts, network>>

-----------------------------------------------------------------------------
(* Faults. *)

Fault == faults < MaxFaults /\ faults' = faults + 1

\* While a connection is rebuilt or a process restarted the stamp may get old.
Age == access' \in IF access = "recent" THEN {"recent", "old"} ELSE {access}

\* A request that is given up before it was answered may be served later.
MayServe(l, waits) == stale' \in IF waits THEN {stale, stale \cup {l}} ELSE {stale}
MayEnroll(n)       == lateRegs' \in lateRegs..(lateRegs + n)

\* The call throws: the request or its response is lost, or takes too long.
GiveUp ==
  /\ reporter = "waiting"
  /\ Fault
  /\ MayServe(list, wire = "sent")
  /\ Age
  /\ reporter' = "idle" /\ wire' = "none"
  /\ list' = {} /\ respRun' = {} /\ respKill' = {}
  /\ UNCHANGED <<issued, info, over, handled, registered, pendRun, pendKill, checker,
                 booting, runners, progress, state, starts, lateRegs, status>>

\* The same for doRegister, called by the StatusReporter or by main.  When
\* only the response is lost, that is Register or Boot.
RegisterLost ==
  /\ \/ reporter = "register" /\ reporter' = "idle" /\ UNCHANGED booting
     \/ booting /\ booting' = FALSE /\ UNCHANGED reporter
  /\ Fault
  /\ MayEnroll(1)
  /\ Age
  /\ UNCHANGED <<issued, info, over, handled, registered, pendRun, pendKill, checker,
                 runners, progress, state, starts, list, wire, stale, status, respRun,
                 respKill>>

\* The executor's process is replaced by a new one, a master or a slave; what
\* the old one has sent may still be served.
ExecutorRestart ==
  /\ "executor" \in Restarts
  /\ Fault
  /\ booting' \in BOOLEAN
  /\ reporter' = "idle"
  /\ runners' = {} /\ progress' = {}
  /\ state' = [j \in Job |-> IF j \in runners THEN "lost" ELSE state[j]]
  /\ Age
  /\ MayServe(list, wire = "sent")
  /\ MayEnroll((IF reporter = "register" THEN 1 ELSE 0) + (IF booting THEN 1 ELSE 0))
  /\ list' = {} /\ wire' = "none" /\ respRun' = {} /\ respKill' = {}
  /\ UNCHANGED <<issued, info, over, handled, registered, pendRun, pendKill, checker,
                 starts, status>>

\* Another engine process becomes the master: everything was in memory.
EngineRestart ==
  /\ "engine" \in Restarts
  /\ Fault
  /\ info' = {} /\ registered' = FALSE /\ access' = "none"
  /\ pendRun' = {} /\ pendKill' = {} /\ checker' = "started"
  /\ stale' = {} /\ lateRegs' = 0
  /\ UNCHANGED <<issued, over, handled, executor, list, wire, status, respRun, respKill>>

-----------------------------------------------------------------------------
Reporter == SendHeartbeat \/ ReceiveNormal \/ ReceiveRegister \/ Register

Next ==
  \/ \E j \in Job : Dispatch(j) \/ EndRun(j) \/ RunJob(j)
  \/ ServeHeartbeat \/ ServeLateRegister
  \/ \E l \in stale : ServeStale(l)
  \/ RunChecker
  \/ Reporter \/ Boot
  \/ GiveUp \/ RegisterLost \/ ExecutorRestart \/ EngineRestart

Spec == Init /\ [][Next]_vars

\* The reporter's loop goes on and the engine serves what it receives.  The
\* jobs need not end.
FairSpec == Spec /\ WF_vars(Reporter) /\ WF_vars(ServeHeartbeat) /\ WF_vars(RunChecker)

-----------------------------------------------------------------------------
(* Properties. *)

\* A job is started at most once, however many heartbeats are repeated,
\* delayed or lost (the comment in processJobProgress fears "jobs executed
\* repeatedly"): getJobEventsByExecutorClusterID hands an event out once.
StartedOnce == \A j \in Job : starts[j] <= 1

\* A result completes its node at most once, although the executor reports it
\* again whenever a response is lost (removeJobNodeRuningInfo).
HandledOnce == \A j \in Job : handled[j] <= 1

\* Only a job that has ended is completed, also when the report of an earlier
\* request is served late.
HandledIsFinal == \A j \in Job : handled[j] > 0 => state[j] \in Final \cup {"lost"}

\* No event is for a job that is still in xjobRunners once the reported ones
\* are cleared; so the return in processHeartbeat's loop never drops the
\* events behind it.
NoEventIsDropped ==
  reporter = "waiting" /\ wire = "answered" /\ status = "NORMAL" =>
    (respRun \cup respKill) \cap (runners \ list) = {}

\* executorRegisterDateMap and executorsLatestAccessTimeMap stay in step: an
\* executor that is registered has a time stamp.  Otherwise it would be told
\* UNREGISTER and its doRegister refused, heartbeat after heartbeat.
RegisteredIsKnown == registered => access # "none"

\* An executor that keeps sending heartbeats is served again and again, after
\* any number of faults: it is not sent to register for ever.
ServedAgain == []<>(wire = "answered" /\ status = "NORMAL")

\* An executor that is served is registered, so that the events of its jobs
\* are collected.  No run checks it: a late heartbeat that brings the stamp up
\* to date after a timeout lets an executor whose doRegister was lost go on
\* unregistered.
ServedIsRegistered ==
  [][wire = "sent" /\ wire' = "answered" /\ status' = "NORMAL" => registered]_vars

-----------------------------------------------------------------------------
(* What the repository says of the program and the code does not do. *)

\* A result leaves the collector only when it was sent with success (the
\* comment of DefaultProgressCollector.clear): then the engine has handled it,
\* unless it no longer waits for it.
ClearedIsHandled ==
  \A j \in Job : state[j] \in Final /\ j \notin progress =>
     handled[j] > 0 \/ j \in over \/ j \notin info

\* The periodic report goes on as long as the executor runs (StatusReporter).
ReporterAlive == reporter # "dead"
=============================================================================
