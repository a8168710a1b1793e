--------------------------- MODULE HeartbeatProofs ---------------------------
(***************************************************************************)
(* Proofs about module Heartbeat, for any set of jobs, any number of       *)
(* faults and any combination of restarts.  None of the safety properties  *)
(* is inductive: HInv adds where the events and the reports of a job can   *)
(* be, which is what makes each of them happen once.                       *)
(***************************************************************************)
EXTENDS Heartbeat, TLAPS

Over == Final \cup {"lost"}

\* An event that is still under way is for a job that was never started, and
\* is in one place only.
EventsInOnePlace ==
  /\ pendRun \cap respRun = {}
  /\ \A j \in pendRun \cup respRun : j \in issued /\ starts[j] = 0
  /\ \A j \in Job : starts[j] <= 1
  /\ \A j \in Job : starts[j] > 0 => j \in issued
  /\ \A j \in Job : starts[j] = 0 => state[j] = "none"
  /\ \A j \in runners : starts[j] > 0

\* The engine waits for the result of a job only until it has handled one.
InfoUnhandled ==
  /\ \A j \in info : j \in issued /\ handled[j] = 0
  /\ \A j \in Job : handled[j] <= 1
  /\ \A j \in Job : handled[j] > 0 => j \in issued

\* What is reported is over, also in the requests that were given up.
ReportsFinal ==
  /\ \A j \in list : state[j] \in Over
  /\ \A l \in stale : \A j \in l : state[j] \in Over
  /\ \A j \in Job : handled[j] > 0 => state[j] \in Over

\* A kill event answers a report of the same request.
KillsAnswer ==
  /\ pendKill = {}
  /\ wire = "answered" => respKill \subseteq list

\* A registered executor has a time stamp, and a request is under way only
\* while the reporter waits for it.
Registration ==
  /\ registered => access # "none"
  /\ wire # "none" => reporter = "waiting"

HInv == TypeOK /\ EventsInOnePlace /\ InfoUnhandled /\ ReportsFinal
        /\ KillsAnswer /\ Registration

LEMMA InitInv == Init => HInv
<1> SUFFICES ASSUME Init PROVE HInv
  OBVIOUS
<1> USE DEF Init
<1>1. TypeOK
  <2>1. registered \in BOOLEAN /\ booting \in BOOLEAN
    OBVIOUS
  <2>2. handled \in [Job -> Nat] /\ starts \in [Job -> Nat] /\ faults \in 0..MaxFaults
        /\ lateRegs \in Nat
    BY HeartbeatAssumption
  <2>3. state \in [Job -> JobState]
    BY DEF JobState
  <2>4. stale \subseteq SUBSET Job
    OBVIOUS
  <2> QED
    BY <2>1, <2>2, <2>3, <2>4 DEF TypeOK
<1>2. EventsInOnePlace
  BY DEF EventsInOnePlace
<1>3. InfoUnhandled
  BY DEF InfoUnhandled
<1>4. ReportsFinal
  BY DEF ReportsFinal
<1>5. KillsAnswer /\ Registration
  BY DEF KillsAnswer, Registration
<1> QED
  BY <1>1, <1>2, <1>3, <1>4, <1>5 DEF HInv

\* What serving a request guarantees when the jobs it reports are over.
ServeEffect(s) ==
  /\ handled' \in [Job -> Nat] /\ info' \subseteq Job
  /\ InfoUnhandled'
  /\ \A j \in Job : handled'[j] > 0 => state'[j] \in Over
  /\ pendRun' = IF s = "NORMAL" THEN {} ELSE pendRun
  /\ pendKill' = {}
  /\ registered' => registered
  /\ registered' \in BOOLEAN
  /\ access' \in {"none", "recent", "old"}
  /\ access # "none" => access' # "none"
  /\ UNCHANGED <<issued, over, checker>>

\* Serving a request has that effect: a report is handled only while the
\* running info of its job is there, and that is removed with it.
LEMMA ServeInv ==
  ASSUME HInv, NEW l \in SUBSET Job, \A j \in l : state[j] \in Over, UNCHANGED state,
         NEW s \in {"NORMAL", "HEARTBEAT_TIMEOUT", "UNREGISTER"},
         NEW late \in BOOLEAN, Serve(l, s, late)
  PROVE  ServeEffect(s)
<1> USE DEF HInv, TypeOK, InfoUnhandled, ReportsFinal
<1>1. CASE s = "NORMAL"
  <2>0. /\ Process(l) /\ Fetch /\ UNCHANGED <<registered, issued, over, checker>>
        /\ access' \in {"recent", "old"}
    BY <1>1 DEF Serve, SeenAt
  <2> DEFINE good == {j \in l \cap info : j \notin over}
  <2>1. /\ handled' = [j \in Job |-> IF j \in good THEN handled[j] + 1 ELSE handled[j]]
        /\ info' = info \ good
    BY <2>0 DEF Process
  <2>2. handled' \in [Job -> Nat] /\ info' \subseteq Job
    BY <2>1
  <2>3. InfoUnhandled'
    BY <2>0, <2>1
  <2>4. \A j \in Job : handled'[j] > 0 => state'[j] \in Over
    BY <2>1
  <2>5. registered' \in BOOLEAN
    BY <2>0
  <2> QED
    BY <1>1, <2>0, <2>5, <2>2, <2>3, <2>4 DEF ServeEffect, Fetch
<1>2. CASE s # "NORMAL"
  <2>1. registered' => registered
    BY <1>2 DEF Serve
  <2>3. registered' \in BOOLEAN
    BY <1>2 DEF Serve
  <2> QED
    BY <1>2, <2>1, <2>3 DEF Serve, ServeEffect, KillsAnswer
<1> QED
  BY <1>1, <1>2

\* doRegister, whoever calls it, leaves a registered executor with a stamp.
EnrollEffect ==
  /\ registered' \in BOOLEAN
  /\ access' \in {"none", "recent", "old"}
  /\ registered' => access' # "none"

\* doRegister has that effect, whether it is refused or not.
LEMMA EnrollInv ==
  ASSUME HInv, Enroll
  PROVE  EnrollEffect
<1> USE DEF HInv, TypeOK, Registration
<1>1. CASE registered
  BY <1>1 DEF Enroll, EnrollEffect
<1>2. CASE ~registered
  <2>1. registered' = TRUE /\ access' \in {"recent", "old"}
    BY <1>2 DEF Enroll
  <2> QED
    BY <2>1 DEF EnrollEffect
<1> QED
  BY <1>1, <1>2

\* Each action preserves HInv, and so does a stuttering step.
LEMMA StepInv == HInv /\ [Next]_vars => HInv'
<1> SUFFICES ASSUME HInv, [Next]_vars PROVE HInv'
  OBVIOUS
<1> USE HeartbeatAssumption DEF HInv, TypeOK, EventsInOnePlace, InfoUnhandled, ReportsFinal,
        KillsAnswer, Registration
<1>1. ASSUME NEW j \in Job, Dispatch(j) PROVE HInv'
  BY <1>1 DEF Dispatch, executor, network
<1>2. ASSUME NEW j \in Job, EndRun(j) PROVE HInv'
  BY <1>2 DEF EndRun, executor, network
<1>3. ASSUME NEW j \in Job, RunJob(j) PROVE HInv'
  BY <1>3 DEF RunJob, engine, network, JobState, Final, Over
<1>4. CASE ServeHeartbeat
  <2> PICK s \in {"NORMAL", "HEARTBEAT_TIMEOUT", "UNREGISTER"} :
        /\ Serve(list, s, FALSE)
        /\ status' = s
        /\ respRun' = IF s = "NORMAL" THEN pendRun ELSE {}
        /\ respKill' = IF s = "NORMAL" THEN pendKill \cup Kills(list) ELSE {}
    BY <1>4 DEF ServeHeartbeat
  <2>1. ServeEffect(s)
    BY <1>4, ServeInv DEF ServeHeartbeat, executor
  <2> QED
    BY <1>4, <2>1 DEF ServeHeartbeat, ServeEffect, Kills, executor
<1>5. ASSUME NEW l \in stale, ServeStale(l) PROVE HInv'
  <2> PICK s \in {"NORMAL", "HEARTBEAT_TIMEOUT", "UNREGISTER"} : Serve(l, s, TRUE)
    BY <1>5 DEF ServeStale
  <2>1. ServeEffect(s)
    BY <1>5, ServeInv DEF ServeStale, executor
  <2> QED
    BY <1>5, <2>1 DEF ServeStale, ServeEffect, executor
<1>6. CASE RunChecker
  BY <1>6 DEF RunChecker, executor, network
<1>7. CASE SendHeartbeat
  BY <1>7 DEF SendHeartbeat, engine, Over
<1>8. CASE ReceiveNormal
  BY <1>8 DEF ReceiveNormal, Submit, Clear, engine, JobState, Final, Over
<1>9. CASE ReceiveRegister
  BY <1>9 DEF ReceiveRegister, Clear, engine
<1>10. CASE Register
  <2>1. EnrollEffect
    BY <1>10, EnrollInv DEF Register
  <2> QED
    BY <1>10, <2>1 DEF Register, EnrollEffect, network
<1>11. CASE GiveUp
  BY <1>11 DEF GiveUp, Fault, Age, MayServe
<1>12. CASE RegisterLost
  <2>1. /\ UNCHANGED <<issued, info, over, handled, registered, pendRun, pendKill, checker,
                       runners, progress, state, starts, list, wire, stale, status,
                       respRun, respKill>>
        /\ faults' \in 0..MaxFaults
    BY <1>12 DEF RegisterLost, Fault
  <2>2. access' \in {access, "old"} /\ (access = "none" => access' = "none")
    BY <1>12 DEF RegisterLost, Age
  <2>3. lateRegs' \in Nat
    BY <1>12 DEF RegisterLost, MayEnroll
  <2>4. /\ reporter' \in {"idle", reporter}
        /\ wire # "none" => reporter' = "waiting"
    BY <1>12 DEF RegisterLost
  <2>5. booting' \in BOOLEAN
    BY <1>12, Zenon DEF RegisterLost
  <2> QED
    BY <2>1, <2>2, <2>3, <2>4, <2>5
<1>13. CASE ExecutorRestart
  <2>1. UNCHANGED <<issued, info, over, handled, registered, pendRun, pendKill, checker,
                    starts, status>>
    BY <1>13 DEF ExecutorRestart
  <2>2. /\ reporter' = "idle" /\ runners' = {} /\ progress' = {} /\ list' = {}
        /\ wire' = "none" /\ respRun' = {} /\ respKill' = {}
        /\ state' = [j \in Job |-> IF j \in runners THEN "lost" ELSE state[j]]
    BY <1>13 DEF ExecutorRestart
  <2>3. access' \in {access, "old"} /\ (access = "none" => access' = "none")
    BY <1>13 DEF ExecutorRestart, Age
  <2>4. stale' \in {stale, stale \cup {list}}
    BY <1>13 DEF ExecutorRestart, MayServe
  <2>5. faults' \in 0..MaxFaults
    BY <1>13 DEF ExecutorRestart, Fault
  <2>6. lateRegs' \in Nat
    BY <1>13 DEF ExecutorRestart, MayEnroll
  <2>7. booting' \in BOOLEAN
    BY <1>13 DEF ExecutorRestart
  <2> QED
    BY <2>1, <2>2, <2>3, <2>4, <2>5, <2>6, <2>7 DEF JobState, Final, Over
<1>14. CASE EngineRestart
  <2>1. UNCHANGED <<issued, over, handled, booting, reporter, runners, progress, state, starts,
                    list, wire, status, respRun, respKill>>
    BY <1>14 DEF EngineRestart, executor
  <2>2. /\ info' = {} /\ registered' = FALSE /\ access' = "none"
        /\ pendRun' = {} /\ pendKill' = {} /\ checker' = "started" /\ stale' = {}
        /\ lateRegs' = 0 /\ faults' \in 0..MaxFaults
    BY <1>14 DEF EngineRestart, Fault
  <2> QED
    BY <2>1, <2>2
<1>15. CASE UNCHANGED vars
  BY <1>15 DEF vars, engine, executor, network
<1>16. CASE Boot
  <2>1. EnrollEffect
    BY <1>16, EnrollInv DEF Boot
  <2> QED
    BY <1>16, <2>1 DEF Boot, EnrollEffect, network
<1>17. CASE ServeLateRegister
  <2>1. EnrollEffect
    BY <1>17, EnrollInv DEF ServeLateRegister
  <2> QED
    BY <1>17, <2>1 DEF ServeLateRegister, EnrollEffect, executor
<1> QED
  BY <1>1, <1>2, <1>3, <1>4, <1>5, <1>6, <1>7, <1>8, <1>9, <1>10, <1>11, <1>12, <1>13,
     <1>14, <1>15, <1>16, <1>17 DEF Next, Reporter
-----------------------------------------------------------------------------
\* Every reachable state satisfies HInv.
THEOREM Invariance == Spec => []HInv
<1>1. Init => HInv
  BY InitInv
<1>2. HInv /\ [Next]_vars => HInv'
  BY StepInv
<1> QED
  BY <1>1, <1>2, PTL DEF Spec

\* The variables of the protocol keep their types.
THEOREM TypeCorrect == Spec => []TypeOK
<1>1. HInv => TypeOK
  BY DEF HInv
<1> QED
  BY <1>1, Invariance, PTL

\* No job is given to the thread pool of DefaultJobClient twice, whatever is
\* lost, delayed or restarted.
THEOREM StartsOnce == Spec => []StartedOnce
<1>1. HInv => StartedOnce
  BY DEF HInv, EventsInOnePlace, StartedOnce
<1> QED
  BY <1>1, Invariance, PTL

\* No result completes its node twice (processJobProgress), however often the
\* executor sends it.
THEOREM HandlesOnce == Spec => []HandledOnce
<1>1. HInv => HandledOnce
  BY DEF HInv, InfoUnhandled, HandledOnce
<1> QED
  BY <1>1, Invariance, PTL

\* Only a job that is over completes its node: a report that is handled was
\* final when it was sent (processJobProgress, DefaultJobClient).
THEOREM HandlesFinished == Spec => []HandledIsFinal
<1>1. HInv => HandledIsFinal
  BY DEF HInv, ReportsFinal, Over, HandledIsFinal
<1> QED
  BY <1>1, Invariance, PTL

\* processHeartbeat never leaves its loop before the last event.
THEOREM EventsArrive == Spec => []NoEventIsDropped
<1>1. HInv => NoEventIsDropped
  BY DEF HInv, TypeOK, EventsInOnePlace, KillsAnswer, NoEventIsDropped
<1> QED
  BY <1>1, Invariance, PTL

\* A registered executor is never told UNREGISTER: doRegister and
\* sendHeartbeat keep the two maps in step, also when requests are served late
\* and the executor registers from two threads.
THEOREM RegisteredKnown == Spec => []RegisteredIsKnown
<1>1. HInv => RegisteredIsKnown
  BY DEF HInv, Registration, RegisteredIsKnown
<1> QED
  BY <1>1, Invariance, PTL
=============================================================================
