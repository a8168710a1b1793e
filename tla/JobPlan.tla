------------------------------ MODULE JobPlan ------------------------------
(***************************************************************************)
(* The life of a stored plan: DefaultJobPlanManager with the rows of       *)
(* JobExecutionPlanDao and the Quartz jobs of DefaultJobPlanBuilder.  Both *)
(* are in the database, but every statement and every call of Quartz is a  *)
(* transaction of its own: the DAO closes its connection each time, so the *)
(* rollback in registerJobExecutionPlanSubmissionContext undoes nothing.   *)
(* Quartz is external.                                                     *)
(*                                                                         *)
(* An actor is a thread of the web server, of the RPC server, of the timer *)
(* or of Quartz, or the consumer of the events.  Each of its steps is one  *)
(* statement or one call of Quartz.  trouble records what has happened so  *)
(* far that a property may depend on:                                      *)
(*   "fault"    a statement or a call of Quartz has failed                 *)
(*   "builds"   two submissions or deletions of a plan overlapped          *)
(*   "overlap"  two operations on a plan, Quartz's apart, overlapped       *)
(*   "raced"    a start by Quartz or by an event overlapped with a pause   *)
(*              or a resumption                                            *)
(*   "revived"  the time of a paused plan was changed                      *)
(*   "stale"    a run failed whose plan had been deleted                   *)
(***************************************************************************)
EXTENDS Naturals, FiniteSets

CONSTANTS
  Plan,       \* the plans, by jepID
  Timed,      \* those that Quartz starts: not started by an event, nor from
              \*   another cluster
  Actor,      \* threads
  MaxRow,     \* bound on the rows inserted
  Troubles    \* the kinds of trouble that may happen

ASSUME PlanAssumption ==
  /\ Plan # {} /\ Timed \subseteq Plan
  /\ MaxRow \in Nat
  /\ Troubles \subseteq {"fault", "builds", "overlap", "raced", "revived", "stale"}

Row == 1..MaxRow

\* The cronType and the cronExpression a plan may have: those of the file, others
\* that its trigger can take, and those it cannot: an event, the type of another
\* trigger or an expression that is none.  The form of the web offers them all.
Cron == {"old", "new", "unfit"}

VARIABLES
  rows,     \* the rows of JOB_EXECUTION_PLAN
  of,       \* of[r]: the plan of row r
  state,    \* state[r]: able or disable
  cron,     \* cron[r]: its cronType and cronExpression
  details,  \* details[r]: are its nodes and their jobs stored
  last,     \* the last ID the table has given
  job,      \* job[p]: the Quartz job of plan p with its trigger
  at,       \* at[a]: what actor a is doing
  started,  \* the rows of which a run was started
  trouble   \* see above

table == <<rows, of, state, cron, details, last>>
vars  == <<table, job, at, started, trouble>>

NoJob == [trigger |-> "none", row |-> 0, cron |-> "old"]
Idle  == [op |-> "none", step |-> "idle", row |-> 0, todo |-> {}, built |-> {}]

Builds == {"submit", "delete"}
Users  == Builds \cup {"pause", "resume", "change"}
Steps  == {"idle", "clear", "insert", "insertNode", "insertRest", "unschedule", "schedule",
           "pauseJob", "disable", "resumeJob", "enable", "setCron", "updateJob", "rejectJob",
           "deleteJob", "deleteRow", "deleteNodes", "deleteMetas", "read", "load", "loadNodes",
           "query", "removeJob", "removed"}

(* The states the variables may take. *)
TypeOK ==
  /\ rows \subseteq 1..last
  /\ of \in [Row -> Plan]
  /\ state \in [Row -> {"able", "disable"}]
  /\ cron \in [Row -> Cron]
  /\ details \in [Row -> {"none", "part", "all"}]
  /\ last \in 0..MaxRow
  /\ job \in [Plan -> [trigger : {"none", "waiting", "paused"}, row : 0..last, cron : Cron]]
  /\ at \in [Actor -> [op    : Users \cup {"none", "fire", "event", "execute"},
                       step  : Steps,
                       row   : 0..last,
                       todo  : SUBSET Plan,
                       built : SUBSET (1..last)]]
  /\ started \subseteq 1..last
  /\ trouble \subseteq Troubles

Init ==
  /\ rows = {} /\ last = 0
  /\ of \in [Row -> {CHOOSE p \in Plan : TRUE}]
  /\ state = [r \in Row |-> "able"]
  /\ cron = [r \in Row |-> "old"]
  /\ details = [r \in Row |-> "none"]
  /\ job = [p \in Plan |-> NoJob]
  /\ at = [a \in Actor |-> Idle]
  /\ started = {}
  /\ trouble = {}

-----------------------------------------------------------------------------
(* The steps of an actor and the trouble its operation makes.               *)

(* The plans an actor's operation is about. *)
Concerns(a) ==
  at[a].todo \cup {of[r] : r \in (at[a].built \cup {at[a].row}) \ {0}}

Quiet(p) == \A a \in Actor : p \notin Concerns(a)

(* What actor a makes of the operations on the plans ps that are under way
   when it begins op. *)
Clash(a, op, ps) ==
  LET others == {at[b].op : b \in {c \in Actor \ {a} : Concerns(c) \cap ps # {}}}
      switch == {"pause", "resume"}
      start  == {"fire", "event"}
  IN  {k \in {"builds", "overlap", "raced"} :
         \/ k = "builds" /\ op \in Builds /\ others \cap Builds # {}
         \/ k = "overlap" /\ op \in Users /\ others \cap Users # {}
         \/ k = "raced" /\ \/ op \in start /\ others \cap switch # {}
                           \/ op \in switch /\ others \cap start # {}}

Trouble(new) == new \subseteq Troubles /\ trouble' = trouble \cup new

(* Actor a enters op on row r at its first step. *)
Begin(a, op, r, step) ==
  /\ at[a] = Idle
  /\ at' = [at EXCEPT ![a] = [op |-> op, step |-> step, row |-> r, todo |-> {}, built |-> {}]]
  /\ UNCHANGED <<table, job, started>>

Is(a, op, step) == at[a].op = op /\ at[a].step = step

Go(a, step) == at' = [at EXCEPT ![a].step = step]
Return(a)   == at' = [at EXCEPT ![a] = Idle]

(* Mutant of Rows: a query that asks for the able rows only. *)
RowsAble(p) == {r \in rows : of[r] = p /\ state[r] = "able"}

(* queryJobPlan *)
Rows(p) == {r \in rows : of[r] = p}

-----------------------------------------------------------------------------
(* The statements and the calls of Quartz.                                  *)

SetState(r, s) ==
  /\ state' = IF r \in rows THEN [state EXCEPT ![r] = s] ELSE state
  /\ UNCHANGED <<rows, of, cron, details, last, job, started, trouble>>

SetDetails(r, d) ==
  /\ details' = [details EXCEPT ![r] = d]
  /\ UNCHANGED <<rows, of, state, cron, last, job, started, trouble>>

(* pauseTrigger, resumeTrigger and deleteJob do nothing where there is no
   such trigger. *)
SetTrigger(p, t) ==
  /\ job' = IF job[p] = NoJob THEN job ELSE [job EXCEPT ![p].trigger = t]
  /\ UNCHANGED <<table, started, trouble>>

DeleteJob(p) ==
  /\ job' = [job EXCEPT ![p] = NoJob]
  /\ UNCHANGED <<table, started, trouble>>

(* No statement that changes a row, and no call of Quartz. *)
Look == UNCHANGED <<table, job, started, trouble>>

-----------------------------------------------------------------------------
(* submitJobPlan: the plans of a file are saved one after the other, then   *)
(* their jobs are built.                                                    *)

Submission(step, r, todo, built) ==
  [op |-> "submit", step |-> step, row |-> r, todo |-> todo, built |-> built]

Current(a) == CHOOSE p \in at[a].todo : TRUE

(* isJobPlansExist refuses the file if a row of one of its plans is there. *)
Submit(a, ps) ==
  /\ at[a] = Idle
  /\ ps # {}
  /\ \A p \in ps : Rows(p) = {}
  /\ last + Cardinality(ps) <= MaxRow
  /\ at' = [at EXCEPT ![a] = Submission("clear", 0, ps, {})]
  /\ Trouble(Clash(a, "submit", ps))
  /\ UNCHANGED <<table, job, started>>

(* saveJobPlan looks for a row of the plan again, to delete it first. *)
Clear(a) ==
  /\ Is(a, "submit", "clear")
  /\ \/ Rows(Current(a)) = {} /\ Go(a, "insert")
     \/ /\ Rows(Current(a)) # {}
        /\ \E r \in Rows(Current(a)) :
             /\ \A q \in Rows(Current(a)) : q <= r
             /\ at' = [at EXCEPT ![a] = Submission("deleteRow", r, at[a].todo, at[a].built)]
  /\ Look

(* Mutant of Insert: the ID of the new row is not set in the plan. *)
InsertNoId(a) ==
  /\ Is(a, "submit", "insert")
  /\ last < MaxRow
  /\ last' = last + 1
  /\ rows' = rows \cup {last'}
  /\ of' = [of EXCEPT ![last'] = Current(a)]
  /\ Go(a, "insertNode")
  /\ UNCHANGED <<state, cron, details, job, started, trouble>>

Insert(a) ==
  /\ Is(a, "submit", "insert")
  /\ last < MaxRow
  /\ last' = last + 1
  /\ rows' = rows \cup {last'}
  /\ of' = [of EXCEPT ![last'] = Current(a)]
  /\ at' = [at EXCEPT ![a] = Submission("insertNode", last', at[a].todo, at[a].built)]
  /\ UNCHANGED <<state, cron, details, job, started, trouble>>

InsertNode(a) ==
  /\ Is(a, "submit", "insertNode")
  /\ Go(a, "insertRest")
  /\ SetDetails(at[a].row, "part")

(* The last node of a plan is stored: the next plan, or the jobs. *)
Saved(a) ==
  LET todo == at[a].todo \ {Current(a)}
  IN  Submission(IF todo = {} THEN "unschedule" ELSE "clear", 0, todo,
                 at[a].built \cup {at[a].row})

InsertRest(a) ==
  /\ Is(a, "submit", "insertRest")
  /\ at' = [at EXCEPT ![a] = Saved(a)]
  /\ SetDetails(at[a].row, "all")

Building(a) == CHOOSE r \in at[a].built : TRUE

Unschedule(a) ==
  /\ Is(a, "submit", "unschedule")
  /\ Go(a, "schedule")
  /\ DeleteJob(of[Building(a)])

Built(a) ==
  LET built == at[a].built \ {Building(a)}
  IN  IF built = {} THEN Idle ELSE Submission("unschedule", 0, {}, built)

(* scheduleJob refuses a job whose key exists; a plan without a time has no
   builder.  Either way there is an alarm and nothing else. *)
Schedule(a) ==
  /\ Is(a, "submit", "schedule")
  /\ LET r == Building(a)
     IN  job' = IF of[r] \in Timed /\ job[of[r]] = NoJob
                THEN [job EXCEPT ![of[r]] = [trigger |-> "waiting", row |-> r, cron |-> "old"]]
                ELSE job
  /\ at' = [at EXCEPT ![a] = Built(a)]
  /\ UNCHANGED <<table, started, trouble>>

-----------------------------------------------------------------------------
(* deleteJobExecutionPlan: the job of Quartz first, then the rows.          *)

Delete(a, r) ==
  /\ r \in rows
  /\ Begin(a, "delete", r, "deleteJob")
  /\ Trouble(Clash(a, "delete", {of[r]}))

(* Mutant of Unbuild: the trigger is paused, the job stays. *)
UnbuildPauses(a) ==
  /\ Is(a, "delete", "deleteJob")
  /\ Go(a, "deleteRow")
  /\ SetTrigger(of[at[a].row], "paused")

Unbuild(a) ==
  /\ Is(a, "delete", "deleteJob")
  /\ Go(a, "deleteRow")
  /\ DeleteJob(of[at[a].row])

(* The values of a row that is gone are those of a new one. *)
DeleteRow(a) ==
  /\ at[a].step = "deleteRow"
  /\ rows' = rows \ {at[a].row}
  /\ state' = [state EXCEPT ![at[a].row] = "able"]
  /\ cron' = [cron EXCEPT ![at[a].row] = "old"]
  /\ Go(a, "deleteNodes")
  /\ UNCHANGED <<of, details, last, job, started, trouble>>

DeleteNodes(a) ==
  /\ at[a].step = "deleteNodes"
  /\ Go(a, "deleteMetas")
  /\ SetDetails(at[a].row, "part")

DeleteMetas(a) ==
  /\ at[a].step = "deleteMetas"
  /\ IF at[a].op = "submit" THEN Go(a, "insert") ELSE Return(a)
  /\ SetDetails(at[a].row, "none")

-----------------------------------------------------------------------------
(* pauseJobExecutionPlan, from the web and from a run that has failed.      *)

Pause(a, r) ==
  /\ r \in rows
  /\ Begin(a, "pause", r, "pauseJob")
  /\ Trouble(Clash(a, "pause", {of[r]}))

(* The run brings the plan it was started with, which is not read again. *)
PauseRun(a, r) ==
  /\ r \in started
  /\ Begin(a, "pause", r, "pauseJob")
  /\ Trouble(Clash(a, "pause", {of[r]}) \cup (IF r \in rows THEN {} ELSE {"stale"}))

(* Mutant of PauseJob: Quartz is not told. *)
PauseRowOnly(a) ==
  /\ Is(a, "pause", "pauseJob")
  /\ Go(a, "disable")
  /\ Look

PauseJob(a) ==
  /\ Is(a, "pause", "pauseJob")
  /\ Go(a, "disable")
  /\ SetTrigger(of[at[a].row], "paused")

Disable(a) ==
  /\ Is(a, "pause", "disable")
  /\ Return(a)
  /\ SetState(at[a].row, "disable")

(* resumeJobExecutionPlan *)
Resume(a, r) ==
  /\ r \in rows
  /\ Begin(a, "resume", r, "resumeJob")
  /\ Trouble(Clash(a, "resume", {of[r]}))

ResumeJob(a) ==
  /\ Is(a, "resume", "resumeJob")
  /\ Go(a, "enable")
  /\ SetTrigger(of[at[a].row], "waiting")

Enable(a) ==
  /\ Is(a, "resume", "enable")
  /\ Return(a)
  /\ SetState(at[a].row, "able")

(* changeJobExecutionPlanCronExpression *)
Change(a, r) ==
  /\ r \in rows
  /\ Begin(a, "change", r, "setCron")
  /\ Trouble(Clash(a, "change", {of[r]}))

(* The row is changed before anyone asks whether the trigger can be. *)
SetCron(a, c) ==
  /\ Is(a, "change", "setCron")
  /\ LET r == at[a].row
     IN  /\ cron' = IF r \in rows THEN [cron EXCEPT ![r] = c] ELSE cron
         /\ Trouble(IF c = "new" /\ job[of[r]].trigger = "paused" THEN {"revived"} ELSE {})
  /\ Go(a, IF c = "new" THEN "updateJob" ELSE "rejectJob")
  /\ UNCHANGED <<rows, of, state, details, last, job, started>>

(* updateJob: rescheduleJob stores the trigger anew, and it waits. *)
UpdateJob(a) ==
  /\ Is(a, "change", "updateJob")
  /\ LET p == of[at[a].row]
     IN  job' = IF job[p] = NoJob THEN job
                ELSE [job EXCEPT ![p].trigger = "waiting", ![p].cron = "new"]
  /\ Return(a)
  /\ UNCHANGED <<table, started, trouble>>

(* updateJob returns false: no change of an event, a cast or a parse that
   fails.  The row stays as it is. *)
RejectJob(a) ==
  /\ Is(a, "change", "rejectJob")
  /\ Return(a)
  /\ Look

-----------------------------------------------------------------------------
(* The starts: by Quartz, by an event and from the web.                     *)

Fire(a, p) ==
  /\ job[p].trigger = "waiting"
  /\ Begin(a, "fire", job[p].row, "read")
  /\ Trouble(Clash(a, "fire", {p}))

(* The row says that the plan waits for an event: as in the file, or since its
   type was changed. *)
Awaits(r) == cron[r] = "unfit" \/ (cron[r] = "old" /\ of[r] \notin Timed)

(* EventJob.execute has found the row of a plan that waits for an event. *)
Occur(a, r) ==
  /\ r \in rows /\ state[r] = "able" /\ Awaits(r)
  /\ Begin(a, "event", r, "read")
  /\ Trouble(Clash(a, "event", {of[r]}))

(* executeQJob *)
Execute(a, r) ==
  /\ r \in rows
  /\ Begin(a, "execute", r, "load")
  /\ UNCHANGED trouble

(* publishEvent *)
Read(a) ==
  /\ at[a].step = "read"
  /\ Go(a, IF at[a].row \in rows /\ state[at[a].row] = "disable" THEN "query" ELSE "load")
  /\ Look

(* startJobPlan: loadJobExecutionPlan reads the row, its nodes and their jobs. *)
Load(a) ==
  /\ at[a].step = "load"
  /\ IF at[a].row \in rows THEN Go(a, "loadNodes") ELSE Return(a)
  /\ Look

(* A plan without nodes cannot be started; one with some of them can. *)
LoadNodes(a) ==
  /\ at[a].step = "loadNodes"
  /\ started' = IF details[at[a].row] = "none" THEN started ELSE started \cup {at[a].row}
  /\ Return(a)
  /\ UNCHANGED <<table, job, trouble>>

(* disableJobExecutionPlans, of a plan that was found disabled. *)
Query(a) ==
  /\ at[a].step = "query"
  /\ IF at[a].row \in rows THEN Go(a, "removeJob") ELSE Return(a)
  /\ Look

RemoveJob(a) ==
  /\ at[a].step = "removeJob"
  /\ Go(a, "removed")
  /\ DeleteJob(of[at[a].row])

Removed(a) ==
  /\ at[a].step = "removed"
  /\ Return(a)
  /\ SetState(at[a].row, "disable")

-----------------------------------------------------------------------------
(* The call or the statement of the step fails.  A build goes on with the   *)
(* next step; QuartzJob tries publishEvent again, at most three times, but  *)
(* a failed start or a failed deletion of the job is not reported to it;    *)
(* everything else is given up with the rest undone.  A deletion of the job *)
(* that fails may have paused its trigger.  A crash is a failure of all.    *)
Abandon(a) ==
  LET s == at[a].step
  IN  CASE s = "unschedule"                  -> {[at[a] EXCEPT !.step = "schedule"]}
        [] s = "schedule"                    -> {Built(a)}
        [] /\ s \in {"read", "query", "removed"}
           /\ at[a].op = "fire"              -> {[at[a] EXCEPT !.step = "read"], Idle}
        [] OTHER                             -> {Idle}

Deleting(a) ==
  CASE at[a].step = "unschedule"               -> {of[Building(a)]}
    [] at[a].step \in {"deleteJob", "removeJob"} -> {of[at[a].row]}
    [] OTHER                                   -> {}

Fail(a) ==
  /\ at[a] # Idle
  /\ Trouble({"fault"})
  /\ \E next \in Abandon(a) : at' = [at EXCEPT ![a] = next]
  /\ \/ UNCHANGED job
     \/ \E p \in Deleting(a) : job[p] # NoJob /\ job' = [job EXCEPT ![p].trigger = "paused"]
  /\ UNCHANGED <<table, started>>

-----------------------------------------------------------------------------
Request(a) ==
  \/ \E ps \in SUBSET Plan : Submit(a, ps)
  \/ \E r \in Row : \/ Delete(a, r) \/ Pause(a, r) \/ PauseRun(a, r)
                    \/ Resume(a, r) \/ Change(a, r) \/ Occur(a, r) \/ Execute(a, r)
  \/ \E p \in Plan : Fire(a, p)

Step(a) ==
  \/ Clear(a) \/ Insert(a) \/ InsertNode(a) \/ InsertRest(a) \/ Unschedule(a) \/ Schedule(a)
  \/ Unbuild(a) \/ DeleteRow(a) \/ DeleteNodes(a) \/ DeleteMetas(a)
  \/ PauseJob(a) \/ Disable(a) \/ ResumeJob(a) \/ Enable(a)
  \/ (\E c \in {"new", "unfit"} : SetCron(a, c)) \/ UpdateJob(a) \/ RejectJob(a)
  \/ Read(a) \/ Load(a) \/ LoadNodes(a) \/ Query(a) \/ RemoveJob(a) \/ Removed(a)

Next == \E a \in Actor : Request(a) \/ Step(a) \/ Fail(a)

Spec == Init /\ [][Next]_vars

-----------------------------------------------------------------------------
(* A Quartz job belongs to a plan that is stored, and stored whole, whatever
   fails and whatever overlaps except two submissions or deletions: the rows
   are complete before the job is built and are deleted after it.  If not,
   publishEvent would find nothing to start, time after time, and nobody
   would delete the job. *)
NoGhost ==
  "builds" \notin trouble =>
    \A p \in Plan : job[p] # NoJob =>
      /\ p \in Timed
      /\ job[p].row \in rows
      /\ of[job[p].row] = p
      /\ details[job[p].row] = "all"

(* isJobPlansExist keeps a plan from being stored twice: submitJobPlan asks
   before it saves, and only a second submission between the two gets past. *)
OneRow ==
  "builds" \notin trouble => \A r, q \in rows : of[r] = of[q] => r = q

Whole(r) ==
  /\ job[of[r]].row = r
  /\ cron[r] = "unfit" \/ job[of[r]].cron = cron[r]
  /\ job[of[r]].trigger = IF state[r] = "able" THEN "waiting" ELSE "paused"

(* What the web shows of a plan is what Quartz does: when no operation on it
   is under way, a plan shown able waits for the time shown, and one shown
   disable is silent and can be resumed.  A time that updateJob refused stays
   in the row and says nothing; the rest holds for such a plan too, although
   it may now be started by an event as well.  Nothing keeps the row and the
   job together but the order of the calls; each kind of trouble breaks them
   apart. *)
InStep ==
  trouble = {} => \A r \in rows : of[r] \in Timed /\ Quiet(of[r]) => Whole(r)

(* A plan that was resumed runs again.  The resumption sets the trigger
   before the row; a start in between reads "disable" and deletes the job
   that was just resumed. *)
AbleFires ==
  trouble \subseteq {"raced"} =>
    \A r \in rows : of[r] \in Timed /\ Quiet(of[r]) /\ state[r] = "able" =>
      job[of[r]].trigger = "waiting"

=============================================================================
