---------------------------- MODULE JobPlanProofs ----------------------------
(***************************************************************************)
(* Proofs about JobPlan, for any plans, any number of threads and rows,    *)
(* and any kinds of trouble.  The invariant comes in three layers: what is *)
(* always true of types and of the place an operation is at (Typed), what  *)
(* is true unless two submissions or deletions of a plan overlapped        *)
(* (Sound), and what is true while there was no trouble at all (Calm).     *)
(***************************************************************************)
EXTENDS JobPlan, TLAPS

Inserting == {"insertNode", "insertRest"}
Erasing   == {"deleteRow", "deleteNodes", "deleteMetas"}
Starts    == {"fire", "event"}

\* What an operation holds at each of its steps.
Fits(e) ==
  /\ e.op = "none" => e = Idle
  /\ e.op = "submit" =>
       \/ e.step \in {"clear", "insert"} /\ e.todo # {}
       \/ e.step \in Inserting \cup Erasing /\ e.todo # {} /\ e.row # 0
       \/ e.step \in {"unschedule", "schedule"} /\ e.todo = {} /\ e.row = 0 /\ e.built # {}
  /\ e.op \notin {"none", "submit"} => e.todo = {} /\ e.built = {} /\ e.row # 0
  /\ e.op = "delete" => e.step \in {"deleteJob"} \cup Erasing
  /\ e.op = "pause" => e.step \in {"pauseJob", "disable"}
  /\ e.op = "resume" => e.step \in {"resumeJob", "enable"}
  /\ e.op = "change" => e.step \in {"setCron", "updateJob", "rejectJob"}
  /\ e.op \in {"fire", "event"} =>
       e.step \in {"read", "load", "loadNodes", "query", "removeJob", "removed"}
  /\ e.op = "execute" => e.step \in {"load", "loadNodes"}

Shape == \A a \in Actor : Fits(at[a])

\* A job has a row, and a row that is not given yet the values of a new one.
Rested ==
  /\ \A p \in Plan : job[p] # NoJob => job[p].row # 0
  /\ \A r \in Row : r > last => state[r] = "able" /\ cron[r] = "old"

Typed == TypeOK /\ Shape /\ Rested

\* What NoGhost and OneRow say.
Ghostless ==
  \A p \in Plan : job[p] # NoJob =>
    /\ p \in Timed
    /\ job[p].row \in rows
    /\ of[job[p].row] = p
    /\ details[job[p].row] = "all"

Single == \A r, q \in rows : of[r] = of[q] => r = q

\* No two submissions or deletions are about the same plan.
Apart ==
  \A a, b \in Actor : \A p \in Plan :
    /\ a # b /\ at[a].op \in Builds /\ at[b].op \in Builds
    /\ p \in Concerns(a)
    => p \notin Concerns(b)

\* The plans a submission has still to store have neither row nor job, the
\* one it is storing has its row, and those it has stored are stored whole.
Stores(a) ==
  /\ at[a].step \notin Erasing
  /\ at[a].step \in {"clear", "insert"} => at[a].row = 0
  /\ \A p \in at[a].todo : job[p] = NoJob
  /\ \A r \in rows : of[r] \in at[a].todo => at[a].step \in Inserting /\ r = at[a].row
  /\ at[a].step \in Inserting => /\ at[a].row \in rows \ at[a].built
                                 /\ of[at[a].row] = Current(a)
  /\ \A r \in at[a].built : r \in rows /\ details[r] = "all"

Storing == \A a \in Actor : at[a].op = "submit" => Stores(a)

\* The plan whose rows are being deleted has no job any more.
Deleted ==
  \A a \in Actor : at[a].op = "delete" /\ at[a].step \in Erasing =>
    job[of[at[a].row]] = NoJob

Core  == Ghostless /\ Single /\ Apart /\ Storing /\ Deleted
Sound == "builds" \notin trouble => Core

\* No two operations of users are about the same plan, and no start is about a
\* plan that is being paused or resumed.
Alone ==
  \A a, b \in Actor : \A p \in Plan :
    /\ a # b /\ at[a].op \in Users /\ at[b].op \in Users \cup Starts
    /\ at[b].op \in Starts => at[a].op \in {"pause", "resume"}
    /\ p \in Concerns(a)
    => p \notin Concerns(b)

\* Quartz and the events start what is able, and find it so.
Fires(a) ==
  at[a].op \in Starts => /\ at[a].step \in {"read", "load", "loadNodes"}
                         /\ at[a].row \in rows => state[at[a].row] = "able"

\* The rows of a submission are as they were inserted, and have no job yet.
New(r) == of[r] \in Timed => state[r] = "able" /\ cron[r] = "old" /\ job[of[r]] = NoJob

Waits(a) ==
  at[a].op = "submit" => /\ at[a].step \in Inserting => New(at[a].row)
                         /\ \A r \in at[a].built : New(r)

\* How far the row and the job of a plan are apart in the middle of an operation.
Half(a) ==
  LET r == at[a].row
      j == job[of[r]]
      s == at[a].step
  IN  /\ s \notin {"deleteNodes", "deleteMetas"} => r \in rows
      /\ s \in {"deleteJob", "pauseJob", "resumeJob", "setCron", "rejectJob"} => Whole(r)
      /\ s \in {"disable", "enable"} =>
           /\ j.row = r /\ (cron[r] = "unfit" \/ j.cron = cron[r])
           /\ j.trigger = IF s = "disable" THEN "paused" ELSE "waiting"
      /\ s = "updateJob" =>
           j.row = r /\ j.trigger = "waiting" /\ state[r] = "able" /\ cron[r] = "new"
      /\ s \in {"deleteNodes", "deleteMetas"} => Rows(of[r]) = {}

Halfway(a) ==
  at[a].op \in {"delete", "pause", "resume", "change"} /\ of[at[a].row] \in Timed => Half(a)

Orderly == \A a \in Actor : Fires(a) /\ Waits(a) /\ Halfway(a)

\* Everywhere else they agree.
Agreed ==
  \A r \in rows :
    of[r] \in Timed /\ (\A a \in Actor : at[a].op \in Users => of[r] \notin Concerns(a))
    => Whole(r)

Ease == Alone /\ Orderly /\ Agreed
Calm == trouble = {} => Ease

PInv == Typed /\ Sound /\ Calm

-----------------------------------------------------------------------------
(* Where an actor gets to. *)

Entry == [op    : Users \cup {"none", "fire", "event", "execute"},
          step  : Steps,
          row   : 0..last,
          todo  : SUBSET Plan,
          built : SUBSET (1..last)]

\* Actor a is at e now, and the others are where they were.
Moved(a, e) ==
  /\ at' \in [Actor -> Entry]
  /\ at'[a] = e
  /\ \A b \in Actor \ {a} : at'[b] = at[b]

\* What TypeOK says of the actors.
LEMMA EntryType == TypeOK => at \in [Actor -> Entry]
BY DEF TypeOK, Entry

\* One place changes.
LEMMA Move ==
  ASSUME TypeOK, NEW a \in Actor, NEW e \in Entry, at' = [at EXCEPT ![a] = e]
  PROVE  Moved(a, e)
BY EntryType DEF Moved

\* The next step of an operation.
Onward(a, s) == [op |-> at[a].op, step |-> s, row |-> at[a].row, todo |-> at[a].todo,
                 built |-> at[a].built]

\* Go leads to it.
LEMMA GoMoves ==
  ASSUME TypeOK, NEW a \in Actor, NEW s \in Steps, Go(a, s)
  PROVE  Moved(a, Onward(a, s))
<1> DEFINE e == Onward(a, s)
<1>1. at[a] \in Entry
  BY EntryType
<1>2. e \in Entry /\ e = [at[a] EXCEPT !.step = s]
  BY <1>1 DEF Entry, Onward
<1>3. at' = [at EXCEPT ![a] = e]
  BY <1>2 DEF Go
<1> QED BY <1>2, <1>3, Move

\* The end of an operation.
LEMMA ReturnMoves ==
  ASSUME TypeOK, NEW a \in Actor, Return(a)
  PROVE  Moved(a, Idle)
<1>1. Idle \in Entry
  BY PlanAssumption DEF Idle, Entry, Steps, TypeOK
<1> QED BY <1>1, Move DEF Return

\* The beginning of an operation on one row.
LEMMA BeginMoves ==
  ASSUME TypeOK, NEW a \in Actor, NEW op \in Users \cup {"fire", "event", "execute"},
         NEW r \in 1..last, NEW s \in Steps, Begin(a, op, r, s)
  PROVE  Moved(a, [op |-> op, step |-> s, row |-> r, todo |-> {}, built |-> {}])
<1> DEFINE e == [op |-> op, step |-> s, row |-> r, todo |-> {}, built |-> {}]
<1>2. last \in Nat
  BY PlanAssumption DEF TypeOK
<1>3. e \in Entry
  BY <1>2 DEF Entry
<1> QED BY <1>3, Move DEF Begin

\* The row of an operation, and the plan and the row a submission is at.
LEMMA RowType ==
  ASSUME TypeOK, NEW a \in Actor, at[a].row # 0
  PROVE  at[a].row \in 1..last /\ at[a].row \in Row /\ of[at[a].row] \in Plan
BY PlanAssumption DEF TypeOK, Row

\* The plan a submission is storing.
LEMMA CurrentType ==
  ASSUME TypeOK, NEW a \in Actor, at[a].todo # {}
  PROVE  Current(a) \in at[a].todo /\ Current(a) \in Plan
BY DEF TypeOK, Current

\* The row whose job it is building.
LEMMA BuildingType ==
  ASSUME TypeOK, NEW a \in Actor, at[a].built # {}
  PROVE  /\ Building(a) \in at[a].built
         /\ Building(a) \in 1..last /\ Building(a) \in Row
         /\ of[Building(a)] \in Plan
<1>1. Building(a) \in at[a].built
  BY DEF Building
<1> QED BY <1>1, PlanAssumption DEF TypeOK, Row
-----------------------------------------------------------------------------
(* What happens to the jobs. *)

Jobs == [Plan -> [trigger : {"none", "waiting", "paused"}, row : 0..last, cron : Cron]]

\* pauseTrigger and resumeTrigger change the trigger of a job that is there.
LEMMA TriggerType ==
  ASSUME job \in Jobs, NEW p \in Plan, NEW t \in {"waiting", "paused"},
         job' = IF job[p] = NoJob THEN job ELSE [job EXCEPT ![p].trigger = t]
  PROVE  /\ job' \in Jobs
         /\ \A q \in Plan : /\ job'[q] = NoJob <=> job[q] = NoJob
                            /\ job'[q].row = job[q].row
                            /\ job'[q].cron = job[q].cron
                            /\ job'[q].trigger = IF q = p /\ job[q] # NoJob THEN t ELSE job[q].trigger
<1>1. CASE job[p] = NoJob
  BY <1>1
<1>2. CASE job[p] # NoJob
  <2> DEFINE k == [trigger |-> t, row |-> job[p].row, cron |-> job[p].cron]
  <2>1. job[p] \in [trigger : {"none", "waiting", "paused"}, row : 0..last, cron : Cron]
    BY DEF Jobs
  <2>2. /\ k \in [trigger : {"none", "waiting", "paused"}, row : 0..last, cron : Cron]
        /\ k = [job[p] EXCEPT !.trigger = t]
    BY <2>1
  <2>3. job' = [job EXCEPT ![p] = k]
    BY <1>2, <2>2
  <2>4. k # NoJob
    BY DEF NoJob
  <2>5. job'[p] = k /\ job' \in Jobs /\ \A q \in Plan \ {p} : job'[q] = job[q]
    BY <2>2, <2>3 DEF Jobs
  <2> QED BY <2>4, <2>5, <1>2
<1> QED BY <1>1, <1>2

\* deleteJob takes it away.
LEMMA DeleteType ==
  ASSUME job \in Jobs, NEW p \in Plan, job' = [job EXCEPT ![p] = NoJob], last \in Nat
  PROVE  /\ job' \in Jobs
         /\ job'[p] = NoJob
         /\ \A q \in Plan \ {p} : job'[q] = job[q]
<1>1. NoJob \in [trigger : {"none", "waiting", "paused"}, row : 0..last, cron : Cron]
  BY DEF NoJob, Cron
<1> QED BY <1>1 DEF Jobs

\* rescheduleJob puts a new trigger in the place of the old one.
LEMMA UpdateType ==
  ASSUME job \in Jobs, NEW p \in Plan,
         job' = IF job[p] = NoJob THEN job
                ELSE [job EXCEPT ![p].trigger = "waiting", ![p].cron = "new"]
  PROVE  /\ job' \in Jobs
         /\ \A q \in Plan : /\ job'[q] = NoJob <=> job[q] = NoJob
                            /\ job'[q].row = job[q].row
         /\ \A q \in Plan \ {p} : job'[q] = job[q]
         /\ job[p] # NoJob => job'[p].trigger = "waiting" /\ job'[p].cron = "new"
<1>1. CASE job[p] = NoJob
  BY <1>1
<1>2. CASE job[p] # NoJob
  <2> DEFINE J == [trigger : {"none", "waiting", "paused"}, row : 0..last, cron : Cron]
             k == [[job[p] EXCEPT !.trigger = "waiting"] EXCEPT !.cron = "new"]
  <2>1. job[p] \in J
    BY DEF Jobs
  <2>2. [job[p] EXCEPT !.trigger = "waiting"] \in J
    BY <2>1
  <2>3. k \in J /\ k.trigger = "waiting" /\ k.cron = "new" /\ k.row = job[p].row
    BY <2>1, <2>2 DEF Cron
  <2>4. job' = [job EXCEPT ![p] = k]
    BY <1>2
  <2>5. k # NoJob
    BY <2>3 DEF NoJob
  <2>6. job'[p] = k /\ job' \in Jobs /\ \A q \in Plan \ {p} : job'[q] = job[q]
    BY <2>3, <2>4 DEF Jobs
  <2> QED BY <2>3, <2>5, <2>6, <1>2
<1> QED BY <1>1, <1>2

\* The job of a deletion that fails is that of a plan.
LEMMA DeletingType ==
  ASSUME Typed, NEW a \in Actor, NEW p \in Deleting(a)
  PROVE  p \in Plan
<1>0. TypeOK /\ Fits(at[a]) /\ at[a].op \in Users \cup {"none", "fire", "event", "execute"}
  BY DEF Typed, Shape, TypeOK
<1>1. CASE at[a].step = "unschedule"
  <2>1. at[a].built # {}
    BY <1>0, <1>1 DEF Fits, Idle, Users, Builds, Inserting, Erasing
  <2> QED BY <1>0, <1>1, <2>1, BuildingType DEF Deleting
<1>2. CASE at[a].step \in {"deleteJob", "removeJob"}
  <2>1. at[a].row # 0
    BY <1>0, <1>2 DEF Fits, Idle, Users, Builds, Inserting, Erasing
  <2> QED BY <1>0, <1>2, <2>1, RowType DEF Deleting
<1> QED BY <1>1, <1>2 DEF Deleting

-----------------------------------------------------------------------------
(* Types and shapes. *)

\* An operation on one row begins at its first step.
First == {<<"delete", "deleteJob">>, <<"pause", "pauseJob">>, <<"resume", "resumeJob">>,
          <<"change", "setCron">>, <<"fire", "read">>, <<"event", "read">>,
          <<"execute", "load">>}

\* Such an operation begins with the types and the shape it should have.
LEMMA BeginTyped ==
  ASSUME Typed, NEW a \in Actor, NEW op, NEW s, <<op, s>> \in First, NEW r \in 1..last,
         Begin(a, op, r, s), trouble' \subseteq Troubles
  PROVE  Typed' /\ Moved(a, [op |-> op, step |-> s, row |-> r, todo |-> {}, built |-> {}])
<1> DEFINE e == [op |-> op, step |-> s, row |-> r, todo |-> {}, built |-> {}]
<1>1. op \in Users \cup {"fire", "event", "execute"} /\ s \in Steps
  BY DEF First, Users, Builds, Steps
<1>2. Moved(a, e)
  BY <1>1, BeginMoves DEF Typed
<1>3. r # 0
  BY PlanAssumption DEF Typed, TypeOK
<1>4. Shape'
  BY <1>2, <1>3 DEF Typed, Shape, Fits, Moved, First
<1>5. TypeOK' /\ Rested'
  BY <1>2 DEF Typed, TypeOK, Rested, Begin, table, Moved, Entry
<1> QED BY <1>2, <1>4, <1>5 DEF Typed

\* The requests of users, of runs and of Quartz.
LEMMA RequestTyped ==
  ASSUME Typed, NEW a \in Actor, Request(a)
  PROVE  Typed'
<1> USE DEF Trouble
<1>1. ASSUME NEW ps \in SUBSET Plan, Submit(a, ps)
      PROVE  Typed'
  <2>1. Submission("clear", 0, ps, {}) \in Entry
    BY PlanAssumption DEF Entry, TypeOK, Typed, Users, Builds, Steps, Submission
  <2>2. Moved(a, Submission("clear", 0, ps, {}))
    BY <2>1, <1>1, Move DEF Submit, Typed
  <2>3. Shape'
    BY <2>2, <1>1 DEF Typed, Shape, Fits, Submit, Moved, Submission
  <2>4. TypeOK' /\ Rested'
    BY <2>2, <1>1 DEF Typed, Submit, Moved, TypeOK, Rested, table, Entry
  <2> QED BY <2>3, <2>4 DEF Typed
<1>2. ASSUME NEW r \in Row,
             \/ Delete(a, r) \/ Pause(a, r) \/ PauseRun(a, r) \/ Resume(a, r) \/ Change(a, r)
             \/ Occur(a, r) \/ Execute(a, r)
      PROVE  Typed'
  <2>1. r \in 1..last /\ trouble' \subseteq Troubles
    BY <1>2 DEF Typed, TypeOK, Delete, Pause, PauseRun, Resume, Change, Occur, Execute
  <2>2. \E op, s : <<op, s>> \in First /\ Begin(a, op, r, s)
    BY <1>2 DEF First, Delete, Pause, PauseRun, Resume, Change, Occur, Execute
  <2> QED BY <2>1, <2>2, BeginTyped
<1>3. ASSUME NEW p \in Plan, Fire(a, p)
      PROVE  Typed'
  <2>0. job[p] # NoJob
    BY <1>3 DEF Fire, NoJob
  <2>1. job[p].row \in 1..last
    <3>1. job[p].row \in 0..last /\ job[p].row # 0
      BY <2>0 DEF Typed, TypeOK, Rested
    <3> QED BY <3>1, PlanAssumption DEF Typed, TypeOK
  <2>a. trouble' \subseteq Troubles
    BY <1>3 DEF Typed, TypeOK, Fire
  <2>2. <<"fire", "read">> \in First
    BY DEF First
  <2> QED BY <1>3, <2>1, <2>a, <2>2, BeginTyped DEF Fire
<1> QED BY <1>1, <1>2, <1>3 DEF Request

\* A step that adds no row.
LEMMA KeepTyped ==
  ASSUME Typed, NEW a \in Actor, NEW e, Moved(a, e), Fits(e),
         rows' \subseteq rows, UNCHANGED <<of, last>>,
         state' \in [Row -> {"able", "disable"}], cron' \in [Row -> Cron],
         \A r \in Row : r > last => state'[r] = state[r] /\ cron'[r] = cron[r],
         details' \in [Row -> {"none", "part", "all"}],
         job' \in Jobs, \A p \in Plan : job'[p] # NoJob => job'[p].row # 0,
         started' \subseteq 1..last, trouble' \subseteq Troubles
  PROVE  Typed'
<1>1. Shape'
  BY DEF Typed, Shape, Moved
<1>2. TypeOK'
  BY DEF Typed, TypeOK, Moved, Entry, Jobs
<1>3. Rested'
  BY DEF Typed, Rested
<1> QED BY <1>1, <1>2, <1>3 DEF Typed

\* In particular one that changes neither the rows nor the jobs.
LEMMA LookTyped ==
  ASSUME Typed, NEW a \in Actor, NEW e, Moved(a, e), Fits(e),
         UNCHANGED <<table, job>>, started' \subseteq 1..last, trouble' \subseteq Troubles
  PROVE  Typed'
<1>1. UNCHANGED <<rows, of, state, cron, details, last>>
  BY DEF table
<1>2. job' \in Jobs /\ \A p \in Plan : job'[p] # NoJob => job'[p].row # 0
  BY DEF Typed, TypeOK, Rested, Jobs
<1> QED BY <1>1, <1>2, KeepTyped DEF Typed, TypeOK

\* One that changes only the trigger of a job, or deletes one.
LEMMA JobTyped ==
  ASSUME Typed, NEW a \in Actor, NEW e, Moved(a, e), Fits(e),
         UNCHANGED table, NEW p \in Plan,
         \/ DeleteJob(p)
         \/ \E t \in {"waiting", "paused"} : SetTrigger(p, t)
  PROVE  Typed'
<1>1. UNCHANGED <<rows, of, state, cron, details, last, started, trouble>>
  BY DEF table, DeleteJob, SetTrigger
<1>2. job \in Jobs /\ last \in Nat
  BY PlanAssumption DEF Typed, TypeOK, Jobs
<1>3. job' \in Jobs /\ \A q \in Plan : job'[q] # NoJob => job'[q].row # 0
  BY <1>2, DeleteType, TriggerType DEF Typed, Rested, DeleteJob, SetTrigger
<1> QED BY <1>1, <1>3, KeepTyped DEF Typed, TypeOK

\* One that changes the nodes of the row of its operation.
LEMMA DetailsTyped ==
  ASSUME Typed, NEW a \in Actor, NEW e, Moved(a, e), Fits(e),
         NEW d \in {"none", "part", "all"}, SetDetails(at[a].row, d)
  PROVE  Typed'
<1>1. details' \in [Row -> {"none", "part", "all"}]
  BY DEF SetDetails, Typed, TypeOK
<1>2. job' \in Jobs /\ \A p \in Plan : job'[p] # NoJob => job'[p].row # 0
  BY DEF SetDetails, Typed, TypeOK, Rested, Jobs
<1> QED BY <1>1, <1>2, KeepTyped DEF Typed, TypeOK, SetDetails

\* One that changes its state.
LEMMA StateTyped ==
  ASSUME Typed, NEW a \in Actor, NEW e, Moved(a, e), Fits(e),
         NEW s \in {"able", "disable"}, SetState(at[a].row, s)
  PROVE  Typed'
<1>1. /\ state' \in [Row -> {"able", "disable"}]
      /\ \A r \in Row : r > last => state'[r] = state[r]
  BY PlanAssumption DEF SetState, Typed, TypeOK, Row
<1>2. job' \in Jobs /\ \A p \in Plan : job'[p] # NoJob => job'[p].row # 0
  BY DEF SetState, Typed, TypeOK, Rested, Jobs
<1> QED BY <1>1, <1>2, KeepTyped DEF Typed, TypeOK, SetState

\* An idle actor fits.
LEMMA IdleFits == Fits(Idle)
BY DEF Fits, Idle

\* The steps that store the rows of a submission.
LEMMA StoreTyped ==
  ASSUME Typed, NEW a \in Actor, Clear(a) \/ Insert(a) \/ InsertNode(a) \/ InsertRest(a)
  PROVE  Typed'
<1>0. TypeOK /\ Fits(at[a]) /\ at[a] \in Entry /\ last \in Nat
  BY PlanAssumption, EntryType DEF Typed, Shape, TypeOK
<1>a. at[a].op = "submit" /\ at[a].todo # {}
  BY <1>0 DEF Fits, Inserting, Erasing, Clear, Insert, InsertNode, InsertRest, Is
<1>1. CASE Clear(a)
  <2>1. CASE Go(a, "insert")
    <3>1. Moved(a, Onward(a, "insert"))
      BY <1>0, <2>1, GoMoves DEF Steps
    <3>2. Fits(Onward(a, "insert"))
      BY <1>a DEF Fits, Onward
    <3> QED BY <1>1, <3>1, <3>2, LookTyped DEF Clear, Look, Typed, TypeOK
  <2>2. ASSUME NEW r \in Rows(Current(a)),
               at' = [at EXCEPT ![a] = Submission("deleteRow", r, at[a].todo, at[a].built)]
        PROVE  Typed'
    <3>1. r \in 1..last
      BY <2>2 DEF Rows, Typed, TypeOK
    <3>2. Submission("deleteRow", r, at[a].todo, at[a].built) \in Entry
      BY <1>0, <3>1 DEF Entry, Submission, Users, Builds, Steps
    <3>3. Moved(a, Submission("deleteRow", r, at[a].todo, at[a].built))
      BY <1>0, <2>2, <3>2, Move
    <3>4. Fits(Submission("deleteRow", r, at[a].todo, at[a].built))
      BY <1>a, <3>1 DEF Fits, Submission, Erasing
    <3> QED BY <1>1, <3>3, <3>4, LookTyped DEF Clear, Look, Typed, TypeOK
  <2> QED BY <1>1, <2>1, <2>2 DEF Clear
<1>2. CASE Insert(a)
  <2> DEFINE e == Submission("insertNode", last', at[a].todo, at[a].built)
  <2>1. last + 1 \in Row /\ last' = last + 1 /\ MaxRow \in Nat
    BY <1>0, <1>2, PlanAssumption DEF Insert, Row
  <2>2. Current(a) \in Plan
    BY <1>0, <1>a, CurrentType
  <2>3. of' \in [Row -> Plan] /\ rows' \subseteq 1..last' /\ last' \in 0..MaxRow
    BY <1>0, <1>2, <2>1, <2>2 DEF TypeOK, Insert, Row
  <2>4. job' \in Jobs'
    BY <1>0, <1>2, <2>1 DEF TypeOK, Insert, Jobs
  <2>5. at \in [Actor -> Entry']
    BY <1>0, <2>1 DEF TypeOK, Entry
  <2>6. e \in Entry'
    BY <1>0, <2>1, <2>5 DEF Entry, Steps, Submission, Users, Builds
  <2>7. at' \in [Actor -> Entry'] /\ at'[a] = e /\ \A b \in Actor \ {a} : at'[b] = at[b]
    BY <1>2, <2>5, <2>6 DEF Insert
  <2>8. TypeOK'
    BY <1>0, <1>2, <2>1, <2>3, <2>4, <2>7 DEF Insert, TypeOK, Entry, Jobs
  <2>9. Fits(e)
    BY <1>0, <1>a, <2>1 DEF Fits, Submission, Inserting
  <2>10. Shape'
    BY <2>7, <2>9 DEF Typed, Shape
  <2>11. Rested'
    BY <1>0, <1>2, <2>1 DEF Typed, Rested, Insert, Row
  <2> QED BY <2>8, <2>10, <2>11 DEF Typed
<1>3. CASE InsertNode(a)
  <2>1. Moved(a, Onward(a, "insertRest"))
    BY <1>0, <1>3, GoMoves DEF InsertNode, Steps
  <2>2. Fits(Onward(a, "insertRest"))
    BY <1>0, <1>3 DEF Fits, Onward, InsertNode, Is, Inserting, Erasing
  <2> QED BY <1>3, <2>1, <2>2, DetailsTyped DEF InsertNode
<1>4. CASE InsertRest(a)
  <2>1. at[a].row \in 1..last
    <3>1. at[a].row # 0
      BY <1>0, <1>4 DEF Fits, InsertRest, Is, Inserting, Erasing
    <3> QED BY <1>0, <3>1, RowType
  <2>2. Saved(a) \in Entry
    BY <1>0, <2>1 DEF Saved, Submission, Entry, Users, Builds, Steps
  <2>3. Moved(a, Saved(a))
    BY <1>0, <1>4, <2>2, Move DEF InsertRest
  <2>4. Fits(Saved(a))
    BY DEF Fits, Saved, Submission
  <2> QED BY <1>4, <2>3, <2>4, DetailsTyped DEF InsertRest
<1> QED BY <1>1, <1>2, <1>3, <1>4

\* What is left to build.
LEMMA BuiltType ==
  ASSUME Typed, NEW a \in Actor, at[a].op = "submit"
  PROVE  Built(a) \in Entry /\ Fits(Built(a))
<1>1. at[a] \in Entry /\ Idle \in Entry /\ last \in Nat
  BY PlanAssumption, EntryType DEF Typed, Idle, Entry, Steps, TypeOK
<1> DEFINE built == at[a].built \ {Building(a)}
<1>2. Submission("unschedule", 0, {}, built) \in Entry
  BY <1>1 DEF Submission, Entry, Users, Builds, Steps
<1>3. built # {} => Fits(Submission("unschedule", 0, {}, built))
  BY DEF Fits, Submission
<1> QED BY <1>1, <1>2, <1>3, IdleFits DEF Built

\* The steps that build the jobs.
LEMMA BuildTyped ==
  ASSUME Typed, NEW a \in Actor, Unschedule(a) \/ Schedule(a)
  PROVE  Typed'
<1>0. TypeOK /\ Fits(at[a]) /\ last \in Nat /\ job \in Jobs
  BY PlanAssumption DEF Typed, Shape, TypeOK, Jobs
<1>a. at[a].op = "submit" /\ at[a].built # {} /\ at[a].todo = {} /\ at[a].row = 0
  BY <1>0 DEF Fits, Unschedule, Schedule, Is, Inserting, Erasing
<1>b. Building(a) \in 1..last /\ of[Building(a)] \in Plan
  BY <1>0, <1>a, BuildingType
<1>1. CASE Unschedule(a)
  <2>1. Moved(a, Onward(a, "schedule"))
    BY <1>0, <1>1, GoMoves DEF Unschedule, Steps
  <2>2. Fits(Onward(a, "schedule"))
    BY <1>a DEF Fits, Onward
  <2>3. DeleteJob(of[Building(a)]) /\ UNCHANGED table
    BY <1>1 DEF Unschedule, DeleteJob
  <2> QED BY <1>b, <2>1, <2>2, <2>3, JobTyped
<1>2. CASE Schedule(a)
  <2>1. Built(a) \in Entry /\ Fits(Built(a))
    BY <1>a, BuiltType
  <2>2. Moved(a, Built(a))
    BY <1>0, <1>2, <2>1, Move DEF Schedule
  <2>3. UNCHANGED <<rows, of, state, cron, details, last, started, trouble>>
    BY <1>2 DEF Schedule, table
  <2>4. job' \in Jobs /\ \A p \in Plan : job'[p] # NoJob => job'[p].row # 0
    <3> DEFINE k == [trigger |-> "waiting", row |-> Building(a), cron |-> "old"]
    <3>1. k \in [trigger : {"none", "waiting", "paused"}, row : 0..last, cron : Cron] /\ k.row # 0
      BY <1>0, <1>b DEF Cron
    <3>2. job' = job \/ job' = [job EXCEPT ![of[Building(a)]] = k]
      BY <1>2 DEF Schedule
    <3>3. \A p \in Plan : job[p] # NoJob => job[p].row # 0
      BY DEF Typed, Rested
    <3> QED BY <1>0, <1>b, <3>1, <3>2, <3>3 DEF Jobs
  <2> QED BY <2>1, <2>2, <2>3, <2>4, KeepTyped DEF Typed, TypeOK
<1> QED BY <1>1, <1>2

\* The steps that delete a plan.
LEMMA DeleteTyped ==
  ASSUME Typed, NEW a \in Actor,
         Unbuild(a) \/ DeleteRow(a) \/ DeleteNodes(a) \/ DeleteMetas(a)
  PROVE  Typed'
<1>0. /\ TypeOK /\ Fits(at[a]) /\ last \in Nat
      /\ at[a].op \in Users \cup {"none", "fire", "event", "execute"}
  BY PlanAssumption DEF Typed, Shape, TypeOK
<1>a. at[a].op \in Builds /\ at[a].row # 0
  BY <1>0 DEF Fits, Idle, Unbuild, DeleteRow, DeleteNodes, DeleteMetas, Is, Inserting, Erasing,
              Builds, Users
<1>b. at[a].row \in 1..last /\ of[at[a].row] \in Plan
  BY <1>0, <1>a, RowType
<1>1. CASE Unbuild(a)
  <2>1. Moved(a, Onward(a, "deleteRow"))
    BY <1>0, <1>1, GoMoves DEF Unbuild, Steps
  <2>2. Fits(Onward(a, "deleteRow"))
    BY <1>0, <1>1 DEF Fits, Onward, Unbuild, Is, Erasing
  <2>3. DeleteJob(of[at[a].row]) /\ UNCHANGED table
    BY <1>1 DEF Unbuild, DeleteJob
  <2> QED BY <1>b, <2>1, <2>2, <2>3, JobTyped
<1>2. CASE DeleteRow(a)
  <2>1. Moved(a, Onward(a, "deleteNodes"))
    BY <1>0, <1>2, GoMoves DEF DeleteRow, Steps
  <2>2. Fits(Onward(a, "deleteNodes"))
    BY <1>0, <1>a, <1>2 DEF Fits, Onward, DeleteRow, Erasing, Inserting, Builds
  <2>3. /\ state' \in [Row -> {"able", "disable"}] /\ cron' \in [Row -> Cron]
        /\ \A r \in Row : r > last => state'[r] = state[r] /\ cron'[r] = cron[r]
    BY <1>0, <1>b, <1>2, PlanAssumption DEF DeleteRow, TypeOK, Row, Cron
  <2>4. job' \in Jobs /\ \A p \in Plan : job'[p] # NoJob => job'[p].row # 0
    BY <1>0, <1>2 DEF DeleteRow, Typed, TypeOK, Rested, Jobs
  <2> QED BY <1>0, <1>2, <2>1, <2>2, <2>3, <2>4, KeepTyped DEF DeleteRow, TypeOK
<1>3. CASE DeleteNodes(a)
  <2>1. Moved(a, Onward(a, "deleteMetas"))
    BY <1>0, <1>3, GoMoves DEF DeleteNodes, Steps
  <2>2. Fits(Onward(a, "deleteMetas"))
    BY <1>0, <1>a, <1>3 DEF Fits, Onward, DeleteNodes, Erasing, Inserting, Builds
  <2> QED BY <1>3, <2>1, <2>2, DetailsTyped DEF DeleteNodes
<1>4. CASE DeleteMetas(a)
  <2>1. CASE at[a].op = "submit"
    <3>1. Moved(a, Onward(a, "insert"))
      BY <1>0, <1>4, <2>1, GoMoves DEF DeleteMetas, Steps
    <3>2. Fits(Onward(a, "insert"))
      BY <1>0, <1>4, <2>1 DEF Fits, Onward, DeleteMetas
    <3> QED BY <1>4, <3>1, <3>2, DetailsTyped DEF DeleteMetas
  <2>2. CASE at[a].op # "submit"
    <3>1. Moved(a, Idle)
      BY <1>0, <1>4, <2>2, ReturnMoves DEF DeleteMetas
    <3> QED BY <1>4, <3>1, IdleFits, DetailsTyped DEF DeleteMetas
  <2> QED BY <2>1, <2>2
<1> QED BY <1>1, <1>2, <1>3, <1>4

\* The steps that pause, resume and change a plan.
LEMMA SwitchTyped ==
  ASSUME Typed, NEW a \in Actor,
         \/ PauseJob(a) \/ Disable(a) \/ ResumeJob(a) \/ Enable(a)
         \/ (\E c \in {"new", "unfit"} : SetCron(a, c)) \/ UpdateJob(a) \/ RejectJob(a)
  PROVE  Typed'
<1>0. TypeOK /\ Fits(at[a]) /\ last \in Nat /\ job \in Jobs
  BY PlanAssumption DEF Typed, Shape, TypeOK, Jobs
<1>a. at[a].op \in {"pause", "resume", "change"} /\ at[a].row # 0
  BY <1>0 DEF Fits, PauseJob, Disable, ResumeJob, Enable, SetCron, UpdateJob, RejectJob, Is
<1>b. at[a].row \in 1..last /\ at[a].row \in Row /\ of[at[a].row] \in Plan
  BY <1>0, <1>a, RowType
<1>1. CASE PauseJob(a)
  <2>1. Moved(a, Onward(a, "disable"))
    BY <1>0, <1>1, GoMoves DEF PauseJob, Steps
  <2>2. Fits(Onward(a, "disable"))
    BY <1>0, <1>1 DEF Fits, Onward, PauseJob, Is
  <2>3. SetTrigger(of[at[a].row], "paused") /\ UNCHANGED table
    BY <1>1 DEF PauseJob, SetTrigger
  <2> QED BY <1>b, <2>1, <2>2, <2>3, JobTyped
<1>2. CASE ResumeJob(a)
  <2>1. Moved(a, Onward(a, "enable"))
    BY <1>0, <1>2, GoMoves DEF ResumeJob, Steps
  <2>2. Fits(Onward(a, "enable"))
    BY <1>0, <1>2 DEF Fits, Onward, ResumeJob, Is
  <2>3. SetTrigger(of[at[a].row], "waiting") /\ UNCHANGED table
    BY <1>2 DEF ResumeJob, SetTrigger
  <2> QED BY <1>b, <2>1, <2>2, <2>3, JobTyped
<1>3. CASE Disable(a) \/ Enable(a)
  <2>1. Moved(a, Idle)
    BY <1>0, <1>3, ReturnMoves DEF Disable, Enable
  <2>2. \E s \in {"able", "disable"} : SetState(at[a].row, s)
    BY <1>3 DEF Disable, Enable
  <2> QED BY <2>1, <2>2, IdleFits, StateTyped
<1>4. ASSUME NEW c \in {"new", "unfit"}, SetCron(a, c)
      PROVE  Typed'
  <2>0. PICK s \in {"updateJob", "rejectJob"} : Go(a, s)
    BY <1>4 DEF SetCron
  <2>1. Moved(a, Onward(a, s))
    BY <1>0, <2>0, GoMoves DEF Steps
  <2>2. Fits(Onward(a, s))
    BY <1>0, <1>4 DEF Fits, Onward, SetCron, Is
  <2>3. /\ cron' \in [Row -> Cron]
        /\ \A r \in Row : r > last => cron'[r] = cron[r]
    BY <1>0, <1>b, <1>4, PlanAssumption DEF SetCron, TypeOK, Row, Cron
  <2>4. job' \in Jobs /\ \A p \in Plan : job'[p] # NoJob => job'[p].row # 0
    BY <1>0, <1>4 DEF SetCron, Typed, Rested
  <2>5. trouble' \subseteq Troubles
    BY <1>0, <1>4 DEF SetCron, Trouble, TypeOK
  <2> QED BY <1>0, <1>4, <2>1, <2>2, <2>3, <2>4, <2>5, KeepTyped DEF SetCron, TypeOK
<1>5. CASE UpdateJob(a)
  <2>1. Moved(a, Idle)
    BY <1>0, <1>5, ReturnMoves DEF UpdateJob
  <2>2. job' \in Jobs /\ \A q \in Plan : job'[q] # NoJob => job'[q].row # 0
    <3> DEFINE p == of[at[a].row]
    <3>1. job' = IF job[p] = NoJob THEN job
                 ELSE [job EXCEPT ![p].trigger = "waiting", ![p].cron = "new"]
      BY <1>5 DEF UpdateJob
    <3>2. /\ job' \in Jobs
          /\ \A q \in Plan : (job'[q] = NoJob <=> job[q] = NoJob) /\ job'[q].row = job[q].row
      BY <1>0, <1>b, <3>1, UpdateType
    <3> QED BY <3>2 DEF Typed, Rested
  <2>3. UNCHANGED <<rows, of, state, cron, details, last, started, trouble>>
    BY <1>5 DEF UpdateJob, table
  <2> QED BY <1>0, <2>1, <2>2, <2>3, IdleFits, KeepTyped DEF TypeOK
<1>6. CASE RejectJob(a)
  <2>1. Moved(a, Idle)
    BY <1>0, <1>6, ReturnMoves DEF RejectJob
  <2>2. UNCHANGED <<rows, of, state, cron, details, last, job, started, trouble>>
    BY <1>6 DEF RejectJob, Look, table
  <2>3. \A q \in Plan : job'[q] # NoJob => job'[q].row # 0
    BY <2>2 DEF Typed, Rested
  <2> QED BY <1>0, <2>1, <2>2, <2>3, IdleFits, KeepTyped DEF TypeOK
<1> QED BY <1>1, <1>2, <1>3, <1>4, <1>5, <1>6

\* The steps that start a plan, or remove it when it is disabled.
LEMMA StartTyped ==
  ASSUME Typed, NEW a \in Actor,
         \/ Read(a) \/ Load(a) \/ LoadNodes(a) \/ Query(a) \/ RemoveJob(a) \/ Removed(a)
  PROVE  Typed'
<1>0. TypeOK /\ Fits(at[a]) /\ last \in Nat
      /\ at[a].op \in Users \cup {"none", "fire", "event", "execute"}
  BY PlanAssumption DEF Typed, Shape, TypeOK
<1>a. at[a].op \in {"fire", "event", "execute"} /\ at[a].row # 0
  BY <1>0 DEF Fits, Idle, Read, Load, LoadNodes, Query, RemoveJob, Removed, Users, Builds, Is,
              Inserting, Erasing
<1>b. at[a].row \in 1..last /\ of[at[a].row] \in Plan
  BY <1>0, <1>a, RowType
<1>c. started \subseteq 1..last /\ trouble \subseteq Troubles
  BY <1>0 DEF TypeOK
<1>1. CASE Read(a)
  <2>1. PICK s \in {"query", "load"} : Go(a, s)
    BY <1>1 DEF Read
  <2>2. Moved(a, Onward(a, s))
    BY <1>0, <2>1, GoMoves DEF Steps
  <2>3. Fits(Onward(a, s))
    BY <1>0, <1>a, <1>1 DEF Fits, Onward, Read
  <2> QED BY <1>1, <1>c, <2>2, <2>3, LookTyped DEF Read, Look
<1>2. CASE Load(a)
  <2>1. CASE Return(a)
    BY <1>0, <1>2, <1>c, <2>1, ReturnMoves, IdleFits, LookTyped DEF Load, Look
  <2>2. CASE Go(a, "loadNodes")
    <3>1. Moved(a, Onward(a, "loadNodes"))
      BY <1>0, <2>2, GoMoves DEF Steps
    <3>2. Fits(Onward(a, "loadNodes"))
      BY <1>0, <1>a DEF Fits, Onward
    <3> QED BY <1>2, <1>c, <3>1, <3>2, LookTyped DEF Load, Look
  <2> QED BY <1>2, <2>1, <2>2 DEF Load
<1>6. CASE Query(a)
  <2>1. CASE Return(a)
    BY <1>0, <1>6, <1>c, <2>1, ReturnMoves, IdleFits, LookTyped DEF Query, Look
  <2>2. CASE Go(a, "removeJob")
    <3>1. Moved(a, Onward(a, "removeJob"))
      BY <1>0, <2>2, GoMoves DEF Steps
    <3>2. Fits(Onward(a, "removeJob"))
      BY <1>0, <1>a, <1>6 DEF Fits, Onward, Query
    <3> QED BY <1>6, <1>c, <3>1, <3>2, LookTyped DEF Query, Look
  <2> QED BY <1>6, <2>1, <2>2 DEF Query
<1>3. CASE LoadNodes(a)
  <2>1. Moved(a, Idle)
    BY <1>0, <1>3, ReturnMoves DEF LoadNodes
  <2>2. started' \subseteq 1..last
    BY <1>3, <1>b, <1>c DEF LoadNodes
  <2> QED BY <1>3, <1>c, <2>1, <2>2, IdleFits, LookTyped DEF LoadNodes
<1>4. CASE RemoveJob(a)
  <2>1. Moved(a, Onward(a, "removed"))
    BY <1>0, <1>4, GoMoves DEF RemoveJob, Steps
  <2>2. Fits(Onward(a, "removed"))
    BY <1>0, <1>a, <1>4 DEF Fits, Onward, RemoveJob
  <2>3. DeleteJob(of[at[a].row]) /\ UNCHANGED table
    BY <1>4 DEF RemoveJob, DeleteJob
  <2> QED BY <1>b, <2>1, <2>2, <2>3, JobTyped
<1>5. CASE Removed(a)
  <2>1. Moved(a, Idle)
    BY <1>0, <1>5, ReturnMoves DEF Removed
  <2> QED BY <1>5, <2>1, IdleFits, StateTyped DEF Removed
<1> QED BY <1>1, <1>2, <1>3, <1>4, <1>5, <1>6

\* Where a failure leads.
LEMMA AbandonType ==
  ASSUME Typed, NEW a \in Actor, at[a] # Idle, NEW e \in Abandon(a)
  PROVE  /\ e \in Entry /\ Fits(e)
         /\ \/ e = Idle
            \/ e = Built(a) /\ Is(a, "submit", "schedule")
            \/ e = Onward(a, "schedule") /\ Is(a, "submit", "unschedule")
            \/ e = Onward(a, "read") /\ at[a].op = "fire"
<1>0. TypeOK /\ Fits(at[a]) /\ last \in Nat /\ at[a] \in Entry /\ Idle \in Entry
  BY PlanAssumption, EntryType DEF Typed, Shape, TypeOK, Idle, Entry, Steps
<1>1. CASE at[a].step = "unschedule"
  <2>1. e = [at[a] EXCEPT !.step = "schedule"]
    BY <1>1 DEF Abandon
  <2>2. e = Onward(a, "schedule") /\ e \in Entry
    BY <1>0, <2>1 DEF Onward, Entry, Steps
  <2>3. at[a].op = "submit" /\ at[a].todo = {} /\ at[a].row = 0 /\ at[a].built # {}
    BY <1>0, <1>1 DEF Fits, Entry, Users, Builds, Idle, Erasing, Inserting
  <2>4. Fits(e)
    BY <2>2, <2>3 DEF Fits, Onward
  <2> QED BY <1>1, <2>2, <2>3, <2>4 DEF Is
<1>2. CASE at[a].step = "schedule"
  <2>1. e = Built(a)
    BY <1>2 DEF Abandon
  <2>2. at[a].op = "submit"
    BY <1>0, <1>2 DEF Fits, Entry, Users, Builds, Idle, Erasing, Inserting
  <2> QED BY <1>2, <2>1, <2>2, BuiltType DEF Is
<1>3. CASE at[a].step \in {"read", "query", "removed"} /\ at[a].op = "fire"
  <2>1. e = [at[a] EXCEPT !.step = "read"] \/ e = Idle
    BY <1>3 DEF Abandon
  <2>2. CASE e = [at[a] EXCEPT !.step = "read"]
    <3>1. e = Onward(a, "read") /\ e \in Entry
      BY <1>0, <2>2 DEF Onward, Entry, Steps
    <3>2. Fits(e)
      BY <1>0, <1>3, <3>1 DEF Fits, Onward
    <3> QED BY <1>3, <3>1, <3>2
  <2> QED BY <1>0, <2>1, <2>2, IdleFits
<1>4. CASE /\ at[a].step \notin {"unschedule", "schedule"}
           /\ ~(at[a].step \in {"read", "query", "removed"} /\ at[a].op = "fire")
  BY <1>0, <1>4, IdleFits DEF Abandon
<1> QED BY <1>1, <1>2, <1>3, <1>4

\* Failures.
LEMMA FailTyped ==
  ASSUME Typed, NEW a \in Actor, Fail(a)
  PROVE  Typed'
<1>0. TypeOK /\ last \in Nat /\ job \in Jobs
  BY PlanAssumption DEF Typed, TypeOK, Jobs
<1>1. PICK e \in Abandon(a) : at' = [at EXCEPT ![a] = e]
  BY DEF Fail
<1>2. Fits(e) /\ Moved(a, e)
  BY <1>0, <1>1, AbandonType, Move DEF Fail
<1>3. UNCHANGED <<rows, of, state, cron, details, last, started>> /\ trouble' \subseteq Troubles
  BY <1>0 DEF Fail, table, Trouble, TypeOK
<1>4. job' \in Jobs /\ \A q \in Plan : job'[q] # NoJob => job'[q].row # 0
  <2>1. CASE UNCHANGED job
    BY <1>0, <2>1 DEF Typed, Rested
  <2>2. ASSUME NEW p \in Deleting(a), job[p] # NoJob, job' = [job EXCEPT ![p].trigger = "paused"]
        PROVE  job' \in Jobs /\ \A q \in Plan : job'[q] # NoJob => job'[q].row # 0
    <3>1. p \in Plan
      BY <1>0, <2>2, DeletingType
    <3> QED BY <1>0, <2>2, <3>1, TriggerType DEF Typed, Rested
  <2> QED BY <2>1, <2>2 DEF Fail
<1> QED BY <1>0, <1>2, <1>3, <1>4, KeepTyped DEF TypeOK

\* Initially all is idle and of the right type.
LEMMA InitTyped == Init => Typed
<1> SUFFICES ASSUME Init PROVE Typed
  OBVIOUS
<1>1. (CHOOSE p \in Plan : TRUE) \in Plan
  BY PlanAssumption
<1>2. NoJob \in [trigger : {"none", "waiting", "paused"}, row : 0..last, cron : Cron]
  BY DEF Init, NoJob, Cron
<1>3. Idle \in Entry
  BY DEF Idle, Entry, Init, Steps
<1>4. TypeOK
  BY <1>1, <1>2, <1>3, PlanAssumption DEF Init, TypeOK, Entry, Cron
<1>5. Shape /\ Rested
  BY IdleFits DEF Init, Shape, Rested
<1> QED BY <1>4, <1>5 DEF Typed

\* Every step keeps the types and the shapes.
LEMMA NextTyped == Typed /\ [Next]_vars => Typed'
<1> SUFFICES ASSUME Typed, [Next]_vars PROVE Typed'
  OBVIOUS
<1>1. CASE UNCHANGED vars
  BY <1>1 DEF vars, table, Typed, TypeOK, Shape, Rested
<1>2. ASSUME NEW a \in Actor, Request(a) \/ Step(a) \/ Fail(a)
      PROVE  Typed'
  BY <1>2, RequestTyped, StoreTyped, BuildTyped, DeleteTyped, SwitchTyped, StartTyped, FailTyped
     DEF Step
<1> QED BY <1>1, <1>2 DEF Next

-----------------------------------------------------------------------------
(* While no two submissions or deletions overlap. *)

\* The plans of an operation, spelled out, before a step and after it.
LEMMA InConcerns ==
  ASSUME NEW a, NEW p
  PROVE  p \in Concerns(a) <=> \/ p \in at[a].todo
                               \/ \E r \in at[a].built : r # 0 /\ of[r] = p
                               \/ at[a].row # 0 /\ of[at[a].row] = p
BY DEF Concerns

\* The same after a step.
LEMMA InConcernsNext ==
  ASSUME NEW a, NEW p
  PROVE  p \in Concerns(a)' <=> \/ p \in at'[a].todo
                                \/ \E r \in at'[a].built : r # 0 /\ of'[r] = p
                                \/ at'[a].row # 0 /\ of'[at'[a].row] = p
BY DEF Concerns

\* The plans of an actor that stays where it is stay the same.
LEMMA ConcernsKept ==
  ASSUME TypeOK, NEW b \in Actor, at'[b] = at[b], \A r \in 1..last : of'[r] = of[r], NEW p
  PROVE  p \in Concerns(b)' <=> p \in Concerns(b)
<1>1. at[b].row \in 0..last /\ at[b].built \subseteq 1..last /\ last \in Nat
  BY PlanAssumption DEF TypeOK
<1>2. at[b].row # 0 => of'[at[b].row] = of[at[b].row]
  BY <1>1
<1>3. \A r \in at[b].built : of'[r] = of[r]
  BY <1>1
<1> QED BY <1>2, <1>3, InConcerns, InConcernsNext

\* An actor that takes on no more plans stays apart from the others.
LEMMA ApartKept ==
  ASSUME TypeOK, Apart, NEW a \in Actor, \A b \in Actor \ {a} : at'[b] = at[b],
         \A r \in 1..last : of'[r] = of[r],
         at'[a].op \in Builds => at[a].op \in Builds,
         at'[a].op \in Builds => \A p \in Plan : p \in Concerns(a)' => p \in Concerns(a)
  PROVE  Apart'
<1>1. ASSUME NEW b \in Actor, at'[b].op \in Builds, NEW p \in Plan, p \in Concerns(b)'
      PROVE  at[b].op \in Builds /\ p \in Concerns(b)
  BY <1>1, ConcernsKept
<1> SUFFICES ASSUME NEW b \in Actor, NEW c \in Actor, NEW p \in Plan, b # c,
                    at'[b].op \in Builds, at'[c].op \in Builds,
                    p \in Concerns(b)', p \in Concerns(c)'
             PROVE  FALSE
  BY DEF Apart
<1> QED BY <1>1 DEF Apart

\* A step by an actor that neither submits nor deletes, or gives up, and that
\* creates no job.
LEMMA CoreKept ==
  ASSUME Typed, Core, NEW a \in Actor, \A b \in Actor \ {a} : at'[b] = at[b],
         at'[a].op \notin Builds, UNCHANGED <<rows, of, details>>,
         \A p \in Plan : job'[p] # NoJob => job[p] # NoJob /\ job'[p].row = job[p].row
  PROVE  Core'
<1>1. Ghostless' /\ Single'
  BY DEF Core, Ghostless, Single
<1>2. Apart'
  BY ApartKept DEF Core, Typed
<1>3. Storing'
  <2> SUFFICES ASSUME NEW b \in Actor, at'[b].op = "submit"
               PROVE  /\ at'[b] = at[b] /\ Current(b)' = Current(b)
                      /\ \A p \in at[b].todo : job'[p] = NoJob
    BY DEF Core, Storing, Stores
  <2>1. b # a
    BY DEF Builds
  <2>2. \A p \in at[b].todo : p \in Plan
    BY DEF Typed, TypeOK
  <2> QED BY <2>1, <2>2 DEF Current, Core, Storing, Stores
<1>4. Deleted'
  <2> SUFFICES ASSUME NEW b \in Actor, at'[b].op = "delete", at'[b].step \in Erasing
               PROVE  job'[of'[at'[b].row]] = NoJob
    BY DEF Deleted
  <2>1. b # a
    BY DEF Builds
  <2>2. of[at[b].row] \in Plan
    <3>1. Fits(at[b]) /\ TypeOK
      BY DEF Typed, Shape
    <3> QED BY <2>1, <3>1, RowType DEF Fits
  <2> QED BY <2>1, <2>2 DEF Core, Deleted
<1> QED BY <1>1, <1>2, <1>3, <1>4 DEF Core

\* A submission or a deletion that begins without a clash is apart from the
\* others (isJobPlansExist, deleteJobExecutionPlan).
LEMMA ApartBegun ==
  ASSUME TypeOK, Apart, NEW a \in Actor, NEW op \in Builds, NEW ps \in SUBSET Plan,
         "builds" \notin Clash(a, op, ps), \A b \in Actor \ {a} : at'[b] = at[b],
         UNCHANGED of, \A p \in Plan : p \in Concerns(a)' => p \in ps
  PROVE  Apart'
<1>1. ASSUME NEW b \in Actor \ {a}, at[b].op \in Builds, NEW p \in ps, p \in Concerns(b)
      PROVE  FALSE
  <2>1. Concerns(b) \cap ps # {}
    BY <1>1
  <2> QED BY <1>1, <2>1 DEF Clash
<1>2. ASSUME NEW b \in Actor \ {a}, NEW p \in Plan, p \in Concerns(b)'
      PROVE  p \in Concerns(b)
  BY <1>2, ConcernsKept
<1> SUFFICES ASSUME NEW b \in Actor, NEW c \in Actor, NEW p \in Plan, b # c,
                    at'[b].op \in Builds, at'[c].op \in Builds,
                    p \in Concerns(b)', p \in Concerns(c)'
             PROVE  FALSE
  BY DEF Apart
<1>3. CASE b # a /\ c # a
  BY <1>2, <1>3 DEF Apart
<1>4. CASE b = a
  BY <1>1, <1>2, <1>4
<1>5. CASE c = a
  BY <1>1, <1>2, <1>5
<1> QED BY <1>3, <1>4, <1>5

\* isJobPlansExist has found no row of the plans that are submitted.
LEMMA SubmitCore ==
  ASSUME Typed, Core, NEW a \in Actor, NEW ps \in SUBSET Plan, Submit(a, ps),
         "builds" \notin trouble'
  PROVE  Core'
<1> DEFINE e == Submission("clear", 0, ps, {})
<1>0. TypeOK /\ UNCHANGED <<rows, of, details, job>>
  BY DEF Typed, Submit, table
<1>1. Moved(a, e)
  <2>1. e \in Entry
    BY PlanAssumption DEF Entry, TypeOK, Typed, Users, Builds, Steps, Submission
  <2> QED BY <2>1, Move DEF Submit, Typed
<1>2. /\ at'[a].op = "submit" /\ at'[a].step = "clear" /\ at'[a].row = 0
      /\ at'[a].todo = ps /\ at'[a].built = {} /\ \A b \in Actor \ {a} : at'[b] = at[b]
  BY <1>1 DEF Moved, Submission
<1>3. Ghostless' /\ Single'
  BY <1>0 DEF Core, Ghostless, Single
<1>4. Apart'
  <2>1. "builds" \notin Clash(a, "submit", ps) /\ "submit" \in Builds
    BY DEF Submit, Trouble, Builds
  <2>2. \A p \in Plan : p \in Concerns(a)' => p \in ps
    BY <1>2, InConcernsNext
  <2> QED BY <1>0, <1>2, <2>1, <2>2, ApartBegun DEF Core
<1>5. Storing'
  <2>1. \A p \in ps : job[p] = NoJob /\ \A r \in rows : of[r] # p
    BY DEF Submit, Rows, Core, Ghostless
  <2>2. \A b \in Actor \ {a} : Current(b)' = Current(b)
    BY <1>2 DEF Current
  <2> QED BY <1>0, <1>2, <2>1, <2>2 DEF Core, Storing, Stores, Inserting, Erasing
<1>6. Deleted'
  BY <1>0, <1>2 DEF Core, Deleted
<1> QED BY <1>3, <1>4, <1>5, <1>6 DEF Core

\* deleteJobExecutionPlan begins.
LEMMA DeleteCore ==
  ASSUME Typed, Core, NEW a \in Actor, NEW r \in Row, Delete(a, r), "builds" \notin trouble'
  PROVE  Core'
<1>0. TypeOK /\ UNCHANGED <<rows, of, details, job>> /\ r \in 1..last /\ of[r] \in Plan
  BY DEF Typed, TypeOK, Delete, Begin, table
<1>1. Moved(a, [op |-> "delete", step |-> "deleteJob", row |-> r, todo |-> {}, built |-> {}])
  BY <1>0, BeginMoves DEF Delete, Users, Builds, Steps
<1>2. /\ at'[a].op = "delete" /\ at'[a].step = "deleteJob" /\ at'[a].row = r
      /\ at'[a].todo = {} /\ at'[a].built = {} /\ \A b \in Actor \ {a} : at'[b] = at[b]
  BY <1>1 DEF Moved
<1>3. Ghostless' /\ Single'
  BY <1>0 DEF Core, Ghostless, Single
<1>4. Apart'
  <2>1. "builds" \notin Clash(a, "delete", {of[r]}) /\ "delete" \in Builds
    BY DEF Delete, Trouble, Builds
  <2>2. \A p \in Plan : p \in Concerns(a)' => p \in {of[r]}
    BY <1>0, <1>2, InConcernsNext
  <2> QED BY <1>0, <1>2, <2>1, <2>2, ApartBegun DEF Core
<1>5. Storing'
  <2>1. \A b \in Actor \ {a} : Current(b)' = Current(b)
    BY <1>2 DEF Current
  <2> QED BY <1>0, <1>2, <2>1 DEF Core, Storing, Stores
<1>6. Deleted'
  BY <1>0, <1>2 DEF Core, Deleted, Erasing
<1> QED BY <1>3, <1>4, <1>5, <1>6 DEF Core

\* What two submissions or deletions hold is apart.
LEMMA HeldApart ==
  ASSUME Typed, Core, NEW a \in Actor, NEW b \in Actor, a # b,
         at[a].op \in Builds, at[b].op \in Builds, NEW p \in Plan, p \in Concerns(a)
  PROVE  /\ p \notin at[b].todo
         /\ \A r \in at[b].built : of[r] # p
         /\ at[b].row # 0 => of[at[b].row] # p
<1>1. p \notin Concerns(b)
  BY DEF Core, Apart
<1>2. \A r \in at[b].built : r # 0
  BY PlanAssumption DEF Typed, TypeOK
<1> QED BY <1>1, <1>2, InConcerns

\* saveJobPlan finds no row of the plan it is going to store.
LEMMA ClearCore ==
  ASSUME Typed, Core, NEW a \in Actor, Clear(a)
  PROVE  Core'
<1>0. TypeOK /\ UNCHANGED <<rows, of, details, job>> /\ Fits(at[a]) /\ Is(a, "submit", "clear")
  BY DEF Typed, Shape, Clear, Look, table
<1>1. Rows(Current(a)) = {}
  <2>1. Current(a) \in at[a].todo
    BY <1>0, CurrentType DEF Fits, Is, Inserting, Erasing
  <2> QED BY <1>0, <2>1 DEF Core, Storing, Stores, Is, Rows, Inserting
<1>2. Moved(a, Onward(a, "insert"))
  BY <1>0, <1>1, GoMoves DEF Clear, Steps
<1>3. /\ at'[a].op = "submit" /\ at'[a].step = "insert" /\ at'[a].row = at[a].row
      /\ at'[a].todo = at[a].todo /\ at'[a].built = at[a].built
      /\ \A b \in Actor \ {a} : at'[b] = at[b]
  BY <1>0, <1>2 DEF Moved, Onward, Is
<1>4. Ghostless' /\ Single'
  BY <1>0 DEF Core, Ghostless, Single
<1>5. Apart'
  <2>1. \A p \in Plan : p \in Concerns(a)' => p \in Concerns(a)
    BY <1>0, <1>3, InConcerns, InConcernsNext
  <2> QED BY <1>0, <1>3, <2>1, ApartKept DEF Core, Is, Builds
<1>6. Storing'
  <2>1. \A b \in Actor : Current(b)' = Current(b)
    BY <1>3 DEF Current
  <2> QED BY <1>0, <1>3, <2>1 DEF Core, Storing, Stores, Is, Inserting, Erasing
<1>7. Deleted'
  BY <1>0, <1>3 DEF Core, Deleted
<1> QED BY <1>4, <1>5, <1>6, <1>7 DEF Core

\* The only row of the plan is inserted.
LEMMA InsertCore ==
  ASSUME Typed, Typed', Core, NEW a \in Actor, Insert(a)
  PROVE  Core'
<1>0. /\ TypeOK /\ TypeOK' /\ Fits(at[a]) /\ Is(a, "submit", "insert") /\ UNCHANGED <<details, job>>
      /\ last \in Nat /\ last' = last + 1 /\ last' \in Row /\ rows' = rows \cup {last'}
      /\ rows \subseteq 1..last /\ of' = [of EXCEPT ![last'] = Current(a)]
  <2>1. TypeOK /\ TypeOK' /\ Fits(at[a])
    BY DEF Typed, Shape
  <2>2. /\ Is(a, "submit", "insert") /\ UNCHANGED <<details, job>> /\ last' = last + 1
        /\ last < MaxRow /\ rows' = rows \cup {last'} /\ of' = [of EXCEPT ![last'] = Current(a)]
    BY DEF Insert
  <2>3. last \in Nat /\ rows \subseteq 1..last
    BY <2>1, PlanAssumption DEF TypeOK
  <2>4. last' \in Row
    BY <2>2, <2>3, PlanAssumption DEF Row
  <2> QED BY <2>1, <2>2, <2>3, <2>4
<1>1. Current(a) \in at[a].todo /\ Current(a) \in Plan
  BY <1>0, CurrentType DEF Fits, Is, Inserting, Erasing
<1>2. /\ at'[a].op = "submit" /\ at'[a].step = "insertNode" /\ at'[a].row = last'
      /\ at'[a].todo = at[a].todo /\ at'[a].built = at[a].built
      /\ \A b \in Actor \ {a} : at'[b] = at[b]
  BY <1>0 DEF Insert, Submission, TypeOK
<1>3. of'[last'] = Current(a) /\ \A r \in 1..last : r # last' /\ of'[r] = of[r]
  BY <1>0, PlanAssumption DEF TypeOK, Row
<1>4. \A r \in rows : of[r] \notin at[a].todo
  BY <1>0 DEF Core, Storing, Stores, Is, Inserting
<1>5. Ghostless'
  <2> SUFFICES ASSUME NEW p \in Plan, job[p] # NoJob
               PROVE  /\ p \in Timed /\ job[p].row \in rows'
                      /\ of'[job[p].row] = p /\ details[job[p].row] = "all"
    BY <1>0 DEF Ghostless
  <2> QED BY <1>0, <1>3 DEF Core, Ghostless
<1>6. Single'
  <2> SUFFICES ASSUME NEW r \in rows', NEW q \in rows', of'[r] = of'[q]
               PROVE  r = q
    BY DEF Single
  <2>1. CASE r \in rows /\ q \in rows
    BY <1>0, <1>3, <2>1 DEF Core, Single
  <2>2. CASE r = last' \/ q = last'
    BY <1>0, <1>1, <1>3, <1>4, <2>2
  <2> QED BY <1>0, <2>1, <2>2
<1>7. Apart'
  <2>1. \A r \in at[a].built : r \in 1..last
    BY <1>0 DEF TypeOK
  <2>2. \A p \in Plan : p \in Concerns(a)' => p \in Concerns(a)
    BY <1>1, <1>2, <1>3, <2>1, InConcerns, InConcernsNext
  <2> QED BY <1>0, <1>2, <1>3, <2>2, ApartKept DEF Core, Is, Builds
<1>8. Storing'
  <2> SUFFICES ASSUME NEW b \in Actor, at'[b].op = "submit"
               PROVE  Stores(b)'
    BY DEF Storing
  <2>1. CASE b = a
    <3>1. Current(a)' = Current(a)
      BY <1>2 DEF Current
    <3>2. last' \notin at[a].built
      BY <1>0 DEF TypeOK
    <3>3. /\ at[a].step \notin Erasing
          /\ \A p \in at[a].todo : job[p] = NoJob
          /\ \A r \in at[a].built : r \in rows /\ details[r] = "all"
      BY <1>0 DEF Core, Storing, Stores, Is
    <3> QED BY <1>0, <1>2, <1>3, <1>4, <2>1, <3>1, <3>2, <3>3 DEF Inserting, Erasing, Stores
  <2>2. CASE b # a
    <3>1. at'[b] = at[b] /\ Current(b)' = Current(b)
      BY <1>2, <2>2 DEF Current
    <3>2. Current(a) \notin at[b].todo
      BY <1>0, <1>1, <2>2, <3>1, HeldApart, InConcerns DEF Is, Builds
    <3>3. Stores(b)
      BY <3>1 DEF Core, Storing
    <3> QED BY <1>0, <1>3, <3>1, <3>2, <3>3 DEF Stores
  <2> QED BY <2>1, <2>2
<1>9. Deleted'
  <2> SUFFICES ASSUME NEW b \in Actor, at'[b].op = "delete", at'[b].step \in Erasing
               PROVE  job'[of'[at'[b].row]] = NoJob
    BY DEF Deleted
  <2>1. at'[b] = at[b] /\ Fits(at[b])
    BY <1>2 DEF Typed, Shape
  <2>2. at[b].row \in 1..last
    BY <1>0, <2>1, RowType DEF Fits
  <2> QED BY <1>0, <1>3, <2>1, <2>2 DEF Core, Deleted
<1> QED BY <1>5, <1>6, <1>7, <1>8, <1>9 DEF Core

\* The row that a submission or a deletion changes belongs to nobody else.
LEMMA RowApart ==
  ASSUME Typed, Core, NEW a \in Actor, NEW b \in Actor, a # b,
         at[a].op \in Builds, at[b].op \in Builds, at[a].row # 0
  PROVE  at[a].row \notin at[b].built /\ at[a].row # at[b].row
<1>1. of[at[a].row] \in Concerns(a) /\ of[at[a].row] \in Plan
  BY InConcerns, RowType DEF Typed
<1> QED BY <1>1, HeldApart

\* The nodes of the row are being stored.
LEMMA InsertNodeCore ==
  ASSUME Typed, Core, NEW a \in Actor, InsertNode(a)
  PROVE  Core'
<1>0. /\ TypeOK /\ Fits(at[a]) /\ Is(a, "submit", "insertNode") /\ UNCHANGED <<rows, of, job>>
      /\ details' = [details EXCEPT ![at[a].row] = "part"]
      /\ details \in [Row -> {"none", "part", "all"}]
  BY DEF Typed, Shape, TypeOK, InsertNode, SetDetails
<1>1. Moved(a, Onward(a, "insertRest"))
  BY <1>0, GoMoves DEF InsertNode, Steps
<1>2. /\ at'[a].op = "submit" /\ at'[a].step = "insertRest" /\ at'[a].row = at[a].row
      /\ at'[a].todo = at[a].todo /\ at'[a].built = at[a].built
      /\ \A b \in Actor \ {a} : at'[b] = at[b]
  BY <1>0, <1>1 DEF Moved, Onward, Is
<1>3. /\ at[a].row \in rows \ at[a].built /\ of[at[a].row] = Current(a) /\ job[Current(a)] = NoJob
      /\ at[a].row # 0 /\ Stores(a)
  <2>1. at[a].row # 0 /\ at[a].todo # {}
    BY <1>0 DEF Fits, Is, Inserting, Erasing
  <2>2. Current(a) \in at[a].todo
    BY <1>0, <2>1, CurrentType
  <2> QED BY <1>0, <2>1, <2>2 DEF Core, Storing, Stores, Is, Inserting
<1>4. \A b \in Actor : Current(b)' = Current(b)
  BY <1>2 DEF Current
<1>5. Ghostless' /\ Single'
  BY <1>0, <1>3 DEF Core, Ghostless, Single
<1>6. Apart'
  <2>1. \A p \in Plan : p \in Concerns(a)' => p \in Concerns(a)
    BY <1>0, <1>2, InConcerns, InConcernsNext
  <2> QED BY <1>0, <1>2, <2>1, ApartKept DEF Core, Is, Builds
<1>7. Storing'
  <2> SUFFICES ASSUME NEW b \in Actor, at'[b].op = "submit"
               PROVE  Stores(b)'
    BY DEF Storing
  <2>1. CASE b = a
    BY <1>0, <1>2, <1>3, <1>4, <2>1 DEF Stores, Is, Inserting, Erasing
  <2>2. CASE b # a
    <3>1. at'[b] = at[b] /\ Stores(b)
      BY <1>2, <2>2 DEF Core, Storing
    <3>2. at[a].row \notin at[b].built
      BY <1>0, <1>3, <2>2, <3>1, RowApart DEF Is, Builds
    <3> QED BY <1>0, <1>4, <3>1, <3>2 DEF Stores
  <2> QED BY <2>1, <2>2
<1>8. Deleted'
  BY <1>0, <1>2 DEF Core, Deleted
<1> QED BY <1>5, <1>6, <1>7, <1>8 DEF Core

\* The plan is stored whole; the next one is stored, or the jobs are built.
LEMMA InsertRestCore ==
  ASSUME Typed, Core, NEW a \in Actor, InsertRest(a)
  PROVE  Core'
<1>0. /\ TypeOK /\ Fits(at[a]) /\ Is(a, "submit", "insertRest") /\ UNCHANGED <<rows, of, job>>
      /\ details' = [details EXCEPT ![at[a].row] = "all"]
      /\ details \in [Row -> {"none", "part", "all"}]
  BY DEF Typed, Shape, TypeOK, InsertRest, SetDetails
<1>1. at[a].row # 0 /\ at[a].row \in 1..last /\ at[a].row \in Row /\ at[a].todo # {}
  BY <1>0, RowType DEF Fits, Is, Inserting, Erasing
<1>2. Moved(a, Saved(a))
  <2>1. at[a] \in Entry /\ last \in Nat
    BY <1>0, PlanAssumption, EntryType DEF TypeOK
  <2>2. Saved(a) \in Entry
    BY <1>1, <2>1 DEF Saved, Submission, Entry, Users, Builds, Steps
  <2> QED BY <1>0, <2>2, Move DEF InsertRest
<1>3. /\ at'[a].op = "submit" /\ at'[a].step \in {"unschedule", "clear"} /\ at'[a].row = 0
      /\ at'[a].todo = at[a].todo \ {Current(a)} /\ at'[a].built = at[a].built \cup {at[a].row}
      /\ \A b \in Actor \ {a} : at'[b] = at[b]
  BY <1>2 DEF Moved, Saved, Submission
<1>4. /\ at[a].row \in rows \ at[a].built /\ of[at[a].row] = Current(a)
      /\ Current(a) \in at[a].todo /\ Stores(a)
  BY <1>0, <1>1, CurrentType DEF Core, Storing, Stores, Is, Inserting
<1>5. \A b \in Actor \ {a} : Current(b)' = Current(b)
  BY <1>3 DEF Current
<1>6. Ghostless' /\ Single'
  BY <1>0 DEF Core, Ghostless, Single
<1>7. Apart'
  <2>1. \A p \in Plan : p \in Concerns(a)' => p \in Concerns(a)
    BY <1>0, <1>1, <1>3, InConcerns, InConcernsNext
  <2> QED BY <1>0, <1>3, <2>1, ApartKept DEF Core, Is, Builds
<1>8. Storing'
  <2> SUFFICES ASSUME NEW b \in Actor, at'[b].op = "submit"
               PROVE  Stores(b)'
    BY DEF Storing
  <2>1. CASE b = a
    BY <1>0, <1>1, <1>3, <1>4, <2>1 DEF Stores, Inserting, Erasing
  <2>2. CASE b # a
    <3>1. at'[b] = at[b] /\ Stores(b)
      BY <1>3, <2>2 DEF Core, Storing
    <3> QED BY <1>0, <1>5, <2>2, <3>1 DEF Stores
  <2> QED BY <2>1, <2>2
<1>9. Deleted'
  BY <1>0, <1>3 DEF Core, Deleted
<1> QED BY <1>6, <1>7, <1>8, <1>9 DEF Core

\* A submission goes on building: at most its own job is deleted or paused.
LEMMA BuildCore ==
  ASSUME Typed, Core, NEW a \in Actor, Moved(a, Onward(a, "schedule")),
         Is(a, "submit", "unschedule"),
         UNCHANGED <<rows, of, details>>,
         \A p \in Plan : job'[p] # NoJob => job[p] # NoJob /\ job'[p].row = job[p].row
  PROVE  Core'
<1>0. TypeOK /\ Fits(at[a])
  BY DEF Typed, Shape
<1>1. /\ at'[a].op = "submit" /\ at'[a].step = "schedule" /\ at'[a].row = at[a].row
      /\ at'[a].todo = at[a].todo /\ at'[a].built = at[a].built
      /\ \A b \in Actor \ {a} : at'[b] = at[b]
  BY DEF Moved, Onward, Is
<1>2. \A b \in Actor : Current(b)' = Current(b) /\ at'[b].op = at[b].op
  BY <1>1 DEF Current, Is
<1>3. Ghostless' /\ Single'
  BY DEF Core, Ghostless, Single
<1>4. Apart'
  <2>1. \A p \in Plan : p \in Concerns(a)' => p \in Concerns(a)
    BY <1>1, InConcerns, InConcernsNext
  <2> QED BY <1>0, <1>1, <2>1, ApartKept DEF Core, Is, Builds
<1>5. Storing'
  <2> SUFFICES ASSUME NEW b \in Actor, at'[b].op = "submit"
               PROVE  Stores(b)'
    BY DEF Storing
  <2>1. Stores(b) /\ at[b].todo \subseteq Plan
    BY <1>0, <1>2 DEF Core, Storing, TypeOK
  <2> QED BY <1>1, <1>2, <2>1 DEF Stores, Is, Inserting, Erasing
<1>6. Deleted'
  <2> SUFFICES ASSUME NEW b \in Actor, at'[b].op = "delete", at'[b].step \in Erasing
               PROVE  job'[of'[at'[b].row]] = NoJob
    BY DEF Deleted
  <2>1. at'[b] = at[b] /\ Fits(at[b])
    BY <1>1 DEF Typed, Shape
  <2>2. of[at[b].row] \in Plan
    BY <1>0, <2>1, RowType DEF Fits
  <2> QED BY <2>1, <2>2 DEF Core, Deleted
<1> QED BY <1>3, <1>4, <1>5, <1>6 DEF Core

\* The job of a plan that is stored whole is built, or its building fails.
LEMMA ScheduleCore ==
  ASSUME Typed, Core, NEW a \in Actor, Moved(a, Built(a)), Is(a, "submit", "schedule"),
         UNCHANGED <<rows, of, details>>,
         \/ UNCHANGED job
         \/ /\ of[Building(a)] \in Timed
            /\ job' = [job EXCEPT ![of[Building(a)]] =
                         [trigger |-> "waiting", row |-> Building(a), cron |-> "old"]]
  PROVE  Core'
<1>0. TypeOK /\ Fits(at[a]) /\ job \in Jobs
  BY DEF Typed, Shape, TypeOK, Jobs
<1>1. at[a].todo = {} /\ at[a].row = 0 /\ at[a].built # {}
  BY <1>0 DEF Fits, Is, Inserting, Erasing
<1>2. /\ Building(a) \in at[a].built /\ Building(a) \in 1..last /\ Building(a) # 0
      /\ of[Building(a)] \in Plan
  BY <1>0, <1>1, BuildingType, PlanAssumption DEF TypeOK
<1>3. /\ at'[a].todo = {} /\ at'[a].row = 0 /\ at'[a].built \subseteq at[a].built
      /\ at'[a].op \in {"submit", "none"} /\ at'[a].step \in {"unschedule", "idle"}
      /\ \A b \in Actor \ {a} : at'[b] = at[b]
  BY DEF Moved, Built, Submission, Idle
<1>4. Building(a) \in rows /\ details[Building(a)] = "all"
  BY <1>2 DEF Core, Storing, Stores, Is
<1>5. \A p \in Plan : \/ job'[p] = job[p]
                      \/ p = of[Building(a)] /\ p \in Timed /\ job'[p].row = Building(a)
  BY <1>0, <1>2 DEF Jobs
<1>6. Ghostless' /\ Single'
  BY <1>2, <1>4, <1>5 DEF Core, Ghostless, Single
<1>7. Apart'
  <2>1. \A p \in Plan : p \in Concerns(a)' => p \in Concerns(a)
    BY <1>3, InConcerns, InConcernsNext
  <2> QED BY <1>0, <1>3, <2>1, ApartKept DEF Core, Is, Builds
<1>8. ASSUME NEW b \in Actor, b # a, at[b].op \in Builds
      PROVE  /\ of[Building(a)] \notin at[b].todo
             /\ at[b].row # 0 => of[at[b].row] # of[Building(a)]
  <2>1. of[Building(a)] \in Concerns(a)
    BY <1>2, InConcerns
  <2> QED BY <1>2, <1>8, <2>1, HeldApart DEF Is, Builds
<1>9. Storing'
  <2> SUFFICES ASSUME NEW b \in Actor, at'[b].op = "submit"
               PROVE  Stores(b)'
    BY DEF Storing
  <2>1. CASE b = a
    <3>1. Stores(a)
      BY DEF Core, Storing, Is
    <3> QED BY <1>3, <2>1, <3>1 DEF Stores, Inserting, Erasing
  <2>2. CASE b # a
    <3>1. at'[b] = at[b] /\ Stores(b) /\ Current(b)' = Current(b) /\ at[b].todo \subseteq Plan
      BY <1>0, <1>3, <2>2 DEF Core, Storing, Current, TypeOK
    <3>2. \A p \in at[b].todo : job'[p] = NoJob
      BY <1>5, <1>8, <2>2, <3>1 DEF Stores, Builds
    <3> QED BY <3>1, <3>2 DEF Stores
  <2> QED BY <2>1, <2>2
<1>10. Deleted'
  <2> SUFFICES ASSUME NEW b \in Actor, at'[b].op = "delete", at'[b].step \in Erasing
               PROVE  job'[of'[at'[b].row]] = NoJob
    BY DEF Deleted
  <2>1. b # a /\ at'[b] = at[b] /\ Fits(at[b])
    BY <1>3 DEF Typed, Shape
  <2>2. at[b].row # 0 /\ of[at[b].row] \in Plan
    BY <1>0, <2>1, RowType DEF Fits
  <2> QED BY <1>5, <1>8, <2>1, <2>2 DEF Core, Deleted, Builds
<1> QED BY <1>6, <1>7, <1>9, <1>10 DEF Core

\* The job of a plan is deleted before its rows.
LEMMA UnbuildCore ==
  ASSUME Typed, Core, NEW a \in Actor, Unbuild(a)
  PROVE  Core'
<1>0. /\ TypeOK /\ Fits(at[a]) /\ Is(a, "delete", "deleteJob") /\ job \in Jobs /\ last \in Nat
      /\ UNCHANGED <<rows, of, details>> /\ at[a].row # 0
  BY PlanAssumption DEF Typed, Shape, TypeOK, Jobs, Unbuild, DeleteJob, table, Fits, Is
<1>1. of[at[a].row] \in Plan
  BY <1>0, RowType
<1>2. job'[of[at[a].row]] = NoJob /\ \A q \in Plan : job'[q] = NoJob \/ job'[q] = job[q]
  BY <1>0, <1>1, DeleteType DEF Unbuild, DeleteJob
<1>3. Moved(a, Onward(a, "deleteRow"))
  BY <1>0, GoMoves DEF Unbuild, Steps
<1>4. /\ at'[a].op = "delete" /\ at'[a].row = at[a].row /\ at'[a].todo = at[a].todo
      /\ at'[a].built = at[a].built /\ \A b \in Actor \ {a} : at'[b] = at[b]
  BY <1>0, <1>3 DEF Moved, Onward, Is
<1>5. Ghostless' /\ Single'
  BY <1>0, <1>2 DEF Core, Ghostless, Single
<1>6. Apart'
  <2>1. \A p \in Plan : p \in Concerns(a)' => p \in Concerns(a)
    BY <1>0, <1>4, InConcerns, InConcernsNext
  <2> QED BY <1>0, <1>4, <2>1, ApartKept DEF Core, Is, Builds
<1>7. Storing'
  <2> SUFFICES ASSUME NEW b \in Actor, at'[b].op = "submit"
               PROVE  Stores(b)'
    BY DEF Storing
  <2>1. at'[b] = at[b] /\ Stores(b) /\ Current(b)' = Current(b) /\ at[b].todo \subseteq Plan
    BY <1>0, <1>4 DEF Core, Storing, Current, TypeOK
  <2> QED BY <1>0, <1>2, <2>1 DEF Stores
<1>8. Deleted'
  <2> SUFFICES ASSUME NEW b \in Actor, b # a, at'[b].op = "delete", at'[b].step \in Erasing
               PROVE  job'[of'[at'[b].row]] = NoJob
    BY <1>0, <1>2, <1>4 DEF Deleted
  <2>1. at'[b] = at[b] /\ Fits(at[b])
    BY <1>4 DEF Typed, Shape
  <2>2. of[at[b].row] \in Plan
    BY <1>0, <2>1, RowType DEF Fits
  <2> QED BY <1>0, <1>2, <2>1, <2>2 DEF Core, Deleted
<1> QED BY <1>5, <1>6, <1>7, <1>8 DEF Core

\* The row of a deletion goes, and then its nodes: nobody else is about them.
LEMMA EraseCore ==
  ASSUME Typed, Core, NEW a \in Actor, DeleteRow(a) \/ DeleteNodes(a) \/ DeleteMetas(a)
  PROVE  Core'
<1>0. /\ TypeOK /\ Fits(at[a]) /\ at[a].step \in Erasing
      /\ at[a].op \in Users \cup {"none", "fire", "event", "execute"}
  BY DEF Typed, Shape, TypeOK, Erasing, DeleteRow, DeleteNodes, DeleteMetas
<1>1. at[a].op = "delete" /\ at[a].row # 0 /\ at[a].todo = {} /\ at[a].built = {}
  BY <1>0 DEF Fits, Idle, Users, Builds, Erasing, Core, Storing, Stores
<1>2. /\ at[a].row \in 1..last /\ at[a].row \in Row /\ of[at[a].row] \in Plan
      /\ job[of[at[a].row]] = NoJob
  BY <1>0, <1>1, RowType DEF Core, Deleted
<1>3. /\ UNCHANGED <<of, job>> /\ rows' \subseteq rows
      /\ \A r \in rows : r # at[a].row => r \in rows' /\ details'[r] = details[r]
  <2>1. \A r \in rows : r \in Row
    BY <1>0, PlanAssumption DEF TypeOK, Row
  <2> QED BY <1>0, <2>1 DEF DeleteRow, DeleteNodes, DeleteMetas, SetDetails, TypeOK
<1>4. Moved(a, Idle) \/ Moved(a, Onward(a, "deleteNodes")) \/ Moved(a, Onward(a, "deleteMetas"))
  BY <1>0, <1>1, GoMoves, ReturnMoves DEF DeleteRow, DeleteNodes, DeleteMetas, Steps
<1>5. /\ at'[a].op \in {"none", "delete"} /\ at'[a].row \in {0, at[a].row} /\ at'[a].todo = {}
      /\ at'[a].built = {} /\ \A b \in Actor \ {a} : at'[b] = at[b]
      /\ at'[a].op = "delete" => at'[a].row = at[a].row
  BY <1>1, <1>4 DEF Moved, Onward, Idle
<1>6. Ghostless'
  <2> SUFFICES ASSUME NEW p \in Plan, job[p] # NoJob
               PROVE  /\ p \in Timed /\ job[p].row \in rows'
                      /\ of[job[p].row] = p /\ details'[job[p].row] = "all"
    BY <1>3 DEF Ghostless
  <2>1. job[p].row # at[a].row
    BY <1>2 DEF Core, Ghostless
  <2> QED BY <1>3, <2>1 DEF Core, Ghostless
<1>7. Single'
  BY <1>3 DEF Core, Single
<1>8. Apart'
  <2>1. \A p \in Plan : p \in Concerns(a)' => p \in Concerns(a)
    BY <1>3, <1>5, InConcerns, InConcernsNext
  <2> QED BY <1>0, <1>1, <1>3, <1>5, <2>1, ApartKept DEF Core, Builds
<1>9. Storing'
  <2> SUFFICES ASSUME NEW b \in Actor, at'[b].op = "submit"
               PROVE  Stores(b)'
    BY DEF Storing
  <2>1. b # a /\ at'[b] = at[b] /\ Stores(b) /\ Current(b)' = Current(b)
    BY <1>5 DEF Core, Storing, Current
  <2>2. at[a].row \notin at[b].built /\ at[a].row # at[b].row
    BY <1>1, <2>1, RowApart DEF Builds
  <2> QED BY <1>3, <2>1, <2>2 DEF Stores
<1>10. Deleted'
  BY <1>2, <1>3, <1>5 DEF Core, Deleted
<1> QED BY <1>6, <1>7, <1>8, <1>9, <1>10 DEF Core

\* The requests that are not submissions or deletions.
LEMMA OtherCore ==
  ASSUME Typed, Core, NEW a \in Actor,
         \/ \E r \in Row : \/ Pause(a, r) \/ PauseRun(a, r) \/ Resume(a, r) \/ Change(a, r)
                           \/ Occur(a, r) \/ Execute(a, r)
         \/ \E p \in Plan : Fire(a, p)
  PROVE  Core'
<1>1. UNCHANGED <<rows, of, details, job>>
  BY DEF Pause, PauseRun, Resume, Change, Occur, Execute, Fire, Begin, table
<1>2. \E op \in {"pause", "resume", "change", "event", "execute", "fire"} :
        \E r, s : Begin(a, op, r, s)
  BY DEF Pause, PauseRun, Resume, Change, Occur, Execute, Fire
<1>3. /\ at'[a].op \in {"pause", "resume", "change", "event", "execute", "fire"}
      /\ \A b \in Actor \ {a} : at'[b] = at[b]
  BY <1>2 DEF Typed, TypeOK, Begin
<1> QED BY <1>1, <1>3, CoreKept DEF Builds

\* The steps of a pause, a resumption and a change.
LEMMA SwitchCore ==
  ASSUME Typed, Core, NEW a \in Actor,
         \/ PauseJob(a) \/ Disable(a) \/ ResumeJob(a) \/ Enable(a)
         \/ (\E c \in {"new", "unfit"} : SetCron(a, c)) \/ UpdateJob(a) \/ RejectJob(a)
  PROVE  Core'
<1>0. TypeOK /\ Fits(at[a]) /\ job \in Jobs
  BY DEF Typed, Shape, TypeOK, Jobs
<1>1. at[a].op \in {"pause", "resume", "change"} /\ at[a].row # 0
  BY <1>0 DEF Fits, PauseJob, Disable, ResumeJob, Enable, SetCron, UpdateJob, RejectJob, Is
<1>2. of[at[a].row] \in Plan
  BY <1>0, <1>1, RowType
<1>3. UNCHANGED <<rows, of, details>>
  BY DEF PauseJob, Disable, ResumeJob, Enable, SetCron, UpdateJob, RejectJob, SetTrigger, SetState,
         Look, table
<1>4. \A p \in Plan : job'[p] # NoJob => job[p] # NoJob /\ job'[p].row = job[p].row
  <2>1. CASE UNCHANGED job
    BY <2>1
  <2>2. CASE PauseJob(a) \/ ResumeJob(a)
    BY <1>0, <1>2, <2>2, TriggerType DEF PauseJob, ResumeJob, SetTrigger
  <2>3. CASE UpdateJob(a)
    BY <1>0, <1>2, <2>3, UpdateType DEF UpdateJob
  <2> QED BY <2>1, <2>2, <2>3 DEF Disable, Enable, SetCron, RejectJob, SetState, Look
<1>5. Moved(a, Idle) \/ \E s \in Steps : Moved(a, Onward(a, s))
  BY <1>0, GoMoves, ReturnMoves
     DEF PauseJob, Disable, ResumeJob, Enable, SetCron, UpdateJob, RejectJob, Steps
<1>6. at'[a].op \in {"none", at[a].op} /\ \A b \in Actor \ {a} : at'[b] = at[b]
  <2>1. CASE Moved(a, Idle)
    BY <2>1 DEF Moved, Idle
  <2>2. ASSUME NEW s \in Steps, Moved(a, Onward(a, s))
        PROVE  at'[a].op = at[a].op /\ \A b \in Actor \ {a} : at'[b] = at[b]
    BY <2>2 DEF Moved, Onward
  <2> QED BY <1>5, <2>1, <2>2
<1> QED BY <1>1, <1>3, <1>4, <1>6, CoreKept DEF Builds

\* The steps of a start.
LEMMA StartCore ==
  ASSUME Typed, Core, NEW a \in Actor,
         \/ Read(a) \/ Load(a) \/ LoadNodes(a) \/ Query(a) \/ RemoveJob(a) \/ Removed(a)
  PROVE  Core'
<1>0. TypeOK /\ Fits(at[a]) /\ job \in Jobs /\ last \in Nat
      /\ at[a].op \in Users \cup {"none", "fire", "event", "execute"}
  BY PlanAssumption DEF Typed, Shape, TypeOK, Jobs
<1>1. at[a].op \in {"fire", "event", "execute"} /\ at[a].row # 0
  BY <1>0 DEF Fits, Idle, Read, Load, LoadNodes, Query, RemoveJob, Removed, Users, Builds, Is,
              Inserting, Erasing
<1>2. of[at[a].row] \in Plan
  BY <1>0, <1>1, RowType
<1>3. UNCHANGED <<rows, of, details>>
  BY DEF Read, Load, LoadNodes, Query, RemoveJob, Removed, Look, DeleteJob, SetState, table
<1>4. \A p \in Plan : job'[p] # NoJob => job[p] # NoJob /\ job'[p].row = job[p].row
  <2>1. CASE UNCHANGED job
    BY <2>1
  <2>2. CASE RemoveJob(a)
    <3>1. \A q \in Plan : job'[q] = NoJob \/ job'[q] = job[q]
      BY <1>0, <1>2, <2>2, DeleteType DEF RemoveJob, DeleteJob
    <3> QED BY <3>1
  <2> QED BY <2>1, <2>2 DEF Read, Load, LoadNodes, Query, Removed, Look, SetState
<1>5. Moved(a, Idle) \/ \E s \in Steps : Moved(a, Onward(a, s))
  <2>1. Return(a) \/ \E s \in Steps : Go(a, s)
    BY DEF Read, Load, LoadNodes, Query, RemoveJob, Removed, Steps
  <2> QED BY <1>0, <2>1, GoMoves, ReturnMoves
<1>6. at'[a].op \in {"none", at[a].op} /\ \A b \in Actor \ {a} : at'[b] = at[b]
  <2>1. CASE Moved(a, Idle)
    BY <2>1 DEF Moved, Idle
  <2>2. ASSUME NEW s \in Steps, Moved(a, Onward(a, s))
        PROVE  at'[a].op = at[a].op /\ \A b \in Actor \ {a} : at'[b] = at[b]
    BY <2>2 DEF Moved, Onward
  <2> QED BY <1>5, <2>1, <2>2
<1> QED BY <1>1, <1>3, <1>4, <1>6, CoreKept DEF Builds

\* A failure may leave rows behind, but no job without its rows.
LEMMA FailCore ==
  ASSUME Typed, Core, NEW a \in Actor, Fail(a)
  PROVE  Core'
<1>0. TypeOK /\ job \in Jobs /\ UNCHANGED <<rows, of, details>>
  BY DEF Typed, TypeOK, Jobs, Fail, table
<1>1. PICK e \in Abandon(a) : at' = [at EXCEPT ![a] = e]
  BY DEF Fail
<1>2. Moved(a, e)
  BY <1>0, <1>1, AbandonType, Move DEF Fail
<1>3. \A q \in Plan : job'[q] # NoJob => job[q] # NoJob /\ job'[q].row = job[q].row
  <2>1. CASE UNCHANGED job
    BY <2>1
  <2>2. ASSUME NEW p \in Deleting(a), job[p] # NoJob, job' = [job EXCEPT ![p].trigger = "paused"]
        PROVE  \A q \in Plan : job'[q] # NoJob => job[q] # NoJob /\ job'[q].row = job[q].row
    <3>1. p \in Plan
      BY <2>2, DeletingType
    <3> QED BY <1>0, <2>2, <3>1, TriggerType
  <2> QED BY <2>1, <2>2 DEF Fail
<1>4. CASE e = Idle
  BY <1>0, <1>2, <1>3, <1>4, CoreKept DEF Moved, Idle, Builds
<1>5. CASE e = Onward(a, "read") /\ at[a].op = "fire"
  BY <1>0, <1>2, <1>3, <1>5, CoreKept DEF Moved, Onward, Builds
<1>6. CASE e = Onward(a, "schedule") /\ Is(a, "submit", "unschedule")
  BY <1>0, <1>2, <1>3, <1>6, BuildCore
<1>7. CASE e = Built(a) /\ Is(a, "submit", "schedule")
  <2>1. UNCHANGED job
    BY <1>7 DEF Fail, Deleting, Is
  <2> QED BY <1>0, <1>2, <1>7, <2>1, ScheduleCore
<1> QED BY <1>1, <1>4, <1>5, <1>6, <1>7, AbandonType DEF Fail

\* Building the jobs, with nothing failing.
LEMMA BuildsCore ==
  ASSUME Typed, Core, NEW a \in Actor, Unschedule(a) \/ Schedule(a)
  PROVE  Core'
<1>0. TypeOK /\ Fits(at[a]) /\ last \in Nat /\ job \in Jobs /\ UNCHANGED <<rows, of, details>>
  BY PlanAssumption DEF Typed, Shape, TypeOK, Jobs, Unschedule, Schedule, DeleteJob, table
<1>1. at[a].op = "submit" /\ at[a].built # {}
  BY <1>0 DEF Fits, Unschedule, Schedule, Is, Inserting, Erasing
<1>2. CASE Unschedule(a)
  <2>1. Moved(a, Onward(a, "schedule"))
    BY <1>0, <1>2, GoMoves DEF Unschedule, Steps
  <2>2. \A q \in Plan : job'[q] = NoJob \/ job'[q] = job[q]
    BY <1>0, <1>1, <1>2, BuildingType, DeleteType DEF Unschedule, DeleteJob
  <2>3. \A q \in Plan : job'[q] # NoJob => job[q] # NoJob /\ job'[q].row = job[q].row
    BY <2>2
  <2> QED BY <1>0, <1>2, <2>1, <2>3, BuildCore DEF Unschedule
<1>3. CASE Schedule(a)
  <2>1. Moved(a, Built(a))
    BY <1>0, <1>1, <1>3, BuiltType, Move DEF Schedule
  <2> QED BY <1>0, <1>3, <2>1, ScheduleCore DEF Schedule
<1> QED BY <1>2, <1>3

\* What has happened is not forgotten.
LEMMA TroubleGrows ==
  ASSUME NEW a \in Actor, Request(a) \/ Step(a) \/ Fail(a)
  PROVE  trouble \subseteq trouble'
BY DEF Request, Submit, Delete, Pause, PauseRun, Resume, Change, Occur, Execute, Fire,
       Step, Clear, Insert, InsertNode, InsertRest, Unschedule, Schedule, Unbuild, DeleteRow,
       DeleteNodes, DeleteMetas, PauseJob, Disable, ResumeJob, Enable, SetCron, UpdateJob, RejectJob,
       Read, Load, LoadNodes, Query, RemoveJob, Removed, Fail, Trouble, Look, SetDetails,
       SetState, SetTrigger, DeleteJob

\* Every step keeps the second layer of the invariant.
LEMMA NextSound == Typed /\ Typed' /\ Sound /\ [Next]_vars => Sound'
<1> SUFFICES ASSUME Typed, Typed', Sound, [Next]_vars, "builds" \notin trouble' PROVE Core'
  BY DEF Sound
<1>1. CASE UNCHANGED vars
  BY <1>1 DEF vars, table, Sound, Core, Ghostless, Single, Apart, Concerns, Storing, Stores,
              Current, Deleted
<1>2. ASSUME NEW a \in Actor, Request(a) \/ Step(a) \/ Fail(a)
      PROVE  Core'
  <2>1. Core
    BY <1>2, TroubleGrows DEF Sound
  <2>2. CASE Request(a)
    BY <2>1, <2>2, SubmitCore, DeleteCore, OtherCore DEF Request
  <2>3. CASE Step(a)
    BY <2>1, <2>3, ClearCore, InsertCore, InsertNodeCore, InsertRestCore, BuildsCore, UnbuildCore,
       EraseCore, SwitchCore, StartCore DEF Step
  <2>4. CASE Fail(a)
    BY <2>1, <2>4, FailCore
  <2> QED BY <1>2, <2>2, <2>3, <2>4
<1> QED BY <1>1, <1>2 DEF Next

-----------------------------------------------------------------------------
(* While there was no trouble. *)

\* An operation on one row is about its plan, and an idle actor about none.
LEMMA RowConcern ==
  ASSUME Typed, NEW a \in Actor, at[a].op # "submit", NEW p
  PROVE  p \in Concerns(a) <=> at[a].op # "none" /\ p = of[at[a].row]
<1>1. Fits(at[a])
  BY DEF Typed, Shape
<1>2. CASE at[a].op = "none"
  BY <1>1, <1>2, InConcerns DEF Fits, Idle
<1>3. CASE at[a].op # "none"
  BY <1>1, <1>3, InConcerns DEF Fits
<1> QED BY <1>2, <1>3

\* An actor that goes on with its operation on the same plans, or ends it.
LEMMA AloneKept ==
  ASSUME TypeOK, Alone, NEW a \in Actor, \A b \in Actor \ {a} : at'[b] = at[b],
         \A r \in 1..last : of'[r] = of[r],
         at'[a].op \in Users \cup Starts =>
           at'[a].op = at[a].op /\ \A p \in Plan : p \in Concerns(a)' => p \in Concerns(a)
  PROVE  Alone'
<1>1. ASSUME NEW b \in Actor, at'[b].op \in Users \cup Starts, NEW p \in Plan, p \in Concerns(b)'
      PROVE  at'[b].op = at[b].op /\ p \in Concerns(b)
  BY <1>1, ConcernsKept
<1> SUFFICES ASSUME NEW b \in Actor, NEW c \in Actor, NEW p \in Plan, b # c,
                    at'[b].op \in Users, at'[c].op \in Users \cup Starts,
                    at'[c].op \in Starts => at'[b].op \in {"pause", "resume"},
                    p \in Concerns(b)', p \in Concerns(c)'
             PROVE  FALSE
  BY DEF Alone
<1>2. /\ at'[b].op = at[b].op /\ p \in Concerns(b)
      /\ at'[c].op = at[c].op /\ p \in Concerns(c)
  BY <1>1
<1> QED BY <1>2 DEF Alone

\* One that begins without a clash.
LEMMA AloneBegun ==
  ASSUME TypeOK, Alone, NEW a \in Actor, NEW op \in Users \cup Starts, NEW ps \in SUBSET Plan,
         Clash(a, op, ps) = {}, at'[a].op = op, \A b \in Actor \ {a} : at'[b] = at[b],
         UNCHANGED of, \A p \in Plan : p \in Concerns(a)' => p \in ps
  PROVE  Alone'
<1>1. ASSUME NEW b \in Actor \ {a}, NEW p \in ps, p \in Concerns(b)
      PROVE  /\ ~(op \in Users /\ at[b].op \in Users)
             /\ ~(op \in Starts /\ at[b].op \in {"pause", "resume"})
             /\ ~(op \in {"pause", "resume"} /\ at[b].op \in Starts)
  <2>1. Concerns(b) \cap ps # {}
    BY <1>1
  <2> QED BY <1>1, <2>1 DEF Clash, Starts
<1>2. ASSUME NEW b \in Actor \ {a}, NEW p \in Plan, p \in Concerns(b)'
      PROVE  p \in Concerns(b)
  BY <1>2, ConcernsKept
<1> SUFFICES ASSUME NEW b \in Actor, NEW c \in Actor, NEW p \in Plan, b # c,
                    at'[b].op \in Users, at'[c].op \in Users \cup Starts,
                    at'[c].op \in Starts => at'[b].op \in {"pause", "resume"},
                    p \in Concerns(b)', p \in Concerns(c)'
             PROVE  FALSE
  BY DEF Alone
<1>3. CASE b # a /\ c # a
  BY <1>2, <1>3 DEF Alone
<1>4. CASE b = a
  <2>1. p \in ps /\ p \in Concerns(c) /\ at'[c] = at[c] /\ c \in Actor \ {a}
    BY <1>2, <1>4
  <2> QED BY <1>1, <1>4, <2>1
<1>5. CASE c = a
  <2>1. p \in ps /\ p \in Concerns(b) /\ at'[b] = at[b] /\ b \in Actor \ {a}
    BY <1>2, <1>5
  <2> QED BY <1>1, <1>5, <2>1 DEF Users, Builds, Starts
<1> QED BY <1>3, <1>4, <1>5

\* A step of an actor that is not in an operation of a user, which changes no
\* job and no row.
LEMMA EaseBegun ==
  ASSUME Typed, Ease, NEW a \in Actor, \A b \in Actor \ {a} : at'[b] = at[b],
         at[a].op \notin Users, UNCHANGED <<rows, of, state, cron, job, last>>,
         Alone', Fires(a)', Waits(a)', Halfway(a)'
  PROVE  Ease'
<1>0. TypeOK /\ rows \subseteq 1..last
  BY DEF Typed, TypeOK
<1>1. Agreed'
  <2> SUFFICES ASSUME NEW r \in rows, of[r] \in Timed,
                      \A b \in Actor : at'[b].op \in Users => of[r] \notin Concerns(b)'
               PROVE  Whole(r)'
    BY DEF Agreed
  <2>1. \A b \in Actor : at[b].op \in Users => of[r] \notin Concerns(b)
    BY <1>0, ConcernsKept
  <2>2. Whole(r)
    BY <2>1 DEF Ease, Agreed
  <2> QED BY <1>0, <2>2 DEF Whole
<1>2. ASSUME NEW b \in Actor, b # a
      PROVE  Fires(b)' /\ Waits(b)' /\ Halfway(b)'
  <2>1. at'[b] = at[b] /\ Fits(at[b]) /\ Fires(b) /\ Waits(b) /\ Halfway(b)
    BY <1>2 DEF Typed, Shape, Ease, Orderly
  <2>2. at[b].row # 0 => at[b].row \in 1..last
    BY <1>0, RowType
  <2>3. at[b].built \subseteq 1..last
    BY <1>0 DEF TypeOK
  <2>4. Fires(b)'
    BY <2>1, <2>2 DEF Fires, Fits
  <2>5. Waits(b)'
    <3>1. \A r \in 1..last : New(r) => New(r)'
      BY DEF New
    <3>2. at[b].op = "submit" /\ at[b].step \in Inserting => at[b].row # 0
      BY <2>1 DEF Fits, Inserting
    <3> QED BY <2>1, <2>2, <2>3, <3>1, <3>2 DEF Waits
  <2>6. Halfway(b)'
    <3>1. at[b].op \in {"delete", "pause", "resume", "change"} => at[b].row # 0
      BY <2>1 DEF Fits
    <3>2. ASSUME at[b].row # 0, of[at[b].row] \in Timed, Half(b)
          PROVE  Half(b)'
      BY <2>1, <2>2, <3>2 DEF Half, Whole, Rows
    <3> QED BY <2>1, <3>1, <3>2 DEF Halfway
  <2> QED BY <2>4, <2>5, <2>6
<1> QED BY <1>1, <1>2 DEF Ease, Orderly

\* A step of an operation of a user, which changes only what belongs to its
\* plans and leaves those in agreement that it gives up.
LEMMA EaseStep ==
  ASSUME Typed, Ease, NEW a \in Actor, \A b \in Actor \ {a} : at'[b] = at[b],
         at[a].op \in Users, at'[a].op = at[a].op \/ at'[a] = Idle,
         \A r \in 1..last : of'[r] = of[r] /\ (r \in rows' => r \in rows),
         \A r \in rows' : r \in 1..last \/ of'[r] \in Concerns(a),
         \A p \in Plan : p \in Concerns(a)' => p \in Concerns(a),
         \A p \in Plan : p \notin Concerns(a) => job'[p] = job[p],
         \A r \in 1..last : of[r] \notin Concerns(a) =>
           state'[r] = state[r] /\ cron'[r] = cron[r] /\ (r \in rows => r \in rows'),
         \A r \in 1..last :
           state'[r] \in {state[r], "able"} \/ at[a].op \in {"pause", "resume"},
         \A r \in rows' : of'[r] \in Timed /\ of'[r] \in Concerns(a) /\ of'[r] \notin Concerns(a)'
           => Whole(r)',
         Waits(a)', Halfway(a)'
  PROVE  Ease'
<1>0. TypeOK /\ rows \subseteq 1..last /\ \A r \in 1..last : of[r] \in Plan
  BY PlanAssumption DEF Typed, TypeOK, Row
<1>1. Alone'
  BY <1>0, AloneKept DEF Ease, Users, Builds, Starts, Idle
<1>2. Agreed'
  <2> SUFFICES ASSUME NEW r \in rows', of'[r] \in Timed, of'[r] \notin Concerns(a),
                      \A b \in Actor : at'[b].op \in Users => of'[r] \notin Concerns(b)'
               PROVE  Whole(r)'
    <3>1. \A p : at'[a] = Idle => p \notin Concerns(a)'
      BY InConcernsNext DEF Idle
    <3>2. at'[a] = Idle \/ at'[a].op \in Users
      OBVIOUS
    <3> QED BY <3>1, <3>2 DEF Agreed
  <2>1. r \in rows /\ r \in 1..last /\ of'[r] = of[r] /\ of[r] \in Plan
    BY <1>0
  <2>2. \A b \in Actor : at[b].op \in Users => of[r] \notin Concerns(b)
    BY <1>0, <2>1, ConcernsKept
  <2>3. Whole(r)
    BY <2>1, <2>2 DEF Ease, Agreed
  <2> QED BY <2>1, <2>3 DEF Whole
<1>3. ASSUME NEW b \in Actor, b # a
      PROVE  Fires(b)' /\ Waits(b)' /\ Halfway(b)'
  <2>1. at'[b] = at[b] /\ Fits(at[b]) /\ Fires(b) /\ Waits(b) /\ Halfway(b)
    BY <1>3 DEF Typed, Shape, Ease, Orderly
  <2>2. at[b].row # 0 => at[b].row \in 1..last /\ of[at[b].row] \in Plan
    BY <1>0, RowType
  <2>3. at[b].built \subseteq 1..last
    BY <1>0 DEF TypeOK
  <2>4. ASSUME at[b].op \in Users, NEW r \in 1..last, of[r] \in Concerns(b)
        PROVE  of[r] \notin Concerns(a)
    BY <1>0, <1>3, <2>4 DEF Ease, Alone, Users, Builds, Starts
  <2>5. Fires(b)'
    <3>1. at[b].op \in Starts /\ at[a].op \in {"pause", "resume"} =>
            of[at[b].row] \notin Concerns(a)
      <4> SUFFICES ASSUME at[b].op \in Starts, at[a].op \in {"pause", "resume"}
                   PROVE  of[at[b].row] \notin Concerns(a)
        OBVIOUS
      <4>1. of[at[b].row] \in Concerns(b) /\ of[at[b].row] \in Plan
        BY <2>1, <2>2, RowConcern DEF Fits, Starts
      <4> QED BY <1>3, <4>1 DEF Ease, Alone, Users, Builds
    <3>2. at[b].op \in Starts => at[b].row # 0
      BY <2>1 DEF Fits, Starts
    <3> QED BY <2>1, <2>2, <3>1, <3>2 DEF Fires
  <2>6. Waits(b)'
    <3> SUFFICES ASSUME at[b].op = "submit"
                 PROVE  /\ at[b].step \in Inserting => New(at[b].row)'
                        /\ \A r \in at[b].built : New(r)'
      BY <2>1 DEF Waits
    <3>1. ASSUME NEW r \in 1..last, of[r] \in Concerns(b), New(r)
          PROVE  New(r)'
      <4>1. of[r] \notin Concerns(a) /\ of[r] \in Plan
        BY <1>0, <2>4, <3>1 DEF Users, Builds
      <4> QED BY <3>1, <4>1 DEF New
    <3>2. at[b].step \in Inserting => at[b].row # 0
      BY <2>1 DEF Fits, Inserting
    <3>3. \A r \in at[b].built : of[r] \in Concerns(b)
      BY <2>3, InConcerns
    <3>4. at[b].row # 0 => of[at[b].row] \in Concerns(b)
      BY InConcerns
    <3> QED BY <2>1, <2>2, <2>3, <3>1, <3>2, <3>3, <3>4 DEF Waits
  <2>7. Halfway(b)'
    <3> SUFFICES ASSUME at[b].op \in {"delete", "pause", "resume", "change"},
                        of'[at[b].row] \in Timed
                 PROVE  Half(b)'
      BY <2>1 DEF Halfway
    <3>1. /\ at[b].row \in 1..last /\ of[at[b].row] \in Plan /\ of'[at[b].row] = of[at[b].row]
          /\ of[at[b].row] \in Concerns(b)
      BY <2>1, <2>2, RowConcern DEF Fits
    <3>2. of[at[b].row] \notin Concerns(a) /\ Half(b)
      BY <2>1, <2>4, <3>1 DEF Halfway, Users, Builds
    <3>3. Rows(of[at[b].row]) = {} => Rows(of[at[b].row])' = {}
      BY <1>0, <3>1, <3>2 DEF Rows
    <3> QED BY <2>1, <3>1, <3>2, <3>3 DEF Half, Whole
  <2> QED BY <2>5, <2>6, <2>7
<1>4. Fires(a)'
  BY DEF Fires, Users, Builds, Starts, Idle
<1> QED BY <1>1, <1>2, <1>3, <1>4 DEF Ease, Orderly

\* submitJobPlan begins: nobody else is about its plans.
LEMMA SubmitEase ==
  ASSUME Typed, Ease, NEW a \in Actor, NEW ps \in SUBSET Plan, Submit(a, ps), trouble' = {}
  PROVE  Ease'
<1>0. TypeOK /\ UNCHANGED <<rows, of, state, cron, job, last>> /\ at[a].op = "none"
  BY DEF Typed, Submit, table, Idle
<1>1. Clash(a, "submit", ps) = {}
  BY DEF Submit, Trouble
<1>2. /\ at'[a].op = "submit" /\ at'[a].step = "clear" /\ at'[a].row = 0
      /\ at'[a].todo = ps /\ at'[a].built = {} /\ \A b \in Actor \ {a} : at'[b] = at[b]
  BY <1>0 DEF Submit, Submission, TypeOK
<1>3. Alone'
  <2>1. \A p \in Plan : p \in Concerns(a)' => p \in ps
    BY <1>2, InConcernsNext
  <2> QED BY <1>0, <1>1, <1>2, <2>1, AloneBegun DEF Ease, Users, Builds
<1>4. Fires(a)' /\ Waits(a)' /\ Halfway(a)'
  BY <1>2 DEF Fires, Starts, Waits, Halfway, Inserting
<1> QED BY <1>0, <1>2, <1>3, <1>4, EaseBegun DEF Users, Builds

\* The other operations of users begin with the row and the job in agreement.
LEMMA UserEase ==
  ASSUME Typed, Ease, NEW a \in Actor, NEW r \in Row, trouble' = {},
         Delete(a, r) \/ Pause(a, r) \/ PauseRun(a, r) \/ Resume(a, r) \/ Change(a, r)
  PROVE  Ease'
<1>0. r \in rows
  BY DEF Delete, Pause, PauseRun, Resume, Change, Trouble
<1>1. PICK op \in {"delete", "pause", "resume", "change"},
           s \in {"deleteJob", "pauseJob", "resumeJob", "setCron"} :
             Begin(a, op, r, s) /\ Clash(a, op, {of[r]}) = {}
  BY DEF Delete, Pause, PauseRun, Resume, Change, Trouble
<1>2. TypeOK /\ UNCHANGED <<rows, of, state, cron, job, last>> /\ at[a] = Idle /\ of[r] \in Plan
  BY <1>1 DEF Typed, TypeOK, Begin, table
<1>3. /\ at'[a].op = op /\ at'[a].step = s /\ at'[a].row = r /\ at'[a].todo = {}
      /\ at'[a].built = {} /\ \A b \in Actor \ {a} : at'[b] = at[b]
  BY <1>1, <1>2 DEF Begin, TypeOK
<1>4. Alone'
  <2>1. \A p \in Plan : p \in Concerns(a)' => p \in {of[r]}
    BY <1>2, <1>3, InConcernsNext
  <2> QED BY <1>1, <1>2, <1>3, <2>1, AloneBegun DEF Ease, Users, Builds
<1>5. of[r] \in Timed => Whole(r)
  <2>1. ASSUME NEW b \in Actor, at[b].op \in Users, of[r] \in Concerns(b)
        PROVE  FALSE
    <3>1. b # a
      BY <1>2, <2>1 DEF Idle, Users, Builds
    <3>2. Concerns(b) \cap {of[r]} # {} /\ op \in Users
      BY <2>1 DEF Users, Builds
    <3> QED BY <1>1, <2>1, <3>1, <3>2 DEF Clash
  <2> QED BY <1>0, <2>1 DEF Ease, Agreed
<1>6. Halfway(a)'
  <2> SUFFICES ASSUME of[r] \in Timed PROVE Half(a)'
    BY <1>2, <1>3 DEF Halfway
  <2>1. Whole(r)'
    BY <1>2, <1>5 DEF Whole
  <2> QED BY <1>0, <1>2, <1>3, <2>1 DEF Half
<1>7. Fires(a)' /\ Waits(a)'
  BY <1>3 DEF Fires, Starts, Waits
<1> QED BY <1>2, <1>3, <1>4, <1>6, <1>7, EaseBegun DEF Idle, Users, Builds

\* A job that waits belongs to a row that is able, unless the plan is being
\* paused or resumed.
LEMMA WaitingAble ==
  ASSUME Typed, Core, Ease, NEW p \in Plan, job[p].trigger = "waiting",
         \A b \in Actor : at[b].op \in {"pause", "resume"} => p \notin Concerns(b)
  PROVE  p \in Timed /\ job[p].row \in rows /\ of[job[p].row] = p /\ state[job[p].row] = "able"
<1>1. job[p] # NoJob
  BY DEF NoJob
<1>2. p \in Timed /\ job[p].row \in rows /\ of[job[p].row] = p
  BY <1>1 DEF Core, Ghostless
<1>3. CASE \A b \in Actor : at[b].op \in Users => p \notin Concerns(b)
  <2>1. Whole(job[p].row)
    BY <1>2, <1>3 DEF Ease, Agreed
  <2> QED BY <1>2, <2>1 DEF Whole
<1>4. ASSUME NEW b \in Actor, at[b].op \in Users, p \in Concerns(b)
      PROVE  state[job[p].row] = "able"
  <2>0. Fits(at[b]) /\ Waits(b) /\ Halfway(b)
    BY DEF Typed, Shape, Ease, Orderly
  <2>1. CASE at[b].op = "submit"
    <3>1. Stores(b)
      BY <2>1 DEF Core, Storing
    <3>2. p \notin at[b].todo
      BY <1>1, <3>1 DEF Stores
    <3>3. \A r \in at[b].built : of[r] # p
      BY <1>1, <1>2, <2>0, <2>1 DEF Waits, New
    <3>4. at[b].row # 0 => of[at[b].row] # p
      <4>1. at[b].row # 0 => at[b].step \in Inserting
        BY <2>0, <2>1, <3>1 DEF Fits, Stores
      <4> QED BY <1>1, <1>2, <2>0, <2>1, <4>1 DEF Waits, New
    <3> QED BY <1>4, <3>2, <3>3, <3>4, InConcerns
  <2>2. CASE at[b].op = "delete"
    <3>1. p = of[at[b].row]
      BY <1>4, <2>2, RowConcern
    <3>2. at[b].step = "deleteJob"
      BY <1>1, <2>0, <2>2, <3>1 DEF Fits, Core, Deleted
    <3>3. Whole(at[b].row) /\ at[b].row \in rows
      BY <1>2, <2>0, <2>2, <3>1, <3>2 DEF Halfway, Half
    <3>4. at[b].row = job[p].row
      BY <1>2, <3>1, <3>3 DEF Core, Single
    <3> QED BY <1>2, <3>3, <3>4 DEF Whole
  <2>3. CASE at[b].op = "change"
    <3>1. p = of[at[b].row]
      BY <1>4, <2>3, RowConcern
    <3>2. at[b].row \in rows /\ state[at[b].row] = "able"
      BY <1>2, <2>0, <2>3, <3>1 DEF Halfway, Half, Whole, Fits
    <3> QED BY <1>2, <3>1, <3>2 DEF Core, Single
  <2> QED BY <1>4, <2>1, <2>2, <2>3 DEF Users, Builds
<1> QED BY <1>2, <1>3, <1>4

\* Quartz starts a plan that is able.
LEMMA FireEase ==
  ASSUME Typed, Core, Ease, NEW a \in Actor, NEW p \in Plan, Fire(a, p), trouble' = {}
  PROVE  Ease'
<1> DEFINE r == job[p].row
<1>0. TypeOK /\ UNCHANGED <<rows, of, state, cron, job, last>> /\ at[a] = Idle
  BY DEF Typed, Fire, Begin, table
<1>1. Clash(a, "fire", {p}) = {} /\ job[p].trigger = "waiting"
  BY DEF Fire, Trouble
<1>2. /\ at'[a].op = "fire" /\ at'[a].step = "read" /\ at'[a].row = r /\ at'[a].todo = {}
      /\ at'[a].built = {} /\ \A b \in Actor \ {a} : at'[b] = at[b]
  BY <1>0 DEF Fire, Begin, TypeOK
<1>3. p \in Timed /\ r \in rows /\ of[r] = p /\ state[r] = "able"
  <2>1. ASSUME NEW b \in Actor, at[b].op \in {"pause", "resume"}, p \in Concerns(b)
        PROVE  FALSE
    <3>1. b # a
      BY <1>0, <2>1 DEF Idle
    <3>2. Concerns(b) \cap {p} # {}
      BY <2>1
    <3> QED BY <1>1, <2>1, <3>1, <3>2 DEF Clash
  <2> QED BY <1>1, <2>1, WaitingAble
<1>4. Alone'
  <2>1. \A q \in Plan : q \in Concerns(a)' => q \in {p}
    BY <1>0, <1>2, <1>3, InConcernsNext
  <2> QED BY <1>0, <1>1, <1>2, <2>1, AloneBegun DEF Ease, Starts
<1>5. Fires(a)' /\ Waits(a)' /\ Halfway(a)'
  BY <1>0, <1>2, <1>3 DEF Fires, Waits, Halfway
<1> QED BY <1>0, <1>2, <1>4, <1>5, EaseBegun DEF Idle, Users, Builds

\* An event starts a plan that is able too.
LEMMA OccurEase ==
  ASSUME Typed, Ease, NEW a \in Actor, NEW r \in Row, Occur(a, r), trouble' = {}
  PROVE  Ease'
<1>0. /\ TypeOK /\ UNCHANGED <<rows, of, state, cron, job, last>> /\ at[a] = Idle
      /\ of[r] \in Plan /\ state[r] = "able" /\ Clash(a, "event", {of[r]}) = {}
  BY DEF Typed, TypeOK, Occur, Begin, table, Trouble
<1>1. /\ at'[a].op = "event" /\ at'[a].step = "read" /\ at'[a].row = r /\ at'[a].todo = {}
      /\ at'[a].built = {} /\ \A b \in Actor \ {a} : at'[b] = at[b]
  BY <1>0 DEF Occur, Begin, TypeOK
<1>2. Alone'
  <2>1. \A q \in Plan : q \in Concerns(a)' => q \in {of[r]}
    BY <1>0, <1>1, InConcernsNext
  <2> QED BY <1>0, <1>1, <2>1, AloneBegun DEF Ease, Starts
<1>3. Fires(a)' /\ Waits(a)' /\ Halfway(a)'
  BY <1>0, <1>1 DEF Fires, Waits, Halfway
<1> QED BY <1>0, <1>1, <1>2, <1>3, EaseBegun DEF Idle, Users, Builds

\* The web starts any plan.
LEMMA ExecuteEase ==
  ASSUME Typed, Ease, NEW a \in Actor, NEW r \in Row, Execute(a, r)
  PROVE  Ease'
<1>0. TypeOK /\ UNCHANGED <<rows, of, state, cron, job, last>> /\ at[a] = Idle
  BY DEF Typed, Execute, Begin, table
<1>1. at'[a].op = "execute" /\ \A b \in Actor \ {a} : at'[b] = at[b]
  BY <1>0 DEF Execute, Begin, TypeOK
<1>2. Alone'
  BY <1>0, <1>1, AloneKept DEF Ease, Users, Builds, Starts
<1>3. Fires(a)' /\ Waits(a)' /\ Halfway(a)'
  BY <1>0, <1>1 DEF Fires, Starts, Waits, Halfway
<1> QED BY <1>0, <1>1, <1>2, <1>3, EaseBegun DEF Idle, Users, Builds

\* A start finds its plan able and removes nothing.
LEMMA StartEase ==
  ASSUME Typed, Ease, NEW a \in Actor,
         \/ Read(a) \/ Load(a) \/ LoadNodes(a) \/ Query(a) \/ RemoveJob(a) \/ Removed(a)
  PROVE  Ease'
<1>0. /\ TypeOK /\ Fits(at[a]) /\ at[a].op \in Users \cup {"none", "fire", "event", "execute"}
      /\ Fires(a)
  BY DEF Typed, Shape, TypeOK, Ease, Orderly
<1>1. at[a].op \in {"fire", "event", "execute"} /\ at[a].row # 0
  BY <1>0 DEF Fits, Idle, Read, Load, LoadNodes, Query, RemoveJob, Removed, Users, Builds, Is,
              Inserting, Erasing
<1>2. Read(a) \/ Load(a) \/ LoadNodes(a)
  BY <1>0, <1>1 DEF Query, RemoveJob, Removed, Fires, Fits, Starts
<1>3. UNCHANGED <<rows, of, state, cron, job, last>>
  BY <1>2 DEF Read, Load, LoadNodes, Look, table
<1>4. Return(a) \/ Go(a, "load") \/ Go(a, "loadNodes")
  <2>1. CASE Read(a)
    <3>1. at[a].op \in Starts
      BY <1>0, <1>1, <2>1 DEF Read, Fits, Starts
    <3> QED BY <1>0, <2>1, <3>1 DEF Read, Fires
  <2> QED BY <1>2, <2>1 DEF Load, LoadNodes
<1>5. /\ \A b \in Actor \ {a} : at'[b] = at[b]
      /\ \/ at'[a] = Idle
         \/ /\ at'[a].op = at[a].op /\ at'[a].row = at[a].row
            /\ at'[a].todo = at[a].todo /\ at'[a].built = at[a].built
            /\ at'[a].step \in {"load", "loadNodes"}
  <2>1. CASE Return(a)
    BY <1>0, <2>1, ReturnMoves DEF Moved
  <2>2. ASSUME NEW s \in {"load", "loadNodes"}, Go(a, s)
        PROVE  /\ \A b \in Actor \ {a} : at'[b] = at[b]
               /\ at'[a].op = at[a].op /\ at'[a].row = at[a].row
               /\ at'[a].todo = at[a].todo /\ at'[a].built = at[a].built
               /\ at'[a].step = s
    <3>1. Moved(a, Onward(a, s))
      BY <1>0, <2>2, GoMoves DEF Steps
    <3> QED BY <3>1 DEF Moved, Onward
  <2> QED BY <1>4, <2>1, <2>2
<1>6. Alone'
  <2>1. at'[a].op \in Users \cup Starts => at'[a].op = at[a].op /\
          \A p \in Plan : p \in Concerns(a)' => p \in Concerns(a)
    BY <1>0, <1>3, <1>5, InConcerns, InConcernsNext DEF Idle, Users, Builds, Starts
  <2> QED BY <1>0, <1>3, <1>5, <2>1, AloneKept DEF Ease
<1>7. Fires(a)' /\ Waits(a)' /\ Halfway(a)'
  <2>1. CASE at'[a] = Idle
    BY <2>1 DEF Idle, Fires, Starts, Waits, Halfway
  <2>2. CASE at'[a] # Idle
    BY <1>0, <1>1, <1>3, <1>5, <2>2 DEF Fires, Waits, Halfway
  <2> QED BY <2>1, <2>2
<1> QED BY <1>1, <1>3, <1>5, <1>6, <1>7, EaseBegun DEF Users, Builds

\* A step of an operation on one row.
LEMMA RowStep ==
  ASSUME Typed, Ease, NEW a \in Actor, at[a].op \in {"delete", "pause", "resume", "change"},
         \A b \in Actor \ {a} : at'[b] = at[b],
         \/ at'[a] = Idle
         \/ at'[a].op = at[a].op /\ at'[a].row = at[a].row /\ at'[a].todo = {} /\ at'[a].built = {},
         UNCHANGED <<of, last>>, rows' \subseteq rows,
         \A p \in Plan : p # of[at[a].row] => job'[p] = job[p],
         \A r \in 1..last : of[r] # of[at[a].row] =>
           state'[r] = state[r] /\ cron'[r] = cron[r] /\ (r \in rows => r \in rows'),
         \A r \in 1..last :
           state'[r] \in {state[r], "able"} \/ at[a].op \in {"pause", "resume"},
         \A r \in rows' : at'[a] = Idle /\ of[r] \in Timed /\ of[r] = of[at[a].row] => Whole(r)',
         at'[a] # Idle /\ of[at[a].row] \in Timed => Half(a)'
  PROVE  Ease'
<1>0. \A p : p \in Concerns(a) <=> p = of[at[a].row]
  BY RowConcern
<1>1. Fits(at[a]) /\ rows \subseteq 1..last /\ TypeOK
  BY DEF Typed, Shape, TypeOK
<1>2. \A p : at'[a] # Idle => (p \in Concerns(a)' <=> p = of[at[a].row])
  BY <1>1, InConcernsNext DEF Fits
<1>3. \A p : at'[a] = Idle => p \notin Concerns(a)'
  BY InConcernsNext DEF Idle
<1>4. Waits(a)' /\ Halfway(a)'
  BY DEF Waits, Halfway, Idle
<1>5. at[a].op \in Users
  BY DEF Users, Builds
<1>6. \A r \in rows' : of'[r] \in Timed /\ of'[r] \in Concerns(a) /\ of'[r] \notin Concerns(a)'
        => Whole(r)'
  BY <1>0, <1>2
<1>7. /\ \A r \in 1..last : of'[r] = of[r] /\ (r \in rows' => r \in rows)
      /\ \A r \in rows' : r \in 1..last \/ of'[r] \in Concerns(a)
      /\ \A p \in Plan : p \in Concerns(a)' => p \in Concerns(a)
  BY <1>0, <1>1, <1>2, <1>3
<1> QED BY <1>0, <1>4, <1>5, <1>6, <1>7, EaseStep

\* The row of an operation on a timed plan, and its only one.
LEMMA OnlyRow ==
  ASSUME Typed, Core, Ease, NEW a \in Actor, at[a].op \in {"delete", "pause", "resume", "change"}
  PROVE  /\ at[a].row \in 1..last /\ at[a].row \in Row /\ of[at[a].row] \in Plan /\ at[a].row # 0
         /\ at[a].todo = {} /\ at[a].built = {}
         /\ of[at[a].row] \in Timed => Half(a)
         /\ at[a].row \in rows => \A r \in rows : of[r] = of[at[a].row] => r = at[a].row
<1>1. Fits(at[a]) /\ TypeOK /\ Halfway(a)
  BY DEF Typed, Shape, Ease, Orderly
<1> QED BY <1>1, RowType DEF Fits, Halfway, Core, Single

\* Pausing: the job first, then the row.
LEMMA PauseEase ==
  ASSUME Typed, Core, Ease, NEW a \in Actor, PauseJob(a) \/ ResumeJob(a)
  PROVE  Ease'
<1> DEFINE p == of[at[a].row]
<1>0. /\ TypeOK /\ job \in Jobs /\ UNCHANGED <<rows, of, state, cron, last>>
      /\ at[a].op \in {"pause", "resume"} /\ at[a].step \in {"pauseJob", "resumeJob"}
  BY DEF Typed, TypeOK, Jobs, PauseJob, ResumeJob, SetTrigger, table, Is
<1>1. /\ at[a].row \in 1..last /\ p \in Plan /\ at[a].row # 0
      /\ at[a].todo = {} /\ at[a].built = {}
      /\ (p \in Timed => Half(a))
  BY <1>0, OnlyRow
<1>2. PICK s \in {"disable", "enable"}, t \in {"waiting", "paused"} :
        Go(a, s) /\ SetTrigger(p, t) /\ t = IF s = "disable" THEN "paused" ELSE "waiting"
  BY DEF PauseJob, ResumeJob
<1>3. Moved(a, Onward(a, s))
  BY <1>0, <1>2, GoMoves DEF Steps
<1>4. /\ at'[a].op = at[a].op /\ at'[a].step = s /\ at'[a].row = at[a].row
      /\ at'[a].todo = {} /\ at'[a].built = {} /\ \A b \in Actor \ {a} : at'[b] = at[b]
  BY <1>1, <1>3 DEF Moved, Onward
<1>5. \A q \in Plan : /\ job'[q].row = job[q].row
                      /\ job'[q].cron = job[q].cron
                      /\ job'[q].trigger = IF q = p /\ job[q] # NoJob THEN t ELSE job[q].trigger
  <2>1. job' = IF job[p] = NoJob THEN job ELSE [job EXCEPT ![p].trigger = t]
    BY <1>2 DEF SetTrigger
  <2>2. job \in Jobs /\ p \in Plan /\ t \in {"waiting", "paused"}
    BY <1>0, <1>1, <1>2
  <2> HIDE DEF p
  <2> QED BY <2>1, <2>2, TriggerType
<1>6. \A q \in Plan : q # p => job'[q] = job[q]
  <2>1. job' = IF job[p] = NoJob THEN job ELSE [job EXCEPT ![p].trigger = t]
    BY <1>2 DEF SetTrigger
  <2> QED BY <1>0, <2>1 DEF Jobs
<1>7. p \in Timed => Half(a)'
  <2> SUFFICES ASSUME p \in Timed PROVE Half(a)'
    OBVIOUS
  <2>1. Whole(at[a].row) /\ at[a].row \in rows
    BY <1>0, <1>1 DEF Half
  <2>2. job[p] # NoJob
    BY <1>1, <2>1 DEF Whole, NoJob
  <2>3. /\ job'[p].row = at[a].row /\ job'[p].trigger = t
        /\ cron[at[a].row] = "unfit" \/ job'[p].cron = cron[at[a].row]
    BY <1>1, <1>5, <2>1, <2>2 DEF Whole
  <2> QED BY <1>0, <1>2, <1>4, <2>1, <2>3 DEF Half, Erasing
<1>8. at'[a] # Idle
  BY <1>0, <1>4 DEF Idle
<1> QED BY <1>0, <1>4, <1>6, <1>7, <1>8, RowStep

\* The row of the plan is set to what its job does.
LEMMA DisableEase ==
  ASSUME Typed, Core, Ease, NEW a \in Actor, Disable(a) \/ Enable(a)
  PROVE  Ease'
<1> DEFINE p == of[at[a].row]
<1>0. /\ TypeOK /\ UNCHANGED <<rows, of, job, cron, last>>
      /\ at[a].op \in {"pause", "resume"} /\ at[a].step \in {"disable", "enable"}
  BY DEF Typed, Disable, Enable, SetState, Is
<1>1. /\ at[a].row \in 1..last /\ at[a].row \in Row /\ p \in Plan
      /\ (p \in Timed => Half(a))
      /\ at[a].row \in rows => \A r \in rows : of[r] = p => r = at[a].row
  BY <1>0, OnlyRow
<1>2. at'[a] = Idle /\ \A b \in Actor \ {a} : at'[b] = at[b]
  BY <1>0, ReturnMoves DEF Disable, Enable, Moved
<1>3. state' = IF at[a].row \in rows
               THEN [state EXCEPT ![at[a].row] = IF at[a].step = "disable" THEN "disable" ELSE "able"]
               ELSE state
  BY DEF Disable, Enable, SetState, Is
<1>4. /\ \A r \in 1..last : r # at[a].row => state'[r] = state[r]
      /\ at[a].row \in rows =>
           state'[at[a].row] = IF at[a].step = "disable" THEN "disable" ELSE "able"
  BY <1>0, <1>1, <1>3 DEF TypeOK
<1>5. ASSUME NEW r \in rows, of[r] \in Timed, of[r] = p
      PROVE  Whole(r)'
  <2>1. Half(a) /\ at[a].row \in rows /\ r = at[a].row
    BY <1>0, <1>1, <1>5 DEF Half, Erasing
  <2> QED BY <1>0, <1>4, <1>5, <2>1 DEF Half, Whole
<1> QED BY <1>0, <1>2, <1>4, <1>5, RowStep

\* Changing the time: the row first, then the job.
LEMMA ChangeEase ==
  ASSUME Typed, Core, Ease, NEW a \in Actor, NEW c \in {"new", "unfit"}, SetCron(a, c),
         trouble' = {}
  PROVE  Ease'
<1> DEFINE p == of[at[a].row]
           s == IF c = "new" THEN "updateJob" ELSE "rejectJob"
<1>0. /\ TypeOK /\ UNCHANGED <<rows, of, job, state, last>>
      /\ at[a].op = "change" /\ at[a].step = "setCron"
      /\ c = "new" => job[p].trigger # "paused"
  BY DEF Typed, SetCron, Is, Trouble
<1>1. /\ at[a].row \in 1..last /\ at[a].row \in Row /\ p \in Plan
      /\ (p \in Timed => Half(a))
      /\ at[a].todo = {} /\ at[a].built = {}
  BY <1>0, OnlyRow
<1>2. Moved(a, Onward(a, s))
  BY <1>0, GoMoves DEF SetCron, Steps
<1>3. /\ at'[a].op = "change" /\ at'[a].step = s /\ at'[a].row = at[a].row
      /\ at'[a].todo = {} /\ at'[a].built = {} /\ \A b \in Actor \ {a} : at'[b] = at[b]
  BY <1>0, <1>1, <1>2 DEF Moved, Onward
<1>4. /\ \A r \in 1..last : r # at[a].row => cron'[r] = cron[r]
      /\ at[a].row \in rows => cron'[at[a].row] = c
  BY <1>0, <1>1 DEF SetCron, TypeOK
<1>5. p \in Timed => Half(a)'
  <2> SUFFICES ASSUME p \in Timed PROVE Half(a)'
    OBVIOUS
  <2>1. at[a].row \in rows /\ Whole(at[a].row)
    BY <1>0, <1>1 DEF Half
  <2> QED BY <1>0, <1>1, <1>3, <1>4, <2>1 DEF Half, Whole
<1>6. at'[a] # Idle
  BY <1>3 DEF Idle
<1> QED BY <1>0, <1>3, <1>4, <1>5, <1>6, RowStep

\* A change that is refused leaves the row with a time that fits no trigger.
LEMMA RejectEase ==
  ASSUME Typed, Core, Ease, NEW a \in Actor, RejectJob(a)
  PROVE  Ease'
<1> DEFINE p == of[at[a].row]
<1>0. /\ TypeOK /\ UNCHANGED <<rows, of, state, cron, job, last>>
      /\ at[a].op = "change" /\ at[a].step = "rejectJob"
  BY DEF Typed, RejectJob, Look, table, Is
<1>1. /\ p \in Timed => Half(a)
      /\ at[a].row \in rows => \A r \in rows : of[r] = p => r = at[a].row
  BY <1>0, OnlyRow
<1>2. at'[a] = Idle /\ \A b \in Actor \ {a} : at'[b] = at[b]
  BY <1>0, ReturnMoves DEF RejectJob, Moved
<1>3. ASSUME NEW r \in rows, of[r] \in Timed, of[r] = p
      PROVE  Whole(r)'
  <2>1. Whole(at[a].row) /\ r = at[a].row
    BY <1>0, <1>1, <1>3 DEF Half
  <2> QED BY <1>0, <2>1 DEF Whole
<1> QED BY <1>0, <1>2, <1>3, RowStep

\* The job of the plan is given the time of its row.
LEMMA UpdateEase ==
  ASSUME Typed, Core, Ease, NEW a \in Actor, UpdateJob(a)
  PROVE  Ease'
<1> DEFINE p == of[at[a].row]
<1>0. /\ TypeOK /\ job \in Jobs /\ UNCHANGED <<rows, of, state, cron, last>>
      /\ at[a].op = "change" /\ at[a].step = "updateJob"
  BY DEF Typed, TypeOK, Jobs, UpdateJob, table, Is
<1>1. /\ at[a].row \in 1..last /\ at[a].row # 0 /\ p \in Plan
      /\ (p \in Timed => Half(a))
      /\ at[a].row \in rows => \A r \in rows : of[r] = p => r = at[a].row
  BY <1>0, OnlyRow
<1>2. at'[a] = Idle /\ \A b \in Actor \ {a} : at'[b] = at[b]
  BY <1>0, ReturnMoves DEF UpdateJob, Moved
<1>3. /\ \A q \in Plan : q # p => job'[q] = job[q]
      /\ job'[p].row = job[p].row
      /\ job[p] # NoJob => job'[p].trigger = "waiting" /\ job'[p].cron = "new"
  BY <1>0, <1>1, UpdateType DEF UpdateJob
<1>4. ASSUME NEW r \in rows, of[r] \in Timed, of[r] = p
      PROVE  Whole(r)'
  <2>1. Half(a) /\ at[a].row \in rows /\ r = at[a].row
    BY <1>0, <1>1, <1>4 DEF Half, Erasing
  <2>2. job[p] # NoJob
    BY <1>0, <1>1, <2>1 DEF Half, NoJob
  <2> QED BY <1>0, <1>3, <1>4, <2>1, <2>2 DEF Half, Whole
<1> QED BY <1>0, <1>2, <1>3, <1>4, RowStep

\* Deleting: the job first, then the row and its nodes.
LEMMA DeleteEase ==
  ASSUME Typed, Core, Ease, NEW a \in Actor,
         Unbuild(a) \/ DeleteRow(a) \/ DeleteNodes(a) \/ DeleteMetas(a)
  PROVE  Ease'
<1> DEFINE p == of[at[a].row]
<1>0. /\ TypeOK /\ Fits(at[a]) /\ job \in Jobs /\ last \in Nat /\ UNCHANGED <<of, last>>
      /\ rows' \subseteq rows /\ at[a].op \in Users \cup {"none", "fire", "event", "execute"}
  BY PlanAssumption DEF Typed, Shape, TypeOK, Jobs, Unbuild, DeleteRow, DeleteNodes, DeleteMetas,
     DeleteJob, SetDetails, table
<1>1. at[a].op = "delete"
  BY <1>0 DEF Fits, Idle, Users, Builds, Erasing, Core, Storing, Stores, Unbuild, DeleteRow,
     DeleteNodes, DeleteMetas, Is
<1>2. /\ at[a].row \in 1..last /\ at[a].row \in Row /\ p \in Plan /\ at[a].row # 0
      /\ at[a].todo = {} /\ at[a].built = {}
      /\ (p \in Timed => Half(a))
      /\ at[a].row \in rows => \A r \in rows : of[r] = p => r = at[a].row
  BY <1>1, OnlyRow
<1>3. /\ \A b \in Actor \ {a} : at'[b] = at[b]
      /\ \/ at'[a] = Idle /\ DeleteMetas(a)
         \/ /\ at'[a].op = at[a].op /\ at'[a].row = at[a].row /\ at'[a].todo = {}
            /\ at'[a].built = {} /\ at'[a] # Idle
            /\ at'[a].step = "deleteRow" => Unbuild(a)
            /\ at'[a].step \in Erasing /\ (DeleteRow(a) \/ DeleteNodes(a) \/ Unbuild(a))
  <2>1. CASE DeleteMetas(a)
    BY <1>0, <1>1, <2>1, ReturnMoves DEF DeleteMetas, Moved
  <2>2. CASE Unbuild(a)
    <3>1. Moved(a, Onward(a, "deleteRow"))
      BY <1>0, <2>2, GoMoves DEF Unbuild, Steps
    <3> QED BY <1>1, <1>2, <2>2, <3>1 DEF Moved, Onward, Erasing, Idle
  <2>3. CASE DeleteRow(a)
    <3>1. Moved(a, Onward(a, "deleteNodes"))
      BY <1>0, <2>3, GoMoves DEF DeleteRow, Steps
    <3> QED BY <1>1, <1>2, <2>3, <3>1 DEF Moved, Onward, Erasing, Idle
  <2>4. CASE DeleteNodes(a)
    <3>1. Moved(a, Onward(a, "deleteMetas"))
      BY <1>0, <2>4, GoMoves DEF DeleteNodes, Steps
    <3> QED BY <1>1, <1>2, <2>4, <3>1 DEF Moved, Onward, Erasing, Idle
  <2> QED BY <2>1, <2>2, <2>3, <2>4
<1>4. \A q \in Plan : q # p => job'[q] = job[q]
  <2>1. CASE Unbuild(a)
    BY <1>0, <1>2, <2>1, DeleteType DEF Unbuild, DeleteJob
  <2> QED BY <2>1 DEF DeleteRow, DeleteNodes, DeleteMetas, SetDetails
<1>5. /\ \A r \in 1..last : r # at[a].row =>
           state'[r] = state[r] /\ cron'[r] = cron[r] /\ (r \in rows => r \in rows')
      /\ \A r \in 1..last : state'[r] \in {state[r], "able"}
  <2>1. CASE DeleteRow(a)
    <3>1. \A r \in 1..last : r \in Row
      BY <1>0, PlanAssumption DEF TypeOK, Row
    <3> QED BY <1>0, <1>2, <2>1, <3>1 DEF DeleteRow, TypeOK
  <2> QED BY <2>1 DEF Unbuild, DeleteNodes, DeleteMetas, SetDetails, DeleteJob, table
<1>6. p \in Timed /\ at'[a] # Idle => Half(a)'
  <2> SUFFICES ASSUME p \in Timed, at'[a] # Idle PROVE Half(a)'
    OBVIOUS
  <2>1. CASE Unbuild(a)
    <3>1. Moved(a, Onward(a, "deleteRow"))
      BY <1>0, <2>1, GoMoves DEF Unbuild, Steps
    <3>2. at'[a].step = "deleteRow"
      BY <3>1 DEF Moved, Onward
    <3>3. at[a].row \in rows /\ UNCHANGED rows
      BY <1>2, <2>1 DEF Half, Unbuild, Is, DeleteJob, table
    <3> QED BY <1>3, <3>2, <3>3 DEF Half
  <2>2. CASE DeleteRow(a)
    <3>1. at[a].row \in rows
      BY <1>2, <2>2 DEF Half, DeleteRow
    <3>2. \A r \in rows' : of[r] # of[at[a].row]
      BY <1>0, <1>2, <2>2, <3>1 DEF DeleteRow, Rows
    <3>3. Moved(a, Onward(a, "deleteNodes"))
      BY <1>0, <2>2, GoMoves DEF DeleteRow, Steps
    <3>4. at'[a].step = "deleteNodes"
      BY <3>3 DEF Moved, Onward
    <3> QED BY <1>0, <1>3, <3>2, <3>4 DEF Half, Rows
  <2>3. CASE DeleteNodes(a)
    <3>1. Rows(p) = {} /\ UNCHANGED rows
      BY <1>2, <2>3 DEF Half, DeleteNodes, SetDetails
    <3>2. \A r \in rows' : of[r] # of[at[a].row]
      BY <1>0, <3>1 DEF Rows
    <3>3. Moved(a, Onward(a, "deleteMetas"))
      BY <1>0, <2>3, GoMoves DEF DeleteNodes, Steps
    <3>4. at'[a].step = "deleteMetas"
      BY <3>3 DEF Moved, Onward
    <3> QED BY <1>0, <1>3, <3>2, <3>4 DEF Half, Rows
  <2> QED BY <1>3, <2>1, <2>2, <2>3
<1>7. ASSUME at'[a] = Idle, NEW r \in rows', of[r] \in Timed, of[r] = p
      PROVE  FALSE
  <2>1. DeleteMetas(a)
    BY <1>3, <1>7
  <2> QED BY <1>0, <1>2, <1>7, <2>1 DEF Half, DeleteMetas, Rows
<1> QED BY <1>0, <1>1, <1>3, <1>4, <1>5, <1>6, <1>7, RowStep

\* A step of a submission that adds no row and gives up no plan.
LEMMA SubmitStep ==
  ASSUME Typed, Ease, NEW a \in Actor, at[a].op = "submit", at'[a].op = "submit",
         \A b \in Actor \ {a} : at'[b] = at[b],
         UNCHANGED <<rows, of, state, cron, last>>,
         \A p \in Plan : p \in Concerns(a)' <=> p \in Concerns(a),
         \A p \in Plan : p \notin Concerns(a) => job'[p] = job[p],
         Waits(a)'
  PROVE  Ease'
<1>1. rows \subseteq 1..last /\ \A r \in rows : of[r] \in Plan
  BY PlanAssumption DEF Typed, TypeOK, Row
<1>2. Halfway(a)' /\ at[a].op \in Users
  BY DEF Halfway, Users, Builds
<1>3. \A r \in rows' : of'[r] \in Timed /\ of'[r] \in Concerns(a) /\ of'[r] \notin Concerns(a)'
        => Whole(r)'
  BY <1>1
<1> QED BY <1>1, <1>2, <1>3, EaseStep

\* saveJobPlan has nothing to delete, and stores the first node.
LEMMA ClearEase ==
  ASSUME Typed, Core, Ease, NEW a \in Actor, Clear(a) \/ InsertNode(a)
  PROVE  Ease'
<1>0. /\ TypeOK /\ Fits(at[a]) /\ at[a].op = "submit" /\ at[a].step \in {"clear", "insertNode"}
      /\ UNCHANGED <<rows, of, state, cron, job, last>> /\ Waits(a)
  BY DEF Typed, Shape, Clear, InsertNode, Look, SetDetails, table, Is, Ease, Orderly
<1>1. Clear(a) => Go(a, "insert")
  <2>1. Clear(a) => Current(a) \in at[a].todo
    BY <1>0, CurrentType DEF Fits, Clear, Is, Inserting, Erasing
  <2>2. Clear(a) => Rows(Current(a)) = {}
    BY <1>0, <2>1 DEF Core, Storing, Stores, Is, Rows, Inserting, Clear
  <2> QED BY <2>2 DEF Clear
<1>2. PICK s \in Steps : Go(a, s) /\ (s \in Inserting => at[a].step \in Inserting)
  BY <1>1 DEF InsertNode, Steps, Inserting, Is
<1>3. Moved(a, Onward(a, s))
  BY <1>0, <1>2, GoMoves
<1>4. /\ at'[a].op = "submit" /\ at'[a].step = s /\ at'[a].row = at[a].row
      /\ at'[a].todo = at[a].todo /\ at'[a].built = at[a].built
      /\ \A b \in Actor \ {a} : at'[b] = at[b]
  BY <1>0, <1>3 DEF Moved, Onward
<1>5. \A p \in Plan : p \in Concerns(a)' <=> p \in Concerns(a)
  BY <1>0, <1>4, InConcerns, InConcernsNext
<1>6. Waits(a)'
  BY <1>0, <1>2, <1>4 DEF Waits, New
<1> QED BY <1>0, <1>4, <1>5, <1>6, SubmitStep

\* The new row is able, has the time of the file and no job yet.
LEMMA InsertEase ==
  ASSUME Typed, Core, Ease, NEW a \in Actor, Insert(a)
  PROVE  Ease'
<1>0. /\ TypeOK /\ Fits(at[a]) /\ at[a].op = "submit" /\ at[a].step = "insert"
      /\ UNCHANGED <<state, cron, job>> /\ Waits(a)
      /\ last \in Nat /\ last' = last + 1 /\ last' \in Row /\ rows' = rows \cup {last'}
      /\ rows \subseteq 1..last /\ of' = [of EXCEPT ![last'] = Current(a)]
  <2>1. TypeOK /\ Fits(at[a]) /\ Waits(a)
    BY DEF Typed, Shape, Ease, Orderly
  <2>2. /\ at[a].op = "submit" /\ at[a].step = "insert" /\ UNCHANGED <<state, cron, job>>
        /\ last' = last + 1 /\ last < MaxRow /\ rows' = rows \cup {last'}
        /\ of' = [of EXCEPT ![last'] = Current(a)]
    BY DEF Insert, Is
  <2>3. last \in Nat /\ rows \subseteq 1..last
    BY <2>1, PlanAssumption DEF TypeOK
  <2>4. last' \in Row
    BY <2>2, <2>3, PlanAssumption DEF Row
  <2> QED BY <2>1, <2>2, <2>3, <2>4
<1>1. Current(a) \in at[a].todo /\ Current(a) \in Plan
  BY <1>0, CurrentType DEF Fits, Inserting, Erasing
<1>2. /\ at'[a].op = "submit" /\ at'[a].step = "insertNode" /\ at'[a].row = last'
      /\ at'[a].todo = at[a].todo /\ at'[a].built = at[a].built
      /\ \A b \in Actor \ {a} : at'[b] = at[b]
  BY <1>0 DEF Insert, Submission, TypeOK
<1>3. of'[last'] = Current(a) /\ \A r \in 1..last : r # last' /\ of'[r] = of[r]
  BY <1>0, PlanAssumption DEF TypeOK, Row
<1>4. at[a].built \subseteq 1..last
  BY <1>0 DEF TypeOK
<1>5. at[a].row = 0 /\ job[Current(a)] = NoJob
  BY <1>0, <1>1 DEF Core, Storing, Stores
<1>6. \A p \in Plan : p \in Concerns(a)' <=> p \in Concerns(a)
  BY <1>1, <1>2, <1>3, <1>4, <1>5, InConcerns, InConcernsNext
<1>7. state[last'] = "able" /\ cron[last'] = "old"
  BY <1>0 DEF Typed, Rested
<1>8. Waits(a)' /\ Halfway(a)' /\ at[a].op \in Users
  <2>1. New(at[a].row)'
    BY <1>0, <1>2, <1>3, <1>5, <1>7 DEF New
  <2>2. \A r \in at[a].built : New(r)'
    BY <1>0, <1>3, <1>4 DEF Waits, New
  <2> QED BY <1>0, <1>2, <2>1, <2>2 DEF Waits, Halfway, Users, Builds
<1>9. Current(a) \in Concerns(a)
  BY <1>1, InConcerns
<1>10. /\ \A r \in 1..last : of'[r] = of[r] /\ (r \in rows' => r \in rows)
       /\ \A r \in rows' : r \in 1..last \/ of'[r] \in Concerns(a)
       /\ \A r \in rows' : of'[r] \in Plan
  <2>1. \A r \in 1..last : of[r] \in Plan
    BY <1>0, PlanAssumption DEF TypeOK, Row
  <2> QED BY <1>0, <1>1, <1>3, <1>9, <2>1
<1>11. \A r \in rows' : of'[r] \in Timed /\ of'[r] \in Concerns(a) /\ of'[r] \notin Concerns(a)'
         => Whole(r)'
  BY <1>6, <1>10
<1> QED BY <1>0, <1>2, <1>6, <1>8, <1>10, <1>11, EaseStep

\* A plan that is stored whole waits for its job.
LEMMA InsertRestEase ==
  ASSUME Typed, Core, Ease, NEW a \in Actor, InsertRest(a)
  PROVE  Ease'
<1>0. /\ TypeOK /\ Fits(at[a]) /\ at[a].op = "submit" /\ at[a].step = "insertRest"
      /\ UNCHANGED <<rows, of, state, cron, job, last>> /\ Waits(a)
  BY DEF Typed, Shape, InsertRest, SetDetails, Is, Ease, Orderly
<1>1. at[a].row # 0 /\ at[a].row \in 1..last /\ at[a].todo # {}
  BY <1>0, RowType DEF Fits, Inserting, Erasing
<1>2. of[at[a].row] = Current(a) /\ Current(a) \in at[a].todo
  BY <1>0, <1>1, CurrentType DEF Core, Storing, Stores, Inserting
<1>3. /\ at'[a].op = "submit" /\ at'[a].step \in {"unschedule", "clear"} /\ at'[a].row = 0
      /\ at'[a].todo = at[a].todo \ {Current(a)} /\ at'[a].built = at[a].built \cup {at[a].row}
      /\ \A b \in Actor \ {a} : at'[b] = at[b]
  <2>1. at'[a] = Saved(a) /\ \A b \in Actor \ {a} : at'[b] = at[b]
    BY <1>0 DEF InsertRest, TypeOK
  <2> QED BY <2>1 DEF Saved, Submission
<1>4. \A p \in Plan : p \in Concerns(a)' <=> p \in Concerns(a)
  BY <1>0, <1>1, <1>2, <1>3, InConcerns, InConcernsNext
<1>5. Waits(a)'
  <2>1. New(at[a].row) /\ \A r \in at[a].built : New(r)
    BY <1>0 DEF Waits, Inserting
  <2> QED BY <1>0, <1>3, <2>1 DEF Waits, New, Inserting
<1> QED BY <1>0, <1>3, <1>4, <1>5, SubmitStep

\* The job that is deleted before a new one is built was not there.
LEMMA UnscheduleEase ==
  ASSUME Typed, Core, Ease, NEW a \in Actor, Unschedule(a)
  PROVE  Ease'
<1>0. /\ TypeOK /\ Fits(at[a]) /\ at[a].op = "submit" /\ at[a].step = "unschedule"
      /\ job \in Jobs /\ last \in Nat
      /\ UNCHANGED <<rows, of, state, cron, last>> /\ Waits(a)
  BY PlanAssumption DEF Typed, Shape, TypeOK, Jobs, Unschedule, DeleteJob, table, Is, Ease, Orderly
<1>1. at[a].built # {} /\ at[a].built \subseteq 1..last /\ \A r \in at[a].built : of[r] \in Plan
  BY <1>0, PlanAssumption DEF Fits, Inserting, Erasing, TypeOK, Row
<1>2. Building(a) \in at[a].built /\ of[Building(a)] \in Plan /\ Building(a) # 0
  BY <1>0, <1>1, BuildingType
<1>3. of[Building(a)] \in Concerns(a)
  BY <1>2, InConcerns
<1>4. job'[of[Building(a)]] = NoJob /\ \A q \in Plan \ {of[Building(a)]} : job'[q] = job[q]
  BY <1>0, <1>2, DeleteType DEF Unschedule, DeleteJob
<1>5. Moved(a, Onward(a, "schedule"))
  BY <1>0, GoMoves DEF Unschedule, Steps
<1>6. /\ at'[a].op = "submit" /\ at'[a].step = "schedule" /\ at'[a].row = at[a].row
      /\ at'[a].todo = at[a].todo /\ at'[a].built = at[a].built
      /\ \A b \in Actor \ {a} : at'[b] = at[b]
  BY <1>0, <1>5 DEF Moved, Onward
<1>7. \A p \in Plan : p \in Concerns(a)' <=> p \in Concerns(a)
  BY <1>0, <1>6, InConcerns, InConcernsNext
<1>8. Waits(a)'
  <2>1. \A r \in at[a].built : New(r)
    BY <1>0 DEF Waits
  <2>2. \A r \in at[a].built : job'[of[r]] \in {NoJob, job[of[r]]}
    BY <1>1, <1>4
  <2> QED BY <1>0, <1>6, <2>1, <2>2 DEF Waits, New, Inserting
<1> QED BY <1>0, <1>3, <1>4, <1>6, <1>7, <1>8, SubmitStep

\* The job of a new row waits for its time.
LEMMA ScheduleEase ==
  ASSUME Typed, Core, Ease, NEW a \in Actor, Schedule(a)
  PROVE  Ease'
<1> DEFINE B == Building(a)
           k == [trigger |-> "waiting", row |-> B, cron |-> "old"]
<1>0. /\ TypeOK /\ Fits(at[a]) /\ at[a].op = "submit" /\ at[a].step = "schedule"
      /\ job \in Jobs /\ last \in Nat
      /\ UNCHANGED <<rows, of, state, cron, last>> /\ Waits(a)
  BY PlanAssumption DEF Typed, Shape, TypeOK, Jobs, Schedule, table, Is, Ease, Orderly
<1>1. /\ at[a].built # {} /\ at[a].todo = {} /\ at[a].row = 0
      /\ at[a].built \subseteq 1..last /\ \A r \in 1..last : of[r] \in Plan
  BY <1>0, PlanAssumption DEF Fits, Inserting, Erasing, TypeOK, Row
<1>2. B \in at[a].built /\ of[B] \in Plan /\ B # 0
  BY <1>0, <1>1, BuildingType
<1>3. /\ at[a].built \subseteq rows
      /\ \A r \in at[a].built : New(r) /\ (of[r] = of[B] => r = B)
      /\ \A r \in rows : of[r] = of[B] => r = B
  BY <1>0, <1>2 DEF Waits, Core, Storing, Stores, Single
<1>4. at'[a] = Built(a) /\ \A b \in Actor \ {a} : at'[b] = at[b]
  BY <1>0 DEF Schedule, TypeOK
<1>5. /\ at'[a] = Idle \/ at'[a].op = "submit"
      /\ at'[a].step \in {"idle", "unschedule"} /\ at'[a].row = 0 /\ at'[a].todo = {}
      /\ at'[a].built = at[a].built \ {B}
  BY <1>4 DEF Built, Submission, Idle
<1>6. /\ \A p \in Plan : p \in Concerns(a) <=> \E r \in at[a].built : of[r] = p
      /\ \A p \in Plan : p \in Concerns(a)' <=> \E r \in at[a].built \ {B} : of[r] = p
  BY <1>0, <1>1, <1>5, InConcerns, InConcernsNext
<1>7. /\ \A q \in Plan : q # of[B] => job'[q] = job[q]
      /\ of[B] \in Timed => job'[of[B]] = k
  BY <1>0, <1>2, <1>3 DEF Schedule, New, Jobs
<1>8. Waits(a)' /\ Halfway(a)' /\ at[a].op \in Users
  <2>1. \A r \in at[a].built \ {B} : New(r) /\ of[r] # of[B] /\ of[r] \in Plan
    BY <1>1, <1>3
  <2>2. \A r \in at[a].built \ {B} : New(r)'
    BY <1>0, <1>7, <2>1 DEF New
  <2> QED BY <1>0, <1>5, <2>2 DEF Waits, Halfway, Users, Builds, Inserting, Idle
<1>9. ASSUME NEW r \in rows, of[r] \in Timed, of[r] \in Concerns(a), of[r] \notin Concerns(a)'
      PROVE  Whole(r)'
  <2>1. of[r] \in Plan
    BY <1>0, <1>1 DEF TypeOK
  <2>2. r = B
    BY <1>3, <1>6, <1>9, <2>1
  <2>3. state[r] = "able" /\ cron[r] = "old"
    BY <1>2, <1>3, <1>9, <2>2 DEF New
  <2> QED BY <1>0, <1>7, <1>9, <2>2, <2>3 DEF Whole
<1>10. of[B] \in Concerns(a)
  BY <1>2, <1>6
<1>11. rows \subseteq 1..last
  BY <1>0 DEF TypeOK
<1> QED BY <1>0, <1>4, <1>5, <1>6, <1>7, <1>8, <1>9, <1>10, <1>11, EaseStep

\* Every step keeps the third layer of the invariant.
LEMMA NextCalm == Typed /\ Sound /\ Calm /\ [Next]_vars => Calm'
<1> SUFFICES ASSUME Typed, Sound, Calm, [Next]_vars, trouble' = {} PROVE Ease'
  BY DEF Calm
<1>1. CASE UNCHANGED vars
  BY <1>1 DEF vars, table, Calm, Ease, Alone, Concerns, Orderly, Fires, Waits, New, Halfway, Half,
              Whole, Rows, Agreed
<1>2. ASSUME NEW a \in Actor, Request(a) \/ Step(a) \/ Fail(a)
      PROVE  Ease'
  <2>1. Core /\ Ease
    BY <1>2, TroubleGrows DEF Sound, Calm
  <2>2. CASE Request(a)
    BY <2>1, <2>2, SubmitEase, UserEase, FireEase, OccurEase, ExecuteEase DEF Request
  <2>3. CASE Step(a)
    BY <2>1, <2>3, ClearEase, InsertEase, InsertRestEase, UnscheduleEase, ScheduleEase, DeleteEase,
       PauseEase, DisableEase, ChangeEase, UpdateEase, RejectEase, StartEase DEF Step
  <2>4. CASE Fail(a)
    BY <2>4 DEF Fail, Trouble
  <2> QED BY <1>2, <2>2, <2>3, <2>4
<1> QED BY <1>1, <1>2 DEF Next

-----------------------------------------------------------------------------
(* The results. *)

\* The invariant holds before the first submission.
LEMMA InitPInv == Init => PInv
<1> SUFFICES ASSUME Init PROVE PInv
  OBVIOUS
<1>1. \A a \in Actor : at[a] = Idle
  BY DEF Init
<1>2. \A a \in Actor : \A p : p \notin Concerns(a)
  BY <1>1, InConcerns DEF Idle
<1>3. Core
  BY <1>1, <1>2 DEF Init, Core, Ghostless, Single, Apart, Storing, Deleted, Idle
<1>4. Ease
  BY <1>1, <1>2 DEF Init, Ease, Alone, Orderly, Fires, Starts, Waits, Halfway, Agreed, Idle
<1> QED BY <1>3, <1>4, InitTyped DEF PInv, Sound, Calm

\* The invariant of every run of the plan manager.
THEOREM Invariant == Spec => []PInv
<1>1. PInv /\ [Next]_vars => PInv'
  BY NextTyped, NextSound, NextCalm DEF PInv
<1> QED BY <1>1, InitPInv, PTL DEF Spec

\* TypeOK always holds.
THEOREM TypeCorrect == Spec => []TypeOK
<1>1. PInv => TypeOK
  BY DEF PInv, Typed
<1> QED BY <1>1, Invariant, PTL

\* NoGhost always holds: every Quartz job belongs to a plan that is stored
\* whole, whatever fails, unless submissions or deletions of it overlapped.
THEOREM JobsAreStored == Spec => []NoGhost
<1>1. PInv => NoGhost
  BY DEF PInv, Sound, Core, Ghostless, NoGhost
<1> QED BY <1>1, Invariant, PTL

\* OneRow always holds: no plan is stored twice unless so.
THEOREM StoredOnce == Spec => []OneRow
<1>1. PInv => OneRow
  BY DEF PInv, Sound, Core, Single, OneRow
<1> QED BY <1>1, Invariant, PTL

\* InStep always holds: without trouble, the row of a plan and its Quartz job
\* agree whenever no operation on it is under way, on the state always and on
\* the time unless updateJob has refused the one in the row.
THEOREM RowAndJobAgree == Spec => []InStep
<1>1. PInv => InStep
  <2> SUFFICES ASSUME PInv, trouble = {}, NEW r \in rows, of[r] \in Timed, Quiet(of[r])
               PROVE  Whole(r)
    BY DEF InStep
  <2> QED BY DEF PInv, Calm, Ease, Agreed, Quiet
<1> QED BY <1>1, Invariant, PTL

=============================================================================
