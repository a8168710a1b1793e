# A TLA+ model of hella

hella runs *plans*: graphs of jobs that are triggered by Quartz or by events,
walked by an **engine** and executed by **executors** on other machines. The
modules here describe the parts of it in which several threads or processes
share state, the TLC runs check them on small instances, and the `*Proofs`
modules prove the central invariants for every instance.

## 1. The system

| Part | State | Operations | Driven by |
|---|---|---|---|
| Workflow runtime (`LiteWorkflowInstance`, node handlers, `WorkflowContext`) | status and fork counts of each run, registry of runs, running info of dispatched jobs, `XJOB_STATE` rows | start, complete a node, walk to the next nodes | starter threads, RPC thread, timer thread |
| Progress and timeouts (`DefaultJobStateManager`) | alarm flags of a run | handle a report, complete overdue nodes, report to subscribers | RPC thread, timer thread |
| Plans (`DefaultJobPlanManager`, `JobExecutionPlanDao`, `DefaultJobPlanBuilder`) | stored plans, their Quartz jobs | submit, start, execute one node, pause, resume, change of the time, disable, delete | Quartz, web, RPC thread, consumer of the events |
| Executor protocol (`DefaultEngineNodeServer`, `DefaultDispatcher`; `DefaultJobClient`, `DefaultProgressCollector`, `DefaultProgressManager`) | registrations, time stamps, pending events; running jobs and their results | heartbeat, register, dispatch, kill, check silent executors | reporter thread, RPC thread |
| Event scheduler (`JobEventStorehouse`, `JobEventConsumer`, `JobEventProducer`) | a bounded store, a table of unconsumed events | push, pop, load, save at shutdown | threads that end a plan, consumer, loader, shutdown hook |
| Election (`AbsClusterManager`, its engine and executor forms, `NodeWatcher`, `StatusSwitchWatcher`, `ZookeeperConnection`) | two ephemeral znodes, watches, who believes to be master | start as master or slave, take over, connect again, stop | ZooKeeper callbacks |
| Connection pool (`DBConnectionPool`, `DBPools`) | connections and busy flags, thread-local connections | get, release, grow, refresh, close | every thread |
| Parser, subscriptions, web console, other DAOs, scripts of the web pages | none of their own | | |

How they interact. A starter thread walks a plan until every path has come to a
job; each job is put into the list of its executor by the dispatcher. The
executor polls: its heartbeat carries results and the response carries events.
The RPC thread completes the node of a result and walks on; when a plan ends it
may push an event, which the consumer turns into new runs. The timer completes
nodes whose jobs are overdue. There is hardly any lock in the workflow runtime,
so what protects it is who gets hold of an instance, and when; that is the
first thing modelled.

What is hard here, and why a test would hardly reach it, is the list `hazards`
in `PROJECT.json`: a report that overtakes the registration of its run, a
result and a timeout for the same node at once, a report that is repeated or
served late, a new engine that knows nothing, one wait set for two conditions,
a shutdown in the middle of a load, a session that expires during a takeover, a
connection given back while the pool is replaced, a plan that fires while it is
resumed.

## 2. Modules

| Module | Part |
|---|---|
| `Workflow` | workflow runtime, progress, timeouts, starting plans |
| `WorkflowPlans` | the classes of plans that theorems about runs assume |
| `MCWorkflow` | plans for TLC, and what the comments promise of them |
| `WorkflowProofs` | inductive invariant, types, confinement |
| `WorkflowEndProofs` | one walker per run, results, the registry, the end of a run |
| `WorkflowOnceProofs` | no node twice, joins wait for every path, a failed run has a cause |
| `Heartbeat` | executor protocol, both sides, with faults (checked directly) |
| `HeartbeatProofs` | inductive invariant and its consequences |
| `EventStore` | event scheduler (checked directly) |
| `EventBuffer` | what the store promises: `Size` places for events; `EventStore` is shown to implement it |
| `EventStoreProofs` | `NeverMixed` and the bound, the stop of the consumer, no event twice, the refinement |
| `Election` | master and slave, for engines and for executors (checked directly) |
| `ElectionProofs` | types, sessions and lists of requests for both kinds; of two engines at most one serves |
| `ConnectionPool` | connection pool and thread-local connections (checked directly) |
| `ConnectionPoolProofs` | no connection shared unless a release strayed, none lost |
| `JobPlan` | stored plans and their Quartz jobs |
| `JobPlanProofs` | the invariant of the plan operations, in three layers |
| `MCJobPlan` | the symmetry and the view under which TLC checks `JobPlan` |

Definitions whose comment begins "Mutant of" are variants of one action with a
plausible mistake. No specification uses them; each makes one property fail,
which shows that the property says something about the code.

### Workflow

A plan is a constant (`Plan`), so everything holds for any graph, including
ones the parser would not build. A thread is a starter (named after its run),
`"rpc"`, `"timer"` or `"web"`. The recursion of `signal` and `processNextNodes`
is an explicit stack of the lists that the loops have still to walk
(`frames[t]`); a step is the processing of one node, split where another thread
could see it half done: between dispatch and `NOTIFY_SUCCESS`
(`ActionNodeHandler.enter`), between reading and writing the count of a join,
and between the exit of an end node and the assignment of the status.
`completeJobPlanNode` by the RPC thread or the timer is `CompleteJobPlanNode`
plus the walk plus `FinishProgress` or `FinishTimeOut`.

Abstractions:

- A job is an execution `x`, the event ID and the row in one. Rows of start,
  end and fail nodes are left out; that saving one fails is kept (`"dbfail"`).
  Failing updates of rows are left out, and so are jobs attached to end and
  fail nodes.
- Time is a choice: a row in a running state may be found young, overdue, or
  overdue five times. Assumed: no thread spends five delay times between
  the dispatch of a job and the update of its row two statements later.
- `FailNodeHandler`'s sweep over the rows of the run is one step.
- `NOTIFY_FAIL` and `DISPATCH_SUCCESS` are never reported (the collector of the
  executor filters them) and never reach `handlejobProgress`. The count of redos
  stays 0, because the redo throws.
- The event an end node pushes is `EventStore`'s business.

### Heartbeat

One executor process and the engine. Time is whether the engine's time stamp is
older than the timeout; it may grow old while requests get lost, and may be
old at once when the clocks are apart (`ClockSkew`). `EngineRestart` is another master with an empty
memory, `ExecutorRestart` a new executor process.

`Enroll` is `doRegister` of the engine. It is called in three places: by the
reporter when a heartbeat is answered `UNREGISTER` or `HEARTBEAT_TIMEOUT`
(`Register`), by `main` of a master executor when it starts, beside the reporter
that is already running (`Boot`), and late, for a call that was given up
(`ServeLateRegister`). It is refused while the old registration stands, which
is what happens to the start-up call after a restart of the executor alone; both
callers log the exception and go on, and the heartbeats of the new process are
served all the same. A heartbeat that was given up may still be served, too (`stale`); it
carries the time when it was sent, so it may be found in time when a new one
would not be, and may set the stamp back: the model lets it have any age
(`SeenAt`), which allows more than the code does.

Not modelled: a second executor process of the cluster. A slave also runs a
reporter and sends heartbeats under the same cluster ID (`Election`,
`StartSlave`); the events of the cluster then go to whichever asks first. The
order of the events in a response is left open.

### EventStore

The monitor of `JobEventStorehouse` with its single wait set, the threads that
use it, the table of unconsumed events, shutdown, crash and restart. An event
is an occurrence, so that "executed twice" has a meaning. Assumed: in the five
seconds the consumer sleeps, every thread that wants to enter the monitor gets
in. Without that assumption `NeverMixed` fails (its mutant drops the sleep).

### Election

The master znode and the slave znode, and what each process does about them.
Everything a process does is a list of requests to ZooKeeper (`todo[n]`):
`Start` looks at the master znode and fills the list for a master or a slave,
`ProcessNodeDelete` is what `StatusSwitchWatcher` does after `NodeDeleted`,
`ProcessExpired` what the first watcher does after `Expired`, `Recover` and
`Renew` what each one does then, `Stop` begins `EngineNode.close`; each request is a step of its own, so that a crash, an expiry or the other process may
come between any two. ZooKeeper is external: a znode goes with the session that
created it, a watch fires once and only in a live session, and the death of a
process is noticed some time later (`SessionTimeout`). The engine and the
executor differ in which znode the slave watches, in what `upgradeToMaster`
does, and in who serves (`Kind`): to serve is to run the scheduler and the
RPC server for an engine, which only the master does, and to run the
`StatusReporter` for an executor, which every process does, slaves too
(`StartSlave`). So `OneMaster` is a property of engines only.

The variable `trouble` records which rare things have happened, and the properties say
which of them they allow:

- `OneMaster` and `Takeover` hold with crashes, stops and restarts, and when a
  slave loses its session;
- `SomeoneServes` holds also when a master loses its session, or when a process
  comes back before ZooKeeper has noticed its death, but not both.

What happens otherwise is in section 3. Abstractions: a session is not lost
again before the process has dealt with the first loss; a process is stopped
only when none of its threads is at work; a process has one thread at work, as
the client library delivers events one after the other. Two processes is what
hella is deployed with: the slave znode has room for one.

### ConnectionPool

`getConnection` is synchronized and keeps the monitor while it searches, enlarges
the pool, refreshes it, and sleeps in between; `releaseConnection` takes no
lock. So the search, the enlargement and the refresh go place by place
(`FindFreeConnection`, `CreateConnections`, `RefreshConnections`), the refresh of
one place is three steps, close, put a new connection, clear the flag
(`RefreshConnections`, `ReplaceConnection`, `FreeRefreshed`), and
`closeConnection` is three more: compare, clear the flag, clear the
thread-local (`MatchConnection`, `ReleaseConnection`, `Clear`). `Begin`,
`TestConnection`, `Finish` are `currentConnection` and `closeConnection` of
`DBPools`, which test the connection of the thread and get another one when it
does not work. `Keep` is a DAO method that does not call `closeConnection`.
`Down`, `Up` and `Drop` are the database.

Nothing is assumed about how long a step takes; the five seconds
that `refreshConnections` sleeps in front of a busy place order nothing. A thread that has
compared may therefore clear the flag after the place was refreshed and given
to another thread. The history variable `strayed` records that this has
happened, and `Exclusive` is stated for the behaviours in which it has not: the
property says that this late assignment is the only way for two threads to get the same
connection. What the code does otherwise is `NeverShared`, section 3.

### JobPlan

The rows of `JOB_EXECUTION_PLAN`, whether their nodes are stored, the Quartz job
and trigger of each plan, and actors that run the operations of
`DefaultJobPlanManager`. Each SQL statement and each call of Quartz is one step,
because each is a transaction of its own: the DAO closes the connection after
every statement, so the `rollback` of a failed submission has nothing to undo
and is no step of the model. Any step may fail (`Fail`); what is left of the
operation is then what the code's `try` blocks leave. A crash is a failure of all
actors. `publishEvent` is tried three times; the model leaves open how often.

`trouble` again records what has happened. `NoGhost` and `OneRow` hold whatever
fails, unless two submissions or deletions of one plan overlap; `InStep` is the
statement that row and trigger agree, which nothing but the order of the calls
ensures and every kind of trouble destroys.

Plans of one submission are inserted in any order. A change sets the type and
the expression, and the form of the web (`jobplan_edit.jsp`) offers every type for
every plan. The row is written first (`SetCron`); then `updateJob` takes the
new time (`UpdateJob`), or refuses it because the type is that of events or of another trigger or
the expression cannot be parsed (`RejectJob`), and the row keeps what Quartz
never saw (`"unfit"`). `InStep` asks of such a plan that its row, its job and the
state of the trigger agree, not the time. A plan of Quartz whose type became that of
events is started by both from then on, and a plan of the events whose type became another is
started by neither (`Awaits`; every refused type is taken for a possible event). The exception
`"raced"` is a start, by Quartz or by an event, during a pause or a resumption.
Not modelled: the variants of pause, resume and
delete by cluster and name, which nothing calls.

## 3. Runs

| Run | Checks | Instance |
|---|---|---|
| `wf_fork` | `SingleWalker`, `FailureHasCause`, `EndedIsFinal`, `ResultIsStable` | 2 runs of a fork/join plan, 6 executions |
| `wf_timer` | `ExecutedOnce`, `JoinWaitsForAll`, `EveryRunEnds` | 1 run, timer, 4 executions for 3 jobs, so that a second execution is possible |
| `wf_faults` | `TypeOK`, `StarterConfined`, `RegistryExact`, `NeverReregistered` | 1 run, timer, rows that cannot be saved, nodes executed from the web, a join that both outcomes of a job lead to, 3 executions |
| `hb_safety` | `StartedOnce`, `HandledOnce`, `HandledIsFinal`, `NoEventIsDropped`, `RegisteredIsKnown` | 2 jobs, 2 faults of any kind, late heartbeats and registrations, clocks that may be apart |
| `hb_served` | `ServedAgain` | 1 job, 3 faults |
| `ev_running` | `NeverMixed`, `ConsumedOnce`, `EveryPushReturns` | 3 producers and the loader at a store of size 2, 6 events |
| `ev_shutdown` | `StopsSoon`, `ImplementsBuffer` | 2 producers, 4 events, a shutdown or crash, a restart |
| `el_failover` | `TypeOK`, `OneMaster`, `Takeover`, `SomeoneServes` | 2 engines, 5 sessions, all troubles but `"overlap"` |
| `pool` | `TypeOK`, `Exclusive`, `NoneLost`, `GetReturns` | 2 threads, a pool that starts with 1 connection and is enlarged by 2 up to 2, 2 faults |
| `plan` | `TypeOK`, `NoGhost`, `OneRow`, `InStep` | a plan of Quartz and one of the events, 2 actors, 2 rows, all troubles |

Why the bounds are enough: the threads of the workflow do not interact across
runs except through the RPC and the timer thread, for which two runs suffice;
the fork has two paths, the smallest number for which a join has something to
get wrong; two jobs and two faults allow a lost response, its repetition and a
restart in between; a store of size 2 with four pushing threads is the smallest
in which a thread is left in the wait set after the store was emptied.
`SingleWalker`, `FailureHasCause`, `EndedIsFinal` and `ResultIsStable` are about
the engine without the timer: all four fail with it (`SucceededIsNotFailed`
below shows how for the status). Five sessions are two starts and three more: a
takeover, a restart and an expiry in one behaviour. In the pool of two the
second enlargement is cut off at the maximum, two threads that keep their
connections exhaust it, and two faults are an outage and a second one during the
refresh, or a dropped connection and an outage. Two rows let a plan be deleted and stored
anew while the operations on the old row are still under way; an overlap needs two
actors. `plan` treats the two actors as interchangeable (`Threads`), which they
are, and keeps of `trouble` only what its invariants read (`Told`); no guard
reads it. It follows submissions or deletions that overlap to their end and no
further (`Followed`): three of its invariants say nothing of these states, and
`TypeOK` is proved for all.

Deadlock is not checked where the system may stop: when all runs are over or the
bound on executions is reached, when all events are consumed, when every process
of a cluster has been stopped and the sessions are used up, and when no row is left.

Fairness. Threads of the engine go on (`WF` on each); the timer reaches each
registered run again and again and finds a row that stays in a running state
overdue at last (`SF`, because other threads may disable the step in between).
Nothing is assumed of executors in `Workflow`: they may stay silent and reports may
be lost. In `Heartbeat` the reporter and the engine go on, jobs need not end. In
`EventStore` the choice of `notify` is not fair. In `Election` the threads at
work go on and ZooKeeper notices in the end that a process is gone; nobody need
be started or stopped. In `ConnectionPool` threads go on and the database comes
back; a method need not be called and need not give its connection back. `JobPlan`
states no fairness, only safety.

### Where the code differs from what the repository says

Each of these runs ends in a counterexample; `findings` in `PROJECT.json` has
the quotation.

| Run | What happens |
|---|---|
| `el_executor` | no executor takes over: the slave watches its own znode, and the manager was given its job client before there was one |
| `plan_resume` | a plan that fires while it is being resumed or paused loses its Quartz job and is shown able |

Seven more are stated as properties that no run checks; each fails within
seconds with the constants given here.

| Property | What happens | Constants |
|---|---|---|
| `KillMeansOver` (`MCWorkflow`) | a result that comes before the run is registered is answered by a kill and lost | as `MCWorkflowFork.cfg` with one run, 3 executions, outcomes success and error |
| `SucceededIsNotFailed` (`MCWorkflow`) | timer and RPC thread together turn a succeeded run into a failed one | `LinePlan`, one run, 3 executions, `Features = {"timer"}` |
| `ClearedIsHandled` (`Heartbeat`) | results are dropped when the engine does not know the executor | one job, one fault, no restarts, no clock skew |
| `ReporterAlive` (`Heartbeat`) | a job without content ends the reporter thread | one job, no fault, `NoContent = TRUE` |
| `ServedIsRegistered` (`Heartbeat`) | a late heartbeat makes an expired stamp recent after its owner was told to register and `doRegister` was lost: the executor is served from then on and its events are dropped | one job, two faults, no restarts, no clock skew |
| `NeverShared` (`ConnectionPool`) | `releaseConnection` frees a place that was refreshed and handed out since it compared | as `ConnectionPool.cfg`, no fault |
| `SavedIsKept` (`EventStore`) | the loader deletes the events that the shutdown has saved | 4 events of which 3 saved, one producer, size 2, shutdown, no restart |

More of the kind is in the models without a run of its own. A reader can see
each with one change to a configuration or by reading the action named:

- an action with a redo left fails its run at the first error, because the redo
  throws (`ExitThrows`);
- a report completes a node that the timer has completed already, when the run
  goes on along the error path (`HandleProgress` asks for running info only);
- "timed out but succeeded" is sent for jobs that failed (`FinishProgress`);
- when an error leads to a join what follows the join may be executed twice: the
  timer completes a job, from a stale row, that the RPC thread has completed
  before, while the RPC thread completes the other path of the fork; both read
  the count 1 and both go on. An error that leads to an action is open to the same
  race (`ExecutedOnce` with `TolerantPlan`, one run, 4 executions, outcomes
  success and dispatch failure, `Features = {"timer"}`);
- after `DISPATCH_FAIL` no node follows and the run stays in the registry
  (the exception in `EveryRunEnds`);
- a run fails because a row could not be saved, although the log says that this
  does not affect it (`wf_fork` with `"dbfail"` violates `FailureHasCause`);
- an executor whose clock is ahead may be sent to register for ever
  (`hb_served` with `ClockSkew = TRUE` violates `ServedAgain`);
- a timed-out job is not killed while it runs, since only finished jobs are
  reported (`SendHeartbeat`, `ReceiveNormal`);
- a silent executor keeps its registration (`RunChecker`);
- a master that loses its session never sets `isMasterStatus` back and goes on
  serving beside its successor (`OneMaster` without its premise, with
  `"masterExpired"`);
- a process restarted before its old znode is gone becomes a second slave; when
  both take over, the one that finds the slave znode deleted exits (`Fail` in
  the task "upgrade", with `"quick"`);
- when such a restart meets a master that returns from an expiry, the master's
  `setData` uses up the slave's watch and nobody serves (`SomeoneServes` without
  its second premise);
- a master that dies between the slave's look at its znode and the slave's watch is
  noticed by nobody (all three properties fail with `"overlap"`);
- during an outage every test of a connection that fails leaves a place marked busy, until
  a refresh, and the refresh closes connections in use (`FindFreeConnection`,
  `RefreshConnections`);
- a submission that fails half-way leaves rows that make every later submission
  of the plan be refused, although the comment says that all is rolled back
  (`Fail` after `Insert`, then `Submit`);
- two submissions at once store a plan twice (`OneRow` without its premise), and
  the job may belong to a row that is deleted;
- a run that fails after its plan was deleted and stored anew pauses the trigger
  of the new plan (`PauseRun`);
- a change of the time of a paused plan makes its trigger wait again; the next
  start deletes the job (`UpdateJob`);
- a change of the time that Quartz refuses is shown all the same, as the row was
  written before (`SetCron`, `RejectJob`);
- the `doRegister` of an executor that starts again is refused while its old
  registration stands, and `main` logs a failed start although the executor runs
  (`Boot`).

## 4. Proofs

All theorems are for arbitrary constants that satisfy the `ASSUME`s of the
modules: a plan whose targets exist, of which only forks have several
(`NodeHandler.multiExit`), finite saved events, a store with at least one place,
a pool with room for a connection. Every invariant below was first checked by
TLC on the instance of the component's run. Theorems that need more say so in an
`ASSUME` of their own.

**WorkflowProofs.** `StarterConfined` is not inductive: why should the RPC thread
not work on an unregistered run? `IInv` adds where each thread is and what it
holds (`Located`), that a starter works on its own run (`OwnRun`), that a run
in preparation or being started is in nobody else's hands and not registered
(`Private`), and that the rows of the timer's query belong to the run it is
working on (`ScanOwned`). One lemma per action.

**WorkflowEndProofs.** Five properties of how runs end, from `IInv` and more.

- `SingleWalker` and `ResultIsStable`, when the timer is off (`NoTimer`): by
  confinement the only other thread is the one of the RPC. That
  `ActionNodeHandler.enter` overwrites no result needs to know that the
  execution it is about to mark has no result yet and belongs to the run the
  thread is working on (`Marked`). Both are for every plan. With the timer they fail.
- `RegistryExact` and `NeverReregistered`, with timer, faults and late reports,
  for plans whose start and fork nodes lead to actions or forks only
  (`DispatchFirst` in `WorkflowPlans`). The restriction is real: a plan that leads from start to
  end is registered after it has ended. `Started` says that a starter
  dispatches and ends nothing; `Registered` that a run that goes on is in the
  registry or with its starter, and that an ended one in the registry is still being
  walked by the RPC thread or the timer, which will remove it.
- `EndedIsFinal`, under both hypotheses: after the status of a run is assigned
  its only walker has nothing left to process (`LastSteps`).

**WorkflowOnceProofs.** What a run does with its nodes depends on the plan, and the
parser accepts any graph. The theorems are for the plans of `WorkflowPlans`:
each action and fork has one way in and each join one fork (`OneWay`), errors
lead to end or fail nodes where the timer is on (`ErrorsEnd`), as many
successes lead to a join as its fork has paths, all of them from behind the
fork (`Balanced`), and only errors lead to a fail node (`FailOnError`).
`MCWorkflow` assumes all of it of `ForkPlan`, so TLC evaluates that the
hypotheses are met by a plan that the runs use; the inductive invariants
were also checked on a plan with a fork inside a fork.

- `NoNodeTwice` (`ExecutedOnce`; `OneWay`, `ErrorsEnd`; with timer and faults).
  One would count the paths to a node; instead `Order` says that whatever comes
  before a reached node (executed, or on some stack) has been passed. So
  when a node is passed nothing behind it was reached, and what it reaches is
  new (`NothingAhead`, `Advance`). `Before` is the transitive closure of the
  edges, stated without induction: to be in every set that is closed under
  them. A join is passed when its count is 0, and a fork sets the count, so for
  the order a fork makes way for its join. The rest of `OInv` says what is on the
  stacks (`Stacks`, `Places`), which run the RPC thread and the timer
  have in hand (`Handling`), who is changing a count (`Counting`), and that
  executions from the web have no run (`Apart`). Without `ErrorsEnd` the
  theorem is false, see section 3.
- `JoinsWait` (`JoinWaitsForAll`; also `Balanced`). The code sets the count to
  the number of paths and takes one off at each arrival; the invariant
  `Counted` says that, from the fork on and as long as the run goes on, the count
  is the number of actions into the join that have not arrived. Since no
  node is executed twice none arrives twice, so a count of 0 means that all have
  succeeded (`Waited`).
- `FailsForAReason` (`FailureHasCause`; also `FailOnError`, without timer and
  without rows that cannot be saved). `Blamed`: when a fail node is on a stack, or has been entered, some execution
  of the run was reported to have failed.
  With the timer the cause is a timeout and no result; with `"dbfail"` it is
  the database, and the property fails (section 3).

**HeartbeatProofs.** `HInv` says that the event of a job is in one place (not
issued, pending, in a response, or started, `EventsInOnePlace`), that a job with
running info has not been handled (`InfoUnhandled`), that every report on the
way is of a job that has ended (`ReportsFinal`), that kill events answer
reports (`KillsAnswer`), and that the map of registrations and the map of time
stamps stay in step (`Registration`): a timeout removes the one and keeps the
other, `doRegister` sets both. The theorems follow: started once, handled
once and after the end, no event dropped, and a registered executor is known.
That `doRegister` is accepted is not among them: it may be refused (section 2).

**EventStoreProofs.** `NeverMixed` needs to know why nobody waits for room in
front of an empty store: a blocked thread sees a full store or some other
thread is about to look (`RoomIsSeen`); when the consumer comes back from its
sleep nobody is about to look, so the store is full (`FullWhenBack`); hence the
consumer finds the store empty only when nobody is blocked, and waits alone
(`WaitsAlone`).

The other results need less. `Stopping` says that a
consumer on its way to `pop` has taken nothing since it was told to stop. `Places` says that in the
first process, up to a shutdown, an event is in one place: a row, about to be pushed, in
the store, in the consumer's hand, or executed; rows that were loaded and not
yet deleted are the exception, which is why a later process may execute
them again. `Refinement` maps the sequence to the array `products`: a push
writes the first free place, a pop empties the last one used.

**JobPlanProofs.** Three layers, each with one lemma per action. `Typed`: the
types, and what an operation holds at each of its steps. `Sound`, unless two
submissions or deletions of a plan overlapped: operations that build are about
different plans (`Apart`), a submission has stored wholly what it is going to
schedule and nothing of what it has still to save (`Stores`), a deletion has removed the
job before the row; from this `NoGhost` and `OneRow` follow, whatever fails.
`Calm`, while there was no trouble: every operation sees the row it has read, what
Quartz or an event starts is able (`Fires`), so `InStep` holds whenever no
operation on the plan is under way. A refused time is the one difference between row
and trigger that needs no trouble.

**ConnectionPoolProofs.** `releaseConnection` compares and assigns without the
lock, and the refresh is three steps. `Locked` says that a thread is inside
`getConnection` only with the monitor, so that one thread at a time hands out
connections; `AtPlace` that between the steps of a refresh the place holds a
closed connection, and then a new one that nobody has; hence clearing the flag there
frees nobody's connection. An assignment of `releaseConnection` either clears the flag of its own
connection or sets `strayed`. `Distinct` says that no connection is in the pool twice; that a new one can
always be named is a count of the connections in use. `NoLeak` and the types
do not depend on `strayed`.

**ElectionProofs.** `Base`, for any number of processes and whatever happens to
them, gives the types: what a thread has still to do is always the rest of one of the
methods (`Lists`), sessions are not shared, znodes belong to sessions that have
not ended, and every process that has lost its session has one left to come back in
(`Sessions`). For two engines `OneMaster` follows from `Roles`, which says that as long as
nothing has happened that the property excludes, every process is master, slave,
heir, on its way to be master, or closing down. The master has the znode as long as
it serves; a slave does not serve, and either waits for the deletion of a znode
that the other process owns or has still to set its watch for it; heirs and those who take
over are alone. That a slave which recovers sets its `StatusSwitchWatcher` again
rests on a count: the order in which the watchers hear of the expiry names them
all. With three engines the theorem is false, because two slaves hear of one deletion.

For executors only the types are proved. Their slaves serve as well, so there is no
statement like `OneMaster`, and what they promise instead, a takeover, fails
(`el_executor`).

Only model-checked: liveness (`EveryRunEnds`, `ServedAgain`, `EveryPushReturns`,
`Takeover`, `SomeoneServes`, `GetReturns`), because the prover does not reason
about fairness. Every safety property that a passing run checks is a theorem. Of
plans outside the classes above nothing is proved beyond the theorems that
are for every plan.

## 5. Not modelled, and the plan

Left out for good:

- The scripts under `hella-engine/webapp/js`: Highstock, ligerUI, jQuery plug-ins
  and helpers around them. They are most of the JavaScript in the
  repository, come from other projects, and hold nothing of the scheduler; hella
  is a Java program, and it is the Java code that the modules describe. Counted
  against the JavaScript alone, the model covers nothing.
- SQL and result mapping, web pages, generated Thrift stubs, mail, logging,
  configuration, utilities that format or parse.
- The plan parser. It copies the attributes of an XML document into nodes and
  does not look at the graph, so there is no check of its own to compare with
  what `Workflow` needs: that the targets of its nodes exist
  is an assumption on the file (`WorkflowAssumption`).
- What nothing calls: `suspend` and `resume` of an instance, `closeConnectionPool`,
  the explicit transactions of `DBPools`, pause and resume of plans by name.
- Wall-clock IDs (`UniqueIDGenerator`) when a clock is set back; identities are
  fresh in the models.

Planned: `Engine`, which composes `Workflow` and `EventStore`, with the end of a
plan as a push and an event as a start, and plans that have no action on a path,
which end in the thread that starts them.
