----------------------------- MODULE EventStore -----------------------------
(***************************************************************************)
(* The event scheduler of the engine: JobEventStorehouse is a monitor with *)
(* one wait set, in which threads wait for room and for events alike, and  *)
(* which wakes up one thread at a time (notify).  It is used by            *)
(*   - the producers: threads in which a plan ends (EndNodeHandler.exit),  *)
(*     the RPC thread, the timer, and starters of plans without actions;   *)
(*   - the loader: JobEventProducer.run pushes the rows that an earlier    *)
(*     shutdown left in the table of unconsumed events;                    *)
(*   - the consumer: JobEventConsumer.run, which sleeps after each event;  *)
(*   - the shutdown hook: DefaultJobPlanBuilder.shutDown saves what is in  *)
(*     the store.                                                          *)
(* A step is one stay in the monitor, one statement on the table or one    *)
(* access to a volatile flag.  An event is one occurrence, not a name.     *)
(***************************************************************************)
EXTENDS Naturals, SequencesExt

CONSTANTS
  Event,       \* the events
  Saved,       \* the events whose rows are in the table at first
  Producer,    \* the producing threads
  Size,        \* products.length
  MayShutDown, \* shutDown may be called
  MaxRestarts  \* bound on the new processes

Pusher == Producer \cup {"loader"}
Nothing == "nothing"

ASSUME EventStoreAssumption ==
  /\ Saved \subseteq Event /\ IsFiniteSet(Saved)
  /\ Size \in Nat \ {0}
  /\ MayShutDown \in BOOLEAN
  /\ MaxRestarts \in Nat
  /\ Producer \cap {"loader", "consumer"} = {}
  /\ Nothing \notin Event

VARIABLES
  store,     \* products[0 .. top-1]
  waiting,   \* the wait set of the monitor
  todo,      \* todo[t]: the events that t is pushing, the current one first
  loader,    \* where JobEventProducer.run is
  consumer,  \* where JobEventConsumer.run is
  hand,      \* the event the consumer has popped
  hook,      \* where shutDown is
  saving,    \* the events that popAll has returned, still to be saved
  shouldRun, \* the flags of the consumer and of the loader
  table,     \* the rows of unconsumed events
  produced,  \* the events that were given to a producer, and Saved
  consumed,  \* consumed[e]: how often e was executed
  kept,      \* the events the last shutdown has saved
  late,      \* the events popped since the consumer was told to stop
  restarts   \* the new processes so far

vars == <<store, waiting, todo, loader, consumer, hand, hook, saving, shouldRun,
          table, produced, consumed, kept, late, restarts>>

(* The states the variables may take. *)
TypeOK ==
  /\ store \in Seq(Event)
  /\ waiting \subseteq Pusher \cup {"consumer"}
  /\ todo \in [Pusher -> Seq(Event)]
  /\ loader \in {"sleep", "push", "delete", "ended"}
  /\ consumer \in {"pop", "execute", "sleep", "ended"}
  /\ hand \in Event \cup {Nothing}
  /\ hook \in {"none", "popAll", "save", "done"}
  /\ saving \in Seq(Event)
  /\ shouldRun \in [{"consumer", "loader"} -> BOOLEAN]
  /\ table \in Seq(Event)
  /\ produced \subseteq Event
  /\ consumed \in [Event -> Nat]
  /\ kept \subseteq Event
  /\ late \in Nat
  /\ restarts \in 0..MaxRestarts

Init ==
  /\ store = <<>> /\ waiting = {}
  /\ todo = [t \in Pusher |-> <<>>]
  /\ loader = "sleep" /\ consumer = "pop" /\ hand = Nothing
  /\ hook = "none" /\ saving = <<>>
  /\ shouldRun = [t \in {"consumer", "loader"} |-> TRUE]
  /\ table \in SetToSeqs(Saved)
  /\ produced = Saved
  /\ consumed = [e \in Event |-> 0]
  /\ kept = {} /\ late = 0 /\ restarts = 0

-----------------------------------------------------------------------------
(* The monitor.  A thread that is in push or pop and not in the wait set    *)
(* is about to enter the monitor, or to test its condition again.           *)

\* notify(): any one thread leaves the wait set.
Notify == IF waiting = {} THEN waiting' = waiting
          ELSE \E t \in waiting : waiting' = waiting \ {t}

Wait(t) == waiting' = waiting \cup {t} /\ UNCHANGED store

Pushing(t) == todo[t] # <<>> /\ t \notin waiting

\* What thread t does when its push has returned.
Returned(t) ==
  /\ todo' = [todo EXCEPT ![t] = Tail(@)]
  /\ loader' = IF t = "loader" /\ Len(todo[t]) = 1 THEN "delete" ELSE loader

\* Mutant of Push: the test lets one event too many in.
PushOverfull(t) ==
  /\ Pushing(t)
  /\ \/ Len(store) > Size /\ Wait(t) /\ UNCHANGED <<todo, loader>>
     \/ Len(store) <= Size /\ store' = Append(store, Head(todo[t])) /\ Notify /\ Returned(t)
  /\ UNCHANGED <<consumer, hand, hook, saving, shouldRun, table, produced, consumed,
                 kept, late, restarts>>

\* JobEventStorehouse.push.
Push(t) ==
  /\ Pushing(t)
  /\ \/ /\ Len(store) = Size
        /\ Wait(t)
        /\ UNCHANGED <<todo, loader>>
     \/ /\ Len(store) # Size
        /\ store' = Append(store, Head(todo[t]))
        /\ Notify
        /\ Returned(t)
  /\ UNCHANGED <<consumer, hand, hook, saving, shouldRun, table, produced, consumed,
                 kept, late, restarts>>

\* Mutant of Pop: nobody is told that there is room.
PopSilently ==
  /\ consumer = "pop" /\ "consumer" \notin waiting
  /\ \/ store = <<>> /\ Wait("consumer") /\ UNCHANGED <<consumer, hand, late>>
     \/ /\ store # <<>>
        /\ store' = Front(store) /\ hand' = Last(store) /\ waiting' = waiting
        /\ consumer' = "execute"
        /\ late' = IF shouldRun["consumer"] THEN late ELSE late + 1
  /\ UNCHANGED <<todo, loader, hook, saving, shouldRun, table, produced, consumed,
                 kept, restarts>>

\* JobEventStorehouse.pop, by the consumer: the youngest event comes first.
Pop ==
  /\ consumer = "pop" /\ "consumer" \notin waiting
  /\ \/ /\ store = <<>>
        /\ Wait("consumer")
        /\ UNCHANGED <<consumer, hand, late>>
     \/ /\ store # <<>>
        /\ store' = Front(store)
        /\ hand' = Last(store)
        /\ Notify
        /\ consumer' = "execute"
        /\ late' = IF shouldRun["consumer"] THEN late ELSE late + 1
  /\ UNCHANGED <<todo, loader, hook, saving, shouldRun, table, produced, consumed,
                 kept, restarts>>

-----------------------------------------------------------------------------
(* The producers.  They are alike, and so are the events: the next event    *)
(* is fixed.                                                                *)
Produce(p) ==
  /\ todo[p] = <<>>
  /\ produced # Event
  /\ LET e == CHOOSE f \in Event : f \notin produced IN
       /\ produced' = produced \cup {e}
       /\ todo' = [todo EXCEPT ![p] = <<e>>]
  /\ UNCHANGED <<store, waiting, loader, consumer, hand, hook, saving, shouldRun, table,
                 consumed, kept, late, restarts>>

(* The consumer. *)

\* Mutant of Execute: the consumer does not sleep after an event.
ExecuteOnAndOn ==
  /\ consumer = "execute"
  /\ consumed' = [consumed EXCEPT ![hand] = @ + 1]
  /\ hand' = Nothing
  /\ consumer' = IF shouldRun["consumer"] THEN "pop" ELSE "ended"
  /\ UNCHANGED <<store, waiting, todo, loader, hook, saving, shouldRun, table, produced,
                 kept, late, restarts>>

\* EventJob.execute starts the plans that wait for the event (module Workflow).
Execute ==
  /\ consumer = "execute"
  /\ consumed' = [consumed EXCEPT ![hand] = @ + 1]
  /\ hand' = Nothing
  /\ consumer' = "sleep"
  /\ UNCHANGED <<store, waiting, todo, loader, hook, saving, shouldRun, table, produced,
                 kept, late, restarts>>

\* Mutant of Wake: the flag is not looked at.
WakeAlways ==
  /\ consumer = "sleep"
  /\ shouldRun["consumer"] => \A t \in Pusher : ~Pushing(t)
  /\ consumer' = "pop"
  /\ UNCHANGED <<store, waiting, todo, loader, hand, hook, saving, shouldRun, table,
                 produced, consumed, kept, late, restarts>>

\* The five seconds are over, or interrupted; the loop tests shouldRun.
\* Timing assumption: in five seconds every thread that wants to enter the
\* monitor has entered it.
Wake ==
  /\ consumer = "sleep"
  /\ shouldRun["consumer"] => \A t \in Pusher : ~Pushing(t)
  /\ consumer' = IF shouldRun["consumer"] THEN "pop" ELSE "ended"
  /\ UNCHANGED <<store, waiting, todo, loader, hand, hook, saving, shouldRun, table,
                 produced, consumed, kept, late, restarts>>

(* The loader. *)

\* run wakes up, and loadJobEvent reads the table; without rows it returns.
LoadFind ==
  /\ loader = "sleep"
  /\ \/ /\ ~shouldRun["loader"]
        /\ loader' = "ended"
        /\ UNCHANGED todo
     \/ /\ shouldRun["loader"]
        /\ table # <<>>
        /\ todo' = [todo EXCEPT !["loader"] = table]
        /\ loader' = "push"
  /\ UNCHANGED <<store, waiting, consumer, hand, hook, saving, shouldRun, table, produced,
                 consumed, kept, late, restarts>>

\* Mutant of LoadDelete: the rows are left in the table.
LoadKeep ==
  /\ loader = "delete"
  /\ loader' = "sleep"
  /\ UNCHANGED <<table, store, waiting, todo, consumer, hand, hook, saving, shouldRun, produced,
                 consumed, kept, late, restarts>>

\* delAllNoConsumptionJobEvent, when all the rows that were read are pushed:
\* the whole table is emptied.
LoadDelete ==
  /\ loader = "delete"
  /\ table' = <<>>
  /\ loader' = "sleep"
  /\ UNCHANGED <<store, waiting, todo, consumer, hand, hook, saving, shouldRun, produced,
                 consumed, kept, late, restarts>>

-----------------------------------------------------------------------------
(* Shutdown and restart. *)

\* JobEventConsumer.setShouldRun(false) sets its flag first.
StopConsumer ==
  /\ MayShutDown
  /\ hook = "none"
  /\ shouldRun' = [shouldRun EXCEPT !["consumer"] = FALSE]
  /\ hook' = "popAll"
  /\ UNCHANGED <<store, waiting, todo, loader, consumer, hand, saving, table, produced,
                 consumed, kept, late, restarts>>

\* JobEventStorehouse.popAll: it wakes up nobody.
PopAll ==
  /\ hook = "popAll"
  /\ saving' = store
  /\ kept' = ToSet(store)
  /\ store' = <<>>
  /\ hook' = "save"
  /\ UNCHANGED <<waiting, todo, loader, consumer, hand, shouldRun, table, produced,
                 consumed, late, restarts>>

\* DefaultJobEventManager.saveJobEvent, one row.
SaveJobEvent ==
  /\ hook = "save"
  /\ saving # <<>>
  /\ table' = Append(table, Head(saving))
  /\ saving' = Tail(saving)
  /\ UNCHANGED <<store, waiting, todo, loader, consumer, hand, hook, shouldRun, produced,
                 consumed, kept, late, restarts>>

\* Then the loader's flag is set and both threads are interrupted: in wait()
\* the exception is caught, and the condition tested again.
StopThreads ==
  /\ hook = "save"
  /\ saving = <<>>
  /\ shouldRun' = [shouldRun EXCEPT !["loader"] = FALSE]
  /\ waiting' = waiting \ {"consumer", "loader"}
  /\ hook' = "done"
  /\ UNCHANGED <<store, todo, loader, consumer, hand, saving, table, produced,
                 consumed, kept, late, restarts>>

\* The process ends, after a shutdown or in a crash, and a new one starts
\* (startScheduler): of all this only the table is left.
Restart ==
  /\ restarts < MaxRestarts
  /\ restarts' = restarts + 1
  /\ store' = <<>> /\ waiting' = {}
  /\ todo' = [t \in Pusher |-> <<>>]
  /\ loader' = "sleep" /\ consumer' = "pop" /\ hand' = Nothing
  /\ hook' = "none" /\ saving' = <<>>
  /\ shouldRun' = [t \in {"consumer", "loader"} |-> TRUE]
  /\ kept' = {} /\ late' = 0
  /\ UNCHANGED <<table, produced, consumed>>

-----------------------------------------------------------------------------
Loader == Push("loader") \/ LoadFind \/ LoadDelete

Consumer == Pop \/ Execute \/ Wake

Hook == StopConsumer \/ PopAll \/ SaveJobEvent \/ StopThreads

Next ==
  \/ \E p \in Producer : Produce(p) \/ Push(p)
  \/ Loader
  \/ Consumer
  \/ Hook
  \/ Restart

Spec == Init /\ [][Next]_vars

\* The threads keep running: one that can enter the monitor does so, a sleep
\* ends.  Which thread notify chooses is not subject to fairness.
FairSpec ==
  /\ Spec
  /\ \A p \in Producer : WF_vars(Push(p))
  /\ WF_vars(Loader)
  /\ WF_vars(Consumer)

-----------------------------------------------------------------------------
(* Properties. *)

\* While the consumer runs, threads never wait for room and for an event at
\* the same time.  It is what makes notify() of push and pop sufficient: the
\* one thread it wakes up is one that can go on.
NeverMixed ==
  "consumer" \in waiting /\ shouldRun["consumer"] => waiting = {"consumer"}

\* An event is executed at most once in the life of a process, also when it
\* was loaded from the table (loadJobEvent's delete, pop under the lock).
ConsumedOnce == \A e \in Event : consumed[e] <= 1

\* push returns: a thread that finishes a plan is not blocked for ever.
EveryPushReturns == \A t \in Pusher : todo[t] # <<>> ~> todo[t] = <<>>

\* After setShouldRun(false) the consumer takes at most one more event: one
\* that was pushed behind popAll's back, and never a second.
StopsSoon == late <= 1

\* products as an array: the places that the store has filled, and the free ones.
products == [i \in DOMAIN store \cup 1..Size |->
               IF i \in DOMAIN store THEN store[i] ELSE Nothing]

\* JobEventStorehouse, with its locks and its waiting threads, implements the
\* places of module EventBuffer: no push writes behind the end of products or
\* over an event, no pop takes an event from an empty store, none gets lost.
Buffer == INSTANCE EventBuffer WITH buffer <- products
ImplementsBuffer == Buffer!Spec

-----------------------------------------------------------------------------
(* What the repository says of the program and the code does not do. *)

\* When shutDown is over, the events of the store are in the table, unless the
\* consumer got hold of them again in the meantime (the log
\* message "save No_Consumption_JobEvent success" of setShouldRun).
SavedIsKept ==
  hook = "done" => \A e \in kept : e \in ToSet(table) \/ consumed[e] > 0
=============================================================================
