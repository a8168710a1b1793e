------------------------------ MODULE Election ------------------------------
(***************************************************************************)
(* Who is master: AbsClusterManager with NodeWatcher and                   *)
(* StatusSwitchWatcher, the way EngineNode and ExecutorNode use it.        *)
(*                                                                         *)
(* There are two ephemeral znodes.  A process that finds no master znode   *)
(* when it starts becomes master, any other becomes slave and is to take   *)
(* over when the master znode disappears.  Every request to ZooKeeper is a *)
(* step of its own: todo[n] holds the requests that the thread at work in  *)
(* process n has still to make.  ZooKeeper itself is external: sessions,   *)
(* znodes that vanish with the session that created them, watches that     *)
(* fire once.                                                              *)
(*                                                                         *)
(* trouble records what has happened beyond crashes, stops and restarts at *)
(* leisure, so that a property can say what it depends on:                 *)
(*   "overlap"        a process was started, or a session ended, while     *)
(*                    another process was busy                             *)
(*   "quick"          a process was started before ZooKeeper had noticed   *)
(*                    the death of an earlier one                          *)
(*   "slaveExpired", "masterExpired"                                       *)
(*                    a process that is alive lost its session             *)
(***************************************************************************)
EXTENDS Naturals, SequencesExt

CONSTANTS
  Node,        \* the processes of one cluster
  Kind,        \* "engine" or "executor"
  MaxSession,  \* bound on the sessions
  Troubles     \* the kinds of trouble that may happen

ASSUME ElectionAssumption ==
  /\ IsFiniteSet(Node) /\ Node # {}
  /\ Kind \in {"engine", "executor"}
  /\ MaxSession \in Nat
  /\ Troubles \subseteq {"overlap", "quick", "slaveExpired", "masterExpired"}

Path == {"master", "slave"}

VARIABLES
  up,         \* the processes that run
  task,       \* task[n]: what the thread at work in n is doing
  todo,       \* todo[n]: what it has still to do
  told,       \* the processes with a NodeDeleted for StatusSwitchWatcher
  watches,    \* watches[n]: the watches n has set, as <<path, watcher>>
  scheduler,  \* the processes that serve: whose scheduler runs (engine) or
              \*   whose StatusReporter runs (executor)
  isMaster,   \* the processes with isMasterStatus
  session,    \* session[n]: the current session of n, 0 for none
  owner,      \* owner[p]: the session that created znode p, 0 when missing
  data,       \* data[p]: the process whose address p holds
  live,       \* the sessions that ZooKeeper has not ended
  count,      \* the number of sessions so far
  trouble     \* see above

process == <<up, task, todo, told, watches, scheduler, isMaster, session>>
zk      == <<owner, data, live, count>>
vars    == <<process, zk, trouble>>

Watch       == Path \X {"node", "switch"}
Instruction == (({"exists", "setData", "create", "delete"} \X Path)
                  \cup ({"watch", "renew"} \X Watch))
                  \cup {<<"flag">>, <<"serve">>, <<"unserve">>, <<"close">>}

(* The states the variables may take. *)
TypeOK ==
  /\ up \subseteq Node
  /\ task \in [Node -> {"idle", "init", "upgrade", "recover", "close"}]
  /\ todo \in [Node -> Seq(Instruction)]
  /\ told \subseteq Node
  /\ watches \in [Node -> SUBSET Watch]
  /\ scheduler \subseteq up
  /\ isMaster \subseteq up
  /\ session \in [Node -> 0..MaxSession]
  /\ owner \in [Path -> 0..MaxSession]
  /\ data \in [Path -> Node]
  /\ live \subseteq 1..MaxSession
  /\ count \in 0..MaxSession
  /\ trouble \subseteq Troubles

Init ==
  /\ up = {}
  /\ task = [n \in Node |-> "idle"]
  /\ todo = [n \in Node |-> <<>>]
  /\ told = {}
  /\ watches = [n \in Node |-> {}]
  /\ scheduler = {}
  /\ isMaster = {}
  /\ session = [n \in Node |-> 0]
  /\ owner = [p \in Path |-> 0]
  /\ data = [p \in Path |-> CHOOSE n \in Node : TRUE]
  /\ live = {}
  /\ count = 0
  /\ trouble = {}

-----------------------------------------------------------------------------
(* ZooKeeper. *)

Exists(p) == owner[p] # 0

\* Process n is connected in a session that has not expired.
Connected(n) == n \in up /\ session[n] \in live

\* The znodes ps are changed, or deleted.  The watches on them of processes
\* whose session is still live fire and are gone; NodeWatcher ignores all this and
\* StatusSwitchWatcher everything but the deletion.
Fire(ps, deleted) ==
  LET hears(n) == n \in up /\ session[n] \in live' IN
  /\ told' = told \cup {n \in Node : /\ deleted /\ hears(n)
                                     /\ \E p \in ps : <<p, "switch">> \in watches[n]}
  /\ watches' = [n \in Node |->
       IF hears(n) THEN {w \in watches[n] : w[1] \notin ps} ELSE watches[n]]

RemoveZNodes(ps) ==
  /\ owner' = [p \in Path |-> IF p \in ps THEN 0 ELSE owner[p]]
  /\ Fire(ps, TRUE)

\* Session s ends: its znodes vanish.
EndSession(s) ==
  /\ live' = live \ {s}
  /\ RemoveZNodes({p \in Path : owner[p] = s})
  /\ UNCHANGED <<data, count>>

Trouble(kinds) ==
  /\ kinds \subseteq Troubles
  /\ trouble' = trouble \cup kinds

\* Process n has nothing to do.
Idle(n) == todo[n] = <<>> /\ n \notin told

\* A process other than the ones in ns is starting, or out of contact.
Busy(ns) == \E m \in up \ ns : ~Connected(m) \/ task[m] \in {"init", "recover"}

\* There is a session left for one more start or reconnect.
Room == count + Cardinality({n \in up : ~Connected(n)}) < MaxSession

\* A session whose process is gone times out.
SessionTimeout(s) ==
  /\ s \in live \ {session[n] : n \in up}
  /\ EndSession(s)
  /\ Trouble(IF Busy({}) THEN {"overlap"} ELSE {})
  /\ UNCHANGED <<up, task, todo, scheduler, isMaster, session>>

\* A process that is alive loses its session; its watchers will hear of it.
\* It does not lose the next one before they have dealt with that.
Expire(n) ==
  /\ Room
  /\ Connected(n) /\ task[n] # "recover"
  /\ EndSession(session[n])
  /\ Trouble({IF n \in isMaster THEN "masterExpired" ELSE "slaveExpired"}
               \cup (IF ~Idle(n) \/ Busy({n}) THEN {"overlap"} ELSE {}))
  /\ UNCHANGED <<up, task, todo, scheduler, isMaster, session>>

-----------------------------------------------------------------------------
(* What the methods of the cluster managers do, request by request. *)

CreateZNode(p) == << <<"exists", p>> >>

InitializeMaster == CreateZNode("master") \o << <<"watch", <<"master", "node">>>> >>

\* Mutant of SwitchPath: what the executors do, for the engines.
SwitchPathSlave == "slave"

\* The znode that StatusSwitchWatcher is set on.
SwitchPath == IF Kind = "engine" THEN "master" ELSE "slave"

InitializeSlave ==
  CreateZNode("slave") \o << <<"watch", <<"slave", "node">>>>,
                             <<"watch", <<SwitchPath, "switch">>>> >>

\* What a process does that finds a master.  An executor starts its
\* StatusReporter in any case.
StartSlave ==
  IF Kind = "engine" THEN InitializeSlave ELSE InitializeSlave \o << <<"serve">> >>

UpgradeToMaster ==
  << <<"serve">> >> \o InitializeMaster \o << <<"delete", "slave">>, <<"flag">> >>

\* Mutant of Recover: every watcher is set again as a NodeWatcher.
RecoverNode(w) == <<"renew", <<w[1], "node">>>>

\* What one watcher does after the reconnect: a StatusSwitchWatcher sets itself
\* anew, a NodeWatcher creates its znode before that.
Recover(w) == <<IF w[2] = "node" THEN "renew" ELSE "watch", w>>

\* Mutant of CloseNode: the connection is closed first.
CloseNodeEarly == IF Kind = "engine" THEN << <<"close">>, <<"unserve">> >>
                                     ELSE << <<"unserve">> >>

\* EngineNode.close first stops the scheduler, then closes the connection.
\* ExecutorNode.close leaves the connection to die with the process.
CloseNode == IF Kind = "engine" THEN << <<"unserve">>, <<"close">> >>
                                ELSE << <<"unserve">> >>

Do(n, t, instructions) ==
  /\ task' = [task EXCEPT ![n] = t]
  /\ todo' = [todo EXCEPT ![n] = instructions]

\* Mutant of Halt: what the process was outlives it.
HaltMaster(n) ==
  /\ up' = up \ {n}
  /\ Do(n, "idle", <<>>)
  /\ scheduler' = scheduler \ {n}
  /\ session' = [session EXCEPT ![n] = 0]
  /\ UNCHANGED isMaster

\* Process n is gone.
Halt(n) ==
  /\ up' = up \ {n}
  /\ Do(n, "idle", <<>>)
  /\ scheduler' = scheduler \ {n}
  /\ isMaster' = isMaster \ {n}
  /\ session' = [session EXCEPT ![n] = 0]

\* AbsClusterManager.initialize: a new connection, and a look at the master
\* znode that decides what the process will be.
Start(n) ==
  /\ Room
  /\ n \notin up
  /\ Trouble((IF \A m \in up : Idle(m) /\ Connected(m) THEN {} ELSE {"overlap"})
               \cup (IF live \subseteq {session[m] : m \in up} THEN {} ELSE {"quick"}))
  /\ up' = up \cup {n}
  /\ count' = count + 1
  /\ session' = [session EXCEPT ![n] = count + 1]
  /\ live' = live \cup {count + 1}
  /\ watches' = [watches EXCEPT ![n] = {}]
  /\ told' = told \ {n}
  /\ IF Exists("master")
       THEN Do(n, "init", StartSlave)
       ELSE Do(n, "init", InitializeMaster \o << <<"flag">>, <<"serve">> >>)
  /\ UNCHANGED <<scheduler, isMaster, owner, data>>

\* The request at the head of todo[n] can be answered as n expects.
Granted(n) ==
  LET i == Head(todo[n]) IN
  CASE i[1] \in {"setData", "delete"} -> Connected(n) /\ Exists(i[2])
    [] i[1] = "create"                -> Connected(n) /\ ~Exists(i[2])
    [] i[1] \in {"exists", "watch"}   -> Connected(n)
    [] i[1] = "serve"                 -> Kind = "engine" \/ task[n] # "upgrade"
    [] OTHER                          -> TRUE

\* Thread at work in n does op as the next thing, and goes on with the rest.
Does(n, op, rest) ==
  /\ todo[n] # <<>>
  /\ Head(todo[n])[1] = op
  /\ Granted(n)
  /\ Do(n, IF rest = <<>> THEN "idle" ELSE task[n], rest)
  /\ UNCHANGED <<up, session, trouble>>

\* NodeWatcher after the reconnect.
Renew(n) ==
  LET w == Head(todo[n])[2] IN
  /\ Does(n, "renew", CreateZNode(w[1]) \o << <<"watch", w>> >> \o Tail(todo[n]))
  /\ UNCHANGED <<told, watches, scheduler, isMaster, zk>>

\* createZNode asks first and then either overwrites or creates.
CheckZNode(n) ==
  LET p == Head(todo[n])[2] IN
  /\ Does(n, "exists", <<<<IF Exists(p) THEN "setData" ELSE "create", p>>>> \o Tail(todo[n]))
  /\ UNCHANGED <<told, watches, scheduler, isMaster, zk>>

\* Overwriting leaves the znode to the session that created it.
SetZNode(n) ==
  LET p == Head(todo[n])[2] IN
  /\ Does(n, "setData", Tail(todo[n]))
  /\ data' = [data EXCEPT ![p] = n]
  /\ UNCHANGED <<scheduler, isMaster, owner, live, count>>
  /\ Fire({p}, FALSE)

CreateEphemeral(n) ==
  LET p == Head(todo[n])[2] IN
  /\ Does(n, "create", Tail(todo[n]))
  /\ owner' = [owner EXCEPT ![p] = session[n]]
  /\ data' = [data EXCEPT ![p] = n]
  /\ UNCHANGED <<scheduler, isMaster, live, count>>
  /\ Fire({p}, FALSE)

AddWatcher(n) ==
  /\ Does(n, "watch", Tail(todo[n]))
  /\ watches' = [watches EXCEPT ![n] = @ \cup {Head(todo[n])[2]}]
  /\ UNCHANGED <<told, scheduler, isMaster, zk>>

DeleteSlaveZNode(n) ==
  /\ Does(n, "delete", Tail(todo[n]))
  /\ UNCHANGED <<scheduler, isMaster, data, live, count>>
  /\ RemoveZNodes({Head(todo[n])[2]})

\* isMasterStatus = true; nothing ever sets it back.
BecomeMaster(n) ==
  /\ Does(n, "flag", Tail(todo[n]))
  /\ isMaster' = isMaster \cup {n}
  /\ UNCHANGED <<told, watches, scheduler, zk>>

\* startScheduler, or the start of an executor's StatusReporter, which registers
\* when it is told to and fetches events, in a slave as well as in a master.
Serve(n) ==
  /\ Does(n, "serve", Tail(todo[n]))
  /\ scheduler' = scheduler \cup {n}
  /\ UNCHANGED <<told, watches, isMaster, zk>>

\* shutDown of the scheduler, or the close of the executor's job client.
Unserve(n) ==
  /\ todo[n] # <<>> /\ Head(todo[n]) = <<"unserve">>
  /\ IF Tail(todo[n]) = <<>>
       THEN Halt(n)
       ELSE /\ Do(n, task[n], Tail(todo[n]))
            /\ scheduler' = scheduler \ {n}
            /\ UNCHANGED <<up, isMaster, session>>
  /\ UNCHANGED <<told, watches, zk, trouble>>

\* The engine closes its connection.
Close(n) ==
  /\ todo[n] # <<>> /\ Head(todo[n]) = <<"close">>
  /\ EndSession(session[n])
  /\ IF Tail(todo[n]) = <<>>
       THEN Halt(n)
       ELSE Do(n, task[n], Tail(todo[n])) /\ UNCHANGED <<up, scheduler, isMaster, session>>
  /\ Trouble(IF Busy({n}) THEN {"overlap"} ELSE {})

\* A request fails.  The watcher that recovers starts its loop again.
\* upgradeToMaster ends in System.exit, which runs the shutdown hook, and so
\* does initialize, before the hook is registered.
Fail(n) ==
  /\ todo[n] # <<>>
  /\ ~Granted(n)
  /\ CASE task[n] = "recover" ->
            /\ todo' = [todo EXCEPT ![n] = CreateZNode(Head(@)[2]) \o Tail(@)]
            /\ UNCHANGED <<up, task, scheduler, isMaster, session>>
       [] task[n] = "upgrade" ->
            /\ Do(n, "close", CloseNode)
            /\ UNCHANGED <<up, scheduler, isMaster, session>>
       [] OTHER -> Halt(n)
  /\ UNCHANGED <<told, watches, zk, trouble>>

\* StatusSwitchWatcher sees NodeDeleted.
ProcessNodeDelete(n) ==
  /\ n \in up /\ todo[n] = <<>>
  /\ n \in told
  /\ told' = told \ {n}
  /\ Do(n, "upgrade", UpgradeToMaster)
  /\ UNCHANGED <<up, watches, scheduler, isMaster, session, zk, trouble>>

\* The watchers see Expired, in any order: the first one reconnects, every
\* one recovers.
ProcessExpired(n) ==
  /\ n \in up /\ Idle(n)
  /\ session[n] \notin live
  /\ count' = count + 1
  /\ session' = [session EXCEPT ![n] = count + 1]
  /\ live' = live \cup {count + 1}
  /\ watches' = [watches EXCEPT ![n] = {}]
  /\ \E order \in SetToSeqs(watches[n]) :
       Do(n, IF order = <<>> THEN "idle" ELSE "recover",
             [i \in DOMAIN order |-> Recover(order[i])])
  /\ UNCHANGED <<up, told, scheduler, isMaster, owner, data, trouble>>

\* The process dies, or is told to stop.
Crash(n) ==
  /\ n \in up
  /\ Halt(n)
  /\ UNCHANGED <<told, watches, zk, trouble>>

Stop(n) ==
  /\ n \in up /\ todo[n] = <<>>
  /\ Do(n, "close", CloseNode)
  /\ UNCHANGED <<up, told, watches, scheduler, isMaster, session, zk, trouble>>

Work(n) ==
  \/ Renew(n) \/ CheckZNode(n) \/ SetZNode(n) \/ CreateEphemeral(n) \/ AddWatcher(n)
  \/ DeleteSlaveZNode(n) \/ BecomeMaster(n) \/ Serve(n) \/ Unserve(n) \/ Close(n)
  \/ Fail(n) \/ ProcessNodeDelete(n) \/ ProcessExpired(n)

Next ==
  \/ \E n \in Node : Start(n) \/ Work(n) \/ Crash(n) \/ Stop(n) \/ Expire(n)
  \/ \E s \in live : SessionTimeout(s)

\* Processes go on, and ZooKeeper notices at last that one is gone.  Nobody is
\* obliged to start, to stop or to fail.
Fairness ==
  /\ \A n \in Node : WF_vars(Work(n))
  /\ WF_vars(\E s \in live : SessionTimeout(s))

Spec == Init /\ [][Next]_vars /\ Fairness

-----------------------------------------------------------------------------
(* Properties. *)

(* Of engines.  Unless a master loses its session or a process is started   *)
(* again too soon, no two serve at the same time: a slave learns of the     *)
(* deletion of the master znode (StatusSwitchWatcher) only after the old    *)
(* master has died, or has stopped its scheduler (EngineNode.close).        *)
(* Executors all serve, the slaves too: StatusReporter does not ask who is  *)
(* master.                                                                  *)
OneMaster == trouble \subseteq {"slaveExpired"} => Cardinality(scheduler) <= 1

(* When the crashes are over and a process runs, one that runs is master,   *)
(* serves, and is the one whose address the master znode holds, where the   *)
(* executors look for it: upgradeToMaster completes the takeover, also if   *)
(* the slave had to set its watches again (processExpired).                 *)
Takeover ==
  <>[](trouble \subseteq {"slaveExpired"} /\ up # {} =>
         \E n \in up \cap scheduler \cap isMaster : Exists("master") /\ data["master"] = n)

(* A process restarted before ZooKeeper has noticed its death finds its own *)
(* old znode and becomes a second slave; both slaves take over then, and    *)
(* the one that is late to delete the slave znode gives up.  A master that  *)
(* lost its session gets a second master beside it.  But some process that  *)
(* runs serves as master in the end: they never all give up.  (When both    *)
(* happen, a returning master may overwrite the znode of a dead process;    *)
(* that uses up the watch of the slave, who misses the deletion.)           *)
SomeoneServes ==
  <>[](/\ "overlap" \notin trouble
       /\ ~({"quick", "masterExpired"} \subseteq trouble)
       /\ up # {}
       => up \cap scheduler \cap isMaster # {})

=============================================================================
