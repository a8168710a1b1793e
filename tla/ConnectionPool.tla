--------------------------- MODULE ConnectionPool ---------------------------
(***************************************************************************)
(* DBConnectionPool and DBPools.  A thread that runs a DAO method gets a   *)
(* connection (currentConnection), uses it, and in most cases gives it     *)
(* back (closeConnection).  getConnection is synchronized and keeps the    *)
(* monitor while it searches, enlarges the pool, refreshes it and sleeps;  *)
(* releaseConnection takes no lock at all.                                 *)
(*                                                                         *)
(* A connection is a number; that of a connection to which nothing refers  *)
(* any more is used again for a new one.  works holds the connections that *)
(* are neither closed by the pool nor broken by the database.              *)
(***************************************************************************)
EXTENDS Integers, Sequences, FiniteSets

CONSTANTS
  Thread,        \* the threads that use the database
  Initial,       \* initialConnections
  Incremental,   \* incrementalConnections
  Max,           \* maxConnections
  MaxFaults      \* bound on the failures of the database and its connections

ASSUME PoolAssumption ==
  /\ IsFiniteSet(Thread)
  /\ Initial \in Nat /\ Max \in Nat \ {0} /\ Initial <= Max
  /\ Incremental \in Nat \ {0}
  /\ MaxFaults \in Nat

\* Enough numbers for one more connection than there can be references.
Connection == 1..(Max + Cardinality(Thread) + 1)

None == 0

VARIABLES
  connections,  \* the PooledConnections: their connection and busy flag
  works,        \* the connections that a test finds usable
  dbUp,         \* the database accepts connections
  lock,         \* the monitor of the pool: a set of at most one thread
  pc,           \* pc[t]: what t does next
  pos,          \* pos[t]: its place in the loop it is in
  goal,         \* goal[t]: what it wants a connection for
  local,        \* local[t]: its currentConnThreadLocal
  faults,       \* the failures so far
  strayed       \* history: releaseConnection has set the flag of a place whose
                \*   connection was replaced after the comparison

vars == <<connections, works, dbUp, lock, pc, pos, goal, local, faults, strayed>>

Pooled == [conn : Connection, busy : BOOLEAN]

(* The states the variables may take; in particular the pool never grows    *)
(* beyond maxConnections.                                                   *)
TypeOK ==
  /\ connections \in Seq(Pooled) /\ Len(connections) <= Max
  /\ works \subseteq Connection
  /\ dbUp \in BOOLEAN
  /\ lock \subseteq Thread /\ Cardinality(lock) <= 1
  /\ pc \in [Thread -> {"idle", "enter", "find", "create", "refresh", "replace", "unbusy",
                        "findAgain", "test", "use", "match", "free", "clear"}]
  /\ pos \in [Thread -> 0..(Max + Incremental + 1)]
  /\ goal \in [Thread -> {"use", "release"}]
  /\ local \in [Thread -> Connection \cup {None}]
  /\ faults \in 0..MaxFaults
  /\ strayed \in BOOLEAN

\* createPool: nothing is created while the database is down.
Init ==
  /\ dbUp \in BOOLEAN
  /\ connections = [i \in 1..(IF dbUp THEN Initial ELSE 0) |-> [conn |-> i, busy |-> FALSE]]
  /\ works = IF dbUp THEN 1..Initial ELSE {}
  /\ lock = {}
  /\ pc = [t \in Thread |-> "idle"]
  /\ pos = [t \in Thread |-> 0]
  /\ goal = [t \in Thread |-> "use"]
  /\ local = [t \in Thread |-> None]
  /\ faults = 0
  /\ strayed = FALSE

-----------------------------------------------------------------------------
Slots == DOMAIN connections

\* newConnection, when the database is up.  Max is what the driver allows.
Fresh == CHOOSE c \in Connection : /\ \A i \in Slots : connections[i].conn # c
                                   /\ \A t \in Thread : local[t] # c

Go(t, label, place) ==
  /\ pc' = [pc EXCEPT ![t] = label]
  /\ pos' = [pos EXCEPT ![t] = place]

(* getConnection. *)

Enter(t) ==
  /\ pc[t] = "enter"
  /\ lock = {}
  /\ lock' = {t}
  /\ Go(t, "find", 1)
  /\ UNCHANGED <<connections, works, dbUp, goal, local, faults, strayed>>

\* What currentConnection was called for.
Purpose(t) == IF goal[t] = "use" THEN "use" ELSE "match"

\* getConnection returns c.  currentConnection tests it once more, without
\* the lock, unless it takes the place of one that has failed this test.
Return(t, c) ==
  /\ local' = [local EXCEPT ![t] = c]
  /\ lock' = {}
  /\ Go(t, IF local[t] = None THEN "test" ELSE Purpose(t), 0)

\* The first search leads to createConnections, the second one to a sleep of
\* 250 ms, with the lock held, and another attempt.
NotFound(t) ==
  /\ IF pc[t] = "find" THEN Go(t, "create", Incremental) ELSE Go(t, "find", 1)
  /\ UNCHANGED <<lock, local>>

\* Mutant of FindFreeConnection: the flag is set only when the test succeeds.
FindMarkingLate(t) ==
  /\ pc[t] \in {"find", "findAgain"}
  /\ LET i == pos[t]
         c == connections[i].conn IN
     \/ /\ i \notin Slots
        /\ NotFound(t)
        /\ UNCHANGED <<connections, works>>
     \/ /\ i \in Slots /\ connections[i].busy
        /\ Go(t, pc[t], i + 1)
        /\ UNCHANGED <<connections, works, lock, local>>
     \/ /\ i \in Slots /\ ~connections[i].busy /\ c \in works
        /\ connections' = [connections EXCEPT ![i].busy = TRUE]
        /\ Return(t, c)
        /\ UNCHANGED works
     \/ /\ i \in Slots /\ ~connections[i].busy /\ c \notin works /\ dbUp
        /\ connections' = [connections EXCEPT ![i].conn = Fresh]
        /\ works' = works \cup {Fresh}
        /\ Return(t, Fresh)
     \/ /\ i \in Slots /\ ~connections[i].busy /\ c \notin works /\ ~dbUp
        /\ NotFound(t)
        /\ UNCHANGED <<connections, works>>
  /\ UNCHANGED <<dbUp, goal, faults, strayed>>

\* findFreeConnection, one PooledConnection at a time.  A free one is marked
\* busy and tested; in place of a broken one a new connection is put, and if
\* that fails the search ends without a result and the flag stays set.
FindFreeConnection(t) ==
  /\ pc[t] \in {"find", "findAgain"}
  /\ LET i == pos[t] IN
     \/ /\ i \notin Slots
        /\ NotFound(t)
        /\ UNCHANGED <<connections, works>>
     \/ /\ i \in Slots /\ connections[i].busy
        /\ Go(t, pc[t], i + 1)
        /\ UNCHANGED <<connections, works, lock, local>>
     \/ /\ i \in Slots /\ ~connections[i].busy
        /\ connections[i].conn \in works
        /\ connections' = [connections EXCEPT ![i].busy = TRUE]
        /\ Return(t, connections[i].conn)
        /\ UNCHANGED works
     \/ /\ i \in Slots /\ ~connections[i].busy
        /\ connections[i].conn \notin works /\ dbUp
        /\ connections' = [connections EXCEPT ![i] = [conn |-> Fresh, busy |-> TRUE]]
        /\ works' = works \cup {Fresh}
        /\ Return(t, Fresh)
     \/ /\ i \in Slots /\ ~connections[i].busy
        /\ connections[i].conn \notin works /\ ~dbUp
        /\ connections' = [connections EXCEPT ![i].busy = TRUE]
        /\ NotFound(t)
        /\ UNCHANGED works
  /\ UNCHANGED <<dbUp, goal, faults, strayed>>

\* Mutant of CreateConnections: the limit is tested too late.
CreateBeyondMax(t) ==
  /\ pc[t] = "create"
  /\ \/ /\ pos[t] = 0
        /\ Go(t, "findAgain", 1)
        /\ UNCHANGED <<connections, works>>
     \/ /\ pos[t] > 0 /\ Len(connections) > Max
        /\ Go(t, "refresh", 1)
        /\ UNCHANGED <<connections, works>>
     \/ /\ pos[t] > 0 /\ Len(connections) <= Max
        /\ Go(t, "create", pos[t] - 1)
        /\ IF dbUp
             THEN /\ connections' = Append(connections, [conn |-> Fresh, busy |-> FALSE])
                  /\ works' = works \cup {Fresh}
             ELSE UNCHANGED <<connections, works>>
  /\ UNCHANGED <<dbUp, lock, goal, local, faults, strayed>>

\* Mutant of CreateConnections: a full pool is not refreshed.
CreateWithoutRefresh(t) ==
  /\ pc[t] = "create"
  /\ \/ /\ pos[t] = 0 \/ Len(connections) >= Max
        /\ Go(t, "findAgain", 1)
        /\ UNCHANGED <<connections, works>>
     \/ /\ pos[t] > 0 /\ Len(connections) < Max
        /\ Go(t, "create", pos[t] - 1)
        /\ IF dbUp
             THEN /\ connections' = Append(connections, [conn |-> Fresh, busy |-> FALSE])
                  /\ works' = works \cup {Fresh}
             ELSE UNCHANGED <<connections, works>>
  /\ UNCHANGED <<dbUp, lock, goal, local, faults, strayed>>

\* createConnections: one more, unless the pool is full, which ends the loop
\* with a refresh.
CreateConnections(t) ==
  /\ pc[t] = "create"
  /\ \/ /\ pos[t] = 0
        /\ Go(t, "findAgain", 1)
        /\ UNCHANGED <<connections, works>>
     \/ /\ pos[t] > 0 /\ Len(connections) >= Max
        /\ Go(t, "refresh", 1)
        /\ UNCHANGED <<connections, works>>
     \/ /\ pos[t] > 0 /\ Len(connections) < Max
        /\ Go(t, "create", pos[t] - 1)
        /\ IF dbUp
             THEN /\ connections' = Append(connections, [conn |-> Fresh, busy |-> FALSE])
                  /\ works' = works \cup {Fresh}
             ELSE UNCHANGED <<connections, works>>
  /\ UNCHANGED <<dbUp, lock, goal, local, faults, strayed>>

\* Mutant of RefreshConnections: the old connection is not closed.
RefreshLeaking(t) ==
  /\ pc[t] = "refresh"
  /\ IF pos[t] \in Slots THEN Go(t, "replace", pos[t]) ELSE Go(t, "findAgain", 1)
  /\ UNCHANGED <<connections, works, dbUp, lock, goal, local, faults, strayed>>

\* refreshConnections: the connections are closed and replaced one by one,
\* used or not.  The five seconds it sleeps in front of a busy one, with the
\* lock held, order nothing: releaseConnection takes no lock.
RefreshConnections(t) ==
  /\ pc[t] = "refresh"
  /\ LET i == pos[t] IN
     \/ /\ i \notin Slots
        /\ Go(t, "findAgain", 1)
        /\ UNCHANGED works
     \/ /\ i \in Slots
        /\ works' = works \ {connections[i].conn}
        /\ Go(t, "replace", i)
  /\ UNCHANGED <<connections, dbUp, lock, goal, local, faults, strayed>>

\* ... setConnection(newConnection()); a failure ends the loop ...
ReplaceConnection(t) ==
  /\ pc[t] = "replace"
  /\ \/ /\ dbUp
        /\ connections' = [connections EXCEPT ![pos[t]].conn = Fresh]
        /\ works' = works \cup {Fresh}
        /\ Go(t, "unbusy", pos[t])
     \/ /\ ~dbUp
        /\ Go(t, "findAgain", 1)
        /\ UNCHANGED <<connections, works>>
  /\ UNCHANGED <<dbUp, lock, goal, local, faults, strayed>>

\* ... and setBusy(false).
FreeRefreshed(t) ==
  /\ pc[t] = "unbusy"
  /\ connections' = [connections EXCEPT ![pos[t]].busy = FALSE]
  /\ Go(t, "refresh", pos[t] + 1)
  /\ UNCHANGED <<works, dbUp, lock, goal, local, faults, strayed>>

-----------------------------------------------------------------------------
(* What a DAO method does. *)

\* currentConnection: the thread may have a connection from an earlier call.
Begin(t) ==
  /\ pc[t] = "idle"
  /\ Go(t, IF local[t] = None THEN "enter" ELSE "test", 0)
  /\ UNCHANGED <<connections, works, dbUp, lock, goal, local, faults, strayed>>

\* currentConnection tests the thread's connection.  If it does not work,
\* another one takes its place and the flag of the old one stays set.
TestConnection(t) ==
  /\ pc[t] = "test"
  /\ Go(t, IF local[t] \in works THEN Purpose(t) ELSE "enter", 0)
  /\ UNCHANGED <<connections, works, dbUp, lock, goal, local, faults, strayed>>

\* The method is done and calls closeConnection, which asks for the current
\* connection again.
Finish(t) ==
  /\ pc[t] = "use"
  /\ goal' = [goal EXCEPT ![t] = "release"]
  /\ Go(t, "test", 0)
  /\ UNCHANGED <<connections, works, dbUp, lock, local, faults, strayed>>

\* Some methods, like isJobPlansExist, do not call closeConnection: the thread
\* keeps its connection while it has nothing to do.
Keep(t) ==
  /\ pc[t] = "use"
  /\ Go(t, "idle", 0)
  /\ UNCHANGED <<connections, works, dbUp, lock, goal, local, faults, strayed>>

\* releaseConnection looks for the connection, and closes it if the pool has
\* replaced it.
MatchConnection(t) ==
  /\ pc[t] = "match"
  /\ \/ \E i \in Slots :
          /\ connections[i].conn = local[t]
          /\ Go(t, "free", i)
          /\ UNCHANGED works
     \/ /\ \A i \in Slots : connections[i].conn # local[t]
        /\ works' = works \ {local[t]}
        /\ Go(t, "clear", 0)
  /\ UNCHANGED <<connections, dbUp, lock, goal, local, faults, strayed>>

\* ... and sets the flag of the one it has found, whatever is there now.
ReleaseConnection(t) ==
  /\ pc[t] = "free"
  /\ connections' = [connections EXCEPT ![pos[t]].busy = FALSE]
  /\ strayed' = (strayed \/ connections[pos[t]].conn # local[t])
  /\ Go(t, "clear", 0)
  /\ UNCHANGED <<works, dbUp, lock, goal, local, faults>>

\* closeConnection ends with currentConnThreadLocal.set(null).
Clear(t) ==
  /\ pc[t] = "clear"
  /\ local' = [local EXCEPT ![t] = None]
  /\ goal' = [goal EXCEPT ![t] = "use"]
  /\ Go(t, "idle", 0)
  /\ UNCHANGED <<connections, works, dbUp, lock, faults, strayed>>

-----------------------------------------------------------------------------
(* The database. *)

Down ==
  /\ dbUp /\ faults < MaxFaults
  /\ dbUp' = FALSE
  /\ works' = {}
  /\ faults' = faults + 1
  /\ UNCHANGED <<connections, lock, pc, pos, goal, local, strayed>>

Up ==
  /\ ~dbUp
  /\ dbUp' = TRUE
  /\ UNCHANGED <<connections, works, lock, pc, pos, goal, local, faults, strayed>>

\* The database drops a connection.
Drop(c) ==
  /\ c \in works /\ faults < MaxFaults
  /\ works' = works \ {c}
  /\ faults' = faults + 1
  /\ UNCHANGED <<connections, dbUp, lock, pc, pos, goal, local, strayed>>

Get(t) ==
  \/ Enter(t) \/ FindFreeConnection(t) \/ CreateConnections(t) \/ RefreshConnections(t)
  \/ ReplaceConnection(t) \/ FreeRefreshed(t) \/ TestConnection(t)

Release(t) ==
  Finish(t) \/ Keep(t) \/ MatchConnection(t) \/ ReleaseConnection(t) \/ Clear(t)

Next ==
  \/ \E t \in Thread : Begin(t) \/ Get(t) \/ Release(t)
  \/ Down \/ Up
  \/ \E c \in Connection : Drop(c)

\* Threads go on and the database comes back.  A DAO method need not be
\* called; one that was called ends, with or without closeConnection.
Fairness ==
  /\ \A t \in Thread : WF_vars(Get(t)) /\ WF_vars(Release(t))
  /\ WF_vars(Up)

Spec == Init /\ [][Next]_vars /\ Fairness

-----------------------------------------------------------------------------
(* Properties. *)

\* A thread uses its connection until it has given it back.
Holds(t) == local[t] # None /\ pc[t] # "clear"

(* A connection is in the hands of at most one thread, and of none when its *)
(* flag is not set, as long as no releaseConnection has strayed: the lock   *)
(* of getConnection, the busy flags and the order of closeConnection leave  *)
(* this one way for two threads to get the same connection.                 *)
Exclusive ==
  ~strayed =>
    /\ \A t, u \in Thread : t # u /\ Holds(t) /\ Holds(u) => local[t] # local[u]
    /\ \A t \in Thread, i \in Slots :
         ~connections[i].busy /\ Holds(t) => local[t] # connections[i].conn

(* No connection to the database is lost: one that works is in the pool.    *)
(* refreshConnections and findFreeConnection close what they replace,       *)
(* releaseConnection closes what it does not find.                          *)
NoneLost == \A c \in works : \E i \in Slots : connections[i].conn = c

(* getConnection returns, although it loops with the monitor held and an    *)
(* outage leaves connections marked busy that nobody uses: when no thread   *)
(* gives one back, the pool is enlarged and at its limit refreshed.         *)
GetReturns == \A t \in Thread : t \in lock ~> t \notin lock

(* What releaseConnection says it does ("this connection is set free"): two *)
(* threads never hold the same connection.  No run checks it: a thread that *)
(* stops between the comparison and the assignment while the pool is        *)
(* refreshed and the place handed out again frees another one's connection. *)
NeverShared ==
  \A t, u \in Thread : t # u /\ Holds(t) /\ Holds(u) => local[t] # local[u]

=============================================================================
