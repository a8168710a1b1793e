------------------------ MODULE ConnectionPoolProofs ------------------------
(***************************************************************************)
(* Proofs about the pool of database connections, for any number of        *)
(* threads and connections.  Exclusive and NoneLost are not inductive: the *)
(* refresh closes, replaces and frees a connection in three steps, and     *)
(* only the lock keeps the other threads from changing the pool between    *)
(* them.                                                                   *)
(***************************************************************************)
EXTENDS ConnectionPool, FunctionTheorems, FiniteSetTheorems, SequenceTheorems, TLAPS

\* No connection is in the pool twice.
Distinct ==
  \A i, j \in Slots : connections[i].conn = connections[j].conn => i = j

\* The labels inside of getConnection.
Inside == {"find", "create", "refresh", "replace", "unbusy", "findAgain"}

\* A thread is in getConnection only with the lock.
Locked == \A t \in Thread : pc[t] \in Inside => lock = {t}

\* Between two steps of the refresh the place holds a closed connection, then
\* a new one that nobody has.
AtPlace ==
  \A t \in Thread :
    /\ pc[t] \in {"free", "replace", "unbusy"} => pos[t] \in Slots
    /\ pc[t] = "replace" => connections[pos[t]].conn \notin works
    /\ pc[t] = "unbusy" => \A u \in Thread : local[u] # connections[pos[t]].conn

PoolInv == TypeOK /\ Distinct /\ Locked /\ AtPlace /\ Exclusive /\ NoneLost

-----------------------------------------------------------------------------
(* The parts of a step. *)

Labels == {"idle", "enter", "find", "create", "refresh", "replace", "unbusy", "findAgain",
           "test", "use", "match", "free", "clear"}

\* The labels at which the thread's place matters.
Special == {"free", "replace", "unbusy"}

Places == 0..(Max + Incremental + 1)

\* The numbers and the places the threads are at.
LEMMA Numbers ==
  /\ Max \in Nat /\ Max > 0 /\ Initial \in Nat /\ Incremental \in Nat /\ Incremental > 0
  /\ Cardinality(Thread) \in Nat
  /\ \A c \in Connection : c \in Nat /\ c # None
  /\ 0 \in Places /\ 1 \in Places /\ Incremental \in Places
  /\ \A i \in 1..Max : i \in Places /\ i + 1 \in Places
<1>1. Cardinality(Thread) \in Nat
  BY PoolAssumption, FS_CardinalityType
<1>2. \A c \in Connection : c \in Nat /\ c # None
  BY <1>1, PoolAssumption DEF Connection, None
<1>3. /\ Max \in Nat /\ Max > 0 /\ Initial \in Nat /\ Incremental \in Nat /\ Incremental > 0
  BY PoolAssumption
<1> QED BY <1>1, <1>2, <1>3 DEF Places

\* The places of the pool.
LEMMA SlotsType ==
  ASSUME TypeOK
  PROVE  /\ Len(connections) \in Nat /\ Slots = 1..Len(connections)
         /\ \A i \in Slots : /\ i \in 1..Max /\ connections[i] \in Pooled
                             /\ connections[i].conn \in Connection
                             /\ connections[i].busy \in BOOLEAN
<1>1. /\ Len(connections) \in Nat /\ Slots = 1..Len(connections)
      /\ \A i \in Slots : connections[i] \in Pooled
  BY LenProperties, ElementOfSeq DEF TypeOK, Slots
<1>2. \A i \in Slots : i \in 1..Max
  BY <1>1, Numbers DEF TypeOK
<1> QED BY <1>1, <1>2 DEF Pooled

\* A thread goes on.
LEMMA GoType ==
  ASSUME TypeOK, NEW t \in Thread, NEW l \in Labels, NEW i \in Places, Go(t, l, i)
  PROVE  /\ pc' \in [Thread -> Labels] /\ pos' \in [Thread -> Places]
         /\ pc'[t] = l /\ pos'[t] = i
         /\ \A u \in Thread \ {t} : pc'[u] = pc[u] /\ pos'[u] = pos[u]
BY DEF Go, TypeOK, Labels, Places

\* A place of the pool is given another connection or flag.
LEMMA PutType ==
  ASSUME TypeOK, NEW i \in Slots, NEW c \in Connection, NEW b \in BOOLEAN,
         connections' = [connections EXCEPT ![i] = [conn |-> c, busy |-> b]]
  PROVE  /\ connections' \in Seq(Pooled) /\ Len(connections') = Len(connections)
         /\ Slots' = Slots
         /\ connections'[i].conn = c /\ connections'[i].busy = b
         /\ \A j \in Slots \ {i} : connections'[j] = connections[j]
<1>1. [conn |-> c, busy |-> b] \in Pooled
  BY DEF Pooled
<1>2. connections \in Seq(Pooled) /\ Slots = 1..Len(connections)
  BY SlotsType DEF TypeOK
<1>3. /\ connections' \in Seq(Pooled) /\ Len(connections') = Len(connections)
      /\ \A j \in 1..Len(connections) :
           connections'[j] = IF j = i THEN [conn |-> c, busy |-> b] ELSE connections[j]
  BY <1>1, <1>2, ExceptSeq
<1>4. Slots' = 1..Len(connections')
  BY <1>3, LenProperties DEF Slots
<1> QED BY <1>2, <1>3, <1>4

\* The flag of a place is set or taken away.
LEMMA FlagType ==
  ASSUME TypeOK, NEW i \in Slots, NEW b \in BOOLEAN,
         connections' = [connections EXCEPT ![i].busy = b]
  PROVE  /\ connections' \in Seq(Pooled) /\ Len(connections') = Len(connections)
         /\ Slots' = Slots
         /\ connections'[i].conn = connections[i].conn /\ connections'[i].busy = b
         /\ \A j \in Slots \ {i} : connections'[j] = connections[j]
<1>1. connections[i] \in Pooled /\ connections[i].conn \in Connection
  BY SlotsType
<1>2. [connections[i] EXCEPT !.busy = b] = [conn |-> connections[i].conn, busy |-> b]
  BY <1>1 DEF Pooled
<1>3. connections' = [connections EXCEPT ![i] = [conn |-> connections[i].conn, busy |-> b]]
  BY <1>2
<1> QED BY <1>1, <1>3, PutType

\* The connection of a place is replaced.
LEMMA ConnType ==
  ASSUME TypeOK, NEW i \in Slots, NEW c \in Connection,
         connections' = [connections EXCEPT ![i].conn = c]
  PROVE  /\ connections' \in Seq(Pooled) /\ Len(connections') = Len(connections)
         /\ Slots' = Slots
         /\ connections'[i].conn = c /\ connections'[i].busy = connections[i].busy
         /\ \A j \in Slots \ {i} : connections'[j] = connections[j]
<1>1. connections[i] \in Pooled /\ connections[i].busy \in BOOLEAN
  BY SlotsType
<1>2. [connections[i] EXCEPT !.conn = c] = [conn |-> c, busy |-> connections[i].busy]
  BY <1>1 DEF Pooled
<1>3. PICK b \in BOOLEAN : b = connections[i].busy
  BY <1>1
<1>4. connections' = [connections EXCEPT ![i] = [conn |-> c, busy |-> b]]
  BY <1>2, <1>3
<1>5. /\ connections' \in Seq(Pooled) /\ Len(connections') = Len(connections)
      /\ Slots' = Slots
      /\ connections'[i].conn = c /\ connections'[i].busy = b
      /\ \A j \in Slots \ {i} : connections'[j] = connections[j]
  BY <1>4, PutType
<1> QED BY <1>3, <1>5

\* There is always a number for a new connection: fewer are referred to than
\* there are.
LEMMA FreshType ==
  ASSUME TypeOK
  PROVE  /\ Fresh \in Connection
         /\ \A i \in Slots : connections[i].conn # Fresh
         /\ \A t \in Thread : local[t] # Fresh
<1> DEFINE f == [i \in Slots |-> connections[i].conn]
           P == Range(f)
           L == Range(local)
<1>1. IsFiniteSet(Slots) /\ Cardinality(Slots) <= Max /\ Cardinality(Slots) \in Nat
  <2>1. Slots = 1..Len(connections) /\ Len(connections) \in Nat /\ Len(connections) <= Max
    BY SlotsType DEF TypeOK
  <2>2. /\ IsFiniteSet(1..Len(connections))
        /\ Cardinality(1..Len(connections)) = IF 1 > Len(connections) THEN 0 ELSE Len(connections) - 1 + 1
    BY <2>1, FS_Interval
  <2> QED BY <2>1, <2>2, Numbers
<1>2. IsFiniteSet(P) /\ Cardinality(P) <= Cardinality(Slots)
  <2>1. f \in [Slots -> Connection]
    BY SlotsType
  <2>2. f \in Surjection(Slots, P)
    BY <2>1, Fun_RangeProperties
  <2> QED BY <1>1, <2>2, FS_Surjection
<1>3. IsFiniteSet(L) /\ Cardinality(L) <= Cardinality(Thread)
  <2>1. local \in Surjection(Thread, L)
    BY Fun_RangeProperties DEF TypeOK
  <2> QED BY <2>1, FS_Surjection, PoolAssumption
<1>4. IsFiniteSet(P \cup L) /\ Cardinality(P \cup L) <= Max + Cardinality(Thread)
  <2>1. /\ IsFiniteSet(P \cup L) /\ IsFiniteSet(P \cap L)
        /\ Cardinality(P \cup L) = Cardinality(P) + Cardinality(L) - Cardinality(P \cap L)
    <3>1. P \cap L \in SUBSET P
      OBVIOUS
    <3> QED BY <1>2, <1>3, <3>1, FS_Union, FS_Subset
  <2>2. Cardinality(P) \in Nat /\ Cardinality(L) \in Nat /\ Cardinality(P \cap L) \in Nat
    BY <1>2, <1>3, <2>1, FS_CardinalityType
  <2>3. /\ Cardinality(P) <= Max /\ Cardinality(L) <= Cardinality(Thread)
        /\ Cardinality(P \cup L) \in Nat
    BY <1>1, <1>2, <1>3, <2>1, <2>2, Numbers, FS_CardinalityType
  <2> QED BY <2>1, <2>2, <2>3, Numbers
<1>5. ~(Connection \subseteq P \cup L)
  <2>1. Max + Cardinality(Thread) + 1 \in Nat
    BY Numbers
  <2>2. Cardinality(Connection) = Max + Cardinality(Thread) + 1
    <3>1. Cardinality(Connection) = IF 1 > Max + Cardinality(Thread) + 1 THEN 0
                                    ELSE (Max + Cardinality(Thread) + 1) - 1 + 1
      BY <2>1, FS_Interval DEF Connection
    <3> QED BY <2>1, <3>1, Numbers
  <2>3. ASSUME Connection \subseteq P \cup L PROVE FALSE
    <3>1. Connection \in SUBSET (P \cup L)
      BY <2>3
    <3>2. Cardinality(Connection) <= Cardinality(P \cup L)
      BY <1>4, <3>1, FS_Subset
    <3>3. Cardinality(P \cup L) \in Nat
      BY <1>4, FS_CardinalityType
    <3> QED BY <1>4, <2>1, <2>2, <3>2, <3>3, Numbers
  <2> QED BY <2>3
<1>6. PICK c \in Connection : c \notin P /\ c \notin L
  BY <1>5
<1>7. (\A i \in Slots : connections[i].conn # c) /\ (\A t \in Thread : local[t] # c)
  <2>1. \A i \in Slots : connections[i].conn \in P
    BY DEF Range
  <2>2. \A t \in Thread : local[t] \in L
    BY DEF Range, TypeOK
  <2> QED BY <1>6, <2>1, <2>2
<1> QED BY <1>7 DEF Fresh

\* The lock.
LEMMA LockType ==
  ASSUME NEW t \in Thread, lock' = {} \/ lock' = {t}
  PROVE  lock' \subseteq Thread /\ Cardinality(lock') <= 1
<1>1. CASE lock' = {}
  BY <1>1, FS_EmptySet
<1>2. CASE lock' = {t}
  BY <1>2, FS_Singleton
<1> QED BY <1>1, <1>2

-----------------------------------------------------------------------------
(* The steps. *)

\* One thread at a time is in getConnection.
LEMMA Alone ==
  ASSUME PoolInv, NEW t \in Thread, pc[t] \in Inside
  PROVE  /\ lock = {t}
         /\ \A u \in Thread \ {t} : pc[u] \notin Inside
BY DEF PoolInv, Locked

\* A step that leaves the pool alone and takes no connection.
LEMMA InvKept ==
  ASSUME PoolInv, TypeOK', Locked', AtPlace', UNCHANGED <<connections, strayed>>,
         works' \subseteq works,
         \A t \in Thread : Holds(t)' => Holds(t) /\ local'[t] = local[t]
  PROVE  PoolInv'
<1>1. UNCHANGED Slots
  BY DEF Slots
<1>2. Distinct' /\ NoneLost'
  BY <1>1 DEF PoolInv, Distinct, NoneLost
<1>3. Exclusive'
  BY <1>1 DEF PoolInv, Exclusive
<1> QED BY <1>2, <1>3 DEF PoolInv

\* In particular one that changes only where the thread is and closes
\* connections.
LEMMA GoKept ==
  ASSUME PoolInv, NEW t \in Thread, NEW l \in Labels \ Special, NEW i \in Places, Go(t, l, i),
         UNCHANGED <<connections, dbUp, local, faults, strayed>>, works' \subseteq works,
         pc[t] # "clear",
         goal' \in [Thread -> {"use", "release"}], lock' \in {lock, {t}},
         l \in Inside => lock' = {t},
         lock' # lock => lock = {}
  PROVE  PoolInv'
<1>1. TypeOK
  BY DEF PoolInv
<1>2. /\ pc' \in [Thread -> Labels] /\ pos' \in [Thread -> Places]
      /\ pc'[t] = l /\ pos'[t] = i
      /\ \A u \in Thread \ {t} : pc'[u] = pc[u] /\ pos'[u] = pos[u]
  BY <1>1, GoType
<1>3. lock' \subseteq Thread /\ Cardinality(lock') <= 1
  BY <1>1, LockType DEF TypeOK
<1>4. TypeOK'
  BY <1>1, <1>2, <1>3 DEF TypeOK, Labels, Places
<1>5. Locked'
  <2> SUFFICES ASSUME NEW u \in Thread, pc'[u] \in Inside PROVE lock' = {u}
    BY DEF Locked
  <2>1. CASE u = t
    BY <1>2, <2>1
  <2>2. CASE u # t
    BY <1>2, <2>2 DEF PoolInv, Locked
  <2> QED BY <2>1, <2>2
<1>6. AtPlace'
  <2> SUFFICES ASSUME NEW u \in Thread, pc'[u] \in Special
               PROVE  /\ pos'[u] \in Slots'
                      /\ pc'[u] = "replace" => connections'[pos'[u]].conn \notin works'
                      /\ pc'[u] = "unbusy" => \A v \in Thread : local'[v] # connections'[pos'[u]].conn
    BY DEF AtPlace, Special
  <2>1. u # t /\ pc'[u] = pc[u] /\ pos'[u] = pos[u]
    BY <1>2
  <2> QED BY <2>1 DEF PoolInv, AtPlace, Special, Slots
<1>7. \A u \in Thread : Holds(u)' => Holds(u) /\ local'[u] = local[u]
  BY <1>2 DEF Holds
<1> QED BY <1>4, <1>5, <1>6, <1>7, InvKept

\* A thread in getConnection changes the pool: the others are outside, and
\* no place is taken away.
LEMMA InsideKept ==
  ASSUME PoolInv, NEW t \in Thread, pc[t] \in Inside,
         NEW l \in Labels, NEW p \in Places, Go(t, l, p),
         connections' \in Seq(Pooled), Len(connections') <= Max, Slots \subseteq Slots',
         works' \subseteq Connection,
         local' \in [Thread -> Connection \cup {None}],
         lock' = {} \/ lock' = {t},
         l \in Inside => lock' = {t},
         l \in Special =>
           /\ p \in Slots'
           /\ l = "replace" => connections'[p].conn \notin works'
           /\ l = "unbusy" => \A v \in Thread : local'[v] # connections'[p].conn,
         UNCHANGED <<dbUp, goal, faults, strayed>>
  PROVE  /\ TypeOK' /\ Locked' /\ AtPlace'
         /\ pc'[t] = l /\ \A u \in Thread \ {t} : pc'[u] = pc[u]
<1>1. TypeOK
  BY DEF PoolInv
<1>2. /\ pc' \in [Thread -> Labels] /\ pos' \in [Thread -> Places]
      /\ pc'[t] = l /\ pos'[t] = p
      /\ \A u \in Thread \ {t} : pc'[u] = pc[u] /\ pos'[u] = pos[u]
  BY <1>1, GoType
<1>3. lock' \subseteq Thread /\ Cardinality(lock') <= 1
  BY LockType
<1>4. TypeOK'
  BY <1>1, <1>2, <1>3 DEF TypeOK, Labels, Places
<1>5. \A u \in Thread \ {t} : pc[u] \notin Inside
  BY Alone
<1>6. Locked'
  BY <1>2, <1>5 DEF Locked
<1>7. AtPlace'
  <2> SUFFICES ASSUME NEW u \in Thread, pc'[u] \in Special
               PROVE  /\ pos'[u] \in Slots'
                      /\ pc'[u] = "replace" => connections'[pos'[u]].conn \notin works'
                      /\ pc'[u] = "unbusy" => \A v \in Thread : local'[v] # connections'[pos'[u]].conn
    BY DEF AtPlace, Special
  <2>1. CASE u = t
    BY <1>2, <2>1
  <2>2. CASE u # t
    <3>1. pc'[u] = "free" /\ pc[u] = "free" /\ pos'[u] = pos[u]
      BY <1>2, <1>5, <2>2 DEF Special, Inside
    <3> QED BY <3>1 DEF PoolInv, AtPlace
  <2> QED BY <2>1, <2>2
<1> QED BY <1>2, <1>4, <1>6, <1>7

\* The thread leaves with a connection nobody else has.
LEMMA ReturnKept ==
  ASSUME PoolInv, NEW t \in Thread, NEW i \in Slots, NEW c \in Connection, Return(t, c),
         pc[t] \in Inside,
         ~strayed => \A u \in Thread : Holds(u) => local[u] # c,
         \A j \in Slots \ {i} : connections[j].conn # c,
         connections' \in Seq(Pooled), Len(connections') = Len(connections), Slots' = Slots,
         connections'[i].conn = c, connections'[i].busy,
         \A j \in Slots \ {i} : connections'[j] = connections[j],
         works' \subseteq Connection,
         \A d \in works' : d = c \/ (d \in works /\ d # connections[i].conn),
         UNCHANGED <<dbUp, goal, faults, strayed>>
  PROVE  PoolInv'
<1>0. TypeOK
  BY DEF PoolInv
<1>1. PICK l \in Labels \ (Special \cup Inside) : Go(t, l, 0)
  BY DEF Return, Labels, Purpose, Special, Inside
<1>2. /\ local' \in [Thread -> Connection \cup {None}] /\ local'[t] = c
      /\ \A u \in Thread \ {t} : local'[u] = local[u]
      /\ lock' = {}
  BY <1>0 DEF Return, TypeOK
<1>3. 0 \in Places /\ Len(connections') <= Max
  BY <1>0, Numbers DEF TypeOK
<1>4. /\ TypeOK' /\ Locked' /\ AtPlace'
      /\ pc'[t] = l /\ \A u \in Thread \ {t} : pc'[u] = pc[u]
  BY <1>1, <1>2, <1>3, InsideKept
<1>5. Distinct'
  BY DEF PoolInv, Distinct
<1>6. Exclusive'
  <2> SUFFICES ASSUME ~strayed
               PROVE  /\ \A u, v \in Thread : u # v /\ Holds(u)' /\ Holds(v)' => local'[u] # local'[v]
                      /\ \A u \in Thread, j \in Slots :
                           ~connections'[j].busy /\ Holds(u)' => local'[u] # connections'[j].conn
    BY DEF Exclusive
  <2>1. \A u \in Thread \ {t} : Holds(u)' => Holds(u) /\ local'[u] = local[u] /\ local[u] # c
    BY <1>2, <1>4 DEF Holds
  <2>2. \A u, v \in Thread : u # v /\ Holds(u)' /\ Holds(v)' => local'[u] # local'[v]
    BY <1>2, <2>1 DEF PoolInv, Exclusive
  <2>3. \A u \in Thread, j \in Slots :
          ~connections'[j].busy /\ Holds(u)' => local'[u] # connections'[j].conn
    BY <1>2, <2>1 DEF PoolInv, Exclusive
  <2> QED BY <2>2, <2>3
<1>7. NoneLost'
  <2> SUFFICES ASSUME NEW d \in works'
               PROVE  \E j \in Slots : connections'[j].conn = d
    BY DEF NoneLost
  <2>1. CASE d = c
    BY <2>1
  <2>2. CASE d \in works /\ d # connections[i].conn
    BY <2>2 DEF PoolInv, NoneLost
  <2> QED BY <2>1, <2>2
<1> QED BY <1>4, <1>5, <1>6, <1>7 DEF PoolInv

\* findFreeConnection.
LEMMA FindKept ==
  ASSUME PoolInv, NEW t \in Thread, FindFreeConnection(t)
  PROVE  PoolInv'
<1> DEFINE i == pos[t]
<1>0. /\ TypeOK /\ UNCHANGED <<dbUp, goal, faults, strayed>> /\ pc[t] \in {"find", "findAgain"}
      /\ pc[t] \in Inside
  BY DEF PoolInv, FindFreeConnection, Inside
<1>1. \A j \in Slots : /\ j \in 1..Max /\ j + 1 \in Places
                       /\ connections[j].conn \in Connection
  BY <1>0, SlotsType, Numbers
<1>2. /\ goal \in [Thread -> {"use", "release"}] /\ works \subseteq Connection
      /\ local \in [Thread -> Connection \cup {None}] /\ Len(connections) <= Max
      /\ lock = {t}
  BY <1>0, Alone DEF TypeOK
<1>3. NotFound(t) => /\ \E l \in Inside \ Special, p \in Places : l \in Labels /\ Go(t, l, p)
                     /\ UNCHANGED <<lock, local>>
  BY Numbers DEF NotFound, Labels, Inside, Special
<1>4. CASE i \notin Slots /\ NotFound(t) /\ UNCHANGED <<connections, works>>
  BY <1>0, <1>2, <1>3, <1>4, GoKept
<1>5. CASE i \in Slots /\ Go(t, pc[t], i + 1) /\ UNCHANGED <<connections, works, lock, local>>
  <2>1. pc[t] \in Labels \ Special
    BY <1>0 DEF Labels, Special
  <2> QED BY <1>0, <1>1, <1>2, <1>5, <2>1, GoKept
<1>6. CASE /\ i \in Slots /\ ~connections[i].busy
           /\ connections' = [connections EXCEPT ![i].busy = TRUE]
           /\ Return(t, connections[i].conn)
           /\ UNCHANGED works
  <2>1. /\ connections' \in Seq(Pooled) /\ Len(connections') = Len(connections)
        /\ Slots' = Slots
        /\ connections'[i].conn = connections[i].conn /\ connections'[i].busy
        /\ \A j \in Slots \ {i} : connections'[j] = connections[j]
    BY <1>0, <1>6, FlagType
  <2>2. /\ ~strayed => \A u \in Thread : Holds(u) => local[u] # connections[i].conn
        /\ \A j \in Slots \ {i} : connections[j].conn # connections[i].conn
    BY <1>6 DEF PoolInv, Exclusive, Distinct
  <2>3. \A d \in works' : d = connections[i].conn \/ (d \in works /\ d # connections[i].conn)
    BY <1>6
  <2> QED BY <1>0, <1>1, <1>2, <1>6, <2>1, <2>2, <2>3, ReturnKept
<1>7. CASE /\ i \in Slots /\ ~connections[i].busy
           /\ connections[i].conn \notin works
           /\ connections' = [connections EXCEPT ![i] = [conn |-> Fresh, busy |-> TRUE]]
           /\ works' = works \cup {Fresh}
           /\ Return(t, Fresh)
  <2>1. /\ Fresh \in Connection
        /\ \A j \in Slots : connections[j].conn # Fresh
        /\ \A u \in Thread : local[u] # Fresh
    BY <1>0, FreshType
  <2>2. /\ connections' \in Seq(Pooled) /\ Len(connections') = Len(connections)
        /\ Slots' = Slots
        /\ connections'[i].conn = Fresh /\ connections'[i].busy
        /\ \A j \in Slots \ {i} : connections'[j] = connections[j]
    BY <1>0, <1>7, <2>1, PutType
  <2>3. /\ works' \subseteq Connection
        /\ \A d \in works' : d = Fresh \/ (d \in works /\ d # connections[i].conn)
    BY <1>2, <1>7, <2>1
  <2>4. i \in Slots /\ Return(t, Fresh)
    BY <1>7
  <2>5. \A j \in Slots \ {i} : connections[j].conn # Fresh
    BY <2>1
  <2> HIDE DEF i
  <2> QED BY <1>0, <2>1, <2>2, <2>3, <2>4, <2>5, ReturnKept
<1>8. CASE /\ i \in Slots /\ ~connections[i].busy
           /\ connections' = [connections EXCEPT ![i].busy = TRUE]
           /\ NotFound(t)
           /\ UNCHANGED works
  <2>1. /\ connections' \in Seq(Pooled) /\ Len(connections') = Len(connections)
        /\ Slots' = Slots
        /\ connections'[i].conn = connections[i].conn /\ connections'[i].busy
        /\ \A j \in Slots \ {i} : connections'[j] = connections[j]
    BY <1>0, <1>8, FlagType
  <2>2. PICK l \in Inside \ Special, p \in Places : l \in Labels /\ Go(t, l, p)
    BY <1>3, <1>8
  <2>3. UNCHANGED <<lock, local>>
    BY <1>3, <1>8
  <2>4. /\ TypeOK' /\ Locked' /\ AtPlace'
        /\ pc'[t] = l /\ \A u \in Thread \ {t} : pc'[u] = pc[u]
    BY <1>0, <1>2, <1>8, <2>1, <2>2, <2>3, InsideKept
  <2>5. \A u \in Thread : Holds(u)' => Holds(u) /\ local'[u] = local[u]
    BY <1>0, <2>3, <2>4 DEF Holds
  <2>6. Distinct' /\ NoneLost'
    BY <1>8, <2>1 DEF PoolInv, Distinct, NoneLost
  <2>7. Exclusive'
    BY <1>0, <2>1, <2>5 DEF PoolInv, Exclusive
  <2> QED BY <2>4, <2>6, <2>7 DEF PoolInv
<1> QED BY <1>4, <1>5, <1>6, <1>7, <1>8 DEF FindFreeConnection

\* createConnections.
LEMMA CreateKept ==
  ASSUME PoolInv, NEW t \in Thread, CreateConnections(t)
  PROVE  PoolInv'
<1>0. /\ TypeOK /\ UNCHANGED <<dbUp, lock, goal, local, faults, strayed>>
      /\ goal \in [Thread -> {"use", "release"}] /\ works \subseteq Connection /\ pos[t] \in Places
      /\ local \in [Thread -> Connection \cup {None}]
      /\ pc[t] = "create" /\ pc[t] \in Inside /\ lock = {t}
  BY Alone DEF PoolInv, CreateConnections, TypeOK, Places, Inside
<1>1. PICK l \in Inside \ Special, p \in Places : l \in Labels /\ Go(t, l, p)
  <2>1. pos[t] > 0 => pos[t] - 1 \in Places
    BY <1>0, Numbers DEF Places
  <2> QED BY <2>1, Numbers DEF CreateConnections, Labels, Inside, Special
<1>2. CASE UNCHANGED <<connections, works>>
  BY <1>0, <1>1, <1>2, GoKept
<1>3. CASE /\ Len(connections) < Max
           /\ connections' = Append(connections, [conn |-> Fresh, busy |-> FALSE])
           /\ works' = works \cup {Fresh}
  <2> DEFINE n == Len(connections)
  <2>1. /\ Fresh \in Connection
        /\ \A j \in Slots : connections[j].conn # Fresh
        /\ \A u \in Thread : local[u] # Fresh
    BY <1>0, FreshType
  <2>2. n \in Nat /\ Slots = 1..n /\ connections \in Seq(Pooled)
    BY <1>0, SlotsType DEF TypeOK
  <2>3. /\ connections' \in Seq(Pooled) /\ Len(connections') = n + 1
        /\ \A j \in 1..n : connections'[j] = connections[j]
        /\ connections'[n + 1] = [conn |-> Fresh, busy |-> FALSE]
    <3>1. [conn |-> Fresh, busy |-> FALSE] \in Pooled
      BY <2>1 DEF Pooled
    <3> QED BY <1>3, <2>2, <3>1, AppendProperties
  <2>4. Slots' = Slots \cup {n + 1} /\ n + 1 \notin Slots /\ n + 1 <= Max
    <3>1. Slots' = 1..(n + 1)
      BY <2>3, LenProperties DEF Slots
    <3> QED BY <1>3, <2>2, <3>1, Numbers
  <2>5. /\ Slots \subseteq Slots' /\ Len(connections') <= Max /\ works' \subseteq Connection
    BY <1>0, <1>3, <2>1, <2>3, <2>4
  <2>6. /\ TypeOK' /\ Locked' /\ AtPlace'
        /\ pc'[t] = l /\ \A u \in Thread \ {t} : pc'[u] = pc[u]
    BY <1>0, <1>1, <2>3, <2>5, InsideKept
  <2>7. /\ \A j \in Slots : connections'[j] = connections[j]
        /\ connections'[n + 1].conn = Fresh
    BY <2>2, <2>3
  <2>8. Distinct'
    BY <2>1, <2>4, <2>7 DEF PoolInv, Distinct
  <2>9. Exclusive'
    <3>1. \A u \in Thread : Holds(u)' => Holds(u)
      BY <1>0, <2>6 DEF Holds
    <3> QED BY <1>0, <2>1, <2>4, <2>7, <3>1 DEF PoolInv, Exclusive
  <2>11. NoneLost'
    BY <1>3, <2>4, <2>7 DEF PoolInv, NoneLost
  <2> QED BY <2>6, <2>8, <2>9, <2>11 DEF PoolInv
<1> QED BY <1>2, <1>3 DEF CreateConnections

\* refreshConnections: the connection of a place is closed ...
LEMMA RefreshKept ==
  ASSUME PoolInv, NEW t \in Thread, RefreshConnections(t)
  PROVE  PoolInv'
<1> DEFINE i == pos[t]
<1>0. /\ TypeOK /\ UNCHANGED <<connections, dbUp, lock, goal, local, faults, strayed>>
      /\ goal \in [Thread -> {"use", "release"}] /\ works \subseteq Connection
      /\ local \in [Thread -> Connection \cup {None}]
      /\ connections \in Seq(Pooled) /\ Len(connections) <= Max
      /\ pc[t] = "refresh" /\ pc[t] \in Inside /\ lock = {t}
  BY Alone DEF PoolInv, RefreshConnections, TypeOK, Inside
<1>1. CASE Go(t, "findAgain", 1) /\ UNCHANGED works
  <2>1. "findAgain" \in Labels \ Special /\ 1 \in Places
    BY Numbers DEF Labels, Special
  <2> QED BY <1>0, <1>1, <2>1, GoKept
<1>2. CASE /\ i \in Slots
           /\ works' = works \ {connections[i].conn}
           /\ Go(t, "replace", i)
  <2>1. "replace" \in Labels /\ "replace" \in Inside /\ i \in Places /\ Slots' = Slots
    BY <1>0, <1>2, SlotsType, Numbers DEF Labels, Inside, Slots
  <2>2. /\ i \in Slots' /\ connections'[i].conn \notin works' /\ works' \subseteq Connection
        /\ works' \subseteq works
    BY <1>0, <1>2, <2>1
  <2>3. /\ TypeOK' /\ Locked' /\ AtPlace'
        /\ pc'[t] = "replace" /\ \A u \in Thread \ {t} : pc'[u] = pc[u]
    BY <1>0, <1>2, <2>1, <2>2, InsideKept
  <2>4. \A u \in Thread : Holds(u)' => Holds(u) /\ local'[u] = local[u]
    BY <1>0, <2>3 DEF Holds
  <2> QED BY <1>0, <2>2, <2>3, <2>4, InvKept
<1> QED BY <1>1, <1>2 DEF RefreshConnections

\* ... replaced ...
LEMMA ReplaceKept ==
  ASSUME PoolInv, NEW t \in Thread, ReplaceConnection(t)
  PROVE  PoolInv'
<1> DEFINE i == pos[t]
<1>0. /\ TypeOK /\ UNCHANGED <<dbUp, lock, goal, local, faults, strayed>>
      /\ goal \in [Thread -> {"use", "release"}] /\ works \subseteq Connection
      /\ local \in [Thread -> Connection \cup {None}] /\ Len(connections) <= Max
      /\ pc[t] = "replace" /\ pc[t] \in Inside /\ lock = {t}
  BY Alone DEF PoolInv, ReplaceConnection, TypeOK, Inside
<1>1. i \in Slots /\ connections[i].conn \notin works
  BY <1>0 DEF PoolInv, AtPlace
<1>2. CASE Go(t, "findAgain", 1) /\ UNCHANGED <<connections, works>>
  <2>1. "findAgain" \in Labels \ Special /\ 1 \in Places
    BY Numbers DEF Labels, Special
  <2> QED BY <1>0, <1>2, <2>1, GoKept
<1>3. CASE /\ connections' = [connections EXCEPT ![i].conn = Fresh]
           /\ works' = works \cup {Fresh}
           /\ Go(t, "unbusy", i)
  <2>1. /\ Fresh \in Connection
        /\ \A j \in Slots : connections[j].conn # Fresh
        /\ \A u \in Thread : local[u] # Fresh
    BY <1>0, FreshType
  <2>2. /\ connections' \in Seq(Pooled) /\ Len(connections') = Len(connections)
        /\ Slots' = Slots
        /\ connections'[i].conn = Fresh
        /\ \A j \in Slots \ {i} : connections'[j] = connections[j]
    BY <1>0, <1>1, <1>3, <2>1, ConnType
  <2>3. /\ "unbusy" \in Labels /\ "unbusy" \in Inside /\ i \in Places
        /\ works' \subseteq Connection /\ Len(connections') <= Max
    BY <1>0, <1>1, <1>3, <2>1, <2>2, SlotsType, Numbers DEF Labels, Inside
  <2>4. \A v \in Thread : local'[v] # connections'[i].conn
    BY <1>0, <2>1, <2>2
  <2>5. i \in Slots' /\ Slots \subseteq Slots' /\ Go(t, "unbusy", i)
    BY <1>1, <1>3, <2>2
  <2>6. /\ TypeOK' /\ Locked' /\ AtPlace'
        /\ pc'[t] = "unbusy" /\ \A u \in Thread \ {t} : pc'[u] = pc[u]
    <3> HIDE DEF i
    <3> QED BY <1>0, <2>2, <2>3, <2>4, <2>5, InsideKept
  <2>7. \A u \in Thread : Holds(u)' => Holds(u)
    BY <1>0, <2>6 DEF Holds
  <2>8. Distinct' /\ Exclusive'
    BY <1>0, <2>1, <2>2, <2>7 DEF PoolInv, Distinct, Exclusive
  <2>9. NoneLost'
    <3> SUFFICES ASSUME NEW d \in works'
                 PROVE  \E j \in Slots : connections'[j].conn = d
      BY <2>2 DEF NoneLost
    <3>1. CASE d = Fresh
      BY <1>1, <2>2, <3>1
    <3>2. CASE d \in works
      BY <1>1, <2>2, <3>2 DEF PoolInv, NoneLost
    <3> QED BY <1>3, <3>1, <3>2
  <2> QED BY <2>6, <2>8, <2>9 DEF PoolInv
<1> QED BY <1>2, <1>3 DEF ReplaceConnection

\* ... and set free.
LEMMA FreeKept ==
  ASSUME PoolInv, NEW t \in Thread, FreeRefreshed(t)
  PROVE  PoolInv'
<1> DEFINE i == pos[t]
<1>0. /\ TypeOK /\ UNCHANGED <<works, dbUp, lock, goal, local, faults, strayed>>
      /\ goal \in [Thread -> {"use", "release"}] /\ works \subseteq Connection
      /\ local \in [Thread -> Connection \cup {None}] /\ Len(connections) <= Max
      /\ pc[t] = "unbusy" /\ pc[t] \in Inside /\ lock = {t}
      /\ Go(t, "refresh", i + 1)
  BY Alone DEF PoolInv, FreeRefreshed, TypeOK, Inside
<1>1. i \in Slots /\ \A u \in Thread : local[u] # connections[i].conn
  BY <1>0 DEF PoolInv, AtPlace
<1>2. /\ connections' \in Seq(Pooled) /\ Len(connections') = Len(connections)
      /\ Slots' = Slots
      /\ connections'[i].conn = connections[i].conn
      /\ \A j \in Slots \ {i} : connections'[j] = connections[j]
  BY <1>0, <1>1, FlagType DEF FreeRefreshed
<1>3. /\ "refresh" \in Labels /\ "refresh" \in Inside /\ "refresh" \notin Special
      /\ i + 1 \in Places
  BY <1>0, <1>1, SlotsType, Numbers DEF Labels, Inside, Special
<1>4. /\ TypeOK' /\ Locked' /\ AtPlace'
      /\ pc'[t] = "refresh" /\ \A u \in Thread \ {t} : pc'[u] = pc[u]
  BY <1>0, <1>2, <1>3, InsideKept
<1>5. \A u \in Thread : Holds(u)' => Holds(u)
  BY <1>0, <1>4 DEF Holds
<1>6. Distinct' /\ NoneLost'
  BY <1>0, <1>2 DEF PoolInv, Distinct, NoneLost
<1>7. Exclusive'
  BY <1>0, <1>1, <1>2, <1>5 DEF PoolInv, Exclusive
<1> QED BY <1>4, <1>6, <1>7 DEF PoolInv

\* The unsynchronised releaseConnection: its comparison ...
LEMMA MatchKept ==
  ASSUME PoolInv, NEW t \in Thread, MatchConnection(t)
  PROVE  PoolInv'
<1>0. TypeOK /\ UNCHANGED <<connections, dbUp, lock, goal, local, faults, strayed>> /\ pc[t] = "match"
  BY DEF PoolInv, MatchConnection
<1>1. ASSUME NEW i \in Slots, Go(t, "free", i), UNCHANGED works
      PROVE  PoolInv'
  <2>1. i \in Places
    BY <1>0, SlotsType, Numbers
  <2>2. /\ pc' \in [Thread -> Labels] /\ pos' \in [Thread -> Places]
        /\ pc'[t] = "free" /\ pos'[t] = i
        /\ \A u \in Thread \ {t} : pc'[u] = pc[u] /\ pos'[u] = pos[u]
    BY <1>0, <1>1, <2>1, GoType DEF Labels
  <2>3. TypeOK'
    BY <1>0, <1>1, <2>2 DEF TypeOK, Labels, Places
  <2>4. Locked'
    BY <1>0, <2>2 DEF PoolInv, Locked, Inside
  <2>5. AtPlace'
    BY <1>0, <1>1, <2>2 DEF PoolInv, AtPlace, Slots
  <2>6. \A u \in Thread : Holds(u)' => Holds(u) /\ local'[u] = local[u]
    BY <1>0, <2>2 DEF Holds
  <2> QED BY <1>0, <1>1, <2>3, <2>4, <2>5, <2>6, InvKept
<1>2. CASE works' = works \ {local[t]} /\ Go(t, "clear", 0)
  <2>1. "clear" \in Labels \ Special /\ "clear" \notin Inside /\ 0 \in Places
    BY Numbers DEF Labels, Special, Inside
  <2>2. goal' \in [Thread -> {"use", "release"}]
    BY <1>0 DEF TypeOK
  <2> QED BY <1>0, <1>2, <2>1, <2>2, GoKept
<1> QED BY <1>1, <1>2 DEF MatchConnection

\* ... and its assignment: either it strays, or the place still holds the
\* connection of the thread.
LEMMA ReleaseKept ==
  ASSUME PoolInv, NEW t \in Thread, ReleaseConnection(t)
  PROVE  PoolInv'
<1> DEFINE i == pos[t]
<1>0. /\ TypeOK /\ UNCHANGED <<works, dbUp, lock, goal, local, faults>> /\ pc[t] = "free"
      /\ Go(t, "clear", 0)
  BY DEF PoolInv, ReleaseConnection
<1>1. i \in Slots
  BY <1>0 DEF PoolInv, AtPlace
<1>2. strayed' \in BOOLEAN /\ (~strayed' => ~strayed /\ connections[i].conn = local[t])
  BY <1>0 DEF ReleaseConnection, TypeOK
<1>3. /\ connections' \in Seq(Pooled) /\ Len(connections') = Len(connections)
      /\ Slots' = Slots
      /\ connections'[i].conn = connections[i].conn
      /\ \A j \in Slots \ {i} : connections'[j] = connections[j]
  BY <1>0, <1>1, FlagType DEF ReleaseConnection
<1>4. /\ pc' \in [Thread -> Labels] /\ pos' \in [Thread -> Places] /\ pc'[t] = "clear"
      /\ \A u \in Thread \ {t} : pc'[u] = pc[u] /\ pos'[u] = pos[u]
  BY <1>0, GoType, Numbers DEF Labels
<1>5. TypeOK'
  BY <1>0, <1>2, <1>3, <1>4 DEF TypeOK, Labels, Places
<1>6. Locked'
  BY <1>0, <1>4 DEF PoolInv, Locked, Inside
<1>7. \A j \in Slots : connections'[j].conn = connections[j].conn
  BY <1>3
<1>8. AtPlace'
  BY <1>0, <1>3, <1>4, <1>7 DEF PoolInv, AtPlace
<1>9. Distinct' /\ NoneLost'
  BY <1>0, <1>3, <1>7 DEF PoolInv, Distinct, NoneLost
<1>10. Exclusive'
  <2> SUFFICES ASSUME ~strayed'
               PROVE  /\ \A u, v \in Thread : u # v /\ Holds(u)' /\ Holds(v)' => local'[u] # local'[v]
                      /\ \A u \in Thread, j \in Slots :
                           ~connections'[j].busy /\ Holds(u)' => local'[u] # connections'[j].conn
    BY <1>3 DEF Exclusive
  <2>1. ~strayed /\ connections[i].conn = local[t] /\ Holds(t)
    BY <1>0, <1>1, <1>2, SlotsType, Numbers DEF Holds
  <2>2. \A u \in Thread : Holds(u)' => u # t /\ Holds(u) /\ local'[u] = local[u]
    BY <1>0, <1>4 DEF Holds
  <2>3. \A u, v \in Thread : u # v /\ Holds(u)' /\ Holds(v)' => local'[u] # local'[v]
    BY <2>1, <2>2 DEF PoolInv, Exclusive
  <2>4. ASSUME NEW u \in Thread, NEW j \in Slots, ~connections'[j].busy, Holds(u)'
        PROVE  local'[u] # connections'[j].conn
    <3>1. CASE j = i
      BY <1>7, <2>1, <2>2, <2>4, <3>1 DEF PoolInv, Exclusive
    <3>2. CASE j # i
      BY <1>3, <2>1, <2>2, <2>4, <3>2 DEF PoolInv, Exclusive
    <3> QED BY <3>1, <3>2
  <2> QED BY <2>3, <2>4
<1> QED BY <1>5, <1>6, <1>8, <1>9, <1>10 DEF PoolInv

\* closeConnection ends.
LEMMA ClearKept ==
  ASSUME PoolInv, NEW t \in Thread, Clear(t)
  PROVE  PoolInv'
<1>0. /\ TypeOK /\ UNCHANGED <<connections, works, dbUp, lock, faults, strayed>>
      /\ pc[t] = "clear" /\ Go(t, "idle", 0)
  BY DEF PoolInv, Clear
<1>1. /\ pc' \in [Thread -> Labels] /\ pos' \in [Thread -> Places] /\ pc'[t] = "idle"
      /\ \A u \in Thread \ {t} : pc'[u] = pc[u] /\ pos'[u] = pos[u]
  BY <1>0, GoType, Numbers DEF Labels
<1>2. /\ local' \in [Thread -> Connection \cup {None}] /\ local'[t] = None
      /\ \A u \in Thread \ {t} : local'[u] = local[u]
      /\ goal' \in [Thread -> {"use", "release"}]
  BY <1>0 DEF Clear, TypeOK
<1>3. TypeOK'
  BY <1>0, <1>1, <1>2 DEF TypeOK, Labels, Places
<1>4. Locked'
  BY <1>0, <1>1 DEF PoolInv, Locked, Inside
<1>5. UNCHANGED Slots /\ \A i \in Slots : connections[i].conn # None
  BY <1>0, SlotsType, Numbers DEF Slots
<1>6. AtPlace'
  BY <1>0, <1>1, <1>2, <1>5 DEF PoolInv, AtPlace
<1>7. \A u \in Thread : Holds(u)' => Holds(u) /\ local'[u] = local[u]
  BY <1>0, <1>1, <1>2 DEF Holds
<1> QED BY <1>0, <1>3, <1>4, <1>6, <1>7, InvKept

\* The database.
LEMMA DatabaseKept ==
  ASSUME PoolInv, Down \/ Up \/ \E c \in Connection : Drop(c)
  PROVE  PoolInv'
<1>1. /\ UNCHANGED <<connections, lock, pc, pos, goal, local, strayed>> /\ works' \subseteq works
      /\ TypeOK
  BY DEF Down, Up, Drop, PoolInv, TypeOK
<1>2. faults' \in 0..MaxFaults /\ dbUp' \in BOOLEAN
  <2>1. faults' \in 0..MaxFaults
    BY PoolAssumption DEF Down, Up, Drop, PoolInv, TypeOK
  <2>2. dbUp' \in BOOLEAN
    BY Zenon DEF Down, Up, Drop, PoolInv, TypeOK
  <2> QED BY <2>1, <2>2
<1>3. TypeOK'
  BY <1>1, <1>2 DEF TypeOK
<1>4. Locked' /\ AtPlace'
  BY <1>1 DEF PoolInv, Locked, AtPlace, Slots
<1>5. \A u \in Thread : Holds(u)' => Holds(u) /\ local'[u] = local[u]
  BY <1>1 DEF Holds
<1> QED BY <1>1, <1>3, <1>4, <1>5, InvKept

\* Initially nobody has a connection.
LEMMA InitPool == Init => PoolInv
<1> SUFFICES ASSUME Init PROVE PoolInv
  OBVIOUS
<1> DEFINE n == IF dbUp THEN Initial ELSE 0
<1>1. n \in Nat /\ n <= Max /\ connections = [i \in 1..n |-> [conn |-> i, busy |-> FALSE]]
      /\ works \subseteq 1..n
  BY PoolAssumption DEF Init
<1>2. \A i \in 1..n : i \in Connection
  BY <1>1, Numbers DEF Connection
<1>3. connections \in [1..n -> Pooled]
  BY <1>1, <1>2 DEF Pooled
<1>4. connections \in Seq(Pooled) /\ Len(connections) = n
  BY <1>1, <1>3
<1>5. Slots = 1..n /\ \A i \in Slots : connections[i].conn = i
  BY <1>1 DEF Slots
<1>6. TypeOK
  <2>1. strayed \in BOOLEAN /\ dbUp \in BOOLEAN
    BY DEF Init
  <2> QED BY <1>1, <1>2, <1>4, <2>1, FS_EmptySet, PoolAssumption DEF Init, TypeOK
<1>7. Distinct /\ NoneLost
  BY <1>1, <1>5 DEF Distinct, NoneLost
<1>8. Exclusive
  BY DEF Init, Exclusive, Holds
<1>9. Locked /\ AtPlace
  BY DEF Init, Locked, AtPlace, Inside
<1> QED BY <1>6, <1>7, <1>8, <1>9 DEF PoolInv

-----------------------------------------------------------------------------
(* The results. *)

\* The invariant of the pool.
THEOREM Invariant == Spec => []PoolInv
<1>1. PoolInv /\ [Next]_vars => PoolInv'
  <2> SUFFICES ASSUME PoolInv, [Next]_vars PROVE PoolInv'
    OBVIOUS
  <2>1. CASE UNCHANGED vars
    BY <2>1 DEF vars, PoolInv, TypeOK, Distinct, Locked, AtPlace, Exclusive, Holds, NoneLost, Slots
  <2>2. ASSUME NEW t \in Thread, Begin(t) \/ Enter(t) \/ TestConnection(t) \/ Finish(t) \/ Keep(t)
        PROVE  PoolInv'
    <3>1. /\ \E l \in Labels \ Special, i \in Places : Go(t, l, i) /\ (l \in Inside => lock' = {t})
          /\ UNCHANGED <<connections, works, dbUp, local, faults, strayed>> /\ lock' \in {lock, {t}}
          /\ lock' # lock => lock = {}
          /\ pc[t] # "clear"
      BY <2>2, Numbers DEF Begin, Enter, TestConnection, Finish, Keep, Purpose, Labels, Special,
         Inside
    <3>2. goal' \in [Thread -> {"use", "release"}]
      BY <2>2 DEF Begin, Enter, TestConnection, Finish, Keep, PoolInv, TypeOK
    <3> QED BY <3>1, <3>2, GoKept
  <2>3. ASSUME NEW t \in Thread,
               \/ FindFreeConnection(t) \/ CreateConnections(t) \/ RefreshConnections(t)
               \/ ReplaceConnection(t) \/ FreeRefreshed(t)
               \/ MatchConnection(t) \/ ReleaseConnection(t) \/ Clear(t)
        PROVE  PoolInv'
    BY <2>3, FindKept, CreateKept, RefreshKept, ReplaceKept, FreeKept, MatchKept, ReleaseKept,
       ClearKept
  <2> QED BY <2>1, <2>2, <2>3, DatabaseKept DEF Next, Get, Release
<1> QED BY <1>1, InitPool, PTL DEF Spec

\* TypeOK always holds: in particular the pool never grows beyond
\* maxConnections.
THEOREM TypeCorrect == Spec => []TypeOK
<1>1. PoolInv => TypeOK
  BY DEF PoolInv
<1> QED BY <1>1, Invariant, PTL

\* Exclusive always holds: unless releaseConnection sets the flag of a place
\* that was replaced after its comparison, getConnection and releaseConnection
\* give no thread the connection of another.
THEOREM NoSharing == Spec => []Exclusive
<1>1. PoolInv => Exclusive
  BY DEF PoolInv
<1> QED BY <1>1, Invariant, PTL

\* NoneLost always holds: every connection that works is in the pool.
THEOREM NoLeak == Spec => []NoneLost
<1>1. PoolInv => NoneLost
  BY DEF PoolInv
<1> QED BY <1>1, Invariant, PTL

=============================================================================
