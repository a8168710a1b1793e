--------------------------- MODULE ElectionProofs ---------------------------
(***************************************************************************)
(* Proofs about Election.  First, for any number of processes of either    *)
(* kind and any trouble: types, sessions and what a thread at work has     *)
(* still to do (Base).  Then, as long as all is calm, the roles that two   *)
(* engines have, which OneMaster follows from (Roles).                     *)
(***************************************************************************)
EXTENDS Election, FunctionTheorems, FiniteSetTheorems, SequenceTheorems, TLAPS

\* The watchers that a process may set.
Used == {<<"master", "node">>, <<"slave", "node">>, <<SwitchPath, "switch">>}

\* The three steps of createZNode.
Sets == {"exists", "setData", "create"}

WatchMaster == <<"watch", <<"master", "node">>>>
WatchSlave  == <<"watch", <<"slave", "node">>>>
WatchSwitch == <<"watch", <<SwitchPath, "switch">>>>
DeleteSlave == <<"delete", "slave">>
SetFlag     == <<"flag">>
StartServe  == <<"serve">>
StopServe   == <<"unserve">>
CloseConn   == <<"close">>

\* What is left of initialize, as master and as slave (S: engine, R: executor),
\* of upgradeToMaster and of close.
M4(o) == << <<o, "master">>, WatchMaster, SetFlag, StartServe >>
M3    == <<WatchMaster, SetFlag, StartServe>>
M2    == <<SetFlag, StartServe>>
M1    == <<StartServe>>
S3(o) == << <<o, "slave">>, WatchSlave, WatchSwitch >>
S2    == <<WatchSlave, WatchSwitch>>
S1    == <<WatchSwitch>>
R4(o) == << <<o, "slave">>, WatchSlave, WatchSwitch, StartServe >>
R3    == <<WatchSlave, WatchSwitch, StartServe>>
R2    == <<WatchSwitch, StartServe>>
U5    == <<StartServe, <<"exists", "master">>, WatchMaster, DeleteSlave, SetFlag>>
U4(o) == << <<o, "master">>, WatchMaster, DeleteSlave, SetFlag >>
U3    == <<WatchMaster, DeleteSlave, SetFlag>>
U2    == <<DeleteSlave, SetFlag>>
U1    == <<SetFlag>>
C2    == <<StopServe, CloseConn>>
C1    == <<CloseConn>>
X1    == <<StopServe>>

MasterLists  == {M4(o) : o \in Sets} \cup {M3, M2, M1}
SlaveLists   == IF Kind = "engine" THEN {S3(o) : o \in Sets} \cup {S2, S1}
                                   ELSE {R4(o) : o \in Sets} \cup {R3, R2, M1}
UpgradeLists == {U5} \cup {U4(o) : o \in Sets} \cup {U3, U2, U1}
CloseLists   == IF Kind = "engine" THEN {C2, C1} ELSE {X1}

\* The requests of a process that recovers.
Recovery == (Sets \X Path) \cup ({"renew", "watch"} \X Used)

\* A thread with task t may have l to do.
Listed(t, l) ==
  \/ t = "idle" /\ l = <<>>
  \/ t = "init" /\ l \in MasterLists \cup SlaveLists
  \/ t = "upgrade" /\ l \in UpgradeLists
  \/ t = "close" /\ l \in CloseLists
  \/ t = "recover" /\ l \in Seq(Recovery) /\ l # <<>>

\* Every thread is somewhere in one of the methods, and a process that
\* recovers is connected.
Lists ==
  \A n \in Node :
    /\ Listed(task[n], todo[n])
    /\ n \notin up => task[n] = "idle"
    /\ task[n] = "recover" => Connected(n)
    /\ watches[n] \subseteq Used

Lost == {n \in up : ~Connected(n)}

\* Sessions are not shared, znodes belong to sessions that have not ended, and
\* there is a session left for every process that has lost its own.
Sessions ==
  /\ live \subseteq 1..count
  /\ \A n \in up : session[n] \in 1..count
  /\ \A n, m \in up : session[n] = session[m] => n = m
  /\ \A p \in Path : owner[p] = 0 \/ owner[p] \in live
  /\ count + Cardinality(Lost) <= MaxSession

Base == TypeOK /\ Sessions /\ Lists

-----------------------------------------------------------------------------
(* Lists of requests. *)

\* The first request and the others.
LEMMA Tuples ==
  /\ \A a : Head(<<a>>) = a /\ Tail(<<a>>) = <<>> /\ <<a>> # <<>>
  /\ \A a, b : Head(<<a, b>>) = a /\ Tail(<<a, b>>) = <<b>> /\ <<a, b>> # <<>>
  /\ \A a, b, c :
       Head(<<a, b, c>>) = a /\ Tail(<<a, b, c>>) = <<b, c>> /\ <<a, b, c>> # <<>>
  /\ \A a, b, c, d :
       /\ Head(<<a, b, c, d>>) = a /\ Tail(<<a, b, c, d>>) = <<b, c, d>>
       /\ <<a, b, c, d>> # <<>>
  /\ \A a, b, c, d, e :
       /\ Head(<<a, b, c, d, e>>) = a /\ Tail(<<a, b, c, d, e>>) = <<b, c, d, e>>
       /\ <<a, b, c, d, e>> # <<>>
<1>1. \A a : Head(<<a>>) = a /\ Tail(<<a>>) = <<>> /\ <<a>> # <<>>
  OBVIOUS
<1>2. \A a, b : Head(<<a, b>>) = a /\ Tail(<<a, b>>) = <<b>> /\ <<a, b>> # <<>>
  OBVIOUS
<1>3. \A a, b, c :
        Head(<<a, b, c>>) = a /\ Tail(<<a, b, c>>) = <<b, c>> /\ <<a, b, c>> # <<>>
  OBVIOUS
<1>4. \A a, b, c, d :
        /\ Head(<<a, b, c, d>>) = a /\ Tail(<<a, b, c, d>>) = <<b, c, d>>
        /\ <<a, b, c, d>> # <<>>
  OBVIOUS
<1>5. \A a, b, c, d, e :
        /\ Head(<<a, b, c, d, e>>) = a /\ Tail(<<a, b, c, d, e>>) = <<b, c, d, e>>
        /\ <<a, b, c, d, e>> # <<>>
  OBVIOUS
<1> QED BY <1>1, <1>2, <1>3, <1>4, <1>5

\* A list that has the elements of one, then those of the other.
LEMMA Joined ==
  ASSUME NEW S, NEW s \in Seq(S), NEW t \in Seq(S), NEW u \in Seq(S),
         Len(u) = Len(s) + Len(t),
         \A i \in 1..Len(s) : u[i] = s[i],
         \A i \in 1..Len(t) : u[i + Len(s)] = t[i]
  PROVE  s \o t = u
<1>1. /\ Len(s) \in Nat /\ Len(t) \in Nat
      /\ s \o t \in Seq(S) /\ Len(s \o t) = Len(u)
      /\ \A i \in 1..Len(u) : (s \o t)[i] = IF i <= Len(s) THEN s[i] ELSE t[i - Len(s)]
  BY ConcatProperties, LenProperties
<1>2. \A i \in 1..Len(u) : (s \o t)[i] = u[i]
  <2> SUFFICES ASSUME NEW i \in 1..Len(u) PROVE (s \o t)[i] = u[i]
    OBVIOUS
  <2>1. CASE i <= Len(s)
    BY <1>1, <2>1
  <2>2. CASE ~(i <= Len(s))
    <3>1. i - Len(s) \in 1..Len(t) /\ (i - Len(s)) + Len(s) = i
      BY <1>1, <2>2
    <3> QED BY <1>1, <2>2, <3>1
  <2> QED BY <2>1, <2>2
<1> QED BY <1>1, <1>2, SeqEqual

\* The concatenations of the model.
LEMMA Concatenations ==
  /\ \A a, b : <<a>> \o <<b>> = <<a, b>>
  /\ \A a, b, c : <<a>> \o <<b, c>> = <<a, b, c>>
  /\ \A a, b, c, d : <<a>> \o <<b, c, d>> = <<a, b, c, d>>
  /\ \A a, b, c, d : <<a, b>> \o <<c, d>> = <<a, b, c, d>>
  /\ \A a, b, c, d : <<a, b, c>> \o <<d>> = <<a, b, c, d>>
  /\ \A a, b, c, d, e : <<a, b, c>> \o <<d, e>> = <<a, b, c, d, e>>
<1>1. \A a, b : <<a>> \o <<b>> = <<a, b>>
  <2> TAKE a, b
  <2> DEFINE S == {a, b}
             s == <<a>>
             t == <<b>>
             u == <<a, b>>
  <2>1. s \in Seq(S) /\ t \in Seq(S) /\ u \in Seq(S)
    OBVIOUS
  <2>2. Len(s) = 1 /\ Len(t) = 1 /\ Len(u) = 2
    OBVIOUS
  <2>3. \A i \in 1..1 : u[i] = s[i]
    OBVIOUS
  <2>4. \A i \in 1..1 : u[i + 1] = t[i]
    OBVIOUS
  <2> HIDE DEF S, s, t, u
  <2>5. /\ Len(u) = Len(s) + Len(t)
        /\ \A i \in 1..Len(s) : u[i] = s[i]
        /\ \A i \in 1..Len(t) : u[i + Len(s)] = t[i]
    BY <2>2, <2>3, <2>4
  <2>6. s \o t = u
    BY <2>1, <2>5, Joined, Zenon
  <2> QED BY <2>6 DEF s, t, u
<1>2. \A a, b, c : <<a>> \o <<b, c>> = <<a, b, c>>
  <2> TAKE a, b, c
  <2> DEFINE S == {a, b, c}
             s == <<a>>
             t == <<b, c>>
             u == <<a, b, c>>
  <2>1. s \in Seq(S) /\ t \in Seq(S) /\ u \in Seq(S)
    OBVIOUS
  <2>2. Len(s) = 1 /\ Len(t) = 2 /\ Len(u) = 3
    OBVIOUS
  <2>3. \A i \in 1..1 : u[i] = s[i]
    OBVIOUS
  <2>4. \A i \in 1..2 : u[i + 1] = t[i]
    OBVIOUS
  <2> HIDE DEF S, s, t, u
  <2>5. /\ Len(u) = Len(s) + Len(t)
        /\ \A i \in 1..Len(s) : u[i] = s[i]
        /\ \A i \in 1..Len(t) : u[i + Len(s)] = t[i]
    BY <2>2, <2>3, <2>4
  <2>6. s \o t = u
    BY <2>1, <2>5, Joined, Zenon
  <2> QED BY <2>6 DEF s, t, u
<1>3. \A a, b, c, d : <<a>> \o <<b, c, d>> = <<a, b, c, d>>
  <2> TAKE a, b, c, d
  <2> DEFINE S == {a, b, c, d}
             s == <<a>>
             t == <<b, c, d>>
             u == <<a, b, c, d>>
  <2>1. s \in Seq(S) /\ t \in Seq(S) /\ u \in Seq(S)
    OBVIOUS
  <2>2. Len(s) = 1 /\ Len(t) = 3 /\ Len(u) = 4
    OBVIOUS
  <2>3. \A i \in 1..1 : u[i] = s[i]
    OBVIOUS
  <2>4. \A i \in 1..3 : u[i + 1] = t[i]
    OBVIOUS
  <2> HIDE DEF S, s, t, u
  <2>5. /\ Len(u) = Len(s) + Len(t)
        /\ \A i \in 1..Len(s) : u[i] = s[i]
        /\ \A i \in 1..Len(t) : u[i + Len(s)] = t[i]
    BY <2>2, <2>3, <2>4
  <2>6. s \o t = u
    BY <2>1, <2>5, Joined, Zenon
  <2> QED BY <2>6 DEF s, t, u
<1>4. \A a, b, c, d : <<a, b>> \o <<c, d>> = <<a, b, c, d>>
  <2> TAKE a, b, c, d
  <2> DEFINE S == {a, b, c, d}
             s == <<a, b>>
             t == <<c, d>>
             u == <<a, b, c, d>>
  <2>1. s \in Seq(S) /\ t \in Seq(S) /\ u \in Seq(S)
    OBVIOUS
  <2>2. Len(s) = 2 /\ Len(t) = 2 /\ Len(u) = 4
    OBVIOUS
  <2>3. \A i \in 1..2 : u[i] = s[i]
    OBVIOUS
  <2>4. \A i \in 1..2 : u[i + 2] = t[i]
    OBVIOUS
  <2> HIDE DEF S, s, t, u
  <2>5. /\ Len(u) = Len(s) + Len(t)
        /\ \A i \in 1..Len(s) : u[i] = s[i]
        /\ \A i \in 1..Len(t) : u[i + Len(s)] = t[i]
    BY <2>2, <2>3, <2>4
  <2>6. s \o t = u
    BY <2>1, <2>5, Joined, Zenon
  <2> QED BY <2>6 DEF s, t, u
<1>5. \A a, b, c, d, e : <<a, b, c>> \o <<d, e>> = <<a, b, c, d, e>>
  <2> TAKE a, b, c, d, e
  <2> DEFINE S == {a, b, c, d, e}
             s == <<a, b, c>>
             t == <<d, e>>
             u == <<a, b, c, d, e>>
  <2>1. s \in Seq(S) /\ t \in Seq(S) /\ u \in Seq(S)
    OBVIOUS
  <2>2. Len(s) = 3 /\ Len(t) = 2 /\ Len(u) = 5
    OBVIOUS
  <2>3. \A i \in 1..3 : u[i] = s[i]
    OBVIOUS
  <2>4. \A i \in 1..2 : u[i + 3] = t[i]
    OBVIOUS
  <2> HIDE DEF S, s, t, u
  <2>5. /\ Len(u) = Len(s) + Len(t)
        /\ \A i \in 1..Len(s) : u[i] = s[i]
        /\ \A i \in 1..Len(t) : u[i + Len(s)] = t[i]
    BY <2>2, <2>3, <2>4
  <2>6. s \o t = u
    BY <2>1, <2>5, Joined, Zenon
  <2> QED BY <2>6 DEF s, t, u
<1>6. \A a, b, c, d : <<a, b, c>> \o <<d>> = <<a, b, c, d>>
  <2> TAKE a, b, c, d
  <2> DEFINE S == {a, b, c, d}
             s == <<a, b, c>>
             t == <<d>>
             u == <<a, b, c, d>>
  <2>1. s \in Seq(S) /\ t \in Seq(S) /\ u \in Seq(S)
    OBVIOUS
  <2>2. Len(s) = 3 /\ Len(t) = 1 /\ Len(u) = 4
    OBVIOUS
  <2>3. \A i \in 1..3 : u[i] = s[i]
    OBVIOUS
  <2>4. \A i \in 1..1 : u[i + 3] = t[i]
    OBVIOUS
  <2> HIDE DEF S, s, t, u
  <2>5. /\ Len(u) = Len(s) + Len(t)
        /\ \A i \in 1..Len(s) : u[i] = s[i]
        /\ \A i \in 1..Len(t) : u[i + Len(s)] = t[i]
    BY <2>2, <2>3, <2>4
  <2>6. s \o t = u
    BY <2>1, <2>5, Joined, Zenon
  <2> QED BY <2>6 DEF s, t, u
<1> QED BY <1>1, <1>2, <1>3, <1>4, <1>5, <1>6

\* What the methods of the model put on the list.
LEMMA Methods ==
  /\ InitializeMaster \o << <<"flag">>, <<"serve">> >> = M4("exists")
  /\ StartSlave = IF Kind = "engine" THEN S3("exists") ELSE R4("exists")
  /\ UpgradeToMaster = U5
  /\ CloseNode = IF Kind = "engine" THEN C2 ELSE X1
<1>1. InitializeMaster = << <<"exists", "master">>, WatchMaster >>
  BY Concatenations DEF InitializeMaster, CreateZNode, WatchMaster
<1>2. InitializeMaster \o << <<"flag">>, <<"serve">> >> = M4("exists")
  BY <1>1, Concatenations DEF M4, SetFlag, StartServe
<1>3. StartSlave = IF Kind = "engine" THEN S3("exists") ELSE R4("exists")
  <2>1. InitializeSlave = S3("exists")
    BY Concatenations DEF InitializeSlave, CreateZNode, S3, WatchSlave, WatchSwitch
  <2>2. \A a, b, c, d : <<a, b, c>> \o <<d>> = <<a, b, c, d>>
    BY Concatenations
  <2>3. S3("exists") \o <<StartServe>> = R4("exists")
    BY <2>2 DEF S3, R4
  <2> QED BY <2>1, <2>3 DEF StartSlave, StartServe
<1>4. UpgradeToMaster = U5
  <2>1. << <<"serve">> >> \o InitializeMaster = <<StartServe, <<"exists", "master">>, WatchMaster>>
    BY <1>1, Concatenations DEF StartServe
  <2>2. UpgradeToMaster = (<< <<"serve">> >> \o InitializeMaster) \o <<DeleteSlave, SetFlag>>
    BY DEF UpgradeToMaster, DeleteSlave, SetFlag
  <2>3. \A a, b, c, d, e : <<a, b, c>> \o <<d, e>> = <<a, b, c, d, e>>
    BY Concatenations
  <2>4. <<StartServe, <<"exists", "master">>, WatchMaster>> \o <<DeleteSlave, SetFlag>>
          = <<StartServe, <<"exists", "master">>, WatchMaster, DeleteSlave, SetFlag>>
    BY <2>3
  <2> QED BY <2>1, <2>2, <2>4 DEF U5
<1>5. CloseNode = IF Kind = "engine" THEN C2 ELSE X1
  BY DEF CloseNode, C2, X1, StopServe, CloseConn
<1> QED BY <1>2, <1>3, <1>4, <1>5

\* The first request of each list and the rest of it.
LEMMA Heads ==
  /\ \A o : Head(M4(o)) = <<o, "master">> /\ Tail(M4(o)) = M3 /\ M4(o) # <<>>
  /\ Head(M3) = WatchMaster /\ Tail(M3) = M2 /\ M3 # <<>>
  /\ Head(M2) = SetFlag /\ Tail(M2) = M1 /\ M2 # <<>>
  /\ Head(M1) = StartServe /\ Tail(M1) = <<>> /\ M1 # <<>>
  /\ \A o : Head(S3(o)) = <<o, "slave">> /\ Tail(S3(o)) = S2 /\ S3(o) # <<>>
  /\ Head(S2) = WatchSlave /\ Tail(S2) = S1 /\ S2 # <<>>
  /\ Head(S1) = WatchSwitch /\ Tail(S1) = <<>> /\ S1 # <<>>
  /\ \A o : Head(R4(o)) = <<o, "slave">> /\ Tail(R4(o)) = R3 /\ R4(o) # <<>>
  /\ Head(R3) = WatchSlave /\ Tail(R3) = R2 /\ R3 # <<>>
  /\ Head(R2) = WatchSwitch /\ Tail(R2) = M1 /\ R2 # <<>>
  /\ Head(U5) = StartServe /\ Tail(U5) = U4("exists") /\ U5 # <<>>
  /\ \A o : Head(U4(o)) = <<o, "master">> /\ Tail(U4(o)) = U3 /\ U4(o) # <<>>
  /\ Head(U3) = WatchMaster /\ Tail(U3) = U2 /\ U3 # <<>>
  /\ Head(U2) = DeleteSlave /\ Tail(U2) = U1 /\ U2 # <<>>
  /\ Head(U1) = SetFlag /\ Tail(U1) = <<>> /\ U1 # <<>>
  /\ Head(C2) = StopServe /\ Tail(C2) = C1 /\ C2 # <<>>
  /\ Head(C1) = CloseConn /\ Tail(C1) = <<>> /\ C1 # <<>>
  /\ Head(X1) = StopServe /\ Tail(X1) = <<>> /\ X1 # <<>>
<1>1. \A o : Head(M4(o)) = <<o, "master">> /\ Tail(M4(o)) = M3 /\ M4(o) # <<>>
  BY Tuples DEF M4, M3
<1>2. Head(M3) = WatchMaster /\ Tail(M3) = M2 /\ M3 # <<>>
  BY Tuples DEF M3, M2
<1>3. Head(M2) = SetFlag /\ Tail(M2) = M1 /\ M2 # <<>>
  BY Tuples DEF M2, M1
<1>4. Head(M1) = StartServe /\ Tail(M1) = <<>> /\ M1 # <<>>
  BY Tuples DEF M1
<1>5. \A o : Head(S3(o)) = <<o, "slave">> /\ Tail(S3(o)) = S2 /\ S3(o) # <<>>
  BY Tuples DEF S3, S2
<1>6. Head(S2) = WatchSlave /\ Tail(S2) = S1 /\ S2 # <<>>
  BY Tuples DEF S2, S1
<1>7. Head(S1) = WatchSwitch /\ Tail(S1) = <<>> /\ S1 # <<>>
  BY Tuples DEF S1
<1>8. Head(U5) = StartServe /\ Tail(U5) = U4("exists") /\ U5 # <<>>
  BY Tuples DEF U5, U4
<1>9. \A o : Head(U4(o)) = <<o, "master">> /\ Tail(U4(o)) = U3 /\ U4(o) # <<>>
  BY Tuples DEF U4, U3
<1>10. Head(U3) = WatchMaster /\ Tail(U3) = U2 /\ U3 # <<>>
  BY Tuples DEF U3, U2
<1>11. Head(U2) = DeleteSlave /\ Tail(U2) = U1 /\ U2 # <<>>
  BY Tuples DEF U2, U1
<1>12. Head(U1) = SetFlag /\ Tail(U1) = <<>> /\ U1 # <<>>
  BY Tuples DEF U1
<1>13. Head(C2) = StopServe /\ Tail(C2) = C1 /\ C2 # <<>>
  BY Tuples DEF C2, C1
<1>14. Head(C1) = CloseConn /\ Tail(C1) = <<>> /\ C1 # <<>>
  BY Tuples DEF C1
<1>15. Head(X1) = StopServe /\ Tail(X1) = <<>> /\ X1 # <<>>
  BY Tuples DEF X1
<1>16. \A o : Head(R4(o)) = <<o, "slave">> /\ Tail(R4(o)) = R3 /\ R4(o) # <<>>
  BY Tuples DEF R4, R3
<1>17. Head(R3) = WatchSlave /\ Tail(R3) = R2 /\ R3 # <<>>
  BY Tuples DEF R3, R2
<1>18. Head(R2) = WatchSwitch /\ Tail(R2) = M1 /\ R2 # <<>>
  BY Tuples DEF R2, M1
<1> QED
  BY <1>1, <1>2, <1>3, <1>4, <1>5, <1>6, <1>7, <1>8, <1>9, <1>10, <1>11, <1>12, <1>13,
     <1>14, <1>15, <1>16, <1>17, <1>18

\* What the requests ask for, and of what.
LEMMA Requests ==
  /\ \A o, p : <<o, p>>[1] = o /\ <<o, p>>[2] = p
  /\ WatchMaster[1] = "watch" /\ WatchMaster[2] = <<"master", "node">>
  /\ WatchSlave[1] = "watch" /\ WatchSlave[2] = <<"slave", "node">>
  /\ WatchSwitch[1] = "watch" /\ WatchSwitch[2] = <<SwitchPath, "switch">>
  /\ DeleteSlave[1] = "delete" /\ DeleteSlave[2] = "slave"
  /\ SetFlag[1] = "flag" /\ StartServe[1] = "serve"
  /\ StopServe[1] = "unserve" /\ CloseConn[1] = "close"
BY DEF WatchMaster, WatchSlave, WatchSwitch, DeleteSlave, SetFlag, StartServe, StopServe,
       CloseConn

\* createZNode goes on after its first request.
LEMMA Checked ==
  ASSUME NEW o
  PROVE  /\ << <<o, "master">> >> \o M3 = M4(o)
         /\ << <<o, "slave">> >> \o S2 = S3(o)
         /\ << <<o, "slave">> >> \o R3 = R4(o)
         /\ << <<o, "master">> >> \o U3 = U4(o)
<1>1. \A a, b, c : <<a>> \o <<b, c>> = <<a, b, c>>
  BY Concatenations
<1>2. \A a, b, c, d : <<a>> \o <<b, c, d>> = <<a, b, c, d>>
  BY Concatenations
<1>3. << <<o, "master">> >> \o M3 = M4(o)
  BY <1>2 DEF M3, M4
<1>4. << <<o, "slave">> >> \o S2 = S3(o)
  BY <1>1 DEF S2, S3
<1>5. << <<o, "master">> >> \o U3 = U4(o)
  BY <1>2 DEF U3, U4
<1>6. << <<o, "slave">> >> \o R3 = R4(o)
  BY <1>2 DEF R3, R4
<1> QED BY <1>3, <1>4, <1>5, <1>6

\* Lists of up to five requests.
LEMMA TupleSeq ==
  ASSUME NEW S, NEW a \in S
  PROVE  /\ <<a>> \in Seq(S)
         /\ \A b \in S : <<a, b>> \in Seq(S)
         /\ \A b, c \in S : <<a, b, c>> \in Seq(S)
         /\ \A b, c, d \in S : <<a, b, c, d>> \in Seq(S)
         /\ \A b, c, d, e \in S : <<a, b, c, d, e>> \in Seq(S)
OBVIOUS

\* What the lists begin with.
LEMMA ListOps ==
  ASSUME NEW l
  PROVE  /\ l \in MasterLists => Head(l)[1] \in {"exists", "setData", "create", "watch", "flag", "serve"}
         /\ l \in SlaveLists => Head(l)[1] \in {"exists", "setData", "create", "watch", "serve"}
         /\ l \in UpgradeLists =>
              Head(l)[1] \in {"exists", "setData", "create", "watch", "delete", "flag", "serve"}
         /\ l \in CloseLists => Head(l)[1] \in {"unserve", "close"}
<1>0. \A o, p : <<o, p>>[1] = o
  BY Requests
<1>1. \A o : /\ Head(M4(o))[1] = o /\ Head(S3(o))[1] = o /\ Head(R4(o))[1] = o
             /\ Head(U4(o))[1] = o
  <2>1. \A o : Head(M4(o)) = <<o, "master">> /\ Head(S3(o)) = <<o, "slave">>
    BY Heads
  <2>2. \A o : Head(R4(o)) = <<o, "slave">> /\ Head(U4(o)) = <<o, "master">>
    BY Heads
  <2> QED BY <1>0, <2>1, <2>2
<1>2. /\ Head(M3)[1] = "watch" /\ Head(M2)[1] = "flag" /\ Head(M1)[1] = "serve"
      /\ Head(S2)[1] = "watch" /\ Head(S1)[1] = "watch"
      /\ Head(R3)[1] = "watch" /\ Head(R2)[1] = "watch"
  BY Heads, Requests
<1>3. /\ Head(U5)[1] = "serve" /\ Head(U3)[1] = "watch" /\ Head(U2)[1] = "delete"
      /\ Head(U1)[1] = "flag"
  BY Heads, Requests
<1>4. Head(C2)[1] = "unserve" /\ Head(C1)[1] = "close" /\ Head(X1)[1] = "unserve"
  BY Heads, Requests
<1> QED
  BY <1>1, <1>2, <1>3, <1>4 DEF MasterLists, SlaveLists, UpgradeLists, CloseLists, Sets

\* A thread that has answered a request goes on with the rest.
LEMMA PopList ==
  ASSUME NEW t, NEW l, Listed(t, l), l # <<>>
  PROVE  Listed(IF Tail(l) = <<>> THEN "idle" ELSE t, Tail(l))
<1>1. CASE t = "init" /\ l \in MasterLists \cup SlaveLists
  BY <1>1, Heads DEF Listed, MasterLists, SlaveLists
<1>2. CASE t = "upgrade" /\ l \in UpgradeLists
  BY <1>2, Heads DEF Listed, UpgradeLists, Sets
<1>3. CASE t = "close" /\ l \in CloseLists
  BY <1>3, Heads DEF Listed, CloseLists
<1>4. CASE t = "recover" /\ l \in Seq(Recovery)
  BY <1>4, HeadTailProperties DEF Listed
<1> QED BY <1>1, <1>2, <1>3, <1>4 DEF Listed

\* The same after exists.
LEMMA CheckList ==
  ASSUME NEW t, NEW l, Listed(t, l), l # <<>>, Head(l)[1] = "exists",
         NEW o \in {"setData", "create"}
  PROVE  /\ Head(l)[2] \in Path
         /\ << <<o, Head(l)[2]>> >> \o Tail(l) # <<>>
         /\ Listed(t, << <<o, Head(l)[2]>> >> \o Tail(l))
<1>0. o \in Sets
  BY DEF Sets
<1>1. CASE t = "init" /\ l \in MasterLists
  <2>1. l = M4("exists")
    <3>1. Head(M3)[1] # "exists" /\ Head(M2)[1] # "exists" /\ Head(M1)[1] # "exists"
      BY Heads, Requests
    <3>2. PICK q \in Sets : l = M4(q)
      BY <1>1, <3>1 DEF MasterLists
    <3>3. Head(M4(q))[1] = q
      BY Heads, Requests
    <3> QED BY <3>2, <3>3
  <2>2. Head(M4("exists")) = <<"exists", "master">> /\ Tail(M4("exists")) = M3
    BY Heads
  <2>3. Head(l)[2] = "master" /\ Tail(l) = M3
    BY <2>1, <2>2
  <2>4. << <<o, Head(l)[2]>> >> \o Tail(l) = M4(o)
    BY <2>3, Checked
  <2>5. M4(o) # <<>> /\ M4(o) \in MasterLists
    BY <1>0, Heads DEF MasterLists
  <2> QED BY <1>1, <2>3, <2>4, <2>5 DEF Listed, Path
<1>2. CASE t = "init" /\ l \in SlaveLists
  <2>1. CASE Kind = "engine"
    <3>1. l = S3("exists")
      <4>1. Head(S2)[1] # "exists" /\ Head(S1)[1] # "exists"
        BY Heads, Requests
      <4>2. PICK q \in Sets : l = S3(q)
        BY <1>2, <2>1, <4>1 DEF SlaveLists
      <4>3. Head(S3(q))[1] = q
        BY Heads, Requests
      <4> QED BY <4>2, <4>3
    <3>2. Head(S3("exists")) = <<"exists", "slave">> /\ Tail(S3("exists")) = S2
      BY Heads
    <3>3. Head(l)[2] = "slave" /\ Tail(l) = S2
      BY <3>1, <3>2
    <3>4. << <<o, Head(l)[2]>> >> \o Tail(l) = S3(o)
      BY <3>3, Checked
    <3>5. S3(o) # <<>> /\ S3(o) \in SlaveLists
      BY <1>0, <2>1, Heads DEF SlaveLists
    <3> QED BY <1>2, <3>3, <3>4, <3>5 DEF Listed, Path
  <2>2. CASE Kind # "engine"
    <3>1. l = R4("exists")
      <4>1. Head(R3)[1] # "exists" /\ Head(R2)[1] # "exists" /\ Head(M1)[1] # "exists"
        BY Heads, Requests
      <4>2. PICK q \in Sets : l = R4(q)
        BY <1>2, <2>2, <4>1 DEF SlaveLists
      <4>3. Head(R4(q))[1] = q
        BY Heads, Requests
      <4> QED BY <4>2, <4>3
    <3>2. Head(R4("exists")) = <<"exists", "slave">> /\ Tail(R4("exists")) = R3
      BY Heads
    <3>3. Head(l)[2] = "slave" /\ Tail(l) = R3
      BY <3>1, <3>2
    <3>4. << <<o, Head(l)[2]>> >> \o Tail(l) = R4(o)
      BY <3>3, Checked
    <3>5. R4(o) # <<>> /\ R4(o) \in SlaveLists
      BY <1>0, <2>2, Heads DEF SlaveLists
    <3> QED BY <1>2, <3>3, <3>4, <3>5 DEF Listed, Path
  <2> QED BY <2>1, <2>2
<1>3. CASE t = "upgrade" /\ l \in UpgradeLists
  <2>1. l = U4("exists")
    <3>1. Head(U5)[1] # "exists" /\ Head(U3)[1] # "exists" /\ Head(U2)[1] # "exists" /\ Head(U1)[1] # "exists"
      BY Heads, Requests
    <3>2. PICK q \in Sets : l = U4(q)
      BY <1>3, <3>1 DEF UpgradeLists
    <3>3. Head(U4(q))[1] = q
      BY Heads, Requests
    <3> QED BY <3>2, <3>3
  <2>2. Head(U4("exists")) = <<"exists", "master">> /\ Tail(U4("exists")) = U3
    BY Heads
  <2>3. Head(l)[2] = "master" /\ Tail(l) = U3
    BY <2>1, <2>2
  <2>4. << <<o, Head(l)[2]>> >> \o Tail(l) = U4(o)
    BY <2>3, Checked
  <2>5. U4(o) # <<>> /\ U4(o) \in UpgradeLists
    BY <1>0, Heads DEF UpgradeLists
  <2> QED BY <1>3, <2>3, <2>4, <2>5 DEF Listed, Path
<1>4. CASE t = "close" /\ l \in CloseLists
  BY <1>4, Heads, Requests DEF CloseLists
<1>5. CASE t = "recover" /\ l \in Seq(Recovery)
  <2>1. Head(l) \in Recovery /\ Tail(l) \in Seq(Recovery)
    BY <1>5, HeadTailProperties
  <2>2. Head(l)[2] \in Path /\ <<o, Head(l)[2]>> \in Recovery
    BY <1>0, <2>1 DEF Recovery
  <2> DEFINE x == <<o, Head(l)[2]>>
  <2>3. <<x>> \o Tail(l) \in Seq(Recovery) /\ <<x>> \o Tail(l) # <<>>
    <3> HIDE DEF x
    <3>1. x \in Recovery
      BY <2>2 DEF x
    <3>2. <<x>> \in Seq(Recovery) /\ <<x>> # <<>>
      BY <3>1
    <3> QED BY <2>1, <3>2, ConcatProperties, ConcatEqualIffEmpty
  <2> QED BY <1>5, <2>2, <2>3 DEF Listed
<1> QED BY <1>1, <1>2, <1>3, <1>4, <1>5 DEF Listed

\* NodeWatcher begins with createZNode, and again when a request fails.
LEMMA RenewList ==
  ASSUME NEW t, NEW l, Listed(t, l), l # <<>>, Head(l)[1] = "renew"
  PROVE  LET w    == Head(l)[2]
             rest == CreateZNode(w[1]) \o << <<"watch", w>> >> \o Tail(l)
         IN  t = "recover" /\ rest # <<>> /\ Listed(t, rest)
<1>1. t = "recover" /\ l \in Seq(Recovery)
  <2>1. l \notin MasterLists \cup SlaveLists \cup UpgradeLists \cup CloseLists
    BY ListOps
  <2> QED BY <2>1 DEF Listed
<1>2. Head(l) \in Recovery /\ Tail(l) \in Seq(Recovery)
  BY <1>1, HeadTailProperties
<1> DEFINE w == Head(l)[2]
           x == <<"exists", w[1]>>
           y == <<"watch", w>>
<1>3. w \in Used
  BY <1>2 DEF Recovery, Sets
<1>4. w[1] \in Path
  BY <1>3 DEF Used, Path, SwitchPath
<1>5. x \in Recovery /\ y \in Recovery
  BY <1>3, <1>4 DEF Recovery, Sets
<1>6. CreateZNode(w[1]) \o << <<"watch", w>> >> = <<x, y>>
  BY Concatenations DEF CreateZNode
<1> HIDE DEF w, x, y
<1>7. <<x, y>> \in Seq(Recovery) /\ <<x, y>> # <<>>
  BY <1>5
<1>8. <<x, y>> \o Tail(l) \in Seq(Recovery) /\ <<x, y>> \o Tail(l) # <<>>
  BY <1>2, <1>7, ConcatProperties, ConcatEqualIffEmpty
<1> QED BY <1>1, <1>6, <1>8 DEF Listed, w

\* The loop of NodeWatcher starts again.
LEMMA RetryList ==
  ASSUME NEW l, Listed("recover", l), Head(l)[1] \in {"setData", "create"}
  PROVE  Listed("recover", CreateZNode(Head(l)[2]) \o Tail(l))
<1>1. l \in Seq(Recovery) /\ l # <<>>
  BY DEF Listed
<1>2. Head(l) \in Recovery /\ Tail(l) \in Seq(Recovery)
  BY <1>1, HeadTailProperties
<1> DEFINE x == <<"exists", Head(l)[2]>>
<1>3. x \in Recovery
  BY <1>2 DEF Recovery, Sets
<1>4. CreateZNode(Head(l)[2]) = <<x>>
  BY DEF CreateZNode
<1> HIDE DEF x
<1>5. <<x>> \o Tail(l) \in Seq(Recovery) /\ <<x>> \o Tail(l) # <<>>
  <2>1. <<x>> \in Seq(Recovery) /\ <<x>> # <<>>
    BY <1>3
  <2> QED BY <1>2, <2>1, ConcatProperties, ConcatEqualIffEmpty
<1> QED BY <1>4, <1>5 DEF Listed

\* Types of what a thread has to do.
LEMMA ListType ==
  ASSUME NEW t, NEW l, Listed(t, l)
  PROVE  /\ t \in {"idle", "init", "upgrade", "recover", "close"}
         /\ l \in Seq(Instruction)
         /\ l # <<>> => /\ Head(l)[1] \in {"exists", "setData", "create", "delete"} => Head(l)[2] \in Path
                        /\ Head(l)[1] \in {"watch", "renew"} => Head(l)[2] \in Used
<1>0. SwitchPath \in Path
  BY DEF SwitchPath, Path
<1>1. /\ WatchMaster \in Instruction /\ WatchSlave \in Instruction
      /\ WatchSwitch \in Instruction /\ DeleteSlave \in Instruction
      /\ SetFlag \in Instruction /\ StartServe \in Instruction
      /\ StopServe \in Instruction /\ CloseConn \in Instruction
      /\ \A o \in Sets, p \in Path : <<o, p>> \in Instruction
  BY <1>0 DEF WatchMaster, WatchSlave, WatchSwitch, DeleteSlave, SetFlag, StartServe,
              StopServe, CloseConn, Instruction, Watch, Path, Sets
<1>2. Recovery \subseteq Instruction
  <2>1. Used \subseteq Watch
    BY <1>0 DEF Used, Watch, Path
  <2>2. Sets \X Path \subseteq Instruction
    BY DEF Sets, Instruction
  <2>3. {"renew", "watch"} \X Used \subseteq Instruction
    BY <2>1 DEF Instruction
  <2> QED BY <2>2, <2>3 DEF Recovery
<1>3. /\ "exists" \in Sets /\ "master" \in Path /\ "slave" \in Path
      /\ "watch" \notin Sets /\ "renew" \notin Sets
      /\ WatchMaster[2] \in Used /\ WatchSlave[2] \in Used /\ WatchSwitch[2] \in Used
  BY Requests DEF Sets, Path, Used
<1>4. CASE t = "init" /\ l \in MasterLists
  <2>1. \A o \in Sets : M4(o) \in Seq(Instruction)
    BY <1>1, <1>3, TupleSeq DEF M4
  <2>2. M3 \in Seq(Instruction) /\ M2 \in Seq(Instruction) /\ M1 \in Seq(Instruction)
    BY <1>1, TupleSeq DEF M3, M2, M1
  <2>3. \A o \in Sets : Head(M4(o))[1] = o /\ Head(M4(o))[2] = "master"
    BY Heads, Requests
  <2>4. CASE \E o \in Sets : l = M4(o)
    BY <1>3, <1>4, <2>1, <2>3, <2>4
  <2>5. CASE l \in {M3, M2, M1}
    BY <1>3, <1>4, <2>2, <2>5, Heads, Requests
  <2> QED BY <1>4, <2>4, <2>5 DEF MasterLists
<1>5. CASE t = "init" /\ l \in SlaveLists
  <2>1. \A o \in Sets : S3(o) \in Seq(Instruction) /\ R4(o) \in Seq(Instruction)
    BY <1>1, <1>3, TupleSeq DEF S3, R4
  <2>2. /\ S2 \in Seq(Instruction) /\ S1 \in Seq(Instruction)
        /\ R3 \in Seq(Instruction) /\ R2 \in Seq(Instruction) /\ M1 \in Seq(Instruction)
    BY <1>1, TupleSeq DEF S2, S1, R3, R2, M1
  <2>3. \A o \in Sets : /\ Head(S3(o))[1] = o /\ Head(S3(o))[2] = "slave"
                        /\ Head(R4(o))[1] = o /\ Head(R4(o))[2] = "slave"
    BY Heads, Requests
  <2>4. CASE \E o \in Sets : l \in {S3(o), R4(o)}
    BY <1>3, <1>5, <2>1, <2>3, <2>4
  <2>5. CASE l \in {S2, S1, R3, R2, M1}
    BY <1>3, <1>5, <2>2, <2>5, Heads, Requests
  <2> QED BY <1>5, <2>4, <2>5 DEF SlaveLists
<1>6. CASE t = "upgrade" /\ l \in UpgradeLists
  <2>1. \A o \in Sets : U4(o) \in Seq(Instruction)
    BY <1>1, <1>3, TupleSeq DEF U4
  <2>2. /\ U5 \in Seq(Instruction) /\ U3 \in Seq(Instruction)
        /\ U2 \in Seq(Instruction) /\ U1 \in Seq(Instruction)
    BY <1>1, <1>3, TupleSeq DEF U5, U3, U2, U1
  <2>3. \A o \in Sets : Head(U4(o))[1] = o /\ Head(U4(o))[2] = "master"
    BY Heads, Requests
  <2>4. CASE \E o \in Sets : l = U4(o)
    BY <1>3, <1>6, <2>1, <2>3, <2>4
  <2>5. CASE l \in {U5, U3, U2, U1}
    BY <1>3, <1>6, <2>2, <2>5, Heads, Requests
  <2> QED BY <1>6, <2>4, <2>5 DEF UpgradeLists
<1>7. CASE t = "close" /\ l \in CloseLists
  <2>1. C2 \in Seq(Instruction) /\ C1 \in Seq(Instruction) /\ X1 \in Seq(Instruction)
    BY <1>1, TupleSeq DEF C2, C1, X1
  <2> QED BY <1>7, <2>1, Heads, Requests DEF CloseLists
<1>8. CASE t = "recover" /\ l \in Seq(Recovery) /\ l # <<>>
  <2>1. l \in Seq(Instruction)
    BY <1>2, <1>8, SeqMonotonic
  <2>2. Head(l) \in Recovery
    BY <1>8, HeadTailProperties
  <2> QED BY <1>8, <2>1, <2>2 DEF Recovery, Sets
<1>9. CASE t = "idle" /\ l = <<>>
  BY <1>9
<1> QED BY <1>4, <1>5, <1>6, <1>7, <1>8, <1>9 DEF Listed

-----------------------------------------------------------------------------
(* Steps that keep Base. *)

\* The types of the watches.
LEMMA WatchType ==
  ASSUME TypeOK, Lists, NEW n \in Node
  PROVE  watches[n] \subseteq Used /\ Used \subseteq Watch
BY DEF Lists, Used, Watch, Path, SwitchPath

\* What a znode that is changed or deleted does to the watches.
LEMMA Fired ==
  ASSUME TypeOK, NEW ps, NEW d \in BOOLEAN, Fire(ps, d)
  PROVE  /\ told \subseteq told' /\ told' \subseteq Node
         /\ watches' \in [Node -> SUBSET Watch]
         /\ \A m \in Node : watches'[m] \subseteq watches[m]
         /\ \A m \in Node : \A w \in watches[m] : w[1] \notin ps => w \in watches'[m]
         /\ \A m \in told' : \/ m \in told
                             \/ /\ d /\ m \in up /\ session[m] \in live'
                                /\ \E p \in ps : <<p, "switch">> \in watches[m]
         /\ \A m \in Node : /\ d /\ m \in up /\ session[m] \in live'
                            /\ \E p \in ps : <<p, "switch">> \in watches[m]
                            => m \in told'
BY DEF TypeOK, Fire

\* What the end of a session leaves.
LEMMA Ended ==
  ASSUME TypeOK, Sessions, NEW s, EndSession(s)
  PROVE  /\ live' = live \ {s} /\ data' = data /\ count' = count
         /\ owner' \in [Path -> 0..MaxSession]
         /\ \A p \in Path : owner'[p] = IF owner[p] = s THEN 0 ELSE owner[p]
         /\ \A p \in Path : owner'[p] = 0 \/ owner'[p] \in live'
         /\ Fire({p \in Path : owner[p] = s}, TRUE)
<1>1. /\ live' = live \ {s} /\ data' = data /\ count' = count
      /\ Fire({p \in Path : owner[p] = s}, TRUE)
      /\ owner' = [p \in Path |-> IF p \in {q \in Path : owner[q] = s} THEN 0 ELSE owner[p]]
  BY DEF EndSession, RemoveZNodes
<1>2. \A p \in Path : owner'[p] = IF owner[p] = s THEN 0 ELSE owner[p]
  BY <1>1
<1>3. owner' \in [Path -> 0..MaxSession]
  BY <1>1, ElectionAssumption DEF TypeOK
<1>4. \A p \in Path : owner'[p] = 0 \/ owner'[p] \in live'
  BY <1>1, <1>2 DEF Sessions
<1> QED BY <1>1, <1>2, <1>3, <1>4

\* The lists when only the thread of n goes on.
LEMMA KeepLists ==
  ASSUME TypeOK, Lists, NEW n \in Node, NEW t, NEW l, Do(n, t, l), Listed(t, l),
         n \notin up' => t = "idle", up' \ {n} = up \ {n},
         t = "recover" => Connected(n)',
         \A m \in Node \ {n} : Connected(m) => Connected(m)',
         \A m \in Node : watches'[m] \subseteq Used
  PROVE  /\ Lists'
         /\ task' \in [Node -> {"idle", "init", "upgrade", "recover", "close"}]
         /\ todo' \in [Node -> Seq(Instruction)]
<1>1. /\ task' = [task EXCEPT ![n] = t] /\ todo' = [todo EXCEPT ![n] = l]
      /\ task \in [Node -> {"idle", "init", "upgrade", "recover", "close"}]
      /\ todo \in [Node -> Seq(Instruction)]
  BY DEF Do, TypeOK
<1>2. t \in {"idle", "init", "upgrade", "recover", "close"} /\ l \in Seq(Instruction)
  BY ListType
<1>3. task' \in [Node -> {"idle", "init", "upgrade", "recover", "close"}]
  BY <1>1, <1>2
<1>4. todo' \in [Node -> Seq(Instruction)]
  BY <1>1, <1>2
<1>5. Lists'
  <2> SUFFICES ASSUME NEW m \in Node
               PROVE  /\ Listed(task'[m], todo'[m])
                      /\ m \notin up' => task'[m] = "idle"
                      /\ task'[m] = "recover" => Connected(m)'
                      /\ watches'[m] \subseteq Used
    BY DEF Lists, Listed, CloseLists
  <2>1. CASE m = n
    BY <1>1, <2>1
  <2>2. CASE m # n
    <3>1. task'[m] = task[m] /\ todo'[m] = todo[m] /\ (m \in up' <=> m \in up)
      BY <1>1, <2>2
    <3> QED BY <2>2, <3>1 DEF Lists
  <2> QED BY <2>1, <2>2
<1> QED BY <1>3, <1>4, <1>5

\* The number of the processes that have lost their session.
LEMMA LostFinite ==
  ASSUME TypeOK
  PROVE  IsFiniteSet(Lost) /\ Cardinality(Lost) \in Nat /\ MaxSession \in Nat
<1>1. Lost \subseteq Node
  BY DEF Lost, TypeOK
<1>2. IsFiniteSet(Lost)
  BY <1>1, ElectionAssumption, FS_Subset
<1> QED BY <1>2, ElectionAssumption, FS_CardinalityType

\* The sessions when nobody gets a new one or loses one.
LEMMA KeepSessions ==
  ASSUME TypeOK, Sessions, up' \subseteq up, \A m \in up' : session'[m] = session[m],
         count' = count, live' \subseteq live,
         \A p \in Path : owner'[p] = 0 \/ owner'[p] \in live',
         \A m \in up' : session[m] \in live => session[m] \in live'
  PROVE  Sessions'
<1>1. Lost' \subseteq Lost
  BY DEF Lost, Connected
<1>2. Cardinality(Lost') <= Cardinality(Lost) /\ Cardinality(Lost') \in Nat
  BY <1>1, LostFinite, FS_Subset, FS_CardinalityType
<1>3. count' + Cardinality(Lost') <= MaxSession
  BY <1>2, LostFinite DEF Sessions, TypeOK
<1> QED BY <1>3 DEF Sessions

\* A step of a thread that leaves the sessions alone.
LEMMA WorkBase ==
  ASSUME Base, NEW n \in up, NEW t, NEW l, Do(n, t, l), Listed(t, l),
         t = "recover" => Connected(n),
         UNCHANGED <<up, session, live, count, trouble>>,
         told' \subseteq Node, scheduler' \subseteq up, isMaster' \subseteq up,
         watches' \in [Node -> SUBSET Watch], \A m \in Node : watches'[m] \subseteq Used,
         data' \in [Path -> Node], owner' \in [Path -> 0..MaxSession],
         \A p \in Path : owner'[p] = 0 \/ owner'[p] \in live
  PROVE  Base'
<1>0. TypeOK /\ Sessions /\ Lists /\ n \in Node
  BY DEF Base, TypeOK
<1>1. \A m \in Node : Connected(m)' <=> Connected(m)
  BY DEF Connected
<1>2. /\ Lists'
      /\ task' \in [Node -> {"idle", "init", "upgrade", "recover", "close"}]
      /\ todo' \in [Node -> Seq(Instruction)]
  BY <1>0, <1>1, KeepLists
<1>3. Sessions'
  BY <1>0, KeepSessions
<1>4. TypeOK'
  BY <1>0, <1>2 DEF TypeOK
<1> QED BY <1>2, <1>3, <1>4 DEF Base

\* The end of a process.
LEMMA HaltBase ==
  ASSUME Base, NEW n \in up, Halt(n), live' \subseteq live, count' = count,
         \A m \in up \ {n} : session[m] \in live => session[m] \in live',
         told' \subseteq Node, trouble' \subseteq Troubles,
         watches' \in [Node -> SUBSET Watch], \A m \in Node : watches'[m] \subseteq Used,
         data' \in [Path -> Node], owner' \in [Path -> 0..MaxSession],
         \A p \in Path : owner'[p] = 0 \/ owner'[p] \in live'
  PROVE  Base'
<1>0. TypeOK /\ Sessions /\ Lists /\ n \in Node
  BY DEF Base, TypeOK
<1>1. /\ up' = up \ {n} /\ Do(n, "idle", <<>>)
      /\ scheduler' = scheduler \ {n} /\ isMaster' = isMaster \ {n}
      /\ session' = [session EXCEPT ![n] = 0]
  BY DEF Halt
<1>2. session' \in [Node -> 0..MaxSession] /\ \A m \in up' : session'[m] = session[m]
  BY <1>0, <1>1, ElectionAssumption DEF TypeOK
<1>3. \A m \in Node \ {n} : Connected(m) => Connected(m)'
  BY <1>1, <1>2 DEF Connected
<1>4. Listed("idle", <<>>)
  BY DEF Listed
<1>5. /\ Lists'
      /\ task' \in [Node -> {"idle", "init", "upgrade", "recover", "close"}]
      /\ todo' \in [Node -> Seq(Instruction)]
  BY <1>0, <1>1, <1>3, <1>4, KeepLists
<1>6. Sessions'
  BY <1>0, <1>1, <1>2, KeepSessions
<1>7. TypeOK'
  BY <1>0, <1>1, <1>2, <1>5 DEF TypeOK
<1> QED BY <1>5, <1>6, <1>7 DEF Base

\* A process that has something to do is up.
LEMMA AtWork ==
  ASSUME Base, NEW n \in Node, todo[n] # <<>>
  PROVE  n \in up /\ Listed(task[n], todo[n]) /\ task[n] # "idle"
         /\ (task[n] = "recover" => Connected(n))
<1>1. Listed(task[n], todo[n]) /\ (n \notin up => task[n] = "idle")
      /\ (task[n] = "recover" => Connected(n))
  BY DEF Base, Lists
<1>2. task[n] # "idle"
  BY <1>1 DEF Listed
<1> QED BY <1>1, <1>2

\* The request at the head of the list is answered.
LEMMA Popped ==
  ASSUME Base, NEW n \in Node, NEW op, Does(n, op, Tail(todo[n]))
  PROVE  /\ n \in up /\ Listed(task[n], todo[n]) /\ todo[n] # <<>> /\ Head(todo[n])[1] = op
         /\ UNCHANGED <<up, session, trouble>>
         /\ \E t : /\ Do(n, t, Tail(todo[n])) /\ Listed(t, Tail(todo[n]))
                   /\ t = "recover" => Connected(n)
<1>1. /\ todo[n] # <<>> /\ Head(todo[n])[1] = op /\ UNCHANGED <<up, session, trouble>>
      /\ Do(n, IF Tail(todo[n]) = <<>> THEN "idle" ELSE task[n], Tail(todo[n]))
  BY DEF Does
<1>2. n \in up /\ Listed(task[n], todo[n]) /\ (task[n] = "recover" => Connected(n))
  BY <1>1, AtWork
<1>3. Listed(IF Tail(todo[n]) = <<>> THEN "idle" ELSE task[n], Tail(todo[n]))
  BY <1>1, <1>2, PopList
<1> QED BY <1>1, <1>2, <1>3

\* What does not change keeps its type.
LEMMA Same ==
  ASSUME Base
  PROVE  /\ told \subseteq Node /\ scheduler \subseteq up /\ isMaster \subseteq up
         /\ watches \in [Node -> SUBSET Watch] /\ \A m \in Node : watches[m] \subseteq Used
         /\ data \in [Path -> Node] /\ owner \in [Path -> 0..MaxSession]
         /\ \A p \in Path : owner[p] = 0 \/ owner[p] \in live
         /\ trouble \subseteq Troubles /\ up \subseteq Node
BY DEF Base, TypeOK, Sessions, Lists

\* A NodeWatcher creates its znode again.
LEMMA RenewBase ==
  ASSUME Base, NEW n \in Node, Renew(n)
  PROVE  Base'
<1> DEFINE w    == Head(todo[n])[2]
           rest == CreateZNode(w[1]) \o << <<"watch", w>> >> \o Tail(todo[n])
<1>1. /\ Does(n, "renew", rest) /\ UNCHANGED <<told, watches, scheduler, isMaster, zk>>
  BY DEF Renew
<1>2. todo[n] # <<>> /\ Head(todo[n])[1] = "renew"
  BY <1>1 DEF Does
<1>3. n \in up /\ Listed(task[n], todo[n]) /\ (task[n] = "recover" => Connected(n))
  BY <1>2, AtWork
<1>4. rest # <<>> /\ Listed(task[n], rest)
  BY <1>2, <1>3, RenewList
<1> HIDE DEF rest
<1>5. Do(n, task[n], rest) /\ UNCHANGED <<up, session, trouble>>
  BY <1>1, <1>4 DEF Does
<1> QED BY <1>1, <1>3, <1>4, <1>5, WorkBase, Same DEF zk

\* createZNode has looked at the znode.
LEMMA CheckBase ==
  ASSUME Base, NEW n \in Node, CheckZNode(n)
  PROVE  Base'
<1> DEFINE p    == Head(todo[n])[2]
           o    == IF Exists(p) THEN "setData" ELSE "create"
           rest == << <<o, p>> >> \o Tail(todo[n])
<1>1. /\ Does(n, "exists", rest) /\ UNCHANGED <<told, watches, scheduler, isMaster, zk>>
  BY DEF CheckZNode
<1>2. todo[n] # <<>> /\ Head(todo[n])[1] = "exists" /\ o \in {"setData", "create"}
  BY <1>1 DEF Does
<1>3. n \in up /\ Listed(task[n], todo[n]) /\ (task[n] = "recover" => Connected(n))
  BY <1>2, AtWork
<1> HIDE DEF o
<1>4. rest # <<>> /\ Listed(task[n], rest)
  BY <1>2, <1>3, CheckList
<1> HIDE DEF rest
<1>5. Do(n, task[n], rest) /\ UNCHANGED <<up, session, trouble>>
  BY <1>1, <1>4 DEF Does
<1> QED BY <1>1, <1>3, <1>4, <1>5, WorkBase, Same DEF zk

\* A znode is overwritten.
LEMMA SetBase ==
  ASSUME Base, NEW n \in Node, SetZNode(n)
  PROVE  Base'
<1> DEFINE p == Head(todo[n])[2]
<1>1. /\ Does(n, "setData", Tail(todo[n])) /\ data' = [data EXCEPT ![p] = n]
      /\ UNCHANGED <<scheduler, isMaster, owner, live, count>> /\ Fire({p}, FALSE)
  BY DEF SetZNode
<1>2. /\ n \in up /\ UNCHANGED <<up, session, trouble>>
      /\ \E t : /\ Do(n, t, Tail(todo[n])) /\ Listed(t, Tail(todo[n]))
                /\ t = "recover" => Connected(n)
  BY <1>1, Popped
<1>3. /\ told' \subseteq Node /\ watches' \in [Node -> SUBSET Watch]
      /\ \A m \in Node : watches'[m] \subseteq watches[m]
  BY <1>1, Fired DEF Base
<1>4. data' \in [Path -> Node]
  BY <1>1, Same
<1> QED BY <1>1, <1>2, <1>3, <1>4, WorkBase, Same

\* A znode is created.
LEMMA CreateBase ==
  ASSUME Base, NEW n \in Node, CreateEphemeral(n)
  PROVE  Base'
<1> DEFINE p == Head(todo[n])[2]
<1>1. /\ Does(n, "create", Tail(todo[n])) /\ data' = [data EXCEPT ![p] = n]
      /\ owner' = [owner EXCEPT ![p] = session[n]]
      /\ UNCHANGED <<scheduler, isMaster, live, count>> /\ Fire({p}, FALSE)
  BY DEF CreateEphemeral
<1>2. /\ n \in up /\ UNCHANGED <<up, session, trouble>>
      /\ \E t : /\ Do(n, t, Tail(todo[n])) /\ Listed(t, Tail(todo[n]))
                /\ t = "recover" => Connected(n)
  BY <1>1, Popped
<1>3. /\ told' \subseteq Node /\ watches' \in [Node -> SUBSET Watch]
      /\ \A m \in Node : watches'[m] \subseteq watches[m]
  BY <1>1, Fired DEF Base
<1>4. data' \in [Path -> Node]
  BY <1>1, Same
<1>5. Connected(n)
  BY <1>1 DEF Does, Granted
<1>6. session[n] \in live /\ session[n] \in 0..MaxSession
  BY <1>5 DEF Connected, Base, TypeOK
<1>7. /\ owner' \in [Path -> 0..MaxSession]
      /\ \A q \in Path : owner'[q] = 0 \/ owner'[q] \in live
  BY <1>1, <1>6, Same
<1> QED BY <1>1, <1>2, <1>3, <1>4, <1>7, WorkBase, Same

\* A watch is set.
LEMMA WatchBase ==
  ASSUME Base, NEW n \in Node, AddWatcher(n)
  PROVE  Base'
<1>1. /\ Does(n, "watch", Tail(todo[n]))
      /\ watches' = [watches EXCEPT ![n] = @ \cup {Head(todo[n])[2]}]
      /\ UNCHANGED <<told, scheduler, isMaster, zk>>
  BY DEF AddWatcher
<1>2. /\ n \in up /\ UNCHANGED <<up, session, trouble>>
      /\ Listed(task[n], todo[n]) /\ todo[n] # <<>> /\ Head(todo[n])[1] = "watch"
      /\ \E t : /\ Do(n, t, Tail(todo[n])) /\ Listed(t, Tail(todo[n]))
                /\ t = "recover" => Connected(n)
  BY <1>1, Popped
<1>3. Head(todo[n])[2] \in Used
  BY <1>2, ListType
<1>4. Used \subseteq Watch
  BY WatchType DEF Base
<1>5. /\ watches' \in [Node -> SUBSET Watch] /\ \A m \in Node : watches'[m] \subseteq Used
  BY <1>1, <1>3, <1>4, Same
<1> QED BY <1>1, <1>2, <1>5, WorkBase, Same DEF zk

\* A znode is deleted.
LEMMA DeleteBase ==
  ASSUME Base, NEW n \in Node, DeleteSlaveZNode(n)
  PROVE  Base'
<1> DEFINE ps == {Head(todo[n])[2]}
<1>1. /\ Does(n, "delete", Tail(todo[n]))
      /\ UNCHANGED <<scheduler, isMaster, data, live, count>> /\ Fire(ps, TRUE)
      /\ owner' = [q \in Path |-> IF q \in ps THEN 0 ELSE owner[q]]
  BY DEF DeleteSlaveZNode, RemoveZNodes
<1>2. /\ n \in up /\ UNCHANGED <<up, session, trouble>>
      /\ \E t : /\ Do(n, t, Tail(todo[n])) /\ Listed(t, Tail(todo[n]))
                /\ t = "recover" => Connected(n)
  BY <1>1, Popped
<1>3. /\ told' \subseteq Node /\ watches' \in [Node -> SUBSET Watch]
      /\ \A m \in Node : watches'[m] \subseteq watches[m]
  BY <1>1, Fired DEF Base
<1>4. /\ owner' \in [Path -> 0..MaxSession]
      /\ \A q \in Path : owner'[q] = 0 \/ owner'[q] \in live
  BY <1>1, Same, ElectionAssumption
<1> QED BY <1>1, <1>2, <1>3, <1>4, WorkBase, Same

\* A process becomes master, or serves.
LEMMA FlagBase ==
  ASSUME Base, NEW n \in Node, BecomeMaster(n) \/ Serve(n)
  PROVE  Base'
<1>1. PICK op : /\ Does(n, op, Tail(todo[n])) /\ UNCHANGED <<told, watches, zk>>
                /\ isMaster' \subseteq isMaster \cup {n}
                /\ scheduler' \subseteq scheduler \cup {n}
  BY DEF BecomeMaster, Serve
<1>2. /\ n \in up /\ UNCHANGED <<up, session, trouble>>
      /\ \E t : /\ Do(n, t, Tail(todo[n])) /\ Listed(t, Tail(todo[n]))
                /\ t = "recover" => Connected(n)
  BY <1>1, Popped
<1>3. isMaster' \subseteq up /\ scheduler' \subseteq up
  BY <1>1, <1>2, Same
<1> QED BY <1>1, <1>2, <1>3, WorkBase, Same DEF zk

\* Only the last request closes the connection.
LEMMA CloseLast ==
  ASSUME Base, NEW n \in Node, todo[n] # <<>>, Head(todo[n]) = <<"close">>
  PROVE  n \in up /\ task[n] = "close" /\ todo[n] = C1 /\ Tail(todo[n]) = <<>> /\ Kind = "engine"
<1>1. n \in up /\ Listed(task[n], todo[n]) /\ Head(todo[n])[1] = "close"
  BY AtWork
<1>2. todo[n] \notin MasterLists \cup SlaveLists \cup UpgradeLists
  BY <1>1, ListOps
<1>5. ~(todo[n] \in Seq(Recovery))
  <2> SUFFICES ASSUME todo[n] \in Seq(Recovery) PROVE FALSE
    OBVIOUS
  <2>1. Head(todo[n]) \in Recovery
    BY HeadTailProperties
  <2> QED BY <1>1, <2>1 DEF Recovery, Sets
<1>6. task[n] = "close" /\ todo[n] \in CloseLists
  BY <1>1, <1>2, <1>5 DEF Listed
<1>7. todo[n] = C1 /\ Kind = "engine"
  BY <1>1, <1>6, Heads, Requests DEF CloseLists
<1> QED BY <1>1, <1>6, <1>7, Heads

\* A process stops serving.
LEMMA UnserveBase ==
  ASSUME Base, NEW n \in Node, Unserve(n)
  PROVE  Base'
<1>1. /\ todo[n] # <<>> /\ UNCHANGED <<told, watches, zk, trouble>>
      /\ \/ Halt(n)
         \/ /\ Tail(todo[n]) # <<>> /\ Do(n, task[n], Tail(todo[n]))
            /\ scheduler' = scheduler \ {n} /\ UNCHANGED <<up, isMaster, session>>
  BY DEF Unserve
<1>2. n \in up /\ Listed(task[n], todo[n]) /\ (task[n] = "recover" => Connected(n))
  BY <1>1, AtWork
<1>3. CASE Halt(n)
  BY <1>1, <1>2, <1>3, HaltBase, Same DEF zk
<1>4. CASE /\ Tail(todo[n]) # <<>> /\ Do(n, task[n], Tail(todo[n]))
           /\ scheduler' = scheduler \ {n} /\ UNCHANGED <<up, isMaster, session>>
  <2>1. Listed(task[n], Tail(todo[n]))
    BY <1>1, <1>2, <1>4, PopList
  <2>2. scheduler' \subseteq up
    BY <1>4, Same
  <2> QED BY <1>1, <1>2, <1>4, <2>1, <2>2, WorkBase, Same DEF zk
<1> QED BY <1>1, <1>3, <1>4

\* The connection is closed.
LEMMA CloseBase ==
  ASSUME Base, NEW n \in Node, Close(n)
  PROVE  Base'
<1>1. /\ todo[n] # <<>> /\ Head(todo[n]) = <<"close">> /\ EndSession(session[n])
      /\ trouble' \subseteq Troubles
  BY Same DEF Close, Trouble
<1>2. n \in up /\ Tail(todo[n]) = <<>>
  BY <1>1, CloseLast
<1>3. Halt(n)
  BY <1>2 DEF Close
<1>4. /\ live' = live \ {session[n]} /\ data' = data /\ count' = count
      /\ owner' \in [Path -> 0..MaxSession]
      /\ \A p \in Path : owner'[p] = 0 \/ owner'[p] \in live'
      /\ Fire({p \in Path : owner[p] = session[n]}, TRUE)
  BY <1>1, Ended DEF Base
<1>5. /\ told' \subseteq Node /\ watches' \in [Node -> SUBSET Watch]
      /\ \A m \in Node : watches'[m] \subseteq watches[m]
  BY <1>4, Fired DEF Base
<1>6. \A m \in up \ {n} : session[m] \in live => session[m] \in live'
  BY <1>2, <1>4 DEF Base, Sessions
<1> QED BY <1>1, <1>2, <1>3, <1>4, <1>5, <1>6, HaltBase, Same

\* A request fails.
LEMMA FailBase ==
  ASSUME Base, NEW n \in Node, Fail(n)
  PROVE  Base'
<1>1. /\ todo[n] # <<>> /\ ~Granted(n) /\ UNCHANGED <<told, watches, zk, trouble>>
  BY DEF Fail
<1>2. n \in up /\ Listed(task[n], todo[n]) /\ (task[n] = "recover" => Connected(n))
  BY <1>1, AtWork
<1>3. CASE task[n] = "recover"
  <2>1. /\ todo' = [todo EXCEPT ![n] = CreateZNode(Head(@)[2]) \o Tail(@)]
        /\ UNCHANGED <<up, task, scheduler, isMaster, session>>
    BY <1>3 DEF Fail
  <2>2. Head(todo[n])[1] \in {"setData", "create"}
    <3>1. Head(todo[n]) \in Recovery
      BY <1>1, <1>2, <1>3, HeadTailProperties DEF Listed
    <3>2. Head(todo[n])[1] \in {"exists", "setData", "create", "renew", "watch"}
      BY <3>1 DEF Recovery, Sets
    <3>3. Head(todo[n])[1] \notin {"exists", "watch", "renew"}
      BY <1>1, <1>2, <1>3 DEF Granted
    <3> QED BY <3>2, <3>3
  <2> DEFINE l == CreateZNode(Head(todo[n])[2]) \o Tail(todo[n])
  <2>3. Listed("recover", l)
    BY <1>2, <1>3, <2>2, RetryList
  <2> HIDE DEF l
  <2>4. Do(n, "recover", l)
    <3>1. task \in [Node -> {"idle", "init", "upgrade", "recover", "close"}]
          /\ todo \in [Node -> Seq(Instruction)]
      BY DEF Base, TypeOK
    <3> QED BY <1>3, <2>1, <3>1 DEF Do, l
  <2> QED BY <1>1, <1>2, <1>3, <2>1, <2>3, <2>4, WorkBase, Same DEF zk
<1>4. CASE task[n] = "upgrade"
  <2>1. Do(n, "close", CloseNode) /\ UNCHANGED <<up, scheduler, isMaster, session>>
    BY <1>4 DEF Fail
  <2>2. Listed("close", CloseNode)
    BY Methods DEF Listed, CloseLists
  <2> QED BY <1>1, <1>2, <2>1, <2>2, WorkBase, Same DEF zk
<1>5. CASE task[n] \notin {"recover", "upgrade"}
  <2>1. Halt(n)
    BY <1>5 DEF Fail
  <2> QED BY <1>1, <1>2, <2>1, HaltBase, Same DEF zk
<1> QED BY <1>3, <1>4, <1>5

\* A process begins to take over, or to stop.
LEMMA BeginBase ==
  ASSUME Base, NEW n \in Node, ProcessNodeDelete(n) \/ Stop(n)
  PROVE  Base'
<1>1. PICK t \in {"upgrade", "close"} :
        /\ n \in up /\ UNCHANGED <<up, watches, scheduler, isMaster, session, zk, trouble>>
        /\ Do(n, t, IF t = "upgrade" THEN UpgradeToMaster ELSE CloseNode)
        /\ told' \subseteq told
  BY DEF ProcessNodeDelete, Stop
<1>2. Listed(t, IF t = "upgrade" THEN UpgradeToMaster ELSE CloseNode)
  BY <1>1, Methods DEF Listed, UpgradeLists, CloseLists
<1>3. told' \subseteq Node
  BY <1>1, Same
<1> QED BY <1>1, <1>2, <1>3, WorkBase, Same DEF zk

\* A process dies.
LEMMA CrashBase ==
  ASSUME Base, NEW n \in Node, Crash(n)
  PROVE  Base'
BY HaltBase, Same DEF Crash, zk

\* The orders in which the watchers of n may hear of something name every
\* watcher.
LEMMA Orders ==
  ASSUME TypeOK, Lists, NEW n \in Node, NEW order \in SetToSeqs(watches[n])
  PROVE  /\ Cardinality(watches[n]) \in Nat
         /\ order \in [1..Cardinality(watches[n]) -> watches[n]]
         /\ order \in [1..Cardinality(watches[n]) -> Used]
         /\ \A w \in watches[n] : \E i \in 1..Cardinality(watches[n]) : order[i] = w
<1>1. watches[n] \subseteq Used
  BY DEF Lists
<1>2. IsFiniteSet(Used)
  <2>1. IsFiniteSet({} \cup {<<"master", "node">>})
    BY FS_EmptySet, FS_AddElement
  <2>2. IsFiniteSet(({} \cup {<<"master", "node">>}) \cup {<<"slave", "node">>})
    BY <2>1, FS_AddElement
  <2>3. IsFiniteSet((({} \cup {<<"master", "node">>}) \cup {<<"slave", "node">>})
                      \cup {<<SwitchPath, "switch">>})
    BY <2>2, FS_AddElement
  <2>4. Used = (({} \cup {<<"master", "node">>}) \cup {<<"slave", "node">>})
                      \cup {<<SwitchPath, "switch">>}
    BY DEF Used
  <2> QED BY <2>3, <2>4
<1>3. IsFiniteSet(watches[n])
  BY <1>1, <1>2, FS_Subset
<1>4. Cardinality(watches[n]) \in Nat
  BY <1>3, FS_CardinalityType
<1> DEFINE D == 1..Cardinality(watches[n])
<1>5. order \in [D -> watches[n]] /\ \A i, j \in D : i # j => order[i] # order[j]
  BY DEF SetToSeqs
<1>6. Cardinality(D) = Cardinality(watches[n])
  BY <1>4, FS_Interval
<1>7. order \in Injection(D, watches[n])
  BY <1>5, Fun_IsInj
<1>8. order \in Surjection(D, watches[n])
  BY <1>3, <1>6, <1>7, FS_Injection
<1>9. \A w \in watches[n] : \E i \in D : order[i] = w
  BY <1>8 DEF Surjection
<1> HIDE DEF D
<1>10. order \in [D -> Used]
  BY <1>1, <1>5
<1> QED BY <1>4, <1>5, <1>9, <1>10 DEF D

\* Process n gets a new session.
LEMMA NewSession ==
  ASSUME Base, NEW n \in Node, up' = up \cup {n}, owner' = owner,
         count' = count + 1, session' = [session EXCEPT ![n] = count + 1],
         live' = live \cup {count + 1},
         count + 1 + Cardinality(Lost \ {n}) <= MaxSession
  PROVE  /\ Sessions' /\ Connected(n)'
         /\ \A m \in Node \ {n} : Connected(m)' <=> Connected(m)
         /\ session' \in [Node -> 0..MaxSession] /\ live' \subseteq 1..MaxSession
         /\ count' \in 0..MaxSession
<1>0. TypeOK /\ Sessions /\ up \subseteq Node
  BY DEF Base, TypeOK
<1>1. count \in Nat /\ MaxSession \in Nat /\ session \in [Node -> 0..MaxSession]
  BY <1>0, ElectionAssumption DEF TypeOK
<1>2. /\ session'[n] = count + 1
      /\ \A m \in up \ {n} : session'[m] = session[m] /\ session[m] \in 1..count
  BY <1>0, <1>1 DEF Sessions
<1>3. \A m \in up \ {n} : session'[m] \in live' <=> session[m] \in live
  BY <1>1, <1>2
<1>4. Connected(n)' /\ \A m \in Node \ {n} : Connected(m)' <=> Connected(m)
  BY <1>2, <1>3 DEF Connected
<1>5. Lost' = Lost \ {n}
  BY <1>0, <1>4 DEF Lost
<1>6. IsFiniteSet(Lost \ {n}) /\ Cardinality(Lost \ {n}) \in Nat
  BY <1>0, LostFinite, FS_RemoveElement, FS_CardinalityType
<1>7. count' + Cardinality(Lost') <= MaxSession
  BY <1>5
<1>8. count + 1 <= MaxSession
  BY <1>1, <1>6
<1>9. session' \in [Node -> 0..MaxSession] /\ count' \in 0..MaxSession
  BY <1>1, <1>8
<1>10. live' \subseteq 1..count' /\ live' \subseteq 1..MaxSession
  BY <1>0, <1>1, <1>8 DEF Sessions
<1>11. \A m \in up' : session'[m] \in 1..count'
  BY <1>1, <1>2
<1>12. \A k, m \in up' : session'[k] = session'[m] => k = m
  <2> SUFFICES ASSUME NEW k \in up', NEW m \in up', session'[k] = session'[m] PROVE k = m
    OBVIOUS
  <2>1. \A j \in up \ {n} : session'[j] # count + 1
    BY <1>1, <1>2
  <2>2. CASE k = n \/ m = n
    BY <1>2, <2>1, <2>2
  <2>3. CASE k # n /\ m # n
    BY <1>0, <1>2, <2>3 DEF Sessions
  <2> QED BY <2>2, <2>3
<1>13. \A p \in Path : owner'[p] = 0 \/ owner'[p] \in live'
  BY <1>0 DEF Sessions
<1> QED BY <1>4, <1>7, <1>9, <1>10, <1>11, <1>12, <1>13 DEF Sessions

\* A process is started.
LEMMA StartBase ==
  ASSUME Base, NEW n \in Node, Start(n)
  PROVE  Base'
<1>0. TypeOK /\ Sessions /\ Lists
  BY DEF Base
<1>1. /\ count + Cardinality(Lost) < MaxSession /\ n \notin up
      /\ up' = up \cup {n} /\ count' = count + 1
      /\ session' = [session EXCEPT ![n] = count + 1] /\ live' = live \cup {count + 1}
      /\ watches' = [watches EXCEPT ![n] = {}] /\ told' = told \ {n}
      /\ UNCHANGED <<scheduler, isMaster, owner, data>> /\ trouble' \subseteq Troubles
  BY Same DEF Start, Room, Lost, Trouble
<1>2. Lost \ {n} = Lost
  BY <1>1 DEF Lost
<1>3. count + 1 + Cardinality(Lost \ {n}) <= MaxSession
  <2>1. count \in Nat
    BY <1>0, ElectionAssumption DEF TypeOK
  <2>2. Cardinality(Lost) \in Nat /\ MaxSession \in Nat
    BY <1>0, LostFinite
  <2>3. Cardinality(Lost \ {n}) = Cardinality(Lost) /\ count + Cardinality(Lost) < MaxSession
    BY <1>1, <1>2
  <2> QED BY <2>1, <2>2, <2>3
<1>4. /\ Sessions' /\ Connected(n)'
      /\ \A m \in Node \ {n} : Connected(m)' <=> Connected(m)
      /\ session' \in [Node -> 0..MaxSession] /\ live' \subseteq 1..MaxSession
      /\ count' \in 0..MaxSession
  BY <1>1, <1>3, NewSession
<1>5. PICK l : Do(n, "init", l) /\ Listed("init", l)
  <2>1. M4("exists") \in MasterLists /\ StartSlave \in SlaveLists
    BY Methods DEF MasterLists, SlaveLists, Sets
  <2>2. \A l \in MasterLists \cup SlaveLists : Listed("init", l)
    BY DEF Listed
  <2>3. \E l \in MasterLists \cup SlaveLists : Do(n, "init", l)
    BY <2>1, Methods DEF Start
  <2> QED BY <2>2, <2>3
<1>6. watches' \in [Node -> SUBSET Watch] /\ \A m \in Node : watches'[m] \subseteq Used
  BY <1>1, Same
<1>7. /\ Lists'
      /\ task' \in [Node -> {"idle", "init", "upgrade", "recover", "close"}]
      /\ todo' \in [Node -> Seq(Instruction)]
  BY <1>0, <1>1, <1>4, <1>5, <1>6, KeepLists
<1>8. TypeOK'
  BY <1>0, <1>1, <1>4, <1>6, <1>7 DEF TypeOK
<1> QED BY <1>4, <1>7, <1>8 DEF Base

\* A process that lost its session gets a new one, and a list of what its
\* watchers have to do.
LEMMA ExpiredBase ==
  ASSUME Base, NEW n \in Node, ProcessExpired(n)
  PROVE  Base'
<1>0. TypeOK /\ Sessions /\ Lists
  BY DEF Base
<1>1. /\ n \in up /\ session[n] \notin live /\ up' = up /\ count' = count + 1
      /\ session' = [session EXCEPT ![n] = count + 1] /\ live' = live \cup {count + 1}
      /\ watches' = [watches EXCEPT ![n] = {}]
      /\ UNCHANGED <<told, scheduler, isMaster, owner, data, trouble>>
  BY DEF ProcessExpired
<1>2. PICK order \in SetToSeqs(watches[n]) :
        Do(n, IF order = <<>> THEN "idle" ELSE "recover",
              [i \in DOMAIN order |-> Recover(order[i])])
  BY DEF ProcessExpired
<1>3. count + 1 + Cardinality(Lost \ {n}) <= MaxSession
  <2>1. n \in Lost
    BY <1>1 DEF Lost, Connected
  <2>2. Cardinality(Lost \ {n}) = Cardinality(Lost) - 1 /\ Cardinality(Lost) \in Nat
    BY <1>0, <2>1, LostFinite, FS_RemoveElement
  <2>3. count \in Nat /\ count + Cardinality(Lost) <= MaxSession /\ MaxSession \in Nat
    BY <1>0, ElectionAssumption DEF TypeOK, Sessions
  <2> QED BY <2>2, <2>3
<1>4. /\ Sessions' /\ Connected(n)'
      /\ \A m \in Node \ {n} : Connected(m)' <=> Connected(m)
      /\ session' \in [Node -> 0..MaxSession] /\ live' \subseteq 1..MaxSession
      /\ count' \in 0..MaxSession
  BY <1>1, <1>3, NewSession
<1>5. PICK t, l : Do(n, t, l) /\ Listed(t, l)
  <2> DEFINE l == [i \in DOMAIN order |-> Recover(order[i])]
  <2>1. /\ order \in [1..Cardinality(watches[n]) -> Used] /\ Cardinality(watches[n]) \in Nat
    BY <1>0, <1>2, Orders
  <2>2. \A w \in Used : Recover(w) \in Recovery
    BY DEF Recover, Recovery
  <2>3. l \in [1..Cardinality(watches[n]) -> Recovery]
    BY <2>1, <2>2
  <2>4. l \in Seq(Recovery)
    BY <2>1, <2>3, SeqDef
  <2>5. order = <<>> <=> l = <<>>
    <3>1. order \in Seq(Used)
      BY <2>1, SeqDef
    <3>2. DOMAIN l = DOMAIN order
      OBVIOUS
    <3> HIDE DEF l
    <3>3. /\ DOMAIN l = 1..Len(l) /\ DOMAIN order = 1..Len(order)
          /\ Len(l) \in Nat /\ Len(order) \in Nat
      BY <2>4, <3>1, LenProperties
    <3>4. Len(l) = 0 <=> Len(order) = 0
      <4>1. /\ 1 \in DOMAIN l <=> Len(l) # 0
            /\ 1 \in DOMAIN order <=> Len(order) # 0
        BY <3>3
      <4> QED BY <3>2, <4>1
    <3> QED BY <2>4, <3>1, <3>4, EmptySeq
  <2> HIDE DEF l
  <2>6. Listed(IF order = <<>> THEN "idle" ELSE "recover", l)
    BY <2>4, <2>5 DEF Listed
  <2> QED BY <1>2, <2>6 DEF l
<1>6. watches' \in [Node -> SUBSET Watch] /\ \A m \in Node : watches'[m] \subseteq Used
  BY <1>1, Same
<1>7. /\ Lists'
      /\ task' \in [Node -> {"idle", "init", "upgrade", "recover", "close"}]
      /\ todo' \in [Node -> Seq(Instruction)]
  BY <1>0, <1>1, <1>4, <1>5, <1>6, KeepLists
<1>8. TypeOK'
  BY <1>0, <1>1, <1>4, <1>6, <1>7 DEF TypeOK
<1> QED BY <1>4, <1>7, <1>8 DEF Base

\* The lists when no thread goes on.
LEMMA StillLists ==
  ASSUME Lists, UNCHANGED <<up, task, todo>>,
         \A m \in Node : task[m] = "recover" /\ Connected(m) => Connected(m)',
         \A m \in Node : watches'[m] \subseteq watches[m]
  PROVE  Lists'
<1> SUFFICES ASSUME NEW m \in Node
             PROVE  /\ Listed(task'[m], todo'[m])
                    /\ m \notin up' => task'[m] = "idle"
                    /\ task'[m] = "recover" => Connected(m)'
                    /\ watches'[m] \subseteq Used
  BY DEF Lists, Listed, CloseLists
<1> QED BY DEF Lists

\* A session ends whose process is gone.
LEMMA TimeoutBase ==
  ASSUME Base, NEW s \in live, SessionTimeout(s)
  PROVE  Base'
<1>0. TypeOK /\ Sessions /\ Lists
  BY DEF Base
<1>1. /\ s \in live \ {session[m] : m \in up} /\ EndSession(s) /\ trouble' \subseteq Troubles
      /\ UNCHANGED <<up, task, todo, scheduler, isMaster, session>>
  BY Same DEF SessionTimeout, Trouble
<1>2. /\ live' = live \ {s} /\ data' = data /\ count' = count
      /\ owner' \in [Path -> 0..MaxSession]
      /\ \A p \in Path : owner'[p] = 0 \/ owner'[p] \in live'
      /\ Fire({p \in Path : owner[p] = s}, TRUE)
  BY <1>0, <1>1, Ended
<1>3. /\ told' \subseteq Node /\ watches' \in [Node -> SUBSET Watch]
      /\ \A m \in Node : watches'[m] \subseteq watches[m]
  BY <1>0, <1>2, Fired
<1>4. \A m \in up : session[m] # s
  BY <1>1
<1>5. Sessions'
  BY <1>0, <1>1, <1>2, <1>4, KeepSessions
<1>6. TypeOK'
  BY <1>0, <1>1, <1>2, <1>3 DEF TypeOK
<1>7. Lists'
  BY <1>0, <1>1, <1>2, <1>3, <1>4, StillLists DEF Connected
<1> QED BY <1>5, <1>6, <1>7 DEF Base

\* A process that is alive loses its session.
LEMMA ExpireBase ==
  ASSUME Base, NEW n \in Node, Expire(n)
  PROVE  Base'
<1>0. TypeOK /\ Sessions /\ Lists
  BY DEF Base
<1>1. /\ count + Cardinality(Lost) < MaxSession /\ Connected(n) /\ task[n] # "recover"
      /\ EndSession(session[n]) /\ trouble' \subseteq Troubles
      /\ UNCHANGED <<up, task, todo, scheduler, isMaster, session>>
  BY Same DEF Expire, Trouble, Room, Lost
<1>2. /\ live' = live \ {session[n]} /\ data' = data /\ count' = count
      /\ owner' \in [Path -> 0..MaxSession]
      /\ \A p \in Path : owner'[p] = 0 \/ owner'[p] \in live'
      /\ Fire({p \in Path : owner[p] = session[n]}, TRUE)
  BY <1>0, <1>1, Ended
<1>3. /\ told' \subseteq Node /\ watches' \in [Node -> SUBSET Watch]
      /\ \A m \in Node : watches'[m] \subseteq watches[m]
  BY <1>0, <1>2, Fired
<1>4. n \in up /\ \A m \in up \ {n} : session[m] # session[n]
  BY <1>0, <1>1 DEF Connected, Sessions
<1>5. Lost' = Lost \cup {n}
  BY <1>1, <1>2, <1>4 DEF Lost, Connected
<1>6. count' + Cardinality(Lost') <= MaxSession
  <2>1. Cardinality(Lost \cup {n}) \in {Cardinality(Lost), Cardinality(Lost) + 1}
    BY <1>0, LostFinite, FS_AddElement
  <2>2. count \in Nat /\ Cardinality(Lost) \in Nat /\ MaxSession \in Nat
    BY <1>0, LostFinite, ElectionAssumption DEF TypeOK
  <2>3. count' = count /\ Cardinality(Lost') = Cardinality(Lost \cup {n})
    BY <1>2, <1>5
  <2> QED BY <1>1, <2>1, <2>2, <2>3
<1>7. Sessions'
  BY <1>0, <1>1, <1>2, <1>6 DEF Sessions
<1>8. TypeOK'
  BY <1>0, <1>1, <1>2, <1>3 DEF TypeOK
<1>9. Lists'
  BY <1>0, <1>1, <1>2, <1>3, <1>4, StillLists DEF Connected
<1> QED BY <1>7, <1>8, <1>9 DEF Base

\* Every step keeps Base.
LEMMA StepBase ==
  ASSUME Base, [Next]_vars
  PROVE  Base'
<1>1. ASSUME NEW n \in Node, Start(n) \/ Work(n) \/ Crash(n) \/ Stop(n) \/ Expire(n)
      PROVE  Base'
  <2>1. CASE Work(n)
    BY <2>1, RenewBase, CheckBase, SetBase, CreateBase, WatchBase, DeleteBase, FlagBase,
       UnserveBase, CloseBase, FailBase, BeginBase, ExpiredBase DEF Work
  <2> QED BY <1>1, <2>1, StartBase, CrashBase, BeginBase, ExpireBase
<1>2. ASSUME NEW s \in live, SessionTimeout(s)
      PROVE  Base'
  BY <1>2, TimeoutBase
<1>3. CASE UNCHANGED vars
  BY <1>3 DEF vars, process, zk, Base, TypeOK, Sessions, Lists, Lost, Connected, Listed,
              CloseLists
<1> QED BY <1>1, <1>2, <1>3 DEF Next

\* No process runs at first.
LEMMA InitBase ==
  ASSUME Init
  PROVE  Base
<1>1. (CHOOSE n \in Node : TRUE) \in Node
  BY ElectionAssumption
<1>2. TypeOK
  <2>1. todo \in [Node -> Seq(Instruction)]
    BY EmptySeq DEF Init
  <2> QED BY <1>1, <2>1, ElectionAssumption DEF Init, TypeOK
<1>3. Cardinality(Lost) = 0
  BY FS_EmptySet DEF Init, Lost
<1>4. Sessions
  BY <1>3, ElectionAssumption DEF Init, Sessions, Path
<1>5. Lists
  BY DEF Init, Lists, Listed, Connected
<1> QED BY <1>2, <1>4, <1>5 DEF Base

(* Types, for any number of processes of either kind and whatever happens   *)
(* to them: the lists of requests of the methods of the cluster managers    *)
(* stay lists of requests, the processes that serve and the masters run,    *)
(* and the bound on the sessions is kept, because processes reconnect only  *)
(* in place of the sessions they lost.                                      *)
THEOREM TypeCorrect == Spec => []TypeOK
<1>1. Init => Base
  BY InitBase
<1>2. Base /\ [Next]_vars => Base'
  BY StepBase
<1>3. Base => TypeOK
  BY DEF Base
<1> QED BY <1>1, <1>2, <1>3, PTL DEF Spec

-----------------------------------------------------------------------------
(* Two engines: at most one serves. *)

\* What a slave watches, and what it has to do.
SlaveUsed     == {<<"slave", "node">>, <<"master", "switch">>}
SlaveRecovery == (Sets \X {"slave"})
                   \cup {<<"renew", <<"slave", "node">>>>, WatchSlave, WatchSwitch}

\* The StatusSwitchWatcher is still to be set.
Pending(l) == \E i \in DOMAIN l : l[i] = WatchSwitch

\* What has happened is what OneMaster allows.
Calm     == trouble \subseteq {"slaveExpired"}
Alone(n) == up = {n}
Held(n)  == Connected(n) /\ owner["master"] = session[n]

\* Any process that runs, while all is calm, is in one of five roles.  A
\* master has the znode, and keeps it as long as it serves.
Master(n) == task[n] = "idle" /\ Held(n) /\ n \in isMaster /\ n \notin told

\* A slave does not serve.  The master znode is there, it belongs to the other
\* process or to one that has died, and the slave will hear of its deletion.
Slave(n) ==
  /\ task[n] \in {"idle", "init", "recover"} /\ todo[n] \in Seq(SlaveRecovery)
  /\ n \notin scheduler \cup isMaster \cup told
  /\ Exists("master") /\ owner["master"] # session[n]
  /\ \A m \in up \ {n} : owner["master"] = session[m]
  /\ <<"master", "switch">> \in watches[n] \/ Pending(todo[n])
  /\ watches[n] \subseteq SlaveUsed

\* An heir has heard of the deletion and is alone.
Heir(n) ==
  /\ task[n] = "idle" /\ n \in told /\ n \notin scheduler \cup isMaster
  /\ Alone(n) /\ Connected(n) /\ ~Exists("master")

\* A process on its way to be master is alone, too, and finds no master znode.
Taker(n) ==
  /\ Alone(n) /\ Connected(n) /\ n \notin told
  /\ \/ task[n] = "init" /\ todo[n] \in {M4("exists"), M4("create")} /\ ~Exists("master")
     \/ task[n] = "init" /\ todo[n] \in {M3, M2} /\ Held(n)
     \/ task[n] = "init" /\ todo[n] = M1 /\ Held(n) /\ n \in isMaster
     \/ task[n] = "upgrade" /\ todo[n] \in {U5, U4("exists"), U4("create")} /\ ~Exists("master")
     \/ task[n] = "upgrade" /\ todo[n] \in {U3, U2, U1} /\ Held(n)

\* A process that stops stops serving before it gives up its session.
Closer(n) ==
  /\ task[n] = "close"
  /\ n \in scheduler => todo[n] = C2 /\ (Held(n) \/ Alone(n))

Role(n) == Master(n) \/ Slave(n) \/ Heir(n) \/ Taker(n) \/ Closer(n)
Roles   == Calm => \A n \in up : Role(n)

\* Two processes that serve would both have the master znode.
LEMMA RolesSuffice ==
  ASSUME Base, Roles
  PROVE  OneMaster
<1> SUFFICES ASSUME Calm PROVE Cardinality(scheduler) <= 1
  BY DEF OneMaster, Calm
<1>1. scheduler \subseteq up /\ \A n, m \in up : session[n] = session[m] => n = m
  BY DEF Base, TypeOK, Sessions
<1>2. \A n \in scheduler : Held(n) \/ Alone(n)
  BY <1>1 DEF Roles, Role, Master, Slave, Heir, Taker, Closer
<1>3. \A n, m \in scheduler : n = m
  BY <1>1, <1>2 DEF Held, Alone
<1>4. CASE scheduler = {}
  BY <1>4, FS_EmptySet
<1>5. CASE scheduler # {}
  <2>1. PICK n : scheduler = {n}
    BY <1>3, <1>5
  <2> QED BY <2>1, FS_Singleton
<1> QED BY <1>4, <1>5

\* Process m has no part in the step.
Untouched(m) ==
  /\ task'[m] = task[m] /\ todo'[m] = todo[m] /\ session'[m] = session[m]
  /\ m \in scheduler' => m \in scheduler
  /\ m \in isMaster' <=> m \in isMaster
  /\ m \in told' <=> m \in told
  /\ watches'[m] \subseteq watches[m]
  /\ <<"master", "switch">> \in watches[m] => <<"master", "switch">> \in watches'[m]
  /\ owner'["master"] = owner["master"]
  /\ session[m] \in live => session[m] \in live'

\* A process beside another keeps its role when it has no part in the step.
LEMMA OtherRole ==
  ASSUME NEW n \in up, NEW m \in up', m # n, up' \subseteq up, Role(m), Untouched(m),
         Slave(m) => \A k \in up' : session'[k] = session[k]
  PROVE  Role(m)'
<1>1. ~Alone(m)
  BY DEF Alone
<1>2. CASE Master(m)
  BY <1>2 DEF Untouched, Role, Master, Held, Connected
<1>3. CASE Slave(m)
  BY <1>3 DEF Untouched, Role, Slave, Exists, Pending
<1>4. CASE Closer(m)
  BY <1>1, <1>4 DEF Untouched, Role, Closer, Held, Connected
<1> QED BY <1>1, <1>2, <1>3, <1>4 DEF Role, Heir, Taker

\* A step of n in which others have no part.
LEMMA Combine ==
  ASSUME Base, Roles, Calm, NEW n \in up, up' \subseteq up, n \in up' => Role(n)',
         \A m \in up \ {n} : Untouched(m),
         \A m \in up \ {n} : Slave(m) => \A k \in up' : session'[k] = session[k]
  PROVE  Roles'
<1> SUFFICES ASSUME NEW m \in up', m # n PROVE Role(m)'
  BY DEF Roles
<1> QED BY OtherRole DEF Roles

\* Lists with the StatusSwitchWatcher on them.
LEMMA PendingLists ==
  ASSUME NEW S, NEW l \in Seq(S)
  PROVE  /\ ~Pending(<<>>)
         /\ l # <<>> /\ Pending(l) => Head(l) = WatchSwitch \/ Pending(Tail(l))
         /\ \A s \in Seq(S) : Pending(l) => Pending(s \o l)
<1>1. ~Pending(<<>>)
  BY DEF Pending
<1>2. ASSUME l # <<>>, Pending(l)
      PROVE  Head(l) = WatchSwitch \/ Pending(Tail(l))
  <2>1. PICK i \in DOMAIN l : l[i] = WatchSwitch
    BY <1>2 DEF Pending
  <2>2. /\ DOMAIN l = 1..Len(l) /\ Len(l) \in Nat /\ Head(l) = l[1]
        /\ Tail(l) \in Seq(S) /\ Len(Tail(l)) = Len(l) - 1
        /\ \A j \in 1..Len(Tail(l)) : Tail(l)[j] = l[j + 1]
    BY <1>2, HeadTailProperties, LenProperties
  <2>3. DOMAIN Tail(l) = 1..Len(Tail(l))
    BY <2>2, LenProperties
  <2>4. CASE i = 1
    BY <2>1, <2>2, <2>4
  <2>5. CASE i # 1
    <3>1. i - 1 \in 1..Len(Tail(l)) /\ (i - 1) + 1 = i
      BY <2>2, <2>5
    <3>2. Tail(l)[i - 1] = WatchSwitch
      BY <2>1, <2>2, <3>1
    <3> QED BY <2>3, <3>1, <3>2 DEF Pending
  <2> QED BY <2>4, <2>5
<1>3. ASSUME NEW s \in Seq(S), Pending(l)
      PROVE  Pending(s \o l)
  <2>1. PICK i \in DOMAIN l : l[i] = WatchSwitch
    BY <1>3 DEF Pending
  <2>2. /\ DOMAIN l = 1..Len(l) /\ Len(l) \in Nat /\ Len(s) \in Nat
        /\ s \o l \in Seq(S) /\ Len(s \o l) = Len(s) + Len(l)
        /\ \A j \in 1..(Len(s) + Len(l)) :
             (s \o l)[j] = IF j <= Len(s) THEN s[j] ELSE l[j - Len(s)]
    BY ConcatProperties, LenProperties
  <2>3. DOMAIN (s \o l) = 1..(Len(s) + Len(l))
    BY <2>2, LenProperties
  <2>4. i + Len(s) \in 1..(Len(s) + Len(l)) /\ ~(i + Len(s) <= Len(s)) /\ (i + Len(s)) - Len(s) = i
    BY <2>2
  <2>5. (s \o l)[i + Len(s)] = WatchSwitch
    BY <2>1, <2>2, <2>4
  <2> QED BY <2>3, <2>4, <2>5 DEF Pending
<1> QED BY <1>1, <1>2, <1>3

\* What a process may have to do in its role.
LEMMA Doing ==
  ASSUME Base, Roles, Calm, Kind = "engine", NEW n \in Node, todo[n] # <<>>
  PROVE  /\ n \in up /\ Role(n)
         /\ Slave(n) \/ Taker(n) \/ (Closer(n) /\ todo[n] \in {C2, C1})
         /\ todo[n] \in {C2, C1} => Head(todo[n])[1] \in {"unserve", "close"}
<1>1. n \in up /\ Listed(task[n], todo[n]) /\ task[n] # "idle"
  BY AtWork
<1>2. Role(n)
  BY <1>1 DEF Roles
<1>3. Closer(n) => todo[n] \in {C2, C1}
  BY <1>1 DEF Closer, Listed, CloseLists
<1>4. todo[n] \in {C2, C1} => Head(todo[n])[1] \in {"unserve", "close"}
  BY Heads, Requests
<1> QED BY <1>1, <1>2, <1>3, <1>4 DEF Role, Master, Heir

\* The requests of a slave are about the slave znode, or set its watches.
LEMMA SlaveHead ==
  ASSUME NEW l \in Seq(SlaveRecovery), l # <<>>
  PROVE  /\ Head(l)[1] \in {"exists", "setData", "create", "renew", "watch"}
         /\ Head(l)[1] \in Sets => Head(l)[2] = "slave" /\ Head(l) # WatchSwitch
         /\ Head(l)[1] = "renew" => Head(l)[2] = <<"slave", "node">> /\ Head(l) # WatchSwitch
         /\ Head(l)[1] = "watch" => Head(l) \in {WatchSlave, WatchSwitch}
         /\ Tail(l) \in Seq(SlaveRecovery)
         /\ Pending(l) => Head(l) = WatchSwitch \/ Pending(Tail(l))
<1>1. Head(l) \in SlaveRecovery /\ Tail(l) \in Seq(SlaveRecovery)
  BY HeadTailProperties
<1>2. Pending(l) => Head(l) = WatchSwitch \/ Pending(Tail(l))
  BY PendingLists
<1>3. CASE Head(l) \in Sets \X {"slave"}
  BY <1>1, <1>2, <1>3, Requests DEF Sets
<1>4. CASE Head(l) = <<"renew", <<"slave", "node">>>>
  BY <1>1, <1>2, <1>4, Requests DEF Sets
<1>5. CASE Head(l) \in {WatchSlave, WatchSwitch}
  BY <1>1, <1>2, <1>5, Requests DEF Sets
<1> QED BY <1>1, <1>3, <1>4, <1>5 DEF SlaveRecovery

\* How far a process that takes over has come.
LEMMA TakerHead ==
  ASSUME NEW n, Taker(n)
  PROVE  LET h == Head(todo[n])[1] IN
         /\ todo[n] # <<>> /\ h \in {"exists", "create", "watch", "delete", "flag", "serve"}
         /\ h = "exists" => /\ ~Exists("master")
                           /\ \/ task[n] = "init" /\ todo[n] = M4("exists")
                              \/ task[n] = "upgrade" /\ todo[n] = U4("exists")
         /\ h = "create" => /\ ~Exists("master")
                           /\ \/ task[n] = "init" /\ todo[n] = M4("create")
                              \/ task[n] = "upgrade" /\ todo[n] = U4("create")
         /\ h = "watch" => /\ Held(n)
                          /\ \/ task[n] = "init" /\ todo[n] = M3
                             \/ task[n] = "upgrade" /\ todo[n] = U3
         /\ h = "delete" => Held(n) /\ task[n] = "upgrade" /\ todo[n] = U2
         /\ h = "flag" => /\ Held(n)
                         /\ \/ task[n] = "init" /\ todo[n] = M2
                            \/ task[n] = "upgrade" /\ todo[n] = U1
         /\ h = "serve" => \/ Held(n) /\ n \in isMaster /\ task[n] = "init" /\ todo[n] = M1
                           \/ ~Exists("master") /\ task[n] = "upgrade" /\ todo[n] = U5
<1> DEFINE h == Head(todo[n])[1]
<1>1. /\ Head(M4("exists"))[1] = "exists" /\ Head(M4("create"))[1] = "create"
      /\ M4("exists") # <<>> /\ M4("create") # <<>>
      /\ Head(U4("exists"))[1] = "exists" /\ Head(U4("create"))[1] = "create"
      /\ U4("exists") # <<>> /\ U4("create") # <<>>
  <2>1. \A o : Head(M4(o)) = <<o, "master">> /\ M4(o) # <<>>
    BY Heads
  <2>2. \A o : Head(U4(o)) = <<o, "master">> /\ U4(o) # <<>>
    BY Heads
  <2>3. \A o, p : <<o, p>>[1] = o
    BY Requests
  <2> QED BY <2>1, <2>2, <2>3
<1>2. /\ Head(M3)[1] = "watch" /\ Head(M2)[1] = "flag" /\ Head(M1)[1] = "serve"
      /\ M3 # <<>> /\ M2 # <<>> /\ M1 # <<>>
  BY Heads, Requests
<1>3. /\ Head(U5)[1] = "serve" /\ Head(U3)[1] = "watch" /\ Head(U2)[1] = "delete"
      /\ Head(U1)[1] = "flag" /\ U5 # <<>> /\ U3 # <<>> /\ U2 # <<>> /\ U1 # <<>>
  BY Heads, Requests
<1>4. CASE task[n] = "init" /\ todo[n] \in {M4("exists"), M4("create")} /\ ~Exists("master")
  BY <1>1, <1>4
<1>5. CASE task[n] = "init" /\ todo[n] \in {M3, M2} /\ Held(n)
  BY <1>2, <1>5
<1>6. CASE task[n] = "init" /\ todo[n] = M1 /\ Held(n) /\ n \in isMaster
  BY <1>2, <1>6
<1>7. CASE task[n] = "upgrade" /\ todo[n] \in {U5, U4("exists"), U4("create")} /\ ~Exists("master")
  BY <1>1, <1>3, <1>7
<1>8. CASE task[n] = "upgrade" /\ todo[n] \in {U3, U2, U1} /\ Held(n)
  BY <1>3, <1>8
<1> QED BY <1>4, <1>5, <1>6, <1>7, <1>8 DEF Taker

\* A slave stays slave when it goes on with its list.
LEMMA SlaveGoesOn ==
  ASSUME Base, NEW n \in Node, Slave(n),
         NEW t \in {"idle", "init", "recover"}, NEW l \in Seq(SlaveRecovery), Do(n, t, l),
         UNCHANGED <<up, session, scheduler, isMaster>>, owner'["master"] = owner["master"],
         n \notin told', watches'[n] \subseteq SlaveUsed,
         <<"master", "switch">> \in watches'[n] \/ Pending(l)
  PROVE  Slave(n)'
<1>1. task'[n] = t /\ todo'[n] = l
  BY DEF Do, Base, TypeOK
<1> QED BY <1>1 DEF Slave, Exists, Pending

\* The switch of an engine.
LEMMA EngineSwitch ==
  ASSUME Kind = "engine"
  PROVE  SwitchPath = "master" /\ WatchSwitch[2] = <<"master", "switch">>
BY Requests DEF SwitchPath

\* What answering the first request does to the task and the list.
LEMMA Answered ==
  ASSUME Base, NEW n \in Node, NEW op, NEW rest, Does(n, op, rest)
  PROVE  /\ todo[n] # <<>> /\ Head(todo[n])[1] = op /\ Granted(n)
         /\ UNCHANGED <<up, session, trouble>>
         /\ Do(n, IF rest = <<>> THEN "idle" ELSE task[n], rest)
         /\ task'[n] = (IF rest = <<>> THEN "idle" ELSE task[n]) /\ todo'[n] = rest
         /\ \A m \in Node \ {n} : task'[m] = task[m] /\ todo'[m] = todo[m]
BY DEF Does, Do, Base, TypeOK

\* A slave about to renew a watcher.
LEMMA RenewRoles ==
  ASSUME Base, Roles, Calm, Kind = "engine", NEW n \in Node, Renew(n)
  PROVE  Roles'
<1> DEFINE w    == Head(todo[n])[2]
           rest == CreateZNode(w[1]) \o << <<"watch", w>> >> \o Tail(todo[n])
<1>1. Does(n, "renew", rest) /\ UNCHANGED <<told, watches, scheduler, isMaster, zk>>
  BY DEF Renew
<1> HIDE DEF rest
<1>2. /\ todo[n] # <<>> /\ Head(todo[n])[1] = "renew" /\ UNCHANGED <<up, session>>
      /\ Do(n, IF rest = <<>> THEN "idle" ELSE task[n], rest)
      /\ \A m \in Node \ {n} : task'[m] = task[m] /\ todo'[m] = todo[m]
  BY <1>1, Answered
<1>3. n \in up /\ (Slave(n) \/ Taker(n))
  BY <1>2, Doing
<1>4. Slave(n)
  BY <1>2, <1>3, TakerHead
<1>5. /\ w = <<"slave", "node">> /\ Tail(todo[n]) \in Seq(SlaveRecovery)
      /\ Pending(todo[n]) => Pending(Tail(todo[n]))
  BY <1>2, <1>4, SlaveHead DEF Slave
<1>6. CreateZNode(w[1]) \o << <<"watch", w>> >> = << <<"exists", "slave">>, WatchSlave >>
  BY <1>5, Concatenations DEF CreateZNode, WatchSlave
<1>7. << <<"exists", "slave">>, WatchSlave >> \in Seq(SlaveRecovery)
  BY TupleSeq DEF SlaveRecovery, Sets
<1>8. rest \in Seq(SlaveRecovery) /\ (Pending(todo[n]) => Pending(rest))
  BY <1>5, <1>6, <1>7, PendingLists, ConcatProperties DEF rest
<1>9. Slave(n)'
  <2>1. PICK t \in {"idle", "init", "recover"} : Do(n, t, rest)
    BY <1>2, <1>4 DEF Slave
  <2> QED BY <1>1, <1>2, <1>4, <1>8, <2>1, SlaveGoesOn DEF Slave, zk
<1>10. \A m \in up \ {n} : Untouched(m)
  BY <1>1, <1>2, Same DEF Untouched, zk
<1> QED BY <1>2, <1>3, <1>9, <1>10, Combine DEF Role

\* A look at the znode.  A process that takes over finds no master.
LEMMA CheckRoles ==
  ASSUME Base, Roles, Calm, Kind = "engine", NEW n \in Node, CheckZNode(n)
  PROVE  Roles'
<1> DEFINE p    == Head(todo[n])[2]
           o    == IF Exists(p) THEN "setData" ELSE "create"
           x    == <<o, p>>
           rest == <<x>> \o Tail(todo[n])
<1>1. Does(n, "exists", rest) /\ UNCHANGED <<told, watches, scheduler, isMaster, zk>>
  BY DEF CheckZNode
<1> HIDE DEF rest
<1>2. /\ todo[n] # <<>> /\ Head(todo[n])[1] = "exists" /\ UNCHANGED <<up, session>>
      /\ Do(n, IF rest = <<>> THEN "idle" ELSE task[n], rest)
      /\ task'[n] = (IF rest = <<>> THEN "idle" ELSE task[n]) /\ todo'[n] = rest
      /\ \A m \in Node \ {n} : task'[m] = task[m] /\ todo'[m] = todo[m]
  BY <1>1, Answered
<1>3. n \in up /\ (Slave(n) \/ Taker(n))
  BY <1>2, Doing
<1>5. ASSUME Slave(n) PROVE Role(n)'
  <2>1. /\ p = "slave" /\ Tail(todo[n]) \in Seq(SlaveRecovery)
        /\ Pending(todo[n]) => Pending(Tail(todo[n]))
    BY <1>2, <1>5, SlaveHead DEF Slave, Sets
  <2>2. x \in SlaveRecovery
    BY <2>1 DEF SlaveRecovery, Sets
  <2> HIDE DEF x
  <2>3. <<x>> \in Seq(SlaveRecovery)
    BY <2>2
  <2>4. rest \in Seq(SlaveRecovery) /\ (Pending(todo[n]) => Pending(rest))
    BY <2>1, <2>3, PendingLists, ConcatProperties DEF rest
  <2>5. PICK t \in {"idle", "init", "recover"} : Do(n, t, rest)
    BY <1>2, <1>5 DEF Slave
  <2>6. /\ n \notin told' /\ watches'[n] \subseteq SlaveUsed /\ owner'["master"] = owner["master"]
        /\ <<"master", "switch">> \in watches'[n] \/ Pending(rest)
        /\ UNCHANGED <<up, session, scheduler, isMaster>>
    BY <1>1, <1>2, <1>5, <2>4 DEF Slave, zk
  <2>7. Slave(n)'
    BY <1>5, <2>4, <2>5, <2>6, SlaveGoesOn
  <2> QED BY <2>7 DEF Role
<1>6. ASSUME Taker(n) PROVE Role(n)'
  <2>1. \/ task[n] = "init" /\ todo[n] = M4("exists")
        \/ task[n] = "upgrade" /\ todo[n] = U4("exists")
    BY <1>2, <1>6, TakerHead
  <2>2. Head(todo[n]) = <<"exists", "master">>
    BY <2>1, Heads
  <2>3. ~Exists("master")
    BY <1>2, <1>6, TakerHead
  <2>4. x = <<"create", "master">>
    BY <2>2, <2>3
  <2>5. \/ task[n] = "init" /\ rest = M4("create")
        \/ task[n] = "upgrade" /\ rest = U4("create")
    <3>1. M3 = Tail(M4("exists")) /\ U3 = Tail(U4("exists"))
      BY Heads
    <3> HIDE DEF x
    <3> QED BY <2>1, <2>4, <3>1, Checked DEF rest
  <2>6. rest # <<>>
    BY <2>5, Heads
  <2>7. \/ task'[n] = "init" /\ todo'[n] = M4("create")
        \/ task'[n] = "upgrade" /\ todo'[n] = U4("create")
    BY <1>2, <2>5, <2>6
  <2>8. Alone(n)' /\ Connected(n)' /\ n \notin told' /\ ~Exists("master")'
    BY <1>1, <1>2, <1>6, <2>3 DEF Taker, Alone, Connected, Exists, zk
  <2>9. Taker(n)'
    BY <2>7, <2>8 DEF Taker
  <2> QED BY <2>9 DEF Role
<1>7. \A m \in up \ {n} : Untouched(m)
  BY <1>1, <1>2, Same DEF Untouched, zk
<1> QED BY <1>2, <1>3, <1>5, <1>6, <1>7, Combine

\* Changes of the slave znode do not reach a StatusSwitchWatcher.
LEMMA SlaveFired ==
  ASSUME Base, Kind = "engine", NEW ps, NEW d \in BOOLEAN, Fire(ps, d), "master" \notin ps
  PROVE  /\ told' = told
         /\ \A m \in Node : watches'[m] \subseteq watches[m]
         /\ \A m \in Node : <<"master", "switch">> \in watches[m]
                              => <<"master", "switch">> \in watches'[m]
<1>1. TypeOK /\ \A m \in Node : watches[m] \subseteq Used
  BY DEF Base, Lists
<1>2. \A m \in Node : \A p \in ps : <<p, "switch">> \notin watches[m]
  BY <1>1, EngineSwitch DEF Used
<1>3. told' = told
  BY <1>1, <1>2, Fired
<1>4. \A m \in Node : \A w \in watches[m] : w[1] \notin ps => w \in watches'[m]
  BY <1>1, Fired
<1>5. <<"master", "switch">>[1] = "master"
  OBVIOUS
<1> QED BY <1>1, <1>3, <1>4, <1>5, Fired

\* Overwriting: only a slave does that, with its own znode.
LEMMA SetRoles ==
  ASSUME Base, Roles, Calm, Kind = "engine", NEW n \in Node, SetZNode(n)
  PROVE  Roles'
<1> DEFINE p == Head(todo[n])[2]
           l == Tail(todo[n])
<1>1. /\ Does(n, "setData", l) /\ UNCHANGED <<scheduler, isMaster, owner, live, count>>
      /\ Fire({p}, FALSE)
  BY DEF SetZNode
<1>2. /\ todo[n] # <<>> /\ Head(todo[n])[1] = "setData" /\ UNCHANGED <<up, session>>
      /\ Do(n, IF l = <<>> THEN "idle" ELSE task[n], l)
      /\ \A m \in Node \ {n} : task'[m] = task[m] /\ todo'[m] = todo[m]
  BY <1>1, Answered
<1>3. n \in up /\ (Slave(n) \/ Taker(n))
  BY <1>2, Doing
<1>4. Slave(n)
  BY <1>2, <1>3, TakerHead
<1>5. p = "slave" /\ l \in Seq(SlaveRecovery) /\ (Pending(todo[n]) => Pending(l))
  BY <1>2, <1>4, SlaveHead DEF Slave, Sets
<1>6. /\ told' = told /\ \A m \in Node : watches'[m] \subseteq watches[m]
      /\ \A m \in Node : <<"master", "switch">> \in watches[m]
                           => <<"master", "switch">> \in watches'[m]
  BY <1>1, <1>5, SlaveFired
<1>7. Slave(n)'
  <2>1. PICK t \in {"idle", "init", "recover"} : Do(n, t, l)
    BY <1>2, <1>4 DEF Slave
  <2>2. /\ n \notin told' /\ watches'[n] \subseteq SlaveUsed
        /\ <<"master", "switch">> \in watches'[n] \/ Pending(l)
    BY <1>4, <1>5, <1>6 DEF Slave
  <2> QED BY <1>1, <1>2, <1>4, <1>5, <2>1, <2>2, SlaveGoesOn
<1>8. \A m \in up \ {n} : Untouched(m)
  BY <1>1, <1>2, <1>6, Same DEF Untouched
<1> QED BY <1>2, <1>3, <1>7, <1>8, Combine DEF Role

\* Creating: a slave creates the slave znode, and a process that takes over
\* gets the master znode.
LEMMA CreateRoles ==
  ASSUME Base, Roles, Calm, Kind = "engine", NEW n \in Node, CreateEphemeral(n)
  PROVE  Roles'
<1> DEFINE p == Head(todo[n])[2]
           l == Tail(todo[n])
<1>1. /\ Does(n, "create", l) /\ UNCHANGED <<scheduler, isMaster, live, count>>
      /\ owner' = [owner EXCEPT ![p] = session[n]] /\ Fire({p}, FALSE)
  BY DEF CreateEphemeral
<1>2. /\ todo[n] # <<>> /\ Head(todo[n])[1] = "create" /\ UNCHANGED <<up, session>>
      /\ Do(n, IF l = <<>> THEN "idle" ELSE task[n], l)
      /\ task'[n] = (IF l = <<>> THEN "idle" ELSE task[n]) /\ todo'[n] = l
      /\ \A m \in Node \ {n} : task'[m] = task[m] /\ todo'[m] = todo[m]
  BY <1>1, Answered
<1>3. n \in up /\ (Slave(n) \/ Taker(n))
  BY <1>2, Doing
<1>4. owner \in [Path -> 0..MaxSession] /\ "master" \in Path
  BY Same DEF Path
<1>5. CASE Slave(n)
  <2>1. p = "slave" /\ l \in Seq(SlaveRecovery) /\ (Pending(todo[n]) => Pending(l))
    BY <1>2, <1>5, SlaveHead DEF Slave, Sets
  <2>2. /\ told' = told /\ \A m \in Node : watches'[m] \subseteq watches[m]
        /\ \A m \in Node : <<"master", "switch">> \in watches[m]
                             => <<"master", "switch">> \in watches'[m]
    BY <1>1, <2>1, SlaveFired
  <2>3. owner'["master"] = owner["master"]
    BY <1>1, <1>4, <2>1
  <2>4. PICK t \in {"idle", "init", "recover"} : Do(n, t, l)
    BY <1>2, <1>5 DEF Slave
  <2>5. /\ n \notin told' /\ watches'[n] \subseteq SlaveUsed
        /\ <<"master", "switch">> \in watches'[n] \/ Pending(l)
    BY <1>5, <2>1, <2>2 DEF Slave
  <2>6. Slave(n)'
    BY <1>1, <1>2, <1>5, <2>1, <2>3, <2>4, <2>5, SlaveGoesOn
  <2>7. \A m \in up \ {n} : Untouched(m)
    BY <1>1, <1>2, <2>2, <2>3, Same DEF Untouched
  <2> QED BY <1>2, <1>3, <2>6, <2>7, Combine DEF Role
<1>6. CASE Taker(n)
  <2>1. \/ task[n] = "init" /\ todo[n] = M4("create")
        \/ task[n] = "upgrade" /\ todo[n] = U4("create")
    BY <1>2, <1>6, TakerHead
  <2>2. Head(todo[n]) = <<"create", "master">> /\ l # <<>>
        /\ ((task[n] = "init" /\ l = M3) \/ (task[n] = "upgrade" /\ l = U3))
    BY <2>1, Heads
  <2>3. p = "master"
    BY <2>2
  <2>4. owner'["master"] = session[n]
    BY <1>1, <1>4, <2>3
  <2>5. told' = told
    BY <1>1, Same DEF Fire
  <2>6. Alone(n)' /\ Connected(n)' /\ n \notin told' /\ Held(n)'
    BY <1>1, <1>2, <1>6, <2>4, <2>5 DEF Taker, Alone, Connected, Held
  <2>7. (task'[n] = "init" /\ todo'[n] = M3) \/ (task'[n] = "upgrade" /\ todo'[n] = U3)
    BY <1>2, <2>2
  <2>8. Taker(n)'
    BY <2>6, <2>7 DEF Taker
  <2>9. up = {n}
    BY <1>6 DEF Taker, Alone
  <2> QED BY <1>2, <1>3, <2>8, <2>9, Combine DEF Role
<1> QED BY <1>3, <1>5, <1>6

\* Setting a watch: that of the StatusSwitchWatcher ends the wait for it.
LEMMA WatchRoles ==
  ASSUME Base, Roles, Calm, Kind = "engine", NEW n \in Node, AddWatcher(n)
  PROVE  Roles'
<1> DEFINE l == Tail(todo[n])
<1>1. /\ Does(n, "watch", l) /\ watches' = [watches EXCEPT ![n] = @ \cup {Head(todo[n])[2]}]
      /\ UNCHANGED <<told, scheduler, isMaster, owner, live>>
  BY DEF AddWatcher, zk
<1>2. /\ todo[n] # <<>> /\ Head(todo[n])[1] = "watch" /\ UNCHANGED <<up, session>>
      /\ Do(n, IF l = <<>> THEN "idle" ELSE task[n], l)
      /\ task'[n] = (IF l = <<>> THEN "idle" ELSE task[n]) /\ todo'[n] = l
      /\ \A m \in Node \ {n} : task'[m] = task[m] /\ todo'[m] = todo[m]
  BY <1>1, Answered
<1>3. n \in up /\ (Slave(n) \/ Taker(n))
  BY <1>2, Doing
<1>4. /\ watches'[n] = watches[n] \cup {Head(todo[n])[2]}
      /\ \A m \in Node \ {n} : watches'[m] = watches[m]
  BY <1>1, Same
<1>5. ASSUME Slave(n) PROVE Role(n)'
  <2>1. /\ Head(todo[n]) \in {WatchSlave, WatchSwitch} /\ l \in Seq(SlaveRecovery)
        /\ Pending(todo[n]) => Head(todo[n]) = WatchSwitch \/ Pending(l)
    BY <1>2, <1>5, SlaveHead DEF Slave
  <2>2. /\ WatchSlave[2] = <<"slave", "node">>
        /\ WatchSwitch[2] = <<"master", "switch">>
    BY EngineSwitch, Requests
  <2>3. PICK t \in {"idle", "init", "recover"} : Do(n, t, l)
    BY <1>2, <1>5 DEF Slave
  <2>4. /\ n \notin told' /\ watches'[n] \subseteq SlaveUsed
        /\ <<"master", "switch">> \in watches'[n] \/ Pending(l)
    BY <1>1, <1>4, <1>5, <2>1, <2>2 DEF Slave, SlaveUsed
  <2>5. Slave(n)'
    BY <1>1, <1>2, <1>5, <2>1, <2>3, <2>4, SlaveGoesOn
  <2> QED BY <2>5 DEF Role
<1>6. ASSUME Taker(n) PROVE Role(n)'
  <2>1. /\ Held(n) /\ ((task[n] = "init" /\ todo[n] = M3) \/ (task[n] = "upgrade" /\ todo[n] = U3))
    BY <1>2, <1>6, TakerHead
  <2>2. /\ l # <<>>
        /\ ((task[n] = "init" /\ l = M2) \/ (task[n] = "upgrade" /\ l = U2))
    BY <2>1, Heads
  <2>3. (task'[n] = "init" /\ todo'[n] = M2) \/ (task'[n] = "upgrade" /\ todo'[n] = U2)
    BY <1>2, <2>2
  <2>4. Alone(n)' /\ Connected(n)' /\ n \notin told' /\ Held(n)'
    BY <1>1, <1>2, <1>6, <2>1 DEF Taker, Alone, Connected, Held
  <2>5. Taker(n)'
    BY <2>3, <2>4 DEF Taker
  <2> QED BY <2>5 DEF Role
<1>7. \A m \in up \ {n} : Untouched(m)
  BY <1>1, <1>2, <1>4, Same DEF Untouched
<1> QED BY <1>2, <1>3, <1>5, <1>6, <1>7, Combine

\* The slave znode is deleted by a process that has taken over.
LEMMA DeleteRoles ==
  ASSUME Base, Roles, Calm, Kind = "engine", NEW n \in Node, DeleteSlaveZNode(n)
  PROVE  Roles'
<1> DEFINE l == Tail(todo[n])
           p == Head(todo[n])[2]
<1>1. /\ Does(n, "delete", l) /\ UNCHANGED <<scheduler, isMaster, live>> /\ Fire({p}, TRUE)
      /\ owner' = [q \in Path |-> IF q \in {p} THEN 0 ELSE owner[q]]
  BY DEF DeleteSlaveZNode, RemoveZNodes
<1>2. /\ todo[n] # <<>> /\ Head(todo[n])[1] = "delete" /\ UNCHANGED <<up, session>>
      /\ task'[n] = (IF l = <<>> THEN "idle" ELSE task[n]) /\ todo'[n] = l
  BY <1>1, Answered
<1>3. n \in up /\ (Slave(n) \/ Taker(n))
  BY <1>2, Doing
<1>4. Taker(n)
  BY <1>2, <1>3, SlaveHead DEF Slave
<1>5. Held(n) /\ task[n] = "upgrade" /\ todo[n] = U2
  BY <1>2, <1>4, TakerHead
<1>6. l = U1 /\ l # <<>> /\ Head(todo[n]) = DeleteSlave
  BY <1>5, Heads
<1>7. p = "slave"
  BY <1>6, Requests
<1>8. told' = told
  BY <1>1, <1>7, SlaveFired
<1>9. owner'["master"] = owner["master"]
  BY <1>1, <1>7 DEF Path
<1>10. Alone(n)' /\ Connected(n)' /\ n \notin told' /\ Held(n)'
  BY <1>1, <1>2, <1>4, <1>5, <1>8, <1>9 DEF Taker, Alone, Connected, Held
<1>11. task'[n] = "upgrade" /\ todo'[n] = U1
  BY <1>2, <1>5, <1>6
<1>12. Taker(n)'
  BY <1>10, <1>11 DEF Taker
<1>13. up = {n}
  BY <1>4 DEF Taker, Alone
<1> QED BY <1>2, <1>3, <1>12, <1>13, Combine DEF Role

\* The last step of upgradeToMaster, and one of initialize.
LEMMA FlagRoles ==
  ASSUME Base, Roles, Calm, Kind = "engine", NEW n \in Node, BecomeMaster(n)
  PROVE  Roles'
<1> DEFINE l == Tail(todo[n])
<1>1. /\ Does(n, "flag", l) /\ isMaster' = isMaster \cup {n}
      /\ UNCHANGED <<told, watches, scheduler, owner, live>>
  BY DEF BecomeMaster, zk
<1>2. /\ todo[n] # <<>> /\ Head(todo[n])[1] = "flag" /\ UNCHANGED <<up, session>>
      /\ task'[n] = (IF l = <<>> THEN "idle" ELSE task[n]) /\ todo'[n] = l
  BY <1>1, Answered
<1>3. n \in up /\ (Slave(n) \/ Taker(n))
  BY <1>2, Doing
<1>4. Taker(n)
  BY <1>2, <1>3, SlaveHead DEF Slave
<1>5. /\ Held(n)
      /\ \/ task[n] = "init" /\ todo[n] = M2
         \/ task[n] = "upgrade" /\ todo[n] = U1
  BY <1>2, <1>4, TakerHead
<1>6. \/ task[n] = "init" /\ l = M1 /\ l # <<>>
      \/ l = <<>>
  BY <1>5, Heads
<1>7. Alone(n)' /\ Connected(n)' /\ n \notin told' /\ Held(n)' /\ n \in isMaster'
  BY <1>1, <1>2, <1>4, <1>5 DEF Taker, Alone, Connected, Held
<1>8. (task'[n] = "init" /\ todo'[n] = M1) \/ task'[n] = "idle"
  BY <1>2, <1>6
<1>9. Taker(n)' \/ Master(n)'
  BY <1>7, <1>8 DEF Taker, Master
<1>10. up = {n}
  BY <1>4 DEF Taker, Alone
<1> QED BY <1>2, <1>3, <1>9, <1>10, Combine DEF Role

\* The scheduler is started at the end of initialize, and at the start of
\* upgradeToMaster.
LEMMA ServeRoles ==
  ASSUME Base, Roles, Calm, Kind = "engine", NEW n \in Node, Serve(n)
  PROVE  Roles'
<1> DEFINE l == Tail(todo[n])
<1>1. /\ Does(n, "serve", l) /\ UNCHANGED <<told, watches, isMaster, owner, live>>
  BY DEF Serve, zk
<1>2. /\ todo[n] # <<>> /\ Head(todo[n])[1] = "serve" /\ UNCHANGED <<up, session>>
      /\ task'[n] = (IF l = <<>> THEN "idle" ELSE task[n]) /\ todo'[n] = l
  BY <1>1, Answered
<1>3. n \in up /\ (Slave(n) \/ Taker(n))
  BY <1>2, Doing
<1>4. Taker(n)
  BY <1>2, <1>3, SlaveHead DEF Slave
<1>5. \/ Held(n) /\ n \in isMaster /\ task[n] = "init" /\ todo[n] = M1
      \/ ~Exists("master") /\ task[n] = "upgrade" /\ todo[n] = U5
  BY <1>2, <1>4, TakerHead
<1>6. Alone(n)' /\ Connected(n)' /\ n \notin told'
  BY <1>1, <1>2, <1>4 DEF Taker, Alone, Connected
<1>7. ASSUME Held(n), n \in isMaster, task[n] = "init", todo[n] = M1
      PROVE  Master(n)'
  <2>1. l = <<>>
    BY <1>7, Heads
  <2>2. task'[n] = "idle" /\ Held(n)' /\ n \in isMaster'
    BY <1>1, <1>2, <1>7, <2>1 DEF Held, Connected
  <2> QED BY <1>6, <2>2 DEF Master
<1>8. ASSUME ~Exists("master"), task[n] = "upgrade", todo[n] = U5
      PROVE  Taker(n)'
  <2>1. l = U4("exists") /\ l # <<>>
    BY <1>8, Heads
  <2>2. task'[n] = "upgrade" /\ todo'[n] = U4("exists") /\ ~Exists("master")'
    BY <1>1, <1>2, <1>8, <2>1 DEF Exists
  <2> QED BY <1>6, <2>2 DEF Taker
<1>9. Master(n)' \/ Taker(n)'
  BY <1>5, <1>7, <1>8
<1>10. up = {n}
  BY <1>4 DEF Taker, Alone
<1> QED BY <1>2, <1>3, <1>9, <1>10, Combine DEF Role

\* The scheduler is stopped before the connection is closed.
LEMMA UnserveRoles ==
  ASSUME Base, Roles, Calm, Kind = "engine", NEW n \in Node, Unserve(n)
  PROVE  Roles'
<1>1. /\ todo[n] # <<>> /\ Head(todo[n]) = <<"unserve">>
      /\ UNCHANGED <<told, watches, owner, live>>
  BY DEF Unserve, zk
<1>2. Head(todo[n])[1] = "unserve"
  BY <1>1
<1>3. n \in up /\ (Slave(n) \/ Taker(n) \/ (Closer(n) /\ todo[n] \in {C2, C1}))
  BY <1>1, Doing
<1>4. Closer(n) /\ todo[n] \in {C2, C1}
  BY <1>1, <1>2, <1>3, SlaveHead, TakerHead DEF Slave
<1>5. Tail(todo[n]) # <<>>
  BY <1>2, <1>4, Heads, Requests
<1>6. /\ Do(n, task[n], Tail(todo[n])) /\ scheduler' = scheduler \ {n}
      /\ UNCHANGED <<up, isMaster, session>>
  BY <1>5 DEF Unserve
<1>7. /\ task'[n] = task[n]
      /\ \A m \in Node \ {n} : task'[m] = task[m] /\ todo'[m] = todo[m]
  BY <1>6 DEF Do, Base, TypeOK
<1>8. Closer(n)'
  BY <1>4, <1>6, <1>7 DEF Closer
<1>9. \A m \in up \ {n} : Untouched(m)
  BY <1>1, <1>6, <1>7, Same DEF Untouched
<1> QED BY <1>3, <1>6, <1>8, <1>9, Combine DEF Role

\* A process ends and leaves its session behind.
LEMMA HaltRoles ==
  ASSUME Base, Roles, Calm, NEW n \in up, Halt(n), UNCHANGED <<told, watches, owner, live>>
  PROVE  Roles'
<1>1. /\ up' = up \ {n} /\ scheduler' = scheduler \ {n} /\ isMaster' = isMaster \ {n}
      /\ session' = [session EXCEPT ![n] = 0] /\ Do(n, "idle", <<>>)
  BY DEF Halt
<1>2. \A m \in Node \ {n} : /\ task'[m] = task[m] /\ todo'[m] = todo[m]
                            /\ session'[m] = session[m]
  BY <1>1 DEF Do, Base, TypeOK
<1>3. \A m \in up \ {n} : Untouched(m)
  BY <1>1, <1>2, Same DEF Untouched
<1>4. \A m \in up' : session'[m] = session[m]
  BY <1>1, <1>2, Same
<1> QED BY <1>1, <1>3, <1>4, Combine

\* A request fails: upgradeToMaster gives up, a slave that recovers tries again.
LEMMA FailRoles ==
  ASSUME Base, Roles, Calm, Kind = "engine", NEW n \in Node, Fail(n)
  PROVE  Roles'
<1>1. todo[n] # <<>> /\ ~Granted(n) /\ UNCHANGED <<told, watches, owner, live>>
  BY DEF Fail, zk
<1>2. n \in up /\ (Slave(n) \/ Taker(n) \/ (Closer(n) /\ todo[n] \in {C2, C1}))
  BY <1>1, Doing
<1>3. CASE task[n] = "recover"
  <2>1. Slave(n)
    BY <1>2, <1>3 DEF Taker, Closer
  <2>2. /\ todo' = [todo EXCEPT ![n] = CreateZNode(Head(@)[2]) \o Tail(@)]
        /\ UNCHANGED <<up, task, scheduler, isMaster, session>>
    BY <1>3 DEF Fail
  <2>3. Connected(n)
    BY <1>3, Same DEF Base, Lists
  <2>4. Head(todo[n])[1] \in {"setData", "create"}
    <3>1. Head(todo[n])[1] \in {"exists", "setData", "create", "renew", "watch"}
      BY <1>1, <2>1, SlaveHead DEF Slave
    <3> QED BY <1>1, <2>3, <3>1 DEF Granted
  <2>5. /\ Head(todo[n])[2] = "slave" /\ Tail(todo[n]) \in Seq(SlaveRecovery)
        /\ Pending(todo[n]) => Pending(Tail(todo[n]))
    BY <1>1, <2>1, <2>4, SlaveHead DEF Slave, Sets
  <2> DEFINE x == <<"exists", "slave">>
             l == <<x>> \o Tail(todo[n])
  <2>6. todo' = [todo EXCEPT ![n] = l]
    BY <2>2, <2>5 DEF CreateZNode
  <2>7. x \in SlaveRecovery
    BY DEF SlaveRecovery, Sets
  <2> HIDE DEF x
  <2>8. <<x>> \in Seq(SlaveRecovery)
    BY <2>7
  <2>9. l \in Seq(SlaveRecovery) /\ (Pending(todo[n]) => Pending(l))
    BY <2>5, <2>8, PendingLists, ConcatProperties
  <2> HIDE DEF l
  <2>10. /\ Do(n, "recover", l)
         /\ \A m \in Node \ {n} : task'[m] = task[m] /\ todo'[m] = todo[m]
    BY <1>3, <2>2, <2>6 DEF Do, Base, TypeOK
  <2>11. /\ n \notin told' /\ watches'[n] \subseteq SlaveUsed
         /\ <<"master", "switch">> \in watches'[n] \/ Pending(l)
    BY <1>1, <2>1, <2>9 DEF Slave
  <2>12. Slave(n)'
    BY <1>1, <2>1, <2>2, <2>9, <2>10, <2>11, SlaveGoesOn
  <2>13. \A m \in up \ {n} : Untouched(m)
    BY <1>1, <2>2, <2>10, Same DEF Untouched
  <2> QED BY <1>2, <2>2, <2>12, <2>13, Combine DEF Role
<1>4. CASE task[n] = "upgrade"
  <2>1. Taker(n)
    BY <1>2, <1>4 DEF Slave, Closer
  <2>2. Do(n, "close", CloseNode) /\ UNCHANGED <<up, scheduler, isMaster, session>>
    BY <1>4 DEF Fail
  <2>3. task'[n] = "close" /\ todo'[n] = C2
    BY <2>2, Methods DEF Do, Base, TypeOK
  <2>4. up = {n}
    BY <2>1 DEF Taker, Alone
  <2>5. Closer(n)'
    BY <2>2, <2>3, <2>4 DEF Closer, Alone
  <2> QED BY <1>2, <2>2, <2>4, <2>5, Combine DEF Role
<1>5. CASE task[n] \notin {"recover", "upgrade"}
  <2>1. Halt(n)
    BY <1>5 DEF Fail
  <2> QED BY <1>1, <1>2, <2>1, HaltRoles
<1> QED BY <1>3, <1>4, <1>5

\* An heir begins to take over, and a process that runs is told to stop.
LEMMA BeginRoles ==
  ASSUME Base, Roles, Calm, Kind = "engine", NEW n \in Node, ProcessNodeDelete(n) \/ Stop(n)
  PROVE  Roles'
<1>1. /\ n \in up /\ todo[n] = <<>> /\ told' \subseteq told /\ told \ {n} \subseteq told'
      /\ UNCHANGED <<up, watches, scheduler, isMaster, session, owner, live>>
  BY DEF ProcessNodeDelete, Stop, zk
<1>2. task[n] = "idle"
  <2>1. Listed(task[n], <<>>)
    BY <1>1 DEF Base, Lists
  <2>2. <<>> \notin MasterLists \cup SlaveLists \cup UpgradeLists \cup CloseLists
    BY Heads DEF MasterLists, SlaveLists, UpgradeLists, CloseLists
  <2> QED BY <2>1, <2>2 DEF Listed
<1>3. Master(n) \/ Slave(n) \/ Heir(n)
  BY <1>1, <1>2 DEF Roles, Role, Taker, Closer
<1>4. CASE ProcessNodeDelete(n)
  <2>1. n \in told /\ told' = told \ {n} /\ Do(n, "upgrade", UpgradeToMaster)
    BY <1>4 DEF ProcessNodeDelete
  <2>2. task'[n] = "upgrade" /\ todo'[n] = U5
    BY <2>1, Methods DEF Do, Base, TypeOK
  <2>3. Heir(n)
    BY <1>3, <2>1 DEF Master, Slave
  <2>4. Alone(n)' /\ Connected(n)' /\ n \notin told' /\ ~Exists("master")'
    BY <1>1, <2>1, <2>3 DEF Heir, Alone, Connected, Exists
  <2>5. Taker(n)'
    BY <2>2, <2>4 DEF Taker
  <2>6. up = {n}
    BY <2>3 DEF Heir, Alone
  <2> QED BY <1>1, <2>5, <2>6, Combine DEF Role
<1>5. CASE Stop(n)
  <2>1. told' = told /\ Do(n, "close", CloseNode)
    BY <1>5 DEF Stop
  <2>2. /\ task'[n] = "close" /\ todo'[n] = C2
        /\ \A m \in Node \ {n} : task'[m] = task[m] /\ todo'[m] = todo[m]
    BY <2>1, Methods DEF Do, Base, TypeOK
  <2>3. n \in scheduler => Held(n)
    BY <1>3 DEF Master, Slave, Heir
  <2>4. Closer(n)'
    BY <1>1, <2>2, <2>3 DEF Closer, Held, Connected
  <2>5. \A m \in up \ {n} : Untouched(m)
    BY <1>1, <2>1, <2>2, Same DEF Untouched
  <2> QED BY <1>1, <2>4, <2>5, Combine DEF Role
<1> QED BY <1>4, <1>5

\* A slave has its session back.  All its watchers recover, the
\* StatusSwitchWatcher among them.
LEMMA ExpiredRoles ==
  ASSUME Base, Base', Roles, Calm, Kind = "engine", NEW n \in Node, ProcessExpired(n)
  PROVE  Roles'
<1>0. TypeOK /\ Sessions /\ Lists
  BY DEF Base
<1>1. /\ n \in up /\ todo[n] = <<>> /\ n \notin told /\ session[n] \notin live
      /\ session' = [session EXCEPT ![n] = count + 1] /\ live' = live \cup {count + 1}
      /\ watches' = [watches EXCEPT ![n] = {}]
      /\ UNCHANGED <<up, told, scheduler, isMaster, owner>>
  BY DEF ProcessExpired, Idle
<1>2. PICK order \in SetToSeqs(watches[n]) :
        Do(n, IF order = <<>> THEN "idle" ELSE "recover",
              [i \in DOMAIN order |-> Recover(order[i])])
  BY DEF ProcessExpired
<1> DEFINE l == [i \in DOMAIN order |-> Recover(order[i])]
           D == 1..Cardinality(watches[n])
<1>3. Slave(n)
  <2>1. ~Connected(n)
    BY <1>1 DEF Connected
  <2>2. ~Closer(n)
    <3>1. Listed(task[n], <<>>)
      BY <1>0, <1>1 DEF Lists
    <3>2. <<>> \notin CloseLists
      BY Heads DEF CloseLists
    <3> QED BY <3>1, <3>2 DEF Listed, Closer
  <2> QED BY <1>1, <2>1, <2>2 DEF Roles, Role, Master, Held, Heir, Taker
<1>4. /\ Cardinality(watches[n]) \in Nat /\ order \in [D -> watches[n]]
      /\ \A w \in watches[n] : \E i \in D : order[i] = w
  BY <1>0, <1>2, Orders
<1>5. <<"master", "switch">> \in watches[n] /\ watches[n] \subseteq SlaveUsed
  BY <1>1, <1>3, PendingLists, EmptySeq DEF Slave
<1>6. \A w \in SlaveUsed : Recover(w) \in SlaveRecovery
  <2>1. Recover(<<"slave", "node">>) = <<"renew", <<"slave", "node">>>>
    BY DEF Recover
  <2>2. Recover(<<"master", "switch">>) = WatchSwitch
    BY EngineSwitch DEF Recover, WatchSwitch
  <2> QED BY <2>1, <2>2 DEF SlaveUsed, SlaveRecovery
<1>7. l \in [D -> SlaveRecovery]
  BY <1>4, <1>5, <1>6
<1>8. l \in Seq(SlaveRecovery)
  BY <1>4, <1>7, SeqDef
<1>9. Pending(l)
  <2>1. PICK i \in D : order[i] = <<"master", "switch">>
    BY <1>4, <1>5
  <2>2. i \in DOMAIN l /\ l[i] = Recover(<<"master", "switch">>)
    BY <1>4, <2>1
  <2>3. Recover(<<"master", "switch">>) = WatchSwitch
    BY EngineSwitch DEF Recover, WatchSwitch
  <2> QED BY <2>2, <2>3 DEF Pending
<1> HIDE DEF l, D
<1>10. /\ task'[n] \in {"idle", "recover"} /\ todo'[n] = l
       /\ \A m \in Node \ {n} : task'[m] = task[m] /\ todo'[m] = todo[m]
  BY <1>0, <1>2 DEF Do, TypeOK, l
<1>11. session'[n] = count + 1 /\ \A m \in Node \ {n} : session'[m] = session[m]
  BY <1>0, <1>1 DEF TypeOK
<1>12. /\ watches'[n] = {} /\ \A m \in Node \ {n} : watches'[m] = watches[m]
  BY <1>0, <1>1 DEF TypeOK
<1>13. owner["master"] # count + 1
  <2>1. owner["master"] \in live
    BY <1>0, <1>3 DEF Sessions, Slave, Exists, Path
  <2>2. count \in Nat /\ live \subseteq 1..count
    BY <1>0, ElectionAssumption DEF TypeOK, Sessions
  <2> QED BY <2>1, <2>2
<1>14. Slave(n)'
  <2>1. n \notin scheduler' \cup isMaster' \cup told' /\ Exists("master")'
    BY <1>1, <1>3 DEF Slave, Exists
  <2>2. \A m \in up' \ {n} : owner'["master"] = session'[m]
    BY <1>1, <1>3, <1>11, Same DEF Slave
  <2>3. owner'["master"] # session'[n] /\ watches'[n] \subseteq SlaveUsed
    BY <1>1, <1>11, <1>12, <1>13
  <2>4. Pending(todo[n])'
    BY <1>9, <1>10 DEF Pending
  <2>5. task'[n] \in {"idle", "init", "recover"} /\ todo'[n] \in Seq(SlaveRecovery)
    BY <1>8, <1>10
  <2> QED BY <2>1, <2>2, <2>3, <2>4, <2>5 DEF Slave
<1>15. \A m \in up \ {n} : Untouched(m)
  BY <1>1, <1>10, <1>11, <1>12, Same DEF Untouched
<1>16. \A m \in up \ {n} : ~Slave(m)
  BY <1>1, <1>3 DEF Slave
<1> QED BY <1>1, <1>14, <1>15, <1>16, Combine DEF Role

\* Nothing is to be done when the list is empty.
LEMMA NothingToDo ==
  ASSUME Base, NEW m \in Node
  PROVE  task[m] = "idle" <=> todo[m] = <<>>
<1>1. Listed(task[m], todo[m])
  BY DEF Base, Lists
<1>2. <<>> \notin MasterLists \cup SlaveLists \cup UpgradeLists \cup CloseLists
  BY Heads DEF MasterLists, SlaveLists, UpgradeLists, CloseLists
<1> QED BY <1>1, <1>2 DEF Listed

\* A slave that has nothing to do hears of the end of the master's session.
LEMMA Bequeathed ==
  ASSUME Base, Kind = "engine", NEW s, EndSession(s), owner["master"] = s, NEW m \in up,
         Slave(m), task[m] = "idle", Connected(m), session[m] # s, up' = {m},
         task'[m] = task[m], session'[m] = session[m],
         scheduler' \subseteq scheduler, isMaster' \subseteq isMaster
  PROVE  Heir(m)'
<1>0. TypeOK /\ Sessions /\ m \in Node
  BY DEF Base, TypeOK
<1>1. <<"master", "switch">> \in watches[m]
  BY <1>0, NothingToDo, PendingLists, EmptySeq DEF Slave
<1>2. /\ live' = live \ {s} /\ Fire({p \in Path : owner[p] = s}, TRUE)
      /\ owner'["master"] = 0
  BY <1>0, Ended DEF Path
<1>3. session[m] \in live'
  BY <1>2 DEF Connected
<1>4. "master" \in {p \in Path : owner[p] = s}
  BY DEF Path
<1>5. m \in told'
  BY <1>0, <1>1, <1>2, <1>3, <1>4, Fired
<1> QED BY <1>2, <1>3, <1>5 DEF Heir, Slave, Alone, Connected, Exists

\* The end of a session that does not have the master znode.
LEMMA OtherEnded ==
  ASSUME Base, Kind = "engine", NEW s, EndSession(s), owner["master"] # s
  PROVE  /\ told' = told /\ owner'["master"] = owner["master"] /\ live' = live \ {s}
         /\ \A m \in Node : watches'[m] \subseteq watches[m]
         /\ \A m \in Node : <<"master", "switch">> \in watches[m]
                              => <<"master", "switch">> \in watches'[m]
<1>1. /\ live' = live \ {s} /\ Fire({p \in Path : owner[p] = s}, TRUE)
      /\ owner'["master"] = owner["master"]
  BY Ended DEF Base, Path
<1>2. "master" \notin {p \in Path : owner[p] = s}
  OBVIOUS
<1> QED BY <1>1, <1>2, SlaveFired

\* The connection is closed.
LEMMA CloseRoles ==
  ASSUME Base, Roles, Calm', Kind = "engine", NEW n \in Node, Close(n)
  PROVE  Roles'
<1>1. /\ todo[n] # <<>> /\ Head(todo[n]) = <<"close">> /\ EndSession(session[n])
      /\ Calm /\ ~Busy({n})
  BY DEF Close, Trouble, Calm
<1>2. n \in up /\ Tail(todo[n]) = <<>>
  BY <1>1, CloseLast
<1>3. Halt(n)
  BY <1>2 DEF Close
<1>4. /\ up' = up \ {n} /\ scheduler' = scheduler \ {n} /\ isMaster' = isMaster \ {n}
      /\ session' = [session EXCEPT ![n] = 0] /\ Do(n, "idle", <<>>)
  BY <1>3 DEF Halt
<1>5. \A m \in Node \ {n} : /\ task'[m] = task[m] /\ todo'[m] = todo[m]
                            /\ session'[m] = session[m]
  BY <1>4 DEF Do, Base, TypeOK
<1>6. \A m \in up \ {n} : /\ session[m] # session[n] /\ Connected(m)
                          /\ task[m] \notin {"init", "recover"} /\ m \in Node
  BY <1>1, <1>2, Same DEF Busy, Base, Sessions
<1>7. CASE owner["master"] # session[n]
  <2>1. \A m \in up \ {n} : Untouched(m)
    BY <1>1, <1>4, <1>5, <1>6, <1>7, OtherEnded DEF Untouched
  <2>2. \A m \in up' : session'[m] = session[m]
    BY <1>4, <1>5, <1>6
  <2> QED BY <1>1, <1>2, <1>4, <2>1, <2>2, Combine
<1>8. CASE owner["master"] = session[n]
  <2> SUFFICES ASSUME NEW m \in up \ {n} PROVE Role(m)'
    BY <1>4 DEF Roles
  <2>1. Role(m) /\ ~Alone(m) /\ ~Held(m)
    BY <1>1, <1>2, <1>6, <1>8 DEF Roles, Alone, Held
  <2>2. CASE Slave(m)
    <3>1. up' = {m}
      BY <1>2, <1>4, <1>8, <2>2 DEF Slave, Base, Sessions
    <3>2. task[m] = "idle"
      BY <1>6, <2>2 DEF Slave
    <3>3. Heir(m)'
      BY <1>1, <1>4, <1>5, <1>6, <1>8, <2>2, <3>1, <3>2, Bequeathed
    <3> QED BY <3>3 DEF Role
  <2>3. CASE Closer(m)
    <3>1. m \notin scheduler
      BY <2>1, <2>3 DEF Closer
    <3>2. Closer(m)'
      BY <1>4, <1>5, <1>6, <2>3, <3>1 DEF Closer
    <3> QED BY <3>2 DEF Role
  <2> QED BY <2>1, <2>2, <2>3 DEF Role, Master, Heir, Taker
<1> QED BY <1>7, <1>8

\* A process that is not master loses its session while all is quiet.
LEMMA ExpireRoles ==
  ASSUME Base, Roles, Calm', Kind = "engine", NEW n \in Node, Expire(n)
  PROVE  Roles'
<1>1. /\ Connected(n) /\ EndSession(session[n])
      /\ UNCHANGED <<up, task, todo, scheduler, isMaster, session>>
  BY DEF Expire
<1>2. Calm /\ n \notin isMaster /\ Idle(n)
  BY DEF Expire, Trouble, Calm
<1>3. n \in up /\ task[n] = "idle" /\ n \notin told
  BY <1>1, <1>2, NothingToDo DEF Connected, Idle
<1>4. Slave(n)
  BY <1>2, <1>3 DEF Roles, Role, Master, Heir, Taker, Closer
<1>5. owner["master"] # session[n]
  BY <1>4 DEF Slave
<1>6. /\ told' = told /\ owner'["master"] = owner["master"] /\ live' = live \ {session[n]}
      /\ \A m \in Node : watches'[m] \subseteq watches[m]
      /\ \A m \in Node : <<"master", "switch">> \in watches[m]
                           => <<"master", "switch">> \in watches'[m]
  BY <1>1, <1>5, OtherEnded
<1>7. Slave(n)'
  BY <1>1, <1>4, <1>6 DEF Slave, Exists, Pending
<1>8. \A m \in up \ {n} : Untouched(m)
  BY <1>1, <1>3, <1>6, Same DEF Untouched, Base, Sessions
<1> QED BY <1>1, <1>2, <1>3, <1>7, <1>8, Combine DEF Role

\* The session of a process that has died ends while all is quiet.
LEMMA TimeoutRoles ==
  ASSUME Base, Roles, Calm', Kind = "engine", NEW s \in live, SessionTimeout(s)
  PROVE  Roles'
<1>1. /\ \A m \in up : session[m] # s
      /\ EndSession(s) /\ UNCHANGED <<up, task, todo, scheduler, isMaster, session>>
  BY DEF SessionTimeout
<1>2. Calm /\ ~Busy({})
  BY DEF SessionTimeout, Trouble, Calm
<1>3. s # 0
  BY DEF Base, TypeOK
<1> SUFFICES ASSUME NEW m \in up PROVE Role(m)'
  BY <1>1 DEF Roles
<1>4. Role(m) /\ Connected(m) /\ task[m] \notin {"init", "recover"} /\ m \in Node
  BY <1>2, Same DEF Busy, Roles
<1>5. CASE owner["master"] # s
  <2>1. /\ told' = told /\ owner'["master"] = owner["master"] /\ live' = live \ {s}
        /\ \A k \in Node : watches'[k] \subseteq watches[k]
        /\ \A k \in Node : <<"master", "switch">> \in watches[k]
                             => <<"master", "switch">> \in watches'[k]
    BY <1>1, <1>5, OtherEnded
  <2>2. Connected(m)' /\ (Held(m) => Held(m)') /\ (Alone(m) => Alone(m)')
        /\ (Exists("master")' <=> Exists("master"))
    BY <1>1, <1>4, <2>1 DEF Connected, Held, Alone, Exists
  <2>3. CASE Master(m)
    BY <1>1, <2>1, <2>2, <2>3 DEF Role, Master
  <2>4. CASE Slave(m)
    <3>1. Slave(m)'
      BY <1>1, <1>4, <2>1, <2>2, <2>4 DEF Slave, Pending
    <3> QED BY <3>1 DEF Role
  <2>5. CASE Heir(m)
    BY <1>1, <2>1, <2>2, <2>5 DEF Role, Heir
  <2>6. CASE Taker(m)
    <3>1. Taker(m)'
      BY <1>1, <2>1, <2>2, <2>6 DEF Taker
    <3> QED BY <3>1 DEF Role
  <2>7. CASE Closer(m)
    BY <1>1, <2>2, <2>7 DEF Role, Closer
  <2> QED BY <1>4, <2>3, <2>4, <2>5, <2>6, <2>7 DEF Role
<1>6. CASE owner["master"] = s
  <2>1. ~Held(m) /\ Exists("master")
    BY <1>1, <1>3, <1>6 DEF Held, Exists
  <2>2. CASE Slave(m)
    <3>1. up' = {m}
      BY <1>1, <1>6, <2>2 DEF Slave
    <3>2. task[m] = "idle"
      BY <1>4, <2>2 DEF Slave
    <3>3. Heir(m)'
      BY <1>1, <1>4, <1>6, <2>2, <3>1, <3>2, Bequeathed
    <3> QED BY <3>3 DEF Role
  <2>3. CASE Closer(m)
    BY <1>1, <2>1, <2>3 DEF Role, Closer, Alone
  <2> QED BY <1>4, <2>1, <2>2, <2>3 DEF Role, Master, Heir, Taker
<1> QED BY <1>5, <1>6

\* A second process is started beside a master, or one where none is left.
LEMMA StartRoles ==
  ASSUME Base, Roles, Calm', Kind = "engine", NEW a, NEW b, Node = {a, b},
         NEW n \in Node, Start(n)
  PROVE  Roles'
<1>0. TypeOK /\ Sessions
  BY DEF Base
<1>1. /\ n \notin up /\ up' = up \cup {n}
      /\ session' = [session EXCEPT ![n] = count + 1] /\ live' = live \cup {count + 1}
      /\ watches' = [watches EXCEPT ![n] = {}] /\ told' = told \ {n}
      /\ UNCHANGED <<scheduler, isMaster, owner>>
  BY DEF Start
<1>2. /\ Calm /\ \A m \in up : Idle(m) /\ Connected(m)
      /\ live \subseteq {session[m] : m \in up}
  BY DEF Start, Trouble, Calm
<1>3. IF Exists("master") THEN Do(n, "init", S3("exists"))
                          ELSE Do(n, "init", M4("exists"))
  BY Methods DEF Start
<1>4. /\ count \in Nat /\ live \subseteq 1..count /\ "master" \in Path
      /\ owner["master"] = 0 \/ owner["master"] \in live
  BY <1>0, ElectionAssumption DEF TypeOK, Sessions, Path
<1>5. session'[n] = count + 1 /\ \A m \in Node \ {n} : session'[m] = session[m]
  BY <1>0, <1>1 DEF TypeOK
<1>6. watches'[n] = {} /\ \A m \in Node \ {n} : watches'[m] = watches[m]
  BY <1>0, <1>1 DEF TypeOK
<1>7. CASE up = {}
  <2>1. ~Exists("master")
    BY <1>2, <1>4, <1>7 DEF Exists
  <2>2. task'[n] = "init" /\ todo'[n] = M4("exists")
    BY <1>0, <1>3, <2>1 DEF Do, TypeOK
  <2>3. Alone(n)' /\ Connected(n)' /\ n \notin told' /\ ~Exists("master")'
    BY <1>1, <1>5, <1>7, <2>1 DEF Alone, Connected, Exists
  <2>4. Taker(n)'
    BY <2>2, <2>3 DEF Taker
  <2> QED BY <1>1, <1>7, <2>4 DEF Roles, Role
<1>8. CASE up # {}
  <2>1. PICK m \in Node : up = {m} /\ m # n
    BY <1>0, <1>1, <1>8 DEF TypeOK
  <2>2. todo[m] = <<>> /\ task[m] = "idle" /\ m \notin told
    BY <1>2, <2>1, NothingToDo DEF Idle
  <2>3. Master(m)
    <3>1. Role(m)
      BY <1>2, <2>1 DEF Roles
    <3>2. owner["master"] \in {0, session[m]}
      BY <1>2, <1>4, <2>1
    <3> QED BY <2>2, <3>1, <3>2 DEF Role, Slave, Heir, Taker, Closer, Exists
  <2>4. owner["master"] = session[m] /\ session[m] \in 1..count /\ session[m] \in live
    BY <1>0, <2>1, <2>3 DEF Master, Held, Connected, Sessions
  <2>5. Exists("master") /\ owner["master"] # count + 1
    BY <1>4, <2>4 DEF Exists
  <2>6. /\ task'[n] = "init" /\ todo'[n] = S3("exists")
        /\ task'[m] = task[m]
    BY <1>0, <1>3, <2>1, <2>5 DEF Do, TypeOK
  <2>7. Master(m)'
    BY <1>1, <1>5, <2>1, <2>3, <2>4, <2>6 DEF Master, Held, Connected
  <2>8. S3("exists") \in Seq(SlaveRecovery) /\ Pending(S3("exists"))
    <3>1. S3("exists") \in Seq(SlaveRecovery)
      BY TupleSeq DEF S3, SlaveRecovery, Sets
    <3>2. 3 \in DOMAIN S3("exists") /\ S3("exists")[3] = WatchSwitch
      BY DEF S3
    <3> QED BY <3>1, <3>2 DEF Pending
  <2>9. Slave(n)'
    <3>1. n \notin scheduler' \cup isMaster' \cup told' /\ Exists("master")'
      BY <1>0, <1>1, <2>5 DEF TypeOK, Exists
    <3>2. /\ owner'["master"] # session'[n] /\ watches'[n] \subseteq SlaveUsed
          /\ \A k \in up' \ {n} : owner'["master"] = session'[k]
      BY <1>1, <1>5, <1>6, <2>1, <2>4, <2>5
    <3>3. Pending(todo[n])' /\ todo'[n] \in Seq(SlaveRecovery)
      BY <2>6, <2>8 DEF Pending
    <3> QED BY <2>6, <3>1, <3>2, <3>3 DEF Slave
  <2> QED BY <1>1, <2>1, <2>7, <2>9 DEF Roles, Role
<1> QED BY <1>7, <1>8

\* Every step keeps the roles.
LEMMA StepRoles ==
  ASSUME Base, Roles, Kind = "engine", NEW a, NEW b, Node = {a, b}, [Next]_vars
  PROVE  Roles'
<1> SUFFICES ASSUME Calm' PROVE Roles'
  BY DEF Roles
<1>0. Base'
  BY StepBase
<1>1. ASSUME NEW n \in Node, Start(n) \/ Close(n) \/ Expire(n)
      PROVE  Roles'
  BY <1>1, StartRoles, CloseRoles, ExpireRoles
<1>2. ASSUME NEW s \in live, SessionTimeout(s)
      PROVE  Roles'
  BY <1>2, TimeoutRoles
<1>3. ASSUME NEW n \in Node, Work(n) \/ Crash(n) \/ Stop(n), ~Close(n)
      PROVE  Roles'
  <2>1. Calm
    <3>1. trouble' = trouble
      BY <1>3 DEF Work, Renew, CheckZNode, SetZNode, CreateEphemeral, AddWatcher,
                  DeleteSlaveZNode, BecomeMaster, Serve, Unserve, Fail, ProcessNodeDelete,
                  ProcessExpired, Crash, Stop, Does
    <3> QED BY <3>1 DEF Calm
  <2>2. CASE Work(n)
    BY <1>0, <1>3, <2>1, <2>2, RenewRoles, CheckRoles, SetRoles, CreateRoles, WatchRoles,
       DeleteRoles, FlagRoles, ServeRoles, UnserveRoles, FailRoles, BeginRoles, ExpiredRoles
       DEF Work
  <2>3. CASE Crash(n)
    BY <2>1, <2>3, HaltRoles DEF Crash, zk
  <2>4. CASE Stop(n)
    BY <2>1, <2>4, BeginRoles
  <2> QED BY <1>3, <2>2, <2>3, <2>4
<1>4. CASE UNCHANGED vars
  BY <1>4 DEF vars, process, zk, Roles, Role, Calm, Master, Slave, Heir, Taker, Closer, Held,
              Alone, Connected, Exists, Pending
<1> QED BY <1>1, <1>2, <1>3, <1>4 DEF Next

(* Two engines: unless the master loses its session or a process is started *)
(* again before ZooKeeper has noticed its death, at most one of them serves *)
(* at any time, however often they crash, stop, start, and the slave loses  *)
(* its session.  (With three engines it does not hold: two slaves both hear *)
(* of the deletion.)                                                        *)
THEOREM TwoEngines ==
  ASSUME Kind = "engine", NEW a, NEW b, Node = {a, b}
  PROVE  Spec => []OneMaster
<1>1. Init => Base /\ Roles
  <2>1. Init => Roles
    BY DEF Init, Roles
  <2> QED BY <2>1, InitBase
<1>2. (Base /\ Roles) /\ [Next]_vars => (Base /\ Roles)'
  BY StepBase, StepRoles
<1>3. Base /\ Roles => OneMaster
  BY RolesSuffice
<1> QED BY <1>1, <1>2, <1>3, PTL DEF Spec

=============================================================================
