-------------------------- MODULE EventStoreProofs --------------------------
(***************************************************************************)
(* The monitor of JobEventStorehouse: proofs for any number of events, of  *)
(* producers and of places.  NeverMixed is not inductive: that a thread is *)
(* not left waiting for room in front of an empty store depends on who     *)
(* runs while the consumer sleeps.                                         *)
(***************************************************************************)
EXTENDS EventStore, FiniteSetTheorems, SequenceTheorems, TLAPS

Blocked == waiting \ {"consumer"}

\* A thread waits for room only in front of a full store, or some other
\* thread is on its way to test it: pop has just notified it.
RoomIsSeen ==
  shouldRun["consumer"] /\ Blocked # {} =>
    Len(store) = Size \/ \E t \in Pusher : Pushing(t)

\* The consumer comes back from its sleep only when the store is full again,
\* or nobody waits.
FullWhenBack ==
  shouldRun["consumer"] /\ consumer = "pop" /\ Blocked # {} => Len(store) = Size

\* The consumer waits alone, and in front of an empty store.
WaitsAlone ==
  shouldRun["consumer"] /\ "consumer" \in waiting =>
    consumer = "pop" /\ store = <<>> /\ Blocked = {}

\* A thread that waits for room still has its event.
BlockedPush == \A t \in Blocked : todo[t] # <<>>

\* Once shutDown has begun, the consumer is told to stop.
HookStops == hook # "none" => ~shouldRun["consumer"]

\* products is not written behind its end.
Bounded == Len(store) <= Size

EInv == /\ TypeOK /\ Bounded /\ HookStops /\ BlockedPush
        /\ RoomIsSeen /\ FullWhenBack /\ WaitsAlone

-----------------------------------------------------------------------------
\* Any order of the saved events is a sequence of events (Init's table).
LEMMA SavedSeq == SetToSeqs(Saved) \subseteq Seq(Event)
<1>1. Cardinality(Saved) \in Nat
  BY FS_CardinalityType, EventStoreAssumption
<1> QED
  BY <1>1, EventStoreAssumption DEF SetToSeqs

\* What pop leaves behind and hands out.
LEMMA FrontLast ==
  ASSUME NEW s \in Seq(Event), s # <<>>
  PROVE  /\ Front(s) \in Seq(Event)
         /\ Last(s) \in Event
         /\ Len(Front(s)) = Len(s) - 1
<1>1. Len(s) \in Nat \ {0}
  BY EmptySeq, LenProperties
<1>2. s \in [1..Len(s) -> Event]
  BY LenProperties
<1> QED
  BY <1>1, <1>2, SubSeqProperties DEF Front, Last

\* The initial states satisfy the invariant.
LEMMA EInit == Init => EInv
<1> SUFFICES ASSUME Init PROVE EInv
  OBVIOUS
<1>1. TypeOK
  BY SavedSeq, EventStoreAssumption DEF Init, TypeOK
<1>2. Bounded
  BY EventStoreAssumption DEF Init, Bounded
<1> QED
  BY <1>1, <1>2 DEF Init, EInv, HookStops, BlockedPush, RoomIsSeen, FullWhenBack, WaitsAlone, Blocked

\* notify only shrinks the wait set.
LEMMA NotifyShrinks ==
  Notify => waiting' \subseteq waiting
BY Zenon DEF Notify

\* Every step keeps the types.
LEMMA TypeStep == TypeOK /\ [Next]_vars => TypeOK'
<1> SUFFICES ASSUME TypeOK, [Next]_vars PROVE TypeOK'
  OBVIOUS
<1> USE DEF TypeOK
<1>1. ASSUME NEW t \in Pusher, Push(t) PROVE TypeOK'
  <2>1. CASE Len(store) = Size
    BY <1>1, <2>1 DEF Push, Wait
  <2>2. CASE Len(store) # Size
    <3>1. /\ store' = Append(store, Head(todo[t]))
          /\ waiting' \subseteq waiting
          /\ todo' = [todo EXCEPT ![t] = Tail(@)]
          /\ loader' \in {"delete", loader}
      BY <1>1, <2>2, NotifyShrinks DEF Push, Returned
    <3>2. todo[t] \in Seq(Event) /\ todo[t] # <<>>
      BY <1>1 DEF Push, Pushing
    <3>3. Head(todo[t]) \in Event /\ Tail(todo[t]) \in Seq(Event)
      BY <3>2, HeadTailProperties
    <3> QED
      BY <1>1, <3>1, <3>3 DEF Push
  <2> QED
    BY <2>1, <2>2
<1>2. CASE Pop
  <2>1. CASE store = <<>>
    BY <1>2, <2>1 DEF Pop, Wait
  <2>2. CASE store # <<>>
    <3>1. Front(store) \in Seq(Event) /\ Last(store) \in Event
      BY <2>2, FrontLast
    <3>2. /\ store' = Front(store) /\ hand' = Last(store)
          /\ waiting' \subseteq waiting
          /\ consumer' = "execute"
          /\ late' \in {late, late + 1}
      BY <1>2, <2>2, NotifyShrinks DEF Pop
    <3> QED
      BY <1>2, <3>1, <3>2 DEF Pop
  <2> QED
    BY <2>1, <2>2
<1>3. ASSUME NEW p \in Producer, Produce(p) PROVE TypeOK'
  <2>1. PICK e \in Event : /\ produced' = produced \cup {e}
                           /\ todo' = [todo EXCEPT ![p] = <<e>>]
    BY <1>3 DEF Produce
  <2> QED
    <3>1. <<e>> \in Seq(Event)
      OBVIOUS
    <3>2. todo' \in [Pusher -> Seq(Event)]
      BY <2>1, <3>1
    <3> QED
      BY <1>3, <2>1, <3>2 DEF Produce
<1>4. CASE Execute
  <2>1. consumed' = [e \in Event |-> IF e = hand THEN consumed[e] + 1 ELSE consumed[e]]
    BY <1>4 DEF Execute
  <2>2. consumed' \in [Event -> Nat]
    BY <2>1
  <2> QED
    BY <1>4, <2>2 DEF Execute
<1>5. CASE Wake
  BY <1>5 DEF Wake
<1>6. CASE LoadFind
  BY <1>6 DEF LoadFind, Pusher
<1>7. CASE LoadDelete
  BY <1>7 DEF LoadDelete
<1>8. CASE StopConsumer
  BY <1>8 DEF StopConsumer
<1>9. CASE PopAll
  BY <1>9 DEF PopAll, ToSet
<1>10. CASE SaveJobEvent
  BY <1>10, HeadTailProperties DEF SaveJobEvent
<1>11. CASE StopThreads
  BY <1>11 DEF StopThreads
<1>12. CASE Restart
  BY <1>12, EventStoreAssumption DEF Restart
<1>13. CASE UNCHANGED vars
  BY <1>13 DEF vars
<1> QED
  BY <1>1, <1>2, <1>3, <1>4, <1>5, <1>6, <1>7, <1>8, <1>9, <1>10, <1>11, <1>12, <1>13
  DEF Next, Loader, Consumer, Hook, Pusher

\* The part of the invariant that is about waiting threads.
Waits == Bounded /\ BlockedPush /\ RoomIsSeen /\ FullWhenBack /\ WaitsAlone

\* A step that leaves the store, the wait set and the consumer alone, and
\* takes no event from a thread, keeps it.
LEMMA WaitsFrame ==
  ASSUME TypeOK, Waits, UNCHANGED <<store, waiting, shouldRun, consumer>>,
         \A t \in Pusher : todo[t] # <<>> => todo'[t] # <<>>
  PROVE  Waits'
<1>1. Blocked' = Blocked /\ Blocked \subseteq Pusher
  BY DEF Blocked, TypeOK
<1>2. BlockedPush'
  BY <1>1 DEF BlockedPush, Waits
<1>3. RoomIsSeen'
  BY <1>1 DEF RoomIsSeen, Waits, Pushing
<1>4. Bounded' /\ FullWhenBack' /\ WaitsAlone'
  BY <1>1 DEF Bounded, FullWhenBack, WaitsAlone, Waits
<1> QED
  BY <1>2, <1>3, <1>4 DEF Waits

\* Every step keeps the parts of the invariant about waiting threads.
LEMMA EStep == EInv /\ [Next]_vars => EInv'
<1> SUFFICES ASSUME EInv, [Next]_vars PROVE EInv'
  OBVIOUS
<1>1. TypeOK /\ TypeOK'
  BY TypeStep DEF EInv
<1>2. Len(store) \in Nat /\ Len(store') \in Nat /\ Size \in Nat \ {0}
  BY <1>1, LenProperties, EventStoreAssumption DEF TypeOK
<1>3. "consumer" \notin Pusher
  BY EventStoreAssumption DEF Pusher
<1>4. Waits /\ HookStops
  BY DEF EInv, Waits
<1> USE DEF Waits
<1>5. ASSUME NEW t \in Pusher, Push(t) PROVE Waits'
  <2>1. UNCHANGED <<shouldRun, consumer>>
    BY <1>5 DEF Push
  <2>2. CASE Len(store) = Size
    <3>1. store' = store /\ waiting' = waiting \cup {t}
      BY <1>5, <2>2 DEF Push, Wait
    <3>2. store # <<>>
      BY <1>1, <1>2, <2>2, EmptySeq DEF TypeOK
    <3>3. todo' = todo /\ todo[t] # <<>>
      BY <1>2, <1>5, <2>2 DEF Push, Pushing
    <3> QED
      BY <1>2, <1>3, <1>4, <2>1, <2>2, <3>1, <3>2, <3>3
      DEF Bounded, BlockedPush, RoomIsSeen, FullWhenBack, WaitsAlone, Blocked
  <2>3. CASE Len(store) # Size
    <3>1. /\ Notify
          /\ store' = Append(store, Head(todo[t]))
          /\ todo' = [todo EXCEPT ![t] = Tail(@)]
      BY <1>5, <2>3 DEF Push, Returned
    <3>2. todo[t] # <<>> /\ t \notin waiting /\ todo[t] \in Seq(Event)
      BY <1>1, <1>5 DEF Push, Pushing, TypeOK
    <3>3. Head(todo[t]) \in Event
      BY <3>2, HeadTailProperties
    <3>4. Len(store') = Len(store) + 1
      BY <1>1, <3>1, <3>3, AppendProperties DEF TypeOK
    <3>5. Bounded'
      BY <1>2, <1>4, <2>3, <3>4 DEF Bounded
    <3>6. waiting' \subseteq waiting
      BY <3>1, NotifyShrinks
    <3>7. FullWhenBack'
      BY <1>4, <2>1, <2>3, <3>6 DEF FullWhenBack, Blocked
    <3>8. WaitsAlone'
      BY <1>4, <2>1, <3>1, Zenon DEF WaitsAlone, Blocked, Notify
    <3>9. BlockedPush'
      BY <1>1, <1>4, <3>1, <3>2, <3>6 DEF BlockedPush, Blocked, TypeOK
    <3>10. RoomIsSeen'
      <4> SUFFICES ASSUME shouldRun["consumer"], Blocked' # {}
                   PROVE  \E u \in Pusher : Pushing(u)'
        BY <2>1 DEF RoomIsSeen
      <4>1. "consumer" \notin waiting
        BY <1>4, <3>6 DEF WaitsAlone, Blocked
      <4>2. PICK u \in waiting : waiting' = waiting \ {u}
        BY <3>1, <3>6 DEF Notify, Blocked
      <4>3. u \in Pusher /\ u # t /\ todo[u] # <<>>
        BY <1>1, <1>4, <3>2, <4>1, <4>2 DEF TypeOK, BlockedPush, Blocked
      <4>4. todo'[u] = todo[u]
        BY <1>1, <3>1, <4>3 DEF TypeOK
      <4> QED
        BY <4>2, <4>3, <4>4 DEF Pushing
    <3> QED
      BY <3>5, <3>7, <3>8, <3>9, <3>10
  <2> QED
    BY <2>2, <2>3
<1>6. ASSUME Pop PROVE Waits'
  <2>1. UNCHANGED <<shouldRun, todo>> /\ consumer = "pop" /\ "consumer" \notin waiting
    BY <1>6 DEF Pop
  <2>2. CASE store = <<>>
    <3>1. store' = store /\ waiting' = waiting \cup {"consumer"} /\ consumer' = consumer
      BY <1>6, <2>2 DEF Pop, Wait
    <3>2. Len(store) = 0
      BY <2>2, EmptySeq
    <3>3. shouldRun["consumer"] => Blocked = {}
      BY <1>2, <1>4, <2>1, <3>2 DEF FullWhenBack
    <3>4. Blocked' = Blocked
      BY <3>1 DEF Blocked
    <3>5. BlockedPush' /\ Bounded'
      BY <1>4, <2>1, <3>1, <3>4 DEF BlockedPush, Bounded
    <3> QED
      BY <2>1, <2>2, <3>1, <3>3, <3>4, <3>5 DEF RoomIsSeen, FullWhenBack, WaitsAlone
  <2>3. CASE store # <<>>
    <3>1. Notify /\ store' = Front(store) /\ consumer' = "execute"
      BY <1>6, <2>3 DEF Pop
    <3>2. Len(store') = Len(store) - 1
      BY <1>1, <2>3, <3>1, FrontLast DEF TypeOK
    <3>3. waiting' \subseteq waiting
      BY <3>1, NotifyShrinks
    <3>4. RoomIsSeen'
      <4> SUFFICES ASSUME Blocked' # {}
                   PROVE  \E u \in Pusher : Pushing(u)'
        BY DEF RoomIsSeen
      <4>1. PICK u \in waiting : waiting' = waiting \ {u}
        BY <3>1, <3>3 DEF Notify, Blocked
      <4>2. u \in Pusher /\ todo[u] # <<>>
        BY <1>1, <1>4, <2>1, <4>1 DEF TypeOK, BlockedPush, Blocked
      <4> QED
        BY <2>1, <4>1, <4>2 DEF Pushing
    <3>5. Bounded'
      BY <1>2, <1>4, <3>2 DEF Bounded
    <3>6. Blocked' \subseteq Blocked /\ "consumer" \notin waiting'
      BY <2>1, <3>3 DEF Blocked
    <3>7. BlockedPush'
      BY <1>4, <2>1, <3>6 DEF BlockedPush
    <3> QED
      BY <3>1, <3>4, <3>5, <3>6, <3>7 DEF FullWhenBack, WaitsAlone
  <2> QED
    BY <2>2, <2>3
<1>7. ASSUME NEW p \in Producer, Produce(p) PROVE Waits'
  <2>1. PICK e : todo' = [todo EXCEPT ![p] = <<e>>]
    BY <1>7 DEF Produce
  <2>2. \A t \in Pusher : todo[t] # <<>> => todo'[t] # <<>>
    BY <1>1, <2>1 DEF TypeOK
  <2>3. UNCHANGED <<store, waiting, shouldRun, consumer>>
    BY <1>7 DEF Produce
  <2> QED
    BY <1>1, <1>4, <2>2, <2>3, WaitsFrame
<1>8. ASSUME Execute PROVE Waits'
  <2>1. UNCHANGED <<store, waiting, todo, shouldRun>> /\ consumer = "execute" /\ consumer' = "sleep"
    BY <1>8 DEF Execute
  <2>2. Blocked' = Blocked
    BY <2>1 DEF Blocked
  <2>3. BlockedPush' /\ RoomIsSeen' /\ Bounded'
    BY <1>4, <2>1, <2>2 DEF BlockedPush, RoomIsSeen, Bounded, Pushing
  <2> QED
    BY <1>4, <2>1, <2>3 DEF FullWhenBack, WaitsAlone
<1>9. ASSUME Wake PROVE Waits'
  <2>1. UNCHANGED <<store, waiting, todo, shouldRun>> /\ consumer = "sleep"
    BY <1>9 DEF Wake
  <2>2. shouldRun["consumer"] => \A t \in Pusher : ~Pushing(t)
    BY <1>9 DEF Wake
  <2>3. Blocked' = Blocked
    BY <2>1 DEF Blocked
  <2>4. BlockedPush' /\ RoomIsSeen' /\ Bounded'
    BY <1>4, <2>1, <2>3 DEF BlockedPush, RoomIsSeen, Bounded, Pushing
  <2>5. FullWhenBack'
    BY <1>4, <2>1, <2>2, <2>3 DEF FullWhenBack, RoomIsSeen
  <2> QED
    BY <1>4, <2>1, <2>4, <2>5 DEF WaitsAlone
<1>10. ASSUME LoadFind PROVE Waits'
  <2>1. UNCHANGED <<store, waiting, shouldRun, consumer>>
    BY <1>10 DEF LoadFind
  <2>2. \A t \in Pusher : todo[t] # <<>> => todo'[t] # <<>>
    BY <1>1, <1>10 DEF LoadFind, TypeOK, Pusher
  <2> QED
    BY <1>1, <1>4, <2>1, <2>2, WaitsFrame
<1>11. ASSUME LoadDelete \/ SaveJobEvent \/ UNCHANGED vars PROVE Waits'
  <2>1. UNCHANGED <<store, waiting, shouldRun, consumer, todo>>
    BY <1>11 DEF LoadDelete, SaveJobEvent, vars
  <2> QED
    BY <1>1, <1>4, <2>1, WaitsFrame
<1>12. ASSUME StopConsumer \/ PopAll \/ StopThreads PROVE Waits'
  <2>1. ~shouldRun'["consumer"]
    BY <1>1, <1>4, <1>12 DEF StopConsumer, PopAll, StopThreads, HookStops, TypeOK
  <2>2. waiting' \subseteq waiting /\ todo' = todo /\ store' \in {store, <<>>}
    BY <1>12 DEF StopConsumer, PopAll, StopThreads
  <2>3. Bounded'
    BY <1>2, <1>4, <2>2, EmptySeq DEF Bounded
  <2>4. BlockedPush'
    BY <1>4, <2>2 DEF BlockedPush, Blocked
  <2> QED
    BY <2>1, <2>3, <2>4 DEF RoomIsSeen, FullWhenBack, WaitsAlone
<1>13. ASSUME Restart PROVE Waits'
  <2>1. waiting' = {} /\ store' = <<>>
    BY <1>13 DEF Restart
  <2>2. Blocked' = {}
    BY <2>1 DEF Blocked
  <2>3. Bounded'
    BY <1>2, <2>1, EmptySeq DEF Bounded
  <2> QED
    BY <2>1, <2>2, <2>3 DEF BlockedPush, RoomIsSeen, FullWhenBack, WaitsAlone
<1>14. HookStops'
  <2>1. CASE StopConsumer \/ Restart
    BY <1>1, <2>1 DEF StopConsumer, Restart, HookStops, TypeOK
  <2>2. CASE PopAll \/ SaveJobEvent \/ StopThreads
    BY <1>1, <1>4, <2>2 DEF PopAll, SaveJobEvent, StopThreads, HookStops, TypeOK
  <2>3. CASE UNCHANGED <<hook, shouldRun>>
    BY <1>4, <2>3 DEF HookStops
  <2> QED
    BY <2>1, <2>2, <2>3
    DEF Next, vars, Hook, Loader, Consumer, Push, Pop, Produce, Execute, Wake, LoadFind, LoadDelete
<1>15. Waits'
  BY <1>5, <1>6, <1>7, <1>8, <1>9, <1>10, <1>11, <1>12, <1>13
  DEF Next, Hook, Loader, Consumer, Pusher
<1> QED
  BY <1>1, <1>14, <1>15 DEF EInv

-----------------------------------------------------------------------------
(* The consumer after shutDown has begun. *)

\* No event counts as late while the consumer runs, nor when it is about to
\* take one: a consumer that has taken a late event finds its flag unset.
Stopping ==
  /\ late \in {0, 1}
  /\ shouldRun["consumer"] \/ consumer = "pop" => late = 0

\* Every step keeps that.
LEMMA StopStep == TypeOK /\ Stopping /\ [Next]_vars => Stopping'
<1> SUFFICES ASSUME TypeOK, Stopping, [Next]_vars PROVE Stopping'
  OBVIOUS
<1>1. CASE Pop
  BY <1>1 DEF Pop, Stopping
<1>2. CASE Wake
  BY <1>2 DEF Wake, Stopping
<1>3. CASE Execute
  BY <1>3 DEF Execute, Stopping
<1>4. CASE StopConsumer \/ StopThreads
  BY <1>4 DEF StopConsumer, StopThreads, Stopping, TypeOK
<1>5. CASE Restart
  BY <1>5 DEF Restart, Stopping
<1>6. CASE UNCHANGED <<late, shouldRun, consumer>>
  BY <1>6 DEF Stopping
<1> QED
  BY <1>1, <1>2, <1>3, <1>4, <1>5, <1>6
  DEF Next, vars, Hook, Loader, Consumer, Push, Produce, LoadFind, LoadDelete, PopAll, SaveJobEvent

-----------------------------------------------------------------------------
(* The way of an event.  Until the first shutdown or restart an event is in *)
(* one place: with the thread that pushes it, in the store, in the          *)
(* consumer's hand or executed.  ConsumedOnce alone is not inductive: it    *)
(* depends on what is still on its way.                                     *)

Distinct(s) == \A i, j \in 1..Len(s) : s[i] = s[j] => i = j

\* Event e is executed, or was taken by the consumer to be.
Taken(e) == e = hand \/ consumed[e] > 0

\* Event e has been pushed.
Pushed(e) == e \in ToSet(store) \/ Taken(e)

\* No list holds an event twice.
NoDuplicates ==
  /\ Distinct(store) /\ Distinct(table)
  /\ \A t \in Pusher : Distinct(todo[t])

\* What a thread is pushing has not been pushed, and no other thread has it.
PushedOnce ==
  \A t \in Pusher : \A e \in ToSet(todo[t]) :
    /\ ~Pushed(e)
    /\ \A u \in Pusher \ {t} : e \notin ToSet(todo[u])

\* What is in the store was not taken, and what is taken not executed.
TakenOnce ==
  /\ \A e \in ToSet(store) : ~Taken(e)
  /\ \A e \in Event : consumed[e] <= 1 /\ (e = hand => consumed[e] = 0)
  /\ consumer = "execute" => hand \in Event

\* The events that are anywhere were produced.
Known ==
  \A e \in Event \ produced :
    /\ ~Pushed(e) /\ e \notin ToSet(table)
    /\ \A t \in Pusher : e \notin ToSet(todo[t])

\* The rows that loadJobEvent is going to read are events that nobody has.
\* Between its read and its delete the loader is pushing.
RowsAreNew ==
  /\ loader # "push" => todo["loader"] = <<>>
  /\ loader = "sleep" => \A e \in ToSet(table) :
       ~Pushed(e) /\ \A t \in Pusher : e \notin ToSet(todo[t])

Places == NoDuplicates /\ PushedOnce /\ TakenOnce /\ Known /\ RowsAreNew

\* The process is the first one, and nobody has called shutDown.
FirstLife == hook = "none" /\ restarts = 0

\* The head of a list and the rest of it (push).
LEMMA HeadApart ==
  ASSUME NEW s \in Seq(Event), s # <<>>, Distinct(s)
  PROVE  /\ Head(s) \in Event /\ Tail(s) \in Seq(Event)
         /\ Head(s) \in ToSet(s)
         /\ ToSet(Tail(s)) = ToSet(s) \ {Head(s)}
         /\ Distinct(Tail(s))
<1>1. /\ Len(s) \in Nat \ {0} /\ DOMAIN s = 1..Len(s)
      /\ Head(s) = s[1] /\ Tail(s) \in Seq(Event) /\ Len(Tail(s)) = Len(s) - 1
  BY HeadTailProperties, LenProperties, EmptySeq
<1>2. \A i \in 1..Len(Tail(s)) : i + 1 \in 1..Len(s) /\ Tail(s)[i] = s[i+1]
  BY <1>1, HeadTailProperties
<1>3. DOMAIN Tail(s) = 1..Len(Tail(s))
  BY <1>1, LenProperties
<1>4. Head(s) \in Event /\ Head(s) \in ToSet(s)
  BY <1>1 DEF ToSet
<1>5. Distinct(Tail(s))
  BY <1>1, <1>2 DEF Distinct
<1>6. ASSUME NEW e \in ToSet(Tail(s)) PROVE e \in ToSet(s) \ {Head(s)}
  <2>1. PICK i \in 1..Len(Tail(s)) : e = Tail(s)[i]
    BY <1>3 DEF ToSet
  <2>2. e = s[i+1] /\ i + 1 \in 1..Len(s) /\ i + 1 # 1 /\ 1 \in 1..Len(s)
    BY <1>1, <1>2, <2>1
  <2>3. e # s[1]
    BY <2>2 DEF Distinct
  <2> QED
    BY <1>1, <2>2, <2>3 DEF ToSet
<1>7. ASSUME NEW e \in ToSet(s), e # Head(s) PROVE e \in ToSet(Tail(s))
  <2>1. PICK i \in 1..Len(s) : e = s[i]
    BY <1>1 DEF ToSet
  <2>2. i - 1 \in 1..Len(Tail(s)) /\ i = (i - 1) + 1
    BY <1>1, <1>7, <2>1
  <2>3. e = Tail(s)[i - 1]
    BY <1>2, <2>1, <2>2
  <2> QED
    BY <1>3, <2>2, <2>3 DEF ToSet
<1> QED
  BY <1>1, <1>4, <1>5, <1>6, <1>7

\* The last element and the others (pop).
LEMMA LastApart ==
  ASSUME NEW s \in Seq(Event), s # <<>>, Distinct(s)
  PROVE  /\ Last(s) \in ToSet(s)
         /\ ToSet(Front(s)) \subseteq ToSet(s) \ {Last(s)}
         /\ Distinct(Front(s))
<1>0. \A n \in Nat \ {0} : \A i \in 1..(n - 1) : i \in 1..n /\ i # n /\ n \in 1..n
  OBVIOUS
<1>1. /\ Len(s) \in Nat \ {0} /\ DOMAIN s = 1..Len(s)
      /\ Front(s) \in Seq(Event) /\ Len(Front(s)) = Len(s) - 1
      /\ Last(s) = s[Len(s)]
  BY FrontLast, LenProperties, EmptySeq DEF Last
<1>2. \A i \in 1..(Len(s) - 1) : Front(s)[i] = s[i]
  BY <1>1, SubSeqProperties DEF Front
<1>3. DOMAIN Front(s) = 1..(Len(s) - 1)
  BY <1>1, LenProperties
<1>4. Last(s) \in ToSet(s)
  BY <1>1 DEF ToSet
<1>5. Distinct(Front(s))
  BY <1>1, <1>2 DEF Distinct
<1>6. ASSUME NEW e \in ToSet(Front(s)) PROVE e \in ToSet(s) \ {Last(s)}
  <2>1. PICK i \in 1..(Len(s) - 1) : e = Front(s)[i]
    BY <1>3 DEF ToSet
  <2>2. i \in 1..Len(s) /\ i # Len(s) /\ Len(s) \in 1..Len(s)
    BY <1>1, <1>0
  <2>3. e = s[i]
    BY <1>2, <2>1
  <2>4. e # s[Len(s)]
    BY <2>2, <2>3 DEF Distinct
  <2> QED
    BY <1>1, <2>2, <2>3, <2>4 DEF ToSet
<1> QED
  BY <1>4, <1>5, <1>6

\* A list with one more element.
LEMMA AppendApart ==
  ASSUME NEW s \in Seq(Event), NEW e \in Event
  PROVE  /\ ToSet(Append(s, e)) = ToSet(s) \cup {e}
         /\ Distinct(s) /\ e \notin ToSet(s) => Distinct(Append(s, e))
<1> DEFINE a == Append(s, e)
<1>1. /\ Len(s) \in Nat /\ DOMAIN s = 1..Len(s)
      /\ a \in Seq(Event) /\ Len(a) = Len(s) + 1
      /\ \A i \in 1..Len(s) : a[i] = s[i]
      /\ a[Len(s) + 1] = e
  BY AppendProperties, LenProperties
<1>2. DOMAIN a = 1..(Len(s) + 1)
  BY <1>1, LenProperties
<1>3. \A i \in 1..Len(a) : i \in 1..Len(s) \/ i = Len(s) + 1
  BY <1>1
<1> HIDE DEF a
<1>4. ToSet(a) = ToSet(s) \cup {e}
  BY <1>1, <1>2, <1>3 DEF ToSet
<1>5. ASSUME Distinct(s), e \notin ToSet(s) PROVE Distinct(a)
  BY <1>1, <1>3, <1>5 DEF Distinct, ToSet
<1> QED
  BY <1>4, <1>5 DEF a

\* The empty list and the list of one element.
LEMMA ShortLists ==
  /\ ToSet(<<>>) = {} /\ Distinct(<<>>)
  /\ \A e \in Event : ToSet(<<e>>) = {e} /\ Distinct(<<e>>)
<1>1. ToSet(<<>>) = {} /\ Distinct(<<>>)
  BY DEF ToSet, Distinct
<1>2. ASSUME NEW e \in Event PROVE ToSet(<<e>>) = {e} /\ Distinct(<<e>>)
  <2>1. DOMAIN <<e>> = {1} /\ <<e>>[1] = e /\ Len(<<e>>) = 1
    OBVIOUS
  <2> QED
    BY <2>1 DEF ToSet, Distinct
<1> QED
  BY <1>1, <1>2

\* At first the events are in the table.
LEMMA PlacesInit == Init => Places
<1> SUFFICES ASSUME Init PROVE Places
  OBVIOUS
<1>1. Cardinality(Saved) \in Nat
  BY FS_CardinalityType, EventStoreAssumption
<1>2. /\ table \in [1..Cardinality(Saved) -> Saved]
      /\ \A i, j \in 1..Cardinality(Saved) : i # j => table[i] # table[j]
  BY DEF Init, SetToSeqs
<1>3. DOMAIN table = 1..Len(table) /\ ToSet(table) \subseteq Saved
  BY <1>1, <1>2, SavedSeq, LenProperties DEF Init, ToSet
<1>4. Distinct(table)
  BY <1>2, <1>3 DEF Distinct
<1>5. "loader" \in Pusher /\ Saved \subseteq Event
  BY EventStoreAssumption DEF Pusher
<1>6. \A e \in Event : ~Pushed(e)
  BY ShortLists, EventStoreAssumption DEF Init, Pushed, Taken
<1>7. \A t \in Pusher : ToSet(todo[t]) = {} /\ Distinct(todo[t])
  BY ShortLists DEF Init
<1>8. todo["loader"] = <<>> /\ produced = Saved /\ ToSet(store) = {} /\ Distinct(store)
  BY <1>5, ShortLists DEF Init
<1>9. TakenOnce
  BY <1>8, EventStoreAssumption DEF Init, TakenOnce
<1> QED
  BY <1>3, <1>4, <1>5, <1>6, <1>7, <1>8, <1>9
  DEF Places, NoDuplicates, PushedOnce, Known, RowsAreNew

\* push: the event moves from its thread to the store.
LEMMA PushPlaces ==
  ASSUME TypeOK, Places, NEW t \in Pusher, Push(t)
  PROVE  Places'
<1> DEFINE e == Head(todo[t])
<1>1. UNCHANGED <<table, consumed, hand, consumer, produced>>
  BY DEF Push
<1>2. CASE Len(store) = Size
  <2>1. UNCHANGED <<store, todo, loader>>
    BY <1>2 DEF Push, Wait
  <2> QED
    BY <1>1, <2>1
    DEF Places, NoDuplicates, PushedOnce, TakenOnce, Known, RowsAreNew, Pushed, Taken
<1>3. CASE Len(store) # Size
  <2>1. /\ store' = Append(store, e)
        /\ todo' = [todo EXCEPT ![t] = Tail(todo[t])]
        /\ loader' = IF t = "loader" /\ Len(todo[t]) = 1 THEN "delete" ELSE loader
    BY <1>3 DEF Push, Returned
  <2>2. todo[t] # <<>> /\ todo[t] \in Seq(Event) /\ store \in Seq(Event) /\ Distinct(todo[t])
    BY DEF Push, Pushing, TypeOK, Places, NoDuplicates
  <2>3. /\ e \in Event /\ Tail(todo[t]) \in Seq(Event) /\ e \in ToSet(todo[t])
        /\ ToSet(Tail(todo[t])) = ToSet(todo[t]) \ {e}
        /\ Distinct(Tail(todo[t]))
    BY <2>2, HeadApart
  <2>4. todo'[t] = Tail(todo[t]) /\ \A u \in Pusher \ {t} : todo'[u] = todo[u]
    BY <2>1 DEF TypeOK
  <2>5. ~Pushed(e) /\ \A u \in Pusher \ {t} : e \notin ToSet(todo[u])
    BY <2>3 DEF Places, PushedOnce
  <2>6. /\ ToSet(store') = ToSet(store) \cup {e}
        /\ Distinct(store')
    BY <2>1, <2>2, <2>3, <2>5, AppendApart DEF Places, NoDuplicates, Pushed
  <2>7. \A f : Pushed(f)' <=> Pushed(f) \/ f = e
    BY <1>1, <2>6 DEF Pushed, Taken
  <2>8. \A u \in Pusher : ToSet(todo'[u]) \subseteq ToSet(todo[u]) \ {e}
    BY <2>3, <2>4, <2>5
  <2> HIDE DEF e
  <2>9. NoDuplicates'
    BY <1>1, <2>3, <2>4, <2>6 DEF Places, NoDuplicates
  <2>10. PushedOnce'
    BY <2>7, <2>8 DEF Places, PushedOnce
  <2>11. TakenOnce'
    BY <1>1, <2>5, <2>6 DEF Places, TakenOnce, Pushed, Taken
  <2>12. Known'
    BY <1>1, <2>3, <2>7, <2>8 DEF Places, Known
  <2>13. RowsAreNew'
    <3>1. loader' # "push" => todo'["loader"] = <<>>
      <4>1. CASE t = "loader" /\ Len(todo[t]) = 1
        <5>1. Len(Tail(todo[t])) = 0
          BY <2>2, <4>1, HeadTailProperties
        <5> QED
          BY <2>3, <2>4, <4>1, <5>1, EmptySeq
      <4>2. CASE t = "loader" /\ Len(todo[t]) # 1
        BY <2>1, <2>2, <4>2 DEF Places, RowsAreNew
      <4>3. CASE t # "loader"
        BY <2>1, <2>4, <4>3 DEF Places, RowsAreNew, Pusher
      <4> QED
        BY <4>1, <4>2, <4>3
    <3>2. loader' = "sleep" => loader = "sleep"
      BY <2>1
    <3>3. e \notin ToSet(table) \/ loader # "sleep"
      BY <2>3 DEF Places, RowsAreNew
    <3> QED
      BY <1>1, <2>7, <2>8, <3>1, <3>2, <3>3 DEF Places, RowsAreNew
  <2> QED
    BY <2>9, <2>10, <2>11, <2>12, <2>13 DEF Places
<1> QED
  BY <1>2, <1>3

\* pop: the event moves from the store to the consumer's hand.
LEMMA PopPlaces ==
  ASSUME TypeOK, Places, Pop
  PROVE  Places'
<1>1. UNCHANGED <<table, consumed, todo, loader, produced>>
  BY DEF Pop
<1>2. CASE store = <<>>
  <2>1. UNCHANGED <<store, hand, consumer>>
    BY <1>2 DEF Pop, Wait
  <2> QED
    BY <1>1, <2>1
    DEF Places, NoDuplicates, PushedOnce, TakenOnce, Known, RowsAreNew, Pushed, Taken
<1>3. CASE store # <<>>
  <2>1. store' = Front(store) /\ hand' = Last(store) /\ store \in Seq(Event) /\ Distinct(store)
    BY <1>3 DEF Pop, TypeOK, Places, NoDuplicates
  <2>2. /\ hand' \in ToSet(store) /\ hand' \in Event
        /\ ToSet(store') \subseteq ToSet(store) \ {hand'}
        /\ Distinct(store')
    BY <1>3, <2>1, LastApart, FrontLast
  <2>3. \A f : Pushed(f)' => Pushed(f)
    BY <1>1, <2>2 DEF Pushed, Taken
  <2>4. TakenOnce'
    <3>1. consumed \in [Event -> Nat] /\ consumed' = consumed
      BY <1>1 DEF TypeOK
    <3>2. consumed[hand'] = 0
      BY <2>2, <3>1 DEF Places, TakenOnce, Taken
    <3> QED
      BY <1>1, <2>2, <3>1, <3>2 DEF Places, TakenOnce, Taken
  <2> QED
    BY <1>1, <2>2, <2>3, <2>4 DEF Places, NoDuplicates, PushedOnce, Known, RowsAreNew
<1> QED
  BY <1>2, <1>3

\* A producer is given a new event.
LEMMA ProducePlaces ==
  ASSUME TypeOK, Places, NEW p \in Producer, Produce(p)
  PROVE  Places'
<1>1. UNCHANGED <<store, table, hand, consumed, consumer, loader>>
  BY DEF Produce
<1>2. PICK e \in Event : /\ e \notin produced
                         /\ produced' = produced \cup {e}
                         /\ todo' = [todo EXCEPT ![p] = <<e>>]
  BY DEF Produce, TypeOK
<1>3. p \in Pusher /\ p # "loader" /\ "loader" \in Pusher
  BY EventStoreAssumption DEF Pusher
<1>4. todo'[p] = <<e>> /\ \A u \in Pusher \ {p} : todo'[u] = todo[u]
  BY <1>2, <1>3 DEF TypeOK
<1>5. ToSet(todo'[p]) = {e} /\ Distinct(todo'[p])
  BY <1>4, ShortLists
<1>6. /\ ~Pushed(e) /\ e \notin ToSet(table)
      /\ \A t \in Pusher : e \notin ToSet(todo[t])
  BY <1>2 DEF Places, Known
<1>7. \A f : Pushed(f)' <=> Pushed(f)
  BY <1>1 DEF Pushed, Taken
<1>8. NoDuplicates' /\ TakenOnce'
  BY <1>1, <1>4, <1>5 DEF Places, NoDuplicates, TakenOnce, Taken
<1>9. PushedOnce'
  BY <1>3, <1>4, <1>5, <1>6, <1>7 DEF Places, PushedOnce
<1>10. Known'
  BY <1>1, <1>2, <1>4, <1>5, <1>7 DEF Places, Known
<1>11. RowsAreNew'
  BY <1>1, <1>3, <1>4, <1>5, <1>6, <1>7 DEF Places, RowsAreNew
<1> QED
  BY <1>8, <1>9, <1>10, <1>11 DEF Places

\* EventJob.execute: what was in the consumer's hand is executed.
LEMMA ExecutePlaces ==
  ASSUME TypeOK, Places, Execute
  PROVE  Places'
<1>1. UNCHANGED <<store, table, todo, loader, produced>>
  BY DEF Execute
<1>2. hand \in Event /\ consumed[hand] = 0
  BY DEF Execute, Places, TakenOnce
<1>3. /\ consumed \in [Event -> Nat] /\ consumer' = "sleep"
      /\ consumed' = [consumed EXCEPT ![hand] = consumed[hand] + 1] /\ hand' = Nothing
  BY DEF Execute, TypeOK
<1>4. Nothing \notin Event
  BY EventStoreAssumption
<1>5. consumed'[hand] = 1 /\ \A f \in Event \ {hand} : consumed'[f] = consumed[f]
  BY <1>2, <1>3
<1>6. \A f \in Event : Taken(f)' <=> Taken(f)
  BY <1>2, <1>3, <1>4, <1>5 DEF Taken
<1>7. ToSet(store) \subseteq Event /\ ToSet(table) \subseteq Event
      /\ \A t \in Pusher : ToSet(todo[t]) \subseteq Event
  BY DEF TypeOK, ToSet
<1>8. \A f \in Event : Pushed(f)' <=> Pushed(f)
  BY <1>1, <1>6 DEF Pushed
<1>9. TakenOnce'
  BY <1>1, <1>3, <1>4, <1>5, <1>6, <1>7 DEF Places, TakenOnce
<1> QED
  BY <1>1, <1>7, <1>8, <1>9 DEF Places, NoDuplicates, PushedOnce, Known, RowsAreNew

\* loadJobEvent: the rows of the table become events that the loader pushes,
\* and then the table is emptied.
LEMMA LoadPlaces ==
  ASSUME TypeOK, Places, LoadFind \/ LoadDelete
  PROVE  Places'
<1>1. UNCHANGED <<store, hand, consumed, consumer, produced>>
  BY DEF LoadFind, LoadDelete
<1>2. \A f : Pushed(f)' <=> Pushed(f)
  BY <1>1 DEF Pushed, Taken
<1>3. TakenOnce'
  BY <1>1 DEF Places, TakenOnce, Taken
<1>4. "loader" \in Pusher
  BY DEF Pusher
<1>5. CASE LoadFind /\ todo' = todo
  <2>1. table' = table /\ loader' \in {"ended", "push"} /\ (loader' = "push" \/ loader' # "push")
    BY <1>5 DEF LoadFind
  <2>2. loader = "sleep"
    BY <1>5 DEF LoadFind
  <2>3. RowsAreNew'
    BY <1>5, <2>1, <2>2 DEF Places, RowsAreNew
  <2> QED
    BY <1>1, <1>2, <1>3, <1>5, <2>1, <2>3 DEF Places, NoDuplicates, PushedOnce, Known
<1>6. CASE LoadFind /\ todo' # todo
  <2>1. /\ loader = "sleep" /\ loader' = "push" /\ table' = table
        /\ todo' = [todo EXCEPT !["loader"] = table]
    BY <1>6 DEF LoadFind
  <2>2. todo'["loader"] = table /\ \A u \in Pusher \ {"loader"} : todo'[u] = todo[u]
    BY <1>4, <2>1 DEF TypeOK
  <2>3. \A e \in ToSet(table) : ~Pushed(e) /\ \A t \in Pusher : e \notin ToSet(todo[t])
    BY <2>1 DEF Places, RowsAreNew
  <2>4. NoDuplicates'
    BY <1>1, <2>1, <2>2 DEF Places, NoDuplicates
  <2>5. PushedOnce'
    BY <1>2, <1>4, <2>2, <2>3 DEF Places, PushedOnce
  <2>6. Known' /\ RowsAreNew'
    BY <1>1, <1>2, <1>4, <2>1, <2>2 DEF Places, Known, RowsAreNew
  <2> QED
    BY <1>3, <2>4, <2>5, <2>6 DEF Places
<1>7. CASE LoadDelete
  <2>1. table' = <<>> /\ todo' = todo /\ loader = "delete" /\ loader' = "sleep"
    BY <1>7 DEF LoadDelete
  <2>2. ToSet(table') = {} /\ Distinct(table')
    BY <2>1, ShortLists
  <2> QED
    BY <1>1, <1>2, <1>3, <2>1, <2>2 DEF Places, NoDuplicates, PushedOnce, Known, RowsAreNew
<1> QED
  BY <1>5, <1>6, <1>7

\* Every step of the first process before a shutdown leaves each event in one
\* place, and no step leads back into that part of its life.
LEMMA PlacesStep ==
  TypeOK /\ (FirstLife => Places) /\ [Next]_vars => (FirstLife => Places)'
<1> SUFFICES ASSUME TypeOK, FirstLife => Places, [Next]_vars, FirstLife' PROVE Places'
  OBVIOUS
<1>1. CASE Hook \/ Restart
  BY <1>1 DEF Hook, StopConsumer, PopAll, SaveJobEvent, StopThreads, Restart, FirstLife, TypeOK
<1>2. CASE ~(Hook \/ Restart)
  <2>1. Places
    BY <1>2 DEF Next, Loader, Consumer, Push, Pop, Produce, Execute, Wake, LoadFind, LoadDelete,
                vars, FirstLife
  <2>2. CASE Wake \/ UNCHANGED vars
    BY <2>1, <2>2
    DEF Wake, vars, Places, NoDuplicates, PushedOnce, TakenOnce, Known, RowsAreNew, Pushed, Taken
  <2> QED
    BY <1>2, <2>1, <2>2, PushPlaces, PopPlaces, ProducePlaces, ExecutePlaces, LoadPlaces
    DEF Next, Loader, Consumer, Pusher
<1> QED
  BY <1>1, <1>2

-----------------------------------------------------------------------------
\* The invariant holds in every reachable state (all of module EventStore).
THEOREM Invariance == Spec => []EInv
BY EInit, EStep, PTL DEF Spec

\* Types: the fields of JobEventStorehouse and of the threads that use it.
THEOREM TypeCorrect == Spec => []TypeOK
<1>1. EInv => TypeOK
  BY DEF EInv
<1> QED
  BY <1>1, Invariance, PTL

\* JobEventStorehouse: push never writes behind the end of products, and while
\* the consumer runs no notify() is wasted on a thread that must go on waiting.
THEOREM NotifySuffices == Spec => [](NeverMixed /\ Bounded)
<1>1. EInv => NeverMixed
  <2> SUFFICES ASSUME EInv, "consumer" \in waiting, shouldRun["consumer"]
               PROVE  waiting = {"consumer"}
    BY DEF NeverMixed
  <2>1. waiting \ {"consumer"} = {}
    BY DEF EInv, WaitsAlone, Blocked
  <2> QED
    BY <2>1
<1>2. EInv => Bounded
  BY DEF EInv
<1> QED
  BY <1>1, <1>2, Invariance, PTL

\* JobEventConsumer: after setShouldRun(false) it takes at most one event, and
\* never a second, whatever is pushed behind popAll's back.
THEOREM StopsInTime == Spec => []StopsSoon
<1>1. Init => Stopping
  BY DEF Init, Stopping
<1>2. Stopping => StopsSoon
  BY DEF Stopping, StopsSoon
<1> QED
  BY <1>1, <1>2, StopStep, TypeCorrect, PTL DEF Spec

\* JobEventStorehouse and loadJobEvent: in the first process, up to a
\* shutdown, no event is executed twice.  The restriction is the code's: what
\* a process executes before it has deleted the rows it has loaded, the next
\* one executes again.
THEOREM OnceInFirstLife == Spec => [](FirstLife => ConsumedOnce)
<1>1. Init => (FirstLife => Places)
  BY PlacesInit
<1>2. (FirstLife => Places) => (FirstLife => ConsumedOnce)
  BY DEF Places, TakenOnce, ConsumedOnce
<1> QED
  BY <1>1, <1>2, PlacesStep, TypeCorrect, PTL DEF Spec

\* The same for an engine that is neither shut down nor started again: every
\* event, also one loaded from the table, is executed at most once.
THEOREM ExecutesOnce ==
  ASSUME ~MayShutDown, MaxRestarts = 0
  PROVE  Spec => []ConsumedOnce
<1>1. Init => FirstLife
  BY DEF Init, FirstLife
<1>2. FirstLife /\ [Next]_vars => FirstLife'
  BY DEF FirstLife, Next, vars, Hook, Loader, Consumer, Push, Pop, Produce, Execute, Wake,
         LoadFind, LoadDelete, StopConsumer, PopAll, SaveJobEvent, StopThreads, Restart
<1> QED
  BY <1>1, <1>2, OnceInFirstLife, PTL DEF Spec

-----------------------------------------------------------------------------
(* The monitor implements the buffer of EventBuffer. *)

\* products has no place behind its end, and holds the store in the first ones.
LEMMA ProductsShape ==
  ASSUME NEW s \in Seq(Event), Len(s) <= Size
  PROVE  /\ Len(s) \in Nat /\ DOMAIN s = 1..Len(s)
         /\ DOMAIN s \cup 1..Size = 1..Size
BY LenProperties, EventStoreAssumption

\* push fills the first free place.
LEMMA PushPuts ==
  ASSUME EInv, EInv', NEW e \in Event, store' = Append(store, e)
  PROVE  Buffer!Put(e)
<1>1. /\ store \in Seq(Event) /\ store' \in Seq(Event)
      /\ Len(store) <= Size /\ Len(store') <= Size
  BY DEF EInv, TypeOK, Bounded
<1>2. /\ Len(store) \in Nat /\ Len(store') = Len(store) + 1
      /\ DOMAIN store = 1..Len(store) /\ DOMAIN store' = 1..Len(store')
      /\ \A i \in 1..Len(store) : store'[i] = store[i]
      /\ store'[Len(store) + 1] = e
  BY <1>1, AppendProperties, LenProperties
<1> DEFINE k == Len(store) + 1
<1>3. /\ k \in 1..Size /\ k \notin DOMAIN store
      /\ \A i \in 1..Size : i \in DOMAIN store' <=> i \in DOMAIN store \/ i = k
  BY <1>1, <1>2, EventStoreAssumption
<1>4. /\ products = [i \in 1..Size |-> IF i \in DOMAIN store THEN store[i] ELSE Nothing]
      /\ products' = [i \in 1..Size |-> IF i \in DOMAIN store' THEN store'[i] ELSE Nothing]
  BY <1>1, ProductsShape DEF products
<1> HIDE DEF k
<1>5. products[k] = Nothing /\ products' = [products EXCEPT ![k] = e]
  BY <1>2, <1>3, <1>4 DEF k
<1> QED
  BY <1>3, <1>5 DEF Buffer!Put

\* pop frees the last place that is not free.
LEMMA PopTakes ==
  ASSUME EInv, EInv', store # <<>>, store' = Front(store)
  PROVE  Buffer!Take(Last(store))
<1>1. /\ store \in Seq(Event) /\ store' \in Seq(Event)
      /\ Len(store) <= Size /\ Len(store') <= Size
  BY DEF EInv, TypeOK, Bounded
<1> DEFINE k == Len(store)
<1>2. k \in Nat \ {0} /\ DOMAIN store = 1..k
  BY <1>1, EmptySeq, LenProperties
<1>3. Len(store') = k - 1 /\ DOMAIN store' = 1..(k - 1) /\ Last(store) = store[k]
  BY <1>1, FrontLast, LenProperties DEF Last
<1>4. \A i \in 1..(k - 1) : store'[i] = store[i]
  BY <1>1, <1>2, SubSeqProperties DEF Front
<1>5. /\ products = [i \in 1..Size |-> IF i \in DOMAIN store THEN store[i] ELSE Nothing]
      /\ products' = [i \in 1..Size |-> IF i \in DOMAIN store' THEN store'[i] ELSE Nothing]
  BY <1>1, ProductsShape DEF products
<1>6. k <= Size
  BY <1>1
<1> HIDE DEF k
<1>7. /\ k \in 1..Size /\ k \in DOMAIN store
      /\ \A i \in 1..Size : i \in DOMAIN store' <=> i \in DOMAIN store /\ i # k
  BY <1>2, <1>3, <1>6, EventStoreAssumption
<1>8. products[k] = Last(store) /\ products' = [products EXCEPT ![k] = Nothing]
  BY <1>3, <1>4, <1>5, <1>7
<1> QED
  BY <1>7, <1>8 DEF Buffer!Take

\* JobEventStorehouse implements EventBuffer: what push, pop and popAll do to
\* products is what a buffer of Size places allows, with any number of threads
\* and through waits, interrupts, shutdowns and restarts.
THEOREM Refinement == Spec => ImplementsBuffer
<1>1. <<>> \in Seq(Event) /\ Len(<<>>) = 0 /\ DOMAIN <<>> = {} /\ Size \in Nat
  BY EmptySeq, EventStoreAssumption
<1>2. Init => Buffer!Init
  BY <1>1 DEF Init, products, Buffer!Init, Buffer!Empty
<1>3. EInv /\ EInv' /\ [Next]_vars => [Buffer!Next]_products
  <2> SUFFICES ASSUME EInv, EInv', [Next]_vars PROVE [Buffer!Next]_products
    OBVIOUS
  <2>1. ASSUME NEW t \in Pusher, Push(t) PROVE [Buffer!Next]_products
    <3>1. CASE Len(store) = Size
      BY <2>1, <3>1 DEF Push, Wait, products
    <3>2. CASE Len(store) # Size
      <4>1. todo[t] \in Seq(Event) /\ todo[t] # <<>>
        BY <2>1 DEF Push, Pushing, EInv, TypeOK
      <4>2. Head(todo[t]) \in Event
        BY <4>1, HeadTailProperties
      <4>3. store' = Append(store, Head(todo[t]))
        BY <2>1, <3>2 DEF Push
      <4> QED
        BY <4>2, <4>3, PushPuts DEF Buffer!Next
    <3> QED
      BY <3>1, <3>2
  <2>2. CASE Pop
    <3>1. CASE store = <<>>
      BY <2>2, <3>1 DEF Pop, Wait, products
    <3>2. CASE store # <<>>
      <4>1. store' = Front(store)
        BY <2>2, <3>2 DEF Pop
      <4>2. Last(store) \in Event
        BY <3>2, FrontLast DEF EInv, TypeOK
      <4> QED
        BY <3>2, <4>1, <4>2, PopTakes DEF Buffer!Next
    <3> QED
      BY <3>1, <3>2
  <2>3. CASE PopAll \/ Restart
    <3>1. store' = <<>>
      BY <2>3 DEF PopAll, Restart
    <3>2. products' = Buffer!Empty
      BY <1>1, <3>1 DEF products, Buffer!Empty
    <3> QED
      BY <3>2 DEF Buffer!Next, Buffer!Drop
  <2>4. CASE UNCHANGED store
    BY <2>4 DEF products
  <2> QED
    BY <2>1, <2>2, <2>3, <2>4
    DEF Next, vars, Hook, Loader, Consumer, Pusher, Produce, Execute, Wake, LoadFind, LoadDelete,
        StopConsumer, SaveJobEvent, StopThreads
<1> QED
  BY <1>2, <1>3, Invariance, PTL DEF Spec, ImplementsBuffer, Buffer!Spec
=============================================================================
