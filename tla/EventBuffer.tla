----------------------------- MODULE EventBuffer -----------------------------
(***************************************************************************)
(* What JobEventStorehouse promises to the threads that share it: Size     *)
(* places for events.  One event at a time is put into a free place, or    *)
(* taken out of any; popAll, and the end of the process, empty them all.   *)
(***************************************************************************)
EXTENDS Naturals

CONSTANTS Event, Size, Nothing

VARIABLE buffer  \* buffer[i]: the event in place i, or Nothing

Empty == [i \in 1..Size |-> Nothing]

Init == buffer = Empty

Put(e) == \E i \in 1..Size : /\ buffer[i] = Nothing
                             /\ buffer' = [buffer EXCEPT ![i] = e]

Take(e) == \E i \in 1..Size : /\ buffer[i] = e
                              /\ buffer' = [buffer EXCEPT ![i] = Nothing]

Drop == buffer' = Empty

Next == (\E e \in Event : Put(e) \/ Take(e)) \/ Drop

Spec == Init /\ [][Next]_buffer
=============================================================================
