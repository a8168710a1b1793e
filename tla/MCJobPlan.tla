----------------------------- MODULE MCJobPlan -----------------------------
(* JobPlan with threads that TLC need not tell apart, and only so much of the
   trouble as the invariants of the run ask for: no guard reads it. *)
EXTENDS JobPlan, TLC

Threads == Permutations(Actor)

Told == <<table, job, at, started, trouble = {}, "builds" \in trouble>>

\* Where submissions or deletions of a plan overlap, what becomes of the two is
\* followed to their end, and no further: only TypeOK speaks of these states.
Followed ==
  "builds" \in trouble => /\ \A a \in Actor : at[a].op \in Builds \cup {"none"}
                          /\ \E a \in Actor : at[a] # Idle

=============================================================================
