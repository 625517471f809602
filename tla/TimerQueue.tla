---------------------------- MODULE TimerQueue ----------------------------
(***************************************************************************)
(* What the driver relies on of its timers (timer_heap.hh): a set, from    *)
(* which the earliest comes first, and of two with the same time the one   *)
(* that was set first.  Timers whose event is empty may be dropped.        *)
(***************************************************************************)
EXTENDS Integers, FiniteSets

CONSTANT Time

VARIABLES timers,  \* [when, n], n being its place in the order of insertion
          last     \* how many have been inserted

Sooner(a, b) == a.when < b.when \/ (a.when = b.when /\ a.n < b.n)

Init == timers = {} /\ last \in Nat

\* emplace, which first drops some that are empty.
Emplace ==
  \E when \in Time, empty \in SUBSET timers :
    /\ last' = last + 1
    /\ timers' = (timers \ empty) \cup {[when |-> when, n |-> last']}

\* pop: the driver triggers the first one.
Pop ==
  \E first \in timers :
    /\ \A t \in timers \ {first} : Sooner(first, t)
    /\ timers' = timers \ {first}
    /\ UNCHANGED last

Clear == timers' = {} /\ UNCHANGED last

Next == Emplace \/ Pop \/ Clear
Spec == Init /\ [][Next]_<<timers, last>>
=============================================================================
