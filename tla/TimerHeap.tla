----------------------------- MODULE TimerHeap -----------------------------
(***************************************************************************)
(* timer_heap.hh: a heap of Arity in an array, ordered by time and, for    *)
(* equal times, by a number that circular_int compares with wrap-around.   *)
(* A large heap drops elements that are empty from anywhere in the array   *)
(* when another one is inserted.                                           *)
(*                                                                         *)
(* The array is a function on 0..size-1; an element keeps, as a history,   *)
(* how many were inserted up to it, of which its order is the remainder.   *)
(***************************************************************************)
EXTENDS Integers, FiniteSets, Functions, SequencesExt

CONSTANTS Time, Arity,
          Width,      \* how many orders there are, 2^32 in the code
          CullSize,   \* the size from which emplace looks for empty elements, 32 in the code
          MaxSize,    \* bound: elements
          First,      \* bound: insertions before
          Insertions  \* bound: insertions

VARIABLES es,   \* es_
          last  \* order_, without wrap-around

Size(h) == Cardinality(DOMAIN h)
Order(x) == x.n % Width

\* Wrong: the numbers are compared as they are.
WrongLess(a, b) == a < b
\* circular_int::operator<=>.
Less(a, b) == a # b /\ (a - b) % Width >= Width \div 2

Before(x, y) == x.when < y.when \/ (x.when = y.when /\ Less(Order(x), Order(y)))

Parent(i) == (i - (IF Arity = 2 THEN 1 ELSE 0)) \div Arity
FirstChild(i) == i * Arity + (IF Arity = 2 \/ i = 0 THEN 1 ELSE 0)
LastChild(h, i) == Min({i * Arity + Arity + (IF Arity = 2 THEN 1 ELSE 0), Size(h)})

Swap(h, i, j) == [h EXCEPT ![i] = h[j], ![j] = h[i]]

\* Moves an element towards the root, or away from it, to its place.
RECURSIVE Up(_, _), Down(_, _)
Up(h, i) ==
  IF i = 0 \/ ~Before(h[i], h[Parent(i)]) THEN h ELSE Up(Swap(h, i, Parent(i)), Parent(i))
Down(h, i) ==
  LET family == {i} \cup FirstChild(i)..(LastChild(h, i) - 1)
      smallest == CHOOSE t \in family : \A u \in family \ {t} : ~Before(h[u], h[t]) IN
  IF smallest = i THEN h ELSE Down(Swap(h, i, smallest), smallest)

\* Wrong: what takes an element's place is not smaller than its parent.
WrongPlace(h, i) == Down(h, i)
Place(h, i) == IF i = 0 \/ ~Before(h[i], h[Parent(i)]) THEN Down(h, i) ELSE Up(h, i)

\* hard_cull: the last element takes the place of the one that goes.
HardCull(h, i) ==
  LET n == Size(h) - 1
      shorter == [j \in 0..(n - 1) |-> IF j = i THEN h[n] ELSE h[j]] IN
  IF i = n THEN shorter ELSE Place(shorter, i)

Inserted(h, x) == LET n == Size(h) IN Up([j \in 0..n |-> IF j = n THEN x ELSE h[j]], n)

Init == es = [j \in {} |-> 0] /\ last = First

\* emplace culls the elements at some positions, as long as the heap is large.
Emplace(when, culled) ==
  /\ last < First + Insertions
  /\ \A k \in DOMAIN culled : Size(es) - k + 1 >= CullSize /\ culled[k] <= Size(es) - k
  /\ LET h == FoldLeft(HardCull, es, culled) IN
     /\ Size(h) < MaxSize
     \* the orders of elements with equal times fit into half of the range
     /\ \A x \in Range(h) : x.when = when => last + 1 - x.n < Width \div 2
     /\ es' = Inserted(h, [when |-> when, n |-> last + 1])
  /\ last' = last + 1

\* pop, or cull of a first element that is empty.
Pop == Size(es) > 0 /\ es' = HardCull(es, 0) /\ UNCHANGED last

Clear == Size(es) > 0 /\ es' = [j \in {} |-> 0] /\ UNCHANGED last

Next ==
  \/ \E when \in Time, culled \in {<<>>} \cup {<<i>> : i \in 0..MaxSize}
                                 \cup {<<i, j>> : i, j \in 0..MaxSize} : Emplace(when, culled)
  \/ Pop \/ Clear
Spec == Init /\ [][Next]_<<es, last>>

\* Whatever was dropped from the middle of the array, and when the
\* order wraps around, the heap is a queue by time and insertion, and loses nothing.
Queue == INSTANCE TimerQueue WITH timers <- Range(es)
ImplementsQueue == Queue!Spec
=============================================================================
