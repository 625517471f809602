----------------------------- MODULE WaitsProofs -----------------------------
(***************************************************************************)
(* Theorems about the programs of Waits: the tasks of TaskResolve lose no  *)
(* message and are resumed only where they may be, for any tree of tasks;  *)
(* and the stash and the port's queue of StashReceive implement Mailbox,   *)
(* for any messages that may be sent, any types and any number of rounds.  *)
(***************************************************************************)
EXTENDS Waits, SequenceTheorems, TLAPS

(***************************************************************************)
(* The tasks of Cotamer: no coroutine is resumed where it must not be, and *)
(* no message is lost, for any tree of tasks that keeps to the             *)
(* assumptions of TaskResolve, any ports and any numbers of messages and   *)
(* timeouts.  The invariant, Inv, is about the records of the tasks, the   *)
(* C++ stack and what the last resolve() returned: what each record says   *)
(* of its own task, a parent's of its children's, each frame of the task   *)
(* it belongs to and of the frame that called it, and that a task below a  *)
(* race goes beyond its resolution point only after the race has chosen    *)
(* it.                                                                     *)
(***************************************************************************)

(***************************************************************************)
(* The tree.                                                               *)
(***************************************************************************)

\* The children of a task.
Kin(t) == {Kids[t][i] : i \in 1 .. Len(Kids[t])}

\* The children of a task are tasks, and this task is their parent.
LEMMA KinFacts ==
  ASSUME NEW t \in Task
  PROVE  /\ Kids[t] \in Seq(Task \ {Root}) /\ Len(Kids[t]) \in Nat
         /\ Kin(t) \subseteq Task /\ Root \notin Kin(t)
         /\ \A i \in 1 .. Len(Kids[t]) : Kids[t][i] \in Kin(t)
         /\ ToSet(Kids[t]) = Kin(t)
         /\ \A c \in Kin(t) : Parent(c) = t
<1>1. Kids[t] \in Seq(Task \ {Root}) /\ Len(Kids[t]) \in Nat /\ DOMAIN Kids[t] = 1 .. Len(Kids[t])
  BY TreeAssumption
<1>2. Kin(t) \subseteq Task /\ Root \notin Kin(t)
  BY <1>1 DEF Kin
<1>3. \A i \in 1 .. Len(Kids[t]) : Kids[t][i] \in Kin(t)
  BY DEF Kin
<1>4. \A u \in Task : ToSet(Kids[u]) = Kin(u)
  <2>1. TAKE u \in Task
  <2>2. Kids[u] \in Seq(Task \ {Root})
    BY TreeAssumption
  <2>3. DOMAIN Kids[u] = 1 .. Len(Kids[u])
    BY <2>2
  <2>4. ToSet(Kids[u]) = {Kids[u][i] : i \in DOMAIN Kids[u]}
    BY DEF ToSet
  <2> QED
    BY <2>3, <2>4 DEF Kin
<1>5. ASSUME NEW c \in Kin(t) PROVE Parent(c) = t
  <2>1. c \in ToSet(Kids[t])
    BY <1>4
  <2>2. ASSUME NEW u \in Task, c \in ToSet(Kids[u]) PROVE u = t
    <3>1. \A v, w \in Task : \A i \in 1 .. Len(Kids[v]), j \in 1 .. Len(Kids[w]) :
            Kids[v][i] = Kids[w][j] => v = w
      BY TreeAssumption
    <3>2. c \in Kin(u)
      BY <1>4, <2>2
    <3>3. PICK i \in 1 .. Len(Kids[u]) : c = Kids[u][i]
      BY <3>2 DEF Kin
    <3>4. PICK j \in 1 .. Len(Kids[t]) : c = Kids[t][j]
      BY DEF Kin
    <3> QED
      BY <3>1, <3>3, <3>4
  <2> QED
    BY <2>1, <2>2 DEF Parent
<1> QED
  BY <1>1, <1>2, <1>3, <1>4, <1>5

\* What is below a task: itself, what is below its children, and nothing else.
LEMMA BelowTask ==
  ASSUME NEW t \in Task
  PROVE  /\ t \in Below[t] /\ Below[t] \subseteq Task
         /\ \A u \in Below[t] : Kin(u) \subseteq Below[t]
  BY KinFacts DEF Below

\* A set that has a task and the children of its members has all that is below the task.
LEMMA BelowLeast ==
  ASSUME NEW t \in Task, NEW S \in SUBSET Task, t \in S, \A u \in S : Kin(u) \subseteq S
  PROVE  Below[t] \subseteq S
<1>1. \A u \in S : ToSet(Kids[u]) \subseteq S
  BY KinFacts
<1> QED
  BY <1>1 DEF Below

\* What is below something below t is below t.
LEMMA BelowTrans ==
  ASSUME NEW t \in Task, NEW u \in Below[t]
  PROVE  Below[u] \subseteq Below[t]
<1>1. u \in Task /\ Below[t] \in SUBSET Task
  BY BelowTask
<1> QED
  BY <1>1, BelowTask, BelowLeast

\* A task below t and not t is below one of its children, and its parent is below t.
LEMMA BelowKin ==
  ASSUME NEW t \in Task, NEW x \in Below[t], x # t
  PROVE  (\E c \in Kin(t) : x \in Below[c]) /\ Parent(x) \in Below[t] /\ x \in Kin(Parent(x))
<1> DEFINE D == {t} \cup UNION {Below[c] : c \in Kin(t)}
           P == {y \in Below[t] : y = t \/ (Parent(y) \in Below[t] /\ y \in Kin(Parent(y)))}
<1>1. Below[t] \subseteq D
  <2>1. D \in SUBSET Task
    BY KinFacts, BelowTask
  <2>2. ASSUME NEW u \in D PROVE Kin(u) \subseteq D
    <3>1. CASE u = t
      <4>1. \A c \in Kin(t) : c \in Below[c]
        BY KinFacts, BelowTask
      <4> QED
        BY <3>1, <4>1
    <3>2. ASSUME NEW c \in Kin(t), u \in Below[c] PROVE Kin(u) \subseteq D
      BY <3>2, KinFacts, BelowTask
    <3> QED
      BY <3>1, <3>2
  <2> HIDE DEF D
  <2>3. t \in D
    BY DEF D
  <2> QED
    BY <2>1, <2>2, <2>3, BelowLeast
<1>2. Below[t] \subseteq P
  <2>1. P \in SUBSET Task /\ t \in P
    BY BelowTask
  <2>2. ASSUME NEW u \in P PROVE Kin(u) \subseteq P
    <3>1. u \in Task /\ u \in Below[t]
      BY BelowTask
    <3>2. \A c \in Kin(u) : Parent(c) = u /\ c \in Below[t]
      BY <3>1, KinFacts, BelowTask
    <3> QED
      BY <3>1, <3>2
  <2> HIDE DEF P
  <2> QED
    BY <2>1, <2>2, BelowLeast
<1> QED
  BY <1>1, <1>2

\* Every task but the root has a parent.
LEMMA HasParent ==
  ASSUME NEW x \in Task, x # Root
  PROVE  Parent(x) \in Task /\ x \in Kin(Parent(x)) /\ Parent(x) \notin Source
<1>1. Root \in Task /\ x \in Below[Root]
  BY TreeAssumption DEF Task
<1>2. Parent(x) \in Below[Root] /\ x \in Kin(Parent(x))
  BY <1>1, BelowKin
<1>3. Parent(x) \notin Source
  BY <1>2, TreeAssumption DEF Kin
<1> QED
  BY <1>2, <1>3, TreeAssumption

\* No task is below one of its children, and no two children have anything below in common.
LEMMA NoCycle ==
  ASSUME NEW t \in Task, NEW c \in Kin(t)
  PROVE  t \notin Below[c]
<1> DEFINE S == Task \ Below[c]
<1>1. c \in Task /\ c # Root /\ Root \in Task /\ Parent(c) = t
  BY KinFacts DEF Task
<1>2. SUFFICES ASSUME t \in Below[c] PROVE FALSE
  OBVIOUS
<1>3. \A y \in Below[c] : y # Root /\ Parent(y) \in Below[c]
  <2>1. TAKE y \in Below[c]
  <2>2. CASE y = c
    BY <1>1, <1>2, <2>2
  <2>3. CASE y # c
    <3>1. y \in Kin(Parent(y)) /\ Parent(y) \in Below[c]
      BY <1>1, <2>3, BelowKin
    <3>2. Parent(y) \in Task
      BY <1>1, <3>1, BelowTask
    <3> QED
      BY <3>1, <3>2, KinFacts
  <2> QED
    BY <2>2, <2>3
<1>4. Root \in S /\ S \in SUBSET Task
  BY <1>1, <1>3
<1>5. ASSUME NEW u \in S PROVE Kin(u) \subseteq S
  <2>1. u \in Task /\ Kin(u) \subseteq Task /\ \A z \in Kin(u) : Parent(z) = u
    BY KinFacts
  <2> QED
    BY <1>3, <2>1
<1>6. Below[Root] \subseteq S
  <2> HIDE DEF S
  <2> QED
    BY <1>1, <1>4, <1>5, BelowLeast
<1> QED
  BY <1>1, <1>2, <1>6, TreeAssumption, BelowTask

\* No two children of a task have anything below them in common.
LEMMA Siblings ==
  ASSUME NEW t \in Task, NEW c \in Kin(t), NEW d \in Kin(t), NEW x \in Below[c], x \in Below[d]
  PROVE  c = d
<1> DEFINE S == {y \in Below[d] : y \notin Below[c]}
<1>1. c \in Task /\ d \in Task /\ Parent(c) = t /\ Parent(d) = t
  BY KinFacts
<1>2. SUFFICES ASSUME c # d PROVE FALSE
  OBVIOUS
<1>3. \A y \in Below[c] : y = c \/ Parent(y) \in Below[c]
  BY <1>1, BelowKin
<1>4. d \in S
  BY <1>1, <1>2, <1>3, NoCycle, BelowTask
<1>5. ASSUME NEW u \in S PROVE Kin(u) \subseteq S
  <2>1. u \in Task /\ Kin(u) \subseteq Below[d] /\ \A z \in Kin(u) : Parent(z) = u
    BY <1>1, KinFacts, BelowTask
  <2>2. u # t
    BY NoCycle
  <2> QED
    BY <1>1, <1>3, <2>1, <2>2
<1>6. S \in SUBSET Task
  BY <1>1, BelowTask
<1>7. Below[d] \subseteq S
  <2> HIDE DEF S
  <2> QED
    BY <1>1, <1>4, <1>5, <1>6, BelowLeast
<1> QED
  BY <1>7

\* No two tasks are below each other.
LEMMA BelowAnti ==
  ASSUME NEW x \in Task, NEW y \in Task, x \in Below[y], y \in Below[x]
  PROVE  x = y
<1>1. SUFFICES ASSUME x # y PROVE FALSE
  OBVIOUS
<1>2. PICK c \in Kin(y) : x \in Below[c]
  BY <1>1, BelowKin
<1>3. c \in Task /\ Below[x] \subseteq Below[c]
  BY <1>2, KinFacts, BelowTrans
<1> QED
  BY <1>3, NoCycle
(***************************************************************************)
(* The inductive invariant, of a state T of the tasks, a stack S and the   *)
(* result b of the last resolve().                                         *)
(***************************************************************************)

\* Where a coroutine is that runs.
Awake == {"start", "look", "take", "called", "asked", "got", "point", "find", "found"}
Ats == Awake \cup {"none", "asleep", "woken", "resolve", "child", "done"}
Record == [at : Ats, resolving : BOOLEAN, forwarded : BOOLEAN, driven : BOOLEAN,
           awaiter : {"none", "task", "event"}, forward : BOOLEAN, value : Nat, index : Nat]
Frame == {"run", "loop", "fwd", "after"} \X Task
Cur(T, t) == Kids[t][T[t].index]
\* A wrap or the root whose coroutine has called no child, or none any more.
Bare(T, t) == t \notin Race /\ T[t].at \in {"start", "asleep", "woken"}
With == {"called", "asked", "child", "got"}

\* What a task's own record says.
RecordOk(T, t) ==
  /\ t \in Source => T[t].at \in {"none", "start", "look", "asleep", "woken", "resolve", "take", "done"}
  /\ t \in Wrap => T[t].at \in {"none", "start", "asleep", "woken", "done"} \cup With
  /\ t \in Race =>
       T[t].at \in {"none", "start", "point", "resolve", "find", "found", "asleep", "woken", "done"}
  /\ t = Root => T[t].at \in {"start"} \cup With /\ T[t].awaiter = "none" /\ ~T[t].forwarded
  /\ T[t].at \in With \cup {"found"} => T[t].index \in 1 .. Len(Kids[t])
  /\ t \in Race /\ T[t].at = "start" => T[t].index \in 1 .. Len(Kids[t]) + 1
  /\ t \in Race /\ T[t].at \in {"resolve", "find"} => T[t].index >= 1
  /\ T[t].at = "none" => T[t] = Absent
  /\ T[t].forward => t \in Forwarding /\ T[t].at \in {"child", "got"}
  /\ T[t].resolving => T[t].at \in {"done", "resolve"} \/ T[t].forward

\* What the records of a task and of its i-th child say of each other.
Link(T, t, i) ==
  LET c == Kids[t][i] IN
  /\ T[t].at \in {"none", "done"} \/ Bare(T, t) => T[c].at = "none"
  /\ T[t].at \in With => (T[c].at # "none" <=> i = T[t].index)
  /\ t \in Race /\ T[t].at = "start" => (T[c].at # "none" <=> i < T[t].index)
  /\ t \in Race /\ T[t].at \in {"point", "resolve", "find", "found", "asleep", "woken"} => T[c].at # "none"
  /\ T[c].awaiter = "task" =>
       /\ t \notin Race /\ T[t].at \in {"child", "got"} /\ i = T[t].index
       /\ t \in Forwarding => T[t].forward
  /\ T[c].awaiter = "event" => t \in Race /\ T[t].at \in {"asleep", "woken", "point"}
  /\ T[t].at \in {"child", "got"} /\ i = T[t].index => T[c].awaiter = "task"
  /\ T[t].at = "got" /\ i = T[t].index => T[c].at = "done"
  /\ T[c].forwarded => t \in Forwarding /\ T[t].at = "asked" /\ i = T[t].index /\ T[c].at # "done"
  /\ t \in Forwarding /\ T[t].at = "asked" /\ i = T[t].index /\ T[c].at # "done" => T[c].forwarded

\* The records of all tasks.
Records(T) ==
  /\ \A t \in Task : RecordOk(T, t)
  /\ \A t \in Task : \A i \in 1 .. Len(Kids[t]) : Link(T, t, i)

\* What the stack says of the task of a frame that is the i-th.
FrameOk(T, f, i) ==
  /\ f[1] = "run" => T[f[2]].at \in Awake
  /\ f[1] = "fwd" => T[f[2]].at = "child" /\ T[f[2]].forward /\ ~T[f[2]].forwarded
  /\ f[1] = "loop" => i = 1 /\ T[f[2]].at \notin Awake \cup {"none"}
  /\ f[1] = "after" => T[f[2]].driven /\ T[f[2]].at # "none" /\ ~T[f[2]].forwarded

\* What is called, u, and what called it, l.
Fits(T, u, l) ==
  \/ /\ u[1] # "run" /\ l[1] \in {"run", "fwd"}
     /\ u[2] \in Kin(l[2]) /\ Cur(T, l[2]) = u[2]
     /\ l[1] = "run" => T[l[2]].at \in {"asked", "found"}
  \/ /\ u[1] = "run" /\ l[1] = "after"
  \/ /\ u[1] = "run" /\ l[1] = "run" /\ T[l[2]].at \in {"called", "start"}

\* u is below l, and is l itself only if l resumed it.
Under(u, l) == u[2] \in Below[l[2]] /\ (u[2] = l[2] => u[1] = "run" /\ l[1] = "after")

\* The stack is one of calls that are under way.
Stacked(T, S) ==
  /\ \A i \in 1 .. Len(S) : FrameOk(T, S[i], i)
  /\ \A i \in 1 .. Len(S) : \A j \in i + 1 .. Len(S) : Under(S[i], S[j])
  /\ \A i \in 1 .. Len(S) - 1 : Fits(T, S[i], S[i + 1])
  /\ S # <<>> => S[Len(S)][1] = "run"

\* Task t has a frame of kind k on the stack.
On(S, k, t) == \E i \in 1 .. Len(S) : S[i] = <<k, t>>
\* What a task's record says of the stack.
Framed(T, S, t) ==
  /\ T[t].at \in Awake => On(S, "run", t)
  /\ T[t].driven => On(S, "after", t)
  /\ T[t].at = "child" /\ T[Cur(T, t)].at = "done" => On(S, "fwd", t)

\* What the result of the last resolve() says where it is looked at.
Returned(T, S, b) ==
  S # <<>> =>
    LET t == S[1][2] IN
    /\ S[1][1] = "fwd" => (b <=> T[Cur(T, t)].at = "done")
    /\ S[1][1] = "run" /\ T[t].at \in {"asked", "found"} => (b <=> T[Cur(T, t)].at = "done")
    /\ S[1][1] = "run" /\ T[t].at = "asked" /\ ~b /\ T[Cur(T, t)].resolving => T[Cur(T, t)].forwarded

\* A task below a race goes beyond a resolution point only when the race resolves it.
Advanced == {"take", "got", "find", "found", "done"}
Chosen(T, r, x) == T[r].at = "found" /\ x \in Below[Cur(T, r)]
Raced(T, S, r, x) ==
  /\ T[x].at \in Advanced => Chosen(T, r, x)
  /\ On(S, "fwd", x) \/ On(S, "after", x) => Chosen(T, r, x)
  /\ On(S, "loop", x) /\ ~T[x].forwarded => Chosen(T, r, x)

\* The types of tasks and stacks.
Typed(T, S) == T \in [Task -> Record] /\ S \in Seq(Frame)
Inv(T, S, b) ==
  /\ Records(T)
  /\ Stacked(T, S)
  /\ \A t \in Task : Framed(T, S, t)
  /\ Returned(T, S, b)
  /\ \A r \in Race : \A x \in Below[r] \ {r} : Raced(T, S, r, x)

\* A stack with one more frame.
Push(f, R) == <<f>> \o R
\* A frame that has called another; loop is only ever the innermost.
Calling(f) == f[1] # "loop"

\* A frame before a stack.
LEMMA PushFacts ==
  ASSUME NEW f \in Frame, NEW R \in Seq(Frame)
  PROVE  /\ Push(f, R) \in Seq(Frame) /\ Push(f, R) # <<>>
         /\ Len(R) \in Nat /\ Len(Push(f, R)) = Len(R) + 1
         /\ Push(f, R)[1] = f /\ \A i \in 1 .. Len(R) : Push(f, R)[i + 1] = R[i]
         /\ \A i \in 2 .. Len(R) + 1 : Push(f, R)[i] = R[i - 1] /\ i - 1 \in 1 .. Len(R)
         /\ Head(Push(f, R)) = f /\ Tail(Push(f, R)) = R
<1>1. <<f>> \in Seq(Frame) /\ Len(<<f>>) = 1
  OBVIOUS
<1>2. /\ Push(f, R) \in Seq(Frame) /\ Push(f, R) # <<>>
      /\ Len(R) \in Nat /\ Len(Push(f, R)) = Len(R) + 1
      /\ Push(f, R)[1] = f /\ \A i \in 1 .. Len(R) : Push(f, R)[i + 1] = R[i]
  BY <1>1 DEF Push
<1>3. \A i \in 2 .. Len(R) + 1 : Push(f, R)[i] = R[i - 1] /\ i - 1 \in 1 .. Len(R)
  BY <1>2
<1>4. Head(Push(f, R)) = f /\ Tail(Push(f, R)) = R
  <2>1. Tail(Push(f, R)) \in Seq(Frame) /\ Len(Tail(Push(f, R))) = Len(R)
    BY <1>2
  <2>2. \A i \in 1 .. Len(R) : Tail(Push(f, R))[i] = R[i]
    BY <1>2
  <2> QED
    BY <1>2, <2>1, <2>2, SeqEqual
<1> QED
  BY <1>2, <1>3, <1>4

\* A stack that is not empty is its first frame before the rest.
LEMMA StackForm ==
  ASSUME NEW S \in Seq(Frame)
  PROVE  /\ S # <<>> => /\ Head(S) = S[1] /\ S[1] \in Frame /\ Tail(S) \in Seq(Frame)
                        /\ S = Push(S[1], Tail(S))
         /\ <<>> \o S = S /\ Len(S) \in Nat
         /\ \A i \in 1 .. Len(S) : S[i] \in Frame
         /\ \A f, g \in Frame : <<f, g>> \o S = Push(f, Push(g, S))
<1>1. ASSUME S # <<>>
      PROVE  /\ Head(S) = S[1] /\ S[1] \in Frame /\ Tail(S) \in Seq(Frame)
             /\ S = Push(S[1], Tail(S))
  <2> DEFINE R == Tail(S)
  <2>1. /\ R \in Seq(Frame) /\ Len(R) = Len(S) - 1
        /\ \A i \in 1 .. Len(R) : R[i] = S[i + 1]
    BY <1>1, HeadTailProperties
  <2>2. Head(S) = S[1] /\ Len(S) \in Nat \ {0} /\ S[1] \in Frame
    BY <1>1
  <2> HIDE DEF R
  <2>3. /\ Push(S[1], R) \in Seq(Frame) /\ Len(Push(S[1], R)) = Len(R) + 1 /\ Push(S[1], R)[1] = S[1]
        /\ \A i \in 2 .. Len(R) + 1 : Push(S[1], R)[i] = R[i - 1] /\ i - 1 \in 1 .. Len(R)
    BY <2>1, <2>2, PushFacts
  <2>4. \A i \in 1 .. Len(S) : S[i] = Push(S[1], R)[i]
    <3>1. TAKE i \in 1 .. Len(S)
    <3>2. CASE i = 1
      BY <2>3, <3>2
    <3>3. CASE i # 1
      <4>1. i \in 2 .. Len(R) + 1
        BY <2>1, <2>2, <3>3
      <4>2. Push(S[1], R)[i] = R[i - 1] /\ R[i - 1] = S[(i - 1) + 1]
        BY <2>1, <2>3, <4>1
      <4> QED
        BY <4>1, <4>2
    <3> QED
      BY <3>2, <3>3
  <2>5. S = Push(S[1], R)
    BY <2>1, <2>2, <2>3, <2>4, SeqEqual
  <2> QED
    BY <2>1, <2>2, <2>5 DEF R
<1>2. <<>> \o S = S /\ Len(S) \in Nat /\ \A i \in 1 .. Len(S) : S[i] \in Frame
  BY ConcatEmptySeq, LenProperties, ElementOfSeq
<1>3. ASSUME NEW f \in Frame, NEW g \in Frame
      PROVE  <<f, g>> \o S = Push(f, Push(g, S))
  <2>0. <<f>> \in Seq(Frame) /\ <<g>> \in Seq(Frame) /\ <<f, g>> \in Seq(Frame)
        /\ Len(<<f>>) = 1 /\ Len(<<g>>) = 1 /\ Len(<<f, g>>) = 2
    OBVIOUS
  <2>1. <<f, g>> = <<f>> \o <<g>>
    <3>1. \A i \in 1 .. 2 : <<f, g>>[i] = (<<f>> \o <<g>>)[i]
      <4>1. <<f, g>>[1] = (<<f>> \o <<g>>)[1] /\ <<f, g>>[2] = (<<f>> \o <<g>>)[2]
        BY <2>0, ConcatProperties
      <4> QED
        BY <4>1
    <3>2. <<f>> \o <<g>> \in Seq(Frame) /\ Len(<<f>> \o <<g>>) = 2
      BY <2>0, ConcatProperties
    <3> QED
      BY <2>0, <3>1, <3>2, SeqEqual
  <2>2. <<f, g>> \o S = <<f>> \o (<<g>> \o S)
    BY <2>0, <2>1, ConcatAssociative
  <2> QED
    BY <2>2 DEF Push
<1> QED
  BY <1>1, <1>2, <1>3

\* What is on a stack is its first frame or on the rest.
LEMMA PushOn ==
  ASSUME NEW f \in Frame, NEW R \in Seq(Frame), NEW k, NEW t
  PROVE  On(Push(f, R), k, t) <=> f = <<k, t>> \/ On(R, k, t)
<1> DEFINE S == Push(f, R)
<1>0. /\ Len(R) \in Nat /\ Len(S) = Len(R) + 1 /\ S[1] = f
      /\ \A i \in 1 .. Len(R) : S[i + 1] = R[i]
      /\ \A i \in 2 .. Len(R) + 1 : S[i] = R[i - 1] /\ i - 1 \in 1 .. Len(R)
  BY PushFacts
<1> HIDE DEF S
<1>1. ASSUME NEW i \in 1 .. Len(S), S[i] = <<k, t>>, f # <<k, t>> PROVE On(R, k, t)
  <2>0. i # 1
    BY <1>0, <1>1
  <2>1. i \in 2 .. Len(R) + 1
    BY <1>0, <2>0
  <2>2. i - 1 \in 1 .. Len(R) /\ R[i - 1] = <<k, t>>
    BY <1>0, <1>1, <2>1
  <2> QED
    BY <2>2 DEF On
<1>2. ASSUME NEW i \in 1 .. Len(R), R[i] = <<k, t>> PROVE On(S, k, t)
  <2>1. i + 1 \in 1 .. Len(S) /\ S[i + 1] = <<k, t>>
    BY <1>0, <1>2
  <2> QED
    BY <2>1 DEF On
<1>3. ASSUME f = <<k, t>> PROVE On(S, k, t)
  <2>1. 1 \in 1 .. Len(S) /\ S[1] = <<k, t>>
    BY <1>0, <1>3
  <2> QED
    BY <2>1 DEF On
<1>4. On(S, k, t) <=> f = <<k, t>> \/ On(R, k, t)
  <2>1. ASSUME On(S, k, t), f # <<k, t>> PROVE On(R, k, t)
    BY <1>1, <2>1 DEF On
  <2>2. ASSUME On(R, k, t) PROVE On(S, k, t)
    <3>1. PICK i \in 1 .. Len(R) : R[i] = <<k, t>>
      BY <2>2 DEF On
    <3> QED
      BY <1>2, <3>1
  <2> QED
    BY <1>3, <2>1, <2>2
<1> QED
  BY <1>4 DEF S

\* What a frame needs to stand before a stack.
LEMMA PushStacked ==
  ASSUME NEW T, NEW f \in Frame, NEW R \in Seq(Frame), Stacked(T, R), FrameOk(T, f, 1),
         R = <<>> => f[1] = "run",
         R # <<>> => Calling(R[1]) /\ Fits(T, f, R[1]) /\ Under(f, R[1])
  PROVE  Stacked(T, Push(f, R))
<1> DEFINE S == Push(f, R)
<1>0. /\ S \in Seq(Frame) /\ S # <<>> /\ Len(R) \in Nat /\ Len(S) = Len(R) + 1
      /\ S[1] = f /\ \A i \in 2 .. Len(R) + 1 : S[i] = R[i - 1] /\ i - 1 \in 1 .. Len(R)
      /\ R = <<>> <=> Len(R) = 0
      /\ \A i \in 1 .. Len(R) : R[i] \in Frame
  BY PushFacts, StackForm, EmptySeq
<1>f. f[1] \in {"run", "loop", "fwd", "after"} /\ f[2] \in Task
  BY DEF Frame
<1> HIDE DEF S
<1>1. \A i \in 1 .. Len(S) : FrameOk(T, S[i], i)
  <2>1. TAKE i \in 1 .. Len(S)
  <2>2. CASE i = 1
    BY <1>0, <2>2
  <2>3. CASE i # 1
    <3>1. i \in 2 .. Len(R) + 1 /\ S[i] = R[i - 1] /\ FrameOk(T, R[i - 1], i - 1) /\ i - 1 \in 1 .. Len(R)
      BY <1>0, <2>3 DEF Stacked
    <3>2. R[i - 1][1] # "loop"
      <4>1. CASE i - 1 = 1
        BY <1>0, <3>1, <4>1 DEF Calling
      <4>2. CASE i - 1 # 1
        BY <3>1, <4>2 DEF FrameOk
      <4> QED
        BY <4>1, <4>2
    <3> QED
      BY <3>1, <3>2 DEF FrameOk
  <2> QED
    BY <2>2, <2>3
<1>2. ASSUME NEW i \in 1 .. Len(S), NEW j \in i + 1 .. Len(S) PROVE Under(S[i], S[j])
  <2>1. j \in 2 .. Len(R) + 1 /\ S[j] = R[j - 1] /\ j - 1 \in 1 .. Len(R)
    BY <1>0, <1>2
  <2>2. CASE i # 1
    <3>1. i \in 2 .. Len(R) + 1 /\ S[i] = R[i - 1] /\ i - 1 \in 1 .. Len(R) /\ j - 1 \in (i - 1) + 1 .. Len(R)
      BY <1>0, <1>2, <2>2
    <3> QED
      BY <2>1, <3>1 DEF Stacked
  <2>3. CASE i = 1 /\ j = 2
    BY <1>0, <2>1, <2>3
  <2>4. CASE i = 1 /\ j # 2
    <3>1. 1 \in 1 .. Len(R) /\ j - 1 \in 1 + 1 .. Len(R) /\ R # <<>>
      BY <1>0, <2>1, <2>4
    <3>2. Under(f, R[1]) /\ Under(R[1], R[j - 1])
      BY <3>1 DEF Stacked
    <3>3. R[1][2] \in Task /\ R[j - 1][2] \in Task /\ R[1][1] \in {"run", "loop", "fwd", "after"}
      BY <1>0, <3>1 DEF Frame
    <3>4. f[2] \in Below[R[j - 1][2]]
      BY <3>2, <3>3, BelowTrans DEF Under
    <3>5. ASSUME f[2] = R[j - 1][2] PROVE FALSE
      <4>1. R[1][2] = f[2]
        BY <1>f, <3>2, <3>3, <3>5, BelowAnti DEF Under
      <4> QED
        BY <3>2, <3>5, <4>1 DEF Under
    <3> QED
      BY <1>0, <2>1, <2>4, <3>4, <3>5 DEF Under
  <2> QED
    BY <2>2, <2>3, <2>4
<1>3. ASSUME NEW i \in 1 .. Len(S) - 1 PROVE Fits(T, S[i], S[i + 1])
  <2>1. i + 1 \in 2 .. Len(R) + 1 /\ S[i + 1] = R[i]
    BY <1>0, <1>3
  <2>2. CASE i = 1
    BY <1>0, <1>3, <2>1, <2>2
  <2>3. CASE i # 1
    <3>1. i \in 2 .. Len(R) + 1 /\ S[i] = R[i - 1] /\ i - 1 \in 1 .. Len(R) - 1
      BY <1>0, <1>3, <2>3
    <3>2. Fits(T, R[i - 1], R[(i - 1) + 1])
      BY <3>1 DEF Stacked
    <3> QED
      BY <2>1, <3>1, <3>2
  <2> QED
    BY <2>2, <2>3
<1>4. S[Len(S)][1] = "run"
  <2>1. CASE R = <<>>
    BY <1>0, <2>1
  <2>2. CASE R # <<>>
    <3>1. Len(S) \in 2 .. Len(R) + 1 /\ S[Len(S)] = R[Len(R)]
      BY <1>0, <2>2
    <3> QED
      BY <2>2, <3>1 DEF Stacked
  <2> QED
    BY <2>1, <2>2
<1> QED
  BY <1>1, <1>2, <1>3, <1>4 DEF Stacked, S

\* What the first frame of a stack says of those after it.
LEMMA PopStacked ==
  ASSUME NEW T, NEW f \in Frame, NEW R \in Seq(Frame), Stacked(T, Push(f, R))
  PROVE  /\ Stacked(T, R) /\ FrameOk(T, f, 1) /\ (R = <<>> => f[1] = "run")
         /\ R # <<>> => Fits(T, f, R[1])
         /\ \A j \in 1 .. Len(R) : Under(f, R[j]) /\ Calling(R[j])
<1> DEFINE S == Push(f, R)
<1>0. /\ S \in Seq(Frame) /\ S # <<>> /\ Len(R) \in Nat /\ Len(S) = Len(R) + 1
      /\ S[1] = f /\ \A i \in 1 .. Len(R) : S[i + 1] = R[i] /\ i + 1 \in 2 .. Len(S)
      /\ R = <<>> <=> Len(R) = 0
  BY PushFacts, EmptySeq
<1>1. Stacked(T, S)
  OBVIOUS
<1> HIDE DEF S
<1>2. \A j \in 1 .. Len(R) : Under(f, R[j]) /\ Calling(R[j]) /\ FrameOk(T, R[j], j)
  <2>1. TAKE j \in 1 .. Len(R)
  <2>2. Under(S[1], S[j + 1]) /\ FrameOk(T, S[j + 1], j + 1)
    BY <1>0, <1>1 DEF Stacked
  <2> QED
    BY <1>0, <2>2 DEF FrameOk, Calling
<1>3. FrameOk(T, f, 1) /\ (R = <<>> => f[1] = "run") /\ (R # <<>> => Fits(T, f, R[1]))
  <2>1. FrameOk(T, S[1], 1) /\ S[Len(S)][1] = "run"
    BY <1>0, <1>1 DEF Stacked
  <2>2. ASSUME R # <<>> PROVE Fits(T, f, R[1])
    <3>1. 1 \in 1 .. Len(S) - 1 /\ S[1 + 1] = R[1]
      BY <1>0, <2>2
    <3> QED
      BY <1>0, <1>1, <3>1 DEF Stacked
  <2> QED
    BY <1>0, <2>1, <2>2
<1>4. \A i \in 1 .. Len(R) : \A j \in i + 1 .. Len(R) : Under(R[i], R[j])
  <2>1. TAKE i \in 1 .. Len(R)
  <2>2. TAKE j \in i + 1 .. Len(R)
  <2>3. i + 1 \in 1 .. Len(S) /\ j + 1 \in (i + 1) + 1 .. Len(S) /\ S[i + 1] = R[i] /\ S[j + 1] = R[j]
    BY <1>0
  <2> QED
    BY <1>1, <2>3 DEF Stacked
<1>5. \A i \in 1 .. Len(R) - 1 : Fits(T, R[i], R[i + 1])
  <2>1. TAKE i \in 1 .. Len(R) - 1
  <2>2. i + 1 \in 1 .. Len(S) - 1 /\ S[i + 1] = R[i] /\ S[(i + 1) + 1] = R[i + 1]
    BY <1>0
  <2>3. Fits(T, S[i + 1], S[(i + 1) + 1])
    BY <1>1, <2>2 DEF Stacked
  <2> QED
    BY <2>2, <2>3
<1>6. R # <<>> => R[Len(R)][1] = "run"
  <2>1. SUFFICES ASSUME R # <<>> PROVE R[Len(R)][1] = "run"
    OBVIOUS
  <2>2. S[Len(S)] = R[Len(R)]
    BY <1>0, <2>1
  <2> QED
    BY <1>0, <1>1, <2>2 DEF Stacked
<1> QED
  BY <1>2, <1>3, <1>4, <1>5, <1>6 DEF Stacked

\* The records that a stack's frames speak of.
Alike(T, U, t) ==
  /\ U[t].at = T[t].at /\ U[t].index = T[t].index /\ U[t].forward = T[t].forward
  /\ U[t].driven = T[t].driven /\ U[t].forwarded = T[t].forwarded

\* A stack stays one if the records that its frames speak of are alike, or the frame is in the
\* call of a coroutine and the task may be there still.
LEMMA SteadyStacked ==
  ASSUME NEW T, NEW U, NEW R \in Seq(Frame), Stacked(T, R),
         \A i \in 1 .. Len(R) :
           \/ Alike(T, U, R[i][2])
           \/ R[i][1] = "after" /\ FrameOk(U, R[i], i)
  PROVE  Stacked(U, R)
<1>1. \A i \in 1 .. Len(R) : FrameOk(U, R[i], i)
  BY DEF Stacked, FrameOk, Alike
<1>2. \A i \in 1 .. Len(R) - 1 : Fits(U, R[i], R[i + 1])
  <2>1. TAKE i \in 1 .. Len(R) - 1
  <2>2. i + 1 \in 1 .. Len(R) /\ Fits(T, R[i], R[i + 1])
    BY DEF Stacked
  <2>3. CASE Alike(T, U, R[i + 1][2])
    BY <2>2, <2>3 DEF Fits, Alike, Cur
  <2>4. CASE R[i + 1][1] = "after"
    BY <2>2, <2>4 DEF Fits
  <2> QED
    BY <2>2, <2>3, <2>4
<1> QED
  BY <1>1, <1>2 DEF Stacked

\* The types and the invariant.
Well(T, S, b) == Typed(T, S) /\ b \in BOOLEAN /\ Inv(T, S, b)

\* The fields of a record.
LEMMA Fields ==
  ASSUME NEW r \in Record
  PROVE  /\ r.at \in Ats /\ r.resolving \in BOOLEAN /\ r.forwarded \in BOOLEAN /\ r.driven \in BOOLEAN
         /\ r.awaiter \in {"none", "task", "event"} /\ r.forward \in BOOLEAN /\ r.value \in Nat
         /\ r.index \in Nat
  BY DEF Record

\* No frame is of a task below that of the innermost.
LEMMA Deeper ==
  ASSUME NEW T, NEW f \in Frame, NEW R \in Seq(Frame), Stacked(T, Push(f, R)),
         NEW x \in Below[f[2]], x # f[2], NEW k
  PROVE  ~On(Push(f, R), k, x) /\ ~On(R, k, x)
<1>1. f[2] \in Task /\ x \in Task
  BY BelowTask DEF Frame
<1>2. ASSUME NEW j \in 1 .. Len(R), R[j] = <<k, x>> PROVE FALSE
  <2>1. Under(f, R[j])
    BY <1>2, PopStacked
  <2>2. f[2] \in Below[x]
    BY <1>2, <2>1 DEF Under
  <2> QED
    BY <1>1, <2>2, BelowAnti
<1>3. ~On(R, k, x)
  BY <1>2 DEF On
<1>4. f # <<k, x>>
  OBVIOUS
<1> QED
  BY <1>3, <1>4, PushOn

\* A task is among its own forwarders; the others do forward.
LEMMA Chain ==
  ASSUME NEW T, NEW t \in Task
  PROVE  /\ t \in Forwarders(T, t) /\ Forwarders(T, t) \subseteq Task
         /\ \A x \in Forwarders(T, t) : x # t => T[x].forward
<1>1. t \in Forwarders(T, t)
  <2>1. ASSUME NEW y \in Below[t] \ {t}, t \in Below[y] PROVE FALSE
    BY <2>1, BelowTask, BelowAnti
  <2> QED
    BY <2>1, BelowTask DEF Forwarders
<1>2. ASSUME NEW x \in Forwarders(T, t), x # t PROVE T[x].forward
  <2>1. x \in Task /\ t \in Below[x] /\ \A y \in Below[x] \ {x} : t \in Below[y] => Forwards(T, y)
    BY DEF Forwarders
  <2>2. PICK c \in Kin(x) : t \in Below[c]
    BY <1>2, <2>1, BelowKin
  <2>3. c \in Below[x] /\ c # x /\ Parent(c) = x
    BY <2>1, KinFacts, BelowTask, NoCycle
  <2>4. Forwards(T, c)
    BY <2>1, <2>2, <2>3
  <2> QED
    BY <2>3, <2>4 DEF Forwards
<1> QED
  BY <1>1, <1>2 DEF Forwarders

\* What the link of a child that is awaited says.
LEMMA Awaited ==
  ASSUME NEW T, Records(T), NEW u \in Task, NEW z \in Kin(u), T[z].awaiter = "task"
  PROVE  /\ u \notin Race /\ T[u].at \in {"child", "got"} /\ z = Cur(T, u)
         /\ u \in Forwarding => T[u].forward
<1>1. PICK i \in 1 .. Len(Kids[u]) : z = Kids[u][i]
  BY DEF Kin
<1>2. Link(T, u, i)
  BY DEF Records
<1> QED
  BY <1>1, <1>2 DEF Link, Cur

\* A task below a race is not awaited by anybody active: the race waits for events only.
LEMMA NotActive ==
  ASSUME NEW T, Records(T), NEW r \in Race, NEW t \in Below[r], t # r
  PROVE  ~Active(T, t)
<1> DEFINE F == Forwarders(T, t)
           D == {y \in Below[r] : y \notin F}
<1>0. r \in Task /\ t \in Task /\ Below[r] \subseteq Task /\ Root \in Task
  BY BelowTask DEF Task
<1>1. SUFFICES ASSUME Active(T, t) PROVE FALSE
  OBVIOUS
<1>2. t \in F /\ F \subseteq Task /\ \A x \in F : x # t => T[x].forward
  BY <1>0, Chain
<1>3. \A x \in F : T[x].awaiter = "task"
  BY <1>1 DEF Active
<1>4. r \notin F
  <2>1. ASSUME r \in F PROVE FALSE
    <3>1. T[r].forward /\ RecordOk(T, r)
      BY <1>0, <1>2, <2>1 DEF Records
    <3> QED
      BY <3>1, TreeAssumption DEF RecordOk
  <2> QED
    BY <2>1
<1>5. ASSUME NEW u \in Below[r], u \notin F, NEW z \in Kin(u), z \in F PROVE FALSE
  <2>1. u \in Task /\ z \in Task /\ Parent(z) = u
    BY <1>0, KinFacts
  <2>2. u \notin Race /\ (u \in Forwarding => T[u].forward)
    BY <1>3, <1>5, <2>1, Awaited
  <2>3. u # Root
    <3>1. ASSUME u = Root PROVE FALSE
      <4>1. r \in Below[Root] /\ Root \in Below[r] /\ r # Root
        BY <1>0, <3>1, TreeAssumption
      <4> QED
        BY <1>0, <4>1, BelowAnti
    <3> QED
      BY <3>1
  <2>4. u \notin Source
    BY TreeAssumption DEF Kin
  <2>5. u \in Forwarding
    BY <2>1, <2>2, <2>3, <2>4, ForwardAssumption DEF Task
  <2>6. Forwards(T, z)
    BY <1>3, <1>5, <2>1, <2>2, <2>5 DEF Forwards
  <2>7. t \in Below[z] /\ \A y \in Below[z] \ {z} : t \in Below[y] => Forwards(T, y)
    BY <1>5 DEF Forwarders
  <2>8. t \in Below[u]
    BY <2>1, <2>7, BelowTask, BelowTrans
  <2>9. ASSUME NEW y \in Below[u] \ {u}, t \in Below[y] PROVE Forwards(T, y)
    <3>1. PICK c \in Kin(u) : y \in Below[c]
      BY <2>1, BelowKin
    <3>2. c \in Task /\ t \in Below[c]
      BY <2>1, <2>9, <3>1, KinFacts, BelowTrans
    <3>3. c = z
      BY <1>5, <2>1, <2>7, <3>2, Siblings
    <3> QED
      BY <2>6, <2>7, <2>9, <3>1, <3>3
  <2>10. u \in F
    BY <2>1, <2>8, <2>9 DEF Forwarders
  <2> QED
    BY <1>5, <2>10
<1>6. Below[r] \subseteq D
  <2>1. D \in SUBSET Task /\ r \in D
    BY <1>0, <1>4, BelowTask
  <2>2. ASSUME NEW u \in D PROVE Kin(u) \subseteq D
    <3>1. Kin(u) \subseteq Below[r]
      BY <1>0, BelowTask
    <3> QED
      BY <1>5, <3>1
  <2> HIDE DEF D
  <2> QED
    BY <1>0, <2>1, <2>2, BelowLeast
<1> QED
  BY <1>2, <1>6

\* A signal: resolution points are announced and sleepers woken.
Near(T, U) ==
  \A x \in Task :
    /\ U[x].index = T[x].index /\ U[x].forward = T[x].forward /\ U[x].forwarded = T[x].forwarded
    /\ U[x].driven = T[x].driven /\ U[x].awaiter = T[x].awaiter /\ U[x].value = T[x].value
    /\ U[x].at = T[x].at \/ (T[x].at = "asleep" /\ U[x].at = "woken")
    /\ T[x].at = "none" => U[x] = T[x]
    /\ U[x].resolving => T[x].resolving \/ T[x].at \in {"done", "resolve"} \/ T[x].forward

\* A resolution point that is told up the tree changes nothing that the invariant depends on.
LEMMA Signal ==
  ASSUME NEW T, NEW S, NEW b, Well(T, S, b), NEW U \in [Task -> Record], Near(T, U),
         S # <<>> => S[1][1] # "run" \/ T[S[1][2]].at # "asked"
  PROVE  Well(U, S, b)
<1>0. T \in [Task -> Record] /\ S \in Seq(Frame) /\ b \in BOOLEAN
  BY DEF Well, Typed
<1>1. Records(T) /\ Stacked(T, S) /\ (\A t \in Task : Framed(T, S, t)) /\ Returned(T, S, b)
      /\ \A r \in Race : \A x \in Below[r] \ {r} : Raced(T, S, r, x)
  BY DEF Well, Inv
<1>2. \A x \in Task : Cur(U, x) = Cur(T, x)
  BY DEF Near, Cur
<1>3. Records(U)
  <2>1. ASSUME NEW t \in Task PROVE RecordOk(U, t)
    <3>1. RecordOk(T, t)
      BY <1>1 DEF Records
    <3> QED
      BY <3>1 DEF RecordOk, Near, With
  <2>2. ASSUME NEW t \in Task, NEW i \in 1 .. Len(Kids[t]) PROVE Link(U, t, i)
    <3>1. Link(T, t, i) /\ Kids[t][i] \in Task
      BY <1>1, KinFacts DEF Records
    <3>2. DEFINE c == Kids[t][i]
    <3>3. /\ U[t].at = T[t].at \/ (T[t].at = "asleep" /\ U[t].at = "woken")
          /\ U[t].index = T[t].index /\ U[t].forward = T[t].forward
          /\ U[c].at = T[c].at \/ (T[c].at = "asleep" /\ U[c].at = "woken")
          /\ U[c].awaiter = T[c].awaiter /\ U[c].forwarded = T[c].forwarded
      BY <3>1 DEF Near
    <3> QED
      BY <3>1, <3>3 DEF Link, With, Bare
  <2> QED
    BY <2>1, <2>2 DEF Records
<1>4. \A i \in 1 .. Len(S) : S[i] \in Frame /\ S[i][2] \in Task
  BY <1>0, StackForm DEF Frame
<1>5. Stacked(U, S)
  <2>1. ASSUME NEW i \in 1 .. Len(S) PROVE FrameOk(U, S[i], i)
    <3>1. FrameOk(T, S[i], i) /\ S[i][2] \in Task
      BY <1>1, <1>4 DEF Stacked
    <3> QED
      BY <3>1 DEF FrameOk, Near, Awake
  <2>2. ASSUME NEW i \in 1 .. Len(S) - 1 PROVE Fits(U, S[i], S[i + 1])
    <3>1. Fits(T, S[i], S[i + 1])
      BY <1>1 DEF Stacked
    <3>2. i + 1 \in 1 .. Len(S)
      BY <1>0, StackForm
    <3>3. S[i + 1][2] \in Task
      BY <1>4, <3>2
    <3> QED
      BY <1>2, <3>1, <3>3 DEF Fits, Near
  <2> QED
    BY <1>1, <2>1, <2>2 DEF Stacked
<1>6. ASSUME NEW t \in Task PROVE Framed(U, S, t)
  <2>1. Framed(T, S, t)
    BY <1>1
  <2>2. U[t].at \in Awake <=> T[t].at \in Awake
    BY DEF Near, Awake
  <2>3. U[t].at = "child" => T[t].at = "child" /\ Cur(T, t) \in Task
    <3>1. ASSUME U[t].at = "child" PROVE T[t].at = "child" /\ Cur(T, t) \in Task
      <4>1. T[t].at = "child" /\ RecordOk(T, t)
        BY <1>1, <3>1 DEF Near, Records
      <4> QED
        BY <4>1, KinFacts DEF RecordOk, With, Cur
    <3> QED
      BY <3>1
  <2> QED
    BY <1>2, <2>1, <2>2, <2>3 DEF Framed, Near
<1>7. Returned(U, S, b)
  <2>1. CASE S = <<>>
    BY <2>1 DEF Returned
  <2>2. CASE S # <<>>
    <3> DEFINE t == S[1][2]
    <3>1. 1 \in 1 .. Len(S) /\ t \in Task /\ RecordOk(T, t) /\ FrameOk(T, S[1], 1)
      <4>1. 1 \in 1 .. Len(S)
        BY <1>0, <2>2, EmptySeq
      <4> QED
        BY <1>1, <1>4, <4>1 DEF Records, Stacked
    <3>2. T[t].at \in {"child", "asked", "found"} => Cur(T, t) \in Task
      BY <3>1, KinFacts DEF RecordOk, With, Cur
    <3>3. T[t].at \in {"child", "asked", "found"} => (U[Cur(T, t)].at = "done" <=> T[Cur(T, t)].at = "done")
      BY <3>2 DEF Near
    <3>4. S[1][1] = "fwd" => T[t].at = "child"
      BY <3>1 DEF FrameOk
    <3>5. U[t].at \in {"asked", "found"} => T[t].at = U[t].at
      BY <3>1 DEF Near
    <3>6. ~(S[1][1] = "run" /\ U[t].at = "asked")
      BY <2>2, <3>5
    <3>7. /\ S[1][1] = "fwd" => (b <=> T[Cur(T, t)].at = "done")
          /\ S[1][1] = "run" /\ T[t].at \in {"asked", "found"} => (b <=> T[Cur(T, t)].at = "done")
      BY <1>1, <2>2 DEF Returned
    <3>8. Cur(U, t) = Cur(T, t)
      BY <1>2, <3>1
    <3> HIDE DEF t
    <3>9. /\ S[1][1] = "fwd" => (b <=> U[Cur(U, t)].at = "done")
          /\ S[1][1] = "run" /\ U[t].at \in {"asked", "found"} => (b <=> U[Cur(U, t)].at = "done")
      BY <3>3, <3>4, <3>5, <3>7, <3>8
    <3> QED
      BY <3>6, <3>9 DEF Returned, t
  <2> QED
    BY <2>1, <2>2
<1>8. ASSUME NEW r \in Race, NEW x \in Below[r] \ {r} PROVE Raced(U, S, r, x)
  <2>1. Raced(T, S, r, x) /\ r \in Task /\ x \in Task
    BY <1>1, BelowTask DEF Task
  <2>2. U[x].at \in Advanced <=> T[x].at \in Advanced
    BY <2>1 DEF Near, Advanced
  <2>3. Chosen(T, r, x) => Chosen(U, r, x)
    BY <1>2, <2>1 DEF Chosen, Near
  <2> QED
    BY <2>1, <2>2, <2>3 DEF Raced, Near
<1> QED
  BY <1>0, <1>3, <1>5, <1>6, <1>7, <1>8 DEF Well, Inv, Typed

\* Only tasks below that of the frame f change.
Steady(T, U, f) ==
  /\ \A x \in Task : x \notin Below[f[2]] => U[x] = T[x]
  /\ \/ f[1] # "run"
     \/ U[f[2]].driven = T[f[2]].driven /\ U[f[2]].forwarded = T[f[2]].forwarded /\ U[f[2]].at # "none"
\* The stack R, and f before it.
Rested(T, U, f, R) ==
  /\ Stacked(U, R) /\ (R = <<>> => f[1] = "run")
  /\ R # <<>> => /\ 1 \in 1 .. Len(R) /\ R[1] \in Frame /\ Calling(R[1]) /\ Under(f, R[1])
                 /\ Fits(U, f, R[1])
                 /\ R[1][1] # "after" => U[R[1][2]] = T[R[1][2]]

\* What a stack says after its first frame when only the tasks below that frame's change.
LEMMA Rest ==
  ASSUME NEW T, NEW f \in Frame, NEW R \in Seq(Frame), Stacked(T, Push(f, R)), NEW U, Steady(T, U, f)
  PROVE  Rested(T, U, f, R)
<1> DEFINE t == f[2]
<1>0. /\ Stacked(T, R) /\ (R = <<>> => f[1] = "run") /\ (R # <<>> => Fits(T, f, R[1]))
      /\ \A j \in 1 .. Len(R) : Under(f, R[j]) /\ Calling(R[j])
  <2>1. Stacked(T, R) /\ (R = <<>> => f[1] = "run") /\ (R # <<>> => Fits(T, f, R[1]))
    BY PopStacked
  <2>2. \A j \in 1 .. Len(R) : Under(f, R[j]) /\ Calling(R[j])
    BY PopStacked
  <2> QED
    BY <2>1, <2>2
<1>1. t \in Task /\ \A j \in 1 .. Len(R) : R[j] \in Frame /\ R[j][2] \in Task
  <2>1. \A g \in Frame : g[2] \in Task
    BY DEF Frame
  <2>2. \A j \in 1 .. Len(R) : R[j] \in Frame
    BY StackForm
  <2> QED
    BY <2>1, <2>2
<1>2. ASSUME NEW j \in 1 .. Len(R)
      PROVE  U[R[j][2]] = T[R[j][2]] \/ (R[j][1] = "after" /\ FrameOk(U, R[j], j))
  <2> DEFINE y == R[j][2]
  <2>1. t \in Below[y] /\ (t = y => f[1] = "run" /\ R[j][1] = "after") /\ y \in Task
    BY <1>0, <1>1, <1>2 DEF Under
  <2>2. CASE y # t
    <3>1. y \notin Below[t]
      BY <1>1, <2>1, <2>2, BelowAnti
    <3> QED
      BY <1>1, <3>1 DEF Steady
  <2>3. CASE y = t
    <3>1. FrameOk(T, R[j], j)
      BY <1>0, <1>2 DEF Stacked
    <3> QED
      BY <2>1, <2>3, <3>1 DEF FrameOk, Steady
  <2> QED
    BY <2>2, <2>3
<1>3. Stacked(U, R)
  <2>1. \A i \in 1 .. Len(R) : Alike(T, U, R[i][2]) \/ (R[i][1] = "after" /\ FrameOk(U, R[i], i))
    BY <1>2 DEF Alike
  <2> QED
    BY <1>0, <2>1, SteadyStacked
<1>4. ASSUME R # <<>>
      PROVE  /\ 1 \in 1 .. Len(R) /\ R[1] \in Frame /\ Calling(R[1]) /\ Under(f, R[1])
             /\ Fits(U, f, R[1])
             /\ R[1][1] # "after" => U[R[1][2]] = T[R[1][2]]
  <2>1. 1 \in 1 .. Len(R)
    BY <1>4, EmptySeq
  <2>2. U[R[1][2]] = T[R[1][2]] \/ R[1][1] = "after"
    BY <1>2, <2>1
  <2>3. Fits(U, f, R[1])
    BY <1>0, <1>4, <2>2 DEF Fits, Cur
  <2> QED
    BY <1>0, <1>1, <2>1, <2>2, <2>3
<1> QED
  BY <1>0, <1>3, <1>4 DEF Rested

\* The parts of the invariant.
LEMMA Parts ==
  ASSUME NEW T, NEW S, NEW b, Well(T, S, b)
  PROVE  /\ T \in [Task -> Record] /\ S \in Seq(Frame) /\ b \in BOOLEAN
         /\ Records(T) /\ Stacked(T, S) /\ Returned(T, S, b)
         /\ \A t \in Task : Framed(T, S, t) /\ RecordOk(T, t) /\ T[t] \in Record
         /\ \A t \in Task : \A i \in 1 .. Len(Kids[t]) : Link(T, t, i)
         /\ \A r \in Race : \A x \in Below[r] \ {r} : Raced(T, S, r, x)
  BY DEF Well, Typed, Inv, Records

\* A running task changes its own record, and who awaits its children.
Turned(T, U, t) ==
  /\ U \in [Task -> Record]
  /\ \A x \in Task : x # t /\ x \notin Kin(t) => U[x] = T[x]
  /\ \A c \in Kin(t) :
       /\ U[c].at = T[c].at /\ U[c].resolving = T[c].resolving /\ U[c].driven = T[c].driven
       /\ U[c].forward = T[c].forward /\ U[c].index = T[c].index
       /\ T[c].at = "none" => U[c] = T[c]
  /\ U[t].awaiter = T[t].awaiter /\ U[t].forwarded = T[t].forwarded /\ U[t].driven = T[t].driven
  /\ U[t].at \notin {"none", "done"}
  /\ RecordOk(U, t) /\ \A i \in 1 .. Len(Kids[t]) : Link(U, t, i)

\* What a running task does to its own record is right if its record and its children's agree.
LEMMA TurnedRecords ==
  ASSUME NEW T, NEW U, NEW t \in Task, Records(T), T[t].at \notin {"none", "done"}, Turned(T, U, t)
  PROVE  Records(U)
<1>1. ASSUME NEW x \in Task PROVE RecordOk(U, x)
  <2>1. RecordOk(T, x)
    BY DEF Records
  <2>2. CASE x = t
    BY <2>2 DEF Turned
  <2>3. CASE x # t /\ x \notin Kin(t)
    BY <2>1, <2>3 DEF Turned, RecordOk
  <2>4. CASE x \in Kin(t)
    <3>1. x # Root
      BY <2>4, KinFacts
    <3>2. /\ U[x].at = T[x].at /\ U[x].resolving = T[x].resolving /\ U[x].driven = T[x].driven
          /\ U[x].forward = T[x].forward /\ U[x].index = T[x].index
          /\ T[x].at = "none" => U[x] = T[x]
      BY <2>4 DEF Turned
    <3> QED
      BY <2>1, <3>1, <3>2 DEF RecordOk
  <2> QED
    BY <2>2, <2>3, <2>4
<1>2. ASSUME NEW x \in Task, NEW i \in 1 .. Len(Kids[x]) PROVE Link(U, x, i)
  <2> DEFINE c == Kids[x][i]
  <2>1. Link(T, x, i) /\ c \in Kin(x) /\ c \in Task
    BY KinFacts DEF Records
  <2>2. CASE x = t
    BY <2>2 DEF Turned
  <2>3. CASE x # t /\ c = t
    <3>1. x \notin Kin(t)
      <4>1. ASSUME x \in Kin(t) PROVE FALSE
        <5>1. x \in Below[t] /\ t \in Below[x]
          BY <2>1, <2>3, <4>1, BelowTask
        <5> QED
          BY <2>3, <5>1, BelowAnti
      <4> QED
        BY <4>1
    <3>2. U[x] = T[x]
      BY <2>3, <3>1 DEF Turned
    <3>3. U[c].awaiter = T[c].awaiter /\ U[c].forwarded = T[c].forwarded
          /\ U[c].at \notin {"none", "done"} /\ T[c].at \notin {"none", "done"}
      BY <2>3 DEF Turned
    <3> QED
      BY <2>1, <3>2, <3>3 DEF Link, Bare
  <2>4. CASE x # t /\ c # t
    <3>1. c \notin Kin(t)
      BY <2>1, <2>4, KinFacts
    <3>2. U[c] = T[c]
      BY <2>1, <2>4, <3>1 DEF Turned
    <3>3. U[x].at = T[x].at /\ U[x].index = T[x].index /\ U[x].forward = T[x].forward
      BY <2>4 DEF Turned
    <3> QED
      BY <2>1, <3>2, <3>3 DEF Link, Bare
  <2> QED
    BY <2>2, <2>3, <2>4
<1> QED
  BY <1>1, <1>2 DEF Records

\* The innermost coroutine goes on, or is suspended.
LEMMA Turn ==
  ASSUME NEW T, NEW t \in Task, NEW R \in Seq(Frame), NEW b, Well(T, Push(Run(t), R), b),
         NEW U, Turned(T, U, t), NEW V,
         (V = Push(Run(t), R) /\ U[t].at \in Awake) \/ (V = R /\ U[t].at \notin Awake),
         U[t].at \notin {"asked", "found"},
         U[t].at = "child" => T[Cur(U, t)].at # "done",
         U[t].at \in Advanced => \A r \in Race : t \in Below[r] \ {r} => Chosen(T, r, t),
         t \in Race /\ T[t].at = "found" => \A x \in Below[t] \ {t} : T[x].at \notin Advanced
  PROVE  Well(U, V, b)
<1> DEFINE S == Push(Run(t), R)
           f == Run(t)
<1>0. /\ T \in [Task -> Record] /\ S \in Seq(Frame) /\ b \in BOOLEAN
      /\ Records(T) /\ Stacked(T, S) /\ Returned(T, S, b)
      /\ \A x \in Task : Framed(T, S, x) /\ RecordOk(T, x) /\ T[x] \in Record
      /\ \A r \in Race : \A x \in Below[r] \ {r} : Raced(T, S, r, x)
  BY Parts
<1>1. f \in Frame /\ f = <<"run", t>> /\ f[1] = "run" /\ f[2] = t
  BY DEF Run, Frame
<1> HIDE DEF f
<1>2. Stacked(T, Push(f, R))
  BY <1>0 DEF f
<1>3. FrameOk(T, f, 1) /\ T[t].at \in Awake
  BY <1>1, <1>2, PopStacked DEF FrameOk
<1>4. U \in [Task -> Record] /\ T[t].at \notin {"none", "done"}
  BY <1>3 DEF Turned, Awake
<1>5. Records(U)
  BY <1>0, <1>4, TurnedRecords
<1>6. \A x \in Task : x \notin Below[t] => U[x] = T[x]
  BY BelowTask DEF Turned
<1>7. /\ Stacked(U, R)
      /\ R # <<>> => /\ 1 \in 1 .. Len(R) /\ R[1] \in Frame /\ Calling(R[1]) /\ Under(f, R[1])
                     /\ Fits(U, f, R[1]) /\ (R[1][1] # "after" => U[R[1][2]] = T[R[1][2]])
  <2>1. U[t].driven = T[t].driven /\ U[t].forwarded = T[t].forwarded /\ U[t].at # "none"
    BY DEF Turned
  <2> QED
    BY <1>1, <1>2, <1>6, <2>1, Rest DEF Steady, Rested
<1>8. V \in Seq(Frame) /\ Stacked(U, V)
  <2>1. CASE V = S /\ U[t].at \in Awake
    <3>1. FrameOk(U, f, 1)
      BY <1>1, <2>1 DEF FrameOk
    <3>2. Stacked(U, Push(f, R))
      BY <1>1, <1>7, <3>1, PushStacked
    <3> QED
      BY <1>0, <2>1, <3>2 DEF f
  <2>2. CASE V = R
    BY <1>7, <2>2
  <2> QED
    BY <2>1, <2>2
<1>9. \A k, x : On(S, k, x) <=> (k = "run" /\ x = t) \/ On(R, k, x)
  BY <1>1, PushOn DEF f
<1>10. \A k, x : On(S, k, x) /\ (x # t \/ k # "run") => On(V, k, x)
  BY <1>9
<1>11. \A k, x : On(V, k, x) => On(S, k, x)
  BY <1>9
<1>12. \A x \in Below[t] \ {t} : \A k : ~On(S, k, x)
  BY <1>1, <1>2, Deeper DEF f
<1> HIDE DEF S
<1>13. \A x \in Task : x # t => U[x].at = T[x].at /\ U[x].driven = T[x].driven /\ U[x].index = T[x].index
  BY DEF Turned
<1>14. ASSUME NEW x \in Task PROVE Framed(U, V, x)
  <2>1. CASE x = t
    <3>1. U[t].at \in Awake => On(V, "run", t)
      BY <1>9 DEF S
    <3>2. U[t].driven => On(V, "after", t)
      <4>1. U[t].driven => On(S, "after", t)
        BY <1>0 DEF Framed, Turned
      <4> QED
        BY <1>10, <4>1
    <3>3. U[t].at = "child" => U[Cur(U, t)].at # "done"
      <4>1. ASSUME U[t].at = "child" PROVE U[Cur(U, t)].at # "done"
        <5>1. Cur(U, t) \in Kin(t)
          BY <4>1, KinFacts DEF Turned, RecordOk, With, Cur
        <5> QED
          BY <4>1, <5>1 DEF Turned
      <4> QED
        BY <4>1
    <3> QED
      BY <2>1, <3>1, <3>2, <3>3 DEF Framed
  <2>2. CASE x # t
    <3>1. Framed(T, S, x) /\ RecordOk(T, x)
      BY <1>0
    <3>2. Cur(U, x) = Cur(T, x)
      BY <1>13, <2>2 DEF Cur
    <3>3. U[x].at = "child" /\ U[Cur(U, x)].at = "done" => T[x].at = "child" /\ T[Cur(T, x)].at = "done"
      <4>1. ASSUME U[x].at = "child" PROVE Cur(T, x) \in Task
        BY <1>13, <2>2, <3>1, <4>1, KinFacts DEF RecordOk, With, Cur
      <4>2. U[t].at # "done"
        BY DEF Turned
      <4> QED
        BY <1>13, <2>2, <3>2, <4>1, <4>2
    <3> QED
      BY <1>10, <1>13, <2>2, <3>1, <3>3 DEF Framed
  <2> QED
    BY <2>1, <2>2
<1>15. Returned(U, V, b)
  <2>1. CASE V = S
    <3>1. V[1] = f
      BY <1>1, <2>1, PushFacts DEF S, f
    <3> QED
      BY <1>1, <3>1 DEF Returned
  <2>2. CASE V = R /\ R # <<>>
    <3>1. R[1][1] = "after" \/ (R[1][1] = "run" /\ U[R[1][2]].at \in {"called", "start"})
      BY <1>1, <1>7, <2>2 DEF Fits
    <3> QED
      BY <2>2, <3>1 DEF Returned
  <2>3. CASE V = R /\ R = <<>>
    BY <2>3 DEF Returned
  <2> QED
    BY <2>1, <2>2, <2>3 DEF S
<1>16. ASSUME NEW r \in Race, NEW x \in Below[r] \ {r} PROVE Raced(U, V, r, x)
  <2>1. Raced(T, S, r, x) /\ r \in Task /\ x \in Task
    BY <1>0, BelowTask DEF Task
  <2>2. CASE r # t
    <3>1. Chosen(T, r, x) => Chosen(U, r, x)
      BY <1>13, <2>1, <2>2 DEF Chosen, Cur
    <3>2. U[x].at \in Advanced => Chosen(U, r, x)
      BY <1>13, <2>1, <3>1 DEF Raced
    <3>3. On(V, "loop", x) /\ ~U[x].forwarded => Chosen(U, r, x)
      <4>1. CASE x \in Kin(t)
        <5>1. x \in Below[t] \ {t}
          BY <2>1, <4>1, BelowTask, NoCycle
        <5> QED
          BY <1>11, <1>12, <5>1
      <4>2. CASE x \notin Kin(t)
        <5>1. U[x].forwarded = T[x].forwarded
          BY <2>1, <4>2 DEF Turned
        <5> QED
          BY <1>11, <2>1, <3>1, <5>1 DEF Raced
      <4> QED
        BY <4>1, <4>2
    <3> QED
      BY <1>11, <2>1, <3>1, <3>2, <3>3 DEF Raced
  <2>3. CASE r = t
    <3>1. U[x].at \notin Advanced
      BY <1>13, <2>1, <2>3 DEF Raced, Chosen
    <3>2. \A k : ~On(V, k, x)
      BY <1>11, <1>12, <2>3
    <3> QED
      BY <3>1, <3>2 DEF Raced
  <2> QED
    BY <2>2, <2>3
<1> QED
  BY <1>0, <1>4, <1>5, <1>8, <1>14, <1>15, <1>16 DEF Well, Inv, Typed

\* What a coroutine that was destroyed, or is done, owned is gone.
LEMMA Vacant ==
  ASSUME NEW T, Records(T), NEW t \in Task
  PROVE  /\ T[t].at = "none" => \A x \in Below[t] : T[x] = Absent
         /\ T[t].at = "done" => \A x \in Below[t] \ {t} : T[x] = Absent
<1> DEFINE D == {x \in Task : T[x].at = "none"}
<1>1. \A x \in Task : T[x].at = "none" => T[x] = Absent
  BY DEF Records, RecordOk
<1>2. ASSUME NEW u \in Task, T[u].at \in {"none", "done"} PROVE Kin(u) \subseteq D
  <2>1. ASSUME NEW c \in Kin(u) PROVE T[c].at = "none"
    <3>1. PICK i \in 1 .. Len(Kids[u]) : c = Kids[u][i]
      BY DEF Kin
    <3>2. Link(T, u, i)
      BY DEF Records
    <3> QED
      BY <1>2, <3>1, <3>2 DEF Link
  <2> QED
    BY <2>1, KinFacts
<1>3. D \in SUBSET Task /\ \A u \in D : Kin(u) \subseteq D
  BY <1>2
<1>4. \A u \in D : Below[u] \subseteq D
  <2> HIDE DEF D
  <2> QED
    BY <1>3, BelowLeast
<1>5. ASSUME T[t].at = "done", NEW x \in Below[t] \ {t} PROVE x \in D
  <2>1. PICK c \in Kin(t) : x \in Below[c]
    BY <1>5, BelowKin
  <2>2. c \in D
    BY <1>2, <1>5, <2>1
  <2> QED
    BY <1>4, <2>1, <2>2
<1> QED
  BY <1>1, <1>4, <1>5

\* A running coroutine stays where it is for its parent.
LEMMA LinkUp ==
  ASSUME NEW T, NEW U, NEW p \in Task, NEW i \in 1 .. Len(Kids[p]), Link(T, p, i), U[p] = T[p],
         U[Kids[p][i]].awaiter = T[Kids[p][i]].awaiter, U[Kids[p][i]].forwarded = T[Kids[p][i]].forwarded,
         U[Kids[p][i]].at \notin {"none", "done"}, T[Kids[p][i]].at \notin {"none", "done"}
  PROVE  Link(U, p, i)
  BY DEF Link, Bare

\* The innermost coroutine and what is below it change; it goes on, and calls g perhaps.
LEMMA NearBelow ==
  ASSUME NEW T, NEW t \in Task, NEW R \in Seq(Frame), NEW b, Well(T, Push(Run(t), R), b), NEW U,
         \A x \in Task : x \notin Below[t] => U[x] = T[x],
         U[t].driven = T[t].driven, U[t].forwarded = T[t].forwarded, U[t].at \in Awake
  PROVE  /\ T[t].at \in Awake
         /\ Run(t) \in Frame /\ Push(Run(t), R) \in Seq(Frame) /\ Push(Run(t), R)[1] = Run(t)
         /\ Stacked(U, Push(Run(t), R))
         /\ \A x \in Below[t] \ {t} : \A k : ~On(Push(Run(t), R), k, x)
<1>1. T[t].at \in Awake /\ Run(t) \in Frame /\ Run(t)[1] = "run" /\ Run(t)[2] = t
      /\ Stacked(T, Push(Run(t), R))
  <2>1. Run(t) \in Frame /\ Run(t)[1] = "run" /\ Run(t)[2] = t
    BY DEF Run, Frame
  <2>2. Stacked(T, Push(Run(t), R))
    BY Parts
  <2>3. FrameOk(T, Run(t), 1)
    BY <2>1, <2>2, PopStacked
  <2> QED
    BY <2>1, <2>2, <2>3 DEF FrameOk
<1> DEFINE f == Run(t)
<1> HIDE DEF f
<1>2. Push(f, R) \in Seq(Frame) /\ Push(f, R)[1] = f
  BY <1>1, PushFacts DEF f
<1>3. f \in Frame /\ f[1] = "run" /\ f[2] = t /\ Stacked(T, Push(f, R))
  BY <1>1 DEF f
<1>8. \A x \in Task : x \notin Below[f[2]] => U[x] = T[x]
  BY <1>3
<1>4. /\ Stacked(U, R)
      /\ R # <<>> => 1 \in 1 .. Len(R) /\ R[1] \in Frame /\ Calling(R[1]) /\ Under(f, R[1]) /\ Fits(U, f, R[1])
  <2>1. U[f[2]].at # "none" /\ U[f[2]].driven = T[f[2]].driven /\ U[f[2]].forwarded = T[f[2]].forwarded
    BY <1>3 DEF Awake
  <2> QED
    BY <1>3, <1>8, <2>1, Rest DEF Steady, Rested
<1>5. FrameOk(U, f, 1)
  BY <1>3 DEF FrameOk
<1>6. Stacked(U, Push(f, R))
  BY <1>3, <1>4, <1>5, PushStacked
<1>7. \A x \in Below[t] \ {t} : \A k : ~On(Push(f, R), k, x)
  BY <1>3, Deeper
<1> QED
  BY <1>1, <1>2, <1>6, <1>7 DEF f

\* A coroutine calls another, which runs.
LEMMA Calls ==
  ASSUME NEW T, NEW t \in Task, NEW R \in Seq(Frame), NEW b, Well(T, Push(Run(t), R), b),
         NEW c \in Kin(t), T[c].at = "none", T[t].at = "start",
         NEW U \in [Task -> Record], \A x \in Task \ {t, c} : U[x] = T[x],
         U[c] = Fresh, U[t].at \in {"called", "start"},
         U[t].awaiter = T[t].awaiter, U[t].forwarded = T[t].forwarded, U[t].driven = T[t].driven,
         RecordOk(U, t), \A i \in 1 .. Len(Kids[t]) : Link(U, t, i)
  PROVE  Well(U, Push(Run(c), Push(Run(t), R)), b)
<1> DEFINE S == Push(Run(t), R)
           V == Push(Run(c), S)
<1>0. /\ T \in [Task -> Record] /\ S \in Seq(Frame) /\ b \in BOOLEAN
      /\ Records(T) /\ Stacked(T, S) /\ Returned(T, S, b)
      /\ \A x \in Task : Framed(T, S, x) /\ RecordOk(T, x) /\ T[x] \in Record
      /\ \A x \in Task : \A i \in 1 .. Len(Kids[x]) : Link(T, x, i)
      /\ \A r \in Race : \A x \in Below[r] \ {r} : Raced(T, S, r, x)
  BY Parts
<1>1. c \in Task /\ c \in Below[t] \ {t} /\ c # Root
  BY KinFacts, BelowTask, NoCycle
<1>2. U[t].at \in Awake /\ U[t].at \notin {"none", "done"} /\ T[t].at \notin {"none", "done"}
  BY DEF Awake
<1>3. \A x \in Task : x \notin Below[t] => U[x] = T[x]
  BY <1>1, BelowTask
<1>4. /\ Run(t) \in Frame /\ S[1] = Run(t) /\ Stacked(U, S)
      /\ \A x \in Below[t] \ {t} : \A k : ~On(S, k, x)
  BY <1>2, <1>3, NearBelow
<1>5. Run(c) \in Frame /\ Run(c) = <<"run", c>> /\ Run(c)[1] = "run" /\ Run(c)[2] = c
      /\ Run(t)[1] = "run" /\ Run(t)[2] = t
  BY <1>1 DEF Run, Frame
<1> HIDE DEF S
<1>6. Records(U)
  <2>1. ASSUME NEW x \in Task PROVE RecordOk(U, x)
    <3>1. CASE x = c
      <4>1. U[c].at = "start" /\ U[c].index = 1 /\ ~U[c].forward /\ ~U[c].resolving
        BY DEF Fresh, Absent
      <4>2. Len(Kids[c]) \in Nat
        BY <1>1, KinFacts
      <4> QED
        BY <1>1, <3>1, <4>1, <4>2 DEF RecordOk, With
    <3>2. CASE x # c /\ x # t
      BY <1>0, <3>2 DEF RecordOk
    <3> QED
      BY <3>1, <3>2
  <2>2. ASSUME NEW x \in Task, NEW i \in 1 .. Len(Kids[x]) PROVE Link(U, x, i)
    <3> DEFINE d == Kids[x][i]
    <3>1. Link(T, x, i) /\ d \in Kin(x) /\ d \in Task /\ Parent(d) = x /\ RecordOk(T, d)
      BY <1>0, KinFacts
    <3>2. Parent(c) = t
      BY KinFacts
    <3>3. CASE x = t
      BY <3>3
    <3>4. CASE x = c
      <4>1. d \in Below[c] /\ d # c /\ d # t
        BY <1>1, <3>1, <3>4, BelowTask, NoCycle
      <4>2. U[d] = T[d] /\ T[d] = Absent
        BY <3>1, <3>4, <4>1 DEF Link, RecordOk
      <4>3. U[c].at = "start" /\ U[c].index = 1
        BY DEF Fresh, Absent
      <4>4. T[d].at = "none" /\ T[d].awaiter = "none" /\ ~T[d].forwarded
        BY <4>2 DEF Absent
      <4> QED
        BY <3>4, <4>2, <4>3, <4>4 DEF Link, With, Bare
    <3>5. CASE x # t /\ x # c /\ d = t
      BY <1>2, <3>1, <3>5, LinkUp
    <3>6. CASE x # t /\ x # c /\ d # t
      <4>1. U[d] = T[d] /\ U[x] = T[x]
        BY <3>1, <3>2, <3>6
      <4> QED
        BY <3>1, <4>1 DEF Link, Bare
    <3> QED
      BY <3>3, <3>4, <3>5, <3>6
  <2> QED
    BY <2>1, <2>2 DEF Records
<1>7. U[c].at = "start" /\ ~U[c].driven
  BY DEF Fresh, Absent
<1>8. V \in Seq(Frame) /\ V[1] = Run(c) /\ Stacked(U, V)
  <2>1. FrameOk(U, Run(c), 1)
    BY <1>5, <1>7 DEF FrameOk, Awake
  <2>2. Calling(S[1]) /\ Fits(U, Run(c), S[1]) /\ Under(Run(c), S[1])
    BY <1>1, <1>4, <1>5 DEF Calling, Fits, Under
  <2>3. Run(c)[1] = "run"
    BY <1>5
  <2> QED
    BY <1>0, <1>4, <1>5, <2>1, <2>2, <2>3, PushFacts, PushStacked
<1>9. \A k, x : On(V, k, x) <=> (k = "run" /\ x = c) \/ On(S, k, x)
  BY <1>0, <1>5, PushOn
<1> HIDE DEF V
<1>10. ASSUME NEW x \in Task PROVE Framed(U, V, x)
  <2>0. Framed(T, S, x) /\ RecordOk(T, x)
    BY <1>0
  <2>1. CASE x = c
    BY <1>7, <1>9, <2>1 DEF Framed
  <2>2. CASE x = t
    BY <1>2, <1>9, <2>0, <2>2, <1>0 DEF Framed, Awake
  <2>3. CASE x # c /\ x # t
    <3>1. U[x] = T[x] /\ Cur(U, x) = Cur(T, x)
      BY <2>3 DEF Cur
    <3>2. U[x].at = "child" /\ U[Cur(U, x)].at = "done" => T[x].at = "child" /\ T[Cur(T, x)].at = "done"
      <4>1. U[x].at = "child" => Cur(T, x) \in Task
        BY <2>0, <3>1, KinFacts DEF RecordOk, With, Cur
      <4> QED
        BY <1>2, <1>7, <3>1, <4>1
    <3> QED
      BY <1>9, <2>0, <3>1, <3>2 DEF Framed
  <2> QED
    BY <2>1, <2>2, <2>3
<1>11. Returned(U, V, b)
  BY <1>5, <1>7, <1>8 DEF Returned
<1>12. ASSUME NEW r \in Race, NEW x \in Below[r] \ {r} PROVE Raced(U, V, r, x)
  <2>1. Raced(T, S, r, x) /\ r \in Task /\ x \in Task
    BY <1>0, BelowTask DEF Task
  <2>2. Chosen(T, r, x) => Chosen(U, r, x)
    BY <2>1 DEF Chosen, Cur
  <2>3. CASE x = c
    <3>1. U[x].at \notin Advanced /\ \A k : k # "run" => ~On(V, k, x)
      BY <1>1, <1>4, <1>7, <1>9, <2>3 DEF Advanced
    <3> QED
      BY <3>1 DEF Raced
  <2>4. CASE x # c
    <3>1. U[x].at \in Advanced => T[x].at \in Advanced
      BY <2>1, <2>4 DEF Advanced
    <3>2. U[x].forwarded = T[x].forwarded
      BY <2>1, <2>4
    <3> QED
      BY <1>9, <2>1, <2>2, <3>1, <3>2 DEF Raced
  <2> QED
    BY <2>3, <2>4
<1>13. Well(U, V, b)
  BY <1>0, <1>6, <1>8, <1>10, <1>11, <1>12 DEF Well, Inv, Typed
<1> QED
  BY <1>13 DEF V, S

\* A coroutine calls resolve() of a child.
LEMMA Asks ==
  ASSUME NEW T, NEW t \in Task, NEW R \in Seq(Frame), NEW b, Well(T, Push(Run(t), R), b),
         NEW c \in Kin(t), T[c].at # "none", T[t].at # "found", NEW U, Turned(T, U, t),
         \A x \in Kin(t) \ {c} : U[x].forwarded = T[x].forwarded,
         U[t].at \in {"asked", "found"}, Cur(U, t) = c,
         U[t].at = "found" => T[t].at = "find",
         \A r \in Race : c \in Below[r] \ {r} /\ ~U[c].forwarded => Chosen(U, r, c)
  PROVE  Well(U, Push(<<"loop", c>>, Push(Run(t), R)), b)
<1> DEFINE S == Push(Run(t), R)
           g == <<"loop", c>>
           V == Push(g, S)
<1>0. /\ T \in [Task -> Record] /\ S \in Seq(Frame) /\ b \in BOOLEAN
      /\ Records(T) /\ Stacked(T, S) /\ Returned(T, S, b)
      /\ \A x \in Task : Framed(T, S, x) /\ RecordOk(T, x) /\ T[x] \in Record
      /\ \A r \in Race : \A x \in Below[r] \ {r} : Raced(T, S, r, x)
  BY Parts
<1>1. c \in Task /\ c \in Below[t] \ {t} /\ c # Root
  BY KinFacts, BelowTask, NoCycle
<1>2. U[t].at \in Awake /\ U[t].at \notin {"none", "done", "child"}
  BY DEF Awake
<1>3. \A x \in Task : x \notin Below[t] => U[x] = T[x]
  BY BelowTask DEF Turned
<1>4. /\ Run(t) \in Frame /\ S[1] = Run(t) /\ Stacked(U, S) /\ T[t].at \in Awake
      /\ \A x \in Below[t] \ {t} : \A k : ~On(S, k, x)
  BY <1>2, <1>3, NearBelow DEF Turned
<1>5. g \in Frame /\ g[1] = "loop" /\ g[2] = c /\ Run(t)[1] = "run" /\ Run(t)[2] = t
  BY <1>1 DEF Run, Frame
<1> HIDE DEF S, g
<1>6. Records(U) /\ U \in [Task -> Record]
  BY <1>0, <1>4, TurnedRecords DEF Turned, Awake
<1>7. \A x \in Task : x # t => U[x].at = T[x].at /\ U[x].driven = T[x].driven /\ U[x].index = T[x].index
  BY DEF Turned
<1>8. T[c].at \notin Awake
  BY <1>0, <1>1, <1>4 DEF Framed
<1>9. V \in Seq(Frame) /\ V[1] = g /\ Stacked(U, V)
  <2>1. FrameOk(U, g, 1)
    BY <1>1, <1>5, <1>7, <1>8 DEF FrameOk
  <2>2. Calling(S[1]) /\ Fits(U, g, S[1]) /\ Under(g, S[1])
    BY <1>1, <1>4, <1>5 DEF Calling, Fits, Under
  <2>3. S # <<>>
    BY <1>4, PushFacts DEF S
  <2> QED
    BY <1>0, <1>4, <1>5, <2>1, <2>2, <2>3, PushFacts, PushStacked
<1>10. \A k, x : On(V, k, x) <=> (k = "loop" /\ x = c) \/ On(S, k, x)
  BY <1>0, <1>5, PushOn DEF g
<1> HIDE DEF V
<1>11. ASSUME NEW x \in Task PROVE Framed(U, V, x)
  <2>0. Framed(T, S, x) /\ RecordOk(T, x)
    BY <1>0
  <2>1. CASE x = t
    BY <1>2, <1>4, <1>10, <2>0, <2>1 DEF Framed, Turned
  <2>2. CASE x # t
    <3>1. Cur(U, x) = Cur(T, x)
      BY <1>7, <2>2 DEF Cur
    <3>2. U[x].at = "child" /\ U[Cur(U, x)].at = "done" => T[x].at = "child" /\ T[Cur(T, x)].at = "done"
      <4>1. U[x].at = "child" => Cur(T, x) \in Task
        BY <1>7, <2>0, <2>2, KinFacts DEF RecordOk, With, Cur
      <4> QED
        BY <1>2, <1>7, <2>2, <3>1, <4>1
    <3> QED
      BY <1>7, <1>10, <2>0, <2>2, <3>2 DEF Framed
  <2> QED
    BY <2>1, <2>2
<1>12. Returned(U, V, b)
  BY <1>5, <1>9 DEF Returned
<1>13. ASSUME NEW r \in Race, NEW x \in Below[r] \ {r} PROVE Raced(U, V, r, x)
  <2>1. Raced(T, S, r, x) /\ r \in Task /\ x \in Task
    BY <1>0, BelowTask DEF Task
  <2>2. Chosen(T, r, x) => Chosen(U, r, x)
    BY <1>7, <2>1 DEF Chosen, Cur
  <2>3. U[x].at \in Advanced => T[x].at \in Advanced
    BY <1>7, <2>1 DEF Advanced
  <2>4. On(V, "loop", x) /\ ~U[x].forwarded => Chosen(U, r, x)
    <3>1. CASE x = c
      BY <3>1
    <3>2. CASE x # c
      <4>1. U[x].forwarded = T[x].forwarded
        BY <2>1, <3>2 DEF Turned
      <4> QED
        BY <1>10, <2>1, <2>2, <3>2, <4>1 DEF Raced
    <3> QED
      BY <3>1, <3>2
  <2> QED
    BY <1>10, <2>1, <2>2, <2>3, <2>4 DEF Raced
<1>14. Well(U, V, b)
  BY <1>0, <1>6, <1>9, <1>11, <1>12, <1>13 DEF Well, Inv, Typed
<1> QED
  BY <1>14 DEF V, S, g

\* A coroutine destroys its children.
LEMMA Clears ==
  ASSUME NEW T, NEW t \in Task, NEW R \in Seq(Frame), NEW b, Well(T, Push(Run(t), R), b),
         t \notin Source, NEW K \in SUBSET Kin(t), \A c \in Kin(t) \ K : T[c].at = "none",
         NEW U \in [Task -> Record],
         \A x \in Task \ {t} : U[x] = IF x \in UNION {Below[c] : c \in K} THEN Absent ELSE T[x],
         U[t].at = "start", ~U[t].forward, ~U[t].resolving, t \in Race => U[t].index = 1,
         U[t].awaiter = T[t].awaiter, U[t].forwarded = T[t].forwarded, U[t].driven = T[t].driven
  PROVE  Well(U, Push(Run(t), R), b)
<1> DEFINE S == Push(Run(t), R)
           G == UNION {Below[c] : c \in K}
<1>0. /\ T \in [Task -> Record] /\ S \in Seq(Frame) /\ b \in BOOLEAN
      /\ Records(T) /\ Stacked(T, S) /\ Returned(T, S, b)
      /\ \A x \in Task : Framed(T, S, x) /\ RecordOk(T, x) /\ T[x] \in Record
      /\ \A x \in Task : \A i \in 1 .. Len(Kids[x]) : Link(T, x, i)
      /\ \A r \in Race : \A x \in Below[r] \ {r} : Raced(T, S, r, x)
  BY Parts
<1>1. \A c \in Kin(t) : c \in Task /\ c \in Below[t] /\ Below[c] \subseteq Below[t] \ {t} /\ c \in Below[c]
  BY KinFacts, BelowTask, BelowTrans, NoCycle
<1>2. G \subseteq Below[t] \ {t} /\ K \subseteq G /\ G \subseteq Task
  BY <1>1, BelowTask
<1>3. \A x \in G : Kin(x) \subseteq G /\ Below[x] \subseteq G
  BY <1>1, BelowTask, BelowTrans
<1>4. ASSUME NEW x \in Task, NEW y \in Kin(x), y \in G, x # t PROVE x \in G
  <2>1. PICK c \in K : y \in Below[c]
    BY <1>4
  <2>2. y \in Task /\ Parent(y) = x
    BY <1>4, KinFacts
  <2>3. CASE y = c
    <3>1. Parent(c) = t
      BY KinFacts
    <3> QED
      BY <1>4, <2>2, <2>3, <3>1
  <2>4. CASE y # c
    BY <1>1, <2>1, <2>2, <2>4, BelowKin
  <2> QED
    BY <2>3, <2>4
<1>5. \A x \in G : U[x] = Absent
  BY <1>2
<1>6. \A x \in Task : x # t /\ x \notin G => U[x] = T[x]
  OBVIOUS
<1> HIDE DEF G
<1>7. U[t].at \in Awake /\ U[t].at \notin {"none", "done", "child"}
  BY DEF Awake
<1>8. \A x \in Task : x \notin Below[t] => U[x] = T[x]
  BY <1>2, <1>6, BelowTask
<1>9. /\ T[t].at \in Awake /\ Run(t) \in Frame /\ S[1] = Run(t) /\ Stacked(U, S)
      /\ \A x \in Below[t] \ {t} : \A k : ~On(S, k, x)
  BY <1>7, <1>8, NearBelow
<1>10. T[t].at \notin {"none", "done"}
  BY <1>9 DEF Awake
<1> HIDE DEF S
<1>11. \A x \in Below[t] \ {t} : U[x] = Absent
  <2>1. TAKE x \in Below[t] \ {t}
  <2>2. PICK c \in Kin(t) : x \in Below[c]
    BY BelowKin
  <2>3. CASE c \in K
    BY <1>5, <2>2, <2>3 DEF G
  <2>4. CASE c \notin K
    <3>1. T[x] = Absent
      BY <1>0, <1>1, <2>2, <2>4, Vacant
    <3> QED
      BY <1>5, <1>6, <3>1, BelowTask
  <2> QED
    BY <2>3, <2>4
<1>12. Absent.at = "none" /\ Absent.awaiter = "none" /\ ~Absent.forwarded /\ ~Absent.driven /\ ~Absent.forward
       /\ ~Absent.resolving
  BY DEF Absent
<1>13. Records(U)
  <2>1. ASSUME NEW x \in Task PROVE RecordOk(U, x)
    <3>1. CASE x = t
      BY <1>7, <1>0, <3>1, KinFacts DEF RecordOk, With
    <3>2. CASE x \in Below[t] \ {t}
      <4>1. x # Root
        <5>1. ASSUME x = Root PROVE FALSE
          <6>1. t \in Below[Root]
            BY TreeAssumption
          <6> QED
            BY <3>2, <5>1, <6>1, BelowAnti
        <5> QED
          BY <5>1
      <4> QED
        BY <1>11, <1>12, <3>2, <4>1 DEF RecordOk, With
    <3>3. CASE x \notin Below[t]
      BY <1>0, <1>8, <3>3 DEF RecordOk
    <3> QED
      BY <3>1, <3>2, <3>3
  <2>2. ASSUME NEW x \in Task, NEW i \in 1 .. Len(Kids[x]) PROVE Link(U, x, i)
    <3> DEFINE d == Kids[x][i]
    <3>1. Link(T, x, i) /\ d \in Kin(x) /\ d \in Task /\ Parent(d) = x /\ i >= 1
      BY <1>0, KinFacts
    <3>2. CASE x \in Below[t]
      <4>1. d \in Below[t] \ {t}
        BY <1>1, <3>1, <3>2, BelowTask, NoCycle, BelowTrans, BelowAnti
      <4>2. U[d].at = "none" /\ U[d].awaiter = "none" /\ ~U[d].forwarded
        BY <1>11, <1>12, <4>1
      <4>3. CASE x = t
        BY <3>1, <4>2, <4>3 DEF Link, With, Bare
      <4>4. CASE x # t
        <5>1. U[x].at = "none"
          BY <1>11, <1>12, <3>2, <4>4
        <5> QED
          BY <4>2, <5>1 DEF Link, With, Bare
      <4> QED
        BY <4>3, <4>4
    <3>3. CASE x \notin Below[t] /\ d = t
      BY <1>7, <1>8, <1>10, <3>1, <3>3, LinkUp
    <3>4. CASE x \notin Below[t] /\ d # t
      <4>1. d \notin Below[t]
        BY <3>1, <3>4, BelowKin
      <4>2. U[d] = T[d] /\ U[x] = T[x]
        BY <1>8, <3>1, <3>4, <4>1
      <4> QED
        BY <3>1, <4>2 DEF Link, Bare
    <3> QED
      BY <3>2, <3>3, <3>4
  <2> QED
    BY <2>1, <2>2 DEF Records
<1>14. ASSUME NEW x \in Task PROVE Framed(U, S, x)
  <2>0. Framed(T, S, x) /\ RecordOk(T, x)
    BY <1>0
  <2>1. CASE x = t
    BY <1>7, <1>9, <2>0, <2>1 DEF Framed
  <2>2. CASE x \in Below[t] \ {t}
    BY <1>11, <1>12, <2>2 DEF Framed, Awake
  <2>3. CASE x \notin Below[t]
    <3>1. U[x] = T[x] /\ Cur(U, x) = Cur(T, x)
      BY <1>8, <2>3 DEF Cur
    <3>2. U[x].at = "child" /\ U[Cur(U, x)].at = "done" => T[x].at = "child" /\ T[Cur(T, x)].at = "done"
      <4>1. U[x].at = "child" => Cur(T, x) \in Task
        BY <2>0, <3>1, KinFacts DEF RecordOk, With, Cur
      <4> QED
        BY <1>5, <1>6, <1>7, <1>12, <3>1, <4>1
    <3> QED
      BY <2>0, <3>1, <3>2 DEF Framed
  <2> QED
    BY <2>1, <2>2, <2>3
<1>15. Returned(U, S, b)
  BY <1>7, <1>9 DEF Returned, Run
<1>16. ASSUME NEW r \in Race, NEW x \in Below[r] \ {r} PROVE Raced(U, S, r, x)
  <2>1. Raced(T, S, r, x) /\ r \in Task /\ x \in Task
    BY <1>0, BelowTask DEF Task
  <2>2. CASE x \in Below[t] \ {t}
    BY <1>9, <1>11, <1>12, <2>2 DEF Raced, Advanced
  <2>3. CASE x \notin Below[t] \ {t}
    <3>1. r \notin Below[t]
      <4>1. ASSUME r \in Below[t] PROVE FALSE
        <5>1. x \in Below[t]
          BY <4>1, BelowTrans
        <5>2. x = t
          BY <2>3, <5>1
        <5> QED
          BY <2>1, <4>1, <5>2, BelowAnti
      <4> QED
        BY <4>1
    <3>2. Chosen(T, r, x) => Chosen(U, r, x)
      BY <1>8, <2>1, <3>1 DEF Chosen, Cur
    <3>3. U[x].at \in Advanced => T[x].at \in Advanced
      BY <1>8, <2>1, <2>3 DEF Advanced
    <3>4. U[x].forwarded = T[x].forwarded
      BY <1>8, <2>1, <2>3
    <3> QED
      BY <2>1, <3>2, <3>3, <3>4 DEF Raced
  <2> QED
    BY <2>2, <2>3
<1>17. Well(U, S, b)
  BY <1>0, <1>9, <1>13, <1>14, <1>15, <1>16 DEF Well, Inv, Typed
<1> QED
  BY <1>17 DEF S

\* A suspended coroutine is resumed, by the driver or by who awaits it.
LEMMA Wakes ==
  ASSUME NEW T, NEW R \in Seq(Frame), NEW b, Well(T, R, b), NEW x \in Task,
         T[x].at \in {"resolve", "woken"}, NEW U, Turned(T, U, x), \A y \in Task \ {x} : U[y] = T[y],
         U[x].at \in {"start", "look", "take", "point", "find"},
         R # <<>> => /\ R[1][1] = "after" \/ (R[1][1] = "run" /\ T[R[1][2]].at \in {"called", "start"})
                     /\ Under(Run(x), R[1]),
         U[x].at \in Advanced => \A r \in Race : x \in Below[r] \ {r} => Chosen(T, r, x)
  PROVE  Well(U, Push(Run(x), R), b)
<1> DEFINE f == Run(x)
           V == Push(f, R)
<1>0. /\ T \in [Task -> Record] /\ b \in BOOLEAN
      /\ Records(T) /\ Stacked(T, R) /\ Returned(T, R, b)
      /\ \A y \in Task : Framed(T, R, y) /\ RecordOk(T, y) /\ T[y] \in Record
      /\ \A r \in Race : \A y \in Below[r] \ {r} : Raced(T, R, r, y)
  BY Parts
<1>1. f \in Frame /\ f = <<"run", x>> /\ f[1] = "run" /\ f[2] = x
  BY DEF Run, Frame
<1> HIDE DEF f
<1>2. U[x].at \in Awake /\ U[x].at \notin {"none", "done", "child", "asked", "found"} /\ T[x].at \notin Awake
      /\ T[x].at \notin {"none", "done", "child", "found"}
  BY DEF Awake
<1>3. Records(U) /\ U \in [Task -> Record]
  BY <1>0, <1>2, TurnedRecords DEF Turned
<1>4. \A i \in 1 .. Len(R) : R[i] \in Frame /\ R[i][2] \in Task
  <2>1. \A g \in Frame : g[2] \in Task
    BY DEF Frame
  <2>2. \A i \in 1 .. Len(R) : R[i] \in Frame
    BY StackForm
  <2> QED
    BY <2>1, <2>2
<1>5. ASSUME NEW i \in 1 .. Len(R)
      PROVE  Alike(T, U, R[i][2]) \/ (R[i][1] = "after" /\ FrameOk(U, R[i], i))
  <2>1. CASE R[i][2] # x
    BY <1>4, <2>1 DEF Alike
  <2>2. CASE R[i][2] = x
    <3>1. FrameOk(T, R[i], i)
      BY <1>0, <1>5 DEF Stacked
    <3>2. R[i][1] # "run" /\ R[i][1] # "fwd"
      BY <1>2, <2>2, <3>1 DEF FrameOk
    <3>3. R[i][1] # "loop"
      <4>1. ASSUME R[i][1] = "loop" PROVE FALSE
        <5>1. i = 1 /\ R # <<>>
          BY <3>1, <4>1, <1>5, EmptySeq DEF FrameOk
        <5> QED
          BY <4>1, <5>1
      <4> QED
        BY <4>1
    <3>4. R[i][1] = "after"
      BY <1>4, <1>5, <3>2, <3>3 DEF Frame
    <3> QED
      BY <1>2, <2>2, <3>1, <3>4 DEF FrameOk, Turned
  <2> QED
    BY <2>1, <2>2
<1>6. Stacked(U, R)
  BY <1>0, <1>5, SteadyStacked
<1>7. V \in Seq(Frame) /\ V[1] = f /\ Stacked(U, V)
  <2>1. FrameOk(U, f, 1)
    BY <1>1, <1>2 DEF FrameOk
  <2>2. R # <<>> => Calling(R[1]) /\ Fits(U, f, R[1]) /\ Under(f, R[1])
    <3>1. SUFFICES ASSUME R # <<>> PROVE Calling(R[1]) /\ Fits(U, f, R[1]) /\ Under(f, R[1])
      OBVIOUS
    <3>2. 1 \in 1 .. Len(R)
      BY <3>1, EmptySeq
    <3>3. R[1][1] = "after" \/ (R[1][1] = "run" /\ U[R[1][2]].at \in {"called", "start"})
      BY <1>4, <3>1, <3>2
    <3>4. Under(f, R[1])
      BY <3>1 DEF f
    <3> QED
      BY <1>1, <3>3, <3>4 DEF Calling, Fits
  <2> QED
    BY <1>1, <1>6, <2>1, <2>2, PushFacts, PushStacked
<1>8. \A k, y : On(V, k, y) <=> (k = "run" /\ y = x) \/ On(R, k, y)
  BY <1>1, PushOn
<1> HIDE DEF V
<1>9. ASSUME NEW y \in Task PROVE Framed(U, V, y)
  <2>0. Framed(T, R, y) /\ RecordOk(T, y)
    BY <1>0
  <2>1. CASE y = x
    BY <1>2, <1>8, <2>0, <2>1 DEF Framed, Turned
  <2>2. CASE y # x
    <3>1. U[y] = T[y] /\ Cur(U, y) = Cur(T, y)
      BY <2>2 DEF Cur
    <3>2. U[y].at = "child" /\ U[Cur(U, y)].at = "done" => T[y].at = "child" /\ T[Cur(T, y)].at = "done"
      <4>1. U[y].at = "child" => Cur(T, y) \in Task
        BY <2>0, <3>1, KinFacts DEF RecordOk, With, Cur
      <4> QED
        BY <1>2, <3>1, <4>1
    <3> QED
      BY <1>8, <2>0, <3>1, <3>2 DEF Framed
  <2> QED
    BY <2>1, <2>2
<1>10. Returned(U, V, b)
  BY <1>1, <1>2, <1>7 DEF Returned
<1>11. ASSUME NEW r \in Race, NEW y \in Below[r] \ {r} PROVE Raced(U, V, r, y)
  <2>1. Raced(T, R, r, y) /\ r \in Task /\ y \in Task
    BY <1>0, BelowTask DEF Task
  <2>2. Chosen(T, r, y) => Chosen(U, r, y)
    BY <1>2, <2>1 DEF Chosen, Cur
  <2>3. U[y].at \in Advanced => Chosen(U, r, y)
    <3>1. CASE y = x
      BY <1>11, <2>2, <3>1
    <3>2. CASE y # x
      BY <2>1, <2>2, <3>2 DEF Raced
    <3> QED
      BY <3>1, <3>2
  <2>4. U[y].forwarded = T[y].forwarded
    BY <2>1 DEF Turned
  <2> QED
    BY <1>8, <2>1, <2>2, <2>3, <2>4 DEF Raced
<1>12. Well(U, V, b)
  BY <1>0, <1>3, <1>7, <1>9, <1>10, <1>11 DEF Well, Inv, Typed
<1> QED
  BY <1>12 DEF V, f

\* resolve() returns: what it says of its task.
LEMMA Stops ==
  ASSUME NEW T, NEW t \in Task, NEW R \in Seq(Frame), NEW b, Well(T, Push(<<"loop", t>>, R), b),
         T[t].at = "done" \/ ~T[t].resolving \/ T[t].forwarded
  PROVE  Well(T, R, T[t].at = "done")
<1> DEFINE f == <<"loop", t>>
           S == Push(f, R)
           d == (T[t].at = "done")
<1>0. /\ T \in [Task -> Record] /\ S \in Seq(Frame)
      /\ Records(T) /\ Stacked(T, S)
      /\ \A x \in Task : Framed(T, S, x)
      /\ \A r \in Race : \A x \in Below[r] \ {r} : Raced(T, S, r, x)
  BY Parts
<1>1. f \in Frame /\ f[1] = "loop" /\ f[2] = t
  BY DEF Frame
<1> HIDE DEF f
<1>2. Stacked(T, R) /\ R # <<>> /\ Fits(T, f, R[1])
  BY <1>0, <1>1, PopStacked
<1>3. \A k, x : On(S, k, x) <=> (k = "loop" /\ x = t) \/ On(R, k, x)
  BY <1>1, PushOn DEF f
<1>4. Returned(T, R, d)
  BY <1>1, <1>2 DEF Returned, Fits
<1> HIDE DEF S, d
<1>5. \A x \in Task : Framed(T, R, x)
  BY <1>0, <1>3 DEF Framed
<1>6. \A r \in Race : \A x \in Below[r] \ {r} : Raced(T, R, r, x)
  BY <1>0, <1>3 DEF Raced
<1>7. d \in BOOLEAN
  BY DEF d
<1>8. Well(T, R, d)
  BY <1>0, <1>2, <1>4, <1>5, <1>6, <1>7 DEF Well, Inv, Typed
<1> QED
  BY <1>8 DEF d

\* What changes when resolve() goes on in its task.
Resolving(T, U, t) ==
  /\ U \in [Task -> Record]
  /\ \A x \in Task \ {t} : U[x] = T[x]
  /\ U[t].at = T[t].at /\ U[t].forwarded = T[t].forwarded /\ U[t].forward = T[t].forward
  /\ U[t].awaiter = T[t].awaiter /\ U[t].index = T[t].index
  /\ T[t].at # "none" /\ (U[t].resolving => T[t].resolving)

\* That a task is resolvable is told to those that forward it, and their records stay right.
LEMMA ResolvingRecords ==
  ASSUME NEW T, NEW U, NEW t \in Task, Records(T), Resolving(T, U, t)
  PROVE  Records(U) /\ \A x \in Task : Cur(U, x) = Cur(T, x)
<1>1. \A x \in Task : /\ U[x].at = T[x].at /\ U[x].forwarded = T[x].forwarded /\ U[x].forward = T[x].forward
                      /\ U[x].awaiter = T[x].awaiter /\ U[x].index = T[x].index
                      /\ (T[x].at = "none" => U[x] = T[x]) /\ (U[x].resolving => T[x].resolving)
  BY DEF Resolving
<1>2. ASSUME NEW x \in Task PROVE RecordOk(U, x)
  <2>1. RecordOk(T, x)
    BY DEF Records
  <2> QED
    BY <1>1, <2>1 DEF RecordOk
<1>3. ASSUME NEW x \in Task, NEW i \in 1 .. Len(Kids[x]) PROVE Link(U, x, i)
  <2>1. Link(T, x, i) /\ Kids[x][i] \in Task
    BY KinFacts DEF Records
  <2> QED
    BY <1>1, <2>1 DEF Link, Bare
<1> QED
  BY <1>1, <1>2, <1>3 DEF Records, Cur

\* resolve() goes on in its task.
LEMMA Swap ==
  ASSUME NEW T, NEW t \in Task, NEW R \in Seq(Frame), NEW b, NEW k \in {"loop", "fwd", "after"},
         Well(T, Push(<<k, t>>, R), b), NEW h \in {"loop", "after"}, NEW U, Resolving(T, U, t),
         FrameOk(U, <<h, t>>, 1),
         U[t].driven => On(Push(<<h, t>>, R), "after", t),
         k = "fwd" => T[Cur(T, t)].at # "done",
         k = "loop" => ~T[t].forwarded
  PROVE  Well(U, Push(<<h, t>>, R), b)
<1> DEFINE f == <<k, t>>
           g == <<h, t>>
           S == Push(f, R)
           V == Push(g, R)
<1>0. /\ T \in [Task -> Record] /\ S \in Seq(Frame) /\ b \in BOOLEAN
      /\ Records(T) /\ Stacked(T, S)
      /\ \A x \in Task : Framed(T, S, x) /\ RecordOk(T, x)
      /\ \A r \in Race : \A x \in Below[r] \ {r} : Raced(T, S, r, x)
  BY Parts
<1>1. f \in Frame /\ f[1] = k /\ f[2] = t /\ g \in Frame /\ g[1] = h /\ g[2] = t
  <2>1. \A j \in {"run", "loop", "fwd", "after"} : <<j, t>> \in Frame
    BY DEF Frame
  <2> QED
    BY <2>1
<1>2. \A j, x : On(S, j, x) <=> (j = k /\ x = t) \/ On(R, j, x)
  BY <1>1, PushOn
<1>3. \A j, x : On(V, j, x) <=> (j = h /\ x = t) \/ On(R, j, x)
  BY <1>1, PushOn
<1>4. FrameOk(U, g, 1) /\ (U[t].driven => On(V, "after", t))
  OBVIOUS
<1>5. Records(U) /\ U \in [Task -> Record] /\ \A x \in Task : Cur(U, x) = Cur(T, x)
  <2>1. Resolving(T, U, t) /\ Records(T)
    BY <1>0
  <2>2. Records(U) /\ \A x \in Task : Cur(U, x) = Cur(T, x)
    BY <2>1, ResolvingRecords
  <2> QED
    BY <2>2 DEF Resolving
<1>6. \A x \in Task : U[x].at = T[x].at /\ U[x].forwarded = T[x].forwarded /\ (x # t => U[x] = T[x])
  BY DEF Resolving
<1> HIDE DEF f, g, S, V
<1>7. V \in Seq(Frame) /\ V[1] = g /\ Stacked(U, V)
  <2>1. \A x \in Task : x \notin Below[f[2]] => U[x] = T[x]
    BY <1>1, <1>6, BelowTask
  <2>2. f[1] # "run"
    BY <1>1
  <2>3. Stacked(T, Push(f, R))
    BY <1>0 DEF S
  <2>4. /\ Stacked(U, R) /\ R # <<>>
        /\ 1 \in 1 .. Len(R) /\ R[1] \in Frame /\ Calling(R[1]) /\ Under(f, R[1]) /\ Fits(U, f, R[1])
    BY <1>1, <2>1, <2>2, <2>3, Rest DEF Steady, Rested
  <2>5. Under(g, R[1]) /\ Fits(U, g, R[1])
    BY <1>1, <2>2, <2>4 DEF Under, Fits
  <2> QED
    BY <1>1, <1>4, <2>4, <2>5, PushStacked, PushFacts DEF V
<1>8. ASSUME NEW x \in Task PROVE Framed(U, V, x)
  <2>1. Framed(T, S, x) /\ (U[x].at = "child" => Cur(T, x) \in Task)
    BY <1>0, <1>6, KinFacts DEF RecordOk, With, Cur
  <2>2. CASE x = t
    BY <1>2, <1>3, <1>4, <1>5, <1>6, <2>1, <2>2 DEF Framed
  <2>3. CASE x # t
    BY <1>2, <1>3, <1>5, <1>6, <2>1, <2>3 DEF Framed
  <2> QED
    BY <2>2, <2>3
<1>9. Returned(U, V, b)
  BY <1>1, <1>7 DEF Returned
<1>10. ASSUME NEW r \in Race, NEW x \in Below[r] \ {r} PROVE Raced(U, V, r, x)
  <2>1. Raced(T, S, r, x) /\ r \in Task /\ x \in Task
    BY <1>0, BelowTask DEF Task
  <2>2. Chosen(T, r, x) => Chosen(U, r, x)
    BY <1>5, <1>6, <2>1 DEF Chosen
  <2>3. x = t => Chosen(T, r, x)
    BY <1>2, <2>1 DEF Raced
  <2> QED
    BY <1>2, <1>3, <1>6, <2>1, <2>2, <2>3 DEF Raced
<1>11. Well(U, V, b)
  BY <1>0, <1>5, <1>7, <1>8, <1>9, <1>10 DEF Well, Inv, Typed
<1> QED
  BY <1>11 DEF V, g

\* resolve() goes down to the task that is forwarded.
LEMMA Descends ==
  ASSUME NEW T, NEW t \in Task, NEW R \in Seq(Frame), NEW b, Well(T, Push(<<"loop", t>>, R), b),
         NEW U, Resolving(T, U, t), U[t].driven = T[t].driven, T[t].forward, ~T[t].forwarded
  PROVE  Well(U, Push(<<"loop", Cur(T, t)>>, Push(<<"fwd", t>>, R)), b)
<1> DEFINE c == Cur(T, t)
           f == <<"loop", t>>
           g == <<"fwd", t>>
           l == <<"loop", c>>
           S == Push(f, R)
           M == Push(g, R)
           V == Push(l, M)
<1>0. /\ T \in [Task -> Record] /\ S \in Seq(Frame) /\ b \in BOOLEAN
      /\ Records(T) /\ Stacked(T, S)
      /\ \A x \in Task : Framed(T, S, x) /\ RecordOk(T, x)
      /\ \A x \in Task : \A i \in 1 .. Len(Kids[x]) : Link(T, x, i)
      /\ \A r \in Race : \A x \in Below[r] \ {r} : Raced(T, S, r, x)
  BY Parts
<1>1. f \in Frame /\ f[1] = "loop" /\ f[2] = t /\ g \in Frame /\ g[1] = "fwd" /\ g[2] = t
  BY DEF Frame
<1>2. Records(U) /\ U \in [Task -> Record] /\ \A x \in Task : Cur(U, x) = Cur(T, x)
  <2>1. Resolving(T, U, t) /\ Records(T)
    BY <1>0
  <2>2. Records(U) /\ \A x \in Task : Cur(U, x) = Cur(T, x)
    BY <2>1, ResolvingRecords
  <2> QED
    BY <2>2 DEF Resolving
<1>3. \A x \in Task : U[x].at = T[x].at /\ U[x].forwarded = T[x].forwarded /\ U[x].driven = T[x].driven
                      /\ (x # t => U[x] = T[x])
  BY DEF Resolving
<1>4. T[t].at = "child" /\ t \in Forwarding /\ U[t].forward
  <2>1. FrameOk(T, f, 1)
    BY <1>0, <1>1, PopStacked
  <2> QED
    BY <1>0, <1>1, <2>1 DEF FrameOk, RecordOk, Resolving, Awake
<1>5. c \in Kin(t) /\ c \in Task /\ c \in Below[t] \ {t} /\ T[c].at # "none" /\ T[t].index \in 1 .. Len(Kids[t])
  <2>1. T[t].index \in 1 .. Len(Kids[t])
    BY <1>0, <1>4 DEF RecordOk, With
  <2>2. c \in Kin(t)
    BY <2>1, KinFacts DEF Cur
  <2>3. T[c].at # "none"
    BY <1>0, <1>4, <2>1 DEF Link, With, Cur
  <2> QED
    BY <2>1, <2>2, <2>3, KinFacts, BelowTask, NoCycle
<1>6. l \in Frame /\ l[1] = "loop" /\ l[2] = c
  BY <1>5 DEF Frame
<1> HIDE DEF f, g, l, c
<1>7. \A k : ~On(S, k, c)
  BY <1>0, <1>1, <1>5, Deeper DEF S
<1>8. T[c].at \notin Awake
  BY <1>0, <1>5, <1>7 DEF Framed
<1>9. M \in Seq(Frame) /\ M # <<>> /\ M[1] = g /\ Stacked(U, M)
  <2>1. \A x \in Task : x \notin Below[f[2]] => U[x] = T[x]
    BY <1>1, <1>3, BelowTask
  <2>2. f[1] # "run"
    BY <1>1
  <2>3. Stacked(T, Push(f, R))
    BY <1>0 DEF S
  <2>7. Rested(T, U, f, R)
    BY <1>1, <2>1, <2>2, <2>3, Rest DEF Steady
  <2>4. /\ Stacked(U, R) /\ R # <<>>
        /\ 1 \in 1 .. Len(R) /\ R[1] \in Frame /\ Calling(R[1]) /\ Under(f, R[1]) /\ Fits(U, f, R[1])
    BY <2>2, <2>7 DEF Rested
  <2>5. Under(g, R[1]) /\ Fits(U, g, R[1])
    BY <1>1, <2>2, <2>4 DEF Under, Fits
  <2>6. FrameOk(U, g, 1)
    BY <1>1, <1>3, <1>4 DEF FrameOk
  <2> QED
    BY <1>1, <2>4, <2>5, <2>6, PushStacked, PushFacts
<1>10. \A j, x : On(M, j, x) <=> (j = "fwd" /\ x = t) \/ On(R, j, x)
  BY <1>1, PushOn DEF g
<1>11. \A j, x : On(S, j, x) <=> (j = "loop" /\ x = t) \/ On(R, j, x)
  BY <1>1, PushOn DEF f
<1> HIDE DEF S, M
<1>12. V \in Seq(Frame) /\ V[1] = l /\ Stacked(U, V)
  <2>1. FrameOk(U, l, 1)
    BY <1>3, <1>5, <1>6, <1>8 DEF FrameOk
  <2>2. Calling(M[1]) /\ Under(l, M[1])
    BY <1>1, <1>5, <1>6, <1>9 DEF Calling, Under
  <2>3. Fits(U, l, M[1])
    BY <1>1, <1>2, <1>5, <1>6, <1>9 DEF Fits, c
  <2> QED
    BY <1>6, <1>9, <2>1, <2>2, <2>3, PushStacked, PushFacts
<1>13. \A j, x : On(V, j, x) <=> (j = "loop" /\ x = c) \/ On(M, j, x)
  BY <1>6, <1>9, PushOn DEF l
<1> HIDE DEF V
<1>14. ASSUME NEW x \in Task PROVE Framed(U, V, x)
  <2>1. Framed(T, S, x) /\ (U[x].at = "child" => Cur(T, x) \in Task)
    BY <1>0, <1>3, KinFacts DEF RecordOk, With, Cur
  <2> QED
    BY <1>2, <1>3, <1>10, <1>11, <1>13, <2>1 DEF Framed
<1>15. Returned(U, V, b)
  BY <1>6, <1>12 DEF Returned
<1>16. ASSUME NEW r \in Race, NEW x \in Below[r] \ {r} PROVE Raced(U, V, r, x)
  <2>1. Raced(T, S, r, x) /\ r \in Task /\ x \in Task
    BY <1>0, BelowTask DEF Task
  <2>2. \A y : Chosen(T, r, y) => Chosen(U, r, y)
    BY <1>2, <1>3, <2>1 DEF Chosen
  <2>3. x = t => Chosen(T, r, x)
    BY <1>11, <2>1 DEF Raced
  <2>4. x = c => Chosen(T, r, x)
    <3>1. SUFFICES ASSUME x = c PROVE Chosen(T, r, c)
      OBVIOUS
    <3>2. r # t /\ t \in Below[r]
      <4>1. Parent(c) \in Below[r] /\ Parent(c) = t
        BY <1>5, <2>1, <3>1, BelowKin, KinFacts
      <4>2. r # t
        BY <1>4, TreeAssumption
      <4> QED
        BY <4>1, <4>2
    <3>3. Raced(T, S, r, t)
      BY <1>0, <3>2
    <3>4. Chosen(T, r, t)
      BY <1>11, <3>3 DEF Raced
    <3>5. Cur(T, r) \in Task
      BY <1>0, <2>1, <3>4, KinFacts DEF RecordOk, Chosen, Cur
    <3> QED
      BY <1>5, <3>4, <3>5, BelowTask, BelowTrans DEF Chosen
  <2> QED
    BY <1>3, <1>10, <1>11, <1>13, <2>1, <2>2, <2>3, <2>4 DEF Raced
<1>17. Well(U, V, b)
  BY <1>0, <1>2, <1>12, <1>14, <1>15, <1>16 DEF Well, Inv, Typed
<1> QED
  BY <1>17 DEF V, M, l, g, c

\* The forwarded task is done, and the coroutine that awaits it runs in resolve().
LEMMA Forwarded ==
  ASSUME NEW T, NEW t \in Task, NEW R \in Seq(Frame), NEW b, Well(T, Push(<<"fwd", t>>, R), b),
         NEW U \in [Task -> Record], \A x \in Task \ {t} : U[x] = T[x],
         U[t].at = "got", U[t].driven, U[t].forwarded = T[t].forwarded, U[t].forward = T[t].forward,
         U[t].awaiter = T[t].awaiter, U[t].index = T[t].index, U[t].resolving = T[t].resolving,
         T[Cur(T, t)].at = "done"
  PROVE  Well(U, Push(<<"run", t>>, Push(<<"after", t>>, R)), b)
<1> DEFINE f == <<"fwd", t>>
           g == <<"after", t>>
           l == <<"run", t>>
           S == Push(f, R)
           M == Push(g, R)
           V == Push(l, M)
<1>0. /\ T \in [Task -> Record] /\ S \in Seq(Frame) /\ b \in BOOLEAN
      /\ Records(T) /\ Stacked(T, S)
      /\ \A x \in Task : Framed(T, S, x) /\ RecordOk(T, x)
      /\ \A x \in Task : \A i \in 1 .. Len(Kids[x]) : Link(T, x, i)
      /\ \A r \in Race : \A x \in Below[r] \ {r} : Raced(T, S, r, x)
  BY Parts
<1>1. /\ f \in Frame /\ f[1] = "fwd" /\ f[2] = t /\ g \in Frame /\ g[1] = "after" /\ g[2] = t
      /\ l \in Frame /\ l[1] = "run" /\ l[2] = t
  BY DEF Frame
<1>2. T[t].at = "child" /\ T[t].forward /\ ~T[t].forwarded
  <2>1. FrameOk(T, f, 1)
    BY <1>0, <1>1, PopStacked
  <2> QED
    BY <1>1, <2>1 DEF FrameOk
<1>3. \A x \in Task : Cur(U, x) = Cur(T, x) /\ U[x].forwarded = T[x].forwarded /\ U[x].awaiter = T[x].awaiter
                      /\ U[x].forward = T[x].forward /\ U[x].index = T[x].index
  BY DEF Cur
<1>4. t \notin Race /\ t \notin Source
  BY <1>0, <1>2 DEF RecordOk
<1>5. Records(U)
  <2>1. ASSUME NEW x \in Task PROVE RecordOk(U, x)
    <3>1. RecordOk(T, x)
      BY <1>0
    <3> QED
      BY <1>2, <3>1 DEF RecordOk, With
  <2>2. ASSUME NEW x \in Task, NEW i \in 1 .. Len(Kids[x]) PROVE Link(U, x, i)
    <3>1. Link(T, x, i) /\ Kids[x][i] \in Task
      BY <1>0, KinFacts
    <3>2. CASE x = t
      <4>1. Kids[x][i] # t
        BY <3>1, <3>2, KinFacts, NoCycle, BelowTask
      <4>2. U[Kids[x][i]] = T[Kids[x][i]] /\ Kids[x][i] = Cur(T, t) <=> i = T[t].index
        <5>1. T[t].index \in 1 .. Len(Kids[t])
          BY <1>0, <1>2 DEF RecordOk, With
        <5> QED
          BY <3>1, <3>2, <4>1, <5>1, TreeAssumption DEF Cur
      <4>3. i = T[t].index => U[Kids[x][i]].at = "done"
        BY <3>1, <3>2, <4>1 DEF Cur
      <4>4. U[Kids[x][i]] = T[Kids[x][i]]
        BY <3>1, <4>1
      <4> QED
        BY <1>2, <1>4, <3>1, <3>2, <4>3, <4>4 DEF Link, With, Bare
    <3>3. CASE x # t
      <4>1. U[x] = T[x] /\ U[Kids[x][i]].awaiter = T[Kids[x][i]].awaiter
            /\ U[Kids[x][i]].forwarded = T[Kids[x][i]].forwarded
            /\ (U[Kids[x][i]].at = T[Kids[x][i]].at \/
                  (U[Kids[x][i]].at = "got" /\ T[Kids[x][i]].at = "child"))
        BY <1>2, <1>3, <3>1, <3>3
      <4> QED
        BY <3>1, <4>1 DEF Link, Bare
    <3> QED
      BY <3>2, <3>3
  <2> QED
    BY <2>1, <2>2 DEF Records
<1> HIDE DEF f, g, l
<1>6. M \in Seq(Frame) /\ M # <<>> /\ M[1] = g /\ Stacked(U, M)
  <2>1. \A x \in Task : x \notin Below[f[2]] => U[x] = T[x]
    BY <1>1, BelowTask
  <2>2. f[1] # "run"
    BY <1>1
  <2>3. Stacked(T, Push(f, R))
    BY <1>0 DEF S
  <2>7. Rested(T, U, f, R)
    BY <1>1, <2>1, <2>2, <2>3, Rest DEF Steady
  <2>4. /\ Stacked(U, R) /\ R # <<>>
        /\ 1 \in 1 .. Len(R) /\ R[1] \in Frame /\ Calling(R[1]) /\ Under(f, R[1]) /\ Fits(U, f, R[1])
    BY <2>2, <2>7 DEF Rested
  <2>5. Under(g, R[1]) /\ Fits(U, g, R[1])
    BY <1>1, <2>2, <2>4 DEF Under, Fits
  <2>6. FrameOk(U, g, 1)
    BY <1>1, <1>2 DEF FrameOk
  <2> QED
    BY <1>1, <2>4, <2>5, <2>6, PushStacked, PushFacts
<1>7. \A j, x : On(M, j, x) <=> (j = "after" /\ x = t) \/ On(R, j, x)
  BY <1>1, PushOn DEF g
<1>8. \A j, x : On(S, j, x) <=> (j = "fwd" /\ x = t) \/ On(R, j, x)
  BY <1>1, PushOn DEF f
<1> HIDE DEF S, M
<1>9. V \in Seq(Frame) /\ V[1] = l /\ Stacked(U, V)
  <2>1. FrameOk(U, l, 1)
    BY <1>1 DEF FrameOk, Awake
  <2>2. Calling(M[1]) /\ Under(l, M[1]) /\ Fits(U, l, M[1])
    BY <1>1, <1>6, BelowTask DEF Calling, Under, Fits
  <2> QED
    BY <1>1, <1>6, <2>1, <2>2, PushStacked, PushFacts
<1>10. \A j, x : On(V, j, x) <=> (j = "run" /\ x = t) \/ On(M, j, x)
  BY <1>1, <1>6, PushOn DEF l
<1> HIDE DEF V
<1>11. ASSUME NEW x \in Task PROVE Framed(U, V, x)
  <2>1. Framed(T, S, x) /\ (T[x].at = "child" => Cur(T, x) \in Task)
    BY <1>0, KinFacts DEF RecordOk, With, Cur
  <2>2. CASE x = t
    BY <1>7, <1>10, <2>2 DEF Framed
  <2>3. CASE x # t
    <3>1. U[x] = T[x] /\ Cur(U, x) = Cur(T, x)
      BY <1>3, <2>3
    <3>2. U[x].at = "child" /\ U[Cur(T, x)].at = "done" => T[Cur(T, x)].at = "done"
      BY <2>1, <3>1
    <3> QED
      BY <1>7, <1>8, <1>10, <2>1, <2>3, <3>1, <3>2 DEF Framed
  <2> QED
    BY <2>2, <2>3
<1>12. Returned(U, V, b)
  BY <1>1, <1>9 DEF Returned
<1>13. ASSUME NEW r \in Race, NEW x \in Below[r] \ {r} PROVE Raced(U, V, r, x)
  <2>1. Raced(T, S, r, x) /\ r \in Task /\ x \in Task /\ r # t
    BY <1>0, <1>4, BelowTask DEF Task
  <2>2. Chosen(T, r, x) => Chosen(U, r, x)
    BY <1>3, <2>1 DEF Chosen
  <2>3. x = t => Chosen(T, r, x)
    BY <1>8, <2>1 DEF Raced
  <2>4. U[x].at \in Advanced => x = t \/ T[x].at \in Advanced
    BY <2>1
  <2>5. U[x].forwarded = T[x].forwarded
    BY <1>3, <2>1
  <2> QED
    BY <1>7, <1>8, <1>10, <2>1, <2>2, <2>3, <2>4, <2>5 DEF Raced
<1>14. Well(U, V, b)
  BY <1>0, <1>5, <1>9, <1>11, <1>12, <1>13 DEF Well, Inv, Typed
<1> QED
  BY <1>14 DEF V, M, l, g

\* The frame j is the first, or that of who resumed the first's task.
Above(R, p, j) == R[1][2] = p /\ (j = 1 \/ (R[1][1] = "run" /\ R[j][1] = "after"))

\* The frame that a running coroutine returns to, and where its parent may be.
LEMMA Caller ==
  ASSUME NEW T, NEW t \in Task, NEW R \in Seq(Frame), NEW b, Well(T, Push(Run(t), R), b), t # Root,
         NEW p, p = Parent(t), R # <<>>
  PROVE  /\ p \in Task /\ t \in Kin(p) /\ 1 \in 1 .. Len(R) /\ R[1][2] \in Task
         /\ R[1][1] = "after" \/ (R[1][1] = "run" /\ T[R[1][2]].at \in {"called", "start"})
         /\ R[1][2] = t => R[1][1] = "after" /\ T[t].driven /\ ~T[t].forwarded
         /\ R[1][2] # t => p \in Below[R[1][2]]
         /\ \A j \in 1 .. Len(R) : R[j][2] = p /\ R[1][2] # t => Above(R, p, j)
         /\ \A j \in 1 .. Len(R) : R[j][2] = t => j = 1 /\ R[j][1] = "after"
<1> DEFINE f == Run(t)
           y == R[1][2]
<1>0. Stacked(T, Push(f, R)) /\ \A r \in Task : RecordOk(T, r)
  BY Parts
<1>1. f \in Frame /\ f[1] = "run" /\ f[2] = t
  BY DEF Run, Frame
<1> HIDE DEF f
<1>2. Stacked(T, R) /\ Fits(T, f, R[1]) /\ \A j \in 1 .. Len(R) : Under(f, R[j])
  <2>1. Stacked(T, R) /\ Fits(T, f, R[1])
    BY <1>0, <1>1, PopStacked
  <2>2. \A j \in 1 .. Len(R) : Under(f, R[j]) /\ Calling(R[j])
    BY <1>0, <1>1, PopStacked
  <2> QED
    BY <2>1, <2>2
<1>3. 1 \in 1 .. Len(R) /\ \A j \in 1 .. Len(R) : R[j] \in Frame /\ R[j][2] \in Task
  <2>1. \A g \in Frame : g[2] \in Task
    BY DEF Frame
  <2>2. \A j \in 1 .. Len(R) : R[j] \in Frame
    BY StackForm
  <2> QED
    BY <2>1, <2>2, EmptySeq
<1>4. p \in Task /\ t \in Kin(p) /\ t \in Below[p] /\ p # t
  <2>1. p \in Task /\ t \in Kin(p)
    BY HasParent
  <2> QED
    BY <2>1, BelowTask, NoCycle
<1>5. R[1][1] = "after" \/ (R[1][1] = "run" /\ T[y].at \in {"called", "start"})
  BY <1>1, <1>2 DEF Fits
<1>6. FrameOk(T, R[1], 1)
  BY <1>2, <1>3 DEF Stacked
<1>7. t \in Below[y] /\ (t = y => R[1][1] = "after") /\ y \in Task
  BY <1>1, <1>2, <1>3 DEF Under
<1>8. y = t => R[1][1] = "after" /\ T[t].driven /\ ~T[t].forwarded
  BY <1>6, <1>7 DEF FrameOk
<1>9. y # t => p \in Below[y]
  BY <1>7, BelowKin
<1>10. ASSUME NEW j \in 1 .. Len(R), j # 1 PROVE Under(R[1], R[j])
  <2>1. j \in 1 + 1 .. Len(R)
    BY <1>10
  <2> QED
    BY <1>2, <1>3, <2>1 DEF Stacked
<1>11. ASSUME NEW j \in 1 .. Len(R), R[j][2] = p, y # t
       PROVE  Above(R, p, j)
  <2>1. CASE j = 1
    BY <1>11, <2>1 DEF Above
  <2>2. CASE j # 1
    <3>1. y \in Below[p] /\ (y = p => R[1][1] = "run" /\ R[j][1] = "after")
      BY <1>10, <1>11, <2>2 DEF Under
    <3>2. y = p
      BY <1>4, <1>7, <1>9, <1>11, <3>1, BelowAnti
    <3> QED
      BY <3>1, <3>2 DEF Above
  <2> QED
    BY <2>1, <2>2
<1>12. ASSUME NEW j \in 1 .. Len(R), R[j][2] = t PROVE j = 1 /\ R[j][1] = "after"
  <2>1. R[j][1] = "after"
    BY <1>1, <1>2, <1>12 DEF Under
  <2>2. ASSUME j # 1 PROVE FALSE
    <3>1. y \in Below[t] /\ (y = t => R[1][1] = "run")
      BY <1>10, <1>12, <2>2 DEF Under
    <3>2. y = t
      BY <1>7, <3>1, BelowAnti
    <3> QED
      BY <1>8, <3>1, <3>2
  <2> QED
    BY <2>1, <2>2
<1> QED
  BY <1>3, <1>4, <1>5, <1>7, <1>8, <1>9, <1>11, <1>12

\* No task that is forwarded runs: who awaits it is past calling it, and not yet its awaiter.
LEMMA TopNotForwarded ==
  ASSUME NEW T, NEW t \in Task, NEW R \in Seq(Frame), NEW b, Well(T, Push(Run(t), R), b)
  PROVE  ~T[t].forwarded
<1> DEFINE S == Push(Run(t), R)
           p == Parent(t)
<1>1. SUFFICES ASSUME T[t].forwarded PROVE FALSE
  OBVIOUS
<1>0. /\ Records(T) /\ \A x \in Task : Framed(T, S, x) /\ RecordOk(T, x)
      /\ \A x \in Task : \A i \in 1 .. Len(Kids[x]) : Link(T, x, i)
      /\ T \in [Task -> Record]
  BY Parts
<1>2. t # Root
  BY <1>0, <1>1 DEF RecordOk
<1>3. p \in Task /\ t \in Kin(p) /\ p # t
  BY <1>2, HasParent, NoCycle, BelowTask
<1>4. T[p].at = "asked"
  <2>1. PICK i \in 1 .. Len(Kids[p]) : t = Kids[p][i]
    BY <1>3 DEF Kin
  <2> QED
    BY <1>0, <1>1, <1>3, <2>1 DEF Link
<1>5. On(S, "run", p)
  BY <1>0, <1>3, <1>4 DEF Framed, Awake
<1>6. Run(t) \in Frame /\ Run(t) = <<"run", t>>
  BY DEF Run, Frame
<1>7. On(R, "run", p)
  BY <1>3, <1>5, <1>6, PushOn
<1>8. PICK j \in 1 .. Len(R) : R[j] = <<"run", p>>
  BY <1>7 DEF On
<1>9. R # <<>> /\ R[j][2] = p /\ R[j][1] = "run"
  BY <1>8, EmptySeq
<1>10. R[1][2] # t
  BY <1>1, <1>2, <1>9, Caller
<1>11. R[1][2] = p /\ j = 1
  <2>1. Above(R, p, j)
    BY <1>2, <1>9, <1>10, Caller
  <2> QED
    BY <1>9, <2>1 DEF Above
<1>12. T[p].at \in {"called", "start"}
  <2>1. R[1][1] = "after" \/ (R[1][1] = "run" /\ T[R[1][2]].at \in {"called", "start"})
    BY <1>2, <1>9, Caller
  <2> QED
    BY <1>9, <1>11, <2>1
<1> QED
  BY <1>4, <1>12

\* The record of a coroutine that ended.
Ended(T, U, t) ==
  /\ U \in [Task -> Record] /\ \A x \in Task \ {t} : U[x] = T[x]
  /\ U[t].at = "done" /\ ~U[t].forward /\ ~U[t].resolving
  /\ U[t].awaiter = T[t].awaiter /\ U[t].forwarded = T[t].forwarded /\ U[t].driven = T[t].driven

\* What the end of a coroutine and perhaps the resumption of its awaiter leave of the records.
LEMMA EndedRecords ==
  ASSUME NEW T, NEW t \in Task, NEW R \in Seq(Frame), NEW b, Well(T, Push(Run(t), R), b), t # Root,
         \A c \in Kin(t) : T[c].at = "none", NEW U, Ended(T, U, t)
  PROVE  Records(U)
<1>0. /\ Records(T) /\ \A x \in Task : RecordOk(T, x)
      /\ \A x \in Task : \A i \in 1 .. Len(Kids[x]) : Link(T, x, i)
  BY Parts
<1>1. ~T[t].forwarded /\ T[t].at \in Awake
  <2>1. Run(t) \in Frame /\ Run(t)[1] = "run" /\ Run(t)[2] = t
    BY DEF Run, Frame
  <2>2. FrameOk(T, Run(t), 1)
    BY <2>1, PopStacked, Parts
  <2> QED
    BY <2>1, <2>2, TopNotForwarded DEF FrameOk
<1>2. ASSUME NEW x \in Task PROVE RecordOk(U, x)
  <2>1. CASE x = t
    BY <1>0, <2>1 DEF Ended, RecordOk, With, Task
  <2>2. CASE x # t
    BY <1>0, <2>2 DEF Ended, RecordOk
  <2> QED
    BY <2>1, <2>2
<1>3. ASSUME NEW x \in Task, NEW i \in 1 .. Len(Kids[x]) PROVE Link(U, x, i)
  <2> DEFINE d == Kids[x][i]
  <2>1. Link(T, x, i) /\ d \in Kin(x) /\ d \in Task /\ d # x /\ RecordOk(T, d)
    BY <1>0, KinFacts, NoCycle, BelowTask
  <2>2. CASE x = t
    <3>1. U[d] = T[d] /\ T[d] = Absent
      BY <2>1, <2>2 DEF Ended, RecordOk
    <3>2. T[d].at = "none" /\ T[d].awaiter = "none" /\ ~T[d].forwarded
      BY <3>1 DEF Absent
    <3> QED
      BY <2>2, <3>1, <3>2 DEF Link, Ended, With, Bare
  <2>3. CASE d = t
    <3>1. U[x] = T[x] /\ U[d].at = "done" /\ U[d].awaiter = T[d].awaiter /\ ~U[d].forwarded
      BY <1>1, <2>1, <2>3 DEF Ended
    <3>2. T[d].at \notin {"none", "done"}
      BY <1>1, <2>3 DEF Awake
    <3> QED
      BY <2>1, <3>1, <3>2 DEF Link, Bare
  <2>4. CASE x # t /\ d # t
    BY <2>1, <2>4 DEF Ended, Link, Bare
  <2> QED
    BY <2>2, <2>3, <2>4
<1> QED
  BY <1>2, <1>3 DEF Records

\* A coroutine ends, and nobody is resumed.
LEMMA EndsAlone ==
  ASSUME NEW T, NEW t \in Task, NEW R \in Seq(Frame), NEW b, Well(T, Push(Run(t), R), b), t # Root,
         \A c \in Kin(t) : T[c].at = "none", \A r \in Race : t \in Below[r] \ {r} => Chosen(T, r, t),
         NEW U, Ended(T, U, t), T[t].awaiter # "task" \/ T[t].driven
  PROVE  Well(U, R, b)
<1> DEFINE S == Push(Run(t), R)
           f == Run(t)
           p == Parent(t)
<1>0. /\ T \in [Task -> Record] /\ S \in Seq(Frame) /\ b \in BOOLEAN
      /\ Records(T) /\ Stacked(T, S) /\ \A x \in Task : Framed(T, S, x) /\ RecordOk(T, x)
      /\ \A x \in Task : \A i \in 1 .. Len(Kids[x]) : Link(T, x, i)
      /\ \A r \in Race : \A x \in Below[r] \ {r} : Raced(T, S, r, x)
  BY Parts
<1>1. f \in Frame /\ f = <<"run", t>> /\ f[1] = "run" /\ f[2] = t
  BY DEF Run, Frame
<1>2. Records(U) /\ U \in [Task -> Record]
  BY EndedRecords DEF Ended
<1> HIDE DEF f
<1>3. Stacked(T, Push(f, R))
  BY <1>0 DEF f
<1>4. T[t].at \in Awake /\ T[t].at \notin {"none", "done", "child"}
  <2>1. FrameOk(T, f, 1)
    BY <1>1, <1>3, PopStacked
  <2> QED
    BY <1>1, <2>1 DEF FrameOk, Awake
<1>5. Rested(T, U, f, R)
  <2>1. Steady(T, U, f)
    BY <1>1, BelowTask DEF Steady, Ended
  <2> QED
    BY <1>1, <1>3, <2>1, Rest
<1>6. \A k, x : On(S, k, x) <=> (k = "run" /\ x = t) \/ On(R, k, x)
  BY <1>1, PushOn DEF f
<1>7. \A x \in Task : x # t => U[x] = T[x] /\ Cur(U, x) = Cur(T, x)
  BY DEF Ended, Cur
<1>8. p \in Task /\ t \in Kin(p) /\ p # t
  BY HasParent, NoCycle, BelowTask
<1> HIDE DEF S
<1>9. ASSUME T[p].at = "child", Cur(T, p) = t PROVE On(R, "fwd", p)
  <2>1. T[t].awaiter = "task"
    <3>1. T[p].index \in 1 .. Len(Kids[p])
      BY <1>0, <1>8, <1>9 DEF RecordOk, With
    <3>2. Link(T, p, T[p].index)
      BY <1>0, <1>8, <3>1
    <3> QED
      BY <1>9, <3>2 DEF Link, Cur
  <2>2. On(R, "after", t)
    <3>1. T[t].driven
      BY <2>1
    <3>2. On(S, "after", t)
      BY <1>0, <3>1 DEF Framed
    <3> QED
      BY <1>6, <3>2
  <2>3. PICK j \in 1 .. Len(R) : R[j] = <<"after", t>>
    BY <2>2 DEF On
  <2>4. R # <<>> /\ R[j][2] = t
    BY <2>3, EmptySeq
  <2>5. j = 1
    BY <2>4, Caller
  <2>6. Stacked(T, R) /\ Len(R) \in Nat
    BY <1>1, <1>3, PopStacked, LenProperties
  <2>7. R[Len(R)][1] = "run" /\ R[1][1] = "after"
    BY <2>3, <2>4, <2>5, <2>6 DEF Stacked
  <2>8. 1 \in 1 .. Len(R) - 1
    <3>1. Len(R) # 1
      BY <2>7
    <3>2. 1 \in 1 .. Len(R)
      BY <2>3, <2>5
    <3>3. \A n \in Nat : n # 1 /\ 1 \in 1 .. n => 1 \in 1 .. n - 1
      OBVIOUS
    <3>4. Len(R) \in Nat
      BY <2>6
    <3> QED
      BY <3>1, <3>2, <3>3, <3>4
  <2>9. Fits(T, R[1], R[1 + 1])
    BY <2>6, <2>8 DEF Stacked
  <2>10. /\ R[2][1] \in {"run", "fwd"} /\ t \in Kin(R[2][2])
         /\ R[2][1] = "run" => T[R[2][2]].at \in {"asked", "found"}
    BY <2>3, <2>5, <2>7, <2>9 DEF Fits
  <2>11. R[2] \in Frame /\ 2 \in 1 .. Len(R)
    BY <2>6, <2>8, StackForm
  <2>12. R[2][2] \in Task /\ R[2] = <<R[2][1], R[2][2]>>
    BY <2>11 DEF Frame
  <2>13. R[2][2] = p
    BY <2>10, <2>12, KinFacts
  <2>14. R[2] = <<"fwd", p>>
    BY <1>9, <2>10, <2>12, <2>13
  <2> QED
    BY <2>11, <2>14 DEF On
<1>10. ASSUME NEW x \in Task PROVE Framed(U, R, x)
  <2>1. Framed(T, S, x) /\ RecordOk(T, x)
    BY <1>0
  <2>2. CASE x = t
    BY <1>6, <2>1, <2>2 DEF Framed, Ended, Awake
  <2>3. CASE x # t
    <3>1. U[x] = T[x] /\ Cur(U, x) = Cur(T, x)
      BY <1>7, <2>3
    <3>2. T[x].at = "child" => Cur(T, x) \in Kin(x)
      BY <2>1, KinFacts DEF RecordOk, With, Cur
    <3>3. CASE x = p /\ Cur(T, x) = t
      BY <1>6, <1>9, <2>1, <2>3, <3>1, <3>3 DEF Framed
    <3>4. CASE ~(x = p /\ Cur(T, x) = t)
      <4>1. T[x].at = "child" => Cur(T, x) # t /\ Cur(T, x) \in Task
        BY <3>2, <3>4, KinFacts
      <4>2. T[x].at = "child" => U[Cur(U, x)].at = T[Cur(T, x)].at
        BY <1>7, <3>1, <4>1
      <4> QED
        BY <1>6, <2>1, <2>3, <3>1, <4>2 DEF Framed
    <3> QED
      BY <3>3, <3>4
  <2> QED
    BY <2>2, <2>3
<1>11. Returned(U, R, b)
  <2>1. CASE R = <<>>
    BY <2>1 DEF Returned
  <2>2. CASE R # <<>>
    <3>1. R[1][1] = "after" \/ (R[1][1] = "run" /\ U[R[1][2]].at \in {"called", "start"})
      BY <1>1, <1>5, <2>2 DEF Rested, Fits
    <3> QED
      BY <3>1 DEF Returned
  <2> QED
    BY <2>1, <2>2
<1>12. ASSUME NEW r \in Race, NEW x \in Below[r] \ {r} PROVE Raced(U, R, r, x)
  <2>1. Raced(T, S, r, x) /\ r \in Task /\ x \in Task
    BY <1>0, BelowTask DEF Task
  <2>2. CASE r = t
    <3>1. PICK c \in Kin(t) : x \in Below[c]
      BY <2>1, <2>2, BelowKin
    <3>2. T[x] = Absent
      BY <1>0, <3>1, KinFacts, Vacant
    <3>3. U[x].at \notin Advanced
      BY <1>7, <2>1, <2>2, <3>2 DEF Absent, Advanced
    <3>4. \A k : ~On(R, k, x)
      BY <1>1, <1>3, <2>2, Deeper
    <3> QED
      BY <3>3, <3>4 DEF Raced
  <2>3. CASE r # t
    <3>1. Chosen(T, r, x) => Chosen(U, r, x)
      BY <1>7, <2>1, <2>3 DEF Chosen
    <3>2. U[x].at \in Advanced => Chosen(T, r, x)
      <4>1. CASE x = t
        BY <2>1, <2>3, <4>1
      <4>2. CASE x # t
        BY <1>7, <2>1, <4>2 DEF Raced
      <4> QED
        BY <4>1, <4>2
    <3>3. U[x].forwarded = T[x].forwarded
      BY <2>1 DEF Ended
    <3> QED
      BY <1>6, <2>1, <3>1, <3>2, <3>3 DEF Raced
  <2> QED
    BY <2>2, <2>3
<1> QED
  BY <1>0, <1>2, <1>5, <1>10, <1>11, <1>12 DEF Well, Inv, Typed, Rested

\* A coroutine ends, and the one that awaits it is resumed.
LEMMA EndsResumed ==
  ASSUME NEW T, NEW t \in Task, NEW R \in Seq(Frame), NEW b, Well(T, Push(Run(t), R), b), t # Root,
         \A c \in Kin(t) : T[c].at = "none", \A r \in Race : t \in Below[r] \ {r} => Chosen(T, r, t),
         NEW U, Ended(T, U, t), T[t].awaiter = "task", ~T[t].driven,
         NEW p, p = Parent(t), NEW W \in [Task -> Record], \A x \in Task \ {p} : W[x] = U[x],
         W[p] = [T[p] EXCEPT !.at = "got"]
  PROVE  Well(W, Push(Run(p), R), b) /\ T[p].at = "child"
<1> DEFINE S == Push(Run(t), R)
           f == Run(t)
           g == Run(p)
           V == Push(g, R)
<1>0. /\ T \in [Task -> Record] /\ S \in Seq(Frame) /\ b \in BOOLEAN
      /\ Records(T) /\ Stacked(T, S) /\ \A x \in Task : Framed(T, S, x) /\ RecordOk(T, x) /\ T[x] \in Record
      /\ \A x \in Task : \A i \in 1 .. Len(Kids[x]) : Link(T, x, i)
      /\ \A r \in Race : \A x \in Below[r] \ {r} : Raced(T, S, r, x)
  BY Parts
<1>1. p \in Task /\ t \in Kin(p) /\ p # t
  BY HasParent, NoCycle, BelowTask
<1>2. /\ f \in Frame /\ f = <<"run", t>> /\ f[1] = "run" /\ f[2] = t
      /\ g \in Frame /\ g = <<"run", p>> /\ g[1] = "run" /\ g[2] = p
  BY <1>1 DEF Run, Frame
<1> HIDE DEF f, g
<1>3. Stacked(T, Push(f, R))
  BY <1>0 DEF f
<1>4. T[t].at \in Awake /\ T[t].at \notin {"none", "done", "child"}
  <2>1. FrameOk(T, f, 1)
    BY <1>2, <1>3, PopStacked
  <2> QED
    BY <1>2, <2>1 DEF FrameOk, Awake
<1>5. p \notin Race /\ T[p].at = "child" /\ Cur(T, p) = t /\ (p \in Forwarding => T[p].forward)
  <2>1. p \notin Race /\ T[p].at \in {"child", "got"} /\ t = Cur(T, p) /\ (p \in Forwarding => T[p].forward)
    BY <1>0, <1>1, Awaited
  <2>2. T[p].at # "got"
    <3>1. ASSUME T[p].at = "got" PROVE FALSE
      <4>1. T[p].index \in 1 .. Len(Kids[p])
        BY <1>0, <1>1, <3>1 DEF RecordOk, With
      <4>2. Link(T, p, T[p].index)
        BY <1>0, <1>1, <4>1
      <4> QED
        BY <1>4, <2>1, <3>1, <4>2 DEF Link, Cur
    <3> QED
      BY <3>1
  <2> QED
    BY <2>1, <2>2
<1>6. /\ W[p].at = "got" /\ W[p].resolving = T[p].resolving /\ W[p].forwarded = T[p].forwarded
      /\ W[p].driven = T[p].driven /\ W[p].awaiter = T[p].awaiter /\ W[p].forward = T[p].forward
      /\ W[p].index = T[p].index
  <2>1. T[p] \in Record
    BY <1>0, <1>1
  <2> QED
    BY <2>1 DEF Record
<1>7. /\ \A x \in Task : x # t /\ x # p => W[x] = T[x]
      /\ W[t] = U[t] /\ U[p] = T[p]
      /\ W[t].at = "done" /\ ~W[t].forward /\ ~W[t].resolving
      /\ W[t].awaiter = T[t].awaiter /\ W[t].forwarded = T[t].forwarded /\ W[t].driven = T[t].driven
  BY <1>1 DEF Ended
<1>8. Records(U)
  BY EndedRecords
<1>9. Records(W)
  <2>1. ASSUME NEW x \in Task PROVE RecordOk(W, x)
    <3>1. RecordOk(U, x)
      BY <1>8 DEF Records
    <3>2. CASE x = p
      <4>1. RecordOk(T, p)
        BY <1>0, <1>1, <1>5
      <4>2. T[p].at = "child" /\ p \notin Race
        BY <1>5
      <4>3. RecordOk(W, p)
        BY <1>6, <4>1, <4>2 DEF RecordOk, With
      <4> QED
        BY <3>2, <4>3
    <3>3. CASE x # p
      BY <3>1, <3>3 DEF RecordOk
    <3> QED
      BY <3>2, <3>3
  <2>2. ASSUME NEW x \in Task, NEW i \in 1 .. Len(Kids[x]) PROVE Link(W, x, i)
    <3> DEFINE d == Kids[x][i]
    <3>1. Link(U, x, i) /\ d \in Task /\ d \in Kin(x) /\ d # x
      BY <1>8, KinFacts, NoCycle, BelowTask DEF Records
    <3>2. CASE x = p
      <4>1. W[d] = U[d]
        BY <3>1, <3>2
      <4>2. i = T[p].index => d = t
        BY <1>5, <3>2 DEF Cur
      <4>3. Link(U, p, i) /\ U[p].at = "child" /\ U[p].index = W[p].index /\ U[p].forward = W[p].forward
            /\ p \notin Race /\ (i = W[p].index => W[d].at = "done")
        BY <1>5, <1>6, <1>7, <3>1, <3>2, <4>2
      <4>4. Link(W, p, i)
        BY <1>6, <3>2, <4>1, <4>3 DEF Link, With, Bare
      <4> QED
        BY <3>2, <4>4
    <3>3. CASE x # p /\ d = p
      <4>1. W[x] = U[x]
        BY <3>3
      <4>2. /\ U[d].at = "child" /\ W[d].at = "got" /\ W[d].awaiter = U[d].awaiter
            /\ W[d].forwarded = U[d].forwarded
        <5>1. U[d] = T[p] /\ W[d] = W[p]
          BY <1>7, <3>3
        <5> QED
          BY <1>5, <1>6, <5>1
      <4> QED
        BY <3>1, <4>1, <4>2 DEF Link, Bare
    <3>4. CASE x # p /\ d # p
      BY <3>1, <3>4 DEF Link, Bare
    <3> QED
      BY <3>2, <3>3, <3>4
  <2> QED
    BY <2>1, <2>2 DEF Records
<1>10. \A j \in 1 .. Len(R) : R[j] \in Frame /\ R[j][2] \in Task
  <2>1. \A h \in Frame : h[2] \in Task
    BY DEF Frame
  <2>2. \A j \in 1 .. Len(R) : R[j] \in Frame
    BY StackForm
  <2> QED
    BY <2>1, <2>2
<1>11. ASSUME R # <<>> PROVE R[1][2] # t /\ 1 \in 1 .. Len(R)
  <2>1. R[1][2] = t => R[1][1] = "after" /\ T[t].driven /\ ~T[t].forwarded
    BY <1>11, Caller
  <2>2. 1 \in 1 .. Len(R)
    BY <1>11, EmptySeq
  <2> QED
    BY <2>1, <2>2
<1>12. ASSUME R # <<>>
       PROVE  /\ R[1][1] = "after" \/ (R[1][1] = "run" /\ T[R[1][2]].at \in {"called", "start"})
              /\ p \in Below[R[1][2]]
  <2>1. R[1][1] = "after" \/ (R[1][1] = "run" /\ T[R[1][2]].at \in {"called", "start"})
    BY <1>12, Caller
  <2>2. R[1][2] # t => p \in Below[R[1][2]]
    BY <1>12, Caller
  <2> QED
    BY <1>11, <1>12, <2>1, <2>2
<1>13. ASSUME NEW j \in 1 .. Len(R)
       PROVE  R[j][2] # t /\ (R[j][2] = p => R[j][1] = "after")
  <2>0. R # <<>>
    BY <1>13, EmptySeq
  <2>1. R[j][2] # t
    <3>1. R[j][2] = t => j = 1 /\ R[j][1] = "after"
      BY <2>0, Caller
    <3> QED
      BY <1>11, <2>0, <3>1
  <2>2. ASSUME R[j][2] = p PROVE R[j][1] = "after"
    <3>1. R[j][2] = p /\ R[1][2] # t => Above(R, p, j)
      BY <2>0, Caller
    <3>2. Above(R, p, j)
      BY <1>11, <2>0, <2>2, <3>1
    <3> QED
      BY <1>12, <2>0, <3>2, <1>5 DEF Above
  <2> QED
    BY <2>1, <2>2
<1>14. Stacked(T, R)
  BY <1>2, <1>3, PopStacked
<1>15. ASSUME NEW j \in 1 .. Len(R)
       PROVE  Alike(T, W, R[j][2]) \/ (R[j][1] = "after" /\ FrameOk(W, R[j], j))
  <2>1. CASE R[j][2] # p
    <3>1. W[R[j][2]] = T[R[j][2]]
      BY <1>7, <1>10, <1>13, <2>1
    <3> QED
      BY <3>1 DEF Alike
  <2>2. CASE R[j][2] = p
    <3>1. FrameOk(T, R[j], j)
      BY <1>14 DEF Stacked
    <3>2. R[j][1] = "after"
      BY <1>13, <2>2
    <3> QED
      BY <1>6, <2>2, <3>1, <3>2 DEF FrameOk
  <2> QED
    BY <2>1, <2>2
<1>16. Stacked(W, R)
  BY <1>14, <1>15, SteadyStacked
<1>17. V \in Seq(Frame) /\ V[1] = g /\ Stacked(W, V)
  <2>1. FrameOk(W, g, 1)
    BY <1>2, <1>6 DEF FrameOk, Awake
  <2>2. ASSUME R # <<>> PROVE Calling(R[1]) /\ Fits(W, g, R[1]) /\ Under(g, R[1])
    <3>1. R[1][2] \in Task /\ R[1][2] # t /\ 1 \in 1 .. Len(R)
      BY <1>10, <1>11, <2>2
    <3>2. R[1][1] = "after" \/ (R[1][1] = "run" /\ W[R[1][2]].at \in {"called", "start"})
      BY <1>5, <1>7, <1>12, <2>2, <3>1
    <3>3. R[1][2] = p => R[1][1] = "after"
      BY <1>13, <3>1
    <3> QED
      BY <1>2, <1>12, <2>2, <3>2, <3>3 DEF Calling, Fits, Under
  <2> QED
    BY <1>2, <1>16, <2>1, <2>2, PushFacts, PushStacked
<1>18. \A k, x : On(V, k, x) <=> (k = "run" /\ x = p) \/ On(R, k, x)
  BY <1>2, PushOn
<1>19. \A k, x : On(S, k, x) <=> (k = "run" /\ x = t) \/ On(R, k, x)
  BY <1>2, PushOn DEF f
<1> HIDE DEF S, V
<1>20. ASSUME NEW x \in Task PROVE Framed(W, V, x)
  <2>1. Framed(T, S, x) /\ RecordOk(T, x)
    BY <1>0
  <2>2. CASE x = t
    BY <1>7, <2>2 DEF Framed, Awake
  <2>3. CASE x = p
    BY <1>5, <1>6, <1>18, <1>19, <2>1, <2>3 DEF Framed
  <2>4. CASE x # t /\ x # p
    <3>1. W[x] = T[x] /\ Cur(W, x) = Cur(T, x)
      BY <1>7, <2>4 DEF Cur
    <3>2. ASSUME T[x].at = "child" PROVE W[Cur(T, x)].at = "done" => T[Cur(T, x)].at = "done"
      <4>1. Cur(T, x) \in Kin(x)
        BY <2>1, <3>2, KinFacts DEF RecordOk, With, Cur
      <4>2. Cur(T, x) # t /\ Cur(T, x) \in Task
        BY <1>1, <2>4, <4>1, KinFacts
      <4> QED
        BY <1>6, <1>7, <4>2
    <3> QED
      BY <1>18, <1>19, <2>1, <2>4, <3>1, <3>2 DEF Framed
  <2> QED
    BY <2>2, <2>3, <2>4
<1>21. Returned(W, V, b)
  BY <1>2, <1>6, <1>17 DEF Returned
<1>22. ASSUME NEW r \in Race, NEW x \in Below[r] \ {r} PROVE Raced(W, V, r, x)
  <2>1. Raced(T, S, r, x) /\ r \in Task /\ x \in Task /\ r # p
    BY <1>0, <1>5, BelowTask DEF Task
  <2>2. CASE r = t
    <3>1. PICK c \in Kin(t) : x \in Below[c]
      BY <2>1, <2>2, BelowKin
    <3>2. T[x] = Absent
      BY <1>0, <3>1, KinFacts, Vacant
    <3>3. T[x].at = "none"
      BY <3>2 DEF Absent
    <3>4. W[x].at \notin Advanced
      BY <1>5, <1>7, <2>1, <2>2, <3>3 DEF Advanced
    <3>5. \A k : ~On(R, k, x)
      BY <1>2, <1>3, <2>2, Deeper
    <3> QED
      BY <1>18, <3>4, <3>5 DEF Raced
  <2>3. CASE r # t
    <3>1. \A y : Chosen(T, r, y) => Chosen(W, r, y)
      BY <1>7, <2>1, <2>3 DEF Chosen, Cur
    <3>2. CASE x = t
      <4>1. Chosen(T, r, x)
        BY <2>1, <2>3, <3>2
      <4> QED
        BY <3>1, <4>1 DEF Raced
    <3>3. CASE x = p
      <4>1. t \in Below[r] /\ Chosen(T, r, t)
        BY <1>1, <2>1, <2>3, <3>3, BelowTask
      <4>2. Cur(T, r) \in Kin(r) /\ t \in Below[Cur(T, r)]
        BY <1>0, <2>1, <4>1, KinFacts DEF RecordOk, Chosen, Cur
      <4>3. t # Cur(T, r)
        BY <2>1, <4>2, KinFacts
      <4>4. p \in Below[Cur(T, r)]
        BY <2>1, <4>2, <4>3, KinFacts, BelowKin
      <4>5. Chosen(T, r, p)
        BY <4>1, <4>4 DEF Chosen
      <4> QED
        BY <3>1, <3>3, <4>5 DEF Raced
    <3>4. CASE x # t /\ x # p
      BY <1>7, <1>18, <1>19, <2>1, <3>1, <3>4 DEF Raced
    <3> QED
      BY <3>2, <3>3, <3>4
  <2> QED
    BY <2>2, <2>3
<1>23. Well(W, V, b)
  BY <1>0, <1>9, <1>17, <1>20, <1>21, <1>22 DEF Well, Inv, Typed
<1> QED
  BY <1>5, <1>23 DEF V, g

\* A record that is set to what it is stays as it is.
LEMMA SameRecord ==
  ASSUME NEW r \in Record, NEW a, NEW b, a = r.resolving, b = r.at
  PROVE  [r EXCEPT !.resolving = a, !.at = b] = r
  BY DEF Record

\* What resolution_point changes.
LEMMA ResolvableNear ==
  ASSUME NEW T \in [Task -> Record], NEW t \in Task, Records(T),
         T[t].at \in {"done", "resolve"} \/ T[t].forward
  PROVE  Resolvable(T, t) \in [Task -> Record] /\ Near(T, Resolvable(T, t))
<1> DEFINE D == Resolvable(T, t)
           F == Forwarders(T, t)
           K == {Parent(x) : x \in {y \in F : T[y].awaiter = "event"}} \cap Race
<1>1. \A x \in F : x # t => T[x].forward
  BY Chain
<1>2. \A x \in F : x \in Task /\ (T[x].at \in {"done", "resolve"} \/ T[x].forward) /\ T[x].at # "none"
  <2>1. TAKE x \in F
  <2>2. x \in Task
    BY Chain
  <2>3. RecordOk(T, x)
    BY <2>2 DEF Records
  <2> QED
    BY <1>1, <2>2, <2>3 DEF RecordOk
<1> HIDE DEF F, K
<1>3. D = [x \in Task |-> [T[x] EXCEPT !.resolving = T[x].resolving \/ x \in F,
                                       !.at = IF x \in K /\ T[x].at = "asleep" THEN "woken" ELSE T[x].at]]
  BY DEF Resolvable, F, K
<1> HIDE DEF D
<1>4. ASSUME NEW x \in Task
      PROVE  /\ D[x] \in Record
             /\ D[x].index = T[x].index /\ D[x].forward = T[x].forward /\ D[x].forwarded = T[x].forwarded
             /\ D[x].driven = T[x].driven /\ D[x].awaiter = T[x].awaiter /\ D[x].value = T[x].value
             /\ D[x].at = T[x].at \/ (T[x].at = "asleep" /\ D[x].at = "woken")
             /\ D[x].resolving => T[x].resolving \/ x \in F
             /\ T[x].at = "none" => D[x] = T[x]
  <2>1. T[x] \in Record
    OBVIOUS
  <2>2. D[x] = [T[x] EXCEPT !.resolving = T[x].resolving \/ x \in F,
                            !.at = IF x \in K /\ T[x].at = "asleep" THEN "woken" ELSE T[x].at]
    BY <1>3
  <2>3. (T[x].resolving \/ x \in F) \in BOOLEAN
        /\ (IF x \in K /\ T[x].at = "asleep" THEN "woken" ELSE T[x].at) \in Ats
    BY <2>1 DEF Record, Ats
  <2>4. /\ D[x] \in Record
        /\ D[x].index = T[x].index /\ D[x].forward = T[x].forward /\ D[x].forwarded = T[x].forwarded
        /\ D[x].driven = T[x].driven /\ D[x].awaiter = T[x].awaiter /\ D[x].value = T[x].value
        /\ D[x].at = (IF x \in K /\ T[x].at = "asleep" THEN "woken" ELSE T[x].at)
        /\ D[x].resolving = (T[x].resolving \/ x \in F)
    BY <2>1, <2>2, <2>3 DEF Record
  <2>5. ASSUME T[x].at = "none" PROVE D[x] = T[x]
    <3>1. x \notin F
      BY <1>2, <2>5
    <3>2. (T[x].resolving \/ x \in F) = T[x].resolving
      BY <2>1, <3>1, Fields
    <3>3. (IF x \in K /\ T[x].at = "asleep" THEN "woken" ELSE T[x].at) = T[x].at
      BY <2>5
    <3> QED
      BY <2>1, <2>2, <3>2, <3>3, SameRecord
  <2> QED
    BY <2>4, <2>5
<1>5. D \in [Task -> Record]
  BY <1>3, <1>4
<1>6. Near(T, D)
  BY <1>2, <1>4 DEF Near
<1> QED
  BY <1>5, <1>6 DEF D

\* A resolution point is announced.
LEMMA Announce ==
  ASSUME NEW T, NEW S, NEW b, Well(T, S, b), NEW t \in Task,
         T[t].at \in {"done", "resolve"} \/ T[t].forward,
         S # <<>> => S[1][1] # "run" \/ T[S[1][2]].at # "asked"
  PROVE  Well(Resolvable(T, t), S, b)
<1>1. T \in [Task -> Record] /\ Records(T)
  BY Parts
<1>2. Resolvable(T, t) \in [Task -> Record] /\ Near(T, Resolvable(T, t))
  BY <1>1, ResolvableNear
<1> QED
  BY <1>2, Signal

\* What a suspended coroutine returns to does not look at the result of a resolve().
Returns(U, R, t) ==
  R # <<>> => /\ R[1][1] # "run" \/ U[R[1][2]].at # "asked"
              /\ R[1][1] = "after" \/ (R[1][1] = "run" /\ U[R[1][2]].at \in {"called", "start"})
              /\ R[1] \in Frame /\ Under(Run(t), R[1])

\* What a task leaves behind when it returns does not speak of what was below it.
LEMMA Destroyed ==
  ASSUME NEW T, NEW t \in Task, NEW R \in Seq(Frame), NEW b, Well(T, Push(Run(t), R), b), NEW U,
         \A x \in Task : x \notin Below[t] => U[x] = T[x]
  PROVE  Returns(U, R, t)
<1> DEFINE f == Run(t)
<1>1. SUFFICES ASSUME R # <<>>
               PROVE  /\ R[1][1] # "run" \/ U[R[1][2]].at # "asked"
                      /\ R[1][1] = "after" \/ (R[1][1] = "run" /\ U[R[1][2]].at \in {"called", "start"})
                      /\ R[1] \in Frame /\ Under(Run(t), R[1])
  BY DEF Returns
<1>2. f \in Frame /\ f[1] = "run" /\ f[2] = t /\ Stacked(T, Push(f, R))
  BY Parts DEF Run, Frame
<1> HIDE DEF f
<1>3. Fits(T, f, R[1])
  BY <1>1, <1>2, PopStacked
<1>4. 1 \in 1 .. Len(R) /\ R[1] \in Frame
  BY <1>1, StackForm, EmptySeq
<1>5. \A j \in 1 .. Len(R) : Under(f, R[j]) /\ Calling(R[j])
  BY <1>2, PopStacked
<1>6. Under(f, R[1])
  BY <1>4, <1>5
<1>7. R[1][1] = "after" \/ (R[1][1] = "run" /\ T[R[1][2]].at \in {"called", "start"})
  BY <1>2, <1>3 DEF Fits
<1>8. R[1][2] \in Task /\ t \in Below[R[1][2]] /\ (R[1][2] = t => R[1][1] = "after")
  BY <1>2, <1>4, <1>6 DEF Under, Frame
<1>9. R[1][2] # t => R[1][2] \notin Below[t]
  BY <1>8, BelowAnti
<1>10. R[1][1] = "after" \/ (R[1][1] = "run" /\ U[R[1][2]].at \in {"called", "start"})
  BY <1>7, <1>8, <1>9
<1> QED
  BY <1>4, <1>6, <1>10 DEF f

\* co_return: T is the state in which the coroutine's children are gone.
LEMMA Finishes ==
  ASSUME NEW T, NEW t \in Task, NEW R \in Seq(Frame), NEW b, Well(T, Push(Run(t), R), b), t # Root,
         \A c \in Kin(t) : T[c].at = "none", \A r \in Race : t \in Below[r] \ {r} => Chosen(T, r, t),
         NEW X \in [Task -> Record], \A x \in Task \ {t} : X[x] = T[x],
         ~X[t].forward, ~X[t].resolving,
         X[t].awaiter = T[t].awaiter, X[t].forwarded = T[t].forwarded, X[t].driven = T[t].driven,
         NEW v \in Nat, stack = Push(Run(t), R), Finish(X, t, v)
  PROVE  Well(task', stack', b)
<1> DEFINE U == [X EXCEPT ![t].at = "done", ![t].value = v]
           D == Resolvable(U, t)
           p == Parent(t)
<1>1. Tail(stack) = R
  BY PushFacts DEF Run, Frame
<1>2. Ended(T, U, t)
  <2>1. X[t] \in Record
    OBVIOUS
  <2>2. U = [X EXCEPT ![t] = [X[t] EXCEPT !.at = "done", !.value = v]]
    OBVIOUS
  <2>3. [X[t] EXCEPT !.at = "done", !.value = v] \in Record
    BY <2>1 DEF Record, Ats
  <2>4. U \in [Task -> Record] /\ U[t] = [X[t] EXCEPT !.at = "done", !.value = v]
        /\ \A x \in Task \ {t} : U[x] = T[x]
    BY <2>2, <2>3
  <2> HIDE DEF U
  <2>5. U[t].at = "done" /\ U[t].forward = X[t].forward /\ U[t].resolving = X[t].resolving
        /\ U[t].awaiter = X[t].awaiter /\ U[t].forwarded = X[t].forwarded /\ U[t].driven = X[t].driven
    BY <2>1, <2>4 DEF Record
  <2> QED
    BY <2>4, <2>5 DEF Ended
<1>3. IF T[t].awaiter = "task" /\ ~T[t].driven
      THEN task' = Resumed(D, p) /\ stack' = <<Run(p)>> \o R
      ELSE task' = D /\ stack' = <<>> \o R
  BY <1>1 DEF Finish, Become
<1> HIDE DEF U, D, p
<1>4. U \in [Task -> Record] /\ Records(U) /\ U[t].at = "done"
  BY <1>2, EndedRecords DEF Ended
<1>5. D \in [Task -> Record] /\ Near(U, D)
  BY <1>4, ResolvableNear DEF D
<1>6. CASE ~(T[t].awaiter = "task" /\ ~T[t].driven)
  <2>1. Well(U, R, b)
    <3>1. T[t].awaiter # "task" \/ T[t].driven
      BY <1>6
    <3> QED
      BY <1>2, <3>1, EndsAlone
  <2>2. R # <<>> => R[1][1] # "run" \/ U[R[1][2]].at # "asked"
    <3>1. \A x \in Task : x \notin Below[t] => U[x] = T[x]
      BY <1>2, BelowTask DEF Ended
    <3> QED
      BY <3>1, Destroyed DEF Returns
  <2>3. Well(D, R, b)
    BY <1>4, <2>1, <2>2, Announce DEF D
  <2>4. task' = D /\ stack' = R
    BY <1>3, <1>6, StackForm
  <2> QED
    BY <2>3, <2>4
<1>7. CASE T[t].awaiter = "task" /\ ~T[t].driven
  <2> DEFINE W == [U EXCEPT ![p] = [T[p] EXCEPT !.at = "got"]]
  <2>1. p \in Task /\ p # t
    BY HasParent, NoCycle, BelowTask DEF p
  <2>2. U[p] = T[p] /\ T[p] \in Record
    BY <1>2, <2>1, Parts DEF Ended
  <2>3. [T[p] EXCEPT !.at = "got"] \in Record /\ [T[p] EXCEPT !.at = "got"].at = "got"
    BY <2>2 DEF Record, Ats, Awake
  <2>4. W \in [Task -> Record] /\ (\A x \in Task \ {p} : W[x] = U[x]) /\ W[p] = [T[p] EXCEPT !.at = "got"]
    BY <1>4, <2>1, <2>3
  <2> HIDE DEF W
  <2>5. T[t].awaiter = "task" /\ ~T[t].driven /\ p = Parent(t)
    BY <1>7 DEF p
  <2>6. Well(W, Push(Run(p), R), b) /\ T[p].at = "child"
    BY <1>2, <2>4, <2>5, EndsResumed
  <2>7. task' = [D EXCEPT ![p].at = Onward(p, D[p].at)] /\ stack' = Push(Run(p), R)
    BY <1>3, <1>7 DEF Resumed, Push
  <2>8. D[p].at = "child" /\ D[p] \in Record
    BY <1>5, <2>1, <2>2, <2>6 DEF Near
  <2>9. task' = [D EXCEPT ![p] = [D[p] EXCEPT !.at = "got"]]
    BY <2>7, <2>8 DEF Onward
  <2>10. [D[p] EXCEPT !.at = "got"] \in Record
    BY <2>8 DEF Record, Ats, Awake
  <2>11. task' \in [Task -> Record] /\ (\A x \in Task \ {p} : task'[x] = D[x])
         /\ task'[p] = [D[p] EXCEPT !.at = "got"]
    BY <1>5, <2>1, <2>9, <2>10
  <2>12. Near(W, task')
    <3> SUFFICES ASSUME NEW x \in Task
                 PROVE  /\ task'[x].index = W[x].index /\ task'[x].forward = W[x].forward
                        /\ task'[x].forwarded = W[x].forwarded
                        /\ task'[x].driven = W[x].driven /\ task'[x].awaiter = W[x].awaiter
                        /\ task'[x].value = W[x].value
                        /\ task'[x].at = W[x].at \/ (W[x].at = "asleep" /\ task'[x].at = "woken")
                        /\ W[x].at = "none" => task'[x] = W[x]
                        /\ task'[x].resolving =>
                             W[x].resolving \/ W[x].at \in {"done", "resolve"} \/ W[x].forward
      BY DEF Near
    <3>2. CASE x # p
      <4>1. task'[x] = D[x] /\ W[x] = U[x]
        BY <2>4, <2>11, <3>2
      <4> QED
        BY <1>5, <4>1 DEF Near
    <3>3. CASE x = p
      <4>1. /\ W[p].at = "got" /\ W[p].index = U[p].index /\ W[p].forward = U[p].forward
            /\ W[p].forwarded = U[p].forwarded /\ W[p].driven = U[p].driven /\ W[p].awaiter = U[p].awaiter
            /\ W[p].value = U[p].value /\ W[p].resolving = U[p].resolving
        BY <2>2, <2>4 DEF Record
      <4>2. /\ task'[p].at = "got" /\ task'[p].index = D[p].index /\ task'[p].forward = D[p].forward
            /\ task'[p].forwarded = D[p].forwarded /\ task'[p].driven = D[p].driven
            /\ task'[p].awaiter = D[p].awaiter
            /\ task'[p].value = D[p].value /\ task'[p].resolving = D[p].resolving
        BY <2>8, <2>11 DEF Record
      <4>3. /\ D[p].index = U[p].index /\ D[p].forward = U[p].forward /\ D[p].forwarded = U[p].forwarded
            /\ D[p].driven = U[p].driven /\ D[p].awaiter = U[p].awaiter /\ D[p].value = U[p].value
            /\ D[p].resolving => U[p].resolving \/ U[p].at \in {"done", "resolve"} \/ U[p].forward
        BY <1>5, <2>1 DEF Near
      <4>4. U[p].at = "child"
        BY <2>2, <2>6
      <4> QED
        BY <3>3, <4>1, <4>2, <4>3, <4>4
    <3> QED
      BY <3>2, <3>3
  <2>13. Push(Run(p), R)[1] = Run(p) /\ W[p].at = "got"
    <3>1. Run(p) \in Frame
      BY <2>1 DEF Run, Frame
    <3>2. Push(Run(p), R)[1] = Run(p)
      BY <3>1, PushFacts
    <3> QED
      BY <2>3, <2>4, <3>2
  <2>14. Push(Run(p), R)[1][1] # "run" \/ W[Push(Run(p), R)[1][2]].at # "asked"
    BY <2>13 DEF Run
  <2>15. Well(task', Push(Run(p), R), b)
    BY <2>6, <2>11, <2>12, <2>14, Signal
  <2> QED
    BY <2>7, <2>15
<1> QED
  BY <1>6, <1>7

\* A task's record with another place and index.
Moved(T, U, t, a, n) ==
  /\ U \in [Task -> Record] /\ \A x \in Task \ {t} : U[x] = T[x]
  /\ U[t].at = a /\ U[t].index = n
  /\ U[t].forward = T[t].forward /\ U[t].resolving = T[t].resolving /\ U[t].value = T[t].value
  /\ U[t].awaiter = T[t].awaiter /\ U[t].forwarded = T[t].forwarded /\ U[t].driven = T[t].driven

\* To move a coroutine is to set where it is and which child it is at.
LEMMA Moves ==
  ASSUME NEW T \in [Task -> Record], NEW t \in Task, NEW a \in Ats, NEW n \in Nat
  PROVE  /\ Moved(T, [T EXCEPT ![t].at = a, ![t].index = n], t, a, n)
         /\ Moved(T, [T EXCEPT ![t].at = a], t, a, T[t].index)
<1>1. T[t] \in Record
  OBVIOUS
<1>2. ASSUME NEW r \in Record, NEW k, NEW m, r.at = k, r.index = m, r.forward = T[t].forward,
             r.resolving = T[t].resolving, r.value = T[t].value, r.awaiter = T[t].awaiter,
             r.forwarded = T[t].forwarded, r.driven = T[t].driven
      PROVE  Moved(T, [T EXCEPT ![t] = r], t, k, m)
  BY <1>2 DEF Moved
<1>3. Moved(T, [T EXCEPT ![t].at = a, ![t].index = n], t, a, n)
  <2> DEFINE r == [T[t] EXCEPT !.at = a, !.index = n]
  <2>1. [T EXCEPT ![t].at = a, ![t].index = n] = [T EXCEPT ![t] = r]
    OBVIOUS
  <2>2. r \in Record /\ r.at = a /\ r.index = n /\ r.forward = T[t].forward
        /\ r.resolving = T[t].resolving /\ r.value = T[t].value /\ r.awaiter = T[t].awaiter
        /\ r.forwarded = T[t].forwarded /\ r.driven = T[t].driven
    BY <1>1 DEF Record
  <2> HIDE DEF r
  <2> QED
    BY <1>2, <2>1, <2>2
<1>4. Moved(T, [T EXCEPT ![t].at = a], t, a, T[t].index)
  <2> DEFINE r == [T[t] EXCEPT !.at = a]
  <2>1. [T EXCEPT ![t].at = a] = [T EXCEPT ![t] = r]
    OBVIOUS
  <2>2. r \in Record /\ r.at = a /\ r.index = T[t].index /\ r.forward = T[t].forward
        /\ r.resolving = T[t].resolving /\ r.value = T[t].value /\ r.awaiter = T[t].awaiter
        /\ r.forwarded = T[t].forwarded /\ r.driven = T[t].driven
    BY <1>1 DEF Record
  <2> HIDE DEF r
  <2> QED
    BY <1>2, <2>1, <2>2
<1> QED
  BY <1>3, <1>4

\* To go to the next child moves nothing else.
LEMMA Counts ==
  ASSUME NEW T \in [Task -> Record], NEW t \in Task, NEW n \in Nat
  PROVE  Moved(T, [T EXCEPT ![t].index = n], t, T[t].at, n)
<1> DEFINE r == [T[t] EXCEPT !.index = n]
<1>1. T[t] \in Record /\ [T EXCEPT ![t].index = n] = [T EXCEPT ![t] = r]
  OBVIOUS
<1>2. r \in Record /\ r.at = T[t].at /\ r.index = n /\ r.forward = T[t].forward
      /\ r.resolving = T[t].resolving /\ r.value = T[t].value /\ r.awaiter = T[t].awaiter
      /\ r.forwarded = T[t].forwarded /\ r.driven = T[t].driven
  BY <1>1 DEF Record
<1> HIDE DEF r
<1> QED
  BY <1>1, <1>2 DEF Moved

\* A child of a task.
LEMMA Kid ==
  ASSUME NEW t \in Task, NEW i \in 1 .. Len(Kids[t])
  PROVE  /\ Kids[t][i] \in Task /\ Kids[t][i] \in Kin(t) /\ Kids[t][i] # t /\ Kids[t][i] # Root
         /\ Kids[t][i] \in Below[t] /\ Parent(Kids[t][i]) = t
<1>1. Kids[t][i] \in Kin(t)
  BY DEF Kin
<1>2. Kids[t][i] \in Task /\ Kids[t][i] # Root /\ Parent(Kids[t][i]) = t
  BY <1>1, KinFacts
<1> QED
  BY <1>1, <1>2, NoCycle, BelowTask

\* A running coroutine may move to where its children's records allow it.
LEMMA MovedTurned ==
  ASSUME NEW T, NEW t \in Task, NEW a, NEW n, NEW U, Moved(T, U, t, a, n), a \notin {"none", "done"},
         RecordOk(U, t), \A i \in 1 .. Len(Kids[t]) : Link(U, t, i)
  PROVE  Turned(T, U, t)
<1>1. \A c \in Kin(t) : c \in Task /\ c # t
  BY KinFacts, NoCycle, BelowTask
<1> QED
  BY <1>1 DEF Turned, Moved

\* A running coroutine is suspended at a point that it announces.
LEMMA TurnAnnounce ==
  ASSUME NEW T, NEW t \in Task, NEW R \in Seq(Frame), NEW b, Well(T, Push(Run(t), R), b),
         NEW U, Turned(T, U, t), U[t].at = "resolve" \/ (U[t].at = "child" /\ U[t].forward),
         U[t].at = "child" => T[Cur(U, t)].at # "done", T[t].at # "found"
  PROVE  Well(Resolvable(U, t), R, b)
<1>1. Well(U, R, b)
  <2>1. R = R /\ U[t].at \notin Awake /\ U[t].at \notin {"asked", "found"} /\ U[t].at \notin Advanced
    BY DEF Awake, Advanced
  <2> QED
    BY <2>1, Turn
<1>2. \A x \in Task : x \notin Below[t] => U[x] = T[x]
  BY BelowTask DEF Turned
<1>3. R # <<>> => R[1][1] # "run" \/ U[R[1][2]].at # "asked"
  <2>1. Returns(U, R, t)
    BY <1>2, Destroyed
  <2> QED
    BY <2>1 DEF Returns
<1>4. U[t].at \in {"done", "resolve"} \/ U[t].forward
  OBVIOUS
<1> QED
  BY <1>1, <1>3, <1>4, Announce

\* The state at hand is right.
Good == Well(task, stack, ret)

\* The innermost frame.
LEMMA TopForm ==
  ASSUME Good, stack # <<>>, NEW k, NEW t, Head(stack) = <<k, t>>
  PROVE  /\ t \in Task /\ Tail(stack) \in Seq(Frame) /\ <<k, t>> \in Frame
         /\ stack = Push(<<k, t>>, Tail(stack)) /\ Well(task, Push(<<k, t>>, Tail(stack)), ret)
         /\ <<>> \o Tail(stack) = Tail(stack)
         /\ \A f \in Frame : <<f>> \o Tail(stack) = Push(f, Tail(stack))
         /\ \A f, g \in Frame : <<f, g>> \o Tail(stack) = Push(f, Push(g, Tail(stack)))
<1>1. stack \in Seq(Frame)
  BY Parts DEF Good
<1>2. <<k, t>> \in Frame /\ Tail(stack) \in Seq(Frame) /\ stack = Push(<<k, t>>, Tail(stack))
  BY <1>1, StackForm
<1>3. <<k, t>>[2] \in Task
  BY <1>2 DEF Frame
<1>4. Well(task, Push(<<k, t>>, Tail(stack)), ret)
  BY <1>2 DEF Good
<1>5. <<>> \o Tail(stack) = Tail(stack)
  BY <1>2, StackForm
<1>6. \A f \in Frame : <<f>> \o Tail(stack) = Push(f, Tail(stack))
  BY DEF Push
<1>7. \A f, g \in Frame : <<f, g>> \o Tail(stack) = Push(f, Push(g, Tail(stack)))
  BY <1>2, StackForm
<1> QED
  BY <1>2, <1>3, <1>4, <1>5, <1>6, <1>7

\* What the invariant says when a coroutine of task t runs and is at a.
LEMMA RunForm ==
  ASSUME Good, NEW t, NEW a, Running(t, a)
  PROVE  /\ t \in Task /\ Tail(stack) \in Seq(Frame) /\ task[t].at = a
         /\ stack = Push(Run(t), Tail(stack)) /\ Well(task, Push(Run(t), Tail(stack)), ret)
         /\ <<>> \o Tail(stack) = Tail(stack)
         /\ \A f \in Frame : <<f>> \o Tail(stack) = Push(f, Tail(stack))
         /\ \A f, g \in Frame : <<f, g>> \o Tail(stack) = Push(f, Push(g, Tail(stack)))
         /\ \A k \in {"run", "loop", "fwd", "after"} : \A x \in Task : <<k, x>> \in Frame
         /\ \A x \in Task : Run(x) \in Frame
         /\ task \in [Task -> Record] /\ ret \in BOOLEAN /\ Records(task) /\ RecordOk(task, t)
         /\ \A i \in 1 .. Len(Kids[t]) : Link(task, t, i)
<1>1. stack # <<>> /\ Head(stack) = <<"run", t>> /\ task[t].at = a
  BY DEF Running
<1>2. \A k \in {"run", "loop", "fwd", "after"} : \A x \in Task : <<k, x>> \in Frame
  BY DEF Frame
<1>3. \A x \in Task : Run(x) \in Frame
  BY <1>2 DEF Run
<1>4. t \in Task
  BY <1>1, TopForm
<1>5. task \in [Task -> Record] /\ ret \in BOOLEAN /\ Records(task) /\ RecordOk(task, t)
      /\ \A i \in 1 .. Len(Kids[t]) : Link(task, t, i)
  BY <1>4, Parts DEF Good
<1>6. /\ Tail(stack) \in Seq(Frame)
      /\ stack = Push(Run(t), Tail(stack)) /\ Well(task, Push(Run(t), Tail(stack)), ret)
      /\ <<>> \o Tail(stack) = Tail(stack)
  BY <1>1, TopForm DEF Run
<1>7. \A f \in Frame : <<f>> \o Tail(stack) = Push(f, Tail(stack))
  BY <1>1, TopForm
<1>8. \A f, g \in Frame : <<f, g>> \o Tail(stack) = Push(f, Push(g, Tail(stack)))
  BY <1>1, TopForm
<1> QED
  BY <1>1, <1>2, <1>3, <1>4, <1>5, <1>6, <1>7, <1>8

\* A suspension that nothing announces, or going on.
LEMMA MovedTurn ==
  ASSUME NEW T, NEW t \in Task, NEW R \in Seq(Frame), NEW b, Well(T, Push(Run(t), R), b),
         NEW a, NEW n, NEW U, Moved(T, U, t, a, n),
         a \in {"start", "asleep", "point"}, RecordOk(U, t), \A i \in 1 .. Len(Kids[t]) : Link(U, t, i),
         NEW V, (V = Push(Run(t), R) /\ a # "asleep") \/ (V = R /\ a = "asleep"), T[t].at # "found"
  PROVE  Well(U, V, b)
<1>1. Turned(T, U, t)
  BY MovedTurned
<1>2. U[t].at = a
  BY DEF Moved
<1>3. /\ (V = Push(Run(t), R) /\ U[t].at \in Awake) \/ (V = R /\ U[t].at \notin Awake)
      /\ U[t].at \notin {"asked", "found"} /\ U[t].at # "child" /\ U[t].at \notin Advanced
  BY <1>2 DEF Awake, Advanced
<1> QED
  BY <1>1, <1>3, Turn

\* A receive that finds the queue empty sleeps; otherwise it stops, or goes on if it is awaited.
LEMMA LookGood ==
  ASSUME Good, NEW s, Look(s)
  PROVE  Good'
<1> DEFINE R == Tail(stack)
<1>1. s \in Source /\ ret' = ret /\ s \in Task
  BY DEF Look, Task
<1>2. PICK a \in {"start", "look"} : Running(s, a)
  BY DEF Look
<1>3. /\ R \in Seq(Frame) /\ stack = Push(Run(s), R) /\ Well(task, Push(Run(s), R), ret) /\ <<>> \o R = R
      /\ task \in [Task -> Record] /\ Records(task) /\ RecordOk(task, s) /\ task[s].at = a
  BY <1>2, RunForm
<1>4. Len(Kids[s]) = 0 /\ s \notin Race /\ s \notin Wrap /\ s # Root /\ s \notin Forwarding
  BY <1>1, TreeAssumption
<1>5. ~task[s].forward /\ ~task[s].resolving
  BY <1>2, <1>3, <1>4 DEF RecordOk
<1> HIDE DEF R
<1>6. ASSUME NEW U, NEW k \in Ats, Moved(task, U, s, k, task[s].index),
             k \in {"asleep", "resolve", "take"}
      PROVE  RecordOk(U, s) /\ Turned(task, U, s) /\ U[s].at = k /\ U[s].resolving = FALSE
  <2>1. U[s].at = k /\ U[s].index = task[s].index /\ U[s].forward = task[s].forward
        /\ U[s].resolving = task[s].resolving
    BY <1>6 DEF Moved
  <2>2. RecordOk(U, s)
    BY <1>1, <1>4, <1>5, <1>6, <2>1 DEF RecordOk, With
  <2>3. Turned(task, U, s)
    BY <1>1, <1>4, <1>6, <2>2, MovedTurned
  <2>4. U[s] \in Record
    BY <1>1, <1>6 DEF Moved
  <2> QED
    BY <1>5, <2>1, <2>2, <2>3
<1>7. CASE queue[PortOf[s]] = <<>>
  <2>1. task' = [task EXCEPT ![s].at = "asleep"] /\ stack' = R
    BY <1>3, <1>7 DEF Look, Become, R
  <2>2. "asleep" \in Ats
    BY DEF Ats
  <2>3. Moved(task, task', s, "asleep", task[s].index)
    BY <1>1, <1>3, <2>1, <2>2, Moves
  <2>4. Turned(task, task', s) /\ task'[s].at = "asleep"
    BY <1>6, <2>2, <2>3
  <2>5. "asleep" \notin Awake /\ "asleep" \notin Advanced
    BY DEF Awake, Advanced
  <2>6. Well(task', R, ret)
    BY <1>1, <1>2, <1>3, <2>4, <2>5, Turn
  <2> QED
    BY <1>1, <2>1, <2>6 DEF Good
<1>8. CASE queue[PortOf[s]] # <<>> /\ Active(task, s)
  <2>1. task' = [task EXCEPT ![s].at = "take"] /\ stack' = Push(Run(s), R)
    BY <1>3, <1>4, <1>8 DEF Look, AwaitResolve, Onward
  <2>2. "take" \in Ats
    BY DEF Ats, Awake
  <2>3. Moved(task, task', s, "take", task[s].index)
    BY <1>1, <1>3, <2>1, <2>2, Moves
  <2>4. Turned(task, task', s) /\ task'[s].at = "take"
    BY <1>6, <2>2, <2>3
  <2>5. "take" \in Awake
    BY DEF Awake
  <2>6. \A r \in Race : s \in Below[r] \ {r} => Chosen(task, r, s)
    BY <1>3, <1>8, NotActive
  <2>7. Well(task', Push(Run(s), R), ret)
    BY <1>1, <1>2, <1>3, <2>4, <2>5, <2>6, Turn
  <2> QED
    BY <1>1, <2>1, <2>7 DEF Good
<1>9. CASE queue[PortOf[s]] # <<>> /\ ~Active(task, s)
  <2> DEFINE U == [task EXCEPT ![s].at = "resolve"]
  <2>1. task' = Resolvable(U, s) /\ stack' = R
    BY <1>3, <1>9 DEF Look, AwaitResolve, Become, R
  <2>2. "resolve" \in Ats
    BY DEF Ats
  <2>3. Moved(task, U, s, "resolve", task[s].index)
    BY <1>1, <1>3, <2>2, Moves
  <2> HIDE DEF U
  <2>4. Turned(task, U, s) /\ U[s].at = "resolve"
    BY <1>6, <2>2, <2>3
  <2>5. Well(Resolvable(U, s), R, ret)
    BY <1>1, <1>2, <1>3, <2>4, TurnAnnounce
  <2> QED
    BY <1>1, <2>1, <2>5 DEF Good
<1> QED
  BY <1>7, <1>8, <1>9

\* A receive that takes a message returns it to who awaits it.
LEMMA TakeGood ==
  ASSUME Good, NEW s, Take(s), \A p \in Port : queue[p] \in Seq(Nat)
  PROVE  Good'
<1> DEFINE R == Tail(stack)
<1>1. Running(s, "take") /\ ret' = ret
  BY DEF Take
<1>3. /\ R \in Seq(Frame) /\ stack = Push(Run(s), R) /\ Well(task, Push(Run(s), R), ret) /\ <<>> \o R = R
      /\ task \in [Task -> Record] /\ Records(task) /\ RecordOk(task, s) /\ task[s].at = "take" /\ s \in Task
  BY <1>1, RunForm
<1>4. s \in Source
  BY <1>3 DEF RecordOk, With, Task
<1>5. Len(Kids[s]) = 0 /\ s \notin Race /\ s \notin Wrap /\ s # Root /\ s \notin Forwarding
  BY <1>4, TreeAssumption
<1>6. ~task[s].forward /\ ~task[s].resolving
  BY <1>3, <1>5 DEF RecordOk
<1> HIDE DEF R
<1>7. CASE queue[PortOf[s]] = <<>>
  <2>1. task' = [task EXCEPT ![s].at = "look"] /\ stack' = Push(Run(s), R)
    BY <1>3, <1>7 DEF Take
  <2>2. "look" \in Ats /\ "look" \in Awake /\ "look" \notin Advanced
    BY DEF Ats, Awake, Advanced
  <2>3. Moved(task, task', s, "look", task[s].index)
    BY <1>3, <2>1, <2>2, Moves
  <2>4. task'[s].at = "look" /\ task'[s].forward = task[s].forward
        /\ task'[s].resolving = task[s].resolving
    BY <2>3 DEF Moved
  <2>5. RecordOk(task', s)
    BY <1>4, <1>5, <1>6, <2>4 DEF RecordOk, With
  <2>6. Turned(task, task', s)
    BY <1>3, <1>5, <2>3, <2>5, MovedTurned
  <2>7. Well(task', Push(Run(s), R), ret)
    BY <1>3, <2>2, <2>4, <2>6, Turn
  <2> QED
    BY <1>1, <2>1, <2>7 DEF Good
<1>8. CASE queue[PortOf[s]] # <<>>
  <2> DEFINE v == Head(queue[PortOf[s]])
  <2>1. Finish(task, s, v)
    BY <1>8 DEF Take
  <2>2. v \in Nat
    BY <1>4, <1>8, TreeAssumption
  <2> HIDE DEF v
  <2>3. \A r \in Race : s \in Below[r] \ {r} => Chosen(task, r, s)
    <3>1. "take" \in Advanced
      BY DEF Advanced
    <3>2. \A r \in Race : \A x \in Below[r] \ {r} : Raced(task, Push(Run(s), R), r, x)
      BY <1>3, Parts
    <3> QED
      BY <1>3, <3>1, <3>2 DEF Raced
  <2>4. \A c \in Kin(s) : task[c].at = "none"
    BY <1>5 DEF Kin
  <2>5. Well(task', stack', ret)
    BY <1>3, <1>5, <1>6, <2>1, <2>2, <2>3, <2>4, Finishes
  <2> QED
    BY <1>1, <2>5 DEF Good
<1> QED
  BY <1>7, <1>8

\* A coroutine may sleep before it calls anything.
LEMMA PauseGood ==
  ASSUME Good, NEW t, Pause(t)
  PROVE  Good'
<1> DEFINE R == Tail(stack)
<1>1. Running(t, "start") /\ ret' = ret /\ t \in Wrap
      /\ task' = [task EXCEPT ![t].at = "asleep", ![t].index = 0]
  BY DEF Pause
<1>3. /\ R \in Seq(Frame) /\ stack = Push(Run(t), R) /\ Well(task, Push(Run(t), R), ret) /\ <<>> \o R = R
      /\ task \in [Task -> Record] /\ RecordOk(task, t) /\ task[t].at = "start" /\ t \in Task
      /\ \A i \in 1 .. Len(Kids[t]) : Link(task, t, i)
  BY <1>1, RunForm
<1>4. t \notin Source /\ t \notin Race /\ t # Root
  BY <1>1, TreeAssumption
<1>5. stack' = R
  BY <1>3 DEF Pause, Become
<1> HIDE DEF R
<1>6. "asleep" \in Ats /\ 0 \in Nat
  BY DEF Ats
<1>7. Moved(task, task', t, "asleep", 0)
  BY <1>1, <1>3, <1>6, Moves
<1>8. RecordOk(task', t)
  BY <1>3, <1>4, <1>7 DEF RecordOk, Moved, With
<1>9. ASSUME NEW i \in 1 .. Len(Kids[t]) PROVE Link(task', t, i)
  <2>1. Kids[t][i] \in Task \ {t}
    BY <1>3, Kid
  <2>2. task'[Kids[t][i]] = task[Kids[t][i]] /\ task'[t].at = "asleep"
    BY <1>7, <2>1 DEF Moved
  <2>3. Link(task, t, i)
    BY <1>3
  <2> QED
    BY <1>3, <1>4, <2>2, <2>3 DEF Link, Bare, With
<1>10. Well(task', R, ret)
  BY <1>3, <1>7, <1>8, <1>9, MovedTurn
<1> QED
  BY <1>1, <1>5, <1>10 DEF Good

\* A coroutine that is called runs before its caller does.
LEMMA CallChildGood ==
  ASSUME Good, NEW t, CallChild(t)
  PROVE  Good'
<1> DEFINE R == Tail(stack)
<1>1. Running(t, "start") /\ ret' = ret /\ t \in Wrap \cup {Root}
  BY DEF CallChild, Awaits
<1>2. PICK i \in 1 .. Len(Kids[t]) :
        Call([task EXCEPT ![t].at = "called", ![t].index = i], t, Kids[t][i])
  BY DEF CallChild
<1>3. /\ R \in Seq(Frame) /\ stack = Push(Run(t), R) /\ Well(task, Push(Run(t), R), ret)
      /\ task \in [Task -> Record] /\ RecordOk(task, t) /\ task[t].at = "start" /\ t \in Task
      /\ \A j \in 1 .. Len(Kids[t]) : Link(task, t, j)
      /\ \A x \in Task : Run(x) \in Frame
  BY <1>1, RunForm
<1>4. \A f, g \in Frame : <<f, g>> \o R = Push(f, Push(g, R))
  BY <1>1, RunForm
<1>5. t \notin Source /\ t \notin Race
  BY <1>1, TreeAssumption
<1> DEFINE c == Kids[t][i]
           M == [task EXCEPT ![t].at = "called", ![t].index = i]
<1>6. task' = [M EXCEPT ![c] = Fresh] /\ stack' = <<Run(c), Run(t)>> \o R
  BY <1>2 DEF Call, Become
<1>7. c \in Task /\ c \in Kin(t) /\ c # t
  BY <1>3, Kid
<1>8. "called" \in Ats /\ i \in Nat
  BY <1>3, KinFacts DEF Ats, Awake
<1>9. Moved(task, M, t, "called", i)
  BY <1>3, <1>8, Moves
<1> HIDE DEF M, R
<1>10. Fresh \in Record /\ Fresh.at = "start" /\ Fresh.awaiter = "none" /\ Fresh.forwarded = FALSE
  BY DEF Fresh, Absent, Record, Ats, Awake
<1>11. task' \in [Task -> Record] /\ task'[c] = Fresh /\ \A x \in Task \ {c} : task'[x] = M[x]
  BY <1>6, <1>7, <1>9, <1>10 DEF Moved
<1>12. /\ task'[t] = M[t] /\ task'[t].at = "called" /\ task'[t].index = i
       /\ task'[t].forward = task[t].forward /\ task'[t].resolving = task[t].resolving
       /\ task'[t].awaiter = task[t].awaiter /\ task'[t].forwarded = task[t].forwarded
       /\ task'[t].driven = task[t].driven
       /\ \A x \in Task \ {t, c} : task'[x] = task[x]
  BY <1>3, <1>7, <1>9, <1>11 DEF Moved
<1>13. RecordOk(task', t)
  BY <1>1, <1>3, <1>5, <1>12 DEF RecordOk, With
<1>14. ASSUME NEW j \in 1 .. Len(Kids[t]) PROVE Link(task', t, j)
  <2>1. Link(task, t, j) /\ Bare(task, t)
    BY <1>3, <1>5 DEF Bare
  <2>2. CASE j = i
    BY <1>5, <1>10, <1>11, <1>12, <2>1, <2>2 DEF Link, Bare, With
  <2>3. CASE j # i
    <3>1. Kids[t][j] # c /\ Kids[t][j] \in Task \ {t}
      BY <1>3, <2>3, TreeAssumption, Kid
    <3>2. task'[Kids[t][j]] = task[Kids[t][j]]
      BY <1>12, <3>1
    <3>3. task[Kids[t][j]].at = "none"
      BY <2>1 DEF Link
    <3>4. task[Kids[t][j]] = Absent
      BY <1>3, <3>1, <3>3, Parts DEF RecordOk
    <3> QED
      BY <1>5, <1>12, <2>3, <3>2, <3>4 DEF Link, Bare, With, Absent
  <2> QED
    BY <2>2, <2>3
<1>15. task[c].at = "none"
  BY <1>3, <1>5 DEF Link, Bare
<1>16. Well(task', Push(Run(c), Push(Run(t), R)), ret)
  <2> HIDE DEF c
  <2> QED
    BY <1>3, <1>7, <1>11, <1>12, <1>13, <1>14, <1>15, Calls
<1>17. stack' = Push(Run(c), Push(Run(t), R))
  BY <1>3, <1>4, <1>6, <1>7
<1> QED
  BY <1>1, <1>16, <1>17 DEF Good

\* A child that a coroutine has called or awaits.
LEMMA Awaiting ==
  ASSUME NEW T, NEW t \in Task, RecordOk(T, t), \A i \in 1 .. Len(Kids[t]) : Link(T, t, i), T[t].at \in With
  PROVE  /\ t \notin Source /\ t \notin Race /\ T[t].index \in 1 .. Len(Kids[t])
         /\ T[t].at \in {"called", "asked"} => ~T[t].forward /\ ~T[t].resolving
         /\ Cur(T, t) \in Task /\ Cur(T, t) \in Kin(t) /\ Cur(T, t) # t /\ T[Cur(T, t)].at # "none"
         /\ Link(T, t, T[t].index) /\ \A c \in Kin(t) \ {Cur(T, t)} : T[c].at = "none"
<1>1. t \notin Source /\ t \notin Race /\ T[t].index \in 1 .. Len(Kids[t])
  BY DEF RecordOk, With
<1>2. T[t].at \in {"called", "asked"} => ~T[t].forward /\ ~T[t].resolving
  BY DEF RecordOk
<1>3. Cur(T, t) \in Task /\ Cur(T, t) \in Kin(t) /\ Cur(T, t) # t
  BY <1>1, Kid DEF Cur
<1>4. T[Cur(T, t)].at # "none" /\ Link(T, t, T[t].index)
  BY <1>1 DEF Link, Cur
<1>5. \A c \in Kin(t) \ {Cur(T, t)} : T[c].at = "none"
  <2>1. \A i \in 1 .. Len(Kids[t]) : i # T[t].index => T[Kids[t][i]].at = "none"
    BY DEF Link
  <2> QED
    BY <2>1 DEF Kin, Cur
<1> QED
  BY <1>1, <1>2, <1>3, <1>4, <1>5

\* Whoever awaits a task asks it to resolve.
LEMMA AwaitChildGood ==
  ASSUME Good, NEW t, AwaitChild(t)
  PROVE  Good'
<1> DEFINE R == Tail(stack)
           c == Child(t)
           e == (t \in Forwarding /\ task[c].at # "done")
           M == [task EXCEPT ![t].at = "asked"]
<1>1. /\ Running(t, "called") /\ ret' = ret /\ t \in Wrap \cup {Root}
      /\ task' = [M EXCEPT ![c].forwarded = e] /\ Become(<<<<"loop", c>>, Run(t)>>)
  BY DEF AwaitChild, Awaits
<1>2. /\ R \in Seq(Frame) /\ stack = Push(Run(t), R) /\ Well(task, Push(Run(t), R), ret)
      /\ task \in [Task -> Record] /\ RecordOk(task, t) /\ task[t].at = "called" /\ t \in Task
      /\ \A j \in 1 .. Len(Kids[t]) : Link(task, t, j)
      /\ Records(task)
  BY <1>1, RunForm
<1>3. <<"loop", c>> \in Frame /\ Run(t) \in Frame /\ \A f, g \in Frame : <<f, g>> \o R = Push(f, Push(g, R))
  <2>1. \A k \in {"run", "loop", "fwd", "after"} : \A x \in Task : <<k, x>> \in Frame
    BY <1>1, RunForm
  <2>2. \A f, g \in Frame : <<f, g>> \o R = Push(f, Push(g, R))
    BY <1>1, RunForm
  <2>3. Cur(task, t) \in Task
    BY <1>2, Awaiting DEF With
  <2> QED
    BY <1>2, <2>1, <2>2, <2>3 DEF Cur, Child, Run
<1>4. /\ t \notin Source /\ t \notin Race /\ task[t].index \in 1 .. Len(Kids[t])
      /\ ~task[t].forward /\ ~task[t].resolving /\ c = Cur(task, t)
      /\ c \in Task /\ c \in Kin(t) /\ c # t /\ task[c].at # "none" /\ c = Kids[t][task[t].index]
      /\ Link(task, t, task[t].index)
  BY <1>2, Awaiting DEF With, Cur, Child
<1>5. stack' = Push(<<"loop", c>>, Push(Run(t), R))
  BY <1>1, <1>3 DEF Become
<1>6. Moved(task, M, t, "asked", task[t].index)
  <2>1. "asked" \in Ats
    BY DEF Ats, Awake
  <2> QED
    BY <1>2, <2>1, Moves
<1>7. e \in BOOLEAN /\ (e <=> t \in Forwarding /\ task[c].at # "done")
  OBVIOUS
<1> HIDE DEF M, R, c, e
<1>8. /\ task' \in [Task -> Record] /\ \A x \in Task \ {c} : task'[x] = M[x]
      /\ task'[c].at = M[c].at /\ task'[c].resolving = M[c].resolving /\ task'[c].driven = M[c].driven
      /\ task'[c].forward = M[c].forward /\ task'[c].index = M[c].index
      /\ task'[c].awaiter = M[c].awaiter /\ task'[c].forwarded = e
  <2>1. M \in [Task -> Record] /\ M[c] \in Record
    BY <1>4, <1>6 DEF Moved
  <2> DEFINE r == [M[c] EXCEPT !.forwarded = e]
  <2>2. task' = [M EXCEPT ![c] = r]
    BY <1>1
  <2>3. /\ r \in Record
        /\ r.at = M[c].at /\ r.resolving = M[c].resolving /\ r.driven = M[c].driven
        /\ r.forward = M[c].forward /\ r.index = M[c].index
        /\ r.awaiter = M[c].awaiter /\ r.forwarded = e
    BY <1>7, <2>1 DEF Record
  <2> HIDE DEF r
  <2> QED
    BY <1>4, <2>1, <2>2, <2>3
<1>9. M[c] = task[c] /\ task'[t] = M[t] /\ (\A x \in Task \ {t, c} : task'[x] = task[x])
      /\ task'[t].at = "asked" /\ task'[t].index = task[t].index /\ ~task'[t].forward /\ ~task'[t].resolving
  BY <1>2, <1>4, <1>6, <1>8 DEF Moved
<1>10. RecordOk(task', t)
  <2>1. task'[t].awaiter = task[t].awaiter /\ task'[t].forwarded = task[t].forwarded
    BY <1>6, <1>9 DEF Moved
  <2> QED
    BY <1>1, <1>2, <1>4, <1>9, <2>1 DEF RecordOk, With
<1>11. ASSUME NEW i \in 1 .. Len(Kids[t]) PROVE Link(task', t, i)
  <2>1. Link(task, t, i) /\ Kids[t][i] \in Task \ {t}
    BY <1>2, Kid
  <2>2. CASE i = task[t].index
    <3>1. /\ task'[c].at = task[c].at /\ task'[c].awaiter = task[c].awaiter
          /\ task'[c].forwarded = e /\ Kids[t][i] = c
      BY <1>4, <1>8, <1>9, <2>2
    <3> QED
      BY <1>2, <1>4, <1>7, <1>9, <2>1, <2>2, <3>1 DEF Link, Bare, With
  <2>3. CASE i # task[t].index
    <3>1. Kids[t][i] # c
      BY <1>2, <1>4, <2>3, TreeAssumption
    <3>2. task'[Kids[t][i]] = task[Kids[t][i]]
      BY <1>9, <2>1, <3>1
    <3> QED
      BY <1>2, <1>4, <1>9, <2>1, <2>3, <3>2 DEF Link, Bare, With
  <2> QED
    BY <2>2, <2>3
<1>12. Turned(task, task', t)
  <2>1. task'[t].awaiter = task[t].awaiter /\ task'[t].forwarded = task[t].forwarded
        /\ task'[t].driven = task[t].driven /\ task'[t].at \notin {"none", "done"}
    BY <1>6, <1>9 DEF Moved
  <2>2. \A x \in Task : x # t /\ x \notin Kin(t) => task'[x] = task[x]
    BY <1>4, <1>9
  <2>3. ASSUME NEW d \in Kin(t)
        PROVE  /\ task'[d].at = task[d].at /\ task'[d].resolving = task[d].resolving
               /\ task'[d].driven = task[d].driven
               /\ task'[d].forward = task[d].forward /\ task'[d].index = task[d].index
               /\ task[d].at = "none" => task'[d] = task[d]
    <3>1. d \in Task /\ d # t
      BY <1>2, KinFacts, NoCycle, BelowTask
    <3>2. CASE d = c
      BY <1>4, <1>8, <1>9, <3>2
    <3>3. CASE d # c
      BY <1>9, <3>1, <3>3
    <3> QED
      BY <3>2, <3>3
  <2> QED
    BY <1>8, <1>10, <1>11, <2>1, <2>2, <2>3 DEF Turned
<1>13. \A x \in Kin(t) \ {c} : task'[x].forwarded = task[x].forwarded
  <2>1. \A x \in Kin(t) : x \in Task /\ x # t
    BY <1>2, KinFacts, NoCycle, BelowTask
  <2> QED
    BY <1>9, <2>1
<1>14. Cur(task', t) = c
  BY <1>4, <1>9 DEF Cur
<1>15. ASSUME NEW r \in Race, c \in Below[r] \ {r}, ~task'[c].forwarded PROVE Chosen(task', r, c)
  <2>1. r \in Task /\ Parent(c) = t
    BY <1>2, <1>4, KinFacts DEF Task
  <2>2. t \in Below[r] /\ t # r
    BY <1>4, <1>15, <2>1, BelowKin
  <2>3. t # Root
    <3>1. r \in Below[Root] /\ Root \in Task
      BY <2>1, TreeAssumption DEF Task
    <3>2. t = Root => r = Root
      BY <2>1, <2>2, <3>1, BelowAnti
    <3> QED
      BY <3>2, TreeAssumption
  <2>4. t \in Forwarding
    BY <1>1, <2>2, <2>3, ForwardAssumption
  <2>5. task[c].at = "done"
    BY <1>7, <1>8, <1>15, <2>4
  <2>6. Raced(task, Push(Run(t), R), r, c)
    BY <1>2, <1>15, Parts
  <2>7. Chosen(task, r, c)
    BY <2>5, <2>6 DEF Raced, Advanced
  <2>8. r # c /\ r # t
    BY <1>15, <2>2
  <2>9. task'[r] = task[r]
    BY <1>9, <2>1, <2>8
  <2> QED
    BY <2>7, <2>9 DEF Chosen, Cur
<1>16. Well(task', Push(<<"loop", c>>, Push(Run(t), R)), ret)
  <2>1. task'[t].at \in {"asked", "found"} /\ (task'[t].at = "found" => task[t].at = "find")
        /\ task[t].at # "found"
    BY <1>2, <1>9
  <2> QED
    BY <1>2, <1>4, <1>12, <1>13, <1>14, <1>15, <2>1, Asks
<1> QED
  BY <1>1, <1>5, <1>16 DEF Good

\* A suspended coroutine goes on.
LEMMA OnwardTurned ==
  ASSUME NEW T \in [Task -> Record], Records(T), NEW x \in Task, T[x].at = "resolve",
         NEW U, NEW k, k = Onward(x, "resolve"), Moved(T, U, x, k, T[x].index) \/
           (/\ U \in [Task -> Record] /\ \A y \in Task \ {x} : U[y] = T[y]
            /\ U[x].at = k /\ U[x].index = T[x].index
            /\ U[x].forward = T[x].forward /\ ~U[x].resolving
            /\ U[x].awaiter = T[x].awaiter /\ U[x].forwarded = T[x].forwarded /\ U[x].driven = T[x].driven),
         ~U[x].resolving
  PROVE  Turned(T, U, x) /\ U[x].at = k /\ k \in {"find", "take"} /\ \A y \in Task \ {x} : U[y] = T[y]
<1>1. /\ U \in [Task -> Record] /\ \A y \in Task \ {x} : U[y] = T[y]
      /\ U[x].at = k /\ U[x].index = T[x].index
      /\ U[x].forward = T[x].forward
      /\ U[x].awaiter = T[x].awaiter /\ U[x].forwarded = T[x].forwarded /\ U[x].driven = T[x].driven
  BY DEF Moved
<1>2. RecordOk(T, x) /\ \A i \in 1 .. Len(Kids[x]) : Link(T, x, i)
  BY DEF Records
<1>3. x \in Source \cup Race /\ k = IF x \in Race THEN "find" ELSE "take"
  BY <1>2, TreeAssumption DEF RecordOk, With, Task, Onward
<1>4. x \notin Wrap /\ x # Root /\ (x \in Source => x \notin Race)
  BY <1>3, TreeAssumption
<1>5. RecordOk(U, x)
  BY <1>1, <1>2, <1>3, <1>4 DEF RecordOk, With
<1>6. ASSUME NEW i \in 1 .. Len(Kids[x]) PROVE Link(U, x, i)
  <2>1. Link(T, x, i) /\ U[Kids[x][i]] = T[Kids[x][i]]
    BY <1>1, <1>2, Kid
  <2>2. x \in Race
    BY <1>3, TreeAssumption
  <2>3. k = "find"
    BY <1>3, <2>2
  <2> QED
    BY <1>1, <2>1, <2>2, <2>3, <1>4 DEF Link, Bare, With
<1>7. \A d \in Kin(x) : d \in Task /\ d # x
  BY KinFacts, NoCycle, BelowTask
<1> QED
  BY <1>1, <1>3, <1>5, <1>6, <1>7 DEF Turned

\* Who has to wait for a task is recorded; the task runs on if somebody active awaits it, and
\* otherwise the resolution point is passed on.  This is the step for which ForwardAssumption is needed.
LEMMA PrepareAwaiterGood ==
  ASSUME Good, NEW t, PrepareAwaiter(t)
  PROVE  Good'
<1> DEFINE R == Tail(stack)
           c == Child(t)
           L == [task EXCEPT ![t].at = "child", ![t].forward = @ \/ task[c].forwarded,
                             ![c].awaiter = "task", ![c].forwarded = FALSE]
<1>1. /\ Running(t, "asked") /\ ret' = ret /\ ~ret
      /\ IF task[c].resolving /\ Active(L, c)
         THEN /\ task' = Resumed([L EXCEPT ![c].resolving = FALSE], c)
              /\ Become(<<Run(c)>>)
         ELSE /\ task' = IF task[c].resolving THEN Resolvable(L, t) ELSE L
              /\ Become(<<>>)
  BY DEF PrepareAwaiter
<1>2. /\ R \in Seq(Frame) /\ stack = Push(Run(t), R) /\ Well(task, Push(Run(t), R), ret) /\ <<>> \o R = R
      /\ task \in [Task -> Record] /\ RecordOk(task, t) /\ task[t].at = "asked" /\ t \in Task
      /\ \A j \in 1 .. Len(Kids[t]) : Link(task, t, j)
      /\ Records(task)
  BY <1>1, RunForm
<1>3. /\ t \notin Source /\ t \notin Race /\ task[t].index \in 1 .. Len(Kids[t])
      /\ ~task[t].forward /\ ~task[t].resolving /\ c = Cur(task, t)
      /\ c \in Task /\ c \in Kin(t) /\ c # t /\ task[c].at # "none" /\ c = Kids[t][task[t].index]
      /\ Link(task, t, task[t].index)
  BY <1>2, Awaiting DEF With, Cur, Child
<1> HIDE DEF c
<1>4. /\ L \in [Task -> Record] /\ \A x \in Task \ {t, c} : L[x] = task[x]
      /\ L[t].at = "child" /\ L[t].index = task[t].index /\ L[t].resolving = task[t].resolving
      /\ L[t].forward = (task[t].forward \/ task[c].forwarded)
      /\ L[t].awaiter = task[t].awaiter /\ L[t].forwarded = task[t].forwarded
      /\ L[t].driven = task[t].driven
      /\ L[c].at = task[c].at /\ L[c].resolving = task[c].resolving /\ L[c].driven = task[c].driven
      /\ L[c].forward = task[c].forward /\ L[c].index = task[c].index
      /\ L[c].awaiter = "task" /\ L[c].forwarded = FALSE
  <2> DEFINE e == task[t].forward \/ task[c].forwarded
             r == [task[t] EXCEPT !.at = "child", !.forward = e]
             q == [task[c] EXCEPT !.awaiter = "task", !.forwarded = FALSE]
  <2>1. task[t] \in Record /\ task[c] \in Record /\ e \in BOOLEAN
    BY <1>2, <1>3, Fields
  <2>2. L = [[task EXCEPT ![t] = r] EXCEPT ![c] = q]
    BY <1>2, <1>3
  <2> HIDE DEF e, L
  <2>3. /\ r \in Record /\ r.at = "child" /\ r.forward = e /\ r.index = task[t].index
        /\ r.resolving = task[t].resolving /\ r.awaiter = task[t].awaiter
        /\ r.forwarded = task[t].forwarded /\ r.driven = task[t].driven
    BY <2>1 DEF Record, Ats
  <2>4. /\ q \in Record /\ q.at = task[c].at /\ q.resolving = task[c].resolving
        /\ q.driven = task[c].driven /\ q.forward = task[c].forward /\ q.index = task[c].index
        /\ q.awaiter = "task" /\ q.forwarded = FALSE
    BY <2>1 DEF Record
  <2> HIDE DEF r, q
  <2>5. L \in [Task -> Record] /\ L[t] = r /\ L[c] = q /\ \A x \in Task \ {t, c} : L[x] = task[x]
    BY <1>2, <1>3, <2>2, <2>3, <2>4
  <2> QED
    BY <2>3, <2>4, <2>5 DEF e
<1> HIDE DEF L, R
<1>5. task[c].at # "done" /\ (task[c].resolving => task[c].forwarded)
  <2>1. Returned(task, Push(Run(t), R), ret) /\ Run(t) \in Frame
    BY <1>2, Parts DEF Run, Frame
  <2>2. Push(Run(t), R)[1] = Run(t) /\ Push(Run(t), R) # <<>>
    BY <1>2, <2>1, PushFacts
  <2>3. Run(t)[1] = "run" /\ Run(t)[2] = t
    BY DEF Run
  <2> QED
    BY <1>1, <1>2, <1>3, <2>1, <2>2, <2>3 DEF Returned
<1>6. (task[c].forwarded <=> t \in Forwarding) /\ task[c].awaiter # "task"
  BY <1>2, <1>3, <1>5 DEF Link
<1>7. RecordOk(L, t)
  BY <1>2, <1>3, <1>4, <1>6 DEF RecordOk, With
<1>8. ASSUME NEW i \in 1 .. Len(Kids[t]) PROVE Link(L, t, i)
  <2>1. Link(task, t, i) /\ Kids[t][i] \in Task \ {t}
    BY <1>2, Kid
  <2>2. CASE i = task[t].index
    <3>1. Kids[t][i] = c
      BY <1>3, <2>2
    <3> QED
      BY <1>2, <1>3, <1>4, <1>5, <1>6, <2>1, <2>2, <3>1 DEF Link, Bare, With
  <2>3. CASE i # task[t].index
    <3>1. Kids[t][i] # c
      BY <1>2, <1>3, <2>3, TreeAssumption
    <3>2. L[Kids[t][i]] = task[Kids[t][i]]
      BY <1>4, <2>1, <3>1
    <3> QED
      BY <1>2, <1>3, <1>4, <2>1, <2>3, <3>2 DEF Link, Bare, With
  <2> QED
    BY <2>2, <2>3
<1>9. Turned(task, L, t)
  <2>1. \A x \in Task : x # t /\ x \notin Kin(t) => L[x] = task[x]
    BY <1>3, <1>4
  <2>2. ASSUME NEW d \in Kin(t)
        PROVE  /\ L[d].at = task[d].at /\ L[d].resolving = task[d].resolving
               /\ L[d].driven = task[d].driven
               /\ L[d].forward = task[d].forward /\ L[d].index = task[d].index
               /\ task[d].at = "none" => L[d] = task[d]
    <3>1. d \in Task /\ d # t
      BY <1>2, KinFacts, NoCycle, BelowTask
    <3>2. CASE d = c
      BY <1>3, <1>4, <3>2
    <3>3. CASE d # c
      BY <1>4, <3>1, <3>3
    <3> QED
      BY <3>2, <3>3
  <2> QED
    BY <1>4, <1>7, <1>8, <2>1, <2>2 DEF Turned
<1>10. Cur(L, t) = c
  BY <1>3, <1>4 DEF Cur
<1>11. Well(L, R, ret)
  <2>1. "child" \notin Awake /\ "child" \notin Advanced
    BY DEF Awake, Advanced
  <2> QED
    BY <1>2, <1>4, <1>5, <1>9, <1>10, <2>1, Turn
<1>12. CASE task[c].resolving /\ Active(L, c)
  <2> DEFINE M == [L EXCEPT ![c].resolving = FALSE]
  <2>1. task' = [M EXCEPT ![c].at = Onward(c, M[c].at)] /\ stack' = Push(Run(c), R)
    BY <1>1, <1>12 DEF Resumed, Become, Push, R
  <2>2. L \in [Task -> Record] /\ Records(L) /\ RecordOk(L, c) /\ L[c] \in Record
    BY <1>3, <1>4, <1>11, Parts
  <2>3. L[c].at = "resolve"
    <3>1. L[c].at = "resolve" \/ L[c].forward
      BY <1>4, <1>5, <1>12, <2>2 DEF RecordOk
    <3>2. ASSUME L[c].forward PROVE FALSE
      <4>1. c \in Forwarding /\ t \in Forwarding
        BY <1>5, <1>6, <1>12, <2>2, <3>2 DEF RecordOk
      <4>2. PICK r \in Race : t \in Below[r]
        BY <1>3, <4>1, ForwardAssumption
      <4>3. r \in Task /\ c \in Below[r] /\ c # r
        BY <1>3, <4>1, <4>2, BelowTask, TreeAssumption DEF Task
      <4> QED
        BY <1>12, <2>2, <4>3, NotActive
    <3> QED
      BY <3>1, <3>2
  <2> DEFINE k == Onward(c, "resolve")
             r == [L[c] EXCEPT !.resolving = FALSE, !.at = k]
  <2>4. M \in [Task -> Record] /\ M[c].at = "resolve" /\ k \in Ats
    BY <2>2, <2>3 DEF Record, Onward, Ats, Awake
  <2>5. task' = [L EXCEPT ![c] = r]
    BY <1>3, <2>1, <2>2, <2>4
  <2>6. /\ r \in Record /\ r.at = k /\ r.index = L[c].index /\ r.forward = L[c].forward
        /\ r.resolving = FALSE /\ r.awaiter = L[c].awaiter
        /\ r.forwarded = L[c].forwarded /\ r.driven = L[c].driven
    BY <2>2, <2>4 DEF Record
  <2> HIDE DEF r, k, M
  <2>7. task' \in [Task -> Record] /\ task'[c] = r /\ \A x \in Task \ {c} : task'[x] = L[x]
    BY <1>3, <1>4, <2>5, <2>6
  <2>8. k = Onward(c, "resolve")
    BY DEF k
  <2>9. Turned(L, task', c) /\ task'[c].at = k /\ k \in {"find", "take"}
    <3>1. /\ task'[c].at = k /\ task'[c].index = L[c].index
          /\ task'[c].forward = L[c].forward /\ ~task'[c].resolving
          /\ task'[c].awaiter = L[c].awaiter /\ task'[c].forwarded = L[c].forwarded
          /\ task'[c].driven = L[c].driven
      BY <2>6, <2>7
    <3> QED
      BY <1>3, <2>2, <2>3, <2>7, <2>8, <3>1, OnwardTurned
  <2>10. Returns(L, R, t)
    <3>1. \A x \in Task : x \notin Below[t] => L[x] = task[x]
      BY <1>9, BelowTask, <1>2 DEF Turned
    <3> QED
      BY <1>2, <3>1, Destroyed
  <2>11. R # <<>> => /\ R[1][1] = "after" \/ (R[1][1] = "run" /\ L[R[1][2]].at \in {"called", "start"})
                     /\ Under(Run(c), R[1])
    <3> SUFFICES ASSUME R # <<>> PROVE Under(Run(c), R[1])
      BY <2>10 DEF Returns
    <3>1. R[1] \in Frame /\ Under(Run(t), R[1])
      BY <2>10 DEF Returns
    <3>2. R[1][2] \in Task /\ t \in Below[R[1][2]]
      BY <3>1 DEF Frame, Under, Run
    <3>3. c \in Below[R[1][2]]
      BY <1>3, <3>2, BelowTask
    <3>4. c # R[1][2]
      BY <1>2, <1>3, <3>2, NoCycle
    <3> QED
      BY <3>3, <3>4 DEF Under, Run
  <2>12. \A r1 \in Race : c \in Below[r1] \ {r1} => Chosen(L, r1, c)
    BY <1>12, <2>2, NotActive
  <2>13. Well(task', Push(Run(c), R), ret)
    BY <1>2, <1>3, <1>11, <2>3, <2>7, <2>9, <2>11, <2>12, Wakes
  <2> QED
    BY <1>1, <2>1, <2>13 DEF Good
<1>13. CASE task[c].resolving /\ ~Active(L, c)
  <2>1. task' = Resolvable(L, t) /\ stack' = R
    BY <1>1, <1>2, <1>13 DEF Become, R
  <2>2. L[t].at = "child" /\ L[t].forward
    BY <1>4, <1>5, <1>13
  <2>3. Well(Resolvable(L, t), R, ret)
    BY <1>2, <1>5, <1>9, <1>10, <2>2, TurnAnnounce
  <2> QED
    BY <1>1, <2>1, <2>3 DEF Good
<1>14. CASE ~task[c].resolving
  <2>1. task' = L /\ stack' = R
    BY <1>1, <1>2, <1>14 DEF Become, R
  <2> QED
    BY <1>1, <1>11, <2>1 DEF Good
<1> QED
  BY <1>12, <1>13, <1>14

\* A task that is destroyed takes with it what is below it, and nothing else.
LEMMA WithoutIs ==
  ASSUME NEW T \in [Task -> Record], NEW K \in SUBSET Task
  PROVE  /\ Without(T, K) \in [Task -> Record]
         /\ \A x \in Task : Without(T, K)[x] = IF x \in UNION {Below[c] : c \in K} THEN Absent ELSE T[x]
<1>1. Absent \in Record
  BY DEF Absent, Record, Ats, Awake
<1> QED
  BY <1>1 DEF Without

\* A coroutine's children are destroyed and it returns.
LEMMA Leaves ==
  ASSUME NEW t \in Task, NEW R \in Seq(Frame), Well(task, Push(Run(t), R), ret), t # Root, t \notin Source,
         NEW K \in SUBSET Kin(t), \A c \in Kin(t) \ K : task[c].at = "none",
         NEW X \in [Task -> Record],
         \A x \in Task \ {t} : X[x] = IF x \in UNION {Below[c] : c \in K} THEN Absent ELSE task[x],
         ~X[t].forward, ~X[t].resolving,
         X[t].awaiter = task[t].awaiter, X[t].forwarded = task[t].forwarded, X[t].driven = task[t].driven,
         \A r \in Race : t \in Below[r] \ {r} => Chosen(task, r, t),
         NEW v \in Nat, stack = Push(Run(t), R), Finish(X, t, v)
  PROVE  Well(task', stack', ret)
<1> DEFINE S == [X EXCEPT ![t].at = "start", ![t].index = 1]
<1>1. Moved(X, S, t, "start", 1)
  <2>1. "start" \in Ats
    BY DEF Ats, Awake
  <2> QED
    BY <2>1, Moves
<1> HIDE DEF S
<1>2. /\ S \in [Task -> Record] /\ \A x \in Task \ {t} : S[x] = X[x]
      /\ S[t].at = "start" /\ S[t].index = 1 /\ S[t].forward = X[t].forward /\ S[t].resolving = X[t].resolving
      /\ S[t].awaiter = X[t].awaiter /\ S[t].forwarded = X[t].forwarded /\ S[t].driven = X[t].driven
  BY <1>1 DEF Moved
<1>3. Well(S, Push(Run(t), R), ret)
  <2>1. \A x \in Task \ {t} : S[x] = IF x \in UNION {Below[c] : c \in K} THEN Absent ELSE task[x]
    BY <1>2
  <2>2. t \in Race => S[t].index = 1
    BY <1>2
  <2>3. S[t].at = "start" /\ ~S[t].forward /\ ~S[t].resolving /\ S[t].awaiter = task[t].awaiter
        /\ S[t].forwarded = task[t].forwarded /\ S[t].driven = task[t].driven
    BY <1>2
  <2> QED
    BY <1>2, <2>1, <2>2, <2>3, Clears
<1>4. ASSUME NEW c \in Kin(t) PROVE S[c].at = "none"
  <2>1. c \in Task \ {t} /\ c \in Below[c]
    BY KinFacts, NoCycle, BelowTask
  <2>2. S[c] = IF c \in UNION {Below[d] : d \in K} THEN Absent ELSE task[c]
    BY <1>2, <2>1
  <2> QED
    BY <2>1, <2>2 DEF Absent
<1>5. ASSUME NEW r \in Race, t \in Below[r] \ {r} PROVE Chosen(S, r, t)
  <2>1. r \in Task /\ r # t /\ r \notin Below[t]
    BY <1>5, BelowAnti DEF Task
  <2>2. r \notin UNION {Below[c] : c \in K}
    BY <2>1, BelowTask, BelowTrans
  <2>3. S[r] = task[r]
    BY <1>2, <2>1, <2>2
  <2> QED
    BY <1>5, <2>3 DEF Chosen, Cur
<1>6. /\ X[t].awaiter = S[t].awaiter /\ X[t].forwarded = S[t].forwarded /\ X[t].driven = S[t].driven
      /\ \A x \in Task \ {t} : X[x] = S[x]
  BY <1>2
<1> QED
  BY <1>3, <1>4, <1>5, <1>6, Finishes

\* A race has decided for the task that awaits a task that is done.
LEMMA ChosenUp ==
  ASSUME NEW T, NEW S, NEW b, Well(T, S, b), NEW t \in Task, t \notin Race, NEW c \in Kin(t), T[c].at = "done",
         NEW r \in Race, t \in Below[r] \ {r}
  PROVE  Chosen(T, r, t)
<1>1. r \in Task /\ c \in Below[r] /\ c # r /\ t # r /\ r \notin Below[t]
  BY BelowTask, BelowAnti, KinFacts DEF Task
<1>2. T[r].at = "found" /\ c \in Below[Cur(T, r)]
  <2>1. Raced(T, S, r, c)
    BY <1>1, Parts
  <2> QED
    BY <2>1 DEF Raced, Chosen, Advanced
<1>3. Cur(T, r) \in Kin(r)
  <2>1. RecordOk(T, r)
    BY <1>1, Parts
  <2> QED
    BY <1>1, <1>2, <2>1, Kid DEF RecordOk, Cur
<1>4. PICK d \in Kin(r) : t \in Below[d]
  BY <1>1, BelowKin
<1>5. d \in Task /\ c \in Below[d]
  BY <1>1, <1>4, KinFacts, BelowTask
<1>6. d = Cur(T, r)
  BY <1>1, <1>2, <1>3, <1>4, <1>5, Siblings
<1> QED
  BY <1>2, <1>4, <1>6 DEF Chosen

\* Who awaited a task destroys it and returns, or asks for the next.
LEMMA AwaitResumeGood ==
  ASSUME Good, NEW t, AwaitResume(t)
  PROVE  Good'
<1> DEFINE R == Tail(stack)
           c == Child(t)
           v == task[c].value
           U == Unlinked(t)
           X == Without(U, {c})
<1>1. /\ ret' = ret
      /\ IF t = Root
         THEN task' = [X EXCEPT ![t].at = "start"] /\ UNCHANGED stack
         ELSE Finish(X, t, v)
  BY DEF AwaitResume
<1>2. PICK a \in {"got", "asked"} : Running(t, a) /\ (a = "asked" => ret)
  BY DEF AwaitResume
<1>3. /\ R \in Seq(Frame) /\ stack = Push(Run(t), R) /\ Well(task, Push(Run(t), R), ret)
      /\ task \in [Task -> Record] /\ RecordOk(task, t) /\ task[t].at = a /\ t \in Task
      /\ \A j \in 1 .. Len(Kids[t]) : Link(task, t, j)
  BY <1>2, RunForm
<1>4. /\ t \notin Source /\ t \notin Race /\ task[t].index \in 1 .. Len(Kids[t])
      /\ (a = "asked" => ~task[t].forward /\ ~task[t].resolving) /\ c = Cur(task, t)
      /\ c \in Task /\ c \in Kin(t) /\ c # t /\ c = Kids[t][task[t].index]
      /\ Link(task, t, task[t].index) /\ \A d \in Kin(t) \ {c} : task[d].at = "none"
  BY <1>3, Awaiting DEF With, Cur, Child
<1> HIDE DEF c, R
<1>5. task[c].at = "done" /\ (a = "got" => task[c].awaiter = "task")
  <2>1. CASE a = "got"
    BY <1>3, <1>4, <2>1 DEF Link
  <2>2. CASE a = "asked"
    <3>1. Returned(task, Push(Run(t), R), ret) /\ Run(t) \in Frame
      BY <1>3, Parts DEF Run, Frame
    <3>2. Push(Run(t), R)[1] = Run(t) /\ Push(Run(t), R) # <<>>
      BY <1>3, <3>1, PushFacts
    <3>3. Run(t)[1] = "run" /\ Run(t)[2] = t
      BY DEF Run
    <3> QED
      BY <1>2, <1>3, <1>4, <2>2, <3>1, <3>2, <3>3 DEF Returned
  <2> QED
    BY <2>1, <2>2
<1>6. /\ U \in [Task -> Record] /\ \A x \in Task \ {t} : U[x] = task[x]
      /\ ~U[t].forward /\ ~U[t].resolving /\ U[t].at = a /\ U[t].index = task[t].index
      /\ U[t].awaiter = task[t].awaiter /\ U[t].forwarded = task[t].forwarded
      /\ U[t].driven = task[t].driven
  <2>1. CASE task[c].awaiter = "task" /\ task[t].forward
    <3> DEFINE r == [task[t] EXCEPT !.forward = FALSE, !.resolving = FALSE]
    <3>1. U = [task EXCEPT ![t] = r]
      BY <2>1 DEF Unlinked, c
    <3>2. task[t] \in Record
      BY <1>3
    <3>3. /\ r \in Record /\ ~r.forward /\ ~r.resolving /\ r.at = a /\ r.index = task[t].index
          /\ r.awaiter = task[t].awaiter /\ r.forwarded = task[t].forwarded
          /\ r.driven = task[t].driven
      BY <1>3, <3>2 DEF Record
    <3> HIDE DEF r, U
    <3> QED
      BY <1>3, <3>1, <3>3
  <2>2. CASE ~(task[c].awaiter = "task" /\ task[t].forward)
    <3>1. U = task
      BY <2>2 DEF Unlinked, c
    <3>2. ~task[t].forward
      BY <1>2, <1>4, <1>5, <2>2
    <3>3. ~task[t].resolving
      BY <1>2, <1>3, <3>2 DEF RecordOk
    <3> QED
      BY <1>3, <3>1, <3>2, <3>3
  <2> QED
    BY <2>1, <2>2
<1> HIDE DEF U
<1>7. X \in [Task -> Record]
      /\ \A x \in Task : X[x] = IF x \in UNION {Below[d] : d \in {c}} THEN Absent ELSE U[x]
  BY <1>4, <1>6, WithoutIs
<1>8. X[t] = U[t]
  <2>1. t \notin Below[c]
    BY <1>3, <1>4, NoCycle
  <2> QED
    BY <1>3, <1>7, <2>1
<1> HIDE DEF X
<1>9. \A x \in Task \ {t} : X[x] = IF x \in UNION {Below[d] : d \in {c}} THEN Absent ELSE task[x]
  BY <1>6, <1>7
<1>10. /\ ~X[t].forward /\ ~X[t].resolving
       /\ X[t].awaiter = task[t].awaiter /\ X[t].forwarded = task[t].forwarded
       /\ X[t].driven = task[t].driven
  BY <1>6, <1>8
<1>11. {c} \in SUBSET Kin(t)
  BY <1>4
<1>12. CASE t = Root
  <2>1. task' = [X EXCEPT ![t].at = "start"] /\ stack' = Push(Run(t), R)
    BY <1>1, <1>3, <1>12
  <2>2. "start" \in Ats
    BY DEF Ats, Awake
  <2>3. Moved(X, task', t, "start", X[t].index)
    BY <1>3, <1>7, <2>1, <2>2, Moves
  <2>4. /\ task' \in [Task -> Record]
        /\ \A x \in Task \ {t} : task'[x] = IF x \in UNION {Below[d] : d \in {c}} THEN Absent ELSE task[x]
        /\ task'[t].at = "start" /\ ~task'[t].forward /\ ~task'[t].resolving
        /\ task'[t].awaiter = task[t].awaiter /\ task'[t].forwarded = task[t].forwarded
        /\ task'[t].driven = task[t].driven
    BY <1>9, <1>10, <2>3 DEF Moved
  <2>5. Well(task', Push(Run(t), R), ret)
    BY <1>3, <1>4, <1>11, <2>4, Clears
  <2> QED
    BY <1>1, <2>1, <2>5 DEF Good
<1>13. CASE t # Root
  <2>1. Finish(X, t, v)
    BY <1>1, <1>13
  <2>2. v \in Nat
    BY <1>3, <1>4, Fields
  <2>3. \A r \in Race : t \in Below[r] \ {r} => Chosen(task, r, t)
    BY <1>3, <1>4, <1>5, ChosenUp
  <2> HIDE DEF v
  <2>4. Well(task', stack', ret)
    BY <1>3, <1>4, <1>7, <1>9, <1>10, <1>11, <1>13, <2>1, <2>2, <2>3, Leaves
  <2> QED
    BY <1>1, <2>4 DEF Good
<1> QED
  BY <1>12, <1>13

\* What a race's record says of itself.
LEMMA RaceForm ==
  ASSUME NEW r, NEW a, Good, Running(r, a), a \in {"point", "find", "found"} \/ r \in Race
  PROVE  /\ r \in Race /\ r \notin Source /\ r \notin Wrap /\ r # Root /\ r \notin Forwarding
         /\ ~task[r].forward /\ ~task[r].resolving
<1>1. r \in Task /\ RecordOk(task, r) /\ task[r].at = a
  BY RunForm
<1>2. r \in Race
  BY <1>1, TreeAssumption DEF RecordOk, With, Task
<1>3. r \notin Source /\ r \notin Wrap /\ r # Root /\ r \notin Forwarding
  BY <1>2, TreeAssumption
<1>4. ~task[r].forward
  BY <1>1, <1>3 DEF RecordOk
<1>5. ~task[r].resolving
  <2>1. a # "done" /\ a # "resolve"
    <3>1. a \in Awake
      <4>1. Well(task, Push(Run(r), Tail(stack)), ret) /\ Run(r) \in Frame /\ Tail(stack) \in Seq(Frame)
        BY <1>1, RunForm
      <4>2. Stacked(task, Push(Run(r), Tail(stack)))
        BY <4>1, Parts
      <4>3. FrameOk(task, Run(r), 1)
        BY <4>1, <4>2, PopStacked
      <4> QED
        BY <1>1, <4>3 DEF FrameOk, Run
    <3> QED
      BY <3>1 DEF Awake
  <2> QED
    BY <1>1, <1>4, <2>1 DEF RecordOk
<1> QED
  BY <1>2, <1>3, <1>4, <1>5

\* A race calls its children one after the other.
LEMMA CallNextGood ==
  ASSUME Good, NEW r, CallNext(r)
  PROVE  Good'
<1> DEFINE R == Tail(stack)
           i == task[r].index
           c == Kids[r][i]
           M == [task EXCEPT ![r].index = @ + 1]
<1>1. Running(r, "start") /\ ret' = ret /\ r \in Race
  BY DEF CallNext
<1>2. /\ R \in Seq(Frame) /\ stack = Push(Run(r), R) /\ Well(task, Push(Run(r), R), ret)
      /\ task \in [Task -> Record] /\ RecordOk(task, r) /\ task[r].at = "start" /\ r \in Task
      /\ \A j \in 1 .. Len(Kids[r]) : Link(task, r, j)
  BY <1>1, RunForm
<1>3. Run(r) \in Frame /\ (\A x \in Task : Run(x) \in Frame)
      /\ \A f, g \in Frame : <<f, g>> \o R = Push(f, Push(g, R))
  <2>1. \A f, g \in Frame : <<f, g>> \o R = Push(f, Push(g, R))
    BY <1>1, RunForm
  <2>2. \A x \in Task : Run(x) \in Frame
    BY <1>1, RunForm
  <2> QED
    BY <1>2, <2>1, <2>2
<1>4. /\ r \notin Source /\ r \notin Wrap /\ r # Root /\ r \notin Forwarding
      /\ ~task[r].forward /\ ~task[r].resolving /\ i \in 1 .. Len(Kids[r]) + 1
  <2>1. i \in 1 .. Len(Kids[r]) + 1
    BY <1>1, <1>2 DEF RecordOk
  <2> QED
    BY <1>1, <2>1, RaceForm
<1>5. Len(Kids[r]) \in Nat /\ i \in Nat
  BY <1>2, <1>4, KinFacts
<1> HIDE DEF R
<1>6. CASE i <= Len(Kids[r])
  <2>1. task' = [M EXCEPT ![c] = Fresh] /\ stack' = <<Run(c), Run(r)>> \o R
    BY <1>6 DEF CallNext, Call, Become, R
  <2>2. i \in 1 .. Len(Kids[r]) /\ i + 1 \in Nat
    BY <1>4, <1>5, <1>6
  <2>3. c \in Task /\ c \in Kin(r) /\ c # r
    BY <1>2, <2>2, Kid
  <2>4. Moved(task, M, r, "start", i + 1)
    <3>1. M = [task EXCEPT ![r].index = i + 1]
      BY <1>2
    <3> DEFINE n == i + 1
    <3>2. n \in Nat
      BY <2>2
    <3> HIDE DEF n
    <3>3. Moved(task, [task EXCEPT ![r].index = n], r, task[r].at, n)
      BY <1>2, <3>2, Counts
    <3> QED
      BY <1>2, <3>1, <3>3 DEF n
  <2>5. Fresh \in Record /\ Fresh.at = "start" /\ Fresh.awaiter = "none" /\ Fresh.forwarded = FALSE
    BY DEF Fresh, Absent, Record, Ats, Awake
  <2>6. task[c].at = "none" /\ c = Kids[r][i]
    BY <1>1, <1>2, <1>5, <2>2 DEF Link
  <2> HIDE DEF M, c, i
  <2>7. task' \in [Task -> Record] /\ task'[c] = Fresh /\ \A x \in Task \ {c} : task'[x] = M[x]
    BY <2>1, <2>3, <2>4, <2>5 DEF Moved
  <2>8. /\ task'[r] = M[r] /\ task'[r].at = "start" /\ task'[r].index = i + 1
        /\ task'[r].forward = task[r].forward /\ task'[r].resolving = task[r].resolving
        /\ task'[r].awaiter = task[r].awaiter /\ task'[r].forwarded = task[r].forwarded
        /\ task'[r].driven = task[r].driven
        /\ \A x \in Task \ {r, c} : task'[x] = task[x]
    BY <1>2, <2>3, <2>4, <2>7 DEF Moved
  <2>9. RecordOk(task', r)
    <3>1. i + 1 \in 1 .. Len(Kids[r]) + 1
      BY <1>5, <2>2
    <3> QED
      BY <1>1, <1>2, <1>4, <2>8, <3>1 DEF RecordOk, With
  <2>10. ASSUME NEW j \in 1 .. Len(Kids[r]) PROVE Link(task', r, j)
    <3>1. Link(task, r, j) /\ Kids[r][j] \in Task \ {r} /\ j \in Nat
      BY <1>2, <1>5, Kid
    <3>2. CASE j = i
      <4>1. Kids[r][j] = c /\ (j < i + 1)
        BY <1>5, <2>6, <3>2
      <4> QED
        BY <1>1, <1>4, <2>5, <2>7, <2>8, <3>1, <4>1 DEF Link, Bare, With
    <3>3. CASE j # i
      <4>1. Kids[r][j] # c
        <5>1. i \in 1 .. Len(Kids[r]) /\ r \in Task
          BY <1>2, <2>2
        <5>2. Kids[r][j] = Kids[r][i] => j = i
          BY <5>1, TreeAssumption
        <5> QED
          BY <2>6, <3>3, <5>2
      <4>2. task'[Kids[r][j]] = task[Kids[r][j]]
        BY <2>8, <3>1, <4>1
      <4>3. (j < i + 1) <=> (j < i)
        BY <1>5, <3>1, <3>3
      <4>4. i = task[r].index
        BY DEF i
      <4> QED
        BY <1>1, <1>2, <1>4, <2>8, <3>1, <4>2, <4>3, <4>4 DEF Link, Bare, With
    <3> QED
      BY <3>2, <3>3
  <2>11. Well(task', Push(Run(c), Push(Run(r), R)), ret)
    BY <1>2, <2>3, <2>6, <2>7, <2>8, <2>9, <2>10, Calls
  <2>12. stack' = Push(Run(c), Push(Run(r), R))
    BY <1>3, <2>1, <2>3
  <2> QED
    BY <1>1, <2>11, <2>12 DEF Good
<1>7. CASE ~(i <= Len(Kids[r]))
  <2>1. task' = [task EXCEPT ![r].at = "point"] /\ stack' = Push(Run(r), R)
    BY <1>2, <1>7 DEF CallNext
  <2>2. "point" \in Ats
    BY DEF Ats, Awake
  <2>3. Moved(task, task', r, "point", i)
    BY <1>2, <2>1, <2>2, Moves
  <2>4. RecordOk(task', r)
    BY <1>1, <1>2, <1>4, <2>3 DEF RecordOk, Moved, With
  <2>5. ASSUME NEW j \in 1 .. Len(Kids[r]) PROVE Link(task', r, j)
    <3>1. Link(task, r, j) /\ Kids[r][j] \in Task \ {r} /\ j < i
      BY <1>2, <1>5, <1>7, Kid
    <3>2. task'[Kids[r][j]] = task[Kids[r][j]] /\ task'[r].at = "point"
      BY <2>3, <3>1 DEF Moved
    <3> QED
      BY <1>1, <1>2, <1>4, <3>1, <3>2 DEF Link, Bare, With
  <2>6. Well(task', Push(Run(r), R), ret)
    BY <1>2, <2>3, <2>4, <2>5, MovedTurn
  <2> QED
    BY <1>1, <2>1, <2>6 DEF Good
<1> QED
  BY <1>6, <1>7

\* A race looks for a winner when it is awaited, and stops at its resolution point otherwise.
LEMMA RacePointGood ==
  ASSUME Good, NEW r, RacePoint(r)
  PROVE  Good'
<1> DEFINE R == Tail(stack)
           T == [x \in Task |-> IF x \in ToSet(Kids[r]) THEN [task[x] EXCEPT !.awaiter = "none"]
                              ELSE IF x = r THEN [task[x] EXCEPT !.index = 1] ELSE task[x]]
<1>1. /\ Running(r, "point") /\ ret' = ret
      /\ IF Active(T, r)
         THEN task' = [T EXCEPT ![r].at = "find"] /\ UNCHANGED stack
         ELSE task' = Resolvable([T EXCEPT ![r].at = "resolve"], r) /\ Become(<<>>)
  BY DEF RacePoint
<1>2. /\ R \in Seq(Frame) /\ stack = Push(Run(r), R) /\ Well(task, Push(Run(r), R), ret) /\ <<>> \o R = R
      /\ task \in [Task -> Record] /\ RecordOk(task, r) /\ task[r].at = "point" /\ r \in Task
      /\ \A j \in 1 .. Len(Kids[r]) : Link(task, r, j)
      /\ Records(task)
  BY <1>1, RunForm
<1>3. /\ r \notin Source /\ r \notin Wrap /\ r # Root /\ r \notin Forwarding /\ r \in Race
      /\ ~task[r].forward /\ ~task[r].resolving
  BY <1>1, RaceForm
<1>4. ToSet(Kids[r]) = Kin(r) /\ Kin(r) \subseteq Task \ {r}
  BY <1>2, KinFacts, NoCycle, BelowTask
<1>5. /\ T \in [Task -> Record] /\ \A x \in Task : x # r /\ x \notin Kin(r) => T[x] = task[x]
      /\ \A x \in Kin(r) : /\ T[x].at = task[x].at /\ T[x].resolving = task[x].resolving
                           /\ T[x].driven = task[x].driven /\ T[x].forward = task[x].forward
                           /\ T[x].index = task[x].index /\ T[x].forwarded = task[x].forwarded
                           /\ T[x].awaiter = "none"
      /\ Moved(task, [task EXCEPT ![r].index = 1], r, "point", 1)
      /\ T[r] = [task EXCEPT ![r].index = 1][r]
  <2>1. \A x \in Task : task[x] \in Record
    BY <1>2
  <2>2. ASSUME NEW x \in Task
        PROVE  /\ [task[x] EXCEPT !.awaiter = "none"] \in Record
               /\ [task[x] EXCEPT !.awaiter = "none"].at = task[x].at
               /\ [task[x] EXCEPT !.awaiter = "none"].resolving = task[x].resolving
               /\ [task[x] EXCEPT !.awaiter = "none"].driven = task[x].driven
               /\ [task[x] EXCEPT !.awaiter = "none"].forward = task[x].forward
               /\ [task[x] EXCEPT !.awaiter = "none"].index = task[x].index
               /\ [task[x] EXCEPT !.awaiter = "none"].forwarded = task[x].forwarded
               /\ [task[x] EXCEPT !.awaiter = "none"].awaiter = "none"
    BY <2>1 DEF Record
  <2>3. \A x \in Task : [task[x] EXCEPT !.index = 1] \in Record
    BY <2>1 DEF Record
  <2>4. T \in [Task -> Record]
    BY <2>1, <2>2, <2>3
  <2>5. \A x \in Kin(r) : x \in Task /\ T[x] = [task[x] EXCEPT !.awaiter = "none"]
    BY <1>4
  <2>6. \A x \in Task : x # r /\ x \notin Kin(r) => T[x] = task[x]
    BY <1>4
  <2>7. T[r] = [task[r] EXCEPT !.index = 1]
    BY <1>2, <1>4
  <2>8. [task EXCEPT ![r].index = 1][r] = [task[r] EXCEPT !.index = 1]
    BY <1>2
  <2>9. Moved(task, [task EXCEPT ![r].index = 1], r, "point", 1)
    <3>1. Moved(task, [task EXCEPT ![r].index = 1], r, task[r].at, 1)
      BY <1>2, Counts
    <3> QED
      BY <1>2, <3>1
  <2> HIDE DEF T
  <2>10. ASSUME NEW x \in Kin(r)
         PROVE  /\ T[x].at = task[x].at /\ T[x].resolving = task[x].resolving
                /\ T[x].driven = task[x].driven /\ T[x].forward = task[x].forward
                /\ T[x].index = task[x].index /\ T[x].forwarded = task[x].forwarded
                /\ T[x].awaiter = "none"
    <3>1. x \in Task /\ T[x] = [task[x] EXCEPT !.awaiter = "none"]
      BY <2>5
    <3> QED
      BY <2>2, <3>1
  <2> QED
    BY <2>4, <2>6, <2>7, <2>8, <2>9, <2>10
<1>6. /\ T[r].at = "point" /\ T[r].index = 1 /\ ~T[r].forward /\ ~T[r].resolving
      /\ T[r].awaiter = task[r].awaiter /\ T[r].forwarded = task[r].forwarded
      /\ T[r].driven = task[r].driven
  BY <1>3, <1>5 DEF Moved
<1> HIDE DEF T, R
<1>7. \A x \in Kin(r) : task[x].at = "none" => T[x] = task[x]
  <2>1. \A j \in 1 .. Len(Kids[r]) : task[Kids[r][j]].at # "none"
    BY <1>2, <1>3 DEF Link
  <2> QED
    BY <2>1 DEF Kin
<1>8. ASSUME NEW U, NEW k \in {"point", "find", "resolve"}, Moved(T, U, r, k, 1)
      PROVE  Turned(task, U, r) /\ U[r].at = k
  <2>1. /\ U \in [Task -> Record] /\ U[r].at = k /\ U[r].index = 1 /\ ~U[r].forward /\ ~U[r].resolving
        /\ U[r].awaiter = task[r].awaiter /\ U[r].forwarded = task[r].forwarded
        /\ U[r].driven = task[r].driven /\ \A x \in Task \ {r} : U[x] = T[x]
    BY <1>6, <1>8 DEF Moved
  <2>2. RecordOk(U, r)
    BY <1>2, <1>3, <2>1 DEF RecordOk, With
  <2>3. ASSUME NEW j \in 1 .. Len(Kids[r]) PROVE Link(U, r, j)
    <3>1. Link(task, r, j) /\ Kids[r][j] \in Kin(r) /\ Kids[r][j] \in Task \ {r}
      BY <1>2, Kid
    <3>2. /\ U[Kids[r][j]].at = task[Kids[r][j]].at
          /\ U[Kids[r][j]].forwarded = task[Kids[r][j]].forwarded
          /\ U[Kids[r][j]].awaiter = "none"
      BY <1>5, <2>1, <3>1
    <3> QED
      BY <1>2, <1>3, <2>1, <3>1, <3>2 DEF Link, Bare, With
  <2>4. \A x \in Task : x # r /\ x \notin Kin(r) => U[x] = task[x]
    BY <1>5, <2>1
  <2>5. ASSUME NEW x \in Kin(r)
        PROVE  /\ U[x].at = task[x].at /\ U[x].resolving = task[x].resolving /\ U[x].driven = task[x].driven
               /\ U[x].forward = task[x].forward /\ U[x].index = task[x].index
               /\ task[x].at = "none" => U[x] = task[x]
    <3>1. U[x] = T[x]
      BY <1>4, <2>1
    <3> QED
      BY <1>5, <1>7, <3>1
  <2>6. U[r].at \notin {"none", "done"}
    BY <2>1
  <2>7. Turned(task, U, r)
    BY <2>1, <2>2, <2>3, <2>4, <2>5, <2>6 DEF Turned
  <2> QED
    BY <2>1, <2>7
<1>9. Records(T)
  <2>1. Moved(T, T, r, "point", 1)
    BY <1>5, <1>6 DEF Moved
  <2>2. Turned(task, T, r)
    BY <1>8, <2>1
  <2> QED
    BY <1>2, <2>2, TurnedRecords
<1>10. CASE Active(T, r)
  <2>1. task' = [T EXCEPT ![r].at = "find"] /\ stack' = Push(Run(r), R)
    BY <1>1, <1>2, <1>10
  <2>2. "find" \in Ats /\ "find" \in Awake
    BY DEF Ats, Awake
  <2>3. Moved(T, task', r, "find", 1)
    BY <1>2, <1>5, <1>6, <2>1, <2>2, Moves
  <2>4. Turned(task, task', r) /\ task'[r].at = "find"
    BY <1>8, <2>3
  <2>5. \A q \in Race : r \in Below[q] \ {q} => Chosen(task, q, r)
    BY <1>9, <1>10, NotActive
  <2>6. Well(task', Push(Run(r), R), ret)
    BY <1>2, <2>2, <2>4, <2>5, Turn
  <2> QED
    BY <1>1, <2>1, <2>6 DEF Good
<1>11. CASE ~Active(T, r)
  <2> DEFINE U == [T EXCEPT ![r].at = "resolve"]
  <2>1. task' = Resolvable(U, r) /\ stack' = R
    BY <1>1, <1>2, <1>11 DEF Become, R
  <2>2. "resolve" \in Ats
    BY DEF Ats
  <2>3. Moved(T, U, r, "resolve", 1)
    BY <1>2, <1>5, <1>6, <2>2, Moves
  <2> HIDE DEF U
  <2>4. Turned(task, U, r) /\ U[r].at = "resolve"
    BY <1>8, <2>3
  <2>5. Well(Resolvable(U, r), R, ret)
    BY <1>2, <2>4, TurnAnnounce
  <2> QED
    BY <1>1, <2>1, <2>5 DEF Good
<1> QED
  BY <1>10, <1>11

\* A race asks each of its children in turn to resolve.
LEMMA FindGood ==
  ASSUME Good, NEW r, Find(r)
  PROVE  Good'
<1> DEFINE R == Tail(stack)
           i == task[r].index
           c == Kids[r][i]
<1>1. /\ Running(r, "find") /\ ret' = ret /\ i <= Len(Kids[r])
      /\ task' = [task EXCEPT ![r].at = "found"]
      /\ stack' = <<<<"loop", c>>, Run(r)>> \o R
  BY DEF Find, Become
<1>2. /\ R \in Seq(Frame) /\ stack = Push(Run(r), R) /\ Well(task, Push(Run(r), R), ret)
      /\ task \in [Task -> Record] /\ RecordOk(task, r) /\ task[r].at = "find" /\ r \in Task
      /\ \A j \in 1 .. Len(Kids[r]) : Link(task, r, j)
  BY <1>1, RunForm
<1>3. /\ r \notin Source /\ r \notin Wrap /\ r # Root /\ r \notin Forwarding /\ r \in Race
      /\ ~task[r].forward /\ ~task[r].resolving
  BY <1>1, RaceForm
<1>4. i \in 1 .. Len(Kids[r])
  <2>1. i >= 1 /\ i \in Nat /\ Len(Kids[r]) \in Nat
    BY <1>2, <1>3, Fields, KinFacts DEF RecordOk
  <2> QED
    BY <1>1, <2>1
<1>5. c \in Task /\ c \in Kin(r) /\ c # r /\ Parent(c) = r /\ c \in Below[r]
  BY <1>2, <1>4, Kid
<1>6. <<"loop", c>> \in Frame /\ Run(r) \in Frame /\ \A f, g \in Frame : <<f, g>> \o R = Push(f, Push(g, R))
  <2>1. \A f, g \in Frame : <<f, g>> \o R = Push(f, Push(g, R))
    BY <1>1, RunForm
  <2> QED
    BY <1>2, <1>5, <2>1 DEF Run, Frame
<1>7. stack' = Push(<<"loop", c>>, Push(Run(r), R))
  BY <1>1, <1>6
<1>8. Moved(task, task', r, "found", i)
  <2>1. "found" \in Ats
    BY DEF Ats, Awake
  <2> QED
    BY <1>1, <1>2, <2>1, Moves
<1> HIDE DEF R, i, c
<1>9. /\ task' \in [Task -> Record] /\ task'[r].at = "found" /\ task'[r].index = i
      /\ \A x \in Task \ {r} : task'[x] = task[x]
  BY <1>8 DEF Moved
<1>10. RecordOk(task', r)
  BY <1>2, <1>3, <1>4, <1>8 DEF RecordOk, With, Moved
<1>11. ASSUME NEW j \in 1 .. Len(Kids[r]) PROVE Link(task', r, j)
  <2>1. Link(task, r, j) /\ task'[Kids[r][j]] = task[Kids[r][j]]
    BY <1>2, <1>9, Kid
  <2> QED
    BY <1>2, <1>3, <1>9, <2>1 DEF Link, Bare, With
<1>12. Turned(task, task', r)
  BY <1>2, <1>8, <1>10, <1>11, MovedTurned
<1>13. Cur(task', r) = c
  BY <1>9 DEF Cur, c
<1>14. ASSUME NEW q \in Race, c \in Below[q] \ {q} PROVE Chosen(task', q, c)
  <2>1. CASE q = r
    BY <1>5, <1>9, <1>13, <2>1, BelowTask DEF Chosen
  <2>2. CASE q # r
    <3>1. q \in Task
      BY DEF Task
    <3>2. r \in Below[q] \ {q}
      BY <1>5, <1>14, <2>2, <3>1, BelowKin
    <3>3. Raced(task, Push(Run(r), R), q, r)
      BY <1>2, <3>2, Parts
    <3>4. task[q].at = "found" /\ r \in Below[Cur(task, q)]
      BY <1>2, <3>3 DEF Raced, Chosen, Advanced
    <3>5. Cur(task, q) \in Task
      <4>1. RecordOk(task, q)
        BY <1>2, <3>1, Parts
      <4> QED
        BY <3>1, <3>4, <4>1, Kid DEF RecordOk, Cur
    <3>6. c \in Below[Cur(task, q)]
      BY <1>5, <3>4, <3>5, BelowTask
    <3>7. task'[q] = task[q]
      BY <1>9, <2>2, <3>1
    <3> QED
      BY <3>4, <3>6, <3>7 DEF Chosen, Cur
  <2> QED
    BY <2>1, <2>2
<1>15. task[c].at # "none"
  BY <1>2, <1>3, <1>4 DEF Link, c
<1>16. \A x \in Kin(r) \ {c} : task'[x].forwarded = task[x].forwarded
  <2>1. Kin(r) \subseteq Task \ {r}
    BY <1>2, KinFacts, NoCycle, BelowTask
  <2> QED
    BY <1>9, <2>1
<1>17. Well(task', Push(<<"loop", c>>, Push(Run(r), R)), ret)
  <2>1. task[r].at # "found" /\ task'[r].at \in {"asked", "found"} /\ (task'[r].at = "found" => task[r].at = "find")
    BY <1>2, <1>9
  <2>2. \A q \in Race : c \in Below[q] \ {q} /\ ~task'[c].forwarded => Chosen(task', q, c)
    BY <1>14
  <2> QED
    BY <1>2, <1>5, <1>12, <1>13, <1>15, <1>16, <2>1, <2>2, Asks
<1> QED
  BY <1>1, <1>7, <1>17 DEF Good

\* While no child of a race is done, nothing below the race has gone beyond a resolution point.
LEMMA NoneAdvanced ==
  ASSUME NEW T, NEW r \in Race, NEW R \in Seq(Frame), NEW b, Well(T, Push(Run(r), R), b),
         T[r].at = "find" \/ (T[r].at = "found" /\ T[Cur(T, r)].at # "done")
  PROVE  \A x \in Below[r] \ {r} : T[x].at \notin Advanced
<1>1. /\ r \in Task /\ r \notin Wrap /\ r \notin Source /\ r # Root /\ Run(r) \in Frame
      /\ Stacked(T, Push(Run(r), R)) /\ Run(r)[2] = r
  BY TreeAssumption, Parts DEF Task, Run, Frame
<1>2. SUFFICES ASSUME NEW x \in Below[r] \ {r}, T[x].at \in Advanced PROVE FALSE
  OBVIOUS
<1>3. x \in Task /\ Raced(T, Push(Run(r), R), r, x)
  BY <1>1, BelowTask, Parts
<1>4. T[r].at = "found" /\ T[Cur(T, r)].at # "done" /\ x \in Below[Cur(T, r)]
  BY <1>2, <1>3 DEF Raced, Chosen
<1>5. ASSUME NEW y \in Below[r] \ {r} PROVE \A k : ~On(Push(Run(r), R), k, y)
  BY <1>1, <1>5, Deeper
<1>6. T[x].at \notin Awake
  <2>1. Framed(T, Push(Run(r), R), x)
    BY <1>3, Parts
  <2> QED
    BY <1>5, <2>1 DEF Framed
<1>7. T[x].at = "done"
  BY <1>2, <1>6 DEF Advanced, Awake
<1> DEFINE p == Parent(x)
<1>8. p \in Below[r] /\ p \in Task /\ x \in Kin(p)
  BY <1>1, BelowKin, BelowTask
<1>9. PICK i \in 1 .. Len(Kids[p]) : x = Kids[p][i]
  BY <1>8 DEF Kin
<1> HIDE DEF p
<1>10. p # r
  <2>1. SUFFICES ASSUME p = r PROVE FALSE
    OBVIOUS
  <2>2. RecordOk(T, r)
    BY <1>1, Parts
  <2>3. Cur(T, r) \in Kin(r) /\ Cur(T, r) \in Task
    BY <1>1, <1>4, <2>2, Kid DEF RecordOk, Cur
  <2>4. x \in Below[x]
    BY <1>3, BelowTask
  <2>5. x = Cur(T, r)
    BY <1>1, <1>4, <1>8, <2>1, <2>3, <2>4, Siblings
  <2> QED
    BY <1>4, <1>7, <2>5
<1>11. /\ T[p].at \notin Awake
       /\ ~(T[p].at = "child" /\ T[Cur(T, p)].at = "done")
  <2>1. Framed(T, Push(Run(r), R), p)
    BY <1>8, Parts
  <2> QED
    BY <1>5, <1>8, <1>10, <2>1 DEF Framed
<1>12. Link(T, p, i) /\ RecordOk(T, p) /\ T[p] \in Record
  BY <1>8, Parts
<1>13. p \in Race \/ p \notin Race
  OBVIOUS
<1>14. p \notin Source
  BY <1>9, TreeAssumption
<1>15. CASE p \in Race
  <2>1. T[p].at \in {"resolve", "asleep", "woken"}
    BY <1>7, <1>9, <1>11, <1>12, <1>15 DEF RecordOk, Link, Awake
  <2>2. p \in Task /\ x \in Below[p] \ {p}
    BY <1>8, NoCycle, BelowTask
  <2>3. Raced(T, Push(Run(r), R), p, x)
    BY <1>15, <2>2, Parts
  <2> QED
    BY <1>2, <2>1, <2>3 DEF Raced, Chosen
<1>16. CASE p \notin Race
  <2>1. T[p].at \in {"none", "start", "asleep", "woken", "done"} \cup With
    <3>1. p \in Wrap \cup {Root}
      BY <1>8, <1>14, <1>16 DEF Task
    <3> QED
      BY <1>12, <3>1 DEF RecordOk
  <2>2. ~Bare(T, p) /\ T[p].at \notin {"none", "done"}
    BY <1>7, <1>9, <1>12 DEF Link
  <2>3. T[p].at \in With
    BY <1>16, <2>1, <2>2 DEF Bare
  <2>4. T[p].at = "child"
    BY <1>11, <2>3 DEF With, Awake
  <2>5. i = T[p].index
    BY <1>7, <1>9, <1>12, <2>3 DEF Link
  <2>6. x = Cur(T, p)
    BY <1>9, <2>5 DEF Cur
  <2> QED
    BY <1>7, <1>11, <2>4, <2>6
<1> QED
  BY <1>15, <1>16

\* A race whose child has resolved destroys the others and returns, or asks the next.
LEMMA FoundGood ==
  ASSUME Good, NEW r, Found(r)
  PROVE  Good'
<1> DEFINE R == Tail(stack)
           i == task[r].index
           c == Kids[r][i]
<1>1. Running(r, "found") /\ ret' = ret
  BY DEF Found
<1>2. /\ R \in Seq(Frame) /\ stack = Push(Run(r), R) /\ Well(task, Push(Run(r), R), ret)
      /\ task \in [Task -> Record] /\ RecordOk(task, r) /\ task[r].at = "found" /\ r \in Task
      /\ \A j \in 1 .. Len(Kids[r]) : Link(task, r, j)
  BY <1>1, RunForm
<1>3. /\ r \notin Source /\ r \notin Wrap /\ r # Root /\ r \notin Forwarding /\ r \in Race
      /\ ~task[r].forward /\ ~task[r].resolving
  BY <1>1, RaceForm
<1>4. i \in 1 .. Len(Kids[r]) /\ i \in Nat /\ i + 1 \in Nat /\ i + 1 >= 1
  <2>1. i \in 1 .. Len(Kids[r]) /\ i \in Nat
    BY <1>2, Fields DEF RecordOk
  <2> QED
    BY <2>1
<1>5. c \in Task /\ c = Cur(task, r)
  BY <1>2, <1>4, Kid DEF Cur
<1>6. ret <=> task[c].at = "done"
  <2>1. Returned(task, Push(Run(r), R), ret) /\ Run(r) \in Frame
    BY <1>2, Parts DEF Run, Frame
  <2>2. Push(Run(r), R)[1] = Run(r) /\ Push(Run(r), R) # <<>>
    BY <1>2, <2>1, PushFacts
  <2>3. Run(r)[1] = "run" /\ Run(r)[2] = r
    BY DEF Run
  <2> QED
    BY <1>2, <1>5, <2>1, <2>2, <2>3 DEF Returned
<1> HIDE DEF R
<1>7. CASE ret
  <2> DEFINE X == Without(task, ToSet(Kids[r]))
             v == task[c].value
  <2>1. Finish(X, r, v)
    BY <1>7 DEF Found
  <2>2. v \in Nat
    BY <1>2, <1>5, Fields
  <2>3. ToSet(Kids[r]) = Kin(r) /\ Kin(r) \subseteq Task
    BY <1>2, KinFacts
  <2>4. /\ X \in [Task -> Record]
        /\ \A x \in Task : X[x] = IF x \in UNION {Below[d] : d \in Kin(r)} THEN Absent ELSE task[x]
    BY <1>2, <2>3, WithoutIs
  <2>5. r \notin UNION {Below[d] : d \in Kin(r)}
    BY <1>2, NoCycle
  <2>6. X[r] = task[r]
    BY <1>2, <2>4, <2>5
  <2> HIDE DEF X, v
  <2>7. \A q \in Race : r \in Below[q] \ {q} => Chosen(task, q, r)
    <3>1. "found" \in Advanced
      BY DEF Advanced
    <3>2. \A q \in Race : \A x \in Below[q] \ {q} : Raced(task, Push(Run(r), R), q, x)
      BY <1>2, Parts
    <3> QED
      BY <1>2, <3>1, <3>2 DEF Raced
  <2>8. ~X[r].forward /\ ~X[r].resolving /\ X[r].awaiter = task[r].awaiter
        /\ X[r].forwarded = task[r].forwarded /\ X[r].driven = task[r].driven
    BY <1>3, <2>6
  <2>9. \A x \in Task \ {r} : X[x] = IF x \in UNION {Below[d] : d \in Kin(r)} THEN Absent ELSE task[x]
    BY <2>4
  <2>10. Kin(r) \in SUBSET Kin(r) /\ \A d \in Kin(r) \ Kin(r) : task[d].at = "none"
    OBVIOUS
  <2>11. Well(task', stack', ret)
    BY <1>2, <1>3, <2>1, <2>2, <2>4, <2>7, <2>8, <2>9, <2>10, Leaves
  <2> QED
    BY <1>1, <2>11 DEF Good
<1>8. CASE ~ret
  <2>1. task' = [task EXCEPT ![r].at = "find", ![r].index = @ + 1] /\ stack' = Push(Run(r), R)
    BY <1>2, <1>8 DEF Found
  <2> DEFINE n == i + 1
  <2>2. task' = [task EXCEPT ![r].at = "find", ![r].index = n]
    BY <1>2, <2>1
  <2>3. "find" \in Ats /\ "find" \in Awake /\ n \in Nat /\ n >= 1
    BY <1>4 DEF Ats, Awake
  <2> HIDE DEF n
  <2>4. Moved(task, task', r, "find", n)
    BY <1>2, <2>2, <2>3, Moves
  <2>5. task'[r].at = "find" /\ task'[r].index = n /\ \A x \in Task \ {r} : task'[x] = task[x]
    BY <2>4 DEF Moved
  <2>6. RecordOk(task', r)
    BY <1>2, <1>3, <2>3, <2>4 DEF RecordOk, With, Moved
  <2>7. ASSUME NEW j \in 1 .. Len(Kids[r]) PROVE Link(task', r, j)
    <3>1. Link(task, r, j) /\ task'[Kids[r][j]] = task[Kids[r][j]]
      BY <1>2, <2>5, Kid
    <3> QED
      BY <1>2, <1>3, <2>5, <3>1 DEF Link, Bare, With
  <2>8. Turned(task, task', r)
    BY <1>2, <2>4, <2>6, <2>7, MovedTurned
  <2>9. \A q \in Race : r \in Below[q] \ {q} => Chosen(task, q, r)
    <3>1. "found" \in Advanced
      BY DEF Advanced
    <3>2. \A q \in Race : \A x \in Below[q] \ {q} : Raced(task, Push(Run(r), R), q, x)
      BY <1>2, Parts
    <3> QED
      BY <1>2, <3>1, <3>2 DEF Raced
  <2>10. \A x \in Below[r] \ {r} : task[x].at \notin Advanced
    BY <1>2, <1>3, <1>5, <1>6, <1>8, NoneAdvanced
  <2>11. Well(task', Push(Run(r), R), ret)
    BY <1>2, <2>3, <2>5, <2>8, <2>9, <2>10, Turn
  <2> QED
    BY <1>1, <2>1, <2>11 DEF Good
<1> QED
  BY <1>7, <1>8

\* A race without a winner waits for any of its children, or returns if its event has triggered.
LEMMA NoneFoundGood ==
  ASSUME Good, NEW r, NoneFound(r)
  PROVE  Good'
<1> DEFINE R == Tail(stack)
           X == Without(task, ToSet(Kids[r]))
           U == [x \in Task |-> IF x = r THEN [task[x] EXCEPT !.at = "asleep"]
                        ELSE IF x \in ToSet(Kids[r]) THEN [task[x] EXCEPT !.awaiter = "event"]
                        ELSE task[x]]
<1>1. Running(r, "find") /\ ret' = ret
      /\ IF r \in cancelled THEN Finish(X, r, 0) ELSE task' = U /\ Become(<<>>)
  BY DEF NoneFound
<1>2. /\ R \in Seq(Frame) /\ stack = Push(Run(r), R) /\ Well(task, Push(Run(r), R), ret) /\ <<>> \o R = R
      /\ task \in [Task -> Record] /\ RecordOk(task, r) /\ task[r].at = "find" /\ r \in Task
      /\ \A j \in 1 .. Len(Kids[r]) : Link(task, r, j)
  BY <1>1, RunForm
<1>3. /\ r \notin Source /\ r \notin Wrap /\ r # Root /\ r \notin Forwarding /\ r \in Race
      /\ ~task[r].forward /\ ~task[r].resolving
  BY <1>1, RaceForm
<1>4. ToSet(Kids[r]) = Kin(r) /\ Kin(r) \subseteq Task \ {r}
  BY <1>2, KinFacts, NoCycle, BelowTask
<1>5. CASE r \in cancelled
  <2>1. Finish(X, r, 0)
    BY <1>1, <1>5
  <2>4. /\ X \in [Task -> Record]
        /\ \A x \in Task : X[x] = IF x \in UNION {Below[d] : d \in Kin(r)} THEN Absent ELSE task[x]
    BY <1>2, <1>4, WithoutIs
  <2>5. r \notin UNION {Below[d] : d \in Kin(r)}
    BY <1>2, NoCycle
  <2>6. X[r] = task[r]
    BY <1>2, <2>4, <2>5
  <2> HIDE DEF X, R
  <2>7. \A q \in Race : r \in Below[q] \ {q} => Chosen(task, q, r)
    <3>1. "find" \in Advanced
      BY DEF Advanced
    <3>2. \A q \in Race : \A x \in Below[q] \ {q} : Raced(task, Push(Run(r), R), q, x)
      BY <1>2, Parts
    <3> QED
      BY <1>2, <3>1, <3>2 DEF Raced
  <2>8. ~X[r].forward /\ ~X[r].resolving /\ X[r].awaiter = task[r].awaiter
        /\ X[r].forwarded = task[r].forwarded /\ X[r].driven = task[r].driven
    BY <1>3, <2>6
  <2>9. \A x \in Task \ {r} : X[x] = IF x \in UNION {Below[d] : d \in Kin(r)} THEN Absent ELSE task[x]
    BY <2>4
  <2>10. Kin(r) \in SUBSET Kin(r) /\ (\A d \in Kin(r) \ Kin(r) : task[d].at = "none") /\ 0 \in Nat
    OBVIOUS
  <2>11. Well(task', stack', ret)
    BY <1>2, <1>3, <2>1, <2>4, <2>7, <2>8, <2>9, <2>10, Leaves
  <2> QED
    BY <1>1, <2>11 DEF Good
<1>6. CASE r \notin cancelled
  <2>1. task' = U /\ stack' = R
    BY <1>1, <1>2, <1>6 DEF Become
  <2>2. ASSUME NEW x \in Task
        PROVE  /\ task[x] \in Record /\ [task[x] EXCEPT !.at = "asleep"] \in Record
               /\ [task[x] EXCEPT !.awaiter = "event"] \in Record
               /\ [task[x] EXCEPT !.awaiter = "event"].at = task[x].at
               /\ [task[x] EXCEPT !.awaiter = "event"].resolving = task[x].resolving
               /\ [task[x] EXCEPT !.awaiter = "event"].driven = task[x].driven
               /\ [task[x] EXCEPT !.awaiter = "event"].forward = task[x].forward
               /\ [task[x] EXCEPT !.awaiter = "event"].index = task[x].index
               /\ [task[x] EXCEPT !.awaiter = "event"].forwarded = task[x].forwarded
               /\ [task[x] EXCEPT !.awaiter = "event"].awaiter = "event"
    <3>1. task[x] \in Record
      BY <1>2
    <3> QED
      BY <3>1 DEF Record, Ats
  <2>3. task' \in [Task -> Record]
    BY <2>1, <2>2
  <2>4. \A x \in Task : x # r /\ x \notin Kin(r) => task'[x] = task[x]
    BY <1>4, <2>1
  <2>5. task'[r] = [task[r] EXCEPT !.at = "asleep"]
    BY <1>2, <2>1
  <2>6. \A x \in Kin(r) : x \in Task /\ task'[x] = [task[x] EXCEPT !.awaiter = "event"]
    BY <1>4, <2>1
  <2> HIDE DEF U, R
  <2>7. task'[r].at = "asleep" /\ ~task'[r].forward /\ ~task'[r].resolving
        /\ task'[r].awaiter = task[r].awaiter /\ task'[r].forwarded = task[r].forwarded
        /\ task'[r].driven = task[r].driven
    <3> DEFINE e == [task[r] EXCEPT !.at = "asleep"]
    <3>1. task[r] \in Record
      BY <1>2
    <3>2. /\ e.at = "asleep" /\ e.forward = task[r].forward /\ e.resolving = task[r].resolving
          /\ e.awaiter = task[r].awaiter /\ e.forwarded = task[r].forwarded /\ e.driven = task[r].driven
      BY <3>1 DEF Record
    <3> HIDE DEF e
    <3>3. task'[r] = e
      BY <2>5 DEF e
    <3> QED
      BY <1>3, <3>2, <3>3
  <2>8. RecordOk(task', r)
    BY <1>3, <2>7 DEF RecordOk, With
  <2>9. ASSUME NEW j \in 1 .. Len(Kids[r]) PROVE Link(task', r, j)
    <3>1. Link(task, r, j) /\ Kids[r][j] \in Kin(r)
      BY <1>2, Kid
    <3>2. /\ task'[Kids[r][j]].at = task[Kids[r][j]].at
          /\ task'[Kids[r][j]].forwarded = task[Kids[r][j]].forwarded
          /\ task'[Kids[r][j]].awaiter = "event"
      <4> DEFINE d == Kids[r][j]
      <4>1. d \in Task /\ task'[d] = [task[d] EXCEPT !.awaiter = "event"]
        BY <2>6, <3>1
      <4> HIDE DEF d
      <4>2. /\ task'[d].at = task[d].at /\ task'[d].forwarded = task[d].forwarded
            /\ task'[d].awaiter = "event"
        BY <2>2, <4>1
      <4> QED
        BY <4>2 DEF d
    <3> QED
      BY <1>2, <1>3, <2>7, <3>1, <3>2 DEF Link, Bare, With
  <2>10. ASSUME NEW x \in Kin(r)
         PROVE  /\ task'[x].at = task[x].at /\ task'[x].resolving = task[x].resolving
                /\ task'[x].driven = task[x].driven
                /\ task'[x].forward = task[x].forward /\ task'[x].index = task[x].index
                /\ task[x].at = "none" => task'[x] = task[x]
    <3>1. x \in Task /\ task'[x] = [task[x] EXCEPT !.awaiter = "event"]
      BY <2>6
    <3>2. task[x].at # "none"
      <4>1. \A j \in 1 .. Len(Kids[r]) : task[Kids[r][j]].at # "none"
        BY <1>2, <1>3 DEF Link
      <4> QED
        BY <4>1 DEF Kin
    <3> QED
      BY <2>2, <3>1, <3>2
  <2>11. Turned(task, task', r)
    BY <2>3, <2>4, <2>7, <2>8, <2>9, <2>10 DEF Turned
  <2>12. "asleep" \notin Awake /\ "asleep" \notin Advanced
    BY DEF Awake, Advanced
  <2>13. Well(task', R, ret)
    BY <1>2, <2>7, <2>11, <2>12, Turn
  <2> QED
    BY <1>1, <2>1, <2>13 DEF Good
<1> QED
  BY <1>5, <1>6

\* A task's record with another answer to whether it is resolvable, and driven.
Marked(T, U, t, e, d) ==
  /\ U \in [Task -> Record] /\ \A x \in Task \ {t} : U[x] = T[x]
  /\ U[t].at = T[t].at /\ U[t].index = T[t].index /\ U[t].forward = T[t].forward
  /\ U[t].awaiter = T[t].awaiter /\ U[t].forwarded = T[t].forwarded /\ U[t].value = T[t].value
  /\ U[t].resolving = e /\ U[t].driven = d

\* To mark a task as resolving or as driven sets nothing else.
LEMMA Marks ==
  ASSUME NEW T \in [Task -> Record], NEW t \in Task, NEW e \in BOOLEAN, NEW d \in BOOLEAN
  PROVE  /\ Marked(T, [T EXCEPT ![t].resolving = e, ![t].driven = d], t, e, d)
         /\ Marked(T, [T EXCEPT ![t].resolving = e], t, e, T[t].driven)
         /\ Marked(T, [T EXCEPT ![t].driven = d], t, T[t].resolving, d)
<1>1. T[t] \in Record
  OBVIOUS
<1>2. Marked(T, [T EXCEPT ![t].resolving = e, ![t].driven = d], t, e, d)
  <2> DEFINE r == [T[t] EXCEPT !.resolving = e, !.driven = d]
  <2>1. [T EXCEPT ![t].resolving = e, ![t].driven = d] = [T EXCEPT ![t] = r]
    OBVIOUS
  <2>2. /\ r \in Record /\ r.at = T[t].at /\ r.index = T[t].index /\ r.forward = T[t].forward
        /\ r.awaiter = T[t].awaiter /\ r.forwarded = T[t].forwarded /\ r.value = T[t].value
        /\ r.resolving = e /\ r.driven = d
    BY <1>1 DEF Record
  <2> HIDE DEF r
  <2> QED
    BY <2>1, <2>2 DEF Marked
<1>3. Marked(T, [T EXCEPT ![t].resolving = e], t, e, T[t].driven)
  <2> DEFINE r == [T[t] EXCEPT !.resolving = e]
  <2>1. [T EXCEPT ![t].resolving = e] = [T EXCEPT ![t] = r]
    OBVIOUS
  <2>2. /\ r \in Record /\ r.at = T[t].at /\ r.index = T[t].index /\ r.forward = T[t].forward
        /\ r.awaiter = T[t].awaiter /\ r.forwarded = T[t].forwarded /\ r.value = T[t].value
        /\ r.resolving = e /\ r.driven = T[t].driven
    BY <1>1 DEF Record
  <2> HIDE DEF r
  <2> QED
    BY <2>1, <2>2 DEF Marked
<1>4. Marked(T, [T EXCEPT ![t].driven = d], t, T[t].resolving, d)
  <2> DEFINE r == [T[t] EXCEPT !.driven = d]
  <2>1. [T EXCEPT ![t].driven = d] = [T EXCEPT ![t] = r]
    OBVIOUS
  <2>2. /\ r \in Record /\ r.at = T[t].at /\ r.index = T[t].index /\ r.forward = T[t].forward
        /\ r.awaiter = T[t].awaiter /\ r.forwarded = T[t].forwarded /\ r.value = T[t].value
        /\ r.resolving = T[t].resolving /\ r.driven = d
    BY <1>1 DEF Record
  <2> HIDE DEF r
  <2> QED
    BY <2>1, <2>2 DEF Marked
<1> QED
  BY <1>2, <1>3, <1>4

\* The innermost frame is a place in resolve().
LEMMA PlaceForm ==
  ASSUME Good, NEW k \in {"loop", "fwd", "after"}, NEW t, In(k, t)
  PROVE  /\ t \in Task /\ Tail(stack) \in Seq(Frame)
         /\ stack = Push(<<k, t>>, Tail(stack)) /\ Well(task, Push(<<k, t>>, Tail(stack)), ret)
         /\ <<>> \o Tail(stack) = Tail(stack)
         /\ \A f \in Frame : <<f>> \o Tail(stack) = Push(f, Tail(stack))
         /\ \A f, g \in Frame : <<f, g>> \o Tail(stack) = Push(f, Push(g, Tail(stack)))
         /\ \A h \in {"run", "loop", "fwd", "after"} : \A x \in Task : <<h, x>> \in Frame
         /\ task \in [Task -> Record] /\ RecordOk(task, t) /\ task[t] \in Record
         /\ Stacked(task, Push(<<k, t>>, Tail(stack)))
         /\ FrameOk(task, <<k, t>>, 1)
<1>1. stack # <<>> /\ Head(stack) = <<k, t>>
  BY DEF In
<1>2. \A h \in {"run", "loop", "fwd", "after"} : \A x \in Task : <<h, x>> \in Frame
  BY DEF Frame
<1>3. t \in Task /\ Tail(stack) \in Seq(Frame) /\ <<k, t>> \in Frame
      /\ stack = Push(<<k, t>>, Tail(stack)) /\ Well(task, Push(<<k, t>>, Tail(stack)), ret)
      /\ <<>> \o Tail(stack) = Tail(stack)
  BY <1>1, TopForm
<1>4. \A f \in Frame : <<f>> \o Tail(stack) = Push(f, Tail(stack))
  BY <1>1, TopForm
<1>5. \A f, g \in Frame : <<f, g>> \o Tail(stack) = Push(f, Push(g, Tail(stack)))
  BY <1>1, TopForm
<1>6. task \in [Task -> Record] /\ RecordOk(task, t) /\ task[t] \in Record
      /\ Stacked(task, Push(<<k, t>>, Tail(stack)))
  BY <1>3, Parts
<1>7. FrameOk(task, <<k, t>>, 1)
  BY <1>3, <1>6, PopStacked
<1> QED
  BY <1>2, <1>3, <1>4, <1>5, <1>6, <1>7

\* resolve() returns, goes down to the forwarded task or calls the coroutine.
LEMMA ResolveLoopGood ==
  ASSUME Good, NEW t, ResolveLoop(t)
  PROVE  Good'
<1> DEFINE R == Tail(stack)
<1>1. In("loop", t)
  BY DEF ResolveLoop
<1>2. /\ t \in Task /\ R \in Seq(Frame) /\ Well(task, Push(<<"loop", t>>, R), ret) /\ <<>> \o R = R
      /\ task \in [Task -> Record] /\ RecordOk(task, t) /\ FrameOk(task, <<"loop", t>>, 1)
      /\ Stacked(task, Push(<<"loop", t>>, R))
  BY <1>1, PlaceForm
<1>3. \A f, g \in Frame : <<f, g>> \o R = Push(f, Push(g, R))
  BY <1>1, PlaceForm
<1>4. \A h \in {"run", "loop", "fwd", "after"} : \A x \in Task : <<h, x>> \in Frame
  BY <1>1, PlaceForm
<1>5. task[t].at # "none"
  BY <1>2 DEF FrameOk
<1>6. CASE task[t].at = "done" \/ ~task[t].resolving \/ task[t].forwarded
  <2>1. ret' = (task[t].at = "done") /\ stack' = R /\ task' = task
    BY <1>2, <1>6 DEF ResolveLoop, Become
  <2>2. Well(task, R, task[t].at = "done")
    BY <1>2, <1>6, Stops
  <2> QED
    BY <2>1, <2>2 DEF Good
<1>7. CASE ~(task[t].at = "done" \/ ~task[t].resolving \/ task[t].forwarded) /\ task[t].forward
  <2>1. ret' = ret /\ task' = [task EXCEPT ![t].resolving = FALSE]
        /\ stack' = <<<<"loop", Child(t)>>, <<"fwd", t>>>> \o R
    BY <1>7 DEF ResolveLoop, Become
  <2>2. Marked(task, task', t, FALSE, task[t].driven)
    BY <1>2, <2>1, Marks
  <2>3. Resolving(task, task', t) /\ task'[t].driven = task[t].driven
    BY <1>5, <2>2 DEF Marked, Resolving
  <2>4. Well(task', Push(<<"loop", Cur(task, t)>>, Push(<<"fwd", t>>, R)), ret)
    BY <1>2, <1>7, <2>3, Descends
  <2>5. task[t].index \in 1 .. Len(Kids[t])
    BY <1>2, <1>7 DEF RecordOk, With
  <2>6. Cur(task, t) = Child(t) /\ Child(t) \in Task
    BY <1>2, <2>5, Kid DEF Cur, Child
  <2>7. stack' = Push(<<"loop", Cur(task, t)>>, Push(<<"fwd", t>>, R))
    BY <1>2, <1>3, <1>4, <2>1, <2>6
  <2> QED
    BY <2>1, <2>4, <2>7 DEF Good
<1>8. CASE ~(task[t].at = "done" \/ ~task[t].resolving \/ task[t].forwarded) /\ ~task[t].forward
  <2> DEFINE U == [task EXCEPT ![t].resolving = FALSE, ![t].driven = TRUE]
  <2>1. ret' = ret /\ task' = [U EXCEPT ![t].at = Onward(t, U[t].at)]
        /\ stack' = <<Run(t), <<"after", t>>>> \o R
    BY <1>8 DEF ResolveLoop, Become, Resumed
  <2>2. Marked(task, U, t, FALSE, TRUE)
    BY <1>2, Marks
  <2> HIDE DEF U
  <2>3. task[t].at = "resolve"
    BY <1>2, <1>8 DEF RecordOk
  <2>4. Resolving(task, U, t) /\ U[t].driven /\ U[t].at = "resolve" /\ ~U[t].resolving
        /\ U \in [Task -> Record] /\ \A x \in Task \ {t} : U[x] = task[x]
    BY <1>5, <2>2, <2>3 DEF Marked, Resolving
  <2>5. Well(U, Push(<<"after", t>>, R), ret)
    <3>1. FrameOk(U, <<"after", t>>, 1)
      BY <1>8, <2>2, <2>4 DEF FrameOk, Marked
    <3>2. On(Push(<<"after", t>>, R), "after", t)
      <4>1. <<"after", t>> \in Frame
        BY <1>2, <1>4
      <4> QED
        BY <1>2, <4>1, PushOn
    <3> QED
      BY <1>2, <1>8, <2>4, <3>1, <3>2, Swap
  <2> DEFINE k == Onward(t, "resolve")
  <2>6. k \in Ats /\ task' = [U EXCEPT ![t].at = k]
    BY <2>1, <2>4 DEF Onward, Ats, Awake
  <2> HIDE DEF k
  <2>7. Moved(U, task', t, k, U[t].index)
    BY <1>2, <2>4, <2>6, Moves
  <2>8. ~task'[t].resolving /\ k = Onward(t, "resolve")
    BY <2>4, <2>7 DEF Moved, k
  <2>9. Records(U)
    BY <2>5, Parts
  <2>10. Turned(U, task', t) /\ task'[t].at = k /\ k \in {"find", "take"}
         /\ \A y \in Task \ {t} : task'[y] = U[y]
    BY <1>2, <2>4, <2>7, <2>8, <2>9, OnwardTurned
  <2> DEFINE Q == Push(<<"after", t>>, R)
  <2>11. Q \in Seq(Frame) /\ Q[1] = <<"after", t>>
    BY <1>2, <1>4, PushFacts
  <2>12. stack' = Push(Run(t), Q)
    BY <1>2, <1>3, <1>4, <2>1 DEF Run
  <2> HIDE DEF Q
  <2>13. Q # <<>> => /\ Q[1][1] = "after" \/ (Q[1][1] = "run" /\ U[Q[1][2]].at \in {"called", "start"})
                     /\ Under(Run(t), Q[1])
    <3>1. Under(Run(t), <<"after", t>>)
      BY <1>2, BelowTask DEF Under, Run
    <3> QED
      BY <2>11, <3>1
  <2>14. ASSUME NEW r \in Race, t \in Below[r] \ {r} PROVE Chosen(U, r, t)
    <3>1. Raced(task, Push(<<"loop", t>>, R), r, t)
      BY <1>2, <2>14, Parts
    <3>2. On(Push(<<"loop", t>>, R), "loop", t)
      <4>1. <<"loop", t>> \in Frame
        BY <1>2, <1>4
      <4> QED
        BY <1>2, <4>1, PushOn
    <3>3. Chosen(task, r, t)
      BY <1>8, <3>1, <3>2 DEF Raced
    <3>4. r \in Task /\ r # t
      BY <2>14 DEF Task
    <3>5. U[r] = task[r]
      BY <2>4, <3>4
    <3> QED
      BY <3>3, <3>5 DEF Chosen, Cur
  <2>15. Well(U, Q, ret)
    BY <2>5 DEF Q
  <2>16. Well(task', Push(Run(t), Q), ret)
    BY <1>2, <2>4, <2>10, <2>11, <2>13, <2>14, <2>15, Wakes
  <2> QED
    BY <2>1, <2>12, <2>16 DEF Good
<1> QED
  BY <1>6, <1>7, <1>8

\* The forwarded task has resolved, or has not.
LEMMA ResolveForwardedGood ==
  ASSUME Good, NEW t, ResolveForwarded(t)
  PROVE  Good'
<1> DEFINE R == Tail(stack)
<1>1. In("fwd", t) /\ ret' = ret
  BY DEF ResolveForwarded
<1>2. /\ t \in Task /\ R \in Seq(Frame) /\ Well(task, Push(<<"fwd", t>>, R), ret) /\ <<>> \o R = R
      /\ task \in [Task -> Record] /\ RecordOk(task, t) /\ FrameOk(task, <<"fwd", t>>, 1)
  BY <1>1, PlaceForm
<1>3. \A f, g \in Frame : <<f, g>> \o R = Push(f, Push(g, R))
  BY <1>1, PlaceForm
<1>4. \A h \in {"run", "loop", "fwd", "after"} : \A x \in Task : <<h, x>> \in Frame
  BY <1>1, PlaceForm
<1>5. \A f \in Frame : <<f>> \o R = Push(f, R)
  BY <1>1, PlaceForm
<1>6. task[t].at = "child" /\ task[t].forward /\ ~task[t].forwarded
  BY <1>2 DEF FrameOk
<1>7. ret <=> task[Cur(task, t)].at = "done"
  <2>1. Returned(task, Push(<<"fwd", t>>, R), ret) /\ <<"fwd", t>> \in Frame
    BY <1>2, <1>4, Parts
  <2>2. Push(<<"fwd", t>>, R)[1] = <<"fwd", t>> /\ Push(<<"fwd", t>>, R) # <<>>
    BY <1>2, <2>1, PushFacts
  <2> QED
    BY <2>1, <2>2 DEF Returned
<1>8. CASE ret
  <2> DEFINE U == [task EXCEPT ![t].driven = TRUE]
  <2>1. task' = [U EXCEPT ![t].at = Onward(t, U[t].at)] /\ stack' = <<Run(t), <<"after", t>>>> \o R
    BY <1>8 DEF ResolveForwarded, Become, Resumed
  <2>2. Marked(task, U, t, task[t].resolving, TRUE)
    BY <1>2, Marks
  <2> HIDE DEF U
  <2>3. U \in [Task -> Record] /\ U[t].at = "child"
    BY <1>6, <2>2 DEF Marked
  <2>4. task' = [U EXCEPT ![t].at = "got"] /\ "got" \in Ats
    BY <2>1, <2>3 DEF Onward, Ats, Awake
  <2>5. Moved(U, task', t, "got", U[t].index)
    BY <1>2, <2>3, <2>4, Moves
  <2>6. /\ task' \in [Task -> Record] /\ \A x \in Task \ {t} : task'[x] = task[x]
        /\ task'[t].at = "got" /\ task'[t].driven /\ task'[t].forwarded = task[t].forwarded
        /\ task'[t].forward = task[t].forward
        /\ task'[t].awaiter = task[t].awaiter /\ task'[t].index = task[t].index
        /\ task'[t].resolving = task[t].resolving
    BY <2>2, <2>5 DEF Marked, Moved
  <2>7. Well(task', Push(<<"run", t>>, Push(<<"after", t>>, R)), ret)
    BY <1>2, <1>7, <1>8, <2>6, Forwarded
  <2>8. stack' = Push(<<"run", t>>, Push(<<"after", t>>, R))
    BY <1>2, <1>3, <1>4, <2>1 DEF Run
  <2> QED
    BY <1>1, <2>7, <2>8 DEF Good
<1>9. CASE ~ret
  <2>1. task' = task /\ stack' = Push(<<"loop", t>>, R)
    <3>1. <<"loop", t>> \in Frame
      BY <1>2, <1>4
    <3> QED
      BY <1>5, <1>9, <3>1 DEF ResolveForwarded, Become
  <2>2. Resolving(task, task, t)
    BY <1>2, <1>6 DEF Resolving
  <2>3. FrameOk(task, <<"loop", t>>, 1)
    BY <1>6 DEF FrameOk, Awake
  <2>4. task[t].driven => On(Push(<<"loop", t>>, R), "after", t)
    <3>1. <<"loop", t>> \in Frame /\ <<"fwd", t>> \in Frame
      BY <1>2, <1>4
    <3>2. Framed(task, Push(<<"fwd", t>>, R), t)
      BY <1>2, Parts
    <3>3. On(Push(<<"fwd", t>>, R), "after", t) <=> <<"fwd", t>> = <<"after", t>> \/ On(R, "after", t)
      BY <1>2, <3>1, PushOn
    <3>4. On(Push(<<"loop", t>>, R), "after", t) <=> <<"loop", t>> = <<"after", t>> \/ On(R, "after", t)
      BY <1>2, <3>1, PushOn
    <3> QED
      BY <3>2, <3>3, <3>4 DEF Framed
  <2>5. Well(task, Push(<<"loop", t>>, R), ret)
    BY <1>2, <1>7, <1>9, <2>2, <2>3, <2>4, Swap
  <2> QED
    BY <1>1, <2>1, <2>5 DEF Good
<1> QED
  BY <1>8, <1>9

\* The coroutine that resolve() called has come back.
LEMMA ResolveAgainGood ==
  ASSUME Good, NEW t, ResolveAgain(t)
  PROVE  Good'
<1> DEFINE R == Tail(stack)
<1>1. In("after", t) /\ ret' = ret /\ task' = [task EXCEPT ![t].driven = FALSE]
  BY DEF ResolveAgain
<1>2. /\ t \in Task /\ R \in Seq(Frame) /\ Well(task, Push(<<"after", t>>, R), ret)
      /\ task \in [Task -> Record] /\ RecordOk(task, t) /\ FrameOk(task, <<"after", t>>, 1)
      /\ Stacked(task, Push(<<"after", t>>, R))
  BY <1>1, PlaceForm
<1>3. <<"after", t>> \in Frame /\ <<"loop", t>> \in Frame
  BY <1>2 DEF Frame
<1>4. \A f \in Frame : <<f>> \o R = Push(f, R)
  BY <1>1, PlaceForm
<1>5. stack' = Push(<<"loop", t>>, R)
  BY <1>3, <1>4 DEF ResolveAgain, Become
<1>6. Marked(task, task', t, task[t].resolving, FALSE)
  BY <1>1, <1>2, Marks
<1>7. task[t].at # "none" /\ ~task[t].forwarded
  BY <1>2 DEF FrameOk
<1>8. task[t].at \notin Awake
  <2>1. SUFFICES ASSUME task[t].at \in Awake PROVE FALSE
    OBVIOUS
  <2>2. Framed(task, Push(<<"after", t>>, R), t)
    BY <1>2, Parts
  <2>3. On(Push(<<"after", t>>, R), "run", t)
    BY <2>1, <2>2 DEF Framed
  <2>4. On(Push(<<"after", t>>, R), "run", t) <=> <<"after", t>> = <<"run", t>> \/ On(R, "run", t)
    BY <1>2, <1>3, PushOn
  <2>5. PICK j \in 1 .. Len(R) : R[j] = <<"run", t>>
    BY <2>3, <2>4 DEF On
  <2>6. Under(<<"after", t>>, R[j])
    BY <1>2, <1>3, PopStacked
  <2> QED
    BY <2>5, <2>6 DEF Under
<1>9. Resolving(task, task', t) /\ FrameOk(task', <<"loop", t>>, 1) /\ ~task'[t].driven
  BY <1>6, <1>7, <1>8 DEF Resolving, Marked, FrameOk
<1>10. Well(task', Push(<<"loop", t>>, R), ret)
  BY <1>2, <1>9, Swap
<1> QED
  BY <1>1, <1>5, <1>10 DEF Good

\* A task that sleeps is woken.
Stirred(T, U, x) == U[x] = T[x] \/ (T[x].at = "asleep" /\ U[x] = [T[x] EXCEPT !.at = "woken"])

\* Between two steps of the driver only sleeping coroutines are touched, which are woken.
LEMMA StirGood ==
  ASSUME Good, stack = <<>>, stack' = stack, ret' = ret,
         \A x \in Task : Stirred(task, task', x), task' = [x \in Task |-> task'[x]]
  PROVE  Good'
<1>1. task \in [Task -> Record]
  BY Parts DEF Good
<1>2. ASSUME NEW x \in Task
      PROVE  /\ task'[x] \in Record
             /\ task'[x].index = task[x].index /\ task'[x].forward = task[x].forward
             /\ task'[x].forwarded = task[x].forwarded
             /\ task'[x].driven = task[x].driven /\ task'[x].awaiter = task[x].awaiter
             /\ task'[x].value = task[x].value
             /\ task'[x].at = task[x].at \/ (task[x].at = "asleep" /\ task'[x].at = "woken")
             /\ task[x].at = "none" => task'[x] = task[x]
             /\ task'[x].resolving => task[x].resolving \/ task[x].at \in {"done", "resolve"} \/ task[x].forward
  <2>1. task[x] \in Record
    BY <1>1
  <2>2. CASE task'[x] = task[x]
    BY <2>1, <2>2
  <2>3. CASE task[x].at = "asleep" /\ task'[x] = [task[x] EXCEPT !.at = "woken"]
    <3> DEFINE e == [task[x] EXCEPT !.at = "woken"]
    <3>1. /\ e \in Record /\ e.index = task[x].index /\ e.forward = task[x].forward
          /\ e.forwarded = task[x].forwarded /\ e.driven = task[x].driven
          /\ e.awaiter = task[x].awaiter /\ e.value = task[x].value /\ e.at = "woken"
          /\ e.resolving = task[x].resolving
      BY <2>1 DEF Record, Ats
    <3> HIDE DEF e
    <3>2. task'[x] = e
      BY <2>3 DEF e
    <3> QED
      BY <2>3, <3>1, <3>2
  <2> QED
    BY <2>2, <2>3 DEF Stirred
<1>3. task' \in [Task -> Record]
  BY <1>2
<1>4. Near(task, task')
  BY <1>2 DEF Near
<1>5. Well(task', stack, ret)
  BY <1>3, <1>4, Signal DEF Good
<1> QED
  BY <1>5 DEF Good

\* The event of an attempt() wakes a coroutine that sleeps.
LEMMA TimeoutGood ==
  ASSUME Good, NEW r \in Race, Timeout(r)
  PROVE  Good'
<1>1. stack = <<>> /\ stack' = stack /\ ret' = ret
      /\ task' = [task EXCEPT ![r].at = IF @ = "asleep" THEN "woken" ELSE @]
  BY DEF Timeout
<1>2. task \in [Task -> Record] /\ r \in Task
  BY Parts DEF Good, Task
<1>3. ASSUME NEW x \in Task PROVE Stirred(task, task', x)
  <2>1. CASE x # r
    BY <1>1, <1>2, <2>1 DEF Stirred
  <2>2. CASE x = r /\ task[r].at = "asleep"
    BY <1>1, <1>2, <2>2 DEF Stirred
  <2>3. CASE x = r /\ task[r].at # "asleep"
    <3>1. task' = [task EXCEPT ![r].at = task[r].at]
      BY <1>1, <1>2, <2>3
    <3>2. task'[r] = [task[r] EXCEPT !.at = task[r].at] /\ task[r] \in Record
      BY <1>2, <3>1
    <3>3. [task[r] EXCEPT !.at = task[r].at] = task[r]
      BY <3>2 DEF Record
    <3> QED
      BY <2>3, <3>2, <3>3 DEF Stirred
  <2> QED
    BY <2>1, <2>2, <2>3
<1>4. task' = [x \in Task |-> task'[x]]
  BY <1>1, <1>2
<1> QED
  BY <1>1, <1>3, <1>4, StirGood

\* A message wakes who waits at its port.
LEMMA DeliverGood ==
  ASSUME Good, NEW p \in Port, Deliver(p)
  PROVE  Good'
<1>1. stack = <<>> /\ stack' = stack /\ ret' = ret
      /\ task' = [t \in Task |-> IF t \in Source /\ PortOf[t] = p /\ task[t].at = "asleep"
                             THEN [task[t] EXCEPT !.at = "woken"] ELSE task[t]]
  BY DEF Deliver
<1>2. \A x \in Task : Stirred(task, task', x)
  BY <1>1 DEF Stirred
<1>3. task' = [x \in Task |-> task'[x]]
  BY <1>1
<1> QED
  BY <1>1, <1>2, <1>3, StirGood

\* An event wakes the wrap that waits for it.
LEMMA PauseOverGood ==
  ASSUME Good, NEW t \in Wrap, PauseOver(t)
  PROVE  Good'
<1>1. stack = <<>> /\ stack' = stack /\ ret' = ret /\ task[t].at = "asleep"
      /\ task' = [task EXCEPT ![t].at = "woken"]
  BY DEF PauseOver
<1>2. task \in [Task -> Record] /\ t \in Task
  BY Parts DEF Good, Task
<1>3. \A x \in Task : Stirred(task, task', x)
  BY <1>1, <1>2 DEF Stirred
<1>4. task' = [x \in Task |-> task'[x]]
  BY <1>1, <1>2
<1> QED
  BY <1>1, <1>3, <1>4, StirGood

\* The driver resumes a coroutine that was woken.
LEMMA ResumeGood ==
  ASSUME Good, NEW t \in Task, Resume(t)
  PROVE  Good'
<1> DEFINE k == CASE t \in Race -> "point" [] t \in Wrap -> "start" [] OTHER -> "look"
<1>1. /\ stack = <<>> /\ ret' = ret /\ task[t].at = "woken" /\ stack' = <<Run(t)>>
      /\ task' = [task EXCEPT ![t].at = k]
  BY DEF Resume
<1>2. task \in [Task -> Record] /\ RecordOk(task, t) /\ (\A i \in 1 .. Len(Kids[t]) : Link(task, t, i))
      /\ Well(task, <<>>, ret) /\ task[t] \in Record
  BY <1>1, Parts DEF Good
<1>3. t \in Source \cup Wrap \cup Race /\ t # Root
  <2>1. t # Root
    BY <1>1, <1>2 DEF RecordOk, With
  <2> QED
    BY <2>1 DEF Task
<1>4. k \in {"point", "start", "look"} /\ (t \in Race => k = "point") /\ (t \in Wrap => k = "start")
      /\ (t \in Source => k = "look")
  BY <1>3, TreeAssumption
<1>5. k \in Ats /\ k \notin Advanced
  BY <1>4 DEF Ats, Awake, Advanced
<1> HIDE DEF k
<1>6. Moved(task, task', t, k, task[t].index)
  BY <1>1, <1>2, <1>5, Moves
<1>7. /\ task'[t].at = k /\ task'[t].index = task[t].index /\ task'[t].forward = task[t].forward
      /\ task'[t].resolving = task[t].resolving /\ task'[t].awaiter = task[t].awaiter
      /\ task'[t].forwarded = task[t].forwarded /\ task' \in [Task -> Record]
      /\ \A x \in Task \ {t} : task'[x] = task[x]
  BY <1>6 DEF Moved
<1>8. (t \in Source => t \notin Wrap /\ t \notin Race) /\ (t \in Wrap => t \notin Race)
  BY TreeAssumption
<1>9. ~task[t].forward /\ ~task[t].resolving
  <2>1. ~task[t].forward
    BY <1>1, <1>2 DEF RecordOk
  <2> QED
    BY <1>1, <1>2, <2>1 DEF RecordOk
<1>10. RecordOk(task', t)
  BY <1>2, <1>3, <1>4, <1>7, <1>8, <1>9 DEF RecordOk, With
<1>11. ASSUME NEW i \in 1 .. Len(Kids[t]) PROVE Link(task', t, i)
  <2>1. Link(task, t, i) /\ task'[Kids[t][i]] = task[Kids[t][i]]
    BY <1>2, <1>7, Kid
  <2>2. t \notin Source
    BY TreeAssumption
  <2> QED
    BY <1>1, <1>3, <1>4, <1>7, <1>8, <2>1, <2>2 DEF Link, Bare, With
<1>12. Turned(task, task', t)
  BY <1>4, <1>6, <1>10, <1>11, MovedTurned
<1>13. Well(task', Push(Run(t), <<>>), ret)
  <2>1. <<>> \in Seq(Frame) /\ task'[t].at \in {"start", "look", "take", "point", "find"}
    BY <1>4, <1>7
  <2> QED
    BY <1>1, <1>2, <1>5, <1>7, <1>12, <2>1, Wakes
<1>14. stack' = Push(Run(t), <<>>)
  <2>1. <<Run(t)>> \in Seq(Frame) /\ <<Run(t)>> \o <<>> = <<Run(t)>>
    BY DEF Run, Frame
  <2> QED
    BY <1>1, <2>1 DEF Push
<1> QED
  BY <1>1, <1>13, <1>14 DEF Good

\* In the beginning only the root runs.
LEMMA InitGood ==
  ASSUME Init
  PROVE  Good
<1> DEFINE S == <<Run(Root)>>
<1>1. /\ task = [t \in Task |-> IF t = Root THEN Fresh ELSE Absent]
      /\ stack = S /\ ret = FALSE /\ Root \in Task
  BY DEF Init, Run, Task
<1>2. Fresh \in Record /\ Absent \in Record /\ Fresh.at = "start" /\ Absent.at = "none"
      /\ Fresh.awaiter = "none" /\ Absent.awaiter = "none" /\ ~Fresh.forwarded /\ ~Absent.forwarded
      /\ ~Fresh.forward /\ ~Fresh.resolving /\ ~Fresh.driven /\ ~Absent.driven
      /\ ~Absent.forward /\ ~Absent.resolving
  BY DEF Fresh, Absent, Record, Ats, Awake
<1>3. task \in [Task -> Record] /\ task[Root] = Fresh /\ \A x \in Task \ {Root} : task[x] = Absent
  BY <1>1, <1>2
<1>4. Run(Root) \in Frame /\ S \in Seq(Frame) /\ Len(S) = 1 /\ S[1] = Run(Root) /\ S # <<>>
      /\ Run(Root)[1] = "run" /\ Run(Root)[2] = Root
  BY <1>1 DEF Run, Frame
<1> HIDE DEF S
<1>5. Root \notin Source /\ Root \notin Wrap /\ Root \notin Race
  BY TreeAssumption
<1>6. ASSUME NEW t \in Task PROVE RecordOk(task, t)
  <2>1. CASE t = Root
    BY <1>2, <1>3, <1>5, <2>1 DEF RecordOk, With
  <2>2. CASE t # Root
    BY <1>2, <1>3, <2>2 DEF RecordOk, With
  <2> QED
    BY <2>1, <2>2
<1>7. ASSUME NEW t \in Task, NEW i \in 1 .. Len(Kids[t]) PROVE Link(task, t, i)
  <2>1. task[Kids[t][i]] = Absent
    BY <1>3, Kid
  <2>2. task[t].at = "none" \/ (task[t].at = "start" /\ t \notin Race)
    BY <1>2, <1>3, <1>5
  <2> QED
    BY <1>2, <2>1, <2>2 DEF Link, Bare, With
<1>8. Stacked(task, S)
  <2>1. FrameOk(task, S[1], 1)
    BY <1>2, <1>3, <1>4 DEF FrameOk, Awake
  <2>2. 1 .. Len(S) = {1} /\ \A i \in 1 .. Len(S) : i + 1 .. Len(S) = {}
    BY <1>4
  <2>3. 1 .. Len(S) - 1 = {}
    BY <1>4
  <2> QED
    BY <1>4, <2>1, <2>2, <2>3 DEF Stacked
<1>9. \A k, x : On(S, k, x) => k = "run" /\ x = Root
  <2>1. 1 .. Len(S) = {1}
    BY <1>4
  <2> QED
    BY <1>4, <2>1 DEF On, Run
<1>10. ASSUME NEW t \in Task PROVE Framed(task, S, t)
  <2>1. CASE t = Root
    <3>1. On(S, "run", Root)
      <4>1. 1 \in 1 .. Len(S) /\ S[1] = <<"run", Root>>
        BY <1>4 DEF Run
      <4> QED
        BY <4>1 DEF On
    <3> QED
      BY <1>2, <1>3, <2>1, <3>1 DEF Framed
  <2>2. CASE t # Root
    BY <1>2, <1>3, <2>2 DEF Framed, Awake
  <2> QED
    BY <2>1, <2>2
<1>11. Returned(task, S, ret)
  <2>1. S[1][1] = "run" /\ S[1][2] = Root /\ task[Root].at = "start"
    BY <1>2, <1>3, <1>4
  <2> QED
    BY <2>1 DEF Returned
<1>12. ASSUME NEW r \in Race, NEW x \in Below[r] \ {r} PROVE Raced(task, S, r, x)
  <2>1. x \in Task
    BY BelowTask DEF Task
  <2>2. task[x].at \notin Advanced
    BY <1>2, <1>3, <2>1 DEF Advanced
  <2> QED
    BY <1>9, <2>2 DEF Raced
<1> QED
  BY <1>1, <1>3, <1>4, <1>6, <1>7, <1>8, <1>10, <1>11, <1>12 DEF Good, Well, Typed, Inv, Records

\* Every step keeps the records, the stack and what resolve() returned right.
LEMMA StepGood ==
  ASSUME Good, [Next]_vars, \A p \in Port : queue[p] \in Seq(Nat)
  PROVE  Good'
<1>1. CASE UNCHANGED vars
  BY <1>1 DEF Good, vars
<1>2. CASE Execute
  <2> DEFINE t == Head(stack)[2]
  <2>1. \/ Look(t) \/ Take(t)
        \/ Pause(t) \/ CallChild(t) \/ AwaitChild(t) \/ PrepareAwaiter(t) \/ AwaitResume(t)
        \/ CallNext(t) \/ RacePoint(t) \/ Find(t) \/ Found(t) \/ NoneFound(t)
        \/ ResolveLoop(t) \/ ResolveForwarded(t) \/ ResolveAgain(t)
    BY <1>2 DEF Execute
  <2> HIDE DEF t
  <2> QED
    BY <2>1, LookGood, TakeGood, PauseGood, CallChildGood, AwaitChildGood, PrepareAwaiterGood,
       AwaitResumeGood, CallNextGood, RacePointGood, FindGood, FoundGood, NoneFoundGood,
       ResolveLoopGood, ResolveForwardedGood, ResolveAgainGood
<1>3. CASE \E t \in Task : Resume(t)
  BY <1>3, ResumeGood
<1>4. CASE \E t \in Wrap : PauseOver(t)
  BY <1>4, PauseOverGood
<1>5. CASE \E r \in Race : Timeout(r)
  BY <1>5, TimeoutGood
<1>6. ASSUME NEW p \in Port, Deliver(p) PROVE Good'
  BY <1>6, DeliverGood
<1>7. ASSUME NEW p \in Port, Rival(p) PROVE Good'
  BY <1>7 DEF Rival, Good
<1> QED
  BY <1>1, <1>2, <1>3, <1>4, <1>5, <1>6, <1>7 DEF Next

\* What is done stays done, with its value.
Keeps(T, U, x) == T[x].at = "done" => U[x].at = "done" /\ U[x].value = T[x].value

\* A resolution point changes nobody's value.
LEMMA ResolvableKeeps ==
  ASSUME NEW T \in [Task -> Record], NEW t
  PROVE  Resolvable(T, t) \in [Task -> Record]
         /\ \A x \in Task : Keeps(T, Resolvable(T, t), x)
<1> DEFINE F == Forwarders(T, t)
           K == {Parent(x) : x \in {y \in F : T[y].awaiter = "event"}} \cap Race
<1> HIDE DEF F, K
<1>1. Resolvable(T, t) =
        [x \in Task |-> [T[x] EXCEPT !.resolving = T[x].resolving \/ x \in F,
                                     !.at = IF x \in K /\ T[x].at = "asleep" THEN "woken" ELSE T[x].at]]
  BY DEF Resolvable, F, K
<1>2. ASSUME NEW x \in Task
      PROVE  Resolvable(T, t)[x] \in Record /\ Keeps(T, Resolvable(T, t), x)
  <2> DEFINE e == T[x].resolving \/ x \in F
             a == IF x \in K /\ T[x].at = "asleep" THEN "woken" ELSE T[x].at
             r == [T[x] EXCEPT !.resolving = e, !.at = a]
  <2>1. T[x] \in Record /\ Resolvable(T, t)[x] = r
    BY <1>1
  <2>2. e \in BOOLEAN /\ a \in Ats /\ (T[x].at = "done" => a = "done")
    BY <2>1 DEF Record, Ats
  <2> HIDE DEF e, a
  <2>3. r \in Record /\ r.at = a /\ r.value = T[x].value
    BY <2>1, <2>2 DEF Record
  <2> QED
    BY <2>1, <2>2, <2>3 DEF Keeps
<1> QED
  BY <1>1, <1>2

\* Nor does it to resume a coroutine.
LEMMA ResumedKeeps ==
  ASSUME NEW T \in [Task -> Record], NEW t, t \in Task
  PROVE  Resumed(T, t) \in [Task -> Record] /\ \A x \in Task : Keeps(T, Resumed(T, t), x)
<1> DEFINE k == Onward(t, T[t].at)
<1>1. k \in Ats /\ (T[t].at = "done" => k = "done")
  <2>1. T[t].at \in Ats
    BY Fields
  <2> QED
    BY <2>1 DEF Onward, Ats, Awake
<1>2. Resumed(T, t) = [T EXCEPT ![t].at = k]
  BY DEF Resumed
<1> HIDE DEF k
<1>3. Moved(T, Resumed(T, t), t, k, T[t].index)
  BY <1>1, <1>2, Moves
<1> QED
  BY <1>1, <1>3 DEF Moved, Keeps

\* A returned value is its task's; no other is lost.
LEMMA FinishKeeps ==
  ASSUME NEW X \in [Task -> Record], NEW t \in Task, t # Root, NEW v \in Nat, Finish(X, t, v)
  PROVE  /\ task'[t].at = "done" /\ task'[t].value = v
         /\ \A x \in Task \ {t} : Keeps(X, task', x)
<1> DEFINE U == [X EXCEPT ![t].at = "done", ![t].value = v]
           D == Resolvable(U, t)
           p == Parent(t)
<1>1. task' = D \/ task' = Resumed(D, p)
  BY DEF Finish
<1>2. U \in [Task -> Record] /\ U[t].at = "done" /\ U[t].value = v /\ \A x \in Task \ {t} : U[x] = X[x]
  <2> DEFINE r == [X[t] EXCEPT !.at = "done", !.value = v]
  <2>1. X[t] \in Record /\ U = [X EXCEPT ![t] = r]
    OBVIOUS
  <2>2. r \in Record /\ r.at = "done" /\ r.value = v
    BY <2>1 DEF Record, Ats
  <2> HIDE DEF r, U
  <2> QED
    BY <2>1, <2>2
<1> HIDE DEF U
<1>3. D \in [Task -> Record] /\ \A x \in Task : Keeps(U, D, x)
  BY <1>2, ResolvableKeeps
<1> HIDE DEF D
<1>4. p \in Task
  BY HasParent
<1> HIDE DEF p
<1>5. \A x \in Task : Keeps(D, Resumed(D, p), x)
  BY <1>3, <1>4, ResumedKeeps
<1>6. \A x \in Task : Keeps(U, task', x)
  BY <1>1, <1>3, <1>5 DEF Keeps
<1> QED
  BY <1>2, <1>6 DEF Keeps

\* Where message m is.
Somewhere(m) ==
  \/ m \in consumed
  \/ \E p \in Port : m \in ToSet(queue[p])
  \/ \E t \in Task : task[t].at = "done" /\ task[t].value = m

\* A message stays where it is if what is done stays so and the queues do not change.
LEMMA KeptStay ==
  ASSUME \A x \in Task : Keeps(task, task', x), queue' = queue, consumed \subseteq consumed',
         NEW m, Somewhere(m)
  PROVE  Somewhere(m)'
BY DEF Keeps, Somewhere

\* A coroutine that moves and is not done changes nobody's value.
LEMMA MovedKeeps ==
  ASSUME NEW T, NEW U, NEW t \in Task, NEW a, NEW n, Moved(T, U, t, a, n), T[t].at # "done"
  PROVE  \A x \in Task : Keeps(T, U, x)
BY DEF Moved, Keeps

\* If message m is the value of one of the tasks in S, it is v.
Carried(S, v, m) == \A x \in S : task[x].at = "done" /\ task[x].value = m => v = m

\* A coroutine's children are destroyed and it returns: what was done below it is what it returns.
LEMMA LeavesKeeps ==
  ASSUME NEW t \in Task, task[t].at # "done", t # Root, NEW K \in SUBSET Kin(t),
         NEW X \in [Task -> Record],
         \A x \in Task \ {t} : X[x] = IF x \in UNION {Below[c] : c \in K} THEN Absent ELSE task[x],
         NEW v \in Nat, Finish(X, t, v),
         NEW m, Carried(UNION {Below[c] : c \in K}, v, m),
         queue' = queue, consumed' = consumed, Somewhere(m)
  PROVE  Somewhere(m)'
<1>1. /\ task'[t].at = "done" /\ task'[t].value = v
      /\ \A x \in Task \ {t} : Keeps(X, task', x)
  BY FinishKeeps
<1>2. CASE \E x \in Task : task[x].at = "done" /\ task[x].value = m
  <2>1. PICK x \in Task : task[x].at = "done" /\ task[x].value = m
    BY <1>2
  <2>2. x # t
    BY <2>1
  <2>3. CASE x \in UNION {Below[c] : c \in K}
    <3>1. v = m
      BY <2>1, <2>3 DEF Carried
    <3> QED
      BY <1>1, <3>1 DEF Somewhere
  <2>4. CASE x \notin UNION {Below[c] : c \in K}
    <3>1. X[x] = task[x]
      BY <2>2, <2>4
    <3>2. task'[x].at = "done" /\ task'[x].value = m
      BY <1>1, <2>1, <2>2, <3>1 DEF Keeps
    <3> QED
      BY <3>2 DEF Somewhere
  <2> QED
    BY <2>3, <2>4
<1>3. CASE m \in consumed \/ \E p \in Port : m \in ToSet(queue[p])
  BY <1>3 DEF Somewhere
<1> QED
  BY <1>2, <1>3 DEF Somewhere

\* What is in a queue is its head or in its tail, and what is appended is in it too.
LEMMA QueueFacts ==
  ASSUME NEW q \in Seq(Nat)
  PROVE  /\ q # <<>> => /\ Head(q) \in Nat /\ Tail(q) \in Seq(Nat) /\ ToSet(q) = {Head(q)} \cup ToSet(Tail(q))
         /\ \A m \in Nat : Append(q, m) \in Seq(Nat) /\ ToSet(Append(q, m)) = ToSet(q) \cup {m}
<1>1. ASSUME q # <<>>
      PROVE  /\ Head(q) \in Nat /\ Tail(q) \in Seq(Nat) /\ ToSet(q) = {Head(q)} \cup ToSet(Tail(q))
  <2>1. /\ Head(q) \in Nat /\ Tail(q) \in Seq(Nat) /\ Len(Tail(q)) = Len(q) - 1 /\ Len(q) \in Nat \ {0}
        /\ Head(q) = q[1] /\ DOMAIN q = 1 .. Len(q) /\ DOMAIN Tail(q) = 1 .. Len(Tail(q))
    BY <1>1
  <2>2. \A i \in 1 .. Len(Tail(q)) : Tail(q)[i] = q[i + 1]
    BY <1>1
  <2>3. ASSUME NEW x \in ToSet(q) PROVE x \in {Head(q)} \cup ToSet(Tail(q))
    <3>1. PICK i \in 1 .. Len(q) : q[i] = x
      BY <2>1, <2>3 DEF ToSet
    <3>2. CASE i = 1
      BY <2>1, <3>1, <3>2
    <3>3. CASE i # 1
      <4>1. i - 1 \in 1 .. Len(Tail(q)) /\ (i - 1) + 1 = i
        BY <2>1, <3>1, <3>3
      <4>2. Tail(q)[i - 1] = x
        BY <2>2, <3>1, <4>1
      <4> QED
        BY <2>1, <4>1, <4>2 DEF ToSet
    <3> QED
      BY <3>2, <3>3
  <2>4. ASSUME NEW x \in {Head(q)} \cup ToSet(Tail(q)) PROVE x \in ToSet(q)
    <3>1. CASE x = Head(q)
      <4>1. 1 \in 1 .. Len(q)
        BY <2>1
      <4> QED
        BY <2>1, <3>1, <4>1 DEF ToSet
    <3>2. CASE x \in ToSet(Tail(q))
      <4>1. PICK i \in 1 .. Len(Tail(q)) : Tail(q)[i] = x
        BY <2>1, <3>2 DEF ToSet
      <4>2. i + 1 \in 1 .. Len(q) /\ q[i + 1] = x
        BY <2>1, <2>2, <4>1
      <4> QED
        BY <2>1, <4>2 DEF ToSet
    <3> QED
      BY <2>4, <3>1, <3>2
  <2> QED
    BY <2>1, <2>3, <2>4
<1>2. ASSUME NEW m \in Nat
      PROVE  Append(q, m) \in Seq(Nat) /\ ToSet(Append(q, m)) = ToSet(q) \cup {m}
  <2>1. /\ Append(q, m) \in Seq(Nat) /\ Len(Append(q, m)) = Len(q) + 1 /\ Len(q) \in Nat
        /\ DOMAIN q = 1 .. Len(q) /\ DOMAIN Append(q, m) = 1 .. Len(q) + 1
        /\ Append(q, m)[Len(q) + 1] = m /\ \A i \in 1 .. Len(q) : Append(q, m)[i] = q[i]
    OBVIOUS
  <2>2. ASSUME NEW x \in ToSet(Append(q, m)) PROVE x \in ToSet(q) \cup {m}
    <3>1. PICK i \in 1 .. Len(q) + 1 : Append(q, m)[i] = x
      BY <2>1, <2>2 DEF ToSet
    <3>2. i = Len(q) + 1 \/ i \in 1 .. Len(q)
      BY <2>1
    <3> QED
      BY <2>1, <3>1, <3>2 DEF ToSet
  <2>3. ASSUME NEW x \in ToSet(q) \cup {m} PROVE x \in ToSet(Append(q, m))
    <3>1. CASE x = m
      <4>1. Len(q) + 1 \in 1 .. Len(q) + 1
        BY <2>1
      <4> QED
        BY <2>1, <3>1, <4>1 DEF ToSet
    <3>2. CASE x \in ToSet(q)
      <4>1. PICK i \in 1 .. Len(q) : q[i] = x
        BY <2>1, <3>2 DEF ToSet
      <4>2. i \in 1 .. Len(q) + 1
        BY <2>1
      <4> QED
        BY <2>1, <4>1, <4>2 DEF ToSet
    <3> QED
      BY <2>3, <3>1, <3>2
  <2> QED
    BY <2>1, <2>2, <2>3
<1> QED
  BY <1>1, <1>2

\* What two changes keep, both together keep.
LEMMA KeepsTrans ==
  ASSUME NEW T, NEW U, NEW V, \A x \in Task : Keeps(T, U, x), \A x \in Task : Keeps(U, V, x)
  PROVE  \A x \in Task : Keeps(T, V, x)
BY DEF Keeps

\* To mark a task changes nobody's value.
LEMMA MarkedKeeps ==
  ASSUME NEW T, NEW U, NEW t \in Task, NEW e, NEW d, Marked(T, U, t, e, d)
  PROVE  U \in [Task -> Record] /\ \A x \in Task : Keeps(T, U, x)
BY DEF Marked, Keeps

\* The steps that do nothing to what is done, to the queues and to what was consumed.
Plain(t) ==
  \/ Look(t) \/ Pause(t) \/ CallChild(t) \/ AwaitChild(t) \/ PrepareAwaiter(t) \/ CallNext(t)
  \/ RacePoint(t) \/ Find(t) \/ ResolveLoop(t) \/ ResolveForwarded(t) \/ ResolveAgain(t)

\* A receive that looks at its queue changes nobody's value.
LEMMA LookKeeps ==
  ASSUME Good, NEW s, Look(s)
  PROVE  \A x \in Task : Keeps(task, task', x)
<1>1. PICK a \in {"start", "look"} : Running(s, a)
  BY DEF Look
<1>2. s \in Task /\ task \in [Task -> Record] /\ task[s].at = a
  BY <1>1, RunForm
<1>3. \/ \E k \in {"asleep", "take", "find"} : task' = [task EXCEPT ![s].at = k]
      \/ task' = Resolvable([task EXCEPT ![s].at = "resolve"], s)
  BY DEF Look, AwaitResolve, Onward
<1>4. ASSUME NEW k \in {"asleep", "take", "find", "resolve"}
      PROVE  [task EXCEPT ![s].at = k] \in [Task -> Record]
             /\ \A x \in Task : Keeps(task, [task EXCEPT ![s].at = k], x)
  <2>1. k \in Ats
    BY DEF Ats, Awake
  <2>2. Moved(task, [task EXCEPT ![s].at = k], s, k, task[s].index)
    BY <1>2, <2>1, Moves
  <2>3. task[s].at # "done"
    BY <1>2
  <2>4. \A x \in Task : Keeps(task, [task EXCEPT ![s].at = k], x)
    BY <1>2, <2>2, <2>3, MovedKeeps
  <2> QED
    BY <2>2, <2>4 DEF Moved
<1>5. CASE \E k \in {"asleep", "take", "find"} : task' = [task EXCEPT ![s].at = k]
  BY <1>4, <1>5
<1>6. CASE task' = Resolvable([task EXCEPT ![s].at = "resolve"], s)
  <2> DEFINE U == [task EXCEPT ![s].at = "resolve"]
  <2>1. U \in [Task -> Record] /\ \A x \in Task : Keeps(task, U, x)
    BY <1>4
  <2> HIDE DEF U
  <2>2. \A x \in Task : Keeps(U, Resolvable(U, s), x)
    BY <2>1, ResolvableKeeps
  <2>3. task' = Resolvable(U, s)
    BY <1>6 DEF U
  <2> QED
    BY <2>1, <2>2, <2>3 DEF Keeps
<1> QED
  BY <1>3, <1>5, <1>6

\* Nor does a call: who is called was not there.
LEMMA CallKeeps ==
  ASSUME Good, NEW t, CallChild(t) \/ CallNext(t) \/ Pause(t)
  PROVE  \A x \in Task : Keeps(task, task', x)
<1>1. Running(t, "start")
  BY DEF CallChild, CallNext, Pause
<1>2. t \in Task /\ task \in [Task -> Record] /\ task[t].at = "start" /\ RecordOk(task, t)
      /\ \A i \in 1 .. Len(Kids[t]) : Link(task, t, i)
  BY <1>1, RunForm
<1>3. ASSUME NEW i \in 1 .. Len(Kids[t]), NEW M, NEW a, NEW n, Moved(task, M, t, a, n),
             task[Kids[t][i]].at = "none", task' = [M EXCEPT ![Kids[t][i]] = Fresh]
      PROVE  \A x \in Task : Keeps(task, task', x)
  <2>1. \A x \in Task : Keeps(task, M, x)
    BY <1>2, <1>3, MovedKeeps
  <2>2. \A x \in Task \ {Kids[t][i]} : task'[x] = M[x]
    BY <1>3 DEF Moved
  <2> QED
    BY <1>3, <2>1, <2>2 DEF Keeps
<1>4. CASE Pause(t)
  <2>1. task' = [task EXCEPT ![t].at = "asleep", ![t].index = 0]
    BY <1>4 DEF Pause
  <2>2. "asleep" \in Ats /\ 0 \in Nat
    BY DEF Ats
  <2>3. Moved(task, task', t, "asleep", 0)
    BY <1>2, <2>1, <2>2, Moves
  <2> QED
    BY <1>2, <2>3, MovedKeeps
<1>5. CASE CallChild(t)
  <2>1. t \in Wrap \cup {Root}
    BY <1>5 DEF CallChild, Awaits
  <2>2. PICK i \in 1 .. Len(Kids[t]) :
          task' = [[task EXCEPT ![t].at = "called", ![t].index = i] EXCEPT ![Kids[t][i]] = Fresh]
    BY <1>5 DEF CallChild, Call
  <2>3. "called" \in Ats /\ i \in Nat
    BY <1>2, KinFacts DEF Ats, Awake
  <2>4. Moved(task, [task EXCEPT ![t].at = "called", ![t].index = i], t, "called", i)
    BY <1>2, <2>3, Moves
  <2>5. t \notin Race
    BY <2>1, TreeAssumption
  <2>6. task[Kids[t][i]].at = "none"
    BY <1>2, <2>5 DEF Link, Bare
  <2> QED
    BY <1>3, <2>2, <2>4, <2>6
<1>6. CASE CallNext(t)
  <2>1. t \in Race
    BY <1>6 DEF CallNext
  <2> DEFINE i == task[t].index
  <2>2. i \in 1 .. Len(Kids[t]) + 1 /\ Len(Kids[t]) \in Nat /\ i \in Nat
    BY <1>2, <2>1, KinFacts, Fields DEF RecordOk
  <2>3. CASE i <= Len(Kids[t])
    <3>1. task' = [[task EXCEPT ![t].index = @ + 1] EXCEPT ![Kids[t][i]] = Fresh]
      BY <1>6, <2>3 DEF CallNext, Call
    <3>2. i \in 1 .. Len(Kids[t])
      BY <2>2, <2>3
    <3> DEFINE n == i + 1
    <3>3. n \in Nat /\ [task EXCEPT ![t].index = @ + 1] = [task EXCEPT ![t].index = n]
      BY <1>2, <2>2
    <3>4. task[Kids[t][i]].at = "none"
      BY <1>2, <2>1, <2>2, <3>2 DEF Link
    <3>5. task' = [[task EXCEPT ![t].index = n] EXCEPT ![Kids[t][i]] = Fresh]
      BY <3>1, <3>3
    <3> HIDE DEF n
    <3>6. Moved(task, [task EXCEPT ![t].index = n], t, task[t].at, n)
      BY <1>2, <3>3, Counts
    <3> HIDE DEF i
    <3> QED
      BY <1>3, <3>2, <3>4, <3>5, <3>6
  <2>4. CASE ~(i <= Len(Kids[t]))
    <3>1. task' = [task EXCEPT ![t].at = "point"]
      BY <1>6, <2>4 DEF CallNext
    <3>2. "point" \in Ats
      BY DEF Ats, Awake
    <3>3. Moved(task, task', t, "point", task[t].index)
      BY <1>2, <3>1, <3>2, Moves
    <3> QED
      BY <1>2, <3>3, MovedKeeps
  <2> QED
    BY <2>3, <2>4
<1> QED
  BY <1>4, <1>5, <1>6

\* Nor does it to await a task.
LEMMA AwaitKeeps ==
  ASSUME Good, NEW t, AwaitChild(t) \/ PrepareAwaiter(t)
  PROVE  \A x \in Task : Keeps(task, task', x)
<1> DEFINE c == Child(t)
<1>1. PICK a \in {"called", "asked"} : Running(t, a)
  BY DEF AwaitChild, PrepareAwaiter
<1>2. t \in Task /\ task \in [Task -> Record] /\ task[t].at = a /\ RecordOk(task, t)
      /\ \A i \in 1 .. Len(Kids[t]) : Link(task, t, i)
  BY <1>1, RunForm
<1>3. c \in Task /\ c # t
  BY <1>2, Awaiting DEF With, Cur, Child
<1>4. task[t] \in Record /\ task[c] \in Record /\ task[t].at # "done"
  BY <1>2, <1>3
<1>5. CASE AwaitChild(t)
  <2> DEFINE e == t \in Forwarding /\ task[c].at # "done"
             r == [task[t] EXCEPT !.at = "asked"]
             q == [task[c] EXCEPT !.forwarded = e]
  <2>1. task' = [[task EXCEPT ![t] = r] EXCEPT ![c] = q]
    BY <1>2, <1>3, <1>5 DEF AwaitChild
  <2>2. q.at = task[c].at /\ q.value = task[c].value
    BY <1>4 DEF Record
  <2> HIDE DEF c, r, q
  <2>3. task'[c] = q /\ \A x \in Task \ {t, c} : task'[x] = task[x]
    BY <1>2, <1>3, <2>1
  <2> QED
    BY <1>2, <1>4, <2>2, <2>3 DEF Keeps
<1>6. CASE PrepareAwaiter(t)
  <2> DEFINE e == task[t].forward \/ task[c].forwarded
             r == [task[t] EXCEPT !.at = "child", !.forward = e]
             q == [task[c] EXCEPT !.awaiter = "task", !.forwarded = FALSE]
             L == [[task EXCEPT ![t] = r] EXCEPT ![c] = q]
             M == [L EXCEPT ![c].resolving = FALSE]
  <2>1. task' = Resumed(M, c) \/ task' = Resolvable(L, t) \/ task' = L
    <3> DEFINE G == [task EXCEPT ![t].at = "child", ![t].forward = @ \/ task[c].forwarded,
                                 ![c].awaiter = "task", ![c].forwarded = FALSE]
    <3>1. L = G
      BY <1>2, <1>3
    <3>2. task' = Resumed([G EXCEPT ![c].resolving = FALSE], c) \/ task' = Resolvable(G, t) \/ task' = G
      BY <1>6 DEF PrepareAwaiter
    <3> HIDE DEF G, L
    <3> QED
      BY <3>1, <3>2 DEF M
  <2>2. e \in BOOLEAN
    BY <1>4, Fields
  <2> HIDE DEF e, c
  <2>3. r \in Record
    BY <1>4, <2>2 DEF Record, Ats
  <2>4. q \in Record /\ q.at = task[c].at /\ q.value = task[c].value
    BY <1>4 DEF Record
  <2> HIDE DEF r, q
  <2>5. L \in [Task -> Record] /\ L[c] = q /\ \A x \in Task \ {t, c} : L[x] = task[x]
    BY <1>2, <1>3, <2>3, <2>4
  <2> HIDE DEF L
  <2>6. \A x \in Task : Keeps(task, L, x)
    BY <1>2, <1>4, <2>4, <2>5 DEF Keeps
  <2>7. Marked(L, M, c, FALSE, L[c].driven)
    BY <1>3, <2>5, Marks
  <2> HIDE DEF M
  <2>8. M \in [Task -> Record] /\ \A x \in Task : Keeps(L, M, x)
    BY <1>3, <2>7, MarkedKeeps
  <2>9. \A x \in Task : Keeps(M, Resumed(M, c), x)
    BY <1>3, <2>8, ResumedKeeps
  <2>10. \A x \in Task : Keeps(L, Resolvable(L, t), x)
    BY <2>5, ResolvableKeeps
  <2> QED
    BY <2>1, <2>6, <2>8, <2>9, <2>10 DEF Keeps
<1> QED
  BY <1>5, <1>6

\* Nor does a race that looks for a winner.
LEMMA RaceKeeps ==
  ASSUME Good, NEW r, RacePoint(r) \/ Find(r)
  PROVE  \A x \in Task : Keeps(task, task', x)
<1>1. PICK a \in {"point", "find"} : Running(r, a)
  BY DEF RacePoint, Find
<1>2. r \in Task /\ task \in [Task -> Record] /\ task[r].at = a
  BY <1>1, RunForm
<1>3. CASE Find(r)
  <2>1. task' = [task EXCEPT ![r].at = "found"] /\ "found" \in Ats
    BY <1>3 DEF Find, Ats, Awake
  <2>2. Moved(task, task', r, "found", task[r].index)
    BY <1>2, <2>1, Moves
  <2>3. task[r].at # "done"
    BY <1>2
  <2> QED
    BY <1>2, <2>2, <2>3, MovedKeeps
<1>4. CASE RacePoint(r)
  <2> DEFINE T == [x \in Task |-> IF x \in ToSet(Kids[r]) THEN [task[x] EXCEPT !.awaiter = "none"]
                              ELSE IF x = r THEN [task[x] EXCEPT !.index = 1] ELSE task[x]]
  <2>1. task' = [T EXCEPT ![r].at = "find"] \/ task' = Resolvable([T EXCEPT ![r].at = "resolve"], r)
    BY <1>4 DEF RacePoint
  <2>2. ASSUME NEW x \in Task
        PROVE  T[x] \in Record /\ T[x].at = task[x].at /\ T[x].value = task[x].value
    <3>1. task[x] \in Record
      BY <1>2
    <3>2. /\ [task[x] EXCEPT !.awaiter = "none"] \in Record
          /\ [task[x] EXCEPT !.awaiter = "none"].at = task[x].at
          /\ [task[x] EXCEPT !.awaiter = "none"].value = task[x].value
          /\ [task[x] EXCEPT !.index = 1] \in Record
          /\ [task[x] EXCEPT !.index = 1].at = task[x].at
          /\ [task[x] EXCEPT !.index = 1].value = task[x].value
      BY <3>1 DEF Record
    <3>3. T[x] = IF x \in ToSet(Kids[r]) THEN [task[x] EXCEPT !.awaiter = "none"]
                 ELSE IF x = r THEN [task[x] EXCEPT !.index = 1] ELSE task[x]
      OBVIOUS
    <3> HIDE DEF T
    <3> QED
      BY <3>1, <3>2, <3>3
  <2>3. T \in [Task -> Record]
    BY <2>2
  <2> HIDE DEF T
  <2>4. \A x \in Task : Keeps(task, T, x)
    BY <2>2 DEF Keeps
  <2>5. ASSUME NEW k \in {"find", "resolve"}
        PROVE  /\ [T EXCEPT ![r].at = k] \in [Task -> Record]
               /\ \A x \in Task : Keeps(task, [T EXCEPT ![r].at = k], x)
    <3>1. k \in Ats
      BY DEF Ats, Awake
    <3>2. Moved(T, [T EXCEPT ![r].at = k], r, k, T[r].index)
      BY <1>2, <2>3, <3>1, Moves
    <3>3. T[r].at # "done"
      BY <1>2, <2>2
    <3>4. \A x \in Task : Keeps(T, [T EXCEPT ![r].at = k], x)
      BY <1>2, <3>2, <3>3, MovedKeeps
    <3>5. [T EXCEPT ![r].at = k] \in [Task -> Record]
      BY <3>2 DEF Moved
    <3> QED
      BY <2>4, <3>4, <3>5 DEF Keeps
  <2> DEFINE U == [T EXCEPT ![r].at = "resolve"]
             W == [T EXCEPT ![r].at = "find"]
  <2>6. U \in [Task -> Record] /\ (\A x \in Task : Keeps(task, U, x)) /\ \A x \in Task : Keeps(task, W, x)
    BY <2>5
  <2>7. task' = W \/ task' = Resolvable(U, r)
    BY <2>1
  <2> HIDE DEF U, W
  <2>8. \A x \in Task : Keeps(U, Resolvable(U, r), x)
    BY <2>6, ResolvableKeeps
  <2> QED
    BY <2>6, <2>7, <2>8 DEF Keeps
<1> QED
  BY <1>3, <1>4

\* Nor does resolve().
LEMMA ResolveKeeps ==
  ASSUME Good, NEW t, ResolveLoop(t) \/ ResolveForwarded(t) \/ ResolveAgain(t)
  PROVE  \A x \in Task : Keeps(task, task', x)
<1>1. PICK k \in {"loop", "fwd", "after"} : In(k, t)
  BY DEF ResolveLoop, ResolveForwarded, ResolveAgain
<1>2. t \in Task /\ task \in [Task -> Record]
  BY <1>1, PlaceForm
<1>3. ASSUME NEW U, NEW e, NEW d, Marked(task, U, t, e, d), task' = U \/ task' = Resumed(U, t)
      PROVE  \A x \in Task : Keeps(task, task', x)
  <2>1. U \in [Task -> Record] /\ \A x \in Task : Keeps(task, U, x)
    BY <1>2, <1>3, MarkedKeeps
  <2>2. \A x \in Task : Keeps(U, Resumed(U, t), x)
    BY <1>2, <2>1, ResumedKeeps
  <2> QED
    BY <1>3, <2>1, <2>2 DEF Keeps
<1>4. \/ task' = task
      \/ task' = [task EXCEPT ![t].resolving = FALSE]
      \/ task' = Resumed([task EXCEPT ![t].resolving = FALSE, ![t].driven = TRUE], t)
      \/ task' = Resumed([task EXCEPT ![t].driven = TRUE], t)
      \/ task' = [task EXCEPT ![t].driven = FALSE]
  BY DEF ResolveLoop, ResolveForwarded, ResolveAgain
<1>5. /\ Marked(task, [task EXCEPT ![t].resolving = FALSE], t, FALSE, task[t].driven)
      /\ Marked(task, [task EXCEPT ![t].resolving = FALSE, ![t].driven = TRUE], t, FALSE, TRUE)
      /\ Marked(task, [task EXCEPT ![t].driven = TRUE], t, task[t].resolving, TRUE)
      /\ Marked(task, [task EXCEPT ![t].driven = FALSE], t, task[t].resolving, FALSE)
  BY <1>2, Marks
<1>6. CASE task' = task
  BY <1>6 DEF Keeps
<1>7. CASE task' = [task EXCEPT ![t].resolving = FALSE]
  BY <1>3, <1>5, <1>7
<1>8. CASE task' = Resumed([task EXCEPT ![t].resolving = FALSE, ![t].driven = TRUE], t)
  BY <1>3, <1>5, <1>8
<1>9. CASE task' = Resumed([task EXCEPT ![t].driven = TRUE], t)
  BY <1>3, <1>5, <1>9
<1>10. CASE task' = [task EXCEPT ![t].driven = FALSE]
  BY <1>3, <1>5, <1>10
<1> QED
  BY <1>4, <1>6, <1>7, <1>8, <1>9, <1>10

\* A plain step keeps what is done, the queues and what was consumed.
LEMMA PlainKeeps ==
  ASSUME Good, NEW t, Plain(t)
  PROVE  /\ \A x \in Task : Keeps(task, task', x)
         /\ queue' = queue /\ consumed' = consumed /\ sent' = sent
<1>1. queue' = queue /\ consumed' = consumed /\ sent' = sent
  BY DEF Plain, Look, Pause, CallChild, AwaitChild, PrepareAwaiter, CallNext, RacePoint, Find,
         ResolveLoop, ResolveForwarded, ResolveAgain
<1> QED
  BY <1>1, LookKeeps, CallKeeps, AwaitKeeps, RaceKeeps, ResolveKeeps DEF Plain

\* The messages and the queues.
Queues == sent \in Nat /\ queue \in [Port -> Seq(Nat)]

\* A message that a receive takes is its value.
LEMMA TakeStays ==
  ASSUME Good, Queues, NEW s, Take(s), NEW m, Somewhere(m)
  PROVE  Somewhere(m)'
<1>1. Running(s, "take") /\ consumed' = consumed
  BY DEF Take
<1>2. s \in Task /\ task \in [Task -> Record] /\ task[s].at = "take" /\ RecordOk(task, s)
  BY <1>1, RunForm
<1>3. s \in Source /\ s # Root
  BY <1>2, TreeAssumption DEF RecordOk, With, Task
<1> DEFINE p == PortOf[s]
<1>4. p \in Port /\ queue[p] \in Seq(Nat)
  BY <1>3, TreeAssumption DEF Queues
<1>5. CASE queue[p] = <<>>
  <2>1. task' = [task EXCEPT ![s].at = "look"] /\ queue' = queue /\ "look" \in Ats
    BY <1>5 DEF Take, Ats, Awake
  <2>2. Moved(task, task', s, "look", task[s].index) /\ task[s].at # "done"
    BY <1>2, <2>1, Moves
  <2>3. \A x \in Task : Keeps(task, task', x)
    BY <1>2, <2>2, MovedKeeps
  <2> QED
    BY <1>1, <2>1, <2>3, KeptStay
<1>6. CASE queue[p] # <<>>
  <2> DEFINE v == Head(queue[p])
  <2>1. Finish(task, s, v) /\ queue' = [queue EXCEPT ![p] = Tail(@)]
    BY <1>6 DEF Take
  <2>2. v \in Nat /\ ToSet(queue[p]) = {v} \cup ToSet(Tail(queue[p]))
    BY <1>4, <1>6, QueueFacts
  <2> HIDE DEF v, p
  <2>3. task'[s].at = "done" /\ task'[s].value = v /\ \A x \in Task \ {s} : Keeps(task, task', x)
    BY <1>2, <1>3, <2>1, <2>2, FinishKeeps
  <2>4. queue'[p] = Tail(queue[p]) /\ \A q \in Port \ {p} : queue'[q] = queue[q]
    BY <1>4, <2>1 DEF Queues
  <2>5. CASE m \in consumed
    BY <1>1, <2>5 DEF Somewhere
  <2>6. ASSUME NEW q \in Port, m \in ToSet(queue[q]) PROVE Somewhere(m)'
    <3>1. CASE q # p
      BY <2>4, <2>6, <3>1 DEF Somewhere
    <3>2. CASE q = p /\ m = v
      BY <1>2, <2>3, <3>2 DEF Somewhere
    <3>3. CASE q = p /\ m # v
      <4>1. m \in ToSet(queue'[p])
        BY <2>2, <2>4, <2>6, <3>3
      <4> QED
        BY <1>4, <4>1 DEF Somewhere
    <3> QED
      BY <3>1, <3>2, <3>3
  <2>7. ASSUME NEW x \in Task, task[x].at = "done", task[x].value = m PROVE Somewhere(m)'
    <3>1. x # s
      BY <1>2, <2>7
    <3> QED
      BY <2>3, <2>7, <3>1 DEF Keeps, Somewhere
  <2> QED
    BY <2>5, <2>6, <2>7 DEF Somewhere
<1> QED
  BY <1>5, <1>6

\* A task that is awaited is destroyed only as its value is returned, or consumed by the root.
LEMMA AwaitResumeStays ==
  ASSUME Good, NEW t, AwaitResume(t), NEW m, m # 0, Somewhere(m)
  PROVE  Somewhere(m)'
<1> DEFINE c == Child(t)
           v == task[c].value
           U == Unlinked(t)
           X == Without(U, {c})
<1>1. /\ queue' = queue
      /\ IF t = Root
         THEN task' = [X EXCEPT ![t].at = "start"] /\ consumed' = consumed \cup ({v} \ {0})
         ELSE Finish(X, t, v) /\ consumed' = consumed
  BY DEF AwaitResume
<1>2. PICK a \in {"got", "asked"} : Running(t, a) /\ (a = "asked" => ret)
  BY DEF AwaitResume
<1>3. /\ Well(task, Push(Run(t), Tail(stack)), ret) /\ Tail(stack) \in Seq(Frame)
      /\ task \in [Task -> Record] /\ RecordOk(task, t) /\ task[t].at = a /\ t \in Task
      /\ (\A j \in 1 .. Len(Kids[t]) : Link(task, t, j)) /\ Records(task)
  BY <1>2, RunForm
<1>4. /\ c \in Task /\ c \in Kin(t) /\ c # t /\ c = Cur(task, t) /\ Link(task, t, task[t].index)
      /\ task[t].index \in 1 .. Len(Kids[t])
  BY <1>3, Awaiting DEF With, Cur, Child
<1> HIDE DEF c
<1>5. task[c].at = "done"
  <2>1. CASE a = "got"
    BY <1>3, <1>4, <2>1 DEF Link, Cur
  <2>2. CASE a = "asked"
    <3>1. Returned(task, Push(Run(t), Tail(stack)), ret) /\ Run(t) \in Frame
      BY <1>3, Parts DEF Run, Frame
    <3>2. Push(Run(t), Tail(stack))[1] = Run(t) /\ Push(Run(t), Tail(stack)) # <<>>
      BY <1>3, <3>1, PushFacts
    <3>3. Run(t)[1] = "run" /\ Run(t)[2] = t
      BY DEF Run
    <3> QED
      BY <1>2, <1>3, <1>4, <2>2, <3>1, <3>2, <3>3 DEF Returned
  <2> QED
    BY <2>1, <2>2
<1>6. U \in [Task -> Record] /\ \A x \in Task \ {t} : U[x] = task[x]
  <2>1. [task[t] EXCEPT !.forward = FALSE, !.resolving = FALSE] \in Record
    <3>1. task[t] \in Record
      BY <1>3
    <3> QED
      BY <3>1 DEF Record
  <2>2. U = [task EXCEPT ![t] = [task[t] EXCEPT !.forward = FALSE, !.resolving = FALSE]] \/ U = task
    BY DEF Unlinked, c
  <2> HIDE DEF U
  <2> QED
    BY <1>3, <2>1, <2>2
<1> HIDE DEF U
<1>7. X \in [Task -> Record]
      /\ \A x \in Task : X[x] = IF x \in UNION {Below[d] : d \in {c}} THEN Absent ELSE U[x]
  BY <1>4, <1>6, WithoutIs
<1> HIDE DEF X
<1>8. \A x \in Task \ {t} : X[x] = IF x \in UNION {Below[d] : d \in {c}} THEN Absent ELSE task[x]
  BY <1>6, <1>7
<1>9. Carried(UNION {Below[d] : d \in {c}}, v, m)
  <2>1. \A x \in Below[c] \ {c} : task[x] = Absent
    BY <1>3, <1>4, <1>5, Vacant
  <2> QED
    BY <2>1 DEF Absent, Carried
<1>10. v \in Nat /\ task[t].at # "done" /\ {c} \in SUBSET Kin(t)
  BY <1>3, <1>4, Fields
<1> HIDE DEF v
<1>11. CASE t # Root
  BY <1>1, <1>3, <1>7, <1>8, <1>9, <1>10, <1>11, LeavesKeeps
<1>12. CASE t = Root
  <2>1. task' = [X EXCEPT ![t].at = "start"] /\ consumed' = consumed \cup ({v} \ {0}) /\ "start" \in Ats
    BY <1>1, <1>12 DEF Ats, Awake
  <2>2. \A x \in Task \ {t} : task'[x] = X[x]
    BY <1>3, <1>7, <2>1
  <2>3. CASE m \in consumed \/ \E p \in Port : m \in ToSet(queue[p])
    BY <1>1, <2>1, <2>3 DEF Somewhere
  <2>4. ASSUME NEW x \in Task, task[x].at = "done", task[x].value = m PROVE Somewhere(m)'
    <3>1. x # t
      BY <1>10, <2>4
    <3>2. CASE x \in UNION {Below[d] : d \in {c}}
      <4>1. v = m
        BY <1>9, <2>4, <3>2 DEF Carried
      <4> QED
        BY <2>1, <4>1 DEF Somewhere
    <3>3. CASE x \notin UNION {Below[d] : d \in {c}}
      <4>1. task'[x] = task[x]
        BY <1>8, <2>2, <3>1, <3>3
      <4> QED
        BY <2>4, <4>1 DEF Somewhere
    <3> QED
      BY <3>2, <3>3
  <2> QED
    BY <2>3, <2>4 DEF Somewhere
<1> QED
  BY <1>11, <1>12

\* A race drops no message: of those below it only the winner may have one.
LEMMA FoundStays ==
  ASSUME Good, NEW r, Found(r), NEW m, Somewhere(m)
  PROVE  Somewhere(m)'
<1> DEFINE i == task[r].index
           c == Kids[r][i]
<1>1. Running(r, "found") /\ queue' = queue /\ consumed' = consumed
  BY DEF Found
<1>2. /\ Tail(stack) \in Seq(Frame) /\ Well(task, Push(Run(r), Tail(stack)), ret)
      /\ task \in [Task -> Record] /\ RecordOk(task, r) /\ task[r].at = "found" /\ r \in Task
      /\ Records(task)
  BY <1>1, RunForm
<1>3. r # Root /\ r \in Race
  BY <1>1, RaceForm
<1>4. i \in 1 .. Len(Kids[r]) /\ i \in Nat /\ i + 1 \in Nat
  <2>1. i \in 1 .. Len(Kids[r]) /\ i \in Nat
    BY <1>2, Fields DEF RecordOk
  <2> QED
    BY <2>1
<1>5. c \in Task /\ c = Cur(task, r)
  BY <1>2, <1>4, Kid DEF Cur
<1>6. CASE ret
  <2> DEFINE X == Without(task, ToSet(Kids[r]))
             v == task[c].value
  <2>1. Finish(X, r, v)
    BY <1>6 DEF Found
  <2>2. v \in Nat
    BY <1>2, <1>5, Fields
  <2>3. ToSet(Kids[r]) = Kin(r) /\ Kin(r) \subseteq Task
    BY <1>2, KinFacts
  <2>4. /\ X \in [Task -> Record]
        /\ \A x \in Task : X[x] = IF x \in UNION {Below[d] : d \in Kin(r)} THEN Absent ELSE task[x]
    BY <1>2, <2>3, WithoutIs
  <2> HIDE DEF X
  <2>5. task[c].at = "done"
    <3>1. Returned(task, Push(Run(r), Tail(stack)), ret) /\ Run(r) \in Frame
      BY <1>2, Parts DEF Run, Frame
    <3>2. Push(Run(r), Tail(stack))[1] = Run(r) /\ Push(Run(r), Tail(stack)) # <<>>
      BY <1>2, <3>1, PushFacts
    <3>3. Run(r)[1] = "run" /\ Run(r)[2] = r
      BY DEF Run
    <3> QED
      BY <1>2, <1>5, <1>6, <3>1, <3>2, <3>3 DEF Returned
  <2>6. Carried(UNION {Below[d] : d \in Kin(r)}, v, m)
    <3> SUFFICES ASSUME NEW x \in UNION {Below[d] : d \in Kin(r)}, task[x].at = "done", task[x].value = m
                   PROVE  v = m
      BY DEF Carried
    <3>2. PICK d \in Kin(r) : x \in Below[d]
      OBVIOUS
    <3>3. x \in Below[r] /\ x # r
      BY <1>2, <3>2, NoCycle, BelowTask, BelowTrans
    <3>4. Raced(task, Push(Run(r), Tail(stack)), r, x)
      BY <1>2, <1>3, <3>3, Parts
    <3>5. task[x].at = "done" => x \in Below[c]
      BY <1>5, <3>4 DEF Raced, Chosen, Advanced
    <3>6. \A y \in Below[c] \ {c} : task[y] = Absent
      BY <1>2, <1>5, <2>5, Vacant
    <3> QED
      BY <3>5, <3>6 DEF Absent
  <2> HIDE DEF v
  <2>7. task[r].at # "done" /\ Kin(r) \in SUBSET Kin(r)
    BY <1>2
  <2>8. \A x \in Task \ {r} : X[x] = IF x \in UNION {Below[d] : d \in Kin(r)} THEN Absent ELSE task[x]
    BY <2>4
  <2> QED
    BY <1>1, <1>2, <1>3, <2>1, <2>2, <2>4, <2>6, <2>7, <2>8, LeavesKeeps
<1>7. CASE ~ret
  <2> DEFINE n == i + 1
  <2>1. task' = [task EXCEPT ![r].at = "find", ![r].index = n]
    BY <1>2, <1>7 DEF Found
  <2>2. "find" \in Ats /\ n \in Nat
    BY <1>4 DEF Ats, Awake
  <2> HIDE DEF n
  <2>3. Moved(task, task', r, "find", n) /\ task[r].at # "done"
    BY <1>2, <2>1, <2>2, Moves
  <2>4. \A x \in Task : Keeps(task, task', x)
    BY <1>2, <2>3, MovedKeeps
  <2> QED
    BY <1>1, <2>4, KeptStay
<1> QED
  BY <1>6, <1>7

\* A race without a winner drops no message: nobody below it has one.
LEMMA NoneFoundStays ==
  ASSUME Good, NEW r, NoneFound(r), NEW m, Somewhere(m)
  PROVE  Somewhere(m)'
<1>1. Running(r, "find") /\ queue' = queue /\ consumed' = consumed
  BY DEF NoneFound
<1>2. /\ Tail(stack) \in Seq(Frame) /\ Well(task, Push(Run(r), Tail(stack)), ret)
      /\ task \in [Task -> Record] /\ task[r].at = "find" /\ r \in Task
  BY <1>1, RunForm
<1>3. r # Root /\ r \in Race
  BY <1>1, RaceForm
<1>4. CASE r \in cancelled
  <2> DEFINE X == Without(task, ToSet(Kids[r]))
  <2>1. Finish(X, r, 0) /\ 0 \in Nat
    BY <1>4 DEF NoneFound
  <2>2. ToSet(Kids[r]) = Kin(r) /\ Kin(r) \subseteq Task
    BY <1>2, KinFacts
  <2>3. /\ X \in [Task -> Record]
        /\ \A x \in Task : X[x] = IF x \in UNION {Below[d] : d \in Kin(r)} THEN Absent ELSE task[x]
    BY <1>2, <2>2, WithoutIs
  <2> HIDE DEF X
  <2>4. Carried(UNION {Below[d] : d \in Kin(r)}, 0, m)
    <3> SUFFICES ASSUME NEW x \in UNION {Below[d] : d \in Kin(r)}, task[x].at = "done", task[x].value = m
                   PROVE  0 = m
      BY DEF Carried
    <3>2. PICK d \in Kin(r) : x \in Below[d]
      OBVIOUS
    <3>3. x \in Below[r] /\ x # r
      BY <1>2, <3>2, NoCycle, BelowTask, BelowTrans
    <3>4. task[x].at \notin Advanced
      BY <1>2, <1>3, <3>3, NoneAdvanced
    <3> QED
      BY <3>4 DEF Advanced
  <2>5. task[r].at # "done" /\ Kin(r) \in SUBSET Kin(r)
    BY <1>2
  <2>6. \A x \in Task \ {r} : X[x] = IF x \in UNION {Below[d] : d \in Kin(r)} THEN Absent ELSE task[x]
    BY <2>3
  <2> QED
    BY <1>1, <1>2, <1>3, <2>1, <2>3, <2>4, <2>5, <2>6, LeavesKeeps
<1>5. CASE r \notin cancelled
  <2> DEFINE U == [x \in Task |-> IF x = r THEN [task[x] EXCEPT !.at = "asleep"]
                        ELSE IF x \in ToSet(Kids[r]) THEN [task[x] EXCEPT !.awaiter = "event"]
                        ELSE task[x]]
  <2>1. task' = U
    BY <1>5 DEF NoneFound
  <2>2. ASSUME NEW x \in Task PROVE Keeps(task, task', x)
    <3>1. task[x] \in Record
      BY <1>2
    <3>2. /\ [task[x] EXCEPT !.awaiter = "event"].at = task[x].at
          /\ [task[x] EXCEPT !.awaiter = "event"].value = task[x].value
      BY <3>1 DEF Record
    <3>3. task'[x] = IF x = r THEN [task[x] EXCEPT !.at = "asleep"]
                     ELSE IF x \in ToSet(Kids[r]) THEN [task[x] EXCEPT !.awaiter = "event"]
                     ELSE task[x]
      BY <2>1
    <3> HIDE DEF U
    <3>4. x = r => task[x].at # "done"
      BY <1>2
    <3> QED
      BY <3>2, <3>3, <3>4 DEF Keeps
  <2> QED
    BY <1>1, <2>2, KeptStay
<1> QED
  BY <1>4, <1>5

\* The inductive invariant.
TasksInv == Good /\ Queues /\ NothingLost

\* The invariant holds in the beginning.
LEMMA TasksInit ==
  ASSUME Init
  PROVE  TasksInv
<1>1. Good
  BY InitGood
<1>2. Queues /\ NothingLost
  BY DEF Init, Queues, NothingLost
<1> QED
  BY <1>1, <1>2 DEF TasksInv

\* Queues stay queues of messages.
LEMMA QueuesStep ==
  ASSUME Good, Queues, [Next]_vars
  PROVE  Queues'
<1>1. CASE UNCHANGED <<sent, queue>>
  BY <1>1 DEF Queues
<1>2. ASSUME NEW s, Take(s) PROVE Queues'
  <2>1. Running(s, "take") /\ sent' = sent
    BY <1>2 DEF Take
  <2>2. s \in Task /\ task[s].at = "take" /\ RecordOk(task, s)
    BY <2>1, RunForm
  <2>3. s \in Source
    BY <2>2 DEF RecordOk, With, Task
  <2>4. queue[PortOf[s]] \in Seq(Nat) /\ PortOf[s] \in Port
    BY <2>3, TreeAssumption DEF Queues
  <2>5. queue[PortOf[s]] # <<>> => Tail(queue[PortOf[s]]) \in Seq(Nat)
    BY <2>4, QueueFacts
  <2>6. queue' = queue \/ (queue[PortOf[s]] # <<>> /\ queue' = [queue EXCEPT ![PortOf[s]] = Tail(queue[PortOf[s]])])
    BY <1>2, <2>4 DEF Take, Queues
  <2> QED
    BY <2>1, <2>4, <2>5, <2>6 DEF Queues
<1>3. ASSUME NEW p \in Port, Deliver(p) PROVE Queues'
  <2>1. sent' = sent + 1 /\ queue' = [queue EXCEPT ![p] = Append(queue[p], sent + 1)] /\ sent + 1 \in Nat
    BY <1>3 DEF Deliver, Queues
  <2>2. Append(queue[p], sent + 1) \in Seq(Nat)
    BY <2>1, QueueFacts DEF Queues
  <2> QED
    BY <2>1, <2>2 DEF Queues
<1>4. ASSUME NEW p \in Port, Rival(p) PROVE Queues'
  <2>1. sent' = sent /\ queue' = [queue EXCEPT ![p] = Tail(queue[p])] /\ queue[p] # <<>>
    BY <1>4 DEF Rival
  <2>2. Tail(queue[p]) \in Seq(Nat)
    BY <2>1, QueueFacts DEF Queues
  <2> QED
    BY <2>1, <2>2 DEF Queues
<1>5. (\E s : Take(s)) \/ (\E p \in Port : Deliver(p) \/ Rival(p)) \/ UNCHANGED <<sent, queue>>
  <2>1. ASSUME Execute PROVE (\E s : Take(s)) \/ UNCHANGED <<sent, queue>>
    <3> DEFINE t == Head(stack)[2]
    <3>1. \/ Take(t) \/ Plain(t) \/ AwaitResume(t) \/ Found(t) \/ NoneFound(t)
      BY <2>1 DEF Execute, Plain
    <3> HIDE DEF t
    <3>2. ASSUME Plain(t) PROVE UNCHANGED <<sent, queue>>
      BY <3>2, PlainKeeps
    <3>3. ASSUME AwaitResume(t) \/ Found(t) \/ NoneFound(t) PROVE UNCHANGED <<sent, queue>>
      BY <3>3 DEF AwaitResume, Found, NoneFound
    <3> QED
      BY <3>1, <3>2, <3>3
  <2>2. ASSUME (\E t \in Task : Resume(t)) \/ (\E t \in Wrap : PauseOver(t)) \/ (\E r \in Race : Timeout(r))
               \/ UNCHANGED vars
        PROVE  UNCHANGED <<sent, queue>>
    BY <2>2 DEF Resume, PauseOver, Timeout, vars
  <2> QED
    BY <2>1, <2>2 DEF Next
<1> QED
  BY <1>1, <1>2, <1>3, <1>4, <1>5

\* No step loses a message.
LEMMA StaysStep ==
  ASSUME TasksInv, [Next]_vars
  PROVE  NothingLost'
<1>1. Good /\ Queues /\ \A m \in 1 .. sent : Somewhere(m)
  BY DEF TasksInv, NothingLost, Somewhere
<1>2. SUFFICES \A m \in 1 .. sent' : Somewhere(m)'
  BY DEF NothingLost, Somewhere
<1>3. ASSUME NEW m \in 1 .. sent, m # 0, sent' = sent, Execute PROVE Somewhere(m)'
  <2> DEFINE t == Head(stack)[2]
  <2>1. \/ Take(t) \/ Plain(t) \/ AwaitResume(t) \/ Found(t) \/ NoneFound(t)
    BY <1>3 DEF Execute, Plain
  <2> HIDE DEF t
  <2>2. Somewhere(m)
    BY <1>1
  <2>3. CASE Plain(t)
    BY <1>1, <2>2, <2>3, PlainKeeps, KeptStay
  <2> QED
    BY <1>1, <1>3, <2>1, <2>2, <2>3, TakeStays, AwaitResumeStays, FoundStays, NoneFoundStays
<1>4. ASSUME Execute PROVE sent' = sent
  <2> DEFINE t == Head(stack)[2]
  <2>1. \/ Take(t) \/ Plain(t) \/ AwaitResume(t) \/ Found(t) \/ NoneFound(t)
    BY <1>4 DEF Execute, Plain
  <2> HIDE DEF t
  <2>2. Plain(t) => sent' = sent
    BY <1>1, PlainKeeps
  <2> QED
    BY <2>1, <2>2 DEF Take, AwaitResume, Found, NoneFound
<1>5. task \in [Task -> Record]
  BY <1>1, Parts DEF Good
<1>6. CASE Execute
  <2>1. \A m \in 1 .. sent : m # 0
    BY <1>1 DEF Queues
  <2> QED
    BY <1>3, <1>4, <1>6, <2>1
<1>7. ASSUME NEW t \in Task, Resume(t) PROVE \A m \in 1 .. sent' : Somewhere(m)'
  <2> DEFINE k == CASE t \in Race -> "point" [] t \in Wrap -> "start" [] OTHER -> "look"
  <2>1. task' = [task EXCEPT ![t].at = k] /\ queue' = queue /\ sent' = sent /\ consumed' = consumed
        /\ task[t].at = "woken"
    BY <1>7 DEF Resume
  <2>2. \A x \in Task : Keeps(task, task', x)
    BY <1>5, <2>1 DEF Keeps
  <2> QED
    BY <1>1, <2>1, <2>2, KeptStay
<1>8. ASSUME NEW t \in Wrap, PauseOver(t) PROVE \A m \in 1 .. sent' : Somewhere(m)'
  <2>1. task' = [task EXCEPT ![t].at = "woken"] /\ queue' = queue /\ sent' = sent /\ consumed' = consumed
        /\ task[t].at = "asleep"
    BY <1>8 DEF PauseOver
  <2>2. \A x \in Task : Keeps(task, task', x)
    BY <1>5, <2>1 DEF Keeps
  <2> QED
    BY <1>1, <2>1, <2>2, KeptStay
<1>9. ASSUME NEW r \in Race, Timeout(r) PROVE \A m \in 1 .. sent' : Somewhere(m)'
  <2> DEFINE a == IF task[r].at = "asleep" THEN "woken" ELSE task[r].at
  <2>1. task' = [task EXCEPT ![r].at = a] /\ queue' = queue /\ sent' = sent /\ consumed' = consumed
    BY <1>9 DEF Timeout
  <2>2. r \in Task /\ task[r] \in Record
    BY <1>5 DEF Task
  <2>3. a \in Ats /\ (task[r].at = "done" => a = "done")
    BY <2>2 DEF Record, Ats
  <2> HIDE DEF a
  <2>4. Moved(task, task', r, a, task[r].index)
    BY <1>5, <2>1, <2>2, <2>3, Moves
  <2>5. \A x \in Task : Keeps(task, task', x)
    BY <2>3, <2>4 DEF Keeps, Moved
  <2> QED
    BY <1>1, <2>1, <2>5, KeptStay
<1>10. ASSUME NEW p \in Port, Deliver(p) PROVE \A m \in 1 .. sent' : Somewhere(m)'
  <2>1. /\ sent' = sent + 1 /\ queue' = [queue EXCEPT ![p] = Append(queue[p], sent + 1)]
        /\ consumed' = consumed
        /\ task' = [t \in Task |-> IF t \in Source /\ PortOf[t] = p /\ task[t].at = "asleep"
                             THEN [task[t] EXCEPT !.at = "woken"] ELSE task[t]]
    BY <1>10 DEF Deliver
  <2>2. \A x \in Task : Keeps(task, task', x)
    BY <2>1 DEF Keeps
  <2>3. sent \in Nat /\ sent + 1 \in Nat /\ queue[p] \in Seq(Nat)
    BY <1>1 DEF Queues
  <2>4. ToSet(Append(queue[p], sent + 1)) = ToSet(queue[p]) \cup {sent + 1}
    BY <2>3, QueueFacts
  <2>5. queue'[p] = Append(queue[p], sent + 1) /\ \A q \in Port \ {p} : queue'[q] = queue[q]
    BY <1>1, <2>1 DEF Queues
  <2>6. ASSUME NEW m \in 1 .. sent PROVE Somewhere(m)'
    <3>1. Somewhere(m)
      BY <1>1
    <3>2. \A q \in Port : m \in ToSet(queue[q]) => m \in ToSet(queue'[q])
      BY <2>4, <2>5
    <3> QED
      BY <2>1, <2>2, <3>1, <3>2 DEF Somewhere, Keeps
  <2>7. ASSUME NEW m, m = sent + 1 PROVE Somewhere(m)'
    <3>1. m \in ToSet(queue'[p])
      BY <2>4, <2>5, <2>7
    <3> QED
      BY <3>1 DEF Somewhere
  <2>8. ASSUME NEW m \in 1 .. sent' PROVE m \in 1 .. sent \/ m = sent + 1
    BY <2>1, <2>3
  <2> QED
    BY <2>6, <2>7, <2>8
<1>11. ASSUME NEW p \in Port, Rival(p) PROVE \A m \in 1 .. sent' : Somewhere(m)'
  <2>1. /\ sent' = sent /\ queue' = [queue EXCEPT ![p] = Tail(queue[p])] /\ queue[p] # <<>>
        /\ consumed' = consumed \cup {Head(queue[p])} /\ task' = task
    BY <1>11 DEF Rival
  <2>2. queue[p] \in Seq(Nat)
    BY <1>1 DEF Queues
  <2>3. ToSet(queue[p]) = {Head(queue[p])} \cup ToSet(Tail(queue[p]))
    BY <2>1, <2>2, QueueFacts
  <2>4. queue'[p] = Tail(queue[p]) /\ \A q \in Port \ {p} : queue'[q] = queue[q]
    BY <1>1, <2>1 DEF Queues
  <2>5. ASSUME NEW m \in 1 .. sent PROVE Somewhere(m)'
    <3>1. Somewhere(m)
      BY <1>1
    <3>2. \A q \in Port : m \in ToSet(queue[q]) => m \in ToSet(queue'[q]) \/ m \in consumed'
      BY <2>1, <2>3, <2>4
    <3> QED
      BY <2>1, <3>1, <3>2 DEF Somewhere
  <2> QED
    BY <2>1, <2>5
<1>12. CASE UNCHANGED vars
  BY <1>1, <1>12 DEF vars, Somewhere
<1> QED
  BY <1>6, <1>7, <1>8, <1>9, <1>10, <1>11, <1>12 DEF Next

\* The stack and the records say that no coroutine is resumed where it must not be.
LEMMA GoodSound ==
  ASSUME Good
  PROVE  SoundResume
<1>1. /\ task \in [Task -> Record] /\ stack \in Seq(Frame) /\ Stacked(task, stack) /\ Records(task)
  BY DEF Good, Well, Typed, Inv
<1>2. ASSUME NEW i \in 1 .. Len(stack), NEW j \in i + 1 .. Len(stack), stack[i][1] = "run"
      PROVE  stack[i] # stack[j]
  <2>1. Under(stack[i], stack[j])
    BY <1>1 DEF Stacked
  <2>2. stack[i] = stack[j] => stack[j][1] = "after"
    BY <2>1 DEF Under
  <2> QED
    BY <1>2, <2>2
<1>3. ASSUME NEW i \in 1 .. Len(stack), NEW j \in 1 .. Len(stack), stack[i] = stack[j], stack[i][1] = "run"
      PROVE  i = j
  <2>1. i \in Int /\ j \in Int
    OBVIOUS
  <2>2. i < j => j \in i + 1 .. Len(stack)
    BY <1>1
  <2>3. j < i => i \in j + 1 .. Len(stack)
    BY <1>1
  <2>4. ~(i < j)
    BY <1>2, <1>3, <2>2
  <2>5. ~(j < i)
    BY <1>2, <1>3, <2>3
  <2> QED
    BY <2>1, <2>4, <2>5
<1>4. ASSUME NEW i \in 1 .. Len(stack) PROVE task[stack[i][2]].at # "none"
  <2>1. FrameOk(task, stack[i], i)
    BY <1>1 DEF Stacked
  <2>2. stack[i] \in Frame
    BY <1>1, ElementOfSeq
  <2>3. stack[i][1] \in {"run", "loop", "fwd", "after"}
    BY <2>2 DEF Frame
  <2> QED
    BY <2>1, <2>3 DEF FrameOk, Awake
<1>5. ASSUME NEW t \in Task, task[t].at = "got" PROVE task[Child(t)].at = "done"
  <2>1. RecordOk(task, t) /\ task[t].index \in 1 .. Len(Kids[t])
    BY <1>1, <1>5 DEF Records, RecordOk, With
  <2>2. Link(task, t, task[t].index)
    BY <1>1, <2>1 DEF Records
  <2> QED
    BY <1>5, <2>2 DEF Link, Child
<1>6. \A i, j \in 1 .. Len(stack) : stack[i] = stack[j] /\ stack[i][1] = "run" => i = j
  BY <1>3
<1> QED
  BY <1>4, <1>5, <1>6 DEF SoundResume

\* Every step keeps the invariant.
LEMMA TasksStep ==
  ASSUME TasksInv, [Next]_vars
  PROVE  TasksInv'
<1>1. Good /\ Queues
  BY DEF TasksInv
<1>2. \A p \in Port : queue[p] \in Seq(Nat)
  BY <1>1 DEF Queues
<1>3. Good'
  BY <1>1, <1>2, StepGood
<1>4. Queues'
  BY <1>1, QueuesStep
<1>5. NothingLost'
  BY StaysStep
<1> QED
  BY <1>3, <1>4, <1>5 DEF TasksInv

(***************************************************************************)
(* The inductive invariant of the tasks: records, stack and queues fit     *)
(* each other, and every message is in a queue, was consumed or is the     *)
(* value of a task that is done.                                           *)
(***************************************************************************)
THEOREM TasksInvariance == Spec => []TasksInv
<1>1. Init => TasksInv
  BY TasksInit
<1>2. TasksInv /\ [Next]_vars => TasksInv'
  BY TasksStep
<1> QED
  BY <1>1, <1>2, PTL DEF Spec

\* A message that a receive took from its port is on its way to the root, whatever attempt()
\* or first() cancels, however deep the tree and whoever else receives from the port.
THEOREM NothingLostHolds == Spec => []NothingLost
<1>1. TasksInv => NothingLost
  BY DEF TasksInv
<1> QED
  BY <1>1, TasksInvariance, PTL

\* No coroutine is resumed while it runs, after it was destroyed, or before the task that it
\* awaits is done, in any tree in which no forward() is nested as ForwardAssumption excludes.
THEOREM SoundResumeHolds == Spec => []SoundResume
<1>1. TasksInv => SoundResume
  BY GoodSound DEF TasksInv
<1> QED
  BY <1>1, TasksInvariance, PTL

-----------------------------------------------------------------------------
(***************************************************************************)
(* The stash of the consensus servers.                                     *)
(***************************************************************************)

Set(s) == {s[i] : i \in 1 .. Len(s)}
Once(s) == \A i, j \in 1 .. Len(s) : s[i] = s[j] => i = j

\* No message is in two places, nor twice in one.
Apart ==
  /\ Once(s_queue) /\ Once(stash) /\ Set(s_queue) \cap Set(stash) = {}
  /\ wire \cap (Set(s_queue) \cup Set(stash)) = {}
  /\ taken \cap (wire \cup Set(s_queue) \cup Set(stash)) = {}

\* What the present call has examined, or stashed itself, it does not want.
Examined ==
  want # NoType => \A i \in stashLeft + 1 .. Len(stash) : ~Stash!Wanted(stash[i])

\* A receive suspends when it has examined all of the stash.
Asleep == suspended => want # NoType /\ stashLeft = 0

StashInv == Stash!TypeOK /\ Apart /\ Examined /\ Asleep

\* What the mailbox holds.
Mail == {m \in Set(s_queue) \cup Set(stash) : m.type = "decide" \/ m.round >= round}

-----------------------------------------------------------------------------
\* A sequence with one more message.
LEMMA Added ==
  ASSUME NEW S, NEW s \in Seq(S), NEW x \in S
  PROVE  /\ Append(s, x) \in Seq(S) /\ Len(Append(s, x)) = Len(s) + 1
         /\ \A i \in 1 .. Len(s) : Append(s, x)[i] = s[i]
         /\ Append(s, x)[Len(s) + 1] = x
         /\ Set(Append(s, x)) = Set(s) \cup {x}
         /\ Once(s) /\ x \notin Set(s) => Once(Append(s, x))
<1>1. /\ Append(s, x) \in Seq(S) /\ Len(Append(s, x)) = Len(s) + 1 /\ Len(s) \in Nat
      /\ \A i \in 1 .. Len(s) : Append(s, x)[i] = s[i]
      /\ Append(s, x)[Len(s) + 1] = x
  OBVIOUS
<1> DEFINE a == Append(s, x)
           k == Len(s)
<1>2. /\ k \in Nat /\ Len(a) = k + 1 /\ a[k + 1] = x /\ \A i \in 1 .. k : a[i] = s[i]
  BY <1>1
<1> HIDE DEF a
<1>3. Set(a) = Set(s) \cup {x}
  <2>1. \A y : y \in Set(a) <=> \E i \in 1 .. k + 1 : y = a[i]
    BY <1>2 DEF Set
  <2>2. \A y : y \in Set(s) <=> \E i \in 1 .. k : y = s[i]
    BY <1>2 DEF Set
  <2>3. \A y : (\E i \in 1 .. k + 1 : y = a[i]) <=> y = x \/ \E i \in 1 .. k : y = s[i]
    <3> HIDE DEF k
    <3> QED
      BY <1>2
  <2> QED
    BY <2>1, <2>2, <2>3
<1>4. ASSUME Once(s), x \notin Set(s) PROVE Once(a)
  <2>1. \A i \in 1 .. k : s[i] # x
    BY <1>4 DEF Set
  <2>2. \A i, j \in 1 .. k : s[i] = s[j] => i = j
    BY <1>4 DEF Once
  <2> HIDE DEF k
  <2>3. \A i, j \in 1 .. k + 1 : a[i] = a[j] => i = j
    BY <1>2, <2>1, <2>2
  <2> QED
    BY <1>2, <2>3 DEF Once
<1> QED
  BY <1>1, <1>3, <1>4 DEF a

\* A sequence without its first message.
LEMMA Popped ==
  ASSUME NEW S, NEW s \in Seq(S), s # <<>>
  PROVE  /\ Tail(s) \in Seq(S) /\ Head(s) \in S /\ Head(s) = s[1]
         /\ Len(s) \in Nat /\ Len(s) > 0 /\ Len(Tail(s)) = Len(s) - 1
         /\ \A i \in 1 .. Len(s) - 1 : Tail(s)[i] = s[i + 1]
         /\ Head(s) \in Set(s)
         /\ Set(s) = Set(Tail(s)) \cup {Head(s)}
         /\ Once(s) => Once(Tail(s)) /\ Head(s) \notin Set(Tail(s))
<1>1. /\ Tail(s) \in Seq(S) /\ Head(s) \in S /\ Head(s) = s[1] /\ Len(s) \in Nat /\ Len(s) > 0
      /\ Len(Tail(s)) = Len(s) - 1
      /\ \A i \in 1 .. Len(s) - 1 : Tail(s)[i] = s[i + 1]
  OBVIOUS
<1> DEFINE t == Tail(s)
           k == Len(s)
<1>2. /\ k \in Nat /\ k > 0 /\ Len(t) = k - 1 /\ \A i \in 1 .. k - 1 : t[i] = s[i + 1]
  BY <1>1
<1> HIDE DEF t
<1>3. Set(s) = Set(t) \cup {s[1]}
  <2>1. \A y : y \in Set(s) <=> \E i \in 1 .. k : y = s[i]
    BY DEF Set
  <2>2. \A y : y \in Set(t) <=> \E i \in 1 .. k - 1 : y = t[i]
    BY <1>2 DEF Set
  <2> HIDE DEF k
  <2>3. ASSUME NEW y, NEW i \in 1 .. k, y = s[i], y # s[1] PROVE \E j \in 1 .. k - 1 : y = t[j]
    <3>1. i - 1 \in 1 .. k - 1 /\ (i - 1) + 1 = i
      BY <1>2, <2>3
    <3> QED
      BY <1>2, <2>3, <3>1
  <2>4. ASSUME NEW y, NEW j \in 1 .. k - 1, y = t[j] PROVE \E i \in 1 .. k : y = s[i]
    <3>1. j + 1 \in 1 .. k
      BY <1>2
    <3> QED
      BY <1>2, <2>4, <3>1
  <2>5. 1 \in 1 .. k
    BY <1>2
  <2> QED
    BY <2>1, <2>2, <2>3, <2>4, <2>5
<1>4. ASSUME Once(s) PROVE Once(t) /\ s[1] \notin Set(t)
  <2>1. \A i, j \in 1 .. k : s[i] = s[j] => i = j
    BY <1>4 DEF Once
  <2> HIDE DEF k
  <2>2. \A i \in 1 .. k - 1 : i \in Nat /\ i + 1 \in 1 .. k /\ i + 1 # 1
    BY <1>2
  <2>3. 1 \in 1 .. k
    BY <1>2
  <2>4. \A i, j \in 1 .. k - 1 : t[i] = t[j] => i = j
    BY <1>2, <2>1, <2>2
  <2>5. \A i \in 1 .. k - 1 : s[1] # t[i]
    BY <1>2, <2>1, <2>2, <2>3
  <2> QED
    BY <1>2, <2>4, <2>5 DEF Once, Set
<1> QED
  BY <1>1, <1>3, <1>4 DEF t

\* Two sequences, one behind the other.
LEMMA Joined ==
  ASSUME NEW S, NEW q \in Seq(S), NEW s \in Seq(S)
  PROVE  /\ Stash!ToSet(q \o s) = Set(q) \cup Set(s)
         /\ Once(q) /\ Once(s) /\ Set(q) \cap Set(s) = {} => Stash!IsInjective(q \o s)
<1> DEFINE a == q \o s
           k == Len(q)
           l == Len(s)
<1>1. /\ k \in Nat /\ l \in Nat /\ Len(a) = k + l /\ DOMAIN a = 1 .. Len(a)
      /\ \A i \in 1 .. k : a[i] = q[i]
      /\ \A i \in k + 1 .. k + l : a[i] = s[i - k]
  OBVIOUS
<1>2. \A x : x \in Set(q) <=> \E i \in 1 .. k : x = q[i]
  BY DEF Set
<1>3. \A x : x \in Set(s) <=> \E i \in 1 .. l : x = s[i]
  BY DEF Set
<1>4. DOMAIN a = 1 .. k + l
  BY <1>1
<1>5. \A x : x \in Stash!ToSet(a) <=> \E i \in 1 .. k + l : x = a[i]
  BY <1>4 DEF Stash!ToSet
<1> HIDE DEF a, k, l
<1>6. ASSUME NEW i \in 1 .. k + l
      PROVE  (i \in 1 .. k /\ a[i] = q[i]) \/ (i - k \in 1 .. l /\ a[i] = s[i - k])
  BY <1>1
<1>7. \A i \in 1 .. k : i \in 1 .. k + l
  BY <1>1
<1>8. \A i \in 1 .. l : i + k \in 1 .. k + l /\ a[i + k] = s[i]
  <2>1. \A i \in 1 .. l : i + k \in 1 .. k + l /\ i + k \in k + 1 .. k + l /\ (i + k) - k = i
    BY <1>1
  <2> QED
    BY <1>1, <2>1
<1>9. Stash!ToSet(a) = Set(q) \cup Set(s)
  BY <1>1, <1>2, <1>3, <1>5, <1>6, <1>7, <1>8
<1>10. ASSUME Once(q), Once(s), Set(q) \cap Set(s) = {} PROVE Stash!IsInjective(a)
  <2>1. \A i, j \in 1 .. k : q[i] = q[j] => i = j
    BY <1>10 DEF Once, k
  <2>2. \A i, j \in 1 .. l : s[i] = s[j] => i = j
    BY <1>10 DEF Once, l
  <2>3. \A i \in 1 .. k, j \in 1 .. l : q[i] # s[j]
    BY <1>2, <1>3, <1>10
  <2>4. \A i, j \in 1 .. k + l : i - k = j - k => i = j
    BY <1>1
  <2>5. \A i, j \in 1 .. k + l : a[i] = a[j] => i = j
    BY <1>6, <2>1, <2>2, <2>3, <2>4
  <2> QED
    BY <1>4, <2>5 DEF Stash!IsInjective
<1> QED
  BY <1>9, <1>10 DEF a

\* What the type invariant says of the messages.
LEMMA StashTyped ==
  ASSUME Stash!TypeOK
  PROVE  /\ \A m \in Messages : m.round \in Nat
         /\ s_sent \subseteq Messages /\ wire \subseteq s_sent /\ taken \subseteq Messages
         /\ s_queue \in Seq(Messages) /\ stash \in Seq(Messages)
         /\ Len(stash) \in Nat /\ stashLeft \in 0 .. Len(stash) /\ stashLeft \in Nat
         /\ round \in 1 .. MaxRound /\ round \in Nat
         /\ want \in Types \cup {NoType} /\ NoType \notin Types
BY StashAssumption DEF Stash!TypeOK

\* The parts of the invariant that the runs check as properties of their own.
LEMMA Consequences ==
  ASSUME StashInv
  PROVE  Stash!NoDuplicates /\ Stash!NoneOverlooked
<1>1. s_queue \in Seq(Messages) /\ stash \in Seq(Messages)
  BY StashTyped DEF StashInv
<1>2. Stash!NoDuplicates
  <2>1. /\ Stash!ToSet(s_queue \o stash) = Set(s_queue) \cup Set(stash)
        /\ Stash!IsInjective(s_queue \o stash)
    BY <1>1, Joined DEF StashInv, Apart
  <2> QED
    BY <2>1 DEF StashInv, Apart, Stash!NoDuplicates
<1>3. Stash!NoneOverlooked
  <2>1. SUFFICES ASSUME suspended, NEW m \in Stash!ToSet(stash) PROVE ~Stash!Wanted(m)
    BY DEF Stash!NoneOverlooked
  <2>2. DOMAIN stash = 1 .. Len(stash)
    BY <1>1
  <2>3. PICK i \in 1 .. Len(stash) : m = stash[i]
    BY <2>1, <2>2 DEF Stash!ToSet
  <2>4. want # NoType /\ stashLeft = 0
    BY <2>1 DEF StashInv, Asleep
  <2>5. i \in stashLeft + 1 .. Len(stash)
    BY <2>3, <2>4
  <2> QED
    BY <2>3, <2>4, <2>5 DEF StashInv, Examined
<1> QED
  BY <1>2, <1>3

\* The initial states.
LEMMA StashInit == Stash!Init => StashInv
<1> SUFFICES ASSUME Stash!Init PROVE StashInv
  OBVIOUS
<1>1. s_queue = <<>> /\ stash = <<>> /\ Len(s_queue) = 0 /\ Len(stash) = 0
  BY DEF Stash!Init
<1>2. Stash!TypeOK
  <2>1. s_queue \in Seq(Messages) /\ stash \in Seq(Messages) /\ stashLeft \in 0 .. Len(stash)
    BY <1>1 DEF Stash!Init
  <2>2. round \in 1 .. MaxRound
    BY StashAssumption DEF Stash!Init
  <2> QED
    BY <2>1, <2>2 DEF Stash!Init, Stash!TypeOK
<1>3. Set(s_queue) = {} /\ Set(stash) = {} /\ Once(s_queue) /\ Once(stash)
  BY <1>1 DEF Set, Once
<1>4. Apart
  BY <1>3 DEF Apart, Stash!Init
<1>5. Examined /\ Asleep
  BY DEF Examined, Asleep, Stash!Init
<1> QED
  BY <1>2, <1>4, <1>5 DEF StashInv

\* A message arrives, which was neither in the queue nor in the stash.
LEMMA DeliverInv ==
  ASSUME StashInv, NEW m \in Messages, Stash!Deliver(m)
  PROVE  StashInv' /\ Set(s_queue)' = Set(s_queue) \cup {m}
<1>1. /\ m \in wire /\ wire' = wire \ {m} /\ s_queue' = Append(s_queue, m)
      /\ UNCHANGED <<s_sent, stash, stashLeft, suspended, round, want, decided, taken>>
  BY DEF Stash!Deliver
<1>2. s_queue \in Seq(Messages) /\ Stash!TypeOK /\ Apart
  BY StashTyped DEF StashInv
<1>3. /\ Append(s_queue, m) \in Seq(Messages) /\ Set(Append(s_queue, m)) = Set(s_queue) \cup {m}
      /\ m \notin Set(s_queue) => Once(Append(s_queue, m))
  BY <1>2, Added DEF Apart
<1>4. m \notin Set(s_queue) /\ m \notin Set(stash) /\ m \notin taken
  BY <1>1, <1>2 DEF Apart
<1>5. /\ Set(s_queue)' = Set(s_queue) \cup {m} /\ Set(stash)' = Set(stash)
      /\ Once(s_queue)' /\ Once(stash)'
  BY <1>1, <1>2, <1>3, <1>4 DEF Apart, Set, Once
<1>6. Stash!TypeOK'
  BY <1>1, <1>2, <1>3 DEF Stash!TypeOK
<1>7. Apart'
  BY <1>1, <1>2, <1>4, <1>5 DEF Apart
<1>8. Examined' /\ Asleep'
  BY <1>1 DEF StashInv, Examined, Asleep, Stash!Wanted
<1> QED
  BY <1>5, <1>6, <1>7, <1>8 DEF StashInv

\* One turn of receive's loop, for a message that is taken from the front of the queue or of
\* the stash: what becomes of the stash, of which `left` are still to be examined.
LEMMA ExamineStash ==
  ASSUME StashInv, want # NoType, NEW m \in Messages, NEW rest \in Seq(Messages), NEW left \in Nat,
         left <= Len(rest), Once(rest), m \notin Set(rest),
         \A i \in left + 1 .. Len(rest) : ~Stash!Wanted(rest[i]),
         Stash!Examine(m, rest), stashLeft' = left, UNCHANGED round
  PROVE  /\ stash' \in Seq(Messages) /\ Once(stash)' /\ stashLeft' \in 0 .. Len(stash')
         /\ Set(stash)' \in {Set(rest), Set(rest) \cup {m}}
         /\ Examined'
<1>1. \/ stash' = rest /\ want' = NoType
      \/ stash' = rest /\ want' = want
      \/ stash' = Append(rest, m) /\ want' = want /\ ~Stash!Wanted(m)
  BY DEF Stash!Examine, Stash!Wanted
<1>2. /\ Append(rest, m) \in Seq(Messages) /\ Len(Append(rest, m)) = Len(rest) + 1
      /\ \A i \in 1 .. Len(rest) : Append(rest, m)[i] = rest[i]
      /\ Append(rest, m)[Len(rest) + 1] = m
      /\ Set(Append(rest, m)) = Set(rest) \cup {m}
      /\ Once(Append(rest, m))
  BY Added
<1>3. Len(rest) \in Nat
  OBVIOUS
<1>4. CASE stash' = rest
  <2>1. Set(stash)' = Set(rest) /\ Once(stash)' /\ Len(stash') = Len(rest)
    BY <1>4 DEF Set, Once
  <2>2. want' = NoType \/ want' = want
    BY <1>1
  <2>3. Examined'
    BY <1>4, <2>2 DEF Examined, Stash!Wanted
  <2> QED
    BY <1>3, <1>4, <2>1, <2>3
<1>5. CASE stash' = Append(rest, m) /\ want' = want /\ ~Stash!Wanted(m)
  <2> DEFINE a == Append(rest, m)
             k == Len(rest)
  <2>1. Set(stash)' = Set(rest) \cup {m} /\ Once(stash)' /\ Len(stash') = k + 1
    BY <1>2, <1>5 DEF Set, Once
  <2>2. /\ k \in Nat /\ left <= k /\ a[k + 1] = m /\ \A i \in 1 .. k : a[i] = rest[i]
        /\ \A i \in left + 1 .. k : ~Stash!Wanted(rest[i])
    BY <1>2, <1>3
  <2>3. stash' = a
    BY <1>5
  <2> HIDE DEF a, k
  <2>4. \A i \in left + 1 .. k + 1 : ~Stash!Wanted(a[i])
    <3>1. ASSUME NEW i \in left + 1 .. k + 1
          PROVE  (i \in 1 .. k /\ i \in left + 1 .. k) \/ i = k + 1
      BY <2>2
    <3> QED
      BY <1>5, <2>2, <3>1
  <2>5. Examined'
    BY <1>5, <2>1, <2>3, <2>4 DEF Examined, Stash!Wanted
  <2> QED
    BY <1>2, <1>5, <2>1, <2>2, <2>5
<1> QED
  BY <1>1, <1>4, <1>5

\* What a turn leaves: the message goes to the caller, to the end of the stash, or nowhere.
LEMMA ExamineOutcome ==
  ASSUME StashInv, want # NoType, NEW m \in Messages, NEW rest, Stash!Examine(m, rest)
  PROVE  /\ want' \in Types \cup {NoType} /\ decided' \in BOOLEAN
         /\ taken' \in {taken, taken \cup {m}}
         /\ taken' # taken => stash' = rest
BY DEF StashInv, Stash!TypeOK, Stash!Examine

\* A turn that takes its message from the front of the stash.
LEMMA ScanStashInv ==
  ASSUME StashInv, Stash!ScanStash
  PROVE  StashInv' /\ Head(stash) \in Set(stash)
<1>1. /\ want # NoType /\ stashLeft > 0 /\ stashLeft' = stashLeft - 1
      /\ Stash!Examine(Head(stash), Tail(stash))
      /\ UNCHANGED <<s_sent, wire, s_queue, suspended, round>>
  BY DEF Stash!ScanStash, Stash!PopStash
<1>2. stash \in Seq(Messages) /\ stashLeft \in 0 .. Len(stash) /\ Len(stash) \in Nat
  BY StashTyped DEF StashInv
<1>3. stash # <<>>
  BY <1>1, <1>2
<1> DEFINE h == Head(stash)
           t == Tail(stash)
           k == Len(stash)
<1>4. /\ t \in Seq(Messages) /\ h \in Messages /\ Len(t) = k - 1
      /\ \A i \in 1 .. k - 1 : t[i] = stash[i + 1]
      /\ h \in Set(stash) /\ Set(stash) = Set(t) \cup {h}
      /\ Once(t) /\ h \notin Set(t)
  BY <1>2, <1>3, Popped DEF StashInv, Apart
<1>5. \A i \in (stashLeft - 1) + 1 .. Len(t) : ~Stash!Wanted(t[i])
  <2>1. \A i \in stashLeft + 1 .. k : ~Stash!Wanted(stash[i])
    BY <1>1 DEF StashInv, Examined
  <2>2. k \in Nat /\ stashLeft \in 0 .. k /\ Len(t) = k - 1 /\ \A i \in 1 .. k - 1 : t[i] = stash[i + 1]
    BY <1>2, <1>4
  <2> HIDE DEF t, k
  <2>3. ASSUME NEW i \in (stashLeft - 1) + 1 .. Len(t)
        PROVE  i \in 1 .. k - 1 /\ i + 1 \in stashLeft + 1 .. k
    BY <1>1, <2>2
  <2> QED
    BY <2>1, <2>2, <2>3
<1>6. stashLeft - 1 \in Nat /\ stashLeft - 1 <= Len(t)
  BY <1>1, <1>2, <1>4
<1> HIDE DEF h, t, k
<1>7. /\ stash' \in Seq(Messages) /\ Once(stash)' /\ stashLeft' \in 0 .. Len(stash')
      /\ Set(stash)' \in {Set(t), Set(t) \cup {h}} /\ Examined'
  BY <1>1, <1>4, <1>5, <1>6, ExamineStash DEF h, t
<1>8. /\ want' \in Types \cup {NoType} /\ decided' \in BOOLEAN
      /\ taken' \in {taken, taken \cup {h}}
      /\ taken' # taken => stash' = t
  BY <1>1, <1>4, ExamineOutcome DEF h, t
<1>9. Set(s_queue)' = Set(s_queue) /\ Once(s_queue)'
  BY <1>1 DEF StashInv, Apart, Set, Once
<1>10. Stash!TypeOK'
  BY <1>1, <1>4, <1>7, <1>8 DEF StashInv, Stash!TypeOK
<1>11. Apart'
  <2>1. /\ Set(s_queue) \cap Set(stash) = {} /\ wire \cap (Set(s_queue) \cup Set(stash)) = {}
        /\ taken \cap (wire \cup Set(s_queue) \cup Set(stash)) = {}
    BY DEF StashInv, Apart
  <2>2. Set(stash)' \subseteq Set(stash)
    BY <1>4, <1>7
  <2>3. taken' # taken => Set(stash)' = Set(t)
    BY <1>8 DEF Set
  <2>4. taken' \cap (wire \cup Set(s_queue) \cup Set(stash)') = {}
    BY <1>4, <1>8, <2>1, <2>2, <2>3
  <2> QED
    BY <1>1, <1>7, <1>9, <2>1, <2>2, <2>4 DEF Apart
<1>12. Asleep'
  BY <1>1 DEF StashInv, Asleep
<1> QED
  BY <1>4, <1>7, <1>10, <1>11, <1>12 DEF StashInv, h

\* A turn that takes its message from the port.
LEMMA ScanPortInv ==
  ASSUME StashInv, Stash!ScanPort
  PROVE  StashInv' /\ Head(s_queue) \in Set(s_queue)
<1>1. /\ want # NoType /\ stashLeft = 0 /\ s_queue # <<>> /\ s_queue' = Tail(s_queue) /\ suspended' = FALSE
      /\ Stash!Examine(Head(s_queue), stash)
      /\ UNCHANGED <<s_sent, wire, stashLeft, round>>
  BY DEF Stash!ScanPort
<1>2. s_queue \in Seq(Messages) /\ stash \in Seq(Messages) /\ Len(stash) \in Nat
  BY StashTyped DEF StashInv
<1> DEFINE h == Head(s_queue)
           t == Tail(s_queue)
<1>3. /\ t \in Seq(Messages) /\ h \in Messages /\ h \in Set(s_queue) /\ Set(s_queue) = Set(t) \cup {h}
      /\ Once(t) /\ h \notin Set(t)
  BY <1>1, <1>2, Popped DEF StashInv, Apart
<1> HIDE DEF h, t
<1>4. h \notin Set(stash) /\ h \notin wire
  BY <1>3 DEF StashInv, Apart
<1>5. /\ \A i \in 0 + 1 .. Len(stash) : ~Stash!Wanted(stash[i])
      /\ Once(stash) /\ 0 <= Len(stash) /\ 0 \in Nat
  BY <1>1, <1>2 DEF StashInv, Examined, Apart
<1>6. /\ stash' \in Seq(Messages) /\ Once(stash)' /\ stashLeft' \in 0 .. Len(stash')
      /\ Set(stash)' \in {Set(stash), Set(stash) \cup {h}} /\ Examined'
  BY <1>1, <1>2, <1>3, <1>4, <1>5, ExamineStash DEF h
<1>7. /\ want' \in Types \cup {NoType} /\ decided' \in BOOLEAN
      /\ taken' \in {taken, taken \cup {h}}
      /\ taken' # taken => stash' = stash
  BY <1>1, <1>3, ExamineOutcome DEF h
<1>8. Set(s_queue)' = Set(t) /\ Once(s_queue)' /\ s_queue' \in Seq(Messages)
  BY <1>1, <1>3 DEF Set, Once, t
<1>9. Stash!TypeOK'
  BY <1>1, <1>3, <1>6, <1>7, <1>8 DEF StashInv, Stash!TypeOK
<1>10. Apart'
  <2>1. /\ Set(s_queue) \cap Set(stash) = {} /\ wire \cap (Set(s_queue) \cup Set(stash)) = {}
        /\ taken \cap (wire \cup Set(s_queue) \cup Set(stash)) = {}
    BY DEF StashInv, Apart
  <2>2. taken' # taken => Set(stash)' = Set(stash)
    BY <1>7 DEF Set
  <2>3. Set(t) \cap Set(stash)' = {} /\ wire \cap (Set(t) \cup Set(stash)') = {}
    BY <1>3, <1>6, <2>1
  <2>4. taken' \cap (wire \cup Set(t) \cup Set(stash)') = {}
    BY <1>3, <1>4, <1>6, <1>7, <2>1, <2>2
  <2> QED
    BY <1>1, <1>6, <1>8, <2>3, <2>4 DEF Apart
<1>11. Asleep'
  BY <1>1 DEF Asleep
<1> QED
  BY <1>3, <1>6, <1>9, <1>10, <1>11 DEF StashInv, h

\* The invariant is inductive.
LEMMA StashStep ==
  ASSUME StashInv, [Stash!Next]_Stash!vars
  PROVE  StashInv'
<1>1. ASSUME UNCHANGED <<s_sent, wire, s_queue, stash, taken>>, round' = round \/ (want = NoType /\ want' = NoType),
             stashLeft' \in 0 .. Len(stash), Stash!TypeOK', Asleep',
             want' # NoType => (want' = want /\ stashLeft' = stashLeft) \/ stashLeft' = Len(stash)
      PROVE  StashInv'
  <2>1. Apart'
    <3>1. /\ Set(s_queue)' = Set(s_queue) /\ Set(stash)' = Set(stash)
          /\ Once(s_queue)' = Once(s_queue) /\ Once(stash)' = Once(stash)
      BY <1>1 DEF Set, Once
    <3> QED
      BY <1>1, <3>1 DEF StashInv, Apart
  <2>2. ASSUME want' = NoType PROVE Examined'
    BY <2>2 DEF Examined
  <2>3. ASSUME want' # NoType, stashLeft' = Len(stash) PROVE Examined'
    <3>1. stashLeft' + 1 .. Len(stash') = {}
      BY <1>1, <2>3, StashTyped DEF StashInv
    <3> QED
      BY <3>1 DEF Examined
  <2>4. ASSUME want' # NoType, want' = want, stashLeft' = stashLeft PROVE Examined'
    BY <1>1, <2>4 DEF StashInv, Examined, Stash!Wanted
  <2> QED
    BY <1>1, <2>1, <2>2, <2>3, <2>4 DEF StashInv
<1>2. ASSUME NEW mt \in Types, Stash!Call(mt) PROVE StashInv'
  <2>1. Stash!TypeOK'
    BY <1>2, StashTyped DEF StashInv, Stash!TypeOK, Stash!Call, Stash!StashSize
  <2>2. Asleep'
    BY <1>2 DEF StashInv, Asleep, Stash!Call
  <2>3. stashLeft' = Len(stash) /\ Len(stash) \in Nat
    BY <1>2, StashTyped DEF StashInv, Stash!Call, Stash!StashSize
  <2> QED
    BY <1>1, <1>2, <2>1, <2>2, <2>3 DEF Stash!Call
<1>3. CASE Stash!Suspend
  <2>1. Stash!TypeOK' /\ Asleep'
    BY <1>3 DEF StashInv, Stash!TypeOK, Asleep, Stash!Suspend
  <2> QED
    BY <1>1, <1>3, <2>1, StashTyped DEF StashInv, Stash!Suspend
<1>4. CASE Stash!Cancel
  <2>1. Stash!TypeOK' /\ Asleep'
    BY <1>4 DEF StashInv, Stash!TypeOK, Asleep, Stash!Cancel
  <2> QED
    BY <1>1, <1>4, <2>1, StashTyped DEF StashInv, Stash!Cancel
<1>5. CASE Stash!Advance
  <2>1. round' \in 1 .. MaxRound
    BY <1>5, StashTyped, StashAssumption DEF StashInv, Stash!Advance
  <2>2. Stash!TypeOK' /\ Asleep'
    BY <1>5, <2>1 DEF StashInv, Stash!TypeOK, Asleep, Stash!Advance
  <2> QED
    BY <1>1, <1>5, <2>2, StashTyped DEF StashInv, Stash!Advance
<1>6. CASE UNCHANGED Stash!vars
  <2>1. Stash!TypeOK' /\ Asleep'
    BY <1>6 DEF StashInv, Stash!TypeOK, Asleep, Stash!vars
  <2> QED
    BY <1>1, <1>6, <2>1, StashTyped DEF StashInv, Stash!vars
<1>7. Stash!Idle => UNCHANGED Stash!vars
  BY DEF Stash!Idle
<1> QED
  BY <1>2, <1>3, <1>4, <1>5, <1>6, <1>7, DeliverInv, ScanStashInv, ScanPortInv DEF Stash!Next

-----------------------------------------------------------------------------
\* What the mailbox of the refinement mapping holds.
LEMMA MailIs ==
  ASSUME NEW q \in Seq(Messages), NEW s \in Seq(Messages), NEW r
  PROVE  {m \in Stash!ToSet(q \o s) : m.type = "decide" \/ m.round >= r}
         = {m \in Set(q) \cup Set(s) : m.type = "decide" \/ m.round >= r}
<1>1. Stash!ToSet(q \o s) = Set(q) \cup Set(s)
  BY Joined
<1> QED
  BY <1>1

\* Every step of the stash and the port is one of the mailbox, or changes nothing there.
LEMMA RefinementStep ==
  ASSUME StashInv, [Stash!Next]_Stash!vars
  PROVE  [Stash!MailboxView!Next]_Stash!MailboxView!mailVars
<1> DEFINE view == {m \in Stash!ToSet(s_queue \o stash) : m.type = "decide" \/ m.round >= round}
<1>1. StashInv'
  BY StashStep
<1>2. view = Mail /\ view' = Mail'
  <2>1. s_queue \in Seq(Messages) /\ stash \in Seq(Messages)
    BY DEF StashInv, Stash!TypeOK
  <2>2. s_queue' \in Seq(Messages) /\ stash' \in Seq(Messages)
    BY <1>1 DEF StashInv, Stash!TypeOK
  <2>3. {m \in Stash!ToSet(s_queue' \o stash') : m.type = "decide" \/ m.round >= round'} = Mail'
    BY <2>2, MailIs DEF Mail
  <2> QED
    BY <2>1, <2>3, MailIs DEF Mail
<1>3. /\ wire \subseteq s_sent /\ round \in Nat /\ \A m \in Messages : m.round \in Nat
      /\ Set(s_queue) \cup Set(stash) \subseteq Messages
  <2>1. s_queue \in Seq(Messages) /\ stash \in Seq(Messages)
    BY StashTyped DEF StashInv
  <2>2. \A i \in 1 .. Len(s_queue) : s_queue[i] \in Messages
    BY <2>1
  <2>3. \A i \in 1 .. Len(stash) : stash[i] \in Messages
    BY <2>1
  <2> QED
    BY <2>2, <2>3, StashTyped DEF StashInv, Set
<1>4. UNCHANGED <<s_queue, stash, round>> => Mail' = Mail
  BY DEF Mail, Set
<1>5. ASSUME NEW m \in Messages, Stash!Deliver(m) PROVE Stash!MailboxView!Arrive(m)
  <2>1. Set(s_queue)' = Set(s_queue) \cup {m} /\ Set(stash)' = Set(stash)
    BY <1>5, DeliverInv DEF Stash!Deliver, Set
  <2>2. Mail' = Mail \cup Stash!MailboxView!Current({m}, round)
    BY <1>5, <2>1 DEF Mail, Stash!Deliver, Stash!MailboxView!Current
  <2>3. m \notin s_sent \ wire /\ (s_sent \ wire)' = (s_sent \ wire) \cup {m}
    BY <1>3, <1>5 DEF Stash!Deliver
  <2> HIDE DEF view
  <2>4. view' = view \cup Stash!MailboxView!Current({m}, round)
    BY <1>2, <2>2
  <2> QED
    BY <1>5, <2>3, <2>4 DEF Stash!Deliver, Stash!MailboxView!Arrive, view
<1>6. ASSUME NEW mt \in Types, Stash!Call(mt) PROVE Stash!MailboxView!Call(mt)
  <2>1. view' = view
    BY <1>2, <1>4, <1>6 DEF Stash!Call
  <2> QED
    BY <1>6, <2>1 DEF Stash!Call, Stash!MailboxView!Call
<1>7. CASE Stash!Cancel
  <2>1. view' = view
    BY <1>2, <1>4, <1>7 DEF Stash!Cancel
  <2>2. Stash!MailboxView!Cancel
    BY <1>7, <2>1 DEF Stash!Cancel, Stash!MailboxView!Cancel
  <2> QED
    BY <2>2 DEF Stash!MailboxView!Next
<1>8. CASE Stash!Advance
  <2>1. Mail' = Stash!MailboxView!Current(Mail, round')
    <3>1. Set(s_queue)' = Set(s_queue) /\ Set(stash)' = Set(stash) /\ round' = round + 1
      BY <1>8 DEF Stash!Advance, Set
    <3> QED
      BY <1>3, <3>1 DEF Mail, Stash!MailboxView!Current
  <2>2. view' = Stash!MailboxView!Current(view, round')
    BY <1>2, <2>1
  <2>3. Stash!MailboxView!Advance
    BY <1>8, <2>2 DEF Stash!Advance, Stash!MailboxView!Advance
  <2> QED
    BY <2>3 DEF Stash!MailboxView!Next
<1>9. ASSUME want # NoType, NEW m \in Messages, NEW rest, Stash!Examine(m, rest),
             m \in Set(s_queue) \cup Set(stash), UNCHANGED <<s_sent, wire, round>>,
             Set(s_queue)' \cup Set(rest) = (Set(s_queue) \cup Set(stash)) \ {m},
             stash' = Append(rest, m) => Set(stash)' = Set(rest) \cup {m}
      PROVE  [Stash!MailboxView!Next]_Stash!MailboxView!mailVars
  <2>1. stash' = rest => Mail' = Mail \ {m}
    <3>1. stash' = rest => Set(stash)' = Set(rest)
      BY DEF Set
    <3> QED
      BY <1>9, <3>1 DEF Mail
  <2>2. CASE m.type = "decide" /\ decided' = TRUE /\ want' = NoType /\ stash' = rest /\ UNCHANGED taken
    <3>1. view' = view \ {m} /\ m \in view
      BY <1>2, <1>9, <2>1, <2>2 DEF Mail
    <3>2. Stash!MailboxView!Decide(m)
      BY <1>9, <2>2, <3>1 DEF Stash!MailboxView!Decide
    <3> QED
      BY <3>2 DEF Stash!MailboxView!Next
  <2>3. CASE /\ m.type # "decide" /\ (m.type # want \/ m.round # round)
             /\ stash' = IF Stash!Keeps(m) THEN Append(rest, m) ELSE rest
             /\ UNCHANGED <<decided, want, taken>>
    <3>1. Mail' = Mail
      <4>1. CASE Stash!Keeps(m)
        <5>1. Set(s_queue)' \cup Set(stash)' = Set(s_queue) \cup Set(stash)
          BY <1>9, <2>3, <4>1
        <5> QED
          BY <1>9, <5>1 DEF Mail
      <4>2. CASE ~Stash!Keeps(m)
        BY <1>3, <1>9, <2>1, <2>3, <4>2 DEF Mail, Stash!Keeps
      <4> QED
        BY <4>1, <4>2
    <3> QED
      BY <1>2, <1>9, <2>3, <3>1 DEF Stash!MailboxView!mailVars
  <2>4. CASE /\ m.type = want /\ m.round = round /\ taken' = taken \cup {m} /\ want' = NoType
             /\ stash' = rest /\ UNCHANGED decided
    <3>1. view' = view \ {m} /\ m \in view
      BY <1>2, <1>3, <1>9, <2>1, <2>4 DEF Mail
    <3>2. Stash!MailboxView!Return(m)
      BY <1>9, <2>4, <3>1 DEF Stash!MailboxView!Return
    <3> QED
      BY <3>2 DEF Stash!MailboxView!Next
  <2> QED
    BY <1>9, <2>2, <2>3, <2>4 DEF Stash!Examine
<1>10. CASE Stash!ScanStash
  <2> DEFINE h == Head(stash)
             t == Tail(stash)
  <2>1. want # NoType /\ stash # <<>> /\ Stash!Examine(h, t) /\ UNCHANGED <<s_sent, wire, s_queue, round>>
    <3>1. stashLeft > 0 /\ stashLeft \in 0 .. Len(stash) /\ stash \in Seq(Messages)
      BY <1>10, StashTyped DEF StashInv, Stash!ScanStash
    <3> QED
      BY <1>10, <3>1 DEF Stash!ScanStash, Stash!PopStash
  <2>2. /\ t \in Seq(Messages) /\ h \in Messages /\ Set(stash) = Set(t) \cup {h} /\ h \notin Set(t)
        /\ h \notin Set(s_queue)
    BY <2>1, Popped, StashTyped DEF StashInv, Apart
  <2> HIDE DEF h, t
  <2>3. stash' = Append(t, h) => Set(stash)' = Set(t) \cup {h}
    <3>1. Set(Append(t, h)) = Set(t) \cup {h}
      BY <2>2, Added
    <3> QED
      BY <3>1 DEF Set
  <2>4. Set(s_queue)' = Set(s_queue)
    BY <2>1 DEF Set
  <2> QED
    BY <1>9, <2>1, <2>2, <2>3, <2>4
<1>11. CASE Stash!ScanPort
  <2> DEFINE h == Head(s_queue)
             t == Tail(s_queue)
  <2>1. /\ want # NoType /\ s_queue # <<>> /\ s_queue' = t /\ Stash!Examine(h, stash)
        /\ UNCHANGED <<s_sent, wire, round>>
    BY <1>11 DEF Stash!ScanPort
  <2>2. /\ t \in Seq(Messages) /\ h \in Messages /\ Set(s_queue) = Set(t) \cup {h} /\ h \notin Set(t)
        /\ h \notin Set(stash)
    BY <2>1, Popped, StashTyped DEF StashInv, Apart
  <2>3. stash' = Append(stash, h) => Set(stash)' = Set(stash) \cup {h}
    <3>1. Set(Append(stash, h)) = Set(stash) \cup {h}
      BY <2>2, Added, StashTyped DEF StashInv
    <3> QED
      BY <3>1 DEF Set
  <2>4. Set(s_queue)' = Set(t)
    BY <2>1 DEF Set
  <2> HIDE DEF h, t
  <2> QED
    BY <1>9, <2>1, <2>2, <2>3, <2>4
<1>12. CASE Stash!Suspend
  BY <1>2, <1>4, <1>12 DEF Stash!Suspend, Stash!MailboxView!mailVars
<1>13. CASE UNCHANGED Stash!vars
  BY <1>2, <1>4, <1>13 DEF Stash!vars, Stash!MailboxView!mailVars
<1>14. Stash!Idle => UNCHANGED Stash!vars
  BY DEF Stash!Idle
<1> HIDE DEF view
<1> QED
  BY <1>5, <1>6, <1>7, <1>8, <1>10, <1>11, <1>12, <1>13, <1>14 DEF Stash!Next, Stash!MailboxView!Next

-----------------------------------------------------------------------------
\* The state in which a server begins: nothing has arrived.
LEMMA RefinementInit == Stash!Init => Stash!MailboxView!Init
<1> SUFFICES ASSUME Stash!Init PROVE Stash!MailboxView!Init
  OBVIOUS
<1>1. s_queue = <<>> /\ stash = <<>> /\ s_sent \ wire = {}
  BY DEF Stash!Init
<1>2. <<>> \in Seq(Messages) /\ Set(<<>>) = {}
  BY DEF Set
<1>3. Stash!ToSet(s_queue \o stash) = {}
  BY <1>1, <1>2, Joined
<1> QED
  BY <1>1, <1>3 DEF Stash!Init, Stash!MailboxView!Init

\* In every reachable state the stash and the queue are what StashInv says.
THEOREM StashInvariance == Stash!Spec => []StashInv
<1>1. StashInv /\ [Stash!Next]_Stash!vars => StashInv'
  BY StashStep
<1> QED
  BY <1>1, StashInit, PTL DEF Stash!Spec

(***************************************************************************)
(* receive() keeps its promise, whatever is cancelled and however messages *)
(* are delayed: the queue and the stash are a mailbox, no message is in    *)
(* two places, and a receive that sleeps has left none that it wants.      *)
(***************************************************************************)
THEOREM ImplementsMailboxHolds == Stash!Spec => ImplementsMailbox
<1>1. StashInv => Stash!NoDuplicates /\ Stash!NoneOverlooked /\ Stash!TypeOK
  BY Consequences DEF StashInv
<1>2. StashInv /\ [Stash!Next]_Stash!vars => [Stash!MailboxView!Next]_Stash!MailboxView!mailVars
  BY RefinementStep
<1> QED
  BY <1>1, <1>2, StashInvariance, RefinementInit, PTL
  DEF Stash!Spec, Stash!ImplementsMailbox, Stash!MailboxView!Spec, ImplementsMailbox
=============================================================================
