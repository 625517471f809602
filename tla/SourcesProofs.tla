---------------------------- MODULE SourcesProofs ----------------------------
(***************************************************************************)
(* Theorems about what tasks wait for: NetLink, for any ports and          *)
(* receivers and any number of messages and changes; Dial, CurlDriver and  *)
(* FdWatch, for any threads, sockets, bodies and bounds.                   *)
(***************************************************************************)
EXTENDS Sources, FiniteSetTheorems, TLAPS

(***************************************************************************)
(* Links of the simulated network.                                         *)
(***************************************************************************)
Destinations == Port \cup {Nowhere}
Sending == [m : Nat, version : Nat]
Place == [at : Destinations, state : {"idle", "wait", "delay", "resolve"}]

TypeOK ==
  /\ destination \in Destinations /\ version \in Nat /\ sends \in Nat
  /\ air \in Seq(Sending)
  /\ messageq \in [Port -> Seq(Nat)] /\ taken \in [Port -> Seq(Nat)]
  /\ triggered \in [Port -> BOOLEAN]
  /\ receiver \in [Receiver -> Place]

\* What is on its way was sent in this order, and what carries the present version was
\* sent since the last change.
InAir ==
  /\ \A i \in 1 .. Len(air) : /\ air[i].m <= sends /\ air[i].version <= version
                              /\ air[i].version = version => air[i].m \in standing
  /\ \A i, j \in 1 .. Len(air) : i < j => air[i].m < air[j].m

\* What has reached a port was sent before all that is on its way.
Behind ==
  \A p \in Port : \A i \in 1 .. Len(Reached(p)) :
    /\ Reached(p)[i] <= sends
    /\ \A k \in 1 .. Len(air) : Reached(p)[i] < air[k].m

\* Whoever does not stand idle is at a port; who waits there waits for an event that has
\* not been triggered.
Waiting ==
  \A r \in Receiver :
    /\ receiver[r].state # "idle" => receiver[r].at \in Port
    /\ receiver[r].state = "idle" => receiver[r] = Idle
    /\ receiver[r].state = "wait" =>
         ~triggered[receiver[r].at] /\ messageq[receiver[r].at] = <<>>

IInv == TypeOK /\ InAir /\ Behind /\ Ordered /\ Waiting

-----------------------------------------------------------------------------
\* A message that moves from the queue to its receiver has reached the port before.
LEMMA MoveKeeps ==
  ASSUME NEW S, NEW s \in Seq(S), NEW t \in Seq(S), t # <<>>
  PROVE  Append(s, Head(t)) \o Tail(t) = s \o t
<1>1. /\ Len(t) \in Nat /\ Len(t) > 0 /\ Head(t) = t[1] /\ Tail(t) \in Seq(S)
      /\ Len(Tail(t)) = Len(t) - 1 /\ \A i \in 1 .. Len(t) - 1 : Tail(t)[i] = t[i + 1]
  OBVIOUS
<1>2. Append(s, Head(t)) \in Seq(S) /\ Len(Append(s, Head(t))) = Len(s) + 1
  BY <1>1
<1>3. \A i \in 1 .. Len(s) + 1 : Append(s, Head(t))[i] = IF i <= Len(s) THEN s[i] ELSE t[1]
  BY <1>1
<1> DEFINE a == Append(s, Head(t)) \o Tail(t)
           b == s \o t
<1>4. a \in Seq(S) /\ b \in Seq(S) /\ Len(a) = Len(b) /\ Len(b) = Len(s) + Len(t)
  BY <1>1, <1>2
<1>5. ASSUME NEW i \in 1 .. Len(b) PROVE a[i] = b[i]
  BY <1>1, <1>2, <1>3, <1>4
<1> QED
  BY <1>4, <1>5

\* A message that is put at the end of the queue is at the end of all that reached the port.
LEMMA AppendKeeps ==
  ASSUME NEW S, NEW s \in Seq(S), NEW t \in Seq(S), NEW m \in S
  PROVE  s \o Append(t, m) = Append(s \o t, m)
<1> DEFINE a == s \o Append(t, m)
           b == Append(s \o t, m)
<1>1. a \in Seq(S) /\ b \in Seq(S) /\ Len(a) = Len(b) /\ Len(b) = Len(s) + Len(t) + 1
  OBVIOUS
<1>2. ASSUME NEW i \in 1 .. Len(b) PROVE a[i] = b[i]
  BY <1>1
<1> QED
  BY <1>1, <1>2

\* What a sequence becomes when its first element is taken.
LEMMA TailFacts ==
  ASSUME NEW S, NEW t \in Seq(S), t # <<>>
  PROVE  /\ Len(t) \in Nat /\ Len(t) > 0 /\ Head(t) = t[1] /\ 1 \in 1 .. Len(t) /\ t[1] \in S
         /\ Tail(t) \in Seq(S) /\ Len(Tail(t)) = Len(t) - 1
         /\ \A i \in 1 .. Len(Tail(t)) : /\ i \in 1 .. Len(t) /\ i + 1 \in 1 .. Len(t)
                                        /\ Tail(t)[i] = t[i + 1]
OBVIOUS

\* What a sequence becomes when an element is added.
LEMMA AppendFacts ==
  ASSUME NEW S, NEW t \in Seq(S), NEW m \in S
  PROVE  /\ Len(t) \in Nat /\ Append(t, m) \in Seq(S) /\ Len(Append(t, m)) = Len(t) + 1
         /\ \A i \in 1 .. Len(t) : Append(t, m)[i] = t[i] /\ t[i] \in S
         /\ Append(t, m)[Len(t) + 1] = m
OBVIOUS

\* The type of what is on its way.
LEMMA AirType ==
  ASSUME TypeOK
  PROVE  \A i \in 1 .. Len(air) : air[i].m \in Nat /\ air[i].version \in Nat
<1> SUFFICES ASSUME NEW i \in 1 .. Len(air) PROVE air[i] \in Sending
  BY DEF Sending
<1>1. air \in Seq(Sending)
  BY DEF TypeOK
<1> QED
  BY <1>1

\* The type of what has reached a port.
LEMMA ReachedType ==
  ASSUME TypeOK, NEW p \in Port PROVE Reached(p) \in Seq(Nat)
BY DEF TypeOK, Reached

\* The invariant holds initially.
LEMMA InitInv == Init => IInv
<1> SUFFICES ASSUME Init PROVE IInv
  OBVIOUS
<1>1. TypeOK
  BY DEF Init, TypeOK, Idle, Destinations, Place
<1>2. \A p \in Port : Reached(p) = <<>>
  BY DEF Init, Reached
<1>3. InAir /\ Behind /\ Ordered /\ Waiting
  BY <1>2 DEF Init, InAir, Behind, Ordered, Waiting, Idle
<1> QED
  BY <1>1, <1>3 DEF IInv

-----------------------------------------------------------------------------
\* A step of a receiver that finds the queue empty forgets nobody.
LEMMA WaitStep ==
  ASSUME TypeOK, Waiting, NEW r \in Receiver, NEW p \in Port, messageq[p] = <<>>, Wait(r, p)
  PROVE  /\ triggered' \in [Port -> BOOLEAN]
         /\ receiver' = [receiver EXCEPT ![r] = [at |-> p, state |-> "wait"]]
         /\ \A q \in Port : q # p => triggered'[q] = triggered[q]
         /\ ~triggered'[p]
<1>1. ASSUME NEW q \in Receiver, q # r, Rearms(p), receiver[q] = [at |-> p, state |-> "wait"]
      PROVE  FALSE
  BY <1>1 DEF Rearms, Waiting
<1>2. receiver' = [q \in Receiver |-> IF q = r THEN [at |-> p, state |-> "wait"] ELSE receiver[q]]
  BY <1>1 DEF Wait
<1> QED
  BY <1>2 DEF Wait, TypeOK

\* The queue a receiver looks at decides where it goes; the other receivers stay.
LEMMA LookStep ==
  ASSUME IInv, NEW r \in Receiver, NEW p \in Port, Look(r, p), UNCHANGED messageq
  PROVE  /\ triggered' \in [Port -> BOOLEAN]
         /\ receiver' \in [Receiver -> Place]
         /\ Waiting'
<1> USE DEF IInv
<1>1. CASE messageq[p] = <<>>
  <2>1. Wait(r, p)
    BY <1>1 DEF Look
  <2> HIDE DEF IInv
  <2>2. TypeOK /\ Waiting
    BY DEF IInv
  <2>3. /\ triggered' \in [Port -> BOOLEAN]
        /\ receiver' = [receiver EXCEPT ![r] = [at |-> p, state |-> "wait"]]
        /\ \A q \in Port : q # p => triggered'[q] = triggered[q]
        /\ ~triggered'[p]
    BY <1>1, <2>1, <2>2, WaitStep
  <2>4. receiver' \in [Receiver -> Place]
    BY <2>2, <2>3 DEF TypeOK, Place, Destinations
  <2>5. Waiting'
    <3> SUFFICES ASSUME NEW q \in Receiver
                 PROVE  /\ receiver'[q].state # "idle" => receiver'[q].at \in Port
                        /\ receiver'[q].state = "idle" => receiver'[q] = Idle
                        /\ receiver'[q].state = "wait" =>
                             ~triggered'[receiver'[q].at] /\ messageq'[receiver'[q].at] = <<>>
      BY DEF Waiting
    <3>1. CASE q = r
      BY <3>1, <1>1, <2>2, <2>3 DEF TypeOK
    <3>2. CASE q # r
      <4>1. receiver'[q] = receiver[q]
        BY <3>2, <2>2, <2>3 DEF TypeOK
      <4> QED
        BY <4>1, <2>2, <2>3 DEF Waiting
    <3> QED
      BY <3>1, <3>2
  <2> QED
    BY <2>3, <2>4, <2>5
<1>2. CASE messageq[p] # <<>>
  <2>1. /\ receiver' = [receiver EXCEPT ![r] = [at |-> p, state |-> "resolve"]]
        /\ UNCHANGED <<triggered, messageq>>
    BY <1>2 DEF Look
  <2>2. receiver' \in [Receiver -> Place] /\ triggered' \in [Port -> BOOLEAN]
    BY <2>1 DEF TypeOK, Place, Destinations
  <2>3. Waiting'
    BY <2>1 DEF TypeOK, Waiting
  <2> QED
    BY <2>2, <2>3
<1> QED
  BY <1>1, <1>2

\* What a step that leaves the queues, the air and the channel alone keeps.
LEMMA QueuesKept ==
  ASSUME IInv, UNCHANGED <<messageq, taken, linkVars>>, Waiting',
         triggered' \in [Port -> BOOLEAN],
         receiver' \in [Receiver -> Place]
  PROVE  IInv' /\ \A p \in Port : Reached(p)' = Reached(p)
<1>1. TypeOK' /\ InAir' /\ Behind' /\ Ordered'
  BY DEF IInv, TypeOK, InAir, Behind, Ordered, Reached, linkVars
<1> QED
  BY <1>1 DEF IInv, Reached

\* A message reaches a port.
LEMMA ArriveStep ==
  ASSUME IInv, Arrive
  PROVE  /\ IInv'
         /\ \A p \in Port : Reached(p)' # Reached(p) =>
              \E m \in standing : Reached(p)' = Append(Reached(p), m)
<1> USE DEF IInv
<1>1. /\ air \in Seq(Sending) /\ air # <<>> /\ air' = Tail(air) /\ air' \in Seq(Sending)
      /\ Len(air) \in Nat /\ Head(air) = air[1] /\ 1 \in 1 .. Len(air) /\ air[1] \in Sending
      /\ Len(air') = Len(air) - 1
      /\ \A i \in 1 .. Len(air') : /\ i \in 1 .. Len(air) /\ i + 1 \in 1 .. Len(air)
                                   /\ air'[i] = air[i + 1]
  <2>1. air \in Seq(Sending) /\ air # <<>> /\ air' = Tail(air)
    BY DEF Arrive, TypeOK
  <2> QED
    BY <2>1, TailFacts
<1>2. UNCHANGED <<destination, version, sends, standing>>
  BY DEF Arrive
<1>3. InAir'
  <2>1. \A i \in 1 .. Len(air') : /\ air'[i].m <= sends' /\ air'[i].version <= version'
                                  /\ air'[i].version = version' => air'[i].m \in standing'
    BY <1>1, <1>2 DEF InAir
  <2>2. \A i, j \in 1 .. Len(air') : i < j => air'[i].m < air'[j].m
    <3> SUFFICES ASSUME NEW i \in 1 .. Len(air'), NEW j \in 1 .. Len(air'), i < j
                 PROVE  air'[i].m < air'[j].m
      OBVIOUS
    <3>1. air'[i] = air[i + 1] /\ air'[j] = air[j + 1] /\ i + 1 < j + 1
          /\ i + 1 \in 1 .. Len(air) /\ j + 1 \in 1 .. Len(air)
      BY <1>1
    <3> QED
      BY <3>1 DEF InAir
  <2> QED
    BY <2>1, <2>2 DEF InAir
<1>4. CASE Stale(Head(air))
  <2>1. UNCHANGED portVars
    BY <1>4 DEF Arrive
  <2>2. \A p \in Port : Reached(p)' = Reached(p)
    BY <2>1 DEF Reached, portVars
  <2>3. Behind'
    BY <1>1, <1>2, <2>2 DEF Behind
  <2>4. TypeOK' /\ Ordered' /\ Waiting'
    BY <1>1, <1>2, <2>1, <2>2 DEF TypeOK, Ordered, Waiting, portVars
  <2> QED
    BY <1>3, <2>2, <2>3, <2>4
<1>5. CASE ~Stale(Head(air))
  <2> DEFINE w == Head(air)
  <2>0. destination \in Port
    BY <1>5 DEF Stale, TypeOK, Destinations
  <2>d. PICK d \in Port : d = destination
    BY <2>0
  <2>1. d \in Port /\ w.version = version /\ w.m \in Nat /\ w.m \in standing /\ w.m <= sends
    BY <1>1, <1>5 DEF Stale, InAir, Sending
  <2>2. /\ messageq' = [messageq EXCEPT ![d] = Append(@, w.m)]
        /\ triggered' = [triggered EXCEPT ![d] = TRUE]
        /\ receiver' = Woken(d)
        /\ UNCHANGED taken
    BY <1>5, <2>d DEF Arrive
  <2>3. /\ messageq' \in [Port -> Seq(Nat)] /\ taken' \in [Port -> Seq(Nat)]
        /\ triggered' \in [Port -> BOOLEAN]
    BY <2>1, <2>2 DEF TypeOK
  <2>4. receiver' \in [Receiver -> Place]
    BY <2>1, <2>2 DEF TypeOK, Woken, Destinations, Place
  <2>5. TypeOK'
    BY <1>1, <1>2, <2>3, <2>4 DEF TypeOK
  <2>6. Reached(d)' = Append(Reached(d), w.m)
    <3>1. taken[d] \in Seq(Nat) /\ messageq[d] \in Seq(Nat) /\ w.m \in Nat
      BY <2>1 DEF TypeOK
    <3>2. PICK m \in Nat : m = w.m
      BY <3>1
    <3>3. taken'[d] = taken[d] /\ messageq'[d] = Append(messageq[d], m)
      BY <2>1, <2>2, <3>2 DEF TypeOK
    <3>4. taken[d] \o Append(messageq[d], m) = Append(taken[d] \o messageq[d], m)
      <4>1. \A s \in Seq(Nat) : \A t \in Seq(Nat) : s \o Append(t, m) = Append(s \o t, m)
        BY AppendKeeps
      <4> QED
        BY <3>1, <4>1
    <3>5. Reached(d)' = Append(Reached(d), m)
      BY <3>3, <3>4 DEF Reached
    <3> QED
      BY <3>2, <3>5
  <2>7. \A p \in Port : p # d => Reached(p)' = Reached(p)
    BY <2>1, <2>2 DEF TypeOK, Reached
  <2>8. /\ Reached(d) \in Seq(Nat) /\ Len(Reached(d)') = Len(Reached(d)) + 1
        /\ \A i \in 1 .. Len(Reached(d)) + 1 :
             Reached(d)'[i] = IF i <= Len(Reached(d)) THEN Reached(d)[i] ELSE w.m
    <3>1. Reached(d) \in Seq(Nat) /\ w.m \in Nat
      BY <2>1, ReachedType
    <3> HIDE DEF w
    <3> QED
      BY <3>1, <2>6, AppendFacts
  <2>9. ASSUME NEW p \in Port, NEW i \in 1 .. Len(Reached(p)')
        PROVE  /\ Reached(p)'[i] <= sends'
               /\ \A k \in 1 .. Len(air') : Reached(p)'[i] < air'[k].m
    <3>1. CASE p # d
      BY <3>1, <1>1, <1>2, <2>7, <2>9 DEF Behind
    <3>2. CASE p = d /\ i <= Len(Reached(d))
      <4>1. Reached(p)'[i] = Reached(d)[i] /\ i \in 1 .. Len(Reached(d))
        BY <3>2, <2>8, <2>9
      <4> QED
        BY <4>1, <1>1, <1>2, <2>1 DEF Behind
    <3>3. CASE p = d /\ i > Len(Reached(d))
      <4>1. Reached(p)'[i] = air[1].m
        BY <3>3, <2>8, <2>9, <1>1
      <4> QED
        BY <4>1, <1>1, <1>2, <2>1 DEF InAir
    <3> QED
      BY <3>1, <3>2, <3>3, <2>8, <2>9
  <2>10. Behind'
    BY <2>9 DEF Behind
  <2>11. ASSUME NEW p \in Port, NEW i \in 1 .. Len(Reached(p)'), NEW j \in 1 .. Len(Reached(p)'), i < j
         PROVE  Reached(p)'[i] < Reached(p)'[j]
    <3>1. CASE p # d
      <4>1. Reached(p)' = Reached(p) /\ Reached(p) \in Seq(Nat)
        BY <3>1, <2>7, ReachedType
      <4> QED
        BY <4>1, <2>11 DEF Ordered
    <3>2. CASE p = d /\ j <= Len(Reached(d))
      <4>1. /\ i \in 1 .. Len(Reached(d)) /\ j \in 1 .. Len(Reached(d)) /\ Reached(d) \in Seq(Nat)
            /\ Reached(p)'[i] = Reached(d)[i] /\ Reached(p)'[j] = Reached(d)[j]
        BY <3>2, <2>8, <2>11
      <4> QED
        BY <4>1, <2>11 DEF Ordered
    <3>3. CASE p = d /\ j > Len(Reached(d))
      <4>1. i \in 1 .. Len(Reached(d)) /\ Reached(p)'[i] = Reached(d)[i] /\ Reached(p)'[j] = air[1].m
        BY <3>3, <2>8, <2>11, <1>1
      <4> QED
        BY <4>1, <3>3, <1>1, <2>1 DEF Behind
    <3> QED
      BY <3>1, <3>2, <3>3, <2>8, <2>11
  <2>12. Ordered'
    <3>1. \A p \in Port : Reached(p)' \in Seq(Nat)
      BY <2>5 DEF TypeOK, Reached
    <3> QED
      BY SMTT(30), <2>11, <3>1 DEF Ordered
  <2>13. Waiting'
    <3> SUFFICES ASSUME NEW q \in Receiver
                 PROVE  /\ receiver'[q].state # "idle" => receiver'[q].at \in Port
                        /\ receiver'[q].state = "idle" => receiver'[q] = Idle
                        /\ receiver'[q].state = "wait" =>
                             ~triggered'[receiver'[q].at] /\ messageq'[receiver'[q].at] = <<>>
      BY DEF Waiting
    <3>1. receiver[q] \in Place
      BY DEF TypeOK
    <3>2. CASE receiver[q] = [at |-> d, state |-> "wait"]
      <4>1. receiver'[q] = [at |-> d, state |-> "delay"]
        BY <3>2, <2>2 DEF Woken
      <4> QED
        BY <4>1
    <3>3. CASE receiver[q] # [at |-> d, state |-> "wait"]
      <4>1. receiver'[q] = receiver[q]
        BY <3>3, <2>2 DEF Woken
      <4>2. receiver[q].state = "wait" => receiver[q].at \in Port /\ receiver[q].at # d
        BY <3>1, <3>3 DEF Place, Waiting
      <4> QED
        BY <4>1, <4>2, <2>2 DEF TypeOK, Waiting
    <3> QED
      BY <3>2, <3>3
  <2> QED
    BY <1>3, <2>1, <2>5, <2>6, <2>7, <2>10, <2>12, <2>13
<1> QED
  BY <1>4, <1>5

-----------------------------------------------------------------------------
\* Every step keeps the invariant and adds to a port only what was sent since the channel
\* last changed.
LEMMA StepInv ==
  ASSUME IInv, [Next]_vars
  PROVE  /\ IInv'
         /\ \A p \in Port : Reached(p)' # Reached(p) =>
              \E m \in standing : Reached(p)' = Append(Reached(p), m)
<1>1. ASSUME NEW d \in Destinations, Change(d)
      PROVE  IInv' /\ \A p \in Port : Reached(p)' = Reached(p)
  <2>1. \A p \in Port : Reached(p)' = Reached(p)
    BY <1>1 DEF Change, portVars, Reached
  <2>2. TypeOK'
    BY <1>1 DEF IInv, TypeOK, Change, portVars
  <2>3. InAir'
    <3>1. /\ UNCHANGED <<air, sends>> /\ version' = version + 1 /\ version \in Nat
      BY <1>1 DEF IInv, TypeOK, Change
    <3>2. \A i \in 1 .. Len(air) : air[i].version \in Nat
      BY AirType DEF IInv
    <3> QED
      BY <3>1, <3>2 DEF IInv, InAir
  <2>4. Behind' /\ Ordered' /\ Waiting'
    BY <1>1, <2>1 DEF IInv, Behind, Ordered, Waiting, Change, portVars
  <2> QED
    BY <2>1, <2>2, <2>3, <2>4 DEF IInv
<1>2. ASSUME Send
      PROVE  IInv' /\ \A p \in Port : Reached(p)' = Reached(p)
  <2>1. \A p \in Port : Reached(p)' = Reached(p)
    BY <1>2 DEF Send, portVars, Reached
  <2>2. /\ sends' = sends + 1 /\ sends \in Nat /\ air \in Seq(Sending)
        /\ UNCHANGED <<destination, version, portVars>>
    BY <1>2 DEF IInv, TypeOK, Send
  <2>3. \A p \in Port : Reached(p) \in Seq(Nat)
    BY ReachedType DEF IInv
  <2>4. CASE UNCHANGED <<air, standing>>
    <3>1. TypeOK' /\ Waiting' /\ Ordered'
      BY <2>1, <2>2, <2>4 DEF IInv, TypeOK, Waiting, Ordered, portVars
    <3>2. InAir'
      <4>1. \A i \in 1 .. Len(air) : air[i].m \in Nat
        BY AirType DEF IInv
      <4> QED
        BY <4>1, <2>2, <2>4 DEF IInv, InAir
    <3>3. Behind'
      <4> SUFFICES ASSUME NEW p \in Port, NEW i \in 1 .. Len(Reached(p))
                   PROVE  /\ Reached(p)[i] <= sends'
                          /\ \A k \in 1 .. Len(air) : Reached(p)[i] < air[k].m
        BY <2>1, <2>4 DEF Behind
      <4> QED
        BY <2>2, <2>3 DEF IInv, Behind
    <3> QED
      BY <2>1, <3>1, <3>2, <3>3 DEF IInv
  <2>5. CASE /\ air' = Append(air, [m |-> sends', version |-> version])
             /\ standing' = standing \cup {sends'}
    <3>1. /\ air' \in Seq(Sending) /\ Len(air') = Len(air) + 1 /\ Len(air) \in Nat
          /\ \A i \in 1 .. Len(air) : air'[i] = air[i] /\ air[i] \in Sending
          /\ air'[Len(air) + 1] = [m |-> sends + 1, version |-> version]
      <4>1. [m |-> sends', version |-> version] \in Sending
        BY <2>2 DEF IInv, TypeOK, Sending
      <4> QED
        BY <4>1, <2>2, <2>5, AppendFacts
    <3>2. TypeOK' /\ Waiting' /\ Ordered'
      BY <2>1, <2>2, <3>1 DEF IInv, TypeOK, Waiting, Ordered, portVars
    <3>3. ASSUME NEW i \in 1 .. Len(air')
          PROVE  /\ air'[i].m <= sends' /\ air'[i].version <= version'
                 /\ air'[i].version = version' => air'[i].m \in standing'
      <4>1. CASE i \in 1 .. Len(air)
        <5>1. air'[i] = air[i] /\ air[i].m \in Nat
          BY <4>1, <3>1 DEF Sending
        <5> QED
          BY <4>1, <5>1, <2>2, <2>5 DEF IInv, InAir
      <4>2. CASE i = Len(air) + 1
        BY <4>2, <3>1, <2>2, <2>5 DEF IInv, TypeOK
      <4> QED
        BY <4>1, <4>2, <3>1
    <3>4. ASSUME NEW i \in 1 .. Len(air'), NEW j \in 1 .. Len(air'), i < j
          PROVE  air'[i].m < air'[j].m
      <4>1. CASE j \in 1 .. Len(air)
        <5>1. i \in 1 .. Len(air) /\ air'[i] = air[i] /\ air'[j] = air[j]
          BY <4>1, <3>1, <3>4
        <5> QED
          BY <4>1, <5>1, <3>4 DEF IInv, InAir
      <4>2. CASE j = Len(air) + 1
        <5>1. i \in 1 .. Len(air) /\ air'[i].m = air[i].m /\ air[i].m \in Nat /\ air'[j].m = sends + 1
          BY <4>2, <3>1, <3>4 DEF Sending
        <5> QED
          BY <5>1, <2>2 DEF IInv, InAir
      <4> QED
        BY <4>1, <4>2, <3>1
    <3>5. InAir'
      BY <3>3, <3>4 DEF InAir
    <3>6. Behind'
      <4> SUFFICES ASSUME NEW p \in Port, NEW i \in 1 .. Len(Reached(p))
                   PROVE  /\ Reached(p)[i] <= sends'
                          /\ \A k \in 1 .. Len(air') : Reached(p)[i] < air'[k].m
        BY <2>1 DEF Behind
      <4>1. Reached(p)[i] \in Nat /\ Reached(p)[i] <= sends
        BY <2>3 DEF IInv, Behind
      <4>2. ASSUME NEW k \in 1 .. Len(air') PROVE Reached(p)[i] < air'[k].m
        <5>1. CASE k \in 1 .. Len(air)
          BY <5>1, <3>1 DEF IInv, Behind
        <5>2. CASE k = Len(air) + 1
          BY <5>2, <3>1, <4>1, <2>2
        <5> QED
          BY <5>1, <5>2, <3>1
      <4> QED
        BY <4>1, <4>2, <2>2
    <3> QED
      BY <2>1, <3>2, <3>5, <3>6 DEF IInv
  <2> QED
    BY <1>2, <2>4, <2>5 DEF Send
<1>3. ASSUME NEW r \in Receiver, NEW p \in Port, Receive(r, p)
      PROVE  IInv' /\ \A q \in Port : Reached(q)' = Reached(q)
  BY <1>3, LookStep, QueuesKept DEF Receive
<1>4. ASSUME NEW r \in Receiver, Delayed(r)
      PROVE  IInv' /\ \A q \in Port : Reached(q)' = Reached(q)
  <2>1. receiver[r].at \in Port
    BY <1>4 DEF Delayed, IInv, Waiting
  <2> QED
    BY <1>4, <2>1, LookStep, QueuesKept DEF Delayed
<1>5. ASSUME NEW r \in Receiver, Take(r)
      PROVE  IInv' /\ \A q \in Port : Reached(q)' = Reached(q)
  <2>0. receiver[r].at \in Port /\ UNCHANGED linkVars
    BY <1>5 DEF Take, IInv, Waiting
  <2>1. PICK p \in Port : p = receiver[r].at
    BY <2>0
  <2>2. CASE messageq[p] = <<>>
    <3>1. Wait(r, p) /\ UNCHANGED <<messageq, taken>>
      BY <1>5, <2>1, <2>2 DEF Take
    <3>2. Look(r, p)
      BY <2>2, <3>1 DEF Look
    <3> QED
      BY <2>0, <3>1, <3>2, LookStep, QueuesKept
  <2>3. CASE messageq[p] # <<>>
    <3>1. /\ taken' = [taken EXCEPT ![p] = Append(@, Head(messageq[p]))]
          /\ messageq' = [messageq EXCEPT ![p] = Tail(@)]
          /\ receiver' = [receiver EXCEPT ![r] = Idle]
          /\ UNCHANGED triggered
      BY <1>5, <2>1, <2>3 DEF Take, PopFront
    <3>2. messageq[p] \in Seq(Nat) /\ taken[p] \in Seq(Nat) /\ Head(messageq[p]) \in Nat
          /\ Tail(messageq[p]) \in Seq(Nat)
      BY <2>1, <2>3 DEF IInv, TypeOK
    <3>3. \A q \in Port : Reached(q)' = Reached(q)
      <4>1. ASSUME NEW q \in Port, q # p PROVE Reached(q)' = Reached(q)
        BY <4>1, <3>1 DEF IInv, TypeOK, Reached
      <4>2. taken'[p] = Append(taken[p], Head(messageq[p])) /\ messageq'[p] = Tail(messageq[p])
        BY <3>1 DEF IInv, TypeOK
      <4>3. Reached(p)' = Reached(p)
        BY <2>3, <3>2, <4>2, MoveKeeps DEF Reached
      <4> QED
        BY <4>1, <4>3
    <3>4. TypeOK'
      BY <2>0, <2>1, <3>1, <3>2 DEF IInv, TypeOK, linkVars, Idle, Destinations, Place
    <3>5. InAir' /\ Behind' /\ Ordered'
      BY <2>0, <3>3 DEF IInv, InAir, Behind, Ordered, linkVars
    <3>6. Waiting'
      <4> SUFFICES ASSUME NEW q \in Receiver
                   PROVE  /\ receiver'[q].state # "idle" => receiver'[q].at \in Port
                          /\ receiver'[q].state = "idle" => receiver'[q] = Idle
                          /\ receiver'[q].state = "wait" =>
                               ~triggered'[receiver'[q].at] /\ messageq'[receiver'[q].at] = <<>>
        BY DEF Waiting
      <4>1. CASE q = r
        BY <4>1, <3>1 DEF IInv, TypeOK, Idle
      <4>2. CASE q # r
        BY <4>2, <2>1, <2>3, <3>1 DEF IInv, TypeOK, Waiting
      <4> QED
        BY <4>1, <4>2
    <3> QED
      BY <3>3, <3>4, <3>5, <3>6 DEF IInv
  <2> QED
    BY <2>2, <2>3
<1>6. ASSUME NEW r \in Receiver, Cancel(r)
      PROVE  IInv' /\ \A q \in Port : Reached(q)' = Reached(q)
  <2>1. /\ receiver' = [receiver EXCEPT ![r] = Idle]
        /\ UNCHANGED <<messageq, triggered, taken, linkVars>>
    BY <1>6 DEF Cancel
  <2>2. Waiting' /\ triggered' \in [Port -> BOOLEAN]
    BY <2>1 DEF IInv, TypeOK, Waiting, Idle
  <2>3. receiver' \in [Receiver -> Place]
    BY <2>1 DEF IInv, TypeOK, Idle, Destinations, Place
  <2> QED
    BY <2>1, <2>2, <2>3, QueuesKept
<1>7. ASSUME UNCHANGED vars
      PROVE  IInv' /\ \A q \in Port : Reached(q)' = Reached(q)
  <2>1. UNCHANGED <<messageq, taken, linkVars>> /\ Waiting' /\ triggered' \in [Port -> BOOLEAN]
    BY <1>7 DEF vars, portVars, IInv, TypeOK, Waiting
  <2> QED
    BY <1>7, <2>1, QueuesKept DEF vars, portVars, IInv, TypeOK
<1> QED
  BY <1>1, <1>2, <1>3, <1>4, <1>5, <1>6, <1>7, ArriveStep DEF Next, Destinations

-----------------------------------------------------------------------------
(***************************************************************************)
(* However the channel is connected and disconnected and receivers come,   *)
(* go and are cancelled, no message crosses a change, ports hand out each  *)
(* once and in order, and nobody waits where a message is.                 *)
(***************************************************************************)
THEOREM DeliversHolds == Spec => Delivers
<1>1. IInv /\ [Next]_vars => IInv'
  BY StepInv
<1>2. IInv => Ordered /\ NobodyWaits
  BY DEF IInv, TypeOK, Place, Waiting, NobodyWaits
<1>3. IInv /\ [Next]_vars =>
        [\A p \in Port : Reached(p)' # Reached(p) =>
           \E m \in standing : Reached(p)' = Append(Reached(p), m)]_vars
  BY StepInv
<1> QED
  BY InitInv, <1>1, <1>2, <1>3, PTL DEF Spec, Delivers, NoCrossing

-----------------------------------------------------------------------------
(***************************************************************************)
(* Connections.                                                            *)
(***************************************************************************)
DialType ==
  /\ dial_pc \in {"lookup", "try", "connecting", "returned", "threw", "destroyed"}
  /\ thread \in {"running", "triggered", "gone"} /\ res \in {"unset", "none", "list"}
  /\ found \in Nat /\ ai \in Nat \ {0} /\ error \in Int
  /\ f \subseteq Nat /\ result \subseteq Nat /\ failed \subseteq Nat

\* The thread and the coroutine each know how far the other has come, by res.
Lookups ==
  /\ thread = "running" <=> res = "unset"
  /\ dial_pc \in {"try", "connecting"} => res = "list"
  /\ dial_pc \in {"returned", "threw"} => res # "unset"
  /\ freed = IF Dialing!Ended /\ thread = "gone" /\ res = "list" THEN 1 ELSE 0

\* The addresses before the next have failed or been bound, and the coroutine itself holds
\* a socket only while it connects it.
Tried ==
  /\ open = f \cup result
  /\ dial_pc = "lookup" => ai = 1 /\ result = {} /\ failed = {}
  /\ dial_pc \in {"try", "connecting"} =>
       ai <= found + 1 /\ failed \cup result = 1 .. ai - 1 /\ failed \cap result = {}
  /\ dial_pc = "connecting" => dial_op.kind = "connect" /\ ai <= found /\ f = {ai}
  /\ dial_pc # "connecting" => f = {}
  /\ dial_op.kind = "connect" /\ dial_pc # "returned" => result = {}

DialInv == DialType /\ Lookups /\ Tried /\ Dialing!Usable

\* An end of the coroutine: the list of addresses is freed if the thread is gone.
LEMMA EndLookups ==
  ASSUME DialType, Lookups, ~Dialing!Ended, NEW how \in {"returned", "threw", "destroyed"},
         NEW kept, Dialing!End(how, kept), how \in {"returned", "threw"} => res # "unset"
  PROVE  Lookups'
BY DEF DialType, Lookups, Dialing!Ended, Dialing!End, Dialing!Free

\* What the coroutine keeps at its end was the set of sockets it returns.
LEMMA EndTried ==
  ASSUME DialType, Tried, NEW how \in {"returned", "threw", "destroyed"}, NEW kept \in SUBSET Nat,
         Dialing!End(how, kept), dial_op.kind = "connect" /\ how # "returned" => kept = {}
  PROVE  Tried'
BY DEF Tried, Dialing!End

\* An address that fails has its socket closed, and the next one is up.
LEMMA FailInv ==
  ASSUME DialInv, dial_pc \in {"try", "connecting"}, ai <= found,
         Dialing!Fail(Dialing!Closed(ai))
  PROVE  DialInv'
<1>1. DialType'
  BY DEF DialInv, DialType, Dialing!Fail
<1>2. Lookups'
  BY DEF DialInv, DialType, Lookups, Dialing!Fail, Dialing!Ended
<1>3. ai \notin failed \cup result /\ (1 .. ai) = (1 .. ai - 1) \cup {ai}
  <2>1. failed \cup result = 1 .. ai - 1
    BY DEF DialInv, Tried
  <2> QED
    BY <2>1 DEF DialInv, DialType
<1>4. open' = result /\ f' = {} /\ result' = result /\ failed' = failed \cup {ai} /\ ai' = ai + 1
      /\ dial_pc' = "try" /\ found' = found /\ dial_op' = dial_op
  BY <1>3 DEF DialInv, Tried, DialType, Dialing!Fail, Dialing!Closed
<1>5. failed' \cup result' = 1 .. ai' - 1
  <2>1. ai' - 1 = ai
    BY <1>4 DEF DialInv, DialType
  <2>2. failed \cup result = 1 .. ai - 1
    BY DEF DialInv, Tried
  <2> QED
    BY <1>3, <1>4, <2>1, <2>2
<1>6. failed' \cap result' = {}
  <2>1. failed \cap result = {}
    BY DEF DialInv, Tried
  <2> QED
    BY <1>3, <1>4, <2>1
<1>7. ai' <= found' + 1
  BY <1>4 DEF DialInv, DialType
<1>8. Tried'
  <2>1. dial_op.kind = "connect" => result = {}
    BY DEF DialInv, Tried
  <2> QED
    BY <1>4, <1>5, <1>6, <1>7, <2>1 DEF Tried
<1>9. Dialing!Usable'
  BY <1>4 DEF Dialing!Usable
<1> QED
  BY <1>1, <1>2, <1>8, <1>9 DEF DialInv

\* The coroutine returns sockets none of which has failed.
LEMMA ReturnInv ==
  ASSUME DialInv, dial_pc \in {"try", "connecting"}, NEW kept \in SUBSET Nat,
         kept # {}, kept \cap failed' = {}, failed' \in SUBSET Nat, error' \in Int,
         Dialing!End("returned", kept)
  PROVE  DialInv'
<1>1. DialType'
  BY DEF DialInv, DialType, Dialing!End
<1>2. Lookups'
  BY EndLookups DEF DialInv, Lookups, Dialing!Ended
<1>3. Tried'
  BY EndTried DEF DialInv
<1>4. Dialing!Usable'
  BY DEF Dialing!Usable, Dialing!End
<1> QED
  BY <1>1, <1>2, <1>3, <1>4 DEF DialInv

\* The invariant holds initially.
LEMMA DialInit == Dialing!Init => DialInv
BY DEF Dialing!Init, DialInv, DialType, Lookups, Tried, Dialing!Usable, Dialing!Ended

\* Every step keeps it.
LEMMA DialStep == DialInv /\ [Dialing!Next]_(Dialing!vars) => DialInv'
<1> SUFFICES ASSUME DialInv, [Dialing!Next]_(Dialing!vars) PROVE DialInv'
  OBVIOUS
<1>1. CASE Dialing!Lookup
  <2>1. DialType'
    BY <1>1, SMT DEF DialInv, DialType, Dialing!Lookup, Dialing!socketVars
  <2>2. Lookups'
    BY <1>1 DEF DialInv, Lookups, DialType, Dialing!Lookup, Dialing!Ended
  <2>3. Tried' /\ Dialing!Usable'
    BY <1>1 DEF DialInv, Lookups, Tried, Dialing!Lookup, Dialing!socketVars, Dialing!Usable
  <2> QED
    BY <2>1, <2>2, <2>3 DEF DialInv
<1>2. CASE Dialing!ThreadEnds
  <2>1. DialType' /\ Tried' /\ Dialing!Usable'
    BY <1>2 DEF DialInv, DialType, Tried, Dialing!ThreadEnds, Dialing!socketVars, Dialing!Usable
  <2>2. Lookups'
    BY <1>2 DEF DialInv, Lookups, DialType, Dialing!ThreadEnds, Dialing!Free, Dialing!Ended
  <2> QED
    BY <2>1, <2>2 DEF DialInv
<1>3. CASE Dialing!Resume
  <2>1. CASE res = "none"
    <3>1. Dialing!End("threw", {}) /\ error' = -1 /\ UNCHANGED failed /\ dial_pc = "lookup"
      BY <1>3, <2>1 DEF Dialing!Resume
    <3>2. DialType'
      BY <3>1 DEF DialInv, DialType, Dialing!End
    <3>3. Lookups'
      BY <2>1, <3>1, EndLookups DEF DialInv, Dialing!Ended
    <3>4. Tried'
      BY <3>1, EndTried DEF DialInv
    <3>5. Dialing!Usable'
      BY <3>1 DEF Dialing!Usable, Dialing!End
    <3> QED
      BY <3>2, <3>3, <3>4, <3>5 DEF DialInv
  <2>2. CASE res # "none"
    <3>1. dial_pc = "lookup" /\ res = "list" /\ dial_pc' = "try"
          /\ UNCHANGED <<dial_op, thread, res, found, ai, open, f, result, failed, error, freed>>
      BY <1>3, <2>2 DEF Dialing!Resume, DialInv, DialType, Dialing!socketVars
    <3>2. DialType' /\ Lookups'
      BY <3>1 DEF DialInv, DialType, Lookups, Dialing!Ended
    <3>3. Tried'
      <4>1. ai = 1 /\ result = {} /\ failed = {} /\ f = {} /\ open = {}
        BY <3>1 DEF DialInv, Tried
      <4>2. 1 .. ai - 1 = {} /\ ai <= found + 1
        BY <4>1 DEF DialInv, DialType
      <4> QED
        BY <3>1, <4>1, <4>2 DEF Tried
    <3>4. Dialing!Usable'
      BY <3>1 DEF Dialing!Usable
    <3> QED
      BY <3>2, <3>3, <3>4 DEF DialInv
  <2> QED
    BY <2>1, <2>2
<1>4. CASE Dialing!Refused
  BY <1>4, FailInv DEF Dialing!Refused
<1>5. CASE Dialing!Listen
  <2>1. ai \notin failed \cup result /\ (1 .. ai) = (1 .. ai - 1) \cup {ai}
    <3>1. failed \cup result = 1 .. ai - 1
      BY <1>5 DEF DialInv, Tried, Dialing!Listen
    <3> QED
      BY <3>1 DEF DialInv, DialType
  <2>2. failed \cap result = {}
    BY <1>5 DEF DialInv, Tried, Dialing!Listen
  <2>3. CASE Dialing!End("returned", result \cup {ai}) /\ UNCHANGED <<failed, error>>
    <3>1. result \cup {ai} \in SUBSET Nat /\ (result \cup {ai}) \cap failed' = {}
          /\ failed' \in SUBSET Nat /\ error' \in Int
      BY <2>1, <2>2, <2>3 DEF DialInv, DialType
    <3> QED
      BY <1>5, <2>3, <3>1, ReturnInv DEF Dialing!Listen
  <2>4. CASE open' = open \cup {ai} /\ result' = result \cup {ai} /\ ai' = ai + 1
             /\ UNCHANGED <<dial_op, dial_pc, thread, res, found, f, failed, error, freed>>
    <3>1. DialType' /\ Lookups' /\ Dialing!Usable'
      BY <1>5, <2>4 DEF DialInv, DialType, Lookups, Dialing!Listen, Dialing!Ended, Dialing!Usable
    <3>2. failed' \cup result' = 1 .. ai' - 1 /\ failed' \cap result' = {}
      <4>1. ai' - 1 = ai
        BY <2>4 DEF DialInv, DialType
      <4>2. failed \cup result = 1 .. ai - 1
        BY <1>5 DEF DialInv, Tried, Dialing!Listen
      <4> QED
        BY <2>1, <2>2, <2>4, <4>1, <4>2
    <3>3. ai' <= found' + 1
      BY <1>5, <2>4 DEF DialInv, DialType, Dialing!Listen
    <3>4. Tried'
      BY <1>5, <2>4, <3>2, <3>3 DEF DialInv, Tried, Dialing!Listen
    <3> QED
      BY <3>1, <3>4 DEF DialInv
  <2> QED
    BY <1>5, <2>3, <2>4 DEF Dialing!Listen
<1>6. CASE Dialing!Connect
  <2>1. ai \notin failed
    <3>1. failed \cup result = 1 .. ai - 1
      BY <1>6 DEF DialInv, Tried, Dialing!Connect
    <3> QED
      BY <3>1 DEF DialInv, DialType
  <2>2. CASE Dialing!End("returned", {ai}) /\ UNCHANGED <<failed, error>>
    <3>1. {ai} \in SUBSET Nat /\ {ai} \cap failed' = {} /\ failed' \in SUBSET Nat /\ error' \in Int
      BY <2>1, <2>2 DEF DialInv, DialType
    <3> QED
      BY <1>6, <2>2, <3>1, ReturnInv DEF Dialing!Connect
  <2>3. CASE dial_pc' = "connecting" /\ open' = open \cup {ai} /\ f' = {ai}
             /\ UNCHANGED <<dial_op, thread, res, found, ai, result, failed, error, freed>>
    <3>1. DialType' /\ Lookups' /\ Dialing!Usable'
      BY <1>6, <2>3 DEF DialInv, DialType, Lookups, Dialing!Connect, Dialing!Ended, Dialing!Usable
    <3>2. Tried'
      BY <1>6, <2>3 DEF DialInv, Tried, Dialing!Connect
    <3> QED
      BY <3>1, <3>2 DEF DialInv
  <2> QED
    BY <1>6, <2>2, <2>3 DEF Dialing!Connect
<1>7. ASSUME NEW ok \in BOOLEAN, Dialing!Writable(ok) PROVE DialInv'
  <2>1. dial_pc = "connecting" /\ f = {ai} /\ ai <= found /\ ai \notin failed
    <3>1. dial_pc = "connecting"
      BY <1>7 DEF Dialing!Writable
    <3>2. failed \cup result = 1 .. ai - 1 /\ f = {ai} /\ ai <= found
      BY <3>1 DEF DialInv, Tried
    <3> QED
      BY <3>1, <3>2 DEF DialInv, DialType
  <2>2. CASE ok
    <3>1. Dialing!End("returned", f) /\ error' = error /\ failed' = failed
      BY <1>7, <2>2 DEF Dialing!Writable, Dialing!Connected
    <3>2. f \in SUBSET Nat /\ f # {} /\ f \cap failed' = {} /\ failed' \in SUBSET Nat /\ error' \in Int
      BY <2>1, <3>1 DEF DialInv, DialType
    <3> QED
      BY <2>1, <3>1, <3>2, ReturnInv
  <2>3. CASE ~ok
    <3>1. Dialing!Fail(Dialing!Closed(ai))
      BY <1>7, <2>3 DEF Dialing!Writable, Dialing!Connected
    <3> QED
      BY <2>1, <3>1, FailInv
  <2> QED
    BY <2>2, <2>3
<1>8. CASE Dialing!Exhausted
  <2>1. dial_pc = "try" /\ ai = found + 1 /\ failed \cup result = 1 .. found
        /\ failed \cap result = {} /\ res = "list" /\ UNCHANGED <<failed, error>>
    <3>1. dial_pc = "try" /\ ai > found /\ ai <= found + 1 /\ failed \cup result = 1 .. ai - 1
          /\ failed \cap result = {}
      BY <1>8 DEF DialInv, Tried, Dialing!Exhausted
    <3>2. ai = found + 1 /\ ai - 1 = found
      BY <3>1 DEF DialInv, DialType
    <3> QED
      BY <1>8, <3>1, <3>2 DEF DialInv, Lookups, Dialing!Exhausted
  <2>2. CASE result # {}
    <3>1. result \in SUBSET Nat /\ failed' \in SUBSET Nat /\ error' \in Int /\ result \cap failed' = {}
      BY <2>1 DEF DialInv, DialType
    <3> QED
      BY <1>8, <2>1, <2>2, <3>1, ReturnInv DEF Dialing!Exhausted
  <2>3. CASE result = {}
    <3>1. Dialing!End("threw", {}) /\ failed = 1 .. found
      BY <1>8, <2>1, <2>3 DEF Dialing!Exhausted
    <3>2. DialType'
      BY <2>1, <3>1 DEF DialInv, DialType, Dialing!End
    <3>3. Lookups'
      BY <2>1, <3>1, EndLookups DEF DialInv, Dialing!Ended
    <3>4. Tried'
      BY <3>1, EndTried DEF DialInv
    <3>5. Dialing!Usable'
      BY <2>1, <3>1 DEF Dialing!Usable, Dialing!End
    <3> QED
      BY <3>2, <3>3, <3>4, <3>5 DEF DialInv
  <2> QED
    BY <2>2, <2>3
<1>9. CASE Dialing!Destroy
  <2>1. dial_pc \in {"lookup", "connecting"} /\ Dialing!End("destroyed", {}) /\ UNCHANGED <<failed, error>>
    BY <1>9 DEF Dialing!Destroy
  <2>2. DialType' /\ Dialing!Usable'
    BY <2>1 DEF DialInv, DialType, Dialing!End, Dialing!Usable
  <2>3. Lookups'
    BY <2>1, EndLookups DEF DialInv, Dialing!Ended
  <2>4. Tried'
    BY <2>1, EndTried DEF DialInv
  <2> QED
    BY <2>2, <2>3, <2>4 DEF DialInv
<1>10. CASE UNCHANGED Dialing!vars
  BY <1>10 DEF Dialing!vars, DialInv, DialType, Lookups, Tried, Dialing!Usable, Dialing!Ended
<1> QED
  BY <1>1, <1>2, <1>3, <1>4, <1>5, <1>6, <1>7, <1>8, <1>9, <1>10 DEF Dialing!Next

(***************************************************************************)
(* However lookup, connection and destruction interleave, nothing leaks    *)
(* and nothing is freed early or twice; and what is returned is usable.    *)
(***************************************************************************)
THEOREM DialedHolds == Dialing!Spec => []Dialed
<1>1. DialInv => Dialed
  <2>1. DialInv => Dialing!Released
    BY DEF DialInv, Tried, Lookups, Dialing!Released
  <2> QED
    BY <2>1 DEF DialInv, Dialed
<1> QED
  BY DialInit, DialStep, <1>1, PTL DEF Dialing!Spec

-----------------------------------------------------------------------------
(***************************************************************************)
(* libcurl's driver.                                                       *)
(***************************************************************************)
WatchMask == Curl!Mask \cup {"none"}
WatchStates ==
  [mask : WatchMask, file : Nat, awaits : WatchMask, ev : {"none", "waiting", "poked", "ready"}]
CurlFiles == [file : Nat, mask : WatchMask]

CurlType ==
  /\ fds \in [Socket -> Nat] /\ curl \in [Socket -> CurlFiles] /\ opened \in Nat
  /\ watches \in [Socket -> WatchStates]
  /\ expiry \in [for : Nat, state : {"waiting", "poked", "fired"}]
  /\ next \in Nat /\ want \in Nat /\ asked \in Nat

\* A socket's watch, the driver's file and what libcurl asked for agree, also within a call
\* of libcurl; only the task that is on the stack may be left with nothing to watch.
SocketKept(s) ==
  LET w == watches[s] IN
  /\ w.mask = curl[s].mask /\ fds[s] = curl[s].file
  /\ curl[s].mask # "none" => curl[s].file # Curl!NoFile
  /\ Curl!Watched(s) => w.file # Curl!NoFile /\ w.ev # "none"
  /\ Curl!Watched(s) /\ curl[s].file # Curl!NoFile => w.file = curl[s].file
  /\ w.ev = "waiting" => w.awaits = w.mask
  /\ curl[s].mask = "none" /\ s # current => ~Curl!Watched(s)

OnStack ==
  /\ inside = "watch" <=> current # Curl!NoSocket
  /\ current # Curl!NoSocket =>
       current \in Socket /\ Curl!Watched(current) /\ watches[current].ev = "ready"

Sockets == OnStack /\ \A s \in Socket : SocketKept(s)

\* While the timer's task is in libcurl, the timeout that is to be armed is the one libcurl
\* waits for; otherwise it is, or is armed, or fired unseen.  Timeouts get later.
Timer ==
  /\ expiry.for <= asked /\ next <= asked
  /\ next # Curl!NoTimeout => expiry.for < next
  /\ expiry.state = "waiting" => expiry.for = want /\ next = Curl!NoTimeout
  /\ expiry.state = "poked" => next = want
  /\ expiry.state = "fired" => next = want \/ (expiry.for = want /\ next = Curl!NoTimeout)
  /\ inside = "timer" => expiry.state = "fired" /\ next = want

CurlInv == CurlType /\ Sockets /\ Timer


\* The kept watch of a socket depends on what is kept of it, and on whether its task is on
\* the stack.
LEMMA SocketFrame ==
  ASSUME NEW s \in Socket, SocketKept(s), watches'[s] = watches[s], curl'[s] = curl[s],
         fds'[s] = fds[s], current' = current \/ current = Curl!NoSocket \/ curl[s].mask # "none"
  PROVE  SocketKept(s)'
<1>1. s # 0
  BY SocketNumbers
<1> QED
  BY <1>1 DEF SocketKept, Curl!Watched, Curl!NoWatch, Curl!NoFile, Curl!NoSocket

\* Steps that leave libcurl's timer alone.
LEMMA TimerFrame ==
  ASSUME Timer, UNCHANGED <<expiry, next, want, asked>>, inside' = "timer" => inside = "timer"
  PROVE  Timer'
BY DEF Timer

\* Steps that leave the sockets alone.
LEMMA SocketsFrame ==
  ASSUME Sockets, UNCHANGED <<current, fds, watches, curl>>,
         inside' = "watch" <=> inside = "watch"
  PROVE  Sockets'
BY DEF Sockets, OnStack, SocketKept, Curl!Watched

\* Within a call, one socket is opened, closed, or gets another mask.
LEMMA OneSocket ==
  ASSUME Sockets, NEW s \in Socket, UNCHANGED <<inside, current>>,
         \A t \in Socket : t # s => watches'[t] = watches[t] /\ curl'[t] = curl[t] /\ fds'[t] = fds[t],
         SocketKept(s)',
         s = current => Curl!Watched(s)' /\ watches'[s].ev = "ready"
  PROVE  Sockets'
<1>1. ASSUME NEW t \in Socket PROVE SocketKept(t)'
  BY <1>1, SocketFrame DEF Sockets
<1>2. OnStack'
  BY DEF Sockets, OnStack, Curl!Watched
<1> QED
  BY <1>1, <1>2 DEF Sockets

\* The kinds of a socket's parts.
LEMMA SocketType ==
  ASSUME CurlType, NEW s \in Socket
  PROVE  /\ watches[s] \in WatchStates /\ curl[s] \in CurlFiles /\ fds[s] \in Nat
         /\ DOMAIN watches = Socket /\ DOMAIN curl = Socket /\ DOMAIN fds = Socket
BY DEF CurlType

\* A socket that is watched.
LEMMA WatchedSocket ==
  ASSUME CurlType, NEW s \in Socket, SocketKept(s), watches[s].ev # "none"
  PROVE  Curl!Watched(s)
BY DEF Curl!Watched, Curl!NoWatch

\* libcurl opens a socket.
LEMMA OpenStep ==
  ASSUME CurlType, Sockets, NEW s \in Socket, Curl!OpenSocket(s)
  PROVE  CurlType' /\ Sockets'
<1>1. /\ watches[s] = Curl!NoWatch /\ opened' = opened + 1 /\ opened' \in Nat /\ opened' # 0
      /\ fds' = [fds EXCEPT ![s] = opened'] /\ UNCHANGED <<inside, current, watches, expiry, next, want, asked>>
      /\ curl' = [curl EXCEPT ![s].file = opened']
  BY DEF Curl!OpenSocket, CurlType, Curl!Free, Curl!Watched, Curl!timerVars
<1>2. curl'[s] = [file |-> opened', mask |-> curl[s].mask] /\ curl'[s] \in CurlFiles /\ fds'[s] = opened'
  BY <1>1, SocketType DEF CurlFiles
<1>3. CurlType'
  BY <1>1, <1>2 DEF CurlType
<1>4. SocketKept(s)'
  BY <1>1, <1>2 DEF Sockets, SocketKept, Curl!Watched, Curl!NoWatch, Curl!NoFile
<1>5. s # current
  BY <1>1, SocketNumbers DEF Sockets, OnStack, Curl!NoSocket, Curl!Watched, Curl!NoWatch
<1>6. \A t \in Socket : t # s => watches'[t] = watches[t] /\ curl'[t] = curl[t] /\ fds'[t] = fds[t]
  BY <1>1 DEF CurlType
<1> QED
  BY <1>1, <1>3, <1>4, <1>5, <1>6, OneSocket

\* libcurl closes a socket that it no longer watches.
LEMMA CloseStep ==
  ASSUME CurlType, Sockets, NEW s \in Socket, Curl!CloseSocket(s)
  PROVE  CurlType' /\ Sockets'
<1>1. /\ curl[s].mask = "none" /\ fds' = [fds EXCEPT ![s] = 0]
      /\ curl' = [curl EXCEPT ![s] = [file |-> 0, mask |-> "none"]]
      /\ UNCHANGED <<inside, current, watches, opened, expiry, next, want, asked>>
  BY DEF Curl!CloseSocket, Curl!NoFile, Curl!Unknown, Curl!timerVars
<1>2. CurlType'
  BY <1>1 DEF CurlType, CurlFiles, WatchMask
<1>3. curl'[s] = [file |-> 0, mask |-> "none"] /\ fds'[s] = 0
  BY <1>1 DEF CurlType
<1>4. SocketKept(s)'
  BY <1>1, <1>3 DEF Sockets, SocketKept, Curl!Watched, Curl!NoFile
<1>5. s = current => Curl!Watched(s)' /\ watches'[s].ev = "ready"
  BY <1>1, SocketNumbers DEF Sockets, OnStack, Curl!Watched, Curl!NoSocket
<1>6. \A t \in Socket : t # s => watches'[t] = watches[t] /\ curl'[t] = curl[t] /\ fds'[t] = fds[t]
  BY <1>1 DEF CurlType
<1> QED
  BY <1>1, <1>2, <1>4, <1>5, <1>6, OneSocket

\* What watch_task installs for a mask that is not empty is a kept watch.
LEMMA InstalledKept ==
  ASSUME CurlType', NEW s \in Socket, curl'[s].file # 0, fds'[s] = curl'[s].file, curl'[s].mask # "none",
         watches'[s] = [mask |-> curl'[s].mask, file |-> curl'[s].file,
                        awaits |-> curl'[s].mask, ev |-> "waiting"]
  PROVE  SocketKept(s)'
BY DEF SocketKept, Curl!Watched, Curl!NoWatch, Curl!NoFile

\* libcurl changes the mask of a socket.
LEMMA CallbackStep ==
  ASSUME CurlType, Sockets, NEW s \in Socket, NEW mask \in WatchMask, Curl!SocketCallback(s, mask)
  PROVE  CurlType' /\ Sockets'
<1> DEFINE w == watches[s]
<1>1. w = [mask |-> w.mask, file |-> w.file, awaits |-> w.awaits, ev |-> w.ev] /\ w \in WatchStates
      /\ curl[s] \in CurlFiles /\ fds[s] \in Nat
  BY SocketType DEF WatchStates
<1>2. /\ curl[s].file # 0 /\ curl[s].mask # mask
      /\ curl' = [curl EXCEPT ![s].mask = mask]
      /\ UNCHANGED <<inside, current, fds, opened, expiry, next, want, asked>>
  BY DEF Curl!SocketCallback, Curl!NoFile, Curl!timerVars
<1>3. curl'[s] = [file |-> curl[s].file, mask |-> mask] /\ curl'[s] \in CurlFiles
  BY <1>1, <1>2, SocketType DEF CurlFiles
<1>4. SocketKept(s)
  BY DEF Sockets
<1>5. watches' = [watches EXCEPT ![s] = watches'[s]]
      /\ watches'[s] = IF Curl!Erases(s, mask) THEN Curl!NoWatch
         ELSE IF Curl!Watched(s) THEN Curl!Poked([w EXCEPT !.mask = mask])
         ELSE IF mask # "none" /\ fds[s] # 0
         THEN Curl!Installed([w EXCEPT !.mask = mask, !.file = fds[s]])
         ELSE w
  BY SocketType DEF Curl!SocketCallback, Curl!NoFile
<1>6. CASE Curl!Erases(s, mask)
  <2>1. mask = "none" /\ s # current /\ watches'[s] = Curl!NoWatch
    BY <1>5, <1>6 DEF Curl!Erases
  <2>2. watches'[s] \in WatchStates
    BY <2>1 DEF Curl!NoWatch, WatchStates, WatchMask, Curl!NoFile
  <2>3. SocketKept(s)'
    BY <1>2, <1>3, <1>4, <2>1 DEF SocketKept, Curl!Watched, Curl!NoWatch, Curl!NoFile
  <2>4. \A t \in Socket : t # s => watches'[t] = watches[t] /\ curl'[t] = curl[t] /\ fds'[t] = fds[t]
    BY <1>2, <1>5 DEF CurlType
  <2>5. CurlType'
    BY <1>2, <1>3, <1>5, <2>2 DEF CurlType
  <2> QED
    BY <1>2, <2>1, <2>3, <2>4, <2>5, OneSocket
<1>7. CASE ~Curl!Erases(s, mask) /\ Curl!Watched(s)
  <2>1. watches'[s] = [mask |-> mask, file |-> w.file, awaits |-> w.awaits,
                       ev |-> IF w.ev = "waiting" THEN "poked" ELSE w.ev]
    BY <1>1, <1>5, <1>7 DEF Curl!Poked
  <2>2. watches'[s] \in WatchStates
    BY <1>1, <2>1 DEF WatchStates
  <2>3. SocketKept(s)'
    BY <1>2, <1>3, <1>4, <1>7, <2>1 DEF SocketKept, Curl!Watched, Curl!NoWatch, Curl!NoFile, Curl!Erases
  <2>4. \A t \in Socket : t # s => watches'[t] = watches[t] /\ curl'[t] = curl[t] /\ fds'[t] = fds[t]
    BY <1>2, <1>5 DEF CurlType
  <2>5. CurlType'
    BY <1>2, <1>3, <1>5, <2>2 DEF CurlType
  <2>6. s = current => Curl!Watched(s)' /\ watches'[s].ev = "ready"
    BY <2>1, SocketNumbers DEF Sockets, OnStack, Curl!Watched, Curl!NoSocket, Curl!NoWatch
  <2> QED
    BY <1>2, <2>3, <2>4, <2>5, <2>6, OneSocket
<1>8. CASE ~Curl!Erases(s, mask) /\ ~Curl!Watched(s)
  <2>0. s # current
    BY <1>8, SocketNumbers DEF Sockets, OnStack, Curl!NoSocket
  <2>1. mask # "none" /\ fds[s] = curl[s].file
    BY <1>4, <1>8, <2>0 DEF Curl!Erases, SocketKept
  <2>2. watches'[s] = [mask |-> mask, file |-> fds[s], awaits |-> mask, ev |-> "waiting"]
    BY <1>1, <1>2, <1>5, <1>8, <2>1 DEF Curl!Installed
  <2>3. watches'[s] \in WatchStates
    BY <1>1, <2>2 DEF WatchStates
  <2>4. CurlType'
    BY <1>2, <1>3, <1>5, <2>3 DEF CurlType
  <2>5. SocketKept(s)'
    BY <1>2, <1>3, <2>1, <2>2, <2>4, InstalledKept
  <2>6. \A t \in Socket : t # s => watches'[t] = watches[t] /\ curl'[t] = curl[t] /\ fds'[t] = fds[t]
    BY <1>2, <1>5 DEF CurlType
  <2> QED
    BY <1>2, <2>0, <2>4, <2>5, <2>6, OneSocket
<1> QED
  BY <1>6, <1>7, <1>8

\* What watch_task installs.
LEMMA InstalledWatch ==
  ASSUME NEW w \in WatchStates
  PROVE  Curl!Installed(w) = [mask |-> w.mask, file |-> w.file, awaits |-> w.mask, ev |-> "waiting"]
<1>1. [w EXCEPT !.awaits = w.mask] = [mask |-> w.mask, file |-> w.file, awaits |-> w.mask, ev |-> w.ev]
  BY DEF WatchStates
<1>2. Curl!Installed(w) = [[w EXCEPT !.awaits = w.mask] EXCEPT !.ev = "waiting"]
  BY DEF Curl!Installed
<1> QED
  BY <1>1, <1>2

\* watch_task goes on: it waits again for what libcurl asked for last, or leaves.
LEMMA LoopStep ==
  ASSUME CurlType, Sockets, NEW s \in Socket, watches[s].ev \in {"poked", "ready"},
         watches' = [watches EXCEPT ![s] = Curl!Loop(@)], UNCHANGED <<fds, curl>>,
         current' = Curl!NoSocket, inside' # "watch", current \in {s, Curl!NoSocket}
  PROVE  watches' \in [Socket -> WatchStates] /\ Sockets'
<1> DEFINE w == watches[s]
<1>1. w = [mask |-> w.mask, file |-> w.file, awaits |-> w.awaits, ev |-> w.ev] /\ w \in WatchStates
      /\ curl[s] \in CurlFiles /\ fds[s] \in Nat
  BY SocketType DEF WatchStates
<1>2. SocketKept(s) /\ Curl!Watched(s)
  BY WatchedSocket DEF Sockets
<1>3. watches'[s] = Curl!Loop(w)
  BY SocketType
<1>4. watches'[s] = IF w.mask = "none" THEN Curl!NoWatch
                    ELSE [mask |-> w.mask, file |-> w.file, awaits |-> w.mask, ev |-> "waiting"]
  BY <1>1, <1>3, InstalledWatch DEF Curl!Loop
<1>5. watches'[s] \in WatchStates
  BY <1>1, <1>4 DEF WatchStates, Curl!NoWatch, WatchMask, Curl!NoFile
<1>6. SocketKept(s)'
  BY <1>2, <1>4 DEF SocketKept, Curl!Watched, Curl!NoWatch, Curl!NoFile
<1>7. ASSUME NEW t \in Socket, t # s PROVE SocketKept(t)'
  <2>1. watches'[t] = watches[t] /\ SocketKept(t)
    BY <1>7, SocketType DEF Sockets
  <2>2. t # current
    BY <1>7, SocketNumbers DEF Curl!NoSocket
  <2> QED
    BY <2>1, <2>2 DEF SocketKept, Curl!Watched
<1>8. OnStack'
  BY DEF OnStack, Curl!NoSocket
<1> QED
  BY <1>5, <1>6, <1>7, <1>8 DEF Sockets, CurlType

\* libcurl asks for another timeout, or for none.
LEMMA TimerCallbackStep ==
  ASSUME CurlInv, Curl!TimerCallback
  PROVE  CurlInv'
<1>1. PICK t \in {Curl!NoTimeout, asked + 1} :
         /\ want' = t /\ next' = t /\ asked' = IF t = Curl!NoTimeout THEN asked ELSE t
         /\ expiry' = [expiry EXCEPT !.state = IF @ = "waiting" THEN "poked" ELSE @]
         /\ UNCHANGED <<inside, current, fds, watches, curl, opened>>
  BY DEF Curl!TimerCallback, Curl!NextTimeout, Curl!socketVars
<1>2. expiry' = [for |-> expiry.for, state |-> IF expiry.state = "waiting" THEN "poked" ELSE expiry.state]
  BY <1>1 DEF CurlInv, CurlType
<1>3. CurlType'
  BY <1>1, <1>2 DEF CurlInv, CurlType, Curl!NoTimeout
<1>4. Timer'
  BY <1>1, <1>2 DEF CurlInv, CurlType, Timer, Curl!NoTimeout
<1> QED
  BY <1>1, <1>3, <1>4, SocketsFrame DEF CurlInv

\* timer_task arms the timer for the timeout that libcurl waits for.
LEMMA ArmStep ==
  ASSUME CurlType, Timer, next = want, Curl!Arm, UNCHANGED <<want, asked>>, inside' # "timer"
  PROVE  Timer' /\ expiry' \in [for : Nat, state : {"waiting", "poked", "fired"}] /\ next' \in Nat
BY DEF CurlType, Timer, Curl!Arm, Curl!NoTimeout

\* The invariant holds initially.
LEMMA CurlInit == Curl!Init => CurlInv
<1> SUFFICES ASSUME Curl!Init PROVE CurlInv
  OBVIOUS
<1>1. CurlType
  BY DEF Curl!Init, CurlType, CurlFiles, WatchStates, WatchMask, Curl!NoWatch, Curl!Unknown,
         Curl!NoFile, Curl!NoTimeout, Curl!Never
<1>2. Sockets
  BY DEF Curl!Init, Sockets, OnStack, SocketKept, Curl!Watched, Curl!NoWatch, Curl!Unknown, Curl!NoFile,
         Curl!NoSocket
<1>3. Timer
  BY DEF Curl!Init, Timer, Curl!Never, Curl!NoTimeout
<1> QED
  BY <1>1, <1>2, <1>3 DEF CurlInv

\* Every step keeps it.
LEMMA CurlStep == CurlInv /\ [Curl!Next]_(Curl!vars) => CurlInv'
<1> SUFFICES ASSUME CurlInv, [Curl!Next]_(Curl!vars) PROVE CurlInv'
  OBVIOUS
<1>0. CurlType /\ Sockets /\ Timer
  BY DEF CurlInv
<1>1. CASE Curl!Callback
  <2>1. ASSUME NEW e \in Easy, Curl!Complete(e) PROVE CurlInv'
    <3>1. UNCHANGED <<inside, current, fds, watches, curl, opened, expiry, next, want, asked>>
      BY <2>1 DEF Curl!Complete, Curl!socketVars, Curl!timerVars
    <3> QED
      BY <1>0, <3>1, SocketsFrame, TimerFrame DEF CurlInv, CurlType
  <2>2. ASSUME NEW s \in Socket,
               \/ Curl!OpenSocket(s) \/ Curl!CloseSocket(s)
               \/ \E mask \in WatchMask : Curl!SocketCallback(s, mask)
        PROVE  CurlInv'
    <3>1. UNCHANGED <<inside, expiry, next, want, asked>>
      BY <2>2 DEF Curl!OpenSocket, Curl!CloseSocket, Curl!SocketCallback, Curl!timerVars
    <3> QED
      BY <1>0, <2>2, <3>1, OpenStep, CloseStep, CallbackStep, TimerFrame DEF CurlInv
  <2> QED
    BY <1>1, <2>1, <2>2, TimerCallbackStep DEF Curl!Callback, WatchMask
<1>2. CASE Curl!User
  <2>1. ASSUME NEW e \in Easy, Curl!Fetch(e) \/ Curl!EndFetch(e) PROVE CurlInv'
    <3>1. inside = "nobody" /\ inside' = "user"
          /\ UNCHANGED <<current, fds, watches, curl, opened, expiry, next, want, asked>>
      BY <2>1 DEF Curl!Fetch, Curl!EndFetch, Curl!Calling, Curl!socketVars, Curl!timerVars
    <3> QED
      BY <1>0, <3>1, SocketsFrame, TimerFrame DEF CurlInv, CurlType
  <2>2. CASE Curl!UserReturn
    <3>1. inside = "user" /\ inside' = "nobody"
          /\ UNCHANGED <<current, fds, watches, curl, opened, expiry, next, want, asked>>
      BY <2>2 DEF Curl!UserReturn, Curl!socketVars, Curl!timerVars
    <3> QED
      BY <1>0, <3>1, SocketsFrame, TimerFrame DEF CurlInv, CurlType
  <2>3. CASE Curl!Reset
    <3>1. /\ fds' = [s \in Socket |-> 0] /\ watches' = [s \in Socket |-> Curl!NoWatch]
          /\ curl' = [s \in Socket |-> [file |-> 0, mask |-> "none"]]
          /\ expiry' = [for |-> 0, state |-> "waiting"] /\ next' = 0 /\ want' = 0
          /\ inside = "nobody" /\ UNCHANGED <<inside, current, opened, asked>>
      BY <2>3 DEF Curl!Reset, Curl!Calling, Curl!NoFile, Curl!Unknown, Curl!Never, Curl!NoTimeout
    <3>2. CurlType'
      BY <1>0, <3>1 DEF CurlType, CurlFiles, WatchStates, WatchMask, Curl!NoWatch, Curl!NoFile
    <3>3. \A s \in Socket : SocketKept(s)'
      BY <3>1 DEF SocketKept, Curl!Watched, Curl!NoWatch, Curl!NoFile
    <3>4. OnStack'
      BY <1>0, <3>1 DEF Sockets, OnStack
    <3>5. Timer'
      BY <1>0, <3>1 DEF CurlType, Timer, Curl!NoTimeout
    <3> QED
      BY <3>2, <3>3, <3>4, <3>5 DEF CurlInv, Sockets
  <2> QED
    BY <1>2, <2>1, <2>2, <2>3 DEF Curl!User
<1>3. CASE Curl!Task
  <2>1. CASE Curl!Rearm
    <3>1. inside = "nobody" /\ expiry.state = "poked" /\ Curl!Arm
          /\ UNCHANGED <<inside, current, fds, watches, curl, opened, want, asked>>
      BY <2>1 DEF Curl!Rearm, Curl!Calling, Curl!socketVars
    <3>2. Timer' /\ expiry' \in [for : Nat, state : {"waiting", "poked", "fired"}] /\ next' \in Nat
      BY <1>0, <3>1, ArmStep DEF Timer
    <3> QED
      BY <1>0, <3>1, <3>2, SocketsFrame DEF CurlInv, CurlType
  <2>2. CASE Curl!TimerAction
    <3>1. /\ inside = "nobody" /\ expiry.state = "fired" /\ inside' = "timer"
          /\ want' = IF want = expiry.for THEN Curl!NoTimeout ELSE want
          /\ UNCHANGED <<current, fds, watches, curl, opened, expiry, next, asked>>
      BY <2>2 DEF Curl!TimerAction, Curl!Calling, Curl!socketVars
    <3>2. Timer'
      BY <1>0, <3>1 DEF CurlType, Timer, Curl!NoTimeout
    <3> QED
      BY <1>0, <3>1, <3>2, SocketsFrame DEF CurlInv, CurlType, Curl!NoTimeout
  <2>3. CASE Curl!TimerReturn
    <3>1. inside = "timer" /\ inside' = "nobody" /\ Curl!Arm
          /\ UNCHANGED <<current, fds, watches, curl, opened, want, asked>>
      BY <2>3 DEF Curl!TimerReturn, Curl!socketVars
    <3>2. Timer' /\ expiry' \in [for : Nat, state : {"waiting", "poked", "fired"}] /\ next' \in Nat
      BY <1>0, <3>1, ArmStep DEF Timer
    <3> QED
      BY <1>0, <3>1, <3>2, SocketsFrame DEF CurlInv, CurlType
  <2>4. ASSUME NEW s \in Socket, Curl!Rewatch(s) PROVE CurlInv'
    <3>1. /\ inside = "nobody" /\ watches[s].ev = "poked"
          /\ watches' = [watches EXCEPT ![s] = Curl!Loop(@)]
          /\ UNCHANGED <<inside, current, fds, curl, opened, expiry, next, want, asked>>
      BY <2>4 DEF Curl!Rewatch, Curl!Calling, Curl!timerVars
    <3>2. current = Curl!NoSocket
      BY <1>0, <3>1 DEF Sockets, OnStack
    <3> QED
      BY <1>0, <3>1, <3>2, LoopStep, TimerFrame DEF CurlInv, CurlType
  <2>5. ASSUME NEW s \in Socket, Curl!SocketAction(s) PROVE CurlInv'
    <3>1. /\ inside = "nobody" /\ watches[s].ev = "ready" /\ current' = s /\ inside' = "watch"
          /\ UNCHANGED <<fds, watches, curl, opened, expiry, next, want, asked>>
      BY <2>5 DEF Curl!SocketAction, Curl!Calling, Curl!socketVars, Curl!timerVars
    <3>2. current = Curl!NoSocket /\ SocketKept(s) /\ s # Curl!NoSocket
      BY <1>0, <3>1, SocketNumbers DEF Sockets, OnStack, Curl!NoSocket
    <3>3. Curl!Watched(s)
      BY <1>0, <3>1, <3>2, WatchedSocket
    <3>4. OnStack'
      BY <3>1, <3>2, <3>3 DEF OnStack, Curl!Watched
    <3>5. \A t \in Socket : SocketKept(t)'
      BY <1>0, <3>1, <3>2, SocketFrame DEF Sockets
    <3>6. Timer'
      BY <1>0, <3>1, TimerFrame
    <3> QED
      BY <1>0, <3>1, <3>4, <3>5, <3>6 DEF CurlInv, CurlType, Sockets
  <2>6. ASSUME NEW s \in Socket, Curl!SocketReturn(s) PROVE CurlInv'
    <3>1. /\ inside = "watch" /\ current = s /\ current' = Curl!NoSocket /\ inside' = "nobody"
          /\ watches' = [watches EXCEPT ![s] = Curl!Loop(@)]
          /\ UNCHANGED <<fds, curl, opened, expiry, next, want, asked>>
      BY <2>6 DEF Curl!SocketReturn, Curl!timerVars
    <3>2. watches[s].ev = "ready"
      BY <1>0, <3>1, SocketNumbers DEF Sockets, OnStack, Curl!NoSocket
    <3> QED
      BY <1>0, <3>1, <3>2, LoopStep, TimerFrame DEF CurlInv, CurlType
  <2> QED
    BY <1>3, <2>1, <2>2, <2>3, <2>4, <2>5, <2>6 DEF Curl!Task
<1>4. CASE Curl!Kernel
  <2>1. CASE Curl!Expire
    <3>1. /\ inside = "nobody" /\ expiry.state = "waiting"
          /\ expiry' = [expiry EXCEPT !.state = "fired"]
          /\ UNCHANGED <<inside, current, fds, watches, curl, opened, next, want, asked>>
      BY <2>1 DEF Curl!Expire, Curl!Calling, Curl!socketVars
    <3>2. expiry' = [for |-> expiry.for, state |-> "fired"]
      BY <1>0, <3>1 DEF CurlType
    <3>3. Timer'
      BY <1>0, <3>1, <3>2 DEF Timer
    <3> QED
      BY <1>0, <3>1, <3>2, <3>3, SocketsFrame DEF CurlInv, CurlType
  <2>2. ASSUME NEW s \in Socket, Curl!Ready(s) PROVE CurlInv'
    <3>1. /\ inside = "nobody" /\ watches[s].ev = "waiting"
          /\ watches' = [watches EXCEPT ![s].ev = "ready"]
          /\ UNCHANGED <<inside, current, fds, curl, opened, expiry, next, want, asked>>
      BY <2>2 DEF Curl!Ready, Curl!Calling, Curl!timerVars
    <3>2. current = Curl!NoSocket /\ s # current /\ SocketKept(s)
      BY <1>0, <3>1, SocketNumbers DEF Sockets, OnStack, Curl!NoSocket
    <3>3. watches[s] \in WatchStates
          /\ watches'[s] = [mask |-> watches[s].mask, file |-> watches[s].file,
                            awaits |-> watches[s].awaits, ev |-> "ready"]
      BY <1>0, <3>1, SocketType DEF WatchStates
    <3>4. Curl!Watched(s)
      BY <1>0, <3>1, <3>2, WatchedSocket
    <3>5. SocketKept(s)'
      BY <3>1, <3>2, <3>3, <3>4 DEF SocketKept, Curl!Watched, Curl!NoWatch, Curl!NoFile
    <3>6. watches'[s] \in WatchStates
      BY <3>3 DEF WatchStates
    <3>7. CurlType'
      BY <1>0, <3>1, <3>6 DEF CurlType
    <3>8. \A t \in Socket : t # s => watches'[t] = watches[t] /\ curl'[t] = curl[t] /\ fds'[t] = fds[t]
      BY <1>0, <3>1 DEF CurlType
    <3>9. Sockets'
      BY <1>0, <3>1, <3>2, <3>5, <3>8, OneSocket
    <3> QED
      BY <1>0, <3>1, <3>7, <3>9, TimerFrame DEF CurlInv
  <2> QED
    BY <1>4, <2>1, <2>2 DEF Curl!Kernel
<1>5. CASE UNCHANGED Curl!vars
  <2>1. UNCHANGED <<inside, current, fds, watches, curl, opened, expiry, next, want, asked>>
    BY <1>5 DEF Curl!vars, Curl!socketVars, Curl!timerVars
  <2> QED
    BY <1>0, <2>1, SocketsFrame, TimerFrame DEF CurlInv, CurlType
<1> QED
  BY <1>1, <1>2, <1>3, <1>4, <1>5 DEF Curl!Next

(***************************************************************************)
(* However the callbacks come within calls, sockets and the timer are      *)
(* attended to as libcurl last asked, and the task on the stack is alive.  *)
(***************************************************************************)
THEOREM CurlServedHolds == Curl!Spec => []CurlServed
<1>1. CurlInv => CurlServed
  <2> SUFFICES ASSUME CurlInv PROVE CurlServed
    OBVIOUS
  <2>1. Sockets /\ Timer /\ CurlType
    BY DEF CurlInv
  <2>2. Curl!TaskAlive
    BY <2>1, SocketNumbers DEF Sockets, OnStack, Curl!TaskAlive, Curl!NoSocket
  <2>3. Curl!TimerKept
    BY <2>1 DEF Timer, CurlType, Curl!TimerKept, Curl!Calling
  <2>4. ASSUME ~Curl!Calling, NEW s \in Socket
        PROVE  /\ watches[s].mask = curl[s].mask
               /\ Curl!Watched(s) => /\ watches[s].file = curl[s].file
                                     /\ watches[s].ev = "waiting" => watches[s].awaits = watches[s].mask
    <3>1. current = Curl!NoSocket /\ s # current
      BY <2>1, <2>4, SocketNumbers DEF Sockets, OnStack, Curl!Calling, Curl!NoSocket
    <3> QED
      BY <2>1, <3>1 DEF Sockets, SocketKept
  <2>5. Curl!Attended
    BY <2>4 DEF Curl!Attended
  <2> QED
    BY <2>2, <2>3, <2>5 DEF CurlServed
<1> QED
  BY CurlInit, CurlStep, <1>1, PTL DEF Curl!Spec

-----------------------------------------------------------------------------
(***************************************************************************)
(* Descriptors.                                                            *)
(***************************************************************************)
Bodies == Fd!Body \cup {Fd!NoBody}
BodyStates ==
  [state : {"unborn", "live", "deleted"}, fd : BOOLEAN, base : BOOLEAN, ref : Int,
   drivers : SUBSET Thread]
OpStates ==
  [at : {"none", "deref", "subtract", "close", "tell", "watch"}, body : Bodies,
   mask : SUBSET Fd!Mask, who : SUBSET Thread]
RecStates == [body : Bodies, epoch : Nat, list : SUBSET Fd!Watch, dirty : BOOLEAN]
WatchrecStates == [state : {"unused", "on", "empty", "done"}, body : Bodies, mask : SUBSET Fd!Mask]
KernStates == [mask : SUBSET Fd!Mask, epoch : Nat, file : Bodies]

FdType ==
  /\ os \in Bodies /\ body \in [Fd!Body -> BodyStates]
  /\ held \in [Thread -> SUBSET Fd!Body]
  /\ op \in [Thread -> OpStates]
  /\ phase \in [Thread -> {"run", "wait", "batch", "import"}]
  /\ rec \in [Thread -> RecStates] /\ watch \in [Fd!Watch -> WatchrecStates]
  /\ kern \in [Thread -> KernStates] /\ batch \in [Thread -> KernStates]
  /\ closes \subseteq Thread /\ late \in BOOLEAN

\* Who counts as a reference: the threads that hold one, and those about to subtract theirs.
Holders(b) == {t \in Thread : b \in held[t]}
Droppers(b) == {t \in Thread : op[t].at \in {"deref", "subtract"} /\ op[t].body = b}

Count(b) ==
  /\ body[b].ref = Cardinality(Holders(b)) + Cardinality(Droppers(b))
  /\ body[b].state # "live" => body[b].ref = 0

\* An operation is about a body that its thread holds, or whose reference it drops; who is
\* to close with the last reference is alone.
Operation(t) ==
  /\ op[t].at \in {"none", "tell"} => op[t].body = Fd!NoBody
  /\ op[t].at = "none" => op[t] = Fd!None
  /\ op[t].at \in {"deref", "subtract", "close", "watch"} => op[t].body \in Fd!Body
  /\ op[t].at \in {"close", "watch"} => op[t].body \in held[t]
  /\ op[t].at = "deref" => body[op[t].body].ref = 1
  /\ op[t].at # "none" => phase[t] \in {"run", "batch"}

\* A body has the number as long as its file is open; a closed body keeps the file for the
\* drivers that have it; and drivers and bodies know each other.
File(b) ==
  /\ body[b].state = "unborn" => body[b] = Fd!Unborn
  /\ body[b].base <=> os = b
  /\ body[b].fd => body[b].base
  /\ body[b].base => body[b].state = "live"
  /\ body[b].base /\ ~body[b].fd => body[b].drivers # {}
  /\ \A t \in Thread : t \in body[b].drivers <=> rec[t].body = b
  /\ body[b].state # "live" => body[b].drivers = {}

\* A driver that has a body keeps it from losing the number; it begins to watch no other.
Owned ==
  /\ late \/ \A t \in Thread : rec[t].body # Fd!NoBody => os = rec[t].body
  /\ \A t \in Thread : op[t].at = "watch" => rec[t].body \in {Fd!NoBody, op[t].body}

\* Each watch in use is in the list of one driver, which has its body.
Unused == {w \in Fd!Watch : watch[w].state = "unused"}
Watching == {u \in Thread : op[u].at = "watch"}

Listed(t) ==
  \A w \in rec[t].list : /\ watch[w].state \in {"on", "empty"}
                         /\ watch[w].body = rec[t].body /\ rec[t].body # Fd!NoBody
                         /\ \A u \in Thread : w \in rec[u].list => u = t

Lists ==
  /\ \A t \in Thread : Listed(t)
  /\ \A w \in Fd!Watch : watch[w].state = "on" => \E t \in Thread : w \in rec[t].list
  /\ Cardinality(Watching) <= Cardinality(Unused)

\* What epoll knows is about the driver's body and of its epoch, and is all that is waited
\* for, unless the driver knows of a change.
Known(t) ==
  /\ kern[t].mask # {} => /\ kern[t].epoch = rec[t].epoch /\ Fd!UserEpoch <= rec[t].epoch
                          /\ rec[t].body = kern[t].file /\ rec[t].body # Fd!NoBody
  /\ ~rec[t].dirty => Fd!Interest(t) \subseteq kern[t].mask
  /\ phase[t] = "wait" => ~rec[t].dirty

\* An event of a batch carries an epoch that was the driver's, and if it still is, the
\* driver still has the body.
Event(t) ==
  phase[t] = "batch" =>
    /\ Fd!UserEpoch <= batch[t].epoch /\ batch[t].epoch <= rec[t].epoch
    /\ batch[t].epoch = rec[t].epoch => rec[t].body = batch[t].file /\ rec[t].body # Fd!NoBody

\* A driver that still has a closed body is told or about to be told.
Told ==
  late \/ \A b \in Fd!Body : \A u \in body[b].drivers :
    ~body[b].fd => u \in closes \/ \E t \in Thread : op[t].at = "tell" /\ u \in op[t].who

FdInv ==
  /\ FdType /\ Owned /\ Lists /\ Told
  /\ \A b \in Fd!Body : Count(b) /\ File(b)
  /\ \A t \in Thread : Operation(t) /\ Known(t) /\ Event(t)


-----------------------------------------------------------------------------
\* The kinds of what a thread and its driver have.
LEMMA ThreadType ==
  ASSUME FdType, NEW t \in Thread
  PROVE  /\ op[t] \in OpStates /\ held[t] \subseteq Fd!Body /\ rec[t] \in RecStates
         /\ phase[t] \in {"run", "wait", "batch", "import"}
         /\ kern[t] \in KernStates /\ batch[t] \in KernStates
         /\ op[t].body \in Bodies /\ op[t].mask \subseteq Fd!Mask /\ op[t].who \subseteq Thread
         /\ rec[t].body \in Bodies /\ rec[t].epoch \in Nat /\ rec[t].list \subseteq Fd!Watch
         /\ kern[t].epoch \in Nat /\ kern[t].mask \subseteq Fd!Mask /\ kern[t].file \in Bodies
         /\ DOMAIN rec = Thread /\ DOMAIN op = Thread
BY DEF FdType, OpStates, RecStates, KernStates

\* The kinds of a body's parts; no body is NoBody.
LEMMA BodyType ==
  ASSUME FdType, NEW b \in Fd!Body
  PROVE  /\ body[b] \in BodyStates /\ body[b].fd \in BOOLEAN /\ body[b].base \in BOOLEAN
         /\ body[b].ref \in Int /\ body[b].drivers \subseteq Thread
         /\ body[b].state \in {"unborn", "live", "deleted"}
         /\ b # Fd!NoBody /\ b \in Bodies
BY DEF FdType, BodyStates, Bodies, Fd!Body, Fd!NoBody

\* No operation.
LEMMA NoneType ==
  /\ Fd!None \in OpStates /\ Fd!None.at = "none" /\ Fd!None.body = Fd!NoBody
  /\ Fd!None.who = {} /\ Fd!None.mask = {}
BY DEF Fd!None, OpStates, Bodies, Fd!NoBody

\* A thread goes over to another operation; the others stay in theirs.
LEMMA EnterStep ==
  ASSUME FdType, NEW t \in Thread, NEW o \in OpStates, Fd!Enter(t, o)
  PROVE  op' \in [Thread -> OpStates] /\ op'[t] = o /\ \A u \in Thread : u # t => op'[u] = op[u]
BY DEF FdType, Fd!Enter

\* The operations that begin.
LEMMA Beginnings ==
  ASSUME NEW b \in Fd!Body, NEW a \in {"deref", "subtract", "close"}
  PROVE  LET o == [Fd!None EXCEPT !.at = a, !.body = b] IN
         o \in OpStates /\ o.at = a /\ o.body = b
BY DEF Fd!None, OpStates, Bodies, Fd!NoBody

\* The sets that are counted are finite.
LEMMA CountsFinite ==
  ASSUME NEW b
  PROVE  /\ IsFiniteSet(Holders(b)) /\ IsFiniteSet(Droppers(b))
         /\ Cardinality(Holders(b)) \in Nat /\ Cardinality(Droppers(b)) \in Nat
<1>1. Holders(b) \subseteq Thread /\ Droppers(b) \subseteq Thread
  BY DEF Holders, Droppers
<1> QED
  BY <1>1, ThreadsFinite, FS_Subset, FS_CardinalityType

\* What a set counts with one element more.
LEMMA OneMore ==
  ASSUME NEW S, IsFiniteSet(S), NEW x, x \notin S
  PROVE  Cardinality(S \cup {x}) = Cardinality(S) + 1
BY FS_AddElement

\* What a set counts with one element less.
LEMMA OneLess ==
  ASSUME NEW S, IsFiniteSet(S), NEW x \in S
  PROVE  Cardinality(S \ {x}) = Cardinality(S) - 1
BY FS_RemoveElement

\* A reference that is held, or about to be subtracted, is counted, and keeps the body.
LEMMA Referenced ==
  ASSUME FdInv, NEW b \in Fd!Body, NEW t \in Holders(b) \cup Droppers(b)
  PROVE  body[b].ref >= 1 /\ body[b].state = "live"
<1>1. Count(b)
  BY DEF FdInv
<1>2. ASSUME NEW S, IsFiniteSet(S), t \in S PROVE Cardinality(S) >= 1
  <2>1. Cardinality(S) \in Nat /\ Cardinality(S) # 0
    BY <1>2, FS_CardinalityType, FS_EmptySet
  <2> QED
    BY <2>1
<1>3. Cardinality(Holders(b)) \in Nat /\ Cardinality(Droppers(b)) \in Nat
  BY CountsFinite
<1>4. Cardinality(Holders(b)) >= 1 \/ Cardinality(Droppers(b)) >= 1
  BY <1>2, CountsFinite
<1>5. body[b].ref >= 1
  BY <1>1, <1>3, <1>4 DEF Count
<1> QED
  BY <1>1, <1>5 DEF Count

\* Who drops the last reference is alone.
LEMMA Alone ==
  ASSUME FdInv, NEW t \in Thread, op[t].at = "deref"
  PROVE  Holders(op[t].body) = {} /\ Droppers(op[t].body) = {t}
<1> DEFINE b == op[t].body
<1>1. b \in Fd!Body /\ body[b].ref = 1 /\ Count(b) /\ t \in Droppers(b)
  BY DEF FdInv, Operation, Droppers
<1>2. Cardinality(Holders(b)) + Cardinality(Droppers(b)) = 1
  BY <1>1 DEF Count
<1>3. /\ IsFiniteSet(Droppers(b)) /\ IsFiniteSet(Holders(b))
      /\ Cardinality(Holders(b)) \in Nat /\ Cardinality(Droppers(b)) \in Nat
  BY CountsFinite
<1>4. Cardinality(Droppers(b) \ {t}) = Cardinality(Droppers(b)) - 1 /\ IsFiniteSet(Droppers(b) \ {t})
      /\ Cardinality(Droppers(b) \ {t}) \in Nat
  BY <1>1, <1>3, OneLess, FS_Subset, FS_CardinalityType
<1>5. Cardinality(Holders(b)) = 0 /\ Cardinality(Droppers(b) \ {t}) = 0
  BY <1>2, <1>3, <1>4
<1>6. Holders(b) = {} /\ Droppers(b) \ {t} = {}
  BY <1>3, <1>4, <1>5, FS_EmptySet
<1> QED
  BY <1>1, <1>6

-----------------------------------------------------------------------------
\* Steps that count nothing anew.
LEMMA CountFrame ==
  ASSUME NEW b \in Fd!Body, Count(b), UNCHANGED held,
         body'[b].ref = body[b].ref, body'[b].state # "live" => body[b].state # "live" \/ body[b].ref = 0,
         \A t \in Thread : op'[t] = op[t] \/ ({op[t].at, op'[t].at} \cap {"deref", "subtract"} = {})
  PROVE  Count(b)'
<1>1. Holders(b)' = Holders(b)
  BY DEF Holders
<1>2. Droppers(b)' = Droppers(b)
  BY DEF Droppers
<1> QED
  BY <1>1, <1>2 DEF Count

\* An operation goes on while other threads do what they do.
LEMMA OperationFrame ==
  ASSUME NEW t \in Thread, Operation(t), op'[t] = op[t], held[t] \subseteq held'[t],
         op[t].at = "deref" => body'[op[t].body].ref = body[op[t].body].ref,
         phase'[t] = phase[t] \/ op[t].at = "none"
  PROVE  Operation(t)'
BY DEF Operation

\* A body that nothing is done to.
LEMMA FileFrame ==
  ASSUME NEW b \in Fd!Body, File(b), body'[b] = body[b], os' = os \/ (os' # b /\ os # b),
         \A t \in Thread : rec[t].body = b <=> rec'[t].body = b
  PROVE  File(b)'
BY DEF File

\* The watches stay in the lists.
LEMMA ListsFrame ==
  ASSUME Lists, UNCHANGED watch,
         \A t \in Thread : rec'[t].list = rec[t].list /\ rec'[t].body = rec[t].body,
         \A t \in Thread : op'[t].at = "watch" <=> op[t].at = "watch"
  PROVE  Lists'
<1>1. Watching' = Watching /\ Unused' = Unused
  BY DEF Watching, Unused
<1>2. ASSUME NEW t \in Thread PROVE Listed(t)'
  BY <1>2 DEF Lists, Listed
<1> QED
  BY <1>1, <1>2 DEF Lists

\* Another thread's driver.
LEMMA DriverFrame ==
  ASSUME NEW t \in Thread, Known(t), Event(t), rec'[t] = rec[t], kern'[t] = kern[t],
         batch'[t] = batch[t], phase'[t] = phase[t], Fd!Interest(t)' = Fd!Interest(t)
  PROVE  Known(t)' /\ Event(t)'
BY DEF Known, Event

\* A driver's interest depends on the watches of its list.
LEMMA InterestFrame ==
  ASSUME NEW t, rec'[t].list = rec[t].list, \A w \in rec[t].list : watch'[w] = watch[w]
  PROVE  Fd!Interest(t)' = Fd!Interest(t)
BY DEF Fd!Interest

\* A driver that has been told, or will be, still is.
LEMMA ToldFrame ==
  ASSUME Told, late' = late, closes \subseteq closes',
         \A b \in Fd!Body : body'[b].drivers \subseteq body[b].drivers /\ (body[b].fd => body'[b].fd),
         \A t \in Thread : op[t].at = "tell" => op'[t] = op[t]
  PROVE  Told'
BY DEF Told

\* Who has the number is the owner of what drivers have.
LEMMA OwnedFrame ==
  ASSUME Owned, UNCHANGED <<os, late>>, \A t \in Thread : rec'[t].body = rec[t].body,
         \A t \in Thread : op'[t].at = "watch" => op'[t] = op[t]
  PROVE  Owned'
BY DEF Owned


-----------------------------------------------------------------------------
\* Only one thread's operation changes, from none or to none, and it neither tells, counts
\* nor watches.
LEMMA PlainEnter ==
  ASSUME FdInv, NEW t \in Thread, op' \in [Thread -> OpStates],
         \A u \in Thread : u # t => op'[u] = op[u], Operation(t)',
         {op[t].at, op'[t].at} \cap {"deref", "subtract", "tell", "watch"} = {},
         UNCHANGED <<os, body, held, phase, rec, watch, kern, batch, closes, late>>
  PROVE  FdInv'
<1>1. FdType'
  BY DEF FdInv, FdType
<1>2. Owned'
  BY OwnedFrame DEF FdInv
<1>3. Lists'
  BY ListsFrame DEF FdInv
<1>4. Told'
  BY ToldFrame DEF FdInv
<1>5. ASSUME NEW b \in Fd!Body PROVE Count(b)' /\ File(b)'
  BY CountFrame, FileFrame DEF FdInv
<1>6. ASSUME NEW u \in Thread PROVE Operation(u)' /\ Known(u)' /\ Event(u)'
  <2>1. Operation(u)'
    BY OperationFrame DEF FdInv
  <2>2. Fd!Interest(u)' = Fd!Interest(u)
    BY InterestFrame
  <2> QED
    BY <2>1, <2>2, DriverFrame DEF FdInv
<1> QED
  BY <1>1, <1>2, <1>3, <1>4, <1>5, <1>6 DEF FdInv

\* A descriptor is opened.
LEMMA FdOpenStep ==
  ASSUME FdInv, ~late, NEW t \in Thread, NEW b \in Fd!Body, Fd!Open(t, b)
  PROVE  FdInv'
<1>1. /\ os = Fd!NoBody /\ body[b].state = "unborn" /\ os' = b
      /\ body' = [body EXCEPT ![b] = Fd!Opened] /\ held' = [held EXCEPT ![t] = @ \cup {b}]
      /\ UNCHANGED <<op, phase, rec, watch, kern, batch, closes, late>>
  BY DEF Fd!Open, Fd!driverVars
<1>2. body[b] = Fd!Unborn /\ b # Fd!NoBody /\ FdType
  BY <1>1, BodyType DEF FdInv, File
<1>3. Fd!Opened \in BodyStates
  BY DEF Fd!Opened, BodyStates
<1>4. body'[b] = Fd!Opened /\ \A c \in Fd!Body : c # b => body'[c] = body[c]
  BY <1>1, <1>2 DEF FdType
<1>5. held'[t] = held[t] \cup {b} /\ \A u \in Thread : u # t => held'[u] = held[u]
  BY <1>1, <1>2 DEF FdType
<1>6. FdType'
  BY <1>1, <1>2, <1>3 DEF FdType, Bodies
<1>7. \A u \in Thread : rec[u].body = Fd!NoBody
  BY <1>1 DEF FdInv, Owned
<1>8. Owned'
  BY <1>1, <1>7 DEF FdInv, Owned
<1>9. Lists'
  BY <1>1, ListsFrame DEF FdInv
<1>10. Told'
  BY <1>1, <1>2, <1>4 DEF FdInv, Told, Fd!Opened, Fd!Unborn
<1>11. ASSUME NEW c \in Fd!Body, c # b PROVE Count(c)' /\ File(c)'
  <2>1. Holders(c)' = Holders(c) /\ Droppers(c)' = Droppers(c)
    BY <1>1, <1>5, <1>11 DEF Holders, Droppers
  <2>2. os' # c /\ os # c
    BY <1>1, <1>2, <1>11, BodyType
  <2> QED
    BY <1>1, <1>4, <1>11, <2>1, <2>2, FileFrame DEF FdInv, Count
<1>12. Count(b)'
  <2>1. Holders(b) = {} /\ Droppers(b) = {}
    BY <1>1, Referenced
  <2>2. Holders(b)' = {t} /\ Droppers(b)' = {}
    BY <1>1, <1>5, <2>1 DEF Holders, Droppers
  <2>3. Cardinality({t}) = 1 /\ Cardinality({}) = 0
    BY FS_Singleton, FS_EmptySet
  <2> QED
    BY <1>4, <2>2, <2>3 DEF Count, Fd!Opened
<1>13. File(b)'
  <2>1. \A u \in Thread : rec'[u].body # b
    BY <1>1, <1>2, <1>7
  <2> QED
    BY <1>1, <1>4, <2>1 DEF File, Fd!Opened
<1>14. ASSUME NEW u \in Thread PROVE Operation(u)' /\ Known(u)' /\ Event(u)'
  <2>1. held[u] \subseteq held'[u]
    BY <1>5
  <2>2. op[u].at = "deref" => op[u].body \in Fd!Body /\ op[u].body # b
    BY <1>2, SMT DEF FdInv, Operation, Fd!Unborn
  <2>3. Operation(u)'
    BY <1>1, <1>4, <2>1, <2>2, OperationFrame DEF FdInv
  <2>4. Fd!Interest(u)' = Fd!Interest(u)
    BY <1>1, InterestFrame
  <2> QED
    BY <1>1, <2>3, <2>4, DriverFrame DEF FdInv
<1> QED
  BY <1>6, <1>8, <1>9, <1>10, <1>11, <1>12, <1>13, <1>14 DEF FdInv

\* A step that only changes the count of a body, and who is counted.
LEMMA CountStep ==
  ASSUME FdInv, NEW b \in Fd!Body, NEW t \in Thread, NEW n \in Int,
         body' = [body EXCEPT ![b].ref = n], Count(b)',
         held' \in [Thread -> SUBSET Fd!Body], op' \in [Thread -> OpStates],
         \A u \in Thread : u # t => op'[u] = op[u], Operation(t)',
         \A u \in Thread : u # t => held[u] \subseteq held'[u],
         \A c \in Fd!Body : c # b => Holders(c)' = Holders(c) /\ Droppers(c)' = Droppers(c),
         \A u \in Thread : u # t /\ op[u].at = "deref" => op[u].body # b \/ n = body[b].ref,
         {op[t].at, op'[t].at} \cap {"tell", "watch"} = {},
         body[b].state = "live",
         UNCHANGED <<os, phase, rec, watch, kern, batch, closes, late>>
  PROVE  FdInv'
<1>1. FdType /\ body[b] \in BodyStates
  BY BodyType DEF FdInv
<1>2. \A c \in Fd!Body : c # b => body'[c] = body[c]
  BY <1>1 DEF FdType
<1>3. /\ body'[b].state = body[b].state /\ body'[b].fd = body[b].fd /\ body'[b].base = body[b].base
      /\ body'[b].drivers = body[b].drivers /\ body'[b].ref = n /\ body'[b] \in BodyStates
  BY <1>1 DEF FdType, BodyStates
<1>4. FdType'
  BY <1>1, <1>3 DEF FdType
<1>5. Owned'
  BY OwnedFrame DEF FdInv
<1>6. Lists'
  BY ListsFrame DEF FdInv
<1>7. Told'
  BY <1>2, <1>3, ToldFrame DEF FdInv
<1>8. ASSUME NEW c \in Fd!Body, c # b PROVE Count(c)' /\ File(c)'
  BY <1>2, <1>8, FileFrame DEF FdInv, Count
<1>9. File(b)'
  BY <1>3 DEF FdInv, File
<1>10. ASSUME NEW u \in Thread PROVE Operation(u)' /\ Known(u)' /\ Event(u)'
  <2>1. Operation(u)'
    <3>1. CASE u # t
      <4>1. Operation(u) /\ op'[u] = op[u] /\ held[u] \subseteq held'[u]
        BY <3>1 DEF FdInv
      <4>2. op[u].at = "deref" => body'[op[u].body].ref = body[op[u].body].ref
        BY <1>2, <1>3, <3>1, <4>1 DEF Operation
      <4> QED
        BY <4>1, <4>2, OperationFrame
    <3> QED
      BY <3>1
  <2>2. Fd!Interest(u)' = Fd!Interest(u)
    BY InterestFrame
  <2> QED
    BY <2>1, <2>2, DriverFrame DEF FdInv
<1> QED
  BY <1>4, <1>5, <1>6, <1>7, <1>8, <1>9, <1>10 DEF FdInv

\* A reference is copied.
LEMMA FdCopyStep ==
  ASSUME FdInv, NEW t \in Thread, NEW u \in Thread, NEW b \in Fd!Body, Fd!Copy(t, u, b)
  PROVE  FdInv'
<1>1. /\ b \in held[t] /\ b \notin held[u] /\ op[t] = Fd!None
      /\ body' = [body EXCEPT ![b].ref = body[b].ref + 1] /\ held' = [held EXCEPT ![u] = @ \cup {b}]
      /\ UNCHANGED <<os, op, phase, rec, watch, kern, batch, closes, late>>
  BY DEF Fd!Copy, Fd!driverVars, Fd!CanRun
<1>2. held'[u] = held[u] \cup {b} /\ \A v \in Thread : v # u => held'[v] = held[v]
  BY <1>1 DEF FdInv, FdType
<1>3. held' \in [Thread -> SUBSET Fd!Body] /\ op' \in [Thread -> OpStates]
      /\ body[b].ref + 1 \in Int
  BY <1>1, BodyType DEF FdInv, FdType
<1>4. t \in Holders(b)
  BY <1>1 DEF Holders
<1>5. body[b].state = "live"
  BY <1>4, Referenced
<1>6. \A v \in Thread : op[v].at = "deref" => op[v].body # b
  BY <1>4, Alone
<1>7. \A c \in Fd!Body : c # b => Holders(c)' = Holders(c) /\ Droppers(c)' = Droppers(c)
  BY <1>1, <1>2 DEF Holders, Droppers
<1>8. Count(b)'
  <2>1. Holders(b)' = Holders(b) \cup {u} /\ u \notin Holders(b) /\ Droppers(b)' = Droppers(b)
    BY <1>1, <1>2 DEF Holders, Droppers
  <2>2. Cardinality(Holders(b) \cup {u}) = Cardinality(Holders(b)) + 1
    BY <2>1, CountsFinite, OneMore
  <2>3. body'[b].ref = body[b].ref + 1 /\ body'[b].state = "live"
    BY <1>1, <1>5, BodyType DEF FdInv, FdType, BodyStates
  <2>4. Count(b) /\ Cardinality(Holders(b)) \in Nat /\ Cardinality(Droppers(b)) \in Nat
    BY CountsFinite DEF FdInv
  <2> QED
    BY <2>1, <2>2, <2>3, <2>4 DEF Count
<1>9. Operation(t)'
  <2>1. Operation(t) /\ op'[t] = op[t] /\ held[t] \subseteq held'[t] /\ op[t].at = "none"
    BY <1>1, <1>2, NoneType DEF FdInv
  <2> QED
    BY <1>1, <2>1, OperationFrame
<1>10. {op[t].at, op'[t].at} \cap {"tell", "watch"} = {}
  BY <1>1, NoneType
<1> QED
  BY <1>1, <1>2, <1>3, <1>5, <1>6, <1>7, <1>8, <1>9, <1>10, CountStep

\* A reference is dropped; the thread has yet to subtract it, or to close.
LEMMA FdDropStep ==
  ASSUME FdInv, NEW t \in Thread, NEW b \in Fd!Body, Fd!Drop(t, b)
  PROVE  FdInv'
<1> DEFINE a == IF body[b].ref = 1 THEN "deref" ELSE "subtract"
           o == [Fd!None EXCEPT !.at = a, !.body = b]
<1>1. /\ b \in held[t] /\ op[t] = Fd!None /\ phase[t] \in {"run", "batch"}
      /\ held' = [held EXCEPT ![t] = @ \ {b}] /\ Fd!Enter(t, o)
      /\ UNCHANGED <<os, body, phase, rec, watch, kern, batch, closes, late>>
  BY DEF Fd!Drop, Fd!driverVars, Fd!CanRun
<1>2. a \in {"deref", "subtract"} /\ o \in OpStates /\ o.at = a /\ o.body = b
  <2>1. a \in {"deref", "subtract", "close"} /\ a # "close"
    OBVIOUS
  <2> HIDE DEF a
  <2> QED
    BY ZenonT(30), <2>1, Beginnings
<1> HIDE DEF o, a
<1>3. FdType /\ op' \in [Thread -> OpStates] /\ op'[t] = o /\ \A u \in Thread : u # t => op'[u] = op[u]
  BY <1>1, <1>2, EnterStep DEF FdInv
<1>4. held'[t] = held[t] \ {b} /\ \A v \in Thread : v # t => held'[v] = held[v]
  BY <1>1, <1>3 DEF FdType
<1>5. held' \in [Thread -> SUBSET Fd!Body] /\ body' = [body EXCEPT ![b].ref = body[b].ref]
      /\ body[b].ref \in Int
  BY <1>1, <1>3 DEF FdType, BodyStates
<1>6. t \in Holders(b)
  BY <1>1 DEF Holders
<1>7. body[b].state = "live"
  BY <1>6, Referenced
<1>8. op[t].at = "none" /\ op[t].body = Fd!NoBody
  BY <1>1, NoneType
<1>9. \A c \in Fd!Body : c # b => Holders(c)' = Holders(c) /\ Droppers(c)' = Droppers(c)
  BY <1>2, <1>3, <1>4, <1>8 DEF Holders, Droppers
<1>10. Count(b)'
  <2>1. Holders(b)' = Holders(b) \ {t}
    BY <1>4 DEF Holders
  <2>2. Droppers(b)' = Droppers(b) \cup {t} /\ t \notin Droppers(b)
    BY <1>2, <1>3, <1>8 DEF Droppers
  <2>3. Cardinality(Holders(b)') = Cardinality(Holders(b)) - 1
    BY <1>6, <2>1, CountsFinite, OneLess
  <2>4. Cardinality(Droppers(b)') = Cardinality(Droppers(b)) + 1
    BY <2>2, CountsFinite, OneMore
  <2>5. Count(b) /\ Cardinality(Holders(b)) \in Nat /\ Cardinality(Droppers(b)) \in Nat
    BY CountsFinite DEF FdInv
  <2> QED
    BY <1>1, <1>7, <2>3, <2>4, <2>5 DEF Count
<1>11. Operation(t)'
  <2>1. op'[t].at = "deref" => body[b].ref = 1
    BY <1>2, <1>3 DEF a
  <2> QED
    BY <1>1, <1>2, <1>3, <2>1 DEF Operation
<1>12. {op[t].at, op'[t].at} \cap {"tell", "watch"} = {}
  BY <1>2, <1>3, <1>8
<1>13. \A u \in Thread : u # t => held[u] \subseteq held'[u]
  BY <1>4
<1> QED
  BY <1>1, <1>3, <1>5, <1>7, <1>9, <1>10, <1>11, <1>12, <1>13, CountStep

\* A reference is subtracted.
LEMMA FdSubtractStep ==
  ASSUME FdInv, NEW t \in Thread, Fd!Subtract(t)
  PROVE  FdInv'
<1>0. op[t].at = "subtract" /\ op[t].body \in Fd!Body
  BY DEF Fd!Subtract, FdInv, Operation
<1> PICK b \in Fd!Body : b = op[t].body
  BY <1>0
<1>1. /\ op[t].at = "subtract" /\ body' = [body EXCEPT ![b].ref = body[b].ref - 1]
      /\ Fd!Enter(t, Fd!None)
      /\ UNCHANGED <<os, held, phase, rec, watch, kern, batch, closes, late>>
  BY DEF Fd!Subtract, Fd!driverVars
<1>2. t \in Droppers(b)
  BY <1>1 DEF Droppers
<1>3. FdType /\ op' \in [Thread -> OpStates] /\ op'[t] = Fd!None
      /\ \A u \in Thread : u # t => op'[u] = op[u]
  BY <1>1, NoneType, EnterStep DEF FdInv
<1>4. body[b].state = "live" /\ body[b].ref \in Int /\ body[b].ref - 1 \in Int
  BY <1>2, <1>3, Referenced, BodyType
<1>5. held' \in [Thread -> SUBSET Fd!Body] /\ \A u \in Thread : held[u] \subseteq held'[u]
  BY <1>1, <1>3 DEF FdType
<1>6. \A u \in Thread : u # t /\ op[u].at = "deref" => op[u].body # b
  BY <1>2, Alone
<1>7. \A c \in Fd!Body : c # b => Holders(c)' = Holders(c) /\ Droppers(c)' = Droppers(c)
  BY <1>1, <1>3, NoneType DEF Holders, Droppers
<1>8. Count(b)'
  <2>1. Holders(b)' = Holders(b)
    BY <1>1 DEF Holders
  <2>2. Droppers(b)' = Droppers(b) \ {t}
    BY <1>3, NoneType DEF Droppers
  <2>3. Cardinality(Droppers(b)') = Cardinality(Droppers(b)) - 1
    BY <1>2, <2>2, CountsFinite, OneLess
  <2>4. body'[b].ref = body[b].ref - 1 /\ body'[b].state = "live"
    BY <1>1, <1>2, <1>3, <1>4 DEF FdType, BodyStates
  <2>5. Count(b) /\ Cardinality(Holders(b)) \in Nat /\ Cardinality(Droppers(b)) \in Nat
    BY <1>2, CountsFinite DEF FdInv
  <2> QED
    BY <2>1, <2>3, <2>4, <2>5 DEF Count
<1>9. Operation(t)'
  BY <1>3, NoneType DEF Operation
<1>10. {op[t].at, op'[t].at} \cap {"tell", "watch"} = {}
  BY <1>1, <1>3, NoneType
<1> QED
  BY ZenonT(30), <1>1, <1>2, <1>3, <1>4, <1>5, <1>6, <1>7, <1>8, <1>9, <1>10, CountStep

\* close() begins.
LEMMA FdCloseStep ==
  ASSUME FdInv, NEW t \in Thread, NEW b \in Fd!Body, Fd!Close(t, b)
  PROVE  FdInv'
<1> DEFINE o == [Fd!None EXCEPT !.at = "close", !.body = b]
<1>1. /\ b \in held[t] /\ op[t] = Fd!None /\ phase[t] \in {"run", "batch"} /\ Fd!Enter(t, o)
      /\ UNCHANGED <<os, body, held, phase, rec, watch, kern, batch, closes, late>>
  BY DEF Fd!Close, Fd!driverVars, Fd!CanRun
<1>2. o \in OpStates /\ o.at = "close" /\ o.body = b
  BY Beginnings
<1> HIDE DEF o
<1>3. FdType /\ op' \in [Thread -> OpStates] /\ op'[t] = o /\ \A u \in Thread : u # t => op'[u] = op[u]
  BY <1>1, <1>2, EnterStep DEF FdInv
<1>4. Operation(t)'
  BY <1>1, <1>2, <1>3 DEF Operation
<1>5. {op[t].at, op'[t].at} \cap {"deref", "subtract", "tell", "watch"} = {}
  BY <1>1, <1>2, <1>3, NoneType
<1> QED
  BY <1>1, <1>3, <1>4, <1>5, PlainEnter


-----------------------------------------------------------------------------
\* The kind of a body that is changed.
LEMMA ClosedType ==
  ASSUME NEW x \in BodyStates, NEW c \in BOOLEAN, NEW r \in Int,
         NEW s \in {"unborn", "live", "deleted"}
  PROVE  [x EXCEPT !.fd = FALSE, !.base = c, !.ref = r, !.state = s] \in BodyStates
BY DEF BodyStates

\* What the critical section of close() does.
Closed(t, b) ==
  /\ op[t].at \in {"deref", "close"}
  /\ body' \in [Fd!Body -> BodyStates] /\ \A c \in Fd!Body : c # b => body'[c] = body[c]
  /\ body'[b].fd = FALSE /\ body'[b].drivers = body[b].drivers
  /\ body'[b].base <=> body[b].base /\ ~(body[b].fd /\ body[b].drivers = {})
  /\ body'[b].ref = IF op[t].at = "deref" THEN body[b].ref - 1 ELSE body[b].ref
  /\ body'[b].state = IF op[t].at = "deref" /\ body[b].drivers = {} THEN "deleted"
                      ELSE body[b].state
  /\ os' = IF body[b].fd /\ body[b].drivers = {} THEN Fd!NoBody ELSE os
  /\ op' \in [Thread -> OpStates] /\ \A u \in Thread : u # t => op'[u] = op[u]
  /\ \/ op'[t] = Fd!None /\ (~body[b].fd \/ body[b].drivers = {})
     \/ op'[t].at = "tell" /\ op'[t].body = Fd!NoBody /\ op'[t].who = body[b].drivers
  /\ UNCHANGED <<held, phase, rec, watch, kern, batch, closes, late>>

\* It does.
LEMMA CloseEffect ==
  ASSUME FdInv, NEW t \in Thread, Fd!CloseLocked(t), NEW b \in Fd!Body, b = op[t].body
  PROVE  Closed(t, b)
<1> DEFINE x == body[b]
           last == op[t].at = "deref"
           y == [x EXCEPT !.fd = FALSE, !.base = @ /\ ~Fd!CloseNow(x),
                          !.ref = IF last THEN @ - 1 ELSE @,
                          !.state = IF Fd!Deletable(x, last) THEN "deleted" ELSE @]
           o == IF Fd!ToTell(x) = {} THEN Fd!None ELSE [Fd!None EXCEPT !.at = "tell", !.who = Fd!ToTell(x)]
<1>1. /\ op[t].at \in {"deref", "close"} /\ body' = [body EXCEPT ![b] = y]
      /\ os' = IF Fd!CloseNow(x) THEN Fd!NoBody ELSE os
      /\ Fd!Enter(t, o)
      /\ UNCHANGED <<held, phase, rec, watch, kern, batch, closes, late>>
  BY DEF Fd!CloseLocked, Fd!driverVars
<1>2. FdType /\ File(b) /\ x \in BodyStates /\ x.drivers \in SUBSET Thread
  BY BodyType DEF FdInv
<1>3. Fd!CloseNow(x) <=> x.fd /\ x.drivers = {}
  BY <1>2 DEF Fd!CloseNow, File
<1>4. Fd!ToTell(x) = IF x.fd THEN x.drivers ELSE {}
  BY DEF Fd!ToTell
<1>5. /\ y \in BodyStates /\ y.fd = FALSE /\ y.drivers = x.drivers
      /\ y.base <=> x.base /\ ~(x.fd /\ x.drivers = {})
      /\ y.ref = IF last THEN x.ref - 1 ELSE x.ref
      /\ y.state = IF last /\ x.drivers = {} THEN "deleted" ELSE x.state
  <2>1. y.drivers = x.drivers
    BY <1>2 DEF BodyStates
  <2>2. y.fd = FALSE
    BY <1>2 DEF BodyStates
  <2>3. y.base <=> (x.base /\ ~Fd!CloseNow(x))
    BY <1>2 DEF BodyStates
  <2>4. y.ref = IF last THEN x.ref - 1 ELSE x.ref
    BY <1>2 DEF BodyStates
  <2>5. y.state = IF Fd!Deletable(x, last) THEN "deleted" ELSE x.state
    BY <1>2 DEF BodyStates
  <2>6. y \in BodyStates
    <3> DEFINE c == x.base /\ ~Fd!CloseNow(x)
               r == IF last THEN x.ref - 1 ELSE x.ref
               s == IF Fd!Deletable(x, last) THEN "deleted" ELSE x.state
    <3>1. c \in BOOLEAN /\ r \in Int /\ s \in {"unborn", "live", "deleted"}
      BY <1>2 DEF BodyStates, Fd!CloseNow
    <3>2. y = [x EXCEPT !.fd = FALSE, !.base = c, !.ref = r, !.state = s]
      BY <1>2 DEF BodyStates
    <3> HIDE DEF c, r, s, y
    <3> QED
      BY <1>2, <3>1, <3>2, ClosedType
  <2> QED
    BY <1>3, <2>1, <2>2, <2>3, <2>4, <2>5, <2>6 DEF Fd!Deletable
<1>6. /\ o \in OpStates
      /\ \/ o = Fd!None /\ (~x.fd \/ x.drivers = {})
         \/ o.at = "tell" /\ o.body = Fd!NoBody /\ o.who = x.drivers
  <2>1. CASE x.fd /\ x.drivers # {}
    <3>1. o = [Fd!None EXCEPT !.at = "tell", !.who = x.drivers]
      BY <1>4, <2>1
    <3>2. o \in OpStates /\ o.at = "tell" /\ o.body = Fd!NoBody /\ o.who = x.drivers
      BY <1>2, <3>1 DEF Fd!None, OpStates, Bodies
    <3> QED
      BY <3>2
  <2>2. CASE ~x.fd \/ x.drivers = {}
    BY <1>4, <2>2, NoneType
  <2> QED
    BY <2>1, <2>2
<1> HIDE DEF y, o
<1>7. op' \in [Thread -> OpStates] /\ op'[t] = o /\ \A u \in Thread : u # t => op'[u] = op[u]
  BY <1>1, <1>2, <1>6, EnterStep
<1>8. body'[b] = y /\ \A c \in Fd!Body : c # b => body'[c] = body[c]
  BY <1>1, <1>2 DEF FdType
<1>9. body' \in [Fd!Body -> BodyStates]
  BY <1>1, <1>2, <1>5 DEF FdType
<1> QED
  BY <1>1, <1>3, <1>5, <1>6, <1>7, <1>8, <1>9 DEF Closed

\* close(): the file is closed, or the drivers that have it are to be told.
LEMMA CloseLockedStep ==
  ASSUME FdInv, ~late, NEW t \in Thread, Fd!CloseLocked(t)
  PROVE  FdInv'
<1>0. op[t].at \in {"deref", "close"} /\ op[t].body \in Fd!Body
  BY DEF Fd!CloseLocked, FdInv, Operation
<1> PICK b \in Fd!Body : b = op[t].body
  BY <1>0
<1>1. /\ op[t].at \in {"deref", "close"}
      /\ body' \in [Fd!Body -> BodyStates] /\ \A c \in Fd!Body : c # b => body'[c] = body[c]
      /\ body'[b].fd = FALSE /\ body'[b].drivers = body[b].drivers
      /\ body'[b].base <=> body[b].base /\ ~(body[b].fd /\ body[b].drivers = {})
      /\ body'[b].ref = IF op[t].at = "deref" THEN body[b].ref - 1 ELSE body[b].ref
      /\ body'[b].state = IF op[t].at = "deref" /\ body[b].drivers = {} THEN "deleted"
                          ELSE body[b].state
      /\ os' = IF body[b].fd /\ body[b].drivers = {} THEN Fd!NoBody ELSE os
      /\ op' \in [Thread -> OpStates] /\ \A u \in Thread : u # t => op'[u] = op[u]
      /\ \/ op'[t] = Fd!None /\ (~body[b].fd \/ body[b].drivers = {})
         \/ op'[t].at = "tell" /\ op'[t].body = Fd!NoBody /\ op'[t].who = body[b].drivers
      /\ UNCHANGED <<held, phase, rec, watch, kern, batch, closes, late>>
  BY CloseEffect DEF Closed
<1>2. FdType /\ File(b) /\ Count(b) /\ Operation(t) /\ b # Fd!NoBody
  BY BodyType DEF FdInv
<1>3. t \in Holders(b) \cup Droppers(b)
  BY <1>0, <1>2 DEF Holders, Droppers, Operation
<1>4. body[b].state = "live"
  BY <1>3, Referenced
<1>5. FdType'
  BY <1>1, <1>2 DEF FdType, Bodies
<1>6. Owned'
  <2>1. ASSUME NEW u \in Thread, rec[u].body # Fd!NoBody PROVE os' = rec[u].body
    <3>1. os = rec[u].body
      BY <2>1 DEF FdInv, Owned
    <3>2. CASE body[b].fd /\ body[b].drivers = {}
      <4>1. os = b /\ rec[u].body # b
        BY <1>2, <3>2 DEF File
      <4> QED
        BY <3>1, <4>1
    <3> QED
      BY <1>1, <3>1, <3>2
  <2>2. \A u \in Thread : op'[u].at = "watch" => op'[u] = op[u]
    BY <1>1, NoneType
  <2> QED
    BY <1>1, <2>1, <2>2 DEF FdInv, Owned
<1>7. Lists'
  BY <1>1, NoneType, ListsFrame DEF FdInv
<1>8. Told'
  <2> SUFFICES ASSUME NEW c \in Fd!Body, NEW u \in body'[c].drivers, ~body'[c].fd
               PROVE  u \in closes' \/ \E v \in Thread : op'[v].at = "tell" /\ u \in op'[v].who
    BY DEF Told
  <2>1. CASE c = b /\ body[b].fd
    BY <1>1, <2>1
  <2>2. CASE c # b \/ ~body[b].fd
    <3>1. u \in body[c].drivers /\ ~body[c].fd
      BY <1>1, <2>2
    <3>2. u \in closes \/ \E v \in Thread : op[v].at = "tell" /\ u \in op[v].who
      BY <3>1 DEF FdInv, Told
    <3> QED
      BY <1>1, <3>2
  <2> QED
    BY <2>1, <2>2
<1>9. ASSUME NEW c \in Fd!Body, c # b PROVE Count(c)' /\ File(c)'
  <2>1. Holders(c)' = Holders(c) /\ Droppers(c)' = Droppers(c)
    BY <1>1, <1>9, NoneType DEF Holders, Droppers
  <2>2. os' = os \/ (os' # c /\ os # c)
    BY <1>1, <1>2, <1>9, BodyType DEF File
  <2> QED
    BY <1>1, <1>9, <2>1, <2>2, FileFrame DEF FdInv, Count
<1>10. Count(b)'
  <2>1. Holders(b)' = Holders(b)
    BY <1>1 DEF Holders
  <2>2. CASE op[t].at = "deref"
    <3>1. Holders(b) = {} /\ Droppers(b) = {t} /\ body[b].ref = 1
      BY <1>2, <2>2, Alone DEF Operation
    <3>2. Droppers(b)' = {}
      BY <1>1, <3>1, NoneType DEF Droppers
    <3>3. body'[b].ref = 0
      BY <1>1, <2>2, <3>1
    <3> QED
      BY <2>1, <3>1, <3>2, <3>3, FS_EmptySet DEF Count
  <2>3. CASE op[t].at = "close"
    <3>1. Droppers(b)' = Droppers(b)
      BY <1>1, <2>3, NoneType DEF Droppers
    <3> QED
      BY <1>1, <1>2, <1>4, <2>1, <2>3, <3>1 DEF Count
  <2> QED
    BY <1>0, <2>2, <2>3
<1>11. File(b)'
  <2>1. body'[b].state # "unborn"
    BY <1>1, <1>4
  <2>2. body'[b].base <=> os' = b
    BY <1>1, <1>2 DEF File
  <2>3. body'[b].base => body'[b].state = "live" /\ body'[b].drivers # {}
    BY <1>1, <1>2, <1>4 DEF File
  <2>4. body'[b].state # "live" => body'[b].drivers = {}
    BY <1>1, <1>4
  <2> QED
    BY <1>1, <1>2, <2>1, <2>2, <2>3, <2>4 DEF File
<1>12. ASSUME NEW u \in Thread PROVE Operation(u)' /\ Known(u)' /\ Event(u)'
  <2>1. Operation(u)'
    <3>1. CASE u # t
      <4>1. op[u].at = "deref" => op[u].body \in Fd!Body /\ body'[op[u].body].ref = body[op[u].body].ref
        <5> SUFFICES ASSUME op[u].at = "deref"
                     PROVE  op[u].body \in Fd!Body /\ body'[op[u].body].ref = body[op[u].body].ref
          OBVIOUS
        <5>1. op[u].body \in Fd!Body /\ Holders(op[u].body) = {} /\ Droppers(op[u].body) = {u}
          BY Alone DEF FdInv, Operation
        <5>2. op[u].body # b
          BY <1>3, <3>1, <5>1
        <5> QED
          BY <1>1, <5>1, <5>2
      <4> QED
        BY <1>1, <3>1, <4>1, OperationFrame DEF FdInv
    <3>2. CASE u = t
      BY <1>0, <1>1, <1>2, <3>2, NoneType DEF Operation
    <3> QED
      BY <3>1, <3>2
  <2>2. Fd!Interest(u)' = Fd!Interest(u)
    BY <1>1, InterestFrame
  <2> QED
    BY <1>1, <2>1, <2>2, DriverFrame DEF FdInv
<1> QED
  BY <1>5, <1>6, <1>7, <1>8, <1>9, <1>10, <1>11, <1>12 DEF FdInv


-----------------------------------------------------------------------------
\* Threads go on, a notification is passed on, and nothing else changes.
LEMMA Going ==
  ASSUME FdInv, NEW t \in Thread, op' \in [Thread -> OpStates], Operation(t)', Told',
         \A u \in Thread : u # t => op'[u] = op[u] /\ phase'[u] = phase[u],
         op'[t] = op[t] \/ {op[t].at, op'[t].at} \subseteq {"none", "tell"},
         phase' \in [Thread -> {"run", "wait", "batch", "import"}],
         phase'[t] # "wait", phase'[t] = "batch" => phase[t] = "batch", closes' \subseteq Thread,
         UNCHANGED <<os, body, held, rec, watch, kern, batch, late>>
  PROVE  FdInv'
<1>1. FdType'
  BY DEF FdInv, FdType
<1>2. Owned'
  BY OwnedFrame DEF FdInv
<1>3. Lists'
  BY ListsFrame DEF FdInv
<1>4. ASSUME NEW b \in Fd!Body PROVE Count(b)' /\ File(b)'
  BY CountFrame, FileFrame DEF FdInv
<1>5. ASSUME NEW u \in Thread PROVE Operation(u)' /\ Known(u)' /\ Event(u)'
  <2>1. Fd!Interest(u)' = Fd!Interest(u)
    BY InterestFrame
  <2>2. CASE u # t
    BY <2>1, <2>2, OperationFrame, DriverFrame DEF FdInv
  <2>3. CASE u = t
    BY <2>1, <2>3 DEF FdInv, Known, Event
  <2> QED
    BY <2>2, <2>3
<1> QED
  BY <1>1, <1>2, <1>3, <1>4, <1>5 DEF FdInv

\* What is left of a driver's record.
LEMMA ClosedRecType ==
  ASSUME NEW r, r.epoch + 1 \in Nat
  PROVE  /\ Fd!ClosedRec(r) \in RecStates /\ Fd!ClosedRec(r).body = Fd!NoBody
         /\ Fd!ClosedRec(r).epoch = r.epoch + 1
         /\ Fd!ClosedRec(r).list = {} /\ Fd!ClosedRec(r).dirty
<1> DEFINE e == r.epoch + 1
<1>1. Fd!NewRec \in RecStates /\ Fd!NewRec.body = Fd!NoBody /\ Fd!NewRec.list = {}
  BY DEF Fd!NewRec, RecStates, Bodies, Fd!EmptyEpoch
<1>2. Fd!ClosedRec(r) = [Fd!NewRec EXCEPT !.epoch = e, !.dirty = TRUE]
  BY DEF Fd!ClosedRec
<1> HIDE DEF e
<1>3. ASSUME NEW n \in RecStates
      PROVE  /\ [n EXCEPT !.epoch = e, !.dirty = TRUE].body = n.body
             /\ [n EXCEPT !.epoch = e, !.dirty = TRUE].list = n.list
             /\ [n EXCEPT !.epoch = e, !.dirty = TRUE].epoch = e
             /\ [n EXCEPT !.epoch = e, !.dirty = TRUE].dirty
             /\ e \in Nat => [n EXCEPT !.epoch = e, !.dirty = TRUE] \in RecStates
  BY DEF RecStates
<1> QED
  BY <1>1, <1>2, <1>3 DEF e

\* What a driver does that is told that its descriptor is closed.
Notified(t, b) ==
  /\ watch' = [w \in Fd!Watch |-> IF w \in rec[t].list THEN Fd!Done ELSE watch[w]]
  /\ rec' \in [Thread -> RecStates] /\ \A u \in Thread : u # t => rec'[u] = rec[u]
  /\ rec'[t].body = Fd!NoBody /\ rec'[t].epoch = rec[t].epoch + 1
  /\ rec'[t].list = {} /\ rec'[t].dirty
  /\ kern' \in [Thread -> KernStates] /\ \A u \in Thread : u # t => kern'[u] = kern[u]
  /\ kern'[t].mask = {}
  /\ body' \in [Fd!Body -> BodyStates] /\ \A c \in Fd!Body : c # b => body'[c] = body[c]
  /\ body'[b].fd = body[b].fd /\ body'[b].ref = body[b].ref
  /\ body'[b].drivers = body[b].drivers \ {t}
  /\ body'[b].base <=> body[b].base /\ body[b].drivers \ {t} # {}
  /\ body'[b].state = IF body[b].drivers \ {t} = {} /\ body[b].ref = 0 THEN "deleted"
                      ELSE body[b].state
  /\ os' = IF body[b].drivers \ {t} = {} /\ body[b].base THEN Fd!NoBody ELSE os

\* It does.
LEMMA NotifyEffect ==
  ASSUME FdInv, NEW t \in Thread, NEW b \in Fd!Body, b = rec[t].body, ~body[b].fd, Fd!NotifyClose(t)
  PROVE  Notified(t, b)
<1> DEFINE rest == body[b].drivers \ {t}
           x == body[b]
           y == [x EXCEPT !.drivers = rest, !.base = @ /\ rest # {},
                          !.state = IF rest = {} /\ x.ref = 0 THEN "deleted" ELSE @]
<1>1. FdType /\ x \in BodyStates /\ b # Fd!NoBody /\ rec[t] \in RecStates
  BY BodyType, ThreadType DEF FdInv
<1>2. /\ watch' = [w \in Fd!Watch |-> IF w \in rec[t].list THEN Fd!Done ELSE watch[w]]
      /\ rec' = [rec EXCEPT ![t] = Fd!ClosedRec(rec[t])]
      /\ kern' = [kern EXCEPT ![t] = Fd!Unregistered]
      /\ body' = [body EXCEPT ![b] = y]
      /\ os' = IF rest = {} /\ body[b].base THEN Fd!NoBody ELSE os
  <2>1. /\ watch' = [w \in Fd!Watch |-> IF w \in rec[t].list THEN Fd!Done ELSE watch[w]]
        /\ rec' = [rec EXCEPT ![t] = Fd!ClosedRec(@)]
        /\ kern' = [kern EXCEPT ![t] = Fd!Unregistered]
        /\ Fd!RemoveListener(t, b)
    BY <1>1 DEF Fd!NotifyClose
  <2>2. /\ body' = [body EXCEPT ![b] = y]
        /\ os' = IF rest = {} /\ body[b].base THEN Fd!NoBody ELSE os
    BY <2>1 DEF Fd!RemoveListener
  <2> QED
    BY <2>1, <2>2
<1>3. /\ Fd!ClosedRec(rec[t]) \in RecStates /\ Fd!ClosedRec(rec[t]).body = Fd!NoBody
      /\ Fd!ClosedRec(rec[t]).epoch = rec[t].epoch + 1
      /\ Fd!ClosedRec(rec[t]).list = {} /\ Fd!ClosedRec(rec[t]).dirty
  <2>1. rec[t].epoch + 1 \in Nat
    BY <1>1 DEF RecStates
  <2> QED
    BY <2>1, ClosedRecType
<1>4. Fd!Unregistered \in KernStates /\ Fd!Unregistered.mask = {}
  BY DEF Fd!Unregistered, KernStates, Bodies, Fd!EmptyEpoch
<1>5. /\ y \in BodyStates /\ y.fd = x.fd /\ y.ref = x.ref /\ y.drivers = rest
      /\ y.base <=> x.base /\ rest # {}
      /\ y.state = IF rest = {} /\ x.ref = 0 THEN "deleted" ELSE x.state
  <2>1. y.fd = x.fd /\ y.ref = x.ref /\ y.drivers = rest
    BY <1>1 DEF BodyStates
  <2>2. y.base <=> x.base /\ rest # {}
    BY <1>1 DEF BodyStates
  <2>3. y.state = IF rest = {} /\ x.ref = 0 THEN "deleted" ELSE x.state
    BY <1>1 DEF BodyStates
  <2>4. y \in BodyStates
    <3> DEFINE c == x.base /\ rest # {}
               s == IF rest = {} /\ x.ref = 0 THEN "deleted" ELSE x.state
    <3>1. c \in BOOLEAN /\ s \in {"unborn", "live", "deleted"} /\ rest \subseteq Thread
      BY <1>1 DEF BodyStates
    <3>2. y = [x EXCEPT !.drivers = rest, !.base = c, !.state = s]
      BY <1>1 DEF BodyStates
    <3> HIDE DEF c, s, rest, y
    <3> QED
      BY <1>1, <3>1, <3>2 DEF BodyStates
  <2> QED
    BY <2>1, <2>2, <2>3, <2>4
<1> HIDE DEF y, rest
<1>6. rec' \in [Thread -> RecStates] /\ kern' \in [Thread -> KernStates]
      /\ body' \in [Fd!Body -> BodyStates]
  BY <1>1, <1>2, <1>3, <1>4, <1>5 DEF FdType
<1>7. /\ rec'[t] = Fd!ClosedRec(rec[t]) /\ \A u \in Thread : u # t => rec'[u] = rec[u]
      /\ kern'[t] = Fd!Unregistered /\ \A u \in Thread : u # t => kern'[u] = kern[u]
      /\ body'[b] = y /\ \A c \in Fd!Body : c # b => body'[c] = body[c]
  BY <1>1, <1>2 DEF FdType
<1> QED
  BY <1>2, <1>3, <1>4, <1>5, <1>6, <1>7 DEF Notified, rest

\* A watch that is over.
LEMMA DoneType == Fd!Done \in WatchrecStates /\ Fd!Done.state = "done"
BY DEF Fd!Done, Fd!NewWatch, WatchrecStates, Bodies

\* A driver that is told drops the descriptor if it is closed; the others keep what they have.
LEMMA NotifyStep ==
  ASSUME FdInv, ~late, NEW t \in Thread, Fd!NotifyClose(t),
         op' \in [Thread -> OpStates], Operation(t)',
         \A u \in Thread : u # t => op'[u] = op[u] /\ phase'[u] = phase[u],
         {op[t].at, op'[t].at} \subseteq {"none", "tell"},
         phase' \in [Thread -> {"run", "wait", "batch", "import"}],
         phase'[t] # "wait", phase'[t] = "batch" => phase[t] = "batch",
         closes' \subseteq Thread, closes \ {t} \subseteq closes',
         op[t].at = "tell" => \A u \in op[t].who \ {t} : op'[t].at = "tell" /\ u \in op'[t].who,
         UNCHANGED <<held, batch, late>>
  PROVE  FdInv'
<1>1. FdType /\ rec[t].body \in Bodies
  BY ThreadType DEF FdInv
<1>2. ASSUME NEW u \in Thread, u # t, u \in closes \/ \E v \in Thread : op[v].at = "tell" /\ u \in op[v].who
      PROVE  u \in closes' \/ \E v \in Thread : op'[v].at = "tell" /\ u \in op'[v].who
  BY <1>2
<1>3. CASE rec[t].body = Fd!NoBody \/ body[rec[t].body].fd
  <2>1. UNCHANGED <<os, body, rec, watch, kern>>
    BY <1>3 DEF Fd!NotifyClose, Fd!driverVars
  <2>2. Told'
    <3> SUFFICES ASSUME NEW c \in Fd!Body, NEW u \in body[c].drivers, ~body[c].fd
                 PROVE  u \in closes' \/ \E v \in Thread : op'[v].at = "tell" /\ u \in op'[v].who
      BY <2>1 DEF Told
    <3>1. u \in Thread /\ rec[u].body = c /\ c # Fd!NoBody
      BY <1>1, BodyType DEF FdInv, File
    <3>2. u # t
      BY <1>3, <3>1
    <3>3. u \in closes \/ \E v \in Thread : op[v].at = "tell" /\ u \in op[v].who
      BY DEF FdInv, Told
    <3> QED
      BY <1>2, <3>1, <3>2, <3>3
  <2> QED
    BY <2>1, <2>2, Going
<1>4. CASE rec[t].body # Fd!NoBody /\ ~body[rec[t].body].fd
  <2> PICK b \in Fd!Body : b = rec[t].body
    BY <1>1, <1>4 DEF Bodies
  <2>0. Notified(t, b)
    BY <1>4, NotifyEffect
  <2> DEFINE rest == body[b].drivers \ {t}
  <2>1. /\ watch' = [w \in Fd!Watch |-> IF w \in rec[t].list THEN Fd!Done ELSE watch[w]]
        /\ rec' \in [Thread -> RecStates] /\ \A u \in Thread : u # t => rec'[u] = rec[u]
        /\ rec'[t].body = Fd!NoBody /\ rec'[t].epoch = rec[t].epoch + 1
        /\ rec'[t].list = {} /\ rec'[t].dirty
    BY <2>0 DEF Notified
  <2>2. /\ kern' \in [Thread -> KernStates] /\ \A u \in Thread : u # t => kern'[u] = kern[u]
        /\ kern'[t].mask = {}
    BY <2>0 DEF Notified
  <2>3. /\ body' \in [Fd!Body -> BodyStates] /\ \A c \in Fd!Body : c # b => body'[c] = body[c]
        /\ body'[b].fd = body[b].fd /\ body'[b].ref = body[b].ref
        /\ body'[b].drivers = rest
        /\ body'[b].base <=> body[b].base /\ rest # {}
        /\ body'[b].state = IF rest = {} /\ body[b].ref = 0 THEN "deleted" ELSE body[b].state
        /\ os' = IF rest = {} /\ body[b].base THEN Fd!NoBody ELSE os
    BY <2>0 DEF Notified
  <2>4. File(b) /\ Count(b) /\ b # Fd!NoBody /\ t \in body[b].drivers /\ os = b /\ body[b].base
    <3>1. File(b) /\ Count(b) /\ b # Fd!NoBody
      BY <1>1, BodyType DEF FdInv
    <3>2. t \in body[b].drivers
      BY <3>1 DEF File
    <3>3. os = b
      BY <3>1 DEF FdInv, Owned
    <3> QED
      BY <3>1, <3>2, <3>3 DEF File
  <2>5. body[b].state = "live"
    BY <2>4 DEF File
  <2>6. FdType'
    <3>1. watch' \in [Fd!Watch -> WatchrecStates]
      BY <1>1, <2>1, DoneType DEF FdType
    <3>2. os' \in Bodies
      BY <1>1, <2>3 DEF FdType, Bodies
    <3> QED
      BY <1>1, <2>1, <2>2, <2>3, <3>1, <3>2 DEF FdType
  <2>7. Owned'
    <3>1. ASSUME NEW u \in Thread, rec'[u].body # Fd!NoBody PROVE os' = rec'[u].body
      <4>1. u # t /\ rec'[u] = rec[u] /\ os = rec[u].body
        BY <2>1, <3>1 DEF FdInv, Owned
      <4>2. u \in body[b].drivers
        BY <2>4, <4>1 DEF File
      <4> QED
        BY <2>3, <4>1, <4>2
    <3>2. ASSUME NEW u \in Thread, op'[u].at = "watch" PROVE rec'[u].body \in {Fd!NoBody, op'[u].body}
      BY <2>1, <3>2 DEF FdInv, Owned
    <3> QED
      BY <3>1, <3>2 DEF Owned
  <2>8. Lists'
    <3>1. ASSUME NEW u \in Thread PROVE Listed(u)'
      <4> SUFFICES ASSUME NEW w \in rec'[u].list
                   PROVE  /\ watch'[w].state \in {"on", "empty"}
                          /\ watch'[w].body = rec'[u].body /\ rec'[u].body # Fd!NoBody
                          /\ \A v \in Thread : w \in rec'[v].list => v = u
        BY DEF Listed
      <4>1. u # t /\ rec'[u] = rec[u]
        BY <2>1
      <4>2. Listed(u) /\ w \in Fd!Watch
        BY <1>1, <4>1, ThreadType DEF FdInv, Lists
      <4>3. w \notin rec[t].list
        BY <4>1, <4>2 DEF Listed
      <4>4. watch'[w] = watch[w]
        BY <2>1, <4>2, <4>3
      <4> QED
        BY <2>1, <4>1, <4>2, <4>4 DEF Listed
    <3>2. ASSUME NEW w \in Fd!Watch, watch'[w].state = "on" PROVE \E u \in Thread : w \in rec'[u].list
      <4>1. w \notin rec[t].list /\ watch[w].state = "on"
        BY <2>1, <3>2, DoneType
      <4>2. PICK u \in Thread : w \in rec[u].list
        BY <4>1 DEF FdInv, Lists
      <4> QED
        BY <2>1, <4>1, <4>2
    <3>3. Unused' = Unused
      <4>1. ASSUME NEW w \in rec[t].list PROVE watch[w].state # "unused"
        BY <4>1 DEF FdInv, Lists, Listed
      <4> QED
        BY <2>1, <4>1, DoneType DEF Unused
    <3>4. Watching' = Watching
      BY DEF Watching
    <3> QED
      BY <3>1, <3>2, <3>3, <3>4 DEF FdInv, Lists
  <2>9. Told'
    <3> SUFFICES ASSUME NEW c \in Fd!Body, NEW u \in body'[c].drivers, ~body'[c].fd
                 PROVE  u \in closes' \/ \E v \in Thread : op'[v].at = "tell" /\ u \in op'[v].who
      BY DEF Told
    <3>1. u \in body[c].drivers /\ ~body[c].fd
      BY <2>3
    <3>2. u \in Thread /\ u # t
      <4>1. u \in Thread /\ (c # b => rec[u].body # b)
        BY <1>1, <3>1, BodyType DEF FdInv, File
      <4> QED
        BY <2>3, <4>1
    <3>3. u \in closes \/ \E v \in Thread : op[v].at = "tell" /\ u \in op[v].who
      BY <3>1 DEF FdInv, Told
    <3> QED
      BY <1>2, <3>2, <3>3
  <2>10. ASSUME NEW c \in Fd!Body, c # b PROVE Count(c)' /\ File(c)'
    <3>1. Count(c)'
      BY <2>3, <2>10, CountFrame DEF FdInv
    <3>2. \A u \in Thread : rec[u].body = c <=> rec'[u].body = c
      BY <2>1, <2>10, BodyType, <1>1
    <3>3. os' = os \/ (os' # c /\ os # c)
      BY <1>1, <2>3, <2>4, <2>10, BodyType
    <3> QED
      BY <2>3, <2>10, <3>1, <3>2, <3>3, FileFrame DEF FdInv
  <2>11. Count(b)'
    <3>1. body'[b].state # "live" => body[b].state # "live" \/ body[b].ref = 0
      BY <2>3
    <3> QED
      BY SMTT(30), <2>3, <2>4, <3>1, CountFrame
  <2>12. File(b)'
    <3>1. \A u \in Thread : u \in body'[b].drivers <=> rec'[u].body = b
      BY ZenonT(30), <2>1, <2>3, <2>4 DEF File
    <3>2. (body'[b].base <=> os' = b) /\ ~body'[b].fd
      BY <1>4, <2>3, <2>4
    <3>3. body'[b].state # "live" => body'[b].drivers = {}
      BY <2>3, <2>5
    <3>4. body'[b].base => body'[b].state = "live" /\ body'[b].drivers # {}
      BY <2>3, <2>5
    <3>5. body'[b].state # "unborn"
      BY <2>3, <2>5
    <3> QED
      BY <3>1, <3>2, <3>3, <3>4, <3>5 DEF File
  <2>13. ASSUME NEW u \in Thread PROVE Operation(u)' /\ Known(u)' /\ Event(u)'
    <3>1. CASE u # t
      <4>1. op[u].at = "deref" => body'[op[u].body].ref = body[op[u].body].ref
        BY <2>3 DEF FdInv, Operation
      <4>2. Operation(u)'
        BY <3>1, <4>1, OperationFrame DEF FdInv
      <4>3. \A w \in rec[u].list : watch'[w] = watch[w]
        <5> TAKE w \in rec[u].list
        <5>1. w \in Fd!Watch /\ w \notin rec[t].list
          BY <1>1, <3>1, ThreadType DEF FdInv, Lists, Listed
        <5> QED
          BY <2>1, <5>1
      <4>4. Fd!Interest(u)' = Fd!Interest(u)
        BY <2>1, <3>1, <4>3, InterestFrame
      <4> QED
        BY <2>1, <2>2, <3>1, <4>2, <4>4, DriverFrame DEF FdInv
    <3>2. CASE u = t
      <4>1. Known(t)'
        BY <2>1, <2>2 DEF Known
      <4>2. Event(t)'
        <5>1. phase'[t] = "batch" =>
                Fd!UserEpoch <= batch[t].epoch /\ batch[t].epoch <= rec[t].epoch
          BY DEF FdInv, Event
        <5>2. batch[t].epoch \in Nat /\ rec[t].epoch \in Nat
          BY <1>1, ThreadType DEF KernStates
        <5> QED
          BY <2>1, <5>1, <5>2 DEF Event, Fd!UserEpoch
      <4> QED
        BY <3>2, <4>1, <4>2
    <3> QED
      BY <3>1, <3>2
  <2> QED
    BY <2>6, <2>7, <2>8, <2>9, <2>10, <2>11, <2>12, <2>13 DEF FdInv
<1> QED
  BY <1>3, <1>4


-----------------------------------------------------------------------------
\* Who closed a descriptor tells a driver.
LEMMA FdTellStep ==
  ASSUME FdInv, ~late, NEW t \in Thread, NEW u \in Thread, Fd!Tell(t, u)
  PROVE  FdInv'
<1> DEFINE o == IF op[t].who = {u} THEN Fd!None ELSE [op[t] EXCEPT !.who = @ \ {u}]
<1>1. /\ op[t].at = "tell" /\ u \in op[t].who /\ Fd!Enter(t, o)
      /\ IF u = t THEN Fd!NotifyClose(t) /\ UNCHANGED closes
         ELSE closes' = closes \cup {u} /\ UNCHANGED <<os, body, rec, watch, kern>>
      /\ UNCHANGED <<held, phase, batch, late>>
  BY DEF Fd!Tell, Fd!driverVars
<1>2. FdType /\ op[t] \in OpStates /\ op[t].body = Fd!NoBody /\ phase[t] \in {"run", "batch"}
  BY <1>1, ThreadType DEF FdInv, Operation
<1>3. /\ o \in OpStates /\ o.at \in {"none", "tell"} /\ o.body = Fd!NoBody
      /\ o.at = "none" => o = Fd!None
      /\ \A v \in op[t].who \ {u} : o.at = "tell" /\ v \in o.who
  <2>1. CASE op[t].who = {u}
    BY <2>1, NoneType
  <2>2. CASE op[t].who # {u}
    BY <1>1, <1>2, <2>2 DEF OpStates
  <2> QED
    BY <2>1, <2>2
<1> HIDE DEF o
<1>4. op' \in [Thread -> OpStates] /\ op'[t] = o /\ \A v \in Thread : v # t => op'[v] = op[v]
  BY <1>1, <1>2, <1>3, EnterStep
<1>5. Operation(t)'
  BY <1>1, <1>2, <1>3, <1>4 DEF Operation
<1>6. phase' \in [Thread -> {"run", "wait", "batch", "import"}] /\ phase'[t] # "wait"
      /\ \A v \in Thread : v # t => phase'[v] = phase[v]
  BY <1>1, <1>2 DEF FdType
<1>7. {op[t].at, op'[t].at} \subseteq {"none", "tell"}
  BY <1>1, <1>3, <1>4
<1>8. CASE u = t
  <2>1. closes' \subseteq Thread /\ closes \ {t} \subseteq closes'
    BY <1>1, <1>2, <1>8 DEF FdType
  <2>2. \A v \in op[t].who \ {t} : op'[t].at = "tell" /\ v \in op'[t].who
    BY <1>3, <1>4, <1>8
  <2> QED
    BY <1>1, <1>4, <1>5, <1>6, <1>7, <1>8, <2>1, <2>2, NotifyStep
<1>9. CASE u # t
  <2>1. closes' = closes \cup {u} /\ closes' \subseteq Thread
    BY <1>1, <1>2, <1>9 DEF FdType
  <2>2. Told'
    <3> SUFFICES ASSUME NEW c \in Fd!Body, NEW v \in body[c].drivers, ~body[c].fd
                 PROVE  v \in closes' \/ \E x \in Thread : op'[x].at = "tell" /\ v \in op'[x].who
      BY <1>1, <1>9 DEF Told
    <3>1. v \in closes \/ \E x \in Thread : op[x].at = "tell" /\ v \in op[x].who
      BY DEF FdInv, Told
    <3> QED
      BY <1>3, <1>4, <2>1, <3>1
  <2> QED
    BY <1>1, <1>4, <1>5, <1>6, <1>7, <1>9, <2>1, <2>2, Going
<1> QED
  BY <1>8, <1>9

\* A driver imports what it was told.
LEMMA FdImportStep ==
  ASSUME FdInv, ~late, NEW t \in Thread, Fd!Import(t)
  PROVE  FdInv'
<1>1. /\ phase[t] = "import" /\ phase' = [phase EXCEPT ![t] = "run"] /\ closes' = closes \ {t}
      /\ IF t \in closes THEN Fd!NotifyClose(t) ELSE UNCHANGED <<os, body, rec, watch, kern>>
      /\ UNCHANGED <<held, op, batch, late>>
  BY DEF Fd!Import, Fd!driverVars
<1>2. FdType /\ op[t].at = "none" /\ Operation(t) /\ Told /\ op[t].at # "tell"
  <2>1. FdType /\ Operation(t) /\ op[t] \in OpStates /\ Told
    BY ThreadType DEF FdInv
  <2>2. op[t].at = "none"
    BY <1>1, <2>1 DEF Operation
  <2> QED
    BY <2>1, <2>2
<1>3. /\ phase' \in [Thread -> {"run", "wait", "batch", "import"}] /\ phase'[t] = "run"
      /\ \A v \in Thread : v # t => phase'[v] = phase[v]
  BY <1>1, <1>2 DEF FdType
<1>4. op' \in [Thread -> OpStates] /\ closes' \subseteq Thread /\ closes \ {t} \subseteq closes'
  BY <1>1, <1>2 DEF FdType
<1>5. Operation(t)'
  <2>1. op'[t] = Fd!None
    BY <1>1, <1>2 DEF Operation
  <2> QED
    BY <2>1, NoneType DEF Operation
<1>6. CASE t \in closes
  BY <1>1, <1>2, <1>3, <1>4, <1>5, <1>6, NotifyStep
<1>7. CASE t \notin closes
  <2>1. Told'
    BY <1>1, <1>2, <1>7, ToldFrame
  <2> QED
    BY <1>1, <1>2, <1>3, <1>4, <1>5, <1>7, <2>1, Going
<1> QED
  BY <1>6, <1>7

-----------------------------------------------------------------------------
\* The sets of watches that are counted are finite.
LEMMA WatchesFinite ==
  /\ IsFiniteSet(Unused) /\ IsFiniteSet(Watching)
  /\ Cardinality(Unused) \in Nat /\ Cardinality(Watching) \in Nat
<1>1. IsFiniteSet(Fd!Watch)
  BY WatchesBounded, FS_Interval DEF Fd!Watch
<1>2. Unused \subseteq Fd!Watch /\ Watching \subseteq Thread
  BY DEF Unused, Watching
<1> QED
  BY <1>1, <1>2, ThreadsFinite, FS_Subset, FS_CardinalityType

\* FdWatch counts as FiniteSets does.
LEMMA SameCardinality ==
  ASSUME NEW S
  PROVE  Fd!Cardinality(S) = Cardinality(S)
BY DEF Fd!Cardinality, Cardinality

\* A thread begins to watch a descriptor.
LEMMA FdFileEventStep ==
  ASSUME FdInv, ~late, NEW t \in Thread, NEW b \in Fd!Body, NEW m \in Fd!Mask, Fd!FileEvent(t, b, m)
  PROVE  FdInv'
<1> DEFINE o == [Fd!None EXCEPT !.at = "watch", !.body = b, !.mask = {m}]
<1>1. /\ b \in held[t] /\ body[b].fd /\ op[t] = Fd!None /\ phase[t] \in {"run", "batch"}
      /\ Cardinality(Unused) > Cardinality(Watching) /\ Fd!Enter(t, o)
      /\ UNCHANGED <<os, body, held, phase, rec, watch, kern, batch, closes, late>>
  <2>1. /\ b \in held[t] /\ body[b].fd /\ op[t] = Fd!None /\ phase[t] \in {"run", "batch"}
        /\ Fd!Enter(t, o)
        /\ UNCHANGED <<os, body, held, phase, rec, watch, kern, batch, closes, late>>
    BY DEF Fd!FileEvent, Fd!driverVars, Fd!CanRun
  <2>2. Cardinality({w \in Fd!Watch : watch[w].state = "unused"})
          > Cardinality({u \in Thread : op[u].at = "watch"})
    BY SameCardinality DEF Fd!FileEvent
  <2> QED
    BY <2>1, <2>2 DEF Unused, Watching
<1>2. o \in OpStates /\ o.at = "watch" /\ o.body = b
  BY DEF Fd!None, OpStates, Bodies
<1> HIDE DEF o
<1>3. FdType /\ op' \in [Thread -> OpStates] /\ op'[t] = o /\ \A u \in Thread : u # t => op'[u] = op[u]
  BY <1>1, <1>2, EnterStep DEF FdInv
<1>4. FdType'
  BY <1>1, <1>3 DEF FdType
<1>5. Owned'
  <2>1. os = b
    BY <1>1 DEF FdInv, File
  <2>2. rec[t].body \in {Fd!NoBody, b}
    BY <2>1 DEF FdInv, Owned
  <2> QED
    BY <1>1, <1>2, <1>3, <2>2 DEF FdInv, Owned
<1>6. Lists'
  <2>1. Watching' = Watching \cup {t} /\ t \notin Watching /\ Unused' = Unused
    BY <1>1, <1>2, <1>3, NoneType DEF Watching, Unused
  <2>2. Cardinality(Watching') = Cardinality(Watching) + 1
    BY <2>1, WatchesFinite, OneMore
  <2>3. Cardinality(Watching') <= Cardinality(Unused')
    BY <1>1, <2>1, <2>2, WatchesFinite
  <2>4. ASSUME NEW u \in Thread PROVE Listed(u)'
    BY <1>1 DEF FdInv, Lists, Listed
  <2> QED
    BY <1>1, <2>3, <2>4 DEF FdInv, Lists
<1>7. Told'
  BY <1>1, <1>3, NoneType, ToldFrame DEF FdInv
<1>8. ASSUME NEW c \in Fd!Body PROVE Count(c)' /\ File(c)'
  <2>1. \A u \in Thread : op'[u] = op[u] \/ ({op[u].at, op'[u].at} \cap {"deref", "subtract"} = {})
    BY <1>1, <1>2, <1>3, NoneType
  <2> QED
    BY <1>1, <2>1, CountFrame, FileFrame DEF FdInv
<1>9. ASSUME NEW u \in Thread PROVE Operation(u)' /\ Known(u)' /\ Event(u)'
  <2>1. Operation(u)'
    <3>1. CASE u # t
      BY <1>1, <1>3, <3>1, OperationFrame DEF FdInv
    <3>2. CASE u = t
      BY <1>1, <1>2, <1>3, <3>2 DEF Operation
    <3> QED
      BY <3>1, <3>2
  <2>2. Fd!Interest(u)' = Fd!Interest(u)
    BY <1>1, InterestFrame
  <2> QED
    BY <1>1, <2>1, <2>2, DriverFrame DEF FdInv
<1> QED
  BY <1>4, <1>5, <1>6, <1>7, <1>8, <1>9 DEF FdInv

\* What watch() does, with watch w.
Added(t, b, w) ==
  /\ late' <=> ~body[b].fd /\ rec[t].body # b
  /\ watch' \in [Fd!Watch -> WatchrecStates] /\ \A v \in Fd!Watch : v # w => watch'[v] = watch[v]
  /\ watch'[w].state = "on" /\ watch'[w].body = b
  /\ rec' \in [Thread -> RecStates] /\ \A u \in Thread : u # t => rec'[u] = rec[u]
  /\ rec'[t].body = b /\ rec'[t].list = rec[t].list \cup {w} /\ rec'[t].dirty
  /\ rec'[t].epoch = rec[t].epoch
  /\ body' \in [Fd!Body -> BodyStates] /\ \A c \in Fd!Body : c # b => body'[c] = body[c]
  /\ body'[b].drivers = body[b].drivers \cup {t} /\ body'[b].state = body[b].state
  /\ body'[b].fd = body[b].fd /\ body'[b].base = body[b].base /\ body'[b].ref = body[b].ref
  /\ op' \in [Thread -> OpStates] /\ op'[t] = Fd!None /\ \A u \in Thread : u # t => op'[u] = op[u]
  /\ late' \in BOOLEAN
  /\ UNCHANGED <<os, held, phase, kern, batch, closes>>

\* It does, with a watch that was not in use.
LEMMA AddEffect ==
  ASSUME FdInv, NEW t \in Thread, Fd!AddWatch(t), NEW b \in Fd!Body, b = op[t].body
  PROVE  \E w \in Unused : Added(t, b, w)
<1>1. FdType /\ rec[t] \in RecStates /\ op[t].mask \subseteq Fd!Mask /\ body[b] \in BodyStates
  BY ThreadType, BodyType DEF FdInv
<1>2. op[t].at = "watch"
  BY DEF Fd!AddWatch
<1>3. Unused # {}
  <2>1. Watching # {}
    BY <1>2 DEF Watching
  <2>2. Cardinality(Watching) # 0 /\ Cardinality(Watching) <= Cardinality(Unused)
    BY <2>1, WatchesFinite, FS_EmptySet DEF FdInv, Lists
  <2> QED
    BY <2>2, WatchesFinite, FS_EmptySet
<1>4. Fd!NextWatch \in Unused
  BY <1>3 DEF Fd!NextWatch, Unused
<1> PICK w \in Unused : w = Fd!NextWatch
  BY <1>4
<1> DEFINE r == Fd!Watched(rec[t], b, w)
           n == [state |-> "on", body |-> b, mask |-> op[t].mask]
           x == body[b]
           y == [x EXCEPT !.drivers = @ \cup {t}]
<1>5. /\ late' = (~body[b].fd /\ rec[t].body # b)
      /\ watch' = [watch EXCEPT ![w] = n] /\ rec' = [rec EXCEPT ![t] = r]
      /\ body' = [body EXCEPT ![b] = y] /\ Fd!Enter(t, Fd!None)
      /\ UNCHANGED <<os, held, phase, kern, batch, closes>>
  <2>1. /\ late' = (~body[b].fd /\ rec[t].body # b)
        /\ watch' = [watch EXCEPT ![w] = n]
        /\ Fd!Enter(t, Fd!None)
        /\ UNCHANGED <<os, held, phase, kern, batch, closes>>
    BY DEF Fd!AddWatch
  <2>2. rec' = [rec EXCEPT ![t] = r] /\ body' = [body EXCEPT ![b] = y]
    BY <1>1 DEF Fd!AddWatch, FdType
  <2> QED
    BY <2>1, <2>2
<1>6. w \in Fd!Watch
  BY DEF Unused
<1>7. r \in RecStates /\ r.body = b /\ r.list = rec[t].list \cup {w} /\ r.dirty /\ r.epoch = rec[t].epoch
  BY <1>1, <1>6 DEF Fd!Watched, RecStates, Bodies
<1>8. n \in WatchrecStates /\ n.state = "on" /\ n.body = b
  BY <1>1 DEF WatchrecStates, Bodies
<1>9. /\ y \in BodyStates /\ y.drivers = x.drivers \cup {t} /\ y.state = x.state
      /\ y.fd = x.fd /\ y.base = x.base /\ y.ref = x.ref
  BY <1>1 DEF BodyStates
<1> HIDE DEF r, n, y
<1>10. op' \in [Thread -> OpStates] /\ op'[t] = Fd!None /\ \A u \in Thread : u # t => op'[u] = op[u]
  BY <1>1, <1>5, NoneType, EnterStep
<1>11. /\ watch' \in [Fd!Watch -> WatchrecStates] /\ watch'[w] = n
       /\ \A v \in Fd!Watch : v # w => watch'[v] = watch[v]
  BY <1>1, <1>5, <1>6, <1>8 DEF FdType
<1>12. rec' \in [Thread -> RecStates] /\ rec'[t] = r /\ \A u \in Thread : u # t => rec'[u] = rec[u]
  BY <1>1, <1>5, <1>7 DEF FdType
<1>13. body' \in [Fd!Body -> BodyStates] /\ body'[b] = y /\ \A c \in Fd!Body : c # b => body'[c] = body[c]
  BY <1>1, <1>5, <1>9 DEF FdType
<1> QED
  BY ZenonT(30), <1>5, <1>7, <1>8, <1>9, <1>10, <1>11, <1>12, <1>13 DEF Added

\* A watch is added to a driver's list, and the driver to the body's.
LEMMA FdAddWatchStep ==
  ASSUME FdInv, ~late, NEW t \in Thread, Fd!AddWatch(t)
  PROVE  FdInv'
<1>0. op[t].at = "watch" /\ op[t].body \in Fd!Body
  BY DEF Fd!AddWatch, FdInv, Operation
<1> PICK b \in Fd!Body : b = op[t].body
  BY <1>0
<1> PICK w \in Unused : Added(t, b, w)
  BY AddEffect
<1>1. FdType /\ File(b) /\ Count(b) /\ b # Fd!NoBody /\ Lists /\ Owned /\ Told
  BY BodyType DEF FdInv
<1>2. b \in held[t] /\ phase[t] \in {"run", "batch"} /\ rec[t].body \in {Fd!NoBody, b}
  BY <1>0, <1>1 DEF FdInv, Operation, Owned
<1>3. body[b].state = "live"
  BY <1>2, Referenced DEF Holders
<1>4. w \in Fd!Watch /\ watch[w].state = "unused" /\ \A u \in Thread : w \notin rec[u].list
  BY <1>1 DEF Unused, Lists, Listed
<1>5. FdType'
  BY <1>1 DEF FdType, Added
<1>6. Owned'
  <2>1. ~late' => os = b
    <3>1. ~late' => body[b].fd \/ rec[t].body = b
      BY DEF Added
    <3> QED
      BY <1>1, <3>1 DEF File, Owned
  <2>2. \A u \in Thread : u # t /\ rec'[u].body # Fd!NoBody => os' = rec'[u].body
    BY <1>1 DEF Owned, Added
  <2>3. \A u \in Thread : op'[u].at = "watch" => rec'[u].body \in {Fd!NoBody, op'[u].body}
    BY <1>1, NoneType DEF Owned, Added
  <2>4. rec'[t].body = b /\ os' = os
    BY DEF Added
  <2> QED
    BY <2>1, <2>2, <2>3, <2>4 DEF Owned
<1>7. Lists'
  <2>1. ASSUME NEW u \in Thread PROVE Listed(u)'
    <3> SUFFICES ASSUME NEW v \in rec'[u].list
                 PROVE  /\ watch'[v].state \in {"on", "empty"}
                        /\ watch'[v].body = rec'[u].body /\ rec'[u].body # Fd!NoBody
                        /\ \A x \in Thread : v \in rec'[x].list => x = u
      BY DEF Listed
    <3>1. CASE v = w
      BY <1>1, <1>4, <3>1 DEF Added
    <3>2. CASE v # w
      <4>1. v \in rec[u].list /\ v \in Fd!Watch
        BY <1>1, <3>2, ThreadType DEF Added
      <4>2. /\ watch[v].state \in {"on", "empty"}
            /\ watch[v].body = rec[u].body /\ rec[u].body # Fd!NoBody
            /\ \A x \in Thread : v \in rec[x].list => x = u
        BY <1>1, <4>1 DEF Lists, Listed
      <4>3. watch'[v] = watch[v] /\ rec'[u].body = rec[u].body
        BY <1>2, <3>2, <4>1, <4>2 DEF Added
      <4>4. \A x \in Thread : v \in rec'[x].list => v \in rec[x].list
        BY <3>2 DEF Added
      <4> QED
        BY <4>2, <4>3, <4>4
    <3> QED
      BY <3>1, <3>2
  <2>2. ASSUME NEW v \in Fd!Watch, watch'[v].state = "on" PROVE \E u \in Thread : v \in rec'[u].list
    <3>1. CASE v = w
      BY <3>1 DEF Added
    <3>2. CASE v # w
      <4>1. PICK u \in Thread : v \in rec[u].list
        BY <1>1, <2>2, <3>2 DEF Lists, Added
      <4> QED
        BY <4>1 DEF Added
    <3> QED
      BY <3>1, <3>2
  <2>3. Unused' = Unused \ {w}
    BY <1>4 DEF Unused, Added
  <2>4. Watching' = Watching \ {t} /\ t \in Watching
    BY <1>0, NoneType DEF Watching, Added
  <2>5. Cardinality(Unused') = Cardinality(Unused) - 1 /\ Cardinality(Watching') = Cardinality(Watching) - 1
    BY <2>3, <2>4, WatchesFinite, OneLess
  <2>6. Cardinality(Watching') <= Cardinality(Unused')
    BY <1>1, <2>5, WatchesFinite DEF Lists
  <2> QED
    BY <2>1, <2>2, <2>6 DEF Lists
<1>8. Told'
  <2> SUFFICES ASSUME ~late', NEW c \in Fd!Body, NEW u \in body'[c].drivers, ~body'[c].fd
               PROVE  u \in closes' \/ \E v \in Thread : op'[v].at = "tell" /\ u \in op'[v].who
    BY DEF Told
  <2>1. u \in body[c].drivers /\ ~body[c].fd
    <3>1. CASE c = b /\ u = t
      <4>1. ~body[b].fd
        BY <3>1 DEF Added
      <4>2. rec[t].body = b
        BY <4>1 DEF Added
      <4> QED
        BY <1>1, <3>1, <4>1, <4>2 DEF File
    <3>2. CASE c # b \/ u # t
      BY <3>2 DEF Added
    <3> QED
      BY <3>1, <3>2
  <2>2. u \in closes \/ \E v \in Thread : op[v].at = "tell" /\ u \in op[v].who
    BY <1>1, <2>1 DEF Told
  <2> QED
    BY <1>0, <2>2 DEF Added
<1>9. ASSUME NEW c \in Fd!Body, c # b PROVE Count(c)' /\ File(c)'
  <2>1. body'[c] = body[c] /\ os' = os /\ held' = held
    BY <1>9 DEF Added
  <2>2. \A u \in Thread : rec[u].body = c <=> rec'[u].body = c
    BY <1>2, <1>9, BodyType, <1>1 DEF Added
  <2>3. \A u \in Thread : op'[u] = op[u] \/ ({op[u].at, op'[u].at} \cap {"deref", "subtract"} = {})
    BY <1>0, NoneType DEF Added
  <2> QED
    BY <2>1, <2>2, <2>3, CountFrame, FileFrame DEF FdInv
<1>10. Count(b)'
  <2>1. \A u \in Thread : op'[u] = op[u] \/ ({op[u].at, op'[u].at} \cap {"deref", "subtract"} = {})
    BY <1>0, NoneType DEF Added
  <2> QED
    BY <1>1, <2>1, CountFrame DEF Added
<1>11. File(b)'
  <2>1. \A u \in Thread : u \in body'[b].drivers <=> rec'[u].body = b
    BY <1>1 DEF File, Added
  <2>2. /\ body'[b].state = "live" /\ body'[b].fd = body[b].fd /\ body'[b].base = body[b].base
        /\ os' = os /\ body'[b].drivers # {}
    BY <1>3 DEF Added
  <2> QED
    BY <1>1, <2>1, <2>2 DEF File
<1>12. ASSUME NEW u \in Thread PROVE Operation(u)' /\ Known(u)' /\ Event(u)'
  <2>1. CASE u # t
    <3>1. op[u].at = "deref" => body'[op[u].body].ref = body[op[u].body].ref
      BY DEF FdInv, Operation, Added
    <3>2. Operation(u)'
      BY <2>1, <3>1, OperationFrame DEF FdInv, Added
    <3>3. \A v \in rec[u].list : watch'[v] = watch[v]
      BY <1>1, <1>4, ThreadType DEF Added
    <3>4. Fd!Interest(u)' = Fd!Interest(u)
      BY <2>1, <3>3, InterestFrame DEF Added
    <3> QED
      BY <2>1, <3>2, <3>4, DriverFrame DEF FdInv, Added
  <2>2. CASE u = t
    <3>1. Operation(t)'
      BY NoneType DEF Operation, Added
    <3>2. Known(t)'
      <4>1. Known(t) /\ kern'[t] = kern[t] /\ rec'[t].dirty /\ rec'[t].epoch = rec[t].epoch
            /\ rec'[t].body = b /\ phase'[t] # "wait"
        BY <1>2 DEF FdInv, Added
      <4> QED
        BY <1>1, <1>2, <4>1 DEF Known
    <3>3. Event(t)'
      <4>1. Event(t) /\ batch'[t] = batch[t] /\ rec'[t].epoch = rec[t].epoch
            /\ rec'[t].body = b /\ phase'[t] = phase[t]
        BY DEF FdInv, Added
      <4> QED
        BY <1>1, <1>2, <4>1 DEF Event
    <3> QED
      BY <2>2, <3>1, <3>2, <3>3
  <2> QED
    BY <2>1, <2>2
<1> QED
  BY <1>5, <1>6, <1>7, <1>8, <1>9, <1>10, <1>11, <1>12 DEF FdInv

-----------------------------------------------------------------------------
\* A coroutine that awaited a watch is gone.
LEMMA FdCancelStep ==
  ASSUME FdInv, ~late, NEW t \in Thread, NEW w \in Fd!Watch, Fd!Cancel(t, w)
  PROVE  FdInv'
<1> DEFINE n == [watch[w] EXCEPT !.state = "empty", !.mask = {}]
<1>1. /\ w \in rec[t].list /\ watch' = [watch EXCEPT ![w] = n] /\ watch[w].state = "on"
      /\ UNCHANGED <<os, body, held, op, phase, rec, kern, batch, closes, late>>
  BY DEF Fd!Cancel, Fd!threadVars
<1>2. FdType /\ watch[w] \in WatchrecStates
  BY DEF FdInv, FdType
<1>3. n \in WatchrecStates /\ n.state = "empty" /\ n.body = watch[w].body
  BY <1>2 DEF WatchrecStates
<1> HIDE DEF n
<1>4. /\ watch' \in [Fd!Watch -> WatchrecStates] /\ watch'[w] = n
      /\ \A v \in Fd!Watch : v # w => watch'[v] = watch[v]
  BY <1>1, <1>2, <1>3 DEF FdType
<1>5. FdType'
  BY <1>1, <1>2, <1>4 DEF FdType
<1>6. Owned' /\ Told'
  BY <1>1 DEF FdInv, Owned, Told
<1>7. Lists'
  <2>1. ASSUME NEW u \in Thread PROVE Listed(u)'
    <3>1. rec[u].list \subseteq Fd!Watch
      BY <1>2, ThreadType
    <3> QED
      BY <1>1, <1>3, <1>4, <3>1 DEF FdInv, Lists, Listed
  <2>2. \A v \in Fd!Watch : watch'[v].state = "on" => watch[v].state = "on"
    BY <1>1, <1>4
  <2>3. Watching' = Watching
    BY <1>1 DEF Watching
  <2>4. Unused' = Unused
    BY <1>1, <1>3, <1>4 DEF Unused
  <2> QED
    BY <1>1, <2>1, <2>2, <2>3, <2>4 DEF FdInv, Lists
<1>8. ASSUME NEW c \in Fd!Body PROVE Count(c)' /\ File(c)'
  BY <1>1, CountFrame, FileFrame DEF FdInv
<1>9. ASSUME NEW u \in Thread PROVE Operation(u)' /\ Known(u)' /\ Event(u)'
  <2>1. Operation(u)' /\ Event(u)'
    BY <1>1 DEF FdInv, Operation, Event
  <2>2. \A v \in rec[u].list : watch'[v].state = "on" => watch'[v] = watch[v] /\ watch[v].state = "on"
    <3>1. rec[u].list \subseteq Fd!Watch
      BY <1>2, ThreadType
    <3> QED
      BY <1>1, <1>3, <1>4, <3>1
  <2>3. Fd!Interest(u)' \subseteq Fd!Interest(u)
    BY <1>1, <2>2 DEF Fd!Interest
  <2>4. Known(u)'
    <3>1. Known(u) /\ rec'[u] = rec[u] /\ kern'[u] = kern[u] /\ phase'[u] = phase[u]
      BY <1>1 DEF FdInv
    <3> QED
      BY <2>3, <3>1 DEF Known
  <2> QED
    BY <2>1, <2>4
<1> QED
  BY <1>5, <1>6, <1>7, <1>8, <1>9 DEF FdInv

\* What is waited for is read or written.
LEMMA InterestType ==
  ASSUME FdType, NEW t \in Thread
  PROVE  Fd!Interest(t) \subseteq Fd!Mask
<1>1. \A w \in rec[t].list : watch[w].mask \subseteq Fd!Mask
  BY ThreadType DEF FdType, WatchrecStates
<1> QED
  BY <1>1 DEF Fd!Interest

\* What pop_update() and the kernel notifier make of a driver's record.
Updated(t) ==
  /\ rec' \in [Thread -> RecStates] /\ \A u \in Thread : u # t => rec'[u] = rec[u]
  /\ kern' \in [Thread -> KernStates] /\ \A u \in Thread : u # t => kern'[u] = kern[u]
  /\ rec'[t].body = rec[t].body /\ rec'[t].list = rec[t].list /\ ~rec'[t].dirty
  /\ Fd!Interest(t) \subseteq kern'[t].mask
  /\ kern'[t].mask # {} => /\ kern'[t].epoch = rec'[t].epoch /\ Fd!UserEpoch <= rec'[t].epoch
                           /\ rec[t].body = kern'[t].file /\ rec[t].body # Fd!NoBody

\* The registration is what is waited for, with the epoch that the driver goes on with.
LEMMA UpdateEffect ==
  ASSUME FdInv, ~late, NEW t \in Thread, Fd!Update(t)
  PROVE  Updated(t)
<1> DEFINE I == Fd!Interest(t)
           r == [rec[t] EXCEPT !.dirty = FALSE, !.epoch = Fd!EpochAfter(t)]
           k == Fd!Registration(t)
<1>1. FdType /\ rec[t] \in RecStates /\ kern[t] \in KernStates /\ Known(t) /\ I \subseteq Fd!Mask
      /\ rec[t].epoch \in Nat
  BY ThreadType, InterestType DEF FdInv
<1>2. CASE ~rec[t].dirty
  <2>1. UNCHANGED <<rec, kern>>
    BY <1>2 DEF Fd!Update
  <2> QED
    BY <1>1, <1>2, <2>1 DEF Updated, FdType, Known
<1>3. CASE rec[t].dirty
  <2>1. rec' = [rec EXCEPT ![t] = r] /\ kern' = [kern EXCEPT ![t] = k]
    BY <1>3 DEF Fd!Update
  <2>2. Fd!EpochFor(t) \in Nat /\ (I # {} => Fd!UserEpoch <= Fd!EpochFor(t))
        /\ (Fd!UserEpoch <= rec[t].epoch => Fd!EpochFor(t) = rec[t].epoch)
    BY <1>1 DEF Fd!EpochFor, Fd!UserEpoch
  <2>3. Fd!EpochAfter(t) \in Nat /\ (I # {} => Fd!EpochAfter(t) = Fd!EpochFor(t))
    BY <1>1, <2>2 DEF Fd!EpochAfter
  <2>4. /\ r \in RecStates /\ r.body = rec[t].body /\ r.list = rec[t].list /\ ~r.dirty
        /\ r.epoch = Fd!EpochAfter(t)
    BY <1>1, <2>3 DEF RecStates
  <2>5. I # {} => rec[t].body # Fd!NoBody /\ os = rec[t].body
    <3>1. I # {} => rec[t].list # {}
      BY DEF Fd!Interest
    <3> QED
      BY <3>1 DEF FdInv, Lists, Listed, Owned
  <2>6. /\ k \in KernStates /\ k.mask = I
        /\ k.mask # {} => k.epoch = Fd!EpochFor(t) /\ k.file = rec[t].body
    <3>1. CASE I = kern[t].mask
      <4>1. k = kern[t]
        BY <3>1 DEF Fd!Registration
      <4>2. k.mask # {} => k.epoch = rec[t].epoch /\ Fd!UserEpoch <= rec[t].epoch
                           /\ k.file = rec[t].body
        BY <1>1, <4>1 DEF Known
      <4> QED
        BY <1>1, <2>2, <3>1, <4>1, <4>2
    <3>2. CASE I # kern[t].mask /\ I = {}
      <4>1. k = Fd!Unregistered
        BY <3>2 DEF Fd!Registration
      <4> QED
        BY <3>2, <4>1 DEF Fd!Unregistered, Fd!EmptyEpoch, KernStates, Bodies
    <3>3. CASE I # kern[t].mask /\ I # {}
      <4>1. k = [mask |-> I, epoch |-> Fd!EpochFor(t),
                 file |-> IF kern[t].mask = {} THEN os ELSE kern[t].file]
        BY <3>3 DEF Fd!Registration
      <4>2. k.file = rec[t].body
        BY <1>1, <2>5, <3>3, <4>1 DEF Known
      <4>3. rec[t].body \in Bodies
        BY <1>1, ThreadType
      <4> QED
        BY <1>1, <2>2, <4>1, <4>2, <4>3 DEF KernStates
    <3> QED
      BY <3>1, <3>2, <3>3
  <2> HIDE DEF r, k, I
  <2>7. /\ rec' \in [Thread -> RecStates] /\ rec'[t] = r /\ \A u \in Thread : u # t => rec'[u] = rec[u]
        /\ kern' \in [Thread -> KernStates] /\ kern'[t] = k
        /\ \A u \in Thread : u # t => kern'[u] = kern[u]
    BY <1>1, <2>1, <2>4, <2>6 DEF FdType
  <2>8. Fd!Interest(t) = I
    BY DEF I
  <2> QED
    BY <2>2, <2>3, <2>4, <2>5, <2>6, <2>7, <2>8 DEF Updated
<1> QED
  BY <1>2, <1>3

\* A driver updates the kernel notifier and waits.
LEMMA FdUpdateStep ==
  ASSUME FdInv, ~late, NEW t \in Thread, Fd!Update(t)
  PROVE  FdInv'
<1>1. /\ phase[t] = "run" /\ op[t] = Fd!None /\ phase' = [phase EXCEPT ![t] = "wait"]
      /\ UNCHANGED <<os, body, held, op, watch, batch, closes, late>>
  BY DEF Fd!Update
<1>2. Updated(t) /\ FdType
  BY UpdateEffect DEF FdInv
<1>3. /\ phase' \in [Thread -> {"run", "wait", "batch", "import"}] /\ phase'[t] = "wait"
      /\ \A u \in Thread : u # t => phase'[u] = phase[u]
  BY <1>1, <1>2 DEF FdType
<1>4. \A u \in Thread : rec'[u].body = rec[u].body /\ rec'[u].list = rec[u].list
  BY <1>2 DEF Updated
<1>5. FdType'
  BY <1>1, <1>2, <1>3 DEF FdType, Updated
<1>6. Owned' /\ Told' /\ Lists'
  BY <1>1, <1>4, OwnedFrame, ToldFrame, ListsFrame DEF FdInv
<1>7. ASSUME NEW c \in Fd!Body PROVE Count(c)' /\ File(c)'
  BY <1>1, <1>4, CountFrame, FileFrame DEF FdInv
<1>8. ASSUME NEW u \in Thread PROVE Operation(u)' /\ Known(u)' /\ Event(u)'
  <2>1. Fd!Interest(u)' = Fd!Interest(u)
    BY <1>1, <1>4, InterestFrame
  <2>2. CASE u # t
    <3>1. Operation(u)'
      BY <1>1, <1>3, <2>2, OperationFrame DEF FdInv
    <3>2. rec'[u] = rec[u] /\ kern'[u] = kern[u]
      BY <1>2, <2>2 DEF Updated
    <3> QED
      BY <1>1, <1>3, <2>1, <2>2, <3>1, <3>2, DriverFrame DEF FdInv
  <2>3. CASE u = t
    <3>1. Operation(t)'
      BY <1>1, NoneType DEF Operation
    <3>2. Event(t)'
      BY <1>3 DEF Event
    <3>3. Known(t)'
      BY <1>2, <2>1, <2>3 DEF Known, Updated
    <3> QED
      BY <2>3, <3>1, <3>2, <3>3
  <2> QED
    BY <2>2, <2>3
<1> QED
  BY <1>5, <1>6, <1>7, <1>8 DEF FdInv

\* What epoll_wait may return: nothing, or an event about what was registered.
Waited(t) ==
  /\ batch' \in [Thread -> KernStates] /\ \A u \in Thread : u # t => batch'[u] = batch[u]
  /\ phase' \in [Thread -> {"run", "wait", "batch", "import"}] /\ phase'[t] \in {"batch", "import"}
  /\ \A u \in Thread : u # t => phase'[u] = phase[u]
  /\ phase'[t] = "batch" => kern[t].mask # {} /\ batch'[t].epoch = kern[t].epoch
                            /\ batch'[t].file = kern[t].file

\* epoll_wait returns.
LEMMA FdWaitStep ==
  ASSUME FdInv, NEW t \in Thread, Fd!Wait(t)
  PROVE  FdInv'
<1>1. phase[t] = "wait" /\ UNCHANGED <<os, body, held, op, rec, watch, kern, closes, late>>
  BY DEF Fd!Wait, Fd!driverVars
<1>2. FdType /\ kern[t] \in KernStates /\ batch[t] \in KernStates /\ Known(t) /\ Operation(t)
      /\ op[t] \in OpStates /\ rec[t].epoch \in Nat
  BY ThreadType DEF FdInv
<1>3. op[t].at = "none"
  BY <1>1, <1>2 DEF Operation
<1>4. Waited(t)
  <2>1. CASE phase' = [phase EXCEPT ![t] = "import"] /\ UNCHANGED batch
    BY <1>2, <2>1 DEF FdType, Waited
  <2>2. ASSUME kern[t].mask # {}, NEW m \in Fd!Ready(t),
               batch' = [batch EXCEPT ![t] = [kern[t] EXCEPT !.mask = m]],
               phase' = [phase EXCEPT ![t] = "batch"]
        PROVE  Waited(t)
    <3> DEFINE k == [kern[t] EXCEPT !.mask = m]
    <3>1. m \subseteq Fd!Mask
      BY <1>2 DEF Fd!Ready, KernStates
    <3>2. k \in KernStates /\ k.epoch = kern[t].epoch /\ k.file = kern[t].file
      BY <1>2, <3>1 DEF KernStates
    <3>3. batch' = [batch EXCEPT ![t] = k]
      BY <2>2
    <3> HIDE DEF k
    <3> QED
      BY <1>2, <2>2, <3>2, <3>3 DEF FdType, Waited
  <2> QED
    BY <2>1, <2>2 DEF Fd!Wait
<1>5. FdType'
  BY <1>1, <1>2, <1>4 DEF FdType, Waited
<1>6. Owned' /\ Told' /\ Lists'
  BY <1>1, OwnedFrame, ToldFrame, ListsFrame DEF FdInv
<1>7. ASSUME NEW c \in Fd!Body PROVE Count(c)' /\ File(c)'
  BY <1>1, CountFrame, FileFrame DEF FdInv
<1>8. ASSUME NEW u \in Thread PROVE Operation(u)' /\ Known(u)' /\ Event(u)'
  <2>1. Fd!Interest(u)' = Fd!Interest(u)
    BY <1>1, InterestFrame
  <2>2. CASE u # t
    <3>1. Operation(u)'
      BY <1>1, <1>4, <2>2, OperationFrame DEF FdInv, Waited
    <3> QED
      BY <1>1, <1>4, <2>1, <2>2, <3>1, DriverFrame DEF FdInv, Waited
  <2>3. CASE u = t
    <3>1. Operation(t)'
      BY <1>1, <1>2, <1>3, OperationFrame
    <3>2. Known(t)'
      BY <1>1, <1>2, <1>4, <2>1, <2>3 DEF Known, Waited
    <3>3. Event(t)'
      <4>1. rec' = rec
        BY <1>1
      <4> QED
        BY <1>2, <1>4, <4>1 DEF Event, Known, Waited
    <3> QED
      BY <2>3, <3>1, <3>2, <3>3
  <2> QED
    BY <2>2, <2>3
<1> QED
  BY <1>5, <1>6, <1>7, <1>8 DEF FdInv

\* What an event detaches is in the driver's list.
LEMMA TakenListed ==
  ASSUME NEW t
  PROVE  Fd!Taken(t) \subseteq rec[t].list
BY DEF Fd!Taken

\* An event triggers the watches it is for.
LEMMA FdDispatchStep ==
  ASSUME FdInv, NEW t \in Thread, Fd!Dispatch(t)
  PROVE  FdInv'
<1> PICK T : T = Fd!Taken(t)
  OBVIOUS
<1> DEFINE r == [rec[t] EXCEPT !.list = @ \ T, !.dirty = @ \/ T # {}]
<1>1. /\ phase[t] = "batch" /\ op[t] = Fd!None /\ phase' = [phase EXCEPT ![t] = "import"]
      /\ rec' = [rec EXCEPT ![t] = r]
      /\ watch' = [w \in Fd!Watch |-> IF w \in T THEN Fd!Done ELSE watch[w]]
      /\ batch' = [batch EXCEPT ![t] = Fd!Unregistered]
      /\ UNCHANGED <<os, body, held, op, kern, closes, late>>
  BY DEF Fd!Dispatch
<1>2. FdType /\ rec[t] \in RecStates /\ Known(t) /\ T \subseteq rec[t].list /\ Lists
  BY ThreadType, TakenListed DEF FdInv
<1>3. /\ r \in RecStates /\ r.body = rec[t].body /\ r.list = rec[t].list \ T
      /\ r.epoch = rec[t].epoch /\ (r.dirty <=> rec[t].dirty \/ T # {})
  BY <1>2 DEF RecStates
<1> HIDE DEF r
<1>4. rec' \in [Thread -> RecStates] /\ rec'[t] = r /\ \A u \in Thread : u # t => rec'[u] = rec[u]
  BY <1>1, <1>2, <1>3 DEF FdType
<1>5. Fd!Done \in WatchrecStates /\ Fd!Done.state = "done"
  BY DEF Fd!Done, Fd!NewWatch, WatchrecStates, Bodies
<1>6. /\ watch' \in [Fd!Watch -> WatchrecStates]
      /\ \A w \in Fd!Watch : w \notin T => watch'[w] = watch[w]
      /\ \A w \in Fd!Watch : w \in T => watch'[w] = Fd!Done
  BY <1>1, <1>2, <1>5 DEF FdType
<1>7. /\ phase' \in [Thread -> {"run", "wait", "batch", "import"}] /\ phase'[t] = "import"
      /\ \A u \in Thread : u # t => phase'[u] = phase[u]
      /\ batch' \in [Thread -> KernStates] /\ \A u \in Thread : u # t => batch'[u] = batch[u]
  <2>1. Fd!Unregistered \in KernStates
    BY DEF Fd!Unregistered, Fd!EmptyEpoch, KernStates, Bodies
  <2> QED
    BY <1>1, <1>2, <2>1 DEF FdType
<1>8. \A u \in Thread : rec'[u].body = rec[u].body /\ rec'[u].list = rec[u].list \ T
  <2>1. ASSUME NEW u \in Thread, u # t PROVE rec[u].list \ T = rec[u].list
    BY <1>2, <2>1 DEF Lists, Listed
  <2> QED
    BY <1>3, <1>4, <2>1
<1>9. FdType'
  BY <1>1, <1>2, <1>4, <1>6, <1>7 DEF FdType
<1>10. Owned' /\ Told'
  BY <1>1, <1>8, OwnedFrame, ToldFrame DEF FdInv
<1>11. Lists'
  <2>1. ASSUME NEW u \in Thread PROVE Listed(u)'
    <3>1. rec[u].list \subseteq Fd!Watch /\ Listed(u)
      BY <1>2, ThreadType DEF Lists
    <3> QED
      BY <1>6, <1>8, <3>1 DEF Listed
  <2>2. ASSUME NEW w \in Fd!Watch, watch'[w].state = "on" PROVE \E u \in Thread : w \in rec'[u].list
    <3>1. w \notin T /\ watch[w].state = "on"
      BY <1>5, <1>6, <2>2
    <3> QED
      BY <1>2, <1>8, <3>1 DEF Lists
  <2>3. Watching' = Watching
    BY <1>1 DEF Watching
  <2>4. Unused' = Unused
    <3>1. \A w \in T : watch[w].state # "unused"
      BY <1>2 DEF Lists, Listed
    <3> QED
      BY <1>5, <1>6, <3>1 DEF Unused
  <2> QED
    BY <1>2, <2>1, <2>2, <2>3, <2>4 DEF Lists
<1>12. ASSUME NEW c \in Fd!Body PROVE Count(c)' /\ File(c)'
  BY <1>1, <1>8, CountFrame, FileFrame DEF FdInv
<1>13. ASSUME NEW u \in Thread PROVE Operation(u)' /\ Known(u)' /\ Event(u)'
  <2>1. Operation(u)'
    BY <1>1, <1>7, NoneType, OperationFrame DEF FdInv
  <2>2. CASE u # t
    <3>1. rec[u].list \subseteq Fd!Watch /\ rec[u].list \cap T = {} /\ rec'[u] = rec[u]
      BY <1>2, <1>4, <2>2, ThreadType DEF Lists, Listed
    <3>2. Fd!Interest(u)' = Fd!Interest(u)
      BY <1>6, <3>1, InterestFrame
    <3> QED
      BY <1>1, <1>7, <2>1, <2>2, <3>1, <3>2, DriverFrame DEF FdInv
  <2>3. CASE u = t
    <3>1. Event(t)'
      BY <1>7 DEF Event
    <3>2. \A w \in rec'[t].list : w \in rec[t].list /\ watch'[w] = watch[w]
      <4>1. rec[t].list \subseteq Fd!Watch
        BY <1>2, ThreadType
      <4> QED
        BY <1>6, <1>8, <4>1
    <3>3. Fd!Interest(t)' \subseteq Fd!Interest(t)
      BY <3>2 DEF Fd!Interest
    <3>4. Known(t)'
      <4>1. rec'[t].body = rec[t].body /\ rec'[t].epoch = rec[t].epoch /\ kern'[t] = kern[t]
            /\ (~rec'[t].dirty => ~rec[t].dirty) /\ phase'[t] # "wait"
        BY <1>1, <1>3, <1>4, <1>7
      <4> QED
        BY <1>2, <3>3, <4>1 DEF Known
    <3> QED
      BY <2>1, <2>3, <3>1, <3>4
  <2> QED
    BY <2>2, <2>3
<1> QED
  BY <1>9, <1>10, <1>11, <1>12, <1>13 DEF FdInv

-----------------------------------------------------------------------------
\* FdInv holds at first.
LEMMA FdInitInv ==
  Fd!Init => FdInv
<1> SUFFICES ASSUME Fd!Init PROVE FdInv
  OBVIOUS
<1>1. /\ os = Fd!NoBody /\ body = [b \in Fd!Body |-> Fd!Unborn]
      /\ held = [t \in Thread |-> {}] /\ op = [t \in Thread |-> Fd!None]
      /\ phase = [t \in Thread |-> "run"] /\ rec = [t \in Thread |-> Fd!NewRec]
      /\ watch = [w \in Fd!Watch |-> Fd!NewWatch]
      /\ kern = [t \in Thread |-> Fd!Unregistered] /\ batch = [t \in Thread |-> Fd!Unregistered]
      /\ closes = {} /\ late = FALSE
  BY DEF Fd!Init
<1>2. /\ Fd!Unborn \in BodyStates /\ Fd!Unborn.ref = 0 /\ ~Fd!Unborn.fd /\ ~Fd!Unborn.base
      /\ Fd!Unborn.drivers = {} /\ Fd!Unborn.state = "unborn"
  BY DEF Fd!Unborn, BodyStates
<1>3. /\ Fd!NewRec \in RecStates /\ Fd!NewRec.body = Fd!NoBody /\ Fd!NewRec.list = {}
      /\ Fd!NewWatch \in WatchrecStates /\ Fd!NewWatch.state = "unused"
      /\ Fd!Unregistered \in KernStates /\ Fd!Unregistered.mask = {}
  BY DEF Fd!NewRec, Fd!NewWatch, Fd!Unregistered, Fd!EmptyEpoch, RecStates, WatchrecStates,
         KernStates, Bodies
<1>4. FdType
  BY <1>1, <1>2, <1>3, NoneType DEF FdType, Bodies
<1>5. Owned /\ Told
  BY <1>1, <1>2, <1>3, NoneType DEF Owned, Told
<1>6. Lists
  <2>1. Watching = {} /\ \A t \in Thread : rec[t].list = {}
    BY <1>1, <1>3, NoneType DEF Watching
  <2>2. Cardinality(Watching) <= Cardinality(Unused)
    BY <2>1, WatchesFinite, FS_EmptySet
  <2>3. \A w \in Fd!Watch : watch[w].state # "on"
    BY <1>1, <1>3
  <2> QED
    BY <2>1, <2>2, <2>3 DEF Lists, Listed
<1>7. ASSUME NEW b \in Fd!Body PROVE Count(b) /\ File(b)
  <2>1. Holders(b) = {} /\ Droppers(b) = {}
    BY <1>1, NoneType DEF Holders, Droppers
  <2>2. Count(b)
    BY <1>1, <1>2, <2>1, FS_EmptySet DEF Count
  <2>3. File(b)
    BY <1>1, <1>2, <1>3, <1>4, BodyType DEF File
  <2> QED
    BY <2>2, <2>3
<1>8. ASSUME NEW t \in Thread PROVE Operation(t) /\ Known(t) /\ Event(t)
  <2>1. op[t] = Fd!None /\ phase[t] = "run" /\ rec[t].list = {} /\ kern[t].mask = {}
    BY <1>1, <1>3
  <2>2. Fd!Interest(t) = {}
    BY <2>1 DEF Fd!Interest
  <2> QED
    BY <2>1, <2>2, NoneType DEF Operation, Known, Event
<1> QED
  BY <1>4, <1>5, <1>6, <1>7, <1>8 DEF FdInv

\* Every step keeps it.
LEMMA FdStepInv ==
  FdInv /\ [Fd!Next]_(Fd!vars) => FdInv'
<1> SUFFICES ASSUME FdInv, [Fd!Next]_(Fd!vars) PROVE FdInv'
  OBVIOUS
<1>1. CASE UNCHANGED Fd!vars
  <2>1. UNCHANGED <<os, body, held, op, phase, rec, watch, kern, batch, closes, late>>
    BY <1>1 DEF Fd!vars, Fd!threadVars, Fd!driverVars
  <2>2. FdType' /\ Owned' /\ Told'
    BY <2>1 DEF FdInv, FdType, Owned, Told
  <2>3. Lists' /\ \A b \in Fd!Body : Count(b)' /\ File(b)'
    BY <2>1, ListsFrame, CountFrame, FileFrame DEF FdInv
  <2>4. ASSUME NEW t \in Thread PROVE Operation(t)' /\ Known(t)' /\ Event(t)'
    <3>1. Fd!Interest(t)' = Fd!Interest(t)
      BY <2>1, InterestFrame
    <3>2. Operation(t)'
      BY <2>1 DEF FdInv, Operation
    <3> QED
      BY <2>1, <3>1, <3>2, DriverFrame DEF FdInv
  <2> QED
    BY <2>2, <2>3, <2>4 DEF FdInv
<1>2. ASSUME ~late, NEW t \in Thread, Fd!Operate(t) PROVE FdInv'
  BY <1>2, FdOpenStep, FdDropStep, FdCloseStep, FdFileEventStep, FdCopyStep, FdCancelStep
     DEF Fd!Operate
<1>3. ASSUME ~late, NEW t \in Thread, Fd!Go(t) PROVE FdInv'
  BY <1>3, FdSubtractStep, CloseLockedStep, FdAddWatchStep, FdTellStep, FdUpdateStep,
     FdWaitStep, FdDispatchStep, FdImportStep
     DEF Fd!Go
<1> QED
  BY <1>1, <1>2, <1>3 DEF Fd!Next

-----------------------------------------------------------------------------
\* Nothing reaches a deleted body.
LEMMA DeletedGone ==
  ASSUME FdInv
  PROVE  Fd!DeletedLast
<1> SUFFICES ASSUME NEW b \in Fd!Body, body[b].state = "deleted"
             PROVE  /\ ~body[b].base
                    /\ \A t \in Thread : b \notin held[t] /\ rec[t].body # b
                    /\ \A t \in Thread : op[t].body = b => op[t].at = "none"
  BY DEF Fd!DeletedLast
<1>1. File(b) /\ FdType /\ b # Fd!NoBody
  BY BodyType DEF FdInv
<1>2. \A t \in Thread : t \notin Holders(b) \cup Droppers(b)
  BY Referenced
<1>3. ~body[b].base /\ \A t \in Thread : b \notin held[t] /\ rec[t].body # b
  BY <1>1, <1>2 DEF File, Holders
<1>4. ASSUME NEW t \in Thread, op[t].body = b PROVE op[t].at = "none"
  <2>1. op[t] \in OpStates /\ Operation(t)
    BY <1>1, ThreadType DEF FdInv
  <2>2. op[t].at \in {"none", "deref", "subtract", "close", "tell", "watch"}
    BY <2>1 DEF OpStates
  <2> QED
    BY <1>1, <1>2, <1>3, <1>4, <2>1, <2>2 DEF Operation, Droppers
<1> QED
  BY <1>3, <1>4

\* A closed body is at rest when its drivers have been told.
LEMMA RestClosed ==
  ASSUME FdInv
  PROVE  Fd!ClosedAtRest
<1> SUFFICES ASSUME ~late, closes = {}, \A t \in Thread : op[t] = Fd!None,
                    NEW b \in Fd!Body, ~body[b].fd
             PROVE  os # b /\ \A w \in Fd!Watch : watch[w].body = b => watch[w].state # "on"
  BY DEF Fd!ClosedAtRest
<1>1. File(b) /\ FdType /\ Lists /\ Told
  BY DEF FdInv
<1>2. body[b].drivers = {}
  BY <1>1, NoneType DEF Told
<1>3. os # b
  BY <1>1, <1>2 DEF File
<1>4. ASSUME NEW w \in Fd!Watch, watch[w].body = b, watch[w].state = "on" PROVE FALSE
  <2>1. PICK t \in Thread : w \in rec[t].list
    BY <1>1, <1>4 DEF Lists
  <2>2. rec[t].body = b
    BY <1>1, <1>4, <2>1 DEF Lists, Listed
  <2> QED
    BY <1>1, <1>2, <2>2 DEF File
<1> QED
  BY <1>3, <1>4

\* What FdInv says of events, of registrations and of the kernel.
LEMMA KernelServes ==
  ASSUME FdInv
  PROVE  Fd!RightFile /\ Fd!Registered /\ Fd!KernelClean
<1>1. Fd!RightFile
  <2> SUFFICES ASSUME NEW t \in Thread, phase[t] = "batch", NEW w \in Fd!Taken(t)
               PROVE  watch[w].body = batch[t].file
    BY DEF Fd!RightFile
  <2>1. batch[t].epoch = rec[t].epoch
    <3>1. Fd!UserEpoch <= batch[t].epoch /\ batch[t].epoch \in Nat
      BY ThreadType DEF FdInv, Event, FdType, KernStates
    <3>2. batch[t].epoch # Fd!EmptyEpoch
      BY <3>1 DEF Fd!UserEpoch, Fd!EmptyEpoch
    <3> QED
      BY <3>2 DEF Fd!Taken
  <2>2. rec[t].body = batch[t].file
    BY <2>1 DEF FdInv, Event
  <2> QED
    BY <2>2, TakenListed DEF FdInv, Lists, Listed
<1>2. Fd!Registered
  BY DEF Fd!Registered, FdInv, Known
<1>3. Fd!KernelClean
  <2> SUFFICES ASSUME ~late, NEW t \in Thread
               PROVE  /\ kern[t].mask # {} => os = kern[t].file /\ os = rec[t].body
                      /\ rec[t].body # Fd!NoBody => os = rec[t].body /\ t \in body[os].drivers
                      /\ op[t].at = "watch" => rec[t].body \in {Fd!NoBody, op[t].body} \/ ~body[op[t].body].fd
    BY DEF Fd!KernelClean
  <2>1. kern[t].mask # {} => os = kern[t].file /\ os = rec[t].body
    BY DEF FdInv, Known, Owned
  <2>2. rec[t].body # Fd!NoBody => os = rec[t].body /\ t \in body[os].drivers
    <3>1. rec[t].body \in Fd!Body \cup {Fd!NoBody}
      BY ThreadType DEF FdInv, Bodies
    <3> QED
      BY <3>1 DEF FdInv, Owned, File
  <2>3. op[t].at = "watch" => rec[t].body \in {Fd!NoBody, op[t].body}
    BY DEF FdInv, Owned
  <2> QED
    BY <2>1, <2>2, <2>3
<1> QED
  BY <1>1, <1>2, <1>3

\* Descriptors serve those that wait, whatever the threads do to them.
THEOREM FdServedHolds == Fd!Spec => []FdServed
<1>1. FdInv => FdServed
  BY DeletedGone, RestClosed, KernelServes DEF FdServed
<1> QED
  BY FdInitInv, FdStepInv, <1>1, PTL DEF Fd!Spec
=============================================================================
