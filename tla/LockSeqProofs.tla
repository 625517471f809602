---------------------------- MODULE LockSeqProofs ----------------------------
(***************************************************************************)
(* Theorems about LockSeq, for any set of clients, any length and number   *)
(* of sequences, and any number of lost messages and of early timeouts:    *)
(* the lock is respected, and the database is always one that              *)
(* lockseq_model::check accepts.                                           *)
(***************************************************************************)
EXTENDS LockSeq, SequenceTheorems, TLAPS

Lock == db.map[LockKey]
At(i) == db.map[i].value
Held(c) == Lock = [value |-> MyValue(c), version |-> lockVersion[c]]

\* Request r is a copy of the one that client c wants answered now.
Copy(c, r) == r.client = c /\ r.serial = serial[c]

\* No copy of c's request has been served: it was not sent yet, or once.
Untried(c) == /\ pc[c] \in Phase /\ ~retried[c]
              /\ asking[c] => \E i \in 1 .. Len(inbox) : Copy(c, inbox[i])

\* What the requests on their way say of their clients.  A remove that names the present
\* version of the lock is the unlock that its client waits for.
RequestOK(r) ==
  LET c == r.client
  IN  /\ r.value[1] = c /\ r.serial <= serial[c]
      /\ pc[c] \in Phase /\ Copy(c, r) => r = RequestOf(c) /\ (asking[c] \/ retried[c])
      /\ r.type = "cas" => r.key = LockKey
      /\ r.type = "put" => r.key \in Index
      /\ r.type \in {"cas", "put"} \/ r.key \in Index => r.match = DB!AnyVersion
      /\ r.type = "remove" /\ r.key = LockKey =>
           /\ r.match \in 1 .. (db.next - 1)
           /\ r.match = Lock.version => pc[c] = "unlock" /\ Copy(c, r) /\ r.value = Lock.value
RequestInv == \A i \in 1 .. Len(inbox) : RequestOK(inbox[i])

\* A client's requests are served in the order of their serials.
OrderInv ==
  \A i, j \in 1 .. Len(inbox) :
    i < j /\ inbox[i].client = inbox[j].client => inbox[i].serial <= inbox[j].serial

\* What holds while a first attempt has not been served.
UntriedOK(c) ==
  /\ pc[c] \in Phase /\ ~retried[c] =>
       \A i, j \in 1 .. Len(inbox) : Copy(c, inbox[i]) /\ Copy(c, inbox[j]) => i = j
  /\ Untried(c) => answers[c] = <<>>
  /\ pc[c] = "unlock" /\ Untried(c) => Held(c)
UntriedInv == \A c \in Client : UntriedOK(c)

\* What an answer a tells client c.
Tells(c, a) ==
  /\ pc[c] = "lock" /\ (a.errcode = "ok" \/ a.actual = MyValue(c)) =>
       Lock = [value |-> MyValue(c), version |-> a.version]
  /\ pc[c] = "write" => a.errcode = "ok"
  /\ pc[c] = "clear" => a.errcode \in {"ok", "not_found"}
  /\ pc[c] = "unlock" /\ ~retried[c] => a.errcode = "ok"

\* Once a client is answered, none of its earlier requests is on its way.
AnswerOK(c) ==
  /\ pc[c] \notin Phase => ~asking[c] /\ answers[c] = <<>>
  /\ answers[c] # <<>> =>
       /\ asking[c] \/ retried[c]
       /\ \A i \in 1 .. Len(inbox) : inbox[i].client = c => inbox[i].serial = serial[c]
       /\ pc[c] = "unlock" => Lock.version # lockVersion[c]
  /\ \A i \in 1 .. Len(answers[c]) : Tells(c, answers[c][i])
AnswerInv == \A c \in Client : AnswerOK(c)

LockInv ==
  /\ Lock.version < db.next
  /\ \A c \in Client :
       /\ pc[c] \in {"write", "clear", "unlock"} => lockVersion[c] \in 1 .. (db.next - 1)
       /\ pc[c] \in {"write", "clear"} => Held(c)
       /\ pc[c] = "unlock" /\ Lock.version = lockVersion[c] => Held(c)
  /\ \A i \in 1 .. Len(inbox) : inbox[i].key # LockKey => Lock.value = inbox[i].value

Respected == /\ TypeOK /\ RequestInv /\ OrderInv /\ UntriedInv /\ AnswerInv /\ LockInv

-----------------------------------------------------------------------------
\* The keys of the values are not the key of the lock.
LEMMA Keys == /\ LockKey \notin Index /\ Index \subseteq Nat
              /\ DB!AnyVersion \notin Nat /\ DB!AnyVersion = -1 /\ LockKey = -1
BY LockSeqAssumption DEF LockKey, Index, DB!AnyVersion

\* Values are values of some client's sequence, and the empty string is none.
LEMMA Values ==
  /\ Empty \notin Value
  /\ \A v \in Value : v[1] \in Client /\ v[2] \in 1 .. MaxSequences
  /\ \A c \in Client, s \in 1 .. MaxSequences : <<c, s>> \in Value
BY EmptyIsNoValue DEF Value

\* What is assumed of the bounds.
LEMMA Bounds == /\ MaxLength \in Nat \ {0} /\ MaxSequences \in Nat \ {0}
                /\ MaxLosses \in Nat /\ MaxEarly \in Nat /\ Client # {}
BY LockSeqAssumption

\* The value of a client's present sequence.
LEMMA MyValueType ==
  ASSUME TypeOK, NEW c \in Client, pc[c] # "idle"
  PROVE  MyValue(c) \in Value /\ MyValue(c)[1] = c /\ MyValue(c) # Empty
<1>1. sequence[c] \in 1 .. MaxSequences
  <2>1. sequence[c] \in 0 .. begun /\ sequence[c] > 0 /\ begun \in 0 .. MaxSequences
    BY DEF TypeOK
  <2> QED
    BY <2>1, Bounds
<1>2. MyValue(c) = <<c, sequence[c]>>
  BY DEF MyValue
<1>3. <<c, sequence[c]>> \in Value
  BY <1>1 DEF Value
<1> QED
  BY <1>2, <1>3, Values

\* What is left of a sequence without its first element.
LEMMA Popped ==
  ASSUME NEW S, NEW s \in Seq(S), s # <<>>
  PROVE  /\ Len(s) \in Nat /\ Len(s) > 0 /\ s[1] \in S /\ 1 \in 1 .. Len(s)
         /\ RemoveAt(s, 1) \in Seq(S) /\ Len(RemoveAt(s, 1)) = Len(s) - 1
         /\ \A i \in 1 .. Len(s) - 1 : RemoveAt(s, 1)[i] = s[i + 1]
<1>1. Len(s) \in Nat /\ Len(s) > 0 /\ s[1] \in S /\ 1 \in 1 .. Len(s)
  OBVIOUS
<1>2. /\ SubSeq(s, 1, 0) = <<>> /\ SubSeq(s, 2, Len(s)) \in Seq(S)
      /\ Len(SubSeq(s, 2, Len(s))) = Len(s) - 1
      /\ \A i \in 1 .. Len(s) - 1 : SubSeq(s, 2, Len(s))[i] = s[i + 1]
  <2>1. \A i \in 2 .. Len(s) : s[i] \in S
    BY <1>1
  <2>2. SubSeq(s, 1, 0) = <<>>
    BY SubSeqEmpty
  <2>3. /\ SubSeq(s, 2, Len(s)) \in Seq(S)
        /\ Len(SubSeq(s, 2, Len(s))) = IF 2 <= Len(s) THEN Len(s) - 2 + 1 ELSE 0
        /\ \A i \in 1 .. Len(s) - 2 + 1 : SubSeq(s, 2, Len(s))[i] = s[2 + i - 1]
    BY <1>1, <2>1, SubSeqProperties
  <2>4. Len(SubSeq(s, 2, Len(s))) = Len(s) - 1
    <3> DEFINE k == Len(s)
               x == Len(SubSeq(s, 2, Len(s)))
    <3>1. k \in Nat /\ k > 0 /\ x = IF 2 <= k THEN k - 2 + 1 ELSE 0
      BY <1>1, <2>3
    <3> HIDE DEF k, x
    <3>2. x = k - 1
      BY <3>1
    <3> QED
      BY <3>2 DEF k, x
  <2>5. \A i \in 1 .. Len(s) - 1 : i \in 1 .. Len(s) - 2 + 1 /\ 2 + i - 1 = i + 1
    BY <1>1
  <2> QED
    BY <2>2, <2>3, <2>4, <2>5
<1>3. RemoveAt(s, 1) = SubSeq(s, 2, Len(s))
  <2>1. RemoveAt(s, 1) = SubSeq(s, 1, 1 - 1) \o SubSeq(s, 1 + 1, Len(s))
    BY DEF RemoveAt
  <2>2. RemoveAt(s, 1) = <<>> \o SubSeq(s, 2, Len(s))
    BY <1>2, <2>1
  <2> QED
    BY <1>2, <2>2, ConcatEmptySeq
<1> HIDE DEF RemoveAt
<1> QED
  BY <1>1, <1>2, <1>3, Zenon

\* What a client asks for in each phase.
LEMMA RequestType ==
  ASSUME TypeOK, NEW c \in Client, pc[c] \in Phase
  PROVE  /\ RequestOf(c) \in Sent
         /\ RequestOf(c).client = c /\ RequestOf(c).serial = serial[c]
         /\ RequestOf(c).value = MyValue(c)
         /\ pc[c] = "lock" => /\ RequestOf(c).type = "cas" /\ RequestOf(c).key = LockKey
                              /\ RequestOf(c).expected = Empty
         /\ pc[c] = "write" => RequestOf(c).type = "put" /\ RequestOf(c).key = n[c]
         /\ pc[c] = "clear" => RequestOf(c).type = "remove" /\ RequestOf(c).key = n[c]
         /\ pc[c] = "unlock" => /\ RequestOf(c).type = "remove" /\ RequestOf(c).key = LockKey
                                /\ RequestOf(c).match = lockVersion[c]
         /\ pc[c] # "unlock" => RequestOf(c).match = DB!AnyVersion
<1>1. pc[c] # "idle" /\ MyValue(c) \in Value
  BY MyValueType DEF Phase
<1>2. lockVersion[c] \in Nat /\ serial[c] \in Nat
      /\ (pc[c] \in {"write", "clear"} => n[c] \in Index)
  BY DEF TypeOK
<1>3. CASE pc[c] = "lock"
  BY <1>1, <1>2, <1>3 DEF RequestOf, Ask, Sent
<1>4. CASE pc[c] = "write"
  BY <1>1, <1>2, <1>4 DEF RequestOf, Ask, Sent
<1>5. CASE pc[c] = "clear"
  BY <1>1, <1>2, <1>5 DEF RequestOf, Ask, Sent
<1>6. CASE pc[c] = "unlock"
  BY <1>1, <1>2, <1>6 DEF RequestOf, Ask, Sent, UnlockMatch
<1> QED
  BY <1>3, <1>4, <1>5, <1>6 DEF Phase

\* A request depends on its client's state only.
LEMMA SameRequest ==
  ASSUME NEW c \in Client, pc[c] \in Phase, pc'[c] = pc[c], n'[c] = n[c], serial'[c] = serial[c],
         MyValue(c)' = MyValue(c), lockVersion'[c] = lockVersion[c]
  PROVE  RequestOf(c)' = RequestOf(c)
<1>1. CASE pc[c] = "lock"
  BY <1>1 DEF RequestOf, Ask
<1>2. CASE pc[c] = "write"
  BY <1>2 DEF RequestOf, Ask
<1>3. CASE pc[c] = "clear"
  BY <1>3 DEF RequestOf, Ask
<1>4. CASE pc[c] = "unlock"
  BY <1>4 DEF RequestOf, Ask, UnlockMatch
<1> QED
  BY <1>1, <1>2, <1>3, <1>4 DEF Phase

\* The type of the requests on their way.
LEMMA InboxType ==
  ASSUME TypeOK
  PROVE  /\ inbox \in Seq(Sent) /\ Len(inbox) \in Nat
         /\ \A i \in 1 .. Len(inbox) : /\ inbox[i] \in Sent /\ inbox[i].client \in Client
                                       /\ inbox[i].serial \in Nat
                                       /\ inbox[i].value \in Value
                                       /\ inbox[i].key \in Index \cup {LockKey}
                                       /\ inbox[i].type \in {"cas", "put", "remove"}
<1>1. inbox \in Seq(Sent)
  BY DEF TypeOK
<1>2. Len(inbox) \in Nat /\ \A i \in 1 .. Len(inbox) : inbox[i] \in Sent
  BY <1>1
<1> QED
  BY <1>1, <1>2 DEF Sent

-----------------------------------------------------------------------------
\* The four things the server can do with a request, for a database of the right type.
Nothing(r) == /\ db' = db
              /\ r.type # "put"
              /\ r.type = "cas" => Lock.value # Empty
              /\ r.type = "remove" /\ r.key # LockKey => At(r.key) = Empty
              /\ r.type = "remove" /\ r.key = LockKey => r.match # Lock.version
Stores(r) == /\ r.type \in {"put", "cas"}
             /\ r.type = "cas" => Lock.value = Empty
             /\ db'.next = db.next + 1
             /\ db'.map = [db.map EXCEPT ![r.key] = [value |-> r.value, version |-> db.next]]
Erases(r) == /\ r.type = "remove"
             /\ r.key = LockKey => r.match = Lock.version
             /\ At(r.key) # Empty
             /\ db'.next = db.next + 1
             /\ db'.map = [db.map EXCEPT ![r.key] = [value |-> Empty, version |-> 0]]

\* The answer to a request.
AnswerTo(r) ==
  LET a == DB!Response(db, r)
  IN  /\ a \in Answered
      /\ Stores(r) => a.errcode = "ok" /\ a.version = db.next /\ a.actual = Empty
      /\ Erases(r) => a.errcode = "ok" /\ a.actual = Empty
      /\ Nothing(r) /\ r.type = "cas" => /\ a.errcode = "no_match" /\ a.actual = Lock.value
                                         /\ a.version = Lock.version
      /\ Nothing(r) /\ r.type = "remove" /\ r.key # LockKey => a.errcode = "not_found"

\* An absent key has the version 0 and the empty value, and only an absent key has.
LEMMA Absence ==
  ASSUME TypeOK, NEW k \in Index \cup {LockKey}
  PROVE  /\ db.map[k] = [value |-> db.map[k].value, version |-> db.map[k].version]
         /\ db.map[k].version \in Nat /\ db.map[k].value \in Value \cup {Empty}
         /\ DB!Present(db, k) <=> db.map[k].value # Empty
         /\ db.map[k].version = 0 <=> db.map[k].value = Empty
<1>1. db.map[k] \in DB!VV
  BY DEF TypeOK
<1>2. CASE db.map[k] \in [value : Value, version : Nat \ {0}]
  BY <1>2, Values DEF DB!Present
<1>3. CASE db.map[k] = DB!NonexistentVV
  BY <1>3 DEF DB!Present, DB!NonexistentVV
<1> QED
  BY <1>1, <1>2, <1>3 DEF DB!VV

\* What erasing a key leaves.
LEMMA Erased ==
  ASSUME TypeOK, NEW k \in Index \cup {LockKey}
  PROVE  DB!Erase(db, k) = [next |-> db.next + 1,
           map |-> [db.map EXCEPT ![k] = [value |-> Empty, version |-> 0]], removes |-> <<>>]
<1> DEFINE x == [key |-> k, vv |-> db.map[k], version |-> db.next]
<1>1. db.removes = <<>>
  BY DEF TypeOK
<1>2. <<x>> \o <<>> = <<x>> /\ Len(<<x>>) = 1 /\ SubSeq(<<x>>, 1, 0) = <<>>
  OBVIOUS
<1>3. DB!Kept(<<x>> \o db.removes) = <<>>
  BY <1>1, <1>2 DEF DB!Kept
<1> QED
  BY <1>3 DEF DB!Erase, DB!NonexistentVV

\* What storing a value leaves.
LEMMA Stored ==
  ASSUME TypeOK, NEW k \in Index \cup {LockKey}, NEW v \in Value
  PROVE  DB!Store(db, k, v) = [next |-> db.next + 1,
           map |-> [db.map EXCEPT ![k] = [value |-> v, version |-> db.next]], removes |-> <<>>]
BY DEF DB!Store, TypeOK

\* The server's step: it takes the first request, and does one of those things with it.
LEMMA ServeEffect ==
  ASSUME TypeOK, RequestInv, Serve
  PROVE  LET r == inbox[1]
             c == r.client
         IN  /\ inbox # <<>> /\ r \in Sent /\ c \in Client /\ RequestOK(r)
             /\ inbox' \in Seq(Sent) /\ Len(inbox') = Len(inbox) - 1
             /\ \A i \in 1 .. Len(inbox') : inbox'[i] = inbox[i + 1] /\ i + 1 \in 1 .. Len(inbox)
             /\ db' \in [next : Nat \ {0}, map : [Index \cup {LockKey} -> DB!VV], removes : {<<>>}]
             /\ Nothing(r) \/ Stores(r) \/ Erases(r)
             /\ AnswerTo(r)
             /\ \/ answers' = answers
                \/ /\ Copy(c, r) /\ pc[c] \in Phase
                   /\ answers' = [answers EXCEPT ![c] = Append(@, DB!Response(db, r))]
             /\ UNCHANGED <<clientVars, begun, early>>
             /\ losses' \in 0 .. MaxLosses
<1> DEFINE r == inbox[1]
           c == r.client
<1>1. inbox # <<>> /\ First(inbox) = 1 /\ inbox \in Seq(Sent)
  BY DEF Serve, First, TypeOK
<1>2. /\ Len(inbox) \in Nat /\ Len(inbox) > 0 /\ r \in Sent /\ 1 \in 1 .. Len(inbox)
      /\ RemoveAt(inbox, 1) \in Seq(Sent) /\ Len(RemoveAt(inbox, 1)) = Len(inbox) - 1
      /\ \A i \in 1 .. Len(inbox) - 1 : RemoveAt(inbox, 1)[i] = inbox[i + 1]
  BY <1>1, Popped, Zenon
<1>3. c \in Client /\ RequestOK(r)
  BY <1>2 DEF Sent, RequestInv
<1>4. inbox' = RemoveAt(inbox, 1) /\ db' = DB!After(db, r)
  BY <1>1 DEF Serve
<1>5. \A i \in 1 .. Len(inbox') : inbox'[i] = inbox[i + 1] /\ i + 1 \in 1 .. Len(inbox)
  BY <1>2, <1>4
<1>6. /\ r.key \in Index \cup {LockKey} /\ r.value \in Value
      /\ r.type \in {"cas", "put", "remove"} /\ r.expected = Empty
      /\ r.match \in Nat \cup {DB!AnyVersion}
  BY <1>2 DEF Sent
<1>7. db.next \in Nat \ {0} /\ db.map \in [Index \cup {LockKey} -> DB!VV]
  BY DEF TypeOK
<1>8. /\ db.map[r.key].version \in Nat
      /\ DB!Present(db, r.key) <=> db.map[r.key].value # Empty
      /\ db.map[r.key].version = 0 <=> db.map[r.key].value = Empty
      /\ db.map[r.key].value \in Value \cup {Empty}
  BY <1>6, Absence
<1>9. Empty \notin Value /\ LockKey \notin Index /\ DB!AnyVersion = -1 /\ -1 \notin Nat
  BY Values, Keys
<1> DEFINE a == DB!Response(db, r)
           Result == (Nothing(r) \/ Stores(r) \/ Erases(r)) /\ AnswerTo(r)
           Right == db' \in [next : Nat \ {0}, map : [Index \cup {LockKey} -> DB!VV], removes : {<<>>}]
<1> HIDE DEF r
\* A request that the server accepts, and one that stores a value.
<1>10. ASSUME DB!Accepted(db, r), r.type \in {"put", "cas"}
       PROVE  /\ db' = [next |-> db.next + 1, removes |-> <<>>,
                        map |-> [db.map EXCEPT ![r.key] = [value |-> r.value, version |-> db.next]]]
              /\ a = [errcode |-> "ok", actual |-> Empty, version |-> db.next]
              /\ Right
  <2>1. db' = DB!Store(db, r.key, r.value) /\ DB!After(db, r) = db'
    BY <1>4, <1>10 DEF DB!After
  <2>2. db' = [next |-> db.next + 1, removes |-> <<>>,
               map |-> [db.map EXCEPT ![r.key] = [value |-> r.value, version |-> db.next]]]
    BY <1>6, <2>1, Stored
  <2>3. DB!Errcode(db, r) = "ok"
    BY <1>10 DEF DB!Errcode
  <2>4. db'.map[r.key].version = db.next
    BY <1>6, <1>7, <2>2
  <2>5. a = [errcode |-> "ok", actual |-> Empty, version |-> db.next]
    BY <1>10, <2>1, <2>3, <2>4 DEF DB!Response
  <2>6. [value |-> r.value, version |-> db.next] \in DB!VV
    BY <1>6, <1>7 DEF DB!VV
  <2>7. Right
    <3>1. db'.map \in [Index \cup {LockKey} -> DB!VV]
      BY <1>7, <2>2, <2>6
    <3> QED
      BY <1>7, <2>2, <3>1
  <2> QED
    BY <2>2, <2>5, <2>7
\* One that removes a key.
<1>11. ASSUME DB!Accepted(db, r), r.type = "remove"
       PROVE  /\ db' = [next |-> db.next + 1, removes |-> <<>>,
                        map |-> [db.map EXCEPT ![r.key] = [value |-> Empty, version |-> 0]]]
              /\ a = [errcode |-> "ok", actual |-> Empty, version |-> 0]
              /\ Right
  <2>1. db' = DB!Erase(db, r.key) /\ DB!After(db, r) = db'
    BY <1>4, <1>11 DEF DB!After
  <2>2. db' = [next |-> db.next + 1, removes |-> <<>>,
               map |-> [db.map EXCEPT ![r.key] = [value |-> Empty, version |-> 0]]]
    BY <1>6, <2>1, Erased
  <2>3. DB!Errcode(db, r) = "ok"
    BY <1>11 DEF DB!Errcode
  <2>4. db'.map[r.key].version = 0
    BY <1>6, <1>7, <2>2
  <2>5. a = [errcode |-> "ok", actual |-> Empty, version |-> 0]
    BY <1>11, <2>1, <2>3, <2>4 DEF DB!Response
  <2>6. [value |-> Empty, version |-> 0] \in DB!VV
    BY DEF DB!VV, DB!NonexistentVV
  <2>7. Right
    <3>1. db'.map \in [Index \cup {LockKey} -> DB!VV]
      BY <1>7, <2>2, <2>6
    <3> QED
      BY <1>7, <2>2, <3>1
  <2> QED
    BY <2>2, <2>5, <2>7
\* One that it does not accept.
<1>12. ASSUME ~DB!Accepted(db, r)
       PROVE  /\ db' = db /\ Right
              /\ a.version = db.map[r.key].version
              /\ a = [errcode |-> a.errcode, actual |-> a.actual, version |-> a.version]
              /\ a.errcode = DB!Errcode(db, r)
              /\ a.actual = IF DB!Errcode(db, r) = "no_match" THEN db.map[r.key].value ELSE Empty
  <2>1. db' = db /\ DB!After(db, r) = db
    BY <1>4, <1>12 DEF DB!After
  <2> QED
    BY <1>6, <2>1 DEF DB!Response, TypeOK
<1>13. ASSUME r.type = "put" PROVE Result /\ Right
  <2>1. r.key # LockKey /\ r.match = DB!AnyVersion
    BY <1>3, <1>9, <1>13 DEF RequestOK
  <2>2. DB!Accepted(db, r)
    BY <1>9, <1>13, <2>1 DEF DB!Accepted, DB!Matches
  <2>3. Stores(r) /\ ~Nothing(r) /\ ~Erases(r)
    BY <1>10, <1>13, <2>2 DEF Stores, Nothing, Erases
  <2>4. AnswerTo(r)
    BY <1>7, <1>10, <1>13, <2>2, <2>3 DEF AnswerTo, Answered
  <2> QED
    BY <1>10, <1>13, <2>2, <2>3, <2>4
<1>14. ASSUME r.type = "cas" /\ Lock.value = Empty PROVE Result /\ Right
  <2>1. r.key = LockKey /\ r.match = DB!AnyVersion
    BY <1>3, <1>14 DEF RequestOK
  <2>2. DB!Accepted(db, r)
    BY <1>6, <1>9, <1>14, <2>1 DEF DB!Accepted, DB!Matches, Lock
  <2>3. Stores(r) /\ ~Nothing(r) /\ ~Erases(r)
    BY <1>10, <1>14, <2>2 DEF Stores, Nothing, Erases
  <2>4. AnswerTo(r)
    BY <1>7, <1>10, <1>14, <2>2, <2>3 DEF AnswerTo, Answered
  <2> QED
    BY <1>10, <1>14, <2>2, <2>3, <2>4
<1>15. ASSUME r.type = "cas" /\ Lock.value # Empty PROVE Result /\ Right
  <2>1. r.key = LockKey
    BY <1>3, <1>15 DEF RequestOK
  <2>2. ~DB!Accepted(db, r)
    BY <1>6, <1>15, <2>1 DEF DB!Accepted, DB!Matches, Lock
  <2>3. DB!Errcode(db, r) = "no_match"
    BY <1>15, <2>2 DEF DB!Errcode
  <2>4. Nothing(r) /\ ~Stores(r) /\ ~Erases(r)
    BY <1>12, <1>15, <2>2 DEF Nothing, Stores, Erases
  <2>5. AnswerTo(r)
    BY <1>6, <1>8, <1>12, <1>15, <2>1, <2>2, <2>3, <2>4 DEF AnswerTo, Answered, Lock
  <2> QED
    BY <1>12, <2>2, <2>4, <2>5
<1>16. ASSUME r.type = "remove" /\ DB!Accepted(db, r) PROVE Result /\ Right
  <2>1. DB!Present(db, r.key) /\ (r.match >= 0 => r.match = db.map[r.key].version)
    BY <1>16 DEF DB!Accepted, DB!Matches
  <2>2. r.key = LockKey => r.match = Lock.version
    <3>1. r.key = LockKey => r.match \in 1 .. (db.next - 1)
      BY <1>3, <1>16 DEF RequestOK
    <3> QED
      BY <1>7, <2>1, <3>1 DEF Lock
  <2>3. Erases(r) /\ ~Stores(r)
    BY <1>8, <1>11, <1>16, <2>1, <2>2 DEF Stores, Erases, At
  <2>4. ~Nothing(r)
    BY <1>8, <1>16, <2>1, <2>2 DEF Nothing, At
  <2>5. AnswerTo(r)
    BY <1>11, <1>16, <2>3, <2>4 DEF AnswerTo, Answered
  <2> QED
    BY <1>11, <1>16, <2>3, <2>5
<1>17. ASSUME r.type = "remove" /\ ~DB!Accepted(db, r) PROVE Result /\ Right
  <2>1. ~DB!Present(db, r.key) \/ ~DB!Matches(db, r)
    BY <1>17 DEF DB!Accepted
  <2>2. r.key # LockKey => ~DB!Present(db, r.key)
    <3>1. r.key # LockKey => r.match = -1
      BY <1>3, <1>6, <1>9 DEF RequestOK
    <3> QED
      BY <1>17, <2>1, <3>1 DEF DB!Matches
  <2>3. r.key = LockKey => r.match # Lock.version
    <3>1. r.key = LockKey => r.match \in 1 .. (db.next - 1)
      BY <1>3, <1>17 DEF RequestOK
    <3>2. r.key = LockKey /\ r.match = Lock.version => DB!Present(db, r.key) /\ DB!Matches(db, r)
      BY <1>7, <1>17, <3>1 DEF DB!Present, DB!Matches, Lock
    <3> QED
      BY <2>1, <3>2
  <2>4. Nothing(r) /\ ~Stores(r)
    BY <1>8, <1>12, <1>17, <2>2, <2>3 DEF Nothing, Stores, At
  <2>5. ~Erases(r)
    BY <1>8, <1>17, <2>2, <2>3 DEF Erases, At
  <2>6. DB!Errcode(db, r) \in {"no_match", "not_found"}
        /\ (r.key # LockKey => DB!Errcode(db, r) = "not_found")
    BY <1>17, <2>2 DEF DB!Errcode
  <2>7. AnswerTo(r)
    BY <1>8, <1>12, <1>17, <2>4, <2>5, <2>6 DEF AnswerTo, Answered
  <2> QED
    BY <1>12, <1>17, <2>4, <2>7
<1>18. Result /\ Right
  BY <1>6, <1>13, <1>14, <1>15, <1>16, <1>17
<1>19. \/ answers' = answers
       \/ /\ Copy(c, r) /\ pc[c] \in Phase
          /\ answers' = [answers EXCEPT ![c] = Append(@, a)]
  BY <1>1 DEF Serve, Copy, r
<1>20. UNCHANGED <<clientVars, begun, early>> /\ losses' \in 0 .. MaxLosses
  <2>1. losses \in 0 .. MaxLosses /\ MaxLosses \in Nat
    BY Bounds DEF TypeOK
  <2>2. Keep \/ Lose
    BY Zenon DEF Serve
  <2> QED
    BY <2>1, <2>2 DEF Serve, Keep, Lose
<1> QED
  BY <1>1, <1>2, <1>3, <1>4, <1>5, <1>18, <1>19, <1>20 DEF r

-----------------------------------------------------------------------------
\* Client c goes on to phase p, and where each phase may lead.
Moves(c, p, m) ==
  /\ GoOn(c, p, m)
  /\ \/ /\ pc[c] = "lock" /\ p = "write" /\ m = 0
        /\ LET a == answers[c][1]
           IN  /\ a.errcode = "ok" \/ a.actual = MyValue(c)
               /\ lockVersion' = [lockVersion EXCEPT ![c] = a.version]
     \/ /\ pc[c] # "lock" /\ UNCHANGED lockVersion
        /\ \/ /\ pc[c] = "write" /\ m = n[c] + 1
              /\ \/ p = "write" /\ m < nvalues[c]
                 \/ p = "clear" /\ m >= nvalues[c] /\ m < MaxLength
                 \/ p = "unlock" /\ m >= nvalues[c] /\ m >= MaxLength
           \/ /\ pc[c] = "clear" /\ m = n[c] + 1
              /\ \/ p = "clear" /\ m < MaxLength
                 \/ p = "unlock" /\ m >= MaxLength
           \/ /\ pc[c] = "clear" /\ m = n[c] /\ p = "unlock"
              /\ ~retried[c] /\ answers[c][1].errcode = "not_found"
           \/ pc[c] = "unlock" /\ p = "idle" /\ m = 0

\* Client c, which finds its own earlier value in the lock, will ask again.
AsksAgain(c) ==
  /\ pc[c] = "lock"
  /\ asking' = [asking EXCEPT ![c] = FALSE] /\ retried' = [retried EXCEPT ![c] = TRUE]
  /\ answers' = [answers EXCEPT ![c] = Tail(@)]
  /\ UNCHANGED <<pc, serial, n, lockVersion>>

\* What a client does with an answer: only one that asks for the lock gives up.
LEMMA AnswerCases ==
  ASSUME TypeOK, AnswerInv, NEW c \in Client, Answer(c)
  PROVE  /\ asking[c] /\ answers[c] # <<>> /\ pc[c] \in Phase
         /\ Len(answers[c]) \in Nat /\ 1 \in 1 .. Len(answers[c])
         /\ answers[c][1] \in Answered /\ Tells(c, answers[c][1])
         /\ UNCHANGED <<sequence, nvalues, inbox, db, begun, losses, early>>
         /\ \/ \E p \in Phase \cup {"idle"}, m \in 0 .. MaxLength : Moves(c, p, m)
            \/ pc[c] = "lock" /\ Throw(c)
            \/ AsksAgain(c)
<1> DEFINE a == Head(answers[c])
           Moved == \E p \in Phase \cup {"idle"}, m \in 0 .. MaxLength : Moves(c, p, m)
<1>1. asking[c] /\ answers[c] # <<>> /\ answers[c] \in Seq(Answered)
      /\ UNCHANGED <<sequence, nvalues, inbox, db, begun, losses, early>>
  BY DEF Answer, TypeOK
<1>2. /\ Len(answers[c]) \in Nat /\ 1 \in 1 .. Len(answers[c])
      /\ answers[c][1] \in Answered /\ a = answers[c][1]
  BY <1>1
<1>3. Tells(c, a)
  BY <1>2 DEF AnswerInv, AnswerOK
<1>4. /\ n[c] \in 0 .. MaxLength /\ nvalues[c] \in 0 .. MaxLength /\ MaxLength \in Nat \ {0}
      /\ pc[c] \in {"write", "clear"} => n[c] + 1 \in 0 .. MaxLength
  <2>1. /\ n[c] \in 0 .. MaxLength /\ nvalues[c] \in 0 .. MaxLength
        /\ pc[c] \in {"write", "clear"} => n[c] \in Index
    BY DEF TypeOK
  <2>2. MaxLength \in Nat \ {0} /\ Index = 0 .. (MaxLength - 1)
    BY Bounds DEF Index
  <2> QED
    BY <2>1, <2>2
<1>5. CASE pc[c] = "lock" /\ LockAnswer(c, a)
  <2>1. CASE a.errcode = "ok" \/ MineAlready(c, a)
    <3>1. GoOn(c, "write", 0) /\ lockVersion' = [lockVersion EXCEPT ![c] = a.version]
      BY <1>5, <2>1 DEF LockAnswer
    <3>2. Moves(c, "write", 0)
      BY <1>2, <1>5, <2>1, <3>1 DEF Moves, MineAlready
    <3> QED
      BY <1>1, <1>2, <1>3, <1>4, <1>5, <3>2 DEF Phase
  <2>2. CASE ~(a.errcode = "ok" \/ MineAlready(c, a)) /\ ~WaitingForSelf(c, a)
    BY <1>1, <1>2, <1>3, <1>5, <2>2 DEF LockAnswer, Phase
  <2>3. CASE ~(a.errcode = "ok" \/ MineAlready(c, a)) /\ WaitingForSelf(c, a)
    BY <1>1, <1>2, <1>3, <1>5, <2>3 DEF LockAnswer, AsksAgain, Phase
  <2> QED
    BY <2>1, <2>2, <2>3
<1>6. CASE pc[c] = "write" /\ WriteAnswer(c, a)
  <2>1. a.errcode = "ok"
    BY <1>3, <1>6 DEF Tells
  <2>2. PICK p \in {"write", "clear", "unlock"} :
          /\ GoOn(c, p, n[c] + 1) /\ UNCHANGED lockVersion
          /\ \/ p = "write" /\ n[c] + 1 < nvalues[c]
             \/ p = "clear" /\ ~(n[c] + 1 < nvalues[c]) /\ n[c] + 1 < MaxLength
             \/ p = "unlock" /\ ~(n[c] + 1 < nvalues[c]) /\ ~(n[c] + 1 < MaxLength)
    BY <1>6, <2>1 DEF WriteAnswer, MoreToClear
  <2>3. Moves(c, p, n[c] + 1)
    BY <1>4, <1>6, <2>2 DEF Moves
  <2> QED
    BY <1>1, <1>2, <1>3, <1>4, <1>6, <2>3 DEF Phase
<1>7. CASE pc[c] = "clear" /\ ClearAnswer(c, a)
  <2>1. a.errcode \in {"ok", "not_found"}
    BY <1>3, <1>7 DEF Tells
  <2>2. CASE a.errcode = "not_found" /\ StopsAtAbsent(c)
    <3>1. Moves(c, "unlock", n[c])
      BY <1>2, <1>7, <2>1, <2>2 DEF ClearAnswer, StopsAtAbsent, Moves
    <3> QED
      BY <1>1, <1>2, <1>3, <1>4, <1>7, <3>1 DEF Phase
  <2>3. CASE ~(a.errcode = "not_found" /\ StopsAtAbsent(c))
    <3>1. PICK p \in {"clear", "unlock"} :
            /\ GoOn(c, p, n[c] + 1) /\ UNCHANGED lockVersion
            /\ \/ p = "clear" /\ n[c] + 1 < MaxLength
               \/ p = "unlock" /\ ~(n[c] + 1 < MaxLength)
      BY <1>7, <2>1, <2>3 DEF ClearAnswer, MoreToClear
    <3>2. Moves(c, p, n[c] + 1)
      <4>1. p = "unlock" => n[c] + 1 >= MaxLength
        BY <1>4, <1>7, <3>1
      <4> QED
        BY <1>7, <3>1, <4>1 DEF Moves
    <3> QED
      BY <1>1, <1>2, <1>3, <1>4, <1>7, <3>2 DEF Phase
  <2> QED
    BY <2>2, <2>3
<1>8. CASE pc[c] = "unlock" /\ UnlockAnswer(c, a)
  <2>1. ~UnlockFails(c, a)
    BY <1>3, <1>8 DEF UnlockFails, Tells
  <2>2. Moves(c, "idle", 0)
    BY <1>8, <2>1 DEF UnlockAnswer, Moves
  <2> QED
    BY <1>1, <1>2, <1>3, <1>4, <1>8, <2>2 DEF Phase
<1> QED
  BY <1>5, <1>6, <1>7, <1>8, Zenon DEF Answer

-----------------------------------------------------------------------------
\* The state at the beginning is of its type.
LEMMA TypeInit == Init => TypeOK
<1> SUFFICES ASSUME Init PROVE TypeOK
  OBVIOUS
<1>1. DB!NonexistentVV \in DB!VV
  BY DEF DB!VV
<1>2. db \in [next : Nat \ {0}, map : [Index \cup {LockKey} -> DB!VV], removes : {<<>>}]
  BY <1>1 DEF Init, DB!NewDB
<1> QED
  BY <1>2, Bounds DEF Init, TypeOK

\* That the state is of its type is inductive, with what is known of requests and answers.
LEMMA TypeStep == TypeOK /\ RequestInv /\ AnswerInv /\ [Next]_vars => TypeOK'
<1> SUFFICES ASSUME TypeOK, RequestInv, AnswerInv, [Next]_vars PROVE TypeOK'
  OBVIOUS
<1> USE DEF TypeOK, Phase
<1>1. ASSUME NEW c \in Client, NEW k \in 1 .. MaxLength, Begin(c, k) PROVE TypeOK'
  <2>1. sequence[c] \in 0 .. begun /\ begun' \in 0 .. MaxSequences /\ begun \in Nat
        /\ sequence[c] + 1 \in 0 .. begun'
    <3>1. /\ sequence[c] \in 0 .. begun /\ begun \in 0 .. MaxSequences
          /\ begun < MaxSequences /\ begun' = begun + 1
      BY <1>1 DEF Begin
    <3>2. MaxSequences \in Nat
      BY Bounds
    <3> HIDE DEF TypeOK
    <3> QED
      BY <3>1, <3>2
  <2>2. sequence' \in [Client -> 0 .. begun']
    BY <1>1, <2>1 DEF Begin
  <2>3. \A d \in Client : /\ pc'[d] \in {"write", "clear"} => n'[d] \in Index
                          /\ pc'[d] # "idle" => sequence'[d] > 0 /\ nvalues'[d] > 0
    BY <1>1, <2>1 DEF Begin
  <2>4. serial[c] + 1 \in Nat /\ k \in 0 .. MaxLength /\ 0 \in 0 .. MaxLength
    BY Bounds
  <2> QED
    BY <1>1, <2>1, <2>2, <2>3, <2>4 DEF Begin
<1>2. ASSUME NEW c \in Client, Send(c) PROVE TypeOK'
  <2>1. losses' \in 0 .. MaxLosses
    <3>1. Keep \/ Lose
      BY <1>2, Zenon DEF Send
    <3>2. losses \in 0 .. MaxLosses
      OBVIOUS
    <3> HIDE DEF TypeOK
    <3> QED
      BY <3>1, <3>2, Bounds DEF Keep, Lose
  <2>2. RequestOf(c) \in Sent
    BY <1>2, RequestType DEF Send
  <2>3. inbox' \in Seq(Sent)
    <3>1. inbox' = Append(inbox, RequestOf(c)) \/ inbox' = inbox
      BY <1>2, Zenon DEF Send
    <3>2. inbox \in Seq(Sent)
      OBVIOUS
    <3> HIDE DEF TypeOK
    <3> QED
      BY <2>2, <3>1, <3>2
  <2> QED
    BY <1>2, <2>1, <2>3 DEF Send
<1>3. ASSUME NEW c \in Client, Timeout(c) PROVE TypeOK'
  <2>1. early' \in 0 .. MaxEarly
    <3>1. early \in 0 .. MaxEarly /\ (early' = early \/ (early < MaxEarly /\ early' = early + 1))
      BY <1>3 DEF Timeout
    <3>2. MaxEarly \in Nat
      BY Bounds
    <3> HIDE DEF TypeOK
    <3> QED
      BY <3>1, <3>2
  <2> QED
    BY <1>3, <2>1 DEF Timeout
<1>4. ASSUME Serve PROVE TypeOK'
  <2> DEFINE r == inbox[1]
             d == r.client
  <2>1. /\ d \in Client /\ r \in Sent /\ inbox' \in Seq(Sent) /\ AnswerTo(r)
        /\ db' \in [next : Nat \ {0}, map : [Index \cup {LockKey} -> DB!VV], removes : {<<>>}]
        /\ UNCHANGED <<clientVars, begun, early>>
        /\ losses' \in 0 .. MaxLosses
        /\ \/ answers' = answers
           \/ answers' = [answers EXCEPT ![d] = Append(@, DB!Response(db, r))]
    BY <1>4, ServeEffect
  <2> HIDE DEF r
  <2>2. answers' \in [Client -> Seq(Answered)]
    <3>1. DB!Response(db, r) \in Answered
      BY <2>1 DEF AnswerTo
    <3>2. \A b \in Answered : Append(answers[d], b) \in Seq(Answered)
      BY <2>1
    <3> HIDE DEF d
    <3> QED
      BY <2>1, <3>1, <3>2
  <2> QED
    BY <2>1, <2>2 DEF clientVars
<1>5. ASSUME NEW c \in Client, Answer(c) PROVE TypeOK'
  <2>1. UNCHANGED <<sequence, nvalues, inbox, db, begun, losses, early>>
        /\ answers[c][1] \in Answered /\ answers[c] # <<>> /\ pc[c] \in Phase
    BY <1>5, AnswerCases
  <2>2. answers[c][1].version \in Nat
    BY <2>1 DEF Answered
  <2>3. ASSUME NEW p \in Phase \cup {"idle"}, NEW m \in 0 .. MaxLength, Moves(c, p, m) PROVE TypeOK'
    <3>1. /\ p \in {"write", "clear"} => m \in Index
          /\ pc[c] # "idle"
      <4>1. /\ nvalues[c] \in 0 .. MaxLength /\ MaxLength \in Nat \ {0}
            /\ p = "write" => m < MaxLength
            /\ p = "clear" => m < MaxLength
        <5>1. nvalues[c] \in 0 .. MaxLength
          OBVIOUS
        <5> HIDE DEF TypeOK
        <5> QED
          BY <2>3, <5>1, Bounds DEF Moves
      <4> QED
        BY <2>1, <4>1 DEF Index
    <3>2. serial[c] + 1 \in Nat /\ <<>> \in Seq(Answered)
      OBVIOUS
    <3>3. lockVersion' \in [Client -> Nat]
      BY <2>2, <2>3 DEF Moves
    <3>4. /\ pc' = [pc EXCEPT ![c] = p] /\ n' = [n EXCEPT ![c] = m]
          /\ serial' = IF p = "idle" THEN serial ELSE [serial EXCEPT ![c] = @ + 1]
          /\ retried' = [retried EXCEPT ![c] = FALSE]
          /\ asking' = [asking EXCEPT ![c] = FALSE]
          /\ answers' = [answers EXCEPT ![c] = <<>>]
      BY <2>3 DEF Moves, GoOn
    <3> QED
      BY <2>1, <3>1, <3>2, <3>3, <3>4
  <2>4. ASSUME Throw(c) PROVE TypeOK'
    <3>1. <<>> \in Seq(Answered)
      OBVIOUS
    <3>2. /\ pc' \in [Client -> Phase \cup {"idle", "threw"}]
          /\ asking' \in [Client -> BOOLEAN] /\ retried' \in [Client -> BOOLEAN]
          /\ serial' \in [Client -> Nat] /\ sequence' \in [Client -> 0 .. begun']
          /\ answers' \in [Client -> Seq(Answered)]
      BY <2>1, <2>4, <3>1 DEF Throw
    <3>3. \A d \in Client : /\ pc'[d] \in {"write", "clear"} => n'[d] \in Index
                            /\ pc'[d] # "idle" => sequence'[d] > 0 /\ nvalues'[d] > 0
      BY <2>1, <2>4 DEF Throw
    <3> QED
      BY <2>1, <2>4, <3>2, <3>3 DEF Throw
  <2>5. ASSUME AsksAgain(c) PROVE TypeOK'
    <3>1. Tail(answers[c]) \in Seq(Answered)
      <4>1. answers[c] \in Seq(Answered) /\ answers[c] # <<>>
        BY <2>1
      <4> HIDE DEF TypeOK
      <4> QED
        BY <4>1
    <3>2. /\ asking' \in [Client -> BOOLEAN] /\ retried' \in [Client -> BOOLEAN]
          /\ answers' \in [Client -> Seq(Answered)]
      BY <2>5, <3>1 DEF AsksAgain
    <3> QED
      BY <2>1, <2>5, <3>2 DEF AsksAgain
  <2> QED
    BY <1>5, <2>3, <2>4, <2>5, AnswerCases
<1>6. ASSUME UNCHANGED vars PROVE TypeOK'
  BY <1>6 DEF vars, clientVars
<1> QED
  BY <1>1, <1>2, <1>3, <1>4, <1>5, <1>6 DEF Next, ClientStep

-----------------------------------------------------------------------------
\* At the beginning nobody has the lock.
LEMMA RespectedInit == Init => Respected
<1> SUFFICES ASSUME Init PROVE Respected
  OBVIOUS
<1>1. TypeOK /\ inbox = <<>> /\ Len(inbox) = 0
  BY TypeInit DEF Init
<1>2. Lock = [value |-> Empty, version |-> 0] /\ db.next = 1
  BY DEF Init, DB!NewDB, DB!NonexistentVV, Lock
<1>3. RequestInv /\ OrderInv
  BY <1>1 DEF RequestInv, OrderInv
<1>4. UntriedInv /\ AnswerInv
  BY DEF Init, UntriedInv, UntriedOK, AnswerInv, AnswerOK, Untried, Phase, Tells
<1>5. LockInv
  BY <1>1, <1>2 DEF Init, LockInv
<1> QED
  BY <1>1, <1>3, <1>4, <1>5 DEF Respected

\* A new sequence: its client has nothing under way.
LEMMA RespectedBegin ==
  ASSUME Respected, TypeOK', NEW c \in Client, NEW k \in 1 .. MaxLength, Begin(c, k)
  PROVE  Respected'
<1> USE DEF Respected
<1>1. /\ pc[c] = "idle" /\ pc' = [pc EXCEPT ![c] = "lock"]
      /\ sequence' = [sequence EXCEPT ![c] = @ + 1] /\ serial' = [serial EXCEPT ![c] = @ + 1]
      /\ retried' = [retried EXCEPT ![c] = FALSE] /\ n' = [n EXCEPT ![c] = 0]
      /\ lockVersion' = [lockVersion EXCEPT ![c] = 0]
      /\ UNCHANGED <<asking, inbox, answers, db>>
  BY DEF Begin
<1>2. /\ pc'[c] = "lock" /\ serial'[c] = serial[c] + 1 /\ ~retried'[c] /\ ~asking'[c]
      /\ answers'[c] = <<>> /\ serial[c] \in Nat
      /\ \A d \in Client \ {c} : /\ pc'[d] = pc[d] /\ sequence'[d] = sequence[d]
                                 /\ serial'[d] = serial[d] /\ retried'[d] = retried[d]
                                 /\ n'[d] = n[d] /\ lockVersion'[d] = lockVersion[d]
  <2>1. ~asking[c] /\ answers[c] = <<>>
    BY <1>1 DEF AnswerInv, AnswerOK, Phase
  <2>2. /\ pc \in [Client -> Phase \cup {"idle", "threw"}] /\ serial \in [Client -> Nat]
        /\ DOMAIN sequence = Client /\ DOMAIN retried = Client /\ DOMAIN n = Client
        /\ DOMAIN lockVersion = Client
    BY DEF TypeOK
  <2> HIDE DEF Respected
  <2> QED
    BY <1>1, <2>1, <2>2
<1>3. ASSUME NEW r \in Sent, RequestOK(r)
      PROVE  /\ r.client \in Client /\ r.serial \in Nat /\ r.serial <= serial[r.client]
             /\ r.client = c => r.serial < serial'[c] /\ r.serial # serial'[c]
  BY <1>2, <1>3 DEF Sent, RequestOK
<1>4. RequestInv'
  <2>1. ASSUME NEW r \in Sent, RequestOK(r) PROVE RequestOK(r)'
    <3> DEFINE d == r.client
    <3>0. d \in Client /\ r.serial <= serial[d]
      BY <1>3, <2>1
    <3>1. CASE d = c
      BY <1>1, <1>2, <1>3, <2>1, <3>1 DEF RequestOK, Copy, Lock
    <3>2. CASE d # c
      <4>1. MyValue(d)' = MyValue(d) /\ pc'[d] = pc[d] /\ n'[d] = n[d] /\ serial'[d] = serial[d]
            /\ lockVersion'[d] = lockVersion[d]
        BY <1>2, <3>0, <3>2 DEF MyValue
      <4>2. pc[d] \in Phase => RequestOf(d)' = RequestOf(d)
        BY <3>0, <4>1, SameRequest
      <4> QED
        BY <1>1, <1>2, <2>1, <3>0, <3>2, <4>1, <4>2 DEF RequestOK, Copy, Lock
    <3> QED
      BY <3>1, <3>2
  <2> QED
    BY <1>1, <2>1, InboxType DEF RequestInv
<1>5. OrderInv'
  BY <1>1 DEF OrderInv
<1>6. UntriedInv'
  <2> SUFFICES ASSUME NEW d \in Client PROVE UntriedOK(d)'
    BY DEF UntriedInv
  <2>1. CASE d = c
    BY <1>1, <1>2, <1>3, <2>1, InboxType DEF UntriedOK, Untried, Copy, RequestInv
  <2>2. CASE d # c
    BY <1>1, <1>2, <2>2 DEF UntriedInv, UntriedOK, Untried, Copy, Held, Lock, MyValue
  <2> QED
    BY <2>1, <2>2
<1>7. AnswerInv'
  <2> SUFFICES ASSUME NEW d \in Client PROVE AnswerOK(d)'
    BY DEF AnswerInv
  <2>1. CASE d = c
    BY <1>2, <2>1 DEF AnswerOK, Phase
  <2>2. CASE d # c
    <3>1. AnswerOK(d) /\ Lock' = Lock /\ MyValue(d)' = MyValue(d)
      BY <1>1, <1>2, <2>2 DEF AnswerInv, Lock, MyValue
    <3>2. \A b : Tells(d, b) => Tells(d, b)'
      BY <1>2, <2>2, <3>1 DEF Tells
    <3> QED
      BY <1>1, <1>2, <2>2, <3>1, <3>2 DEF AnswerOK
  <2> QED
    BY <2>1, <2>2
<1>8. LockInv'
  BY <1>1, <1>2 DEF LockInv, Lock, Held, MyValue
<1> QED
  BY <1>4, <1>5, <1>6, <1>7, <1>8

\* A request that was sent, or lost.
LEMMA RespectedSend ==
  ASSUME Respected, TypeOK', NEW c \in Client, Send(c)
  PROVE  Respected'
<1> USE DEF Respected
<1> DEFINE q == RequestOf(c)
<1>1. /\ pc[c] \in Phase /\ ~asking[c] /\ asking' = [asking EXCEPT ![c] = TRUE]
      /\ inbox' = Append(inbox, q) \/ inbox' = inbox
      /\ UNCHANGED <<pc, retried, serial, sequence, nvalues, n, lockVersion, answers, db>>
  BY Zenon DEF Send
<1>2. \A d \in Client : asking'[d] = IF d = c THEN TRUE ELSE asking[d]
  BY <1>1 DEF TypeOK
<1>3. /\ q \in Sent /\ q.client = c /\ q.serial = serial[c] /\ q.value = MyValue(c)
      /\ pc[c] \in {"write", "clear"} \/ q.key = LockKey
      /\ q.type = "cas" => q.key = LockKey
      /\ q.type = "put" => q.key \in Index
      /\ q.type \in {"cas", "put"} \/ q.key \in Index => q.match = DB!AnyVersion
      /\ q.type = "remove" /\ q.key = LockKey => pc[c] = "unlock" /\ q.match = lockVersion[c]
  <2>1. pc[c] \in {"write", "clear"} => n[c] \in Index
    BY DEF TypeOK
  <2>2. /\ q \in Sent /\ q.client = c /\ q.serial = serial[c] /\ q.value = MyValue(c)
        /\ pc[c] = "lock" => q.type = "cas" /\ q.key = LockKey
        /\ pc[c] = "write" => q.type = "put" /\ q.key = n[c]
        /\ pc[c] = "clear" => q.type = "remove" /\ q.key = n[c]
        /\ pc[c] = "unlock" => /\ q.type = "remove" /\ q.key = LockKey
                               /\ q.match = lockVersion[c]
        /\ pc[c] # "unlock" => q.match = DB!AnyVersion
    BY <1>1, RequestType
  <2> HIDE DEF q, Respected
  <2> QED
    BY <1>1, <2>1, <2>2, Keys DEF Phase
<1> HIDE DEF q
<1>4. inbox \in Seq(Sent) /\ Len(inbox) \in Nat
  BY InboxType
<1>5. \A i \in 1 .. Len(inbox') :
        \/ i \in 1 .. Len(inbox) /\ inbox'[i] = inbox[i]
        \/ inbox'[i] = q /\ i = Len(inbox) + 1 /\ inbox' = Append(inbox, q)
  BY <1>1, <1>3, <1>4
<1>6. Lock' = Lock /\ q.value[1] = c /\ serial[c] \in Nat /\ pc[c] # "idle"
  BY <1>1, <1>3, MyValueType DEF Lock, Phase, TypeOK
<1>7. RequestInv'
  <2>1. ASSUME NEW r \in Sent, RequestOK(r) PROVE RequestOK(r)'
    <3>1. r.client \in Client
      BY DEF Sent
    <3>2. pc[r.client] \in Phase => RequestOf(r.client)' = RequestOf(r.client)
      <4>1. MyValue(r.client)' = MyValue(r.client)
        BY <1>1 DEF MyValue
      <4> QED
        BY <1>1, <3>1, <4>1, SameRequest
    <3> QED
      BY <1>1, <1>2, <1>6, <2>1, <3>1, <3>2 DEF RequestOK, Copy
  <2>2. ASSUME NEW r \in Sent, r = q PROVE RequestOK(r)'
    <3>1. RequestOf(c)' = RequestOf(c)
      <4>1. MyValue(c)' = MyValue(c)
        BY <1>1 DEF MyValue
      <4> QED
        BY <1>1, <4>1, SameRequest
    <3>2. pc[c] = "unlock" => lockVersion[c] \in 1 .. (db.next - 1)
                              /\ (lockVersion[c] = Lock.version => MyValue(c) = Lock.value)
      BY DEF LockInv, Held
    <3>3. r = RequestOf(c)'
      BY <2>2, <3>1 DEF q
    <3>4. /\ r.client = c /\ r.serial = serial[c] /\ r.value[1] = c /\ r.value = MyValue(c)
          /\ r.type = "cas" => r.key = LockKey
          /\ r.type = "put" => r.key \in Index
          /\ r.type \in {"cas", "put"} \/ r.key \in Index => r.match = DB!AnyVersion
          /\ r.type = "remove" /\ r.key = LockKey => pc[c] = "unlock" /\ r.match = lockVersion[c]
      BY <1>3, <1>6, <2>2
    <3>5. db' = db /\ pc' = pc /\ serial' = serial /\ asking'[c]
      BY <1>1, <1>2
    <3> HIDE DEF Respected
    <3>6. serial[c] <= serial[c]
      BY <1>6
    <3> QED
      BY <1>6, <3>2, <3>3, <3>4, <3>5, <3>6 DEF RequestOK, Copy
  <2>3. \A i \in 1 .. Len(inbox') : inbox'[i] \in Sent /\ (inbox'[i] = q \/ RequestOK(inbox'[i]))
    BY <1>3, <1>5, InboxType DEF RequestInv
  <2>4. \A i \in 1 .. Len(inbox') : RequestOK(inbox[i])'
    <3> SUFFICES ASSUME NEW i \in 1 .. Len(inbox') PROVE RequestOK(inbox[i])'
      OBVIOUS
    <3> HIDE DEF Respected
    <3>1. \A r \in Sent : r = q \/ RequestOK(r) => RequestOK(r)'
      BY <2>1, <2>2
    <3> QED
      BY <2>3, <3>1
  <2> QED
    BY <2>4 DEF RequestInv
<1>8. OrderInv'
  <2>1. \A i \in 1 .. Len(inbox) : inbox[i].client = c => inbox[i].serial <= serial[c]
    BY DEF RequestInv, RequestOK
  <2> QED
    BY <1>3, <1>4, <1>5, <2>1 DEF OrderInv
\* The first attempt is the only one, and the first copy on its way.
<1>9. ~retried[c] => ~\E i \in 1 .. Len(inbox) : Copy(c, inbox[i])
  BY <1>1 DEF RequestInv, RequestOK, Copy
<1>10. UntriedInv'
  <2> SUFFICES ASSUME NEW d \in Client PROVE UntriedOK(d)'
    BY DEF UntriedInv
  <2>1. Held(d)' = Held(d)
    BY <1>1, <1>6 DEF Held, MyValue
  <2>2. CASE d = c
    BY <1>1, <1>2, <1>4, <1>5, <1>9, <2>1, <2>2 DEF UntriedInv, UntriedOK, Untried, Copy
  <2>3. CASE d # c
    BY <1>1, <1>2, <1>3, <1>4, <1>5, <2>1, <2>3 DEF UntriedInv, UntriedOK, Untried, Copy
  <2> QED
    BY <2>2, <2>3
<1>11. AnswerInv'
  <2> SUFFICES ASSUME NEW d \in Client PROVE AnswerOK(d)'
    BY DEF AnswerInv
  <2>1. AnswerOK(d)
    BY DEF AnswerInv
  <2>2. \A a : Tells(d, a)' = Tells(d, a)
    BY <1>1, <1>6 DEF Tells, MyValue
  <2> QED
    BY <1>1, <1>2, <1>3, <1>5, <1>6, <2>1, <2>2 DEF AnswerOK
<1>12. LockInv'
  <2>1. \A d \in Client : Held(d)' = Held(d)
    BY <1>1, <1>6 DEF Held, MyValue
  <2>2. q.key # LockKey => Lock.value = q.value
    BY <1>3 DEF LockInv, Held
  <2> QED
    BY <1>1, <1>5, <1>6, <2>1, <2>2 DEF LockInv
<1> QED
  BY <1>7, <1>8, <1>10, <1>11, <1>12

\* A timeout only sets the client up to send once more.
LEMMA RespectedTimeout ==
  ASSUME Respected, TypeOK', NEW c \in Client, Timeout(c)
  PROVE  Respected'
<1> USE DEF Respected
<1>1. /\ asking[c] /\ asking' = [asking EXCEPT ![c] = FALSE]
      /\ retried' = [retried EXCEPT ![c] = TRUE]
      /\ UNCHANGED <<pc, serial, sequence, nvalues, n, lockVersion, inbox, answers, db>>
  BY Zenon DEF Timeout
<1>2. /\ pc[c] \in Phase
      /\ \A d \in Client : /\ asking'[d] = IF d = c THEN FALSE ELSE asking[d]
                           /\ retried'[d] = IF d = c THEN TRUE ELSE retried[d]
  BY <1>1 DEF TypeOK, AnswerInv, AnswerOK
<1>3. Lock' = Lock /\ \A d \in Client : MyValue(d)' = MyValue(d) /\ Held(d)' = Held(d)
  BY <1>1 DEF Lock, Held, MyValue
<1>4. RequestInv'
  <2>1. ASSUME NEW r \in Sent, RequestOK(r) PROVE RequestOK(r)'
    <3>1. r.client \in Client
      BY DEF Sent
    <3>2. pc[r.client] \in Phase => RequestOf(r.client)' = RequestOf(r.client)
      BY <1>1, <1>3, <3>1, SameRequest
    <3> QED
      BY <1>1, <1>2, <1>3, <2>1, <3>1, <3>2 DEF RequestOK, Copy
  <2> QED
    BY <1>1, <2>1, InboxType DEF RequestInv
<1>5. OrderInv' /\ LockInv'
  BY <1>1, <1>3 DEF OrderInv, LockInv
<1>6. UntriedInv'
  <2> SUFFICES ASSUME NEW d \in Client PROVE UntriedOK(d)'
    BY DEF UntriedInv
  <2>1. UntriedOK(d) /\ Held(d)' = Held(d)
    BY <1>3 DEF UntriedInv
  <2>2. CASE d = c
    BY <1>2, <2>2 DEF UntriedOK, Untried
  <2>3. CASE d # c
    BY <1>1, <1>2, <2>1, <2>3 DEF UntriedOK, Untried, Copy
  <2> QED
    BY <2>2, <2>3
<1>7. AnswerInv'
  <2> SUFFICES ASSUME NEW d \in Client PROVE AnswerOK(d)'
    BY DEF AnswerInv
  <2>1. AnswerOK(d)
    BY DEF AnswerInv
  <2>2. \A a : Tells(d, a) => Tells(d, a)'
    BY <1>1, <1>2, <1>3 DEF Tells
  <2> QED
    BY <1>1, <1>2, <1>3, <2>1, <2>2 DEF AnswerOK
<1> QED
  BY <1>4, <1>5, <1>6, <1>7

\* What the server's step does to the lock: nothing, or it gives the free lock to the client
\* that asks for it, or takes it from the one that waits for its unlock.
Locks(r) == /\ r.type = "cas" /\ Lock.value = Empty
            /\ Lock' = [value |-> r.value, version |-> db.next]
            /\ db'.next = db.next + 1
Unlocks(r) == /\ r.type = "remove" /\ r.key = LockKey /\ r.match = Lock.version
              /\ pc[r.client] = "unlock" /\ Copy(r.client, r) /\ r.value = Lock.value
              /\ Lock' = [value |-> Empty, version |-> 0]
              /\ db'.next = db.next + 1
\* These are the only effects on the lock.
LEMMA LockEffect ==
  ASSUME TypeOK, RequestInv, Serve
  PROVE  /\ \/ Lock' = Lock /\ db'.next \in {db.next, db.next + 1}
            \/ Locks(inbox[1])
            \/ Unlocks(inbox[1])
         /\ db.next \in Nat /\ db'.next \in Nat
<1> DEFINE r == inbox[1]
<1>1. /\ r \in Sent /\ RequestOK(r)
      /\ Nothing(r) \/ Stores(r) \/ Erases(r)
      /\ db' \in [next : Nat \ {0}, map : [Index \cup {LockKey} -> DB!VV], removes : {<<>>}]
  BY ServeEffect
<1>2. /\ db.next \in Nat /\ db'.next \in Nat
      /\ DOMAIN db.map = Index \cup {LockKey}
      /\ r.key \in Index \cup {LockKey} /\ LockKey \notin Index
  BY <1>1, Keys DEF TypeOK, Sent
<1> HIDE DEF r
<1>3. CASE Nothing(r)
  BY <1>2, <1>3 DEF Nothing, Lock
<1>4. CASE Stores(r) /\ r.key = LockKey
  <2>1. r.type = "cas"
    BY <1>1, <1>2, <1>4 DEF RequestOK, Stores
  <2>2. Locks(r)
    BY <1>2, <1>4, <2>1 DEF Locks, Stores, Lock
  <2> QED
    BY <1>2, <2>2 DEF r
<1>5. CASE (Stores(r) \/ Erases(r)) /\ r.key # LockKey
  BY <1>2, <1>5 DEF Stores, Erases, Lock
<1>6. CASE Erases(r) /\ r.key = LockKey
  <2>1. r.type = "remove" /\ r.match = Lock.version
        /\ pc[r.client] = "unlock" /\ Copy(r.client, r) /\ r.value = Lock.value
    BY <1>1, <1>6 DEF RequestOK, Erases
  <2>2. Unlocks(r)
    BY <1>2, <1>6, <2>1 DEF Unlocks, Erases, Lock
  <2> QED
    BY <1>2, <2>2 DEF r
<1> QED
  BY <1>1, <1>3, <1>4, <1>5, <1>6

\* The server's step keeps the lock with the client that holds it, unless it is the one whose
\* unlock is served.
LEMMA HeldServe ==
  ASSUME Respected, Serve, NEW d \in Client, pc[d] # "idle",
         Lock.value = MyValue(d)
  PROVE  \/ Lock' = Lock
         \/ pc[d] = "unlock" /\ Copy(d, inbox[1]) /\ Lock' = [value |-> Empty, version |-> 0]
<1> USE DEF Respected
<1>1. MyValue(d) # Empty /\ MyValue(d)[1] = d
  BY MyValueType
<1>2. ~Locks(inbox[1])
  BY <1>1 DEF Locks
<1>3. ASSUME Unlocks(inbox[1])
      PROVE  pc[d] = "unlock" /\ Copy(d, inbox[1]) /\ Lock' = [value |-> Empty, version |-> 0]
  <2>1. RequestOK(inbox[1])
    BY ServeEffect
  <2>2. inbox[1].client = d
    BY <1>1, <1>3, <2>1 DEF Unlocks, RequestOK
  <2> QED
    BY <1>3, <2>2 DEF Unlocks
<1> QED
  BY <1>2, <1>3, LockEffect

\* The server takes a client's first attempt only once.
LEMMA UntriedServe ==
  ASSUME Respected, Serve, NEW d \in Client, Untried(d)'
  PROVE  Untried(d) /\ ~Copy(d, inbox[1])
<1> USE DEF Respected
<1>1. /\ inbox # <<>> /\ UNCHANGED clientVars /\ Len(inbox) \in Nat /\ Len(inbox) > 0
      /\ Len(inbox') = Len(inbox) - 1
      /\ \A i \in 1 .. Len(inbox') : inbox'[i] = inbox[i + 1] /\ i + 1 \in 1 .. Len(inbox)
      /\ RequestOK(inbox[1])
  <2>1. inbox # <<>> /\ inbox \in Seq(Sent)
    BY ServeEffect, InboxType
  <2> QED
    BY <2>1, ServeEffect, InboxType
<1>2. pc[d] \in Phase /\ ~retried[d]
  BY <1>1 DEF Untried, clientVars
<1>3. asking[d] => \E i \in 1 .. Len(inbox') : Copy(d, inbox'[i])
  BY <1>1 DEF Untried, clientVars, Copy
<1>4. Untried(d)
  BY <1>1, <1>2, <1>3 DEF Untried
<1>5. ASSUME Copy(d, inbox[1]) PROVE FALSE
  <2>1. asking[d]
    BY <1>1, <1>2, <1>5 DEF RequestOK, Copy
  <2>2. PICK i \in 1 .. Len(inbox') : Copy(d, inbox[i + 1]) /\ i + 1 \in 1 .. Len(inbox)
    BY <1>1, <1>3, <2>1
  <2>3. 1 \in 1 .. Len(inbox) /\ i + 1 # 1
    BY <1>1
  <2> QED
    BY <1>2, <1>5, <2>2, <2>3 DEF UntriedInv, UntriedOK
<1> QED
  BY <1>4, <1>5

\* The server's step: a request less, a database with the request's effect, and an answer
\* to the client, if it still waits for one and the channel keeps it.
LEMMA RespectedServe ==
  ASSUME Respected, TypeOK', Serve
  PROVE  Respected'
<1> USE DEF Respected
<1> DEFINE r == inbox[1]
           c == r.client
           a == DB!Response(db, r)
<1>1. /\ r \in Sent /\ c \in Client /\ RequestOK(r) /\ AnswerTo(r)
      /\ Nothing(r) \/ Stores(r) \/ Erases(r)
      /\ Len(inbox') = Len(inbox) - 1 /\ inbox \in Seq(Sent) /\ 1 \in 1 .. Len(inbox)
      /\ \A i \in 1 .. Len(inbox') : /\ inbox'[i] = inbox[i + 1] /\ i + 1 \in 1 .. Len(inbox)
                                     /\ 1 < i + 1
      /\ \/ answers' = answers
         \/ /\ Copy(c, r) /\ pc[c] \in Phase
            /\ answers' = [answers EXCEPT ![c] = Append(@, a)]
  <2>1. inbox # <<>> /\ inbox \in Seq(Sent)
    BY ServeEffect, InboxType
  <2> QED
    BY <2>1, ServeEffect
<1>2. /\ pc' = pc /\ asking' = asking /\ retried' = retried /\ serial' = serial
      /\ sequence' = sequence /\ nvalues' = nvalues /\ n' = n /\ lockVersion' = lockVersion
  BY ServeEffect DEF clientVars
<1>3. /\ \/ Lock' = Lock /\ db'.next \in {db.next, db.next + 1}
         \/ Locks(r)
         \/ Unlocks(r)
      /\ db.next \in Nat /\ db'.next \in Nat
  BY LockEffect
<1>4. \A d \in Client : /\ MyValue(d)' = MyValue(d)
                        /\ pc[d] \in Phase => RequestOf(d)' = RequestOf(d)
  BY <1>2, SameRequest DEF MyValue
<1>5. \A i \in 1 .. Len(inbox) : /\ inbox[i] \in Sent /\ inbox[i].client \in Client
                                 /\ RequestOK(inbox[i]) /\ inbox[i].serial \in Nat
  BY InboxType DEF RequestInv
<1>6. /\ Lock.version \in Nat /\ Lock.version < db.next
      /\ Lock = [value |-> Lock.value, version |-> Lock.version]
  BY Absence DEF Lock, LockInv
<1>7. c \in Client /\ serial[c] \in Nat /\ r.serial \in Nat
  BY <1>1 DEF TypeOK, Sent
<1>7a. \A d \in Client : \/ answers'[d] = answers[d]
                         \/ d = c /\ Copy(c, r) /\ pc[c] \in Phase /\ answers'[d] = Append(answers[d], a)
  <2>1. DOMAIN answers = Client
    BY DEF TypeOK
  <2>2. CASE answers' = answers
    BY <2>2
  <2>3. CASE /\ Copy(c, r) /\ pc[c] \in Phase
             /\ answers' = [answers EXCEPT ![c] = Append(@, a)]
    <3> HIDE DEF a, c, r, Respected
    <3> QED
      BY <2>1, <2>3
  <2> QED
    BY <1>1, <2>2, <2>3
<1> HIDE DEF a, c, r
<1>8. RequestInv'
  <2>1. ASSUME NEW q \in Sent, RequestOK(q) PROVE RequestOK(q)'
    <3>1. q.client \in Client /\ q.match \in Nat \cup {DB!AnyVersion}
      BY DEF Sent
    <3>2. q.match \in 1 .. (db.next - 1) =>
            /\ q.match \in 1 .. (db'.next - 1)
            /\ q.match = Lock'.version => Lock' = Lock
      <4> HIDE DEF Respected
      <4>1. Locks(r) => Lock'.version = db.next /\ db'.next = db.next + 1
        BY DEF Locks
      <4>2. Unlocks(r) => Lock'.version = 0 /\ db'.next = db.next + 1
        BY DEF Unlocks
      <4> QED
        BY <1>3, <4>1, <4>2
    <3> QED
      BY <1>2, <1>4, <2>1, <3>1, <3>2 DEF RequestOK, Copy
  <2> QED
    BY <1>1, <1>5, <2>1 DEF RequestInv
<1>9. OrderInv'
  <2> SUFFICES ASSUME NEW i \in 1 .. Len(inbox'), NEW j \in 1 .. Len(inbox'), i < j,
                      inbox[i + 1].client = inbox[j + 1].client
               PROVE  inbox[i + 1].serial <= inbox[j + 1].serial
    BY <1>1 DEF OrderInv
  <2>1. i + 1 \in 1 .. Len(inbox) /\ j + 1 \in 1 .. Len(inbox) /\ i + 1 < j + 1
    BY <1>1
  <2> QED
    BY <2>1 DEF OrderInv
<1>10. UntriedInv'
  <2> SUFFICES ASSUME NEW d \in Client PROVE UntriedOK(d)'
    BY DEF UntriedInv
  <2>1. UntriedOK(d) /\ answers[d] \in Seq(Answered)
    BY DEF UntriedInv, TypeOK
  <2>2. pc[d] \in Phase /\ ~retried[d] =>
          \A i, j \in 1 .. Len(inbox') : Copy(d, inbox'[i]) /\ Copy(d, inbox'[j]) => i = j
    BY <1>1, <2>1 DEF UntriedOK
  <2>3. ASSUME Untried(d)' PROVE answers'[d] = <<>> /\ (pc[d] = "unlock" => Held(d)')
    <3>1. Untried(d) /\ ~Copy(d, r)
      BY <2>3, UntriedServe DEF r
    <3>2. answers[d] = <<>> /\ (pc[d] = "unlock" => Held(d))
      BY <2>1, <3>1 DEF UntriedOK
    <3>3. answers'[d] = <<>>
      BY <1>7a, <3>1, <3>2
    <3>4. pc[d] = "unlock" => Lock' = Lock
      <4>1. pc[d] = "unlock" => Lock.value = MyValue(d)
        BY <3>2 DEF Held
      <4> QED
        BY <3>1, <4>1, HeldServe DEF r
    <3> QED
      BY <1>2, <1>4, <3>2, <3>3, <3>4 DEF Held
  <2> QED
    BY <1>2, <2>2, <2>3 DEF UntriedOK, Copy
<1>11. AnswerInv'
  <2> SUFFICES ASSUME NEW d \in Client PROVE AnswerOK(d)'
    BY DEF AnswerInv
  <2>1. /\ AnswerOK(d) /\ UntriedOK(d) /\ answers[d] \in Seq(Answered) /\ Len(answers[d]) \in Nat
        /\ lockVersion[d] \in Nat
        /\ pc[d] \in {"write", "clear", "unlock"} => lockVersion[d] \in 1 .. (db.next - 1)
    <3>1. AnswerOK(d) /\ UntriedOK(d)
      BY DEF AnswerInv, UntriedInv
    <3>2. answers[d] \in Seq(Answered) /\ lockVersion[d] \in Nat
      BY DEF TypeOK
    <3>3. pc[d] \in {"write", "clear", "unlock"} => lockVersion[d] \in 1 .. (db.next - 1)
      BY DEF LockInv
    <3>4. Len(answers[d]) \in Nat
      BY <3>2
    <3> QED
      BY <3>1, <3>2, <3>3, <3>4
  <2>2. \/ answers'[d] = answers[d]
        \/ d = c /\ Copy(c, r) /\ pc[c] \in Phase /\ answers'[d] = Append(answers[d], a)
    BY <1>7a
  <2>3. a \in Answered
    BY <1>1 DEF AnswerTo, a
  <2>4. \A i \in 1 .. Len(answers'[d]) :
          \/ i \in 1 .. Len(answers[d]) /\ answers'[d][i] = answers[d][i]
          \/ d = c /\ Copy(c, r) /\ pc[c] \in Phase /\ answers'[d][i] = a
    BY <2>1, <2>2, <2>3
\* Older answers stay true: the lock a client was told to have is still its own.
  <2>5. ASSUME NEW b \in Answered, Tells(d, b) PROVE Tells(d, b)'
    <3>1. CASE pc[d] = "lock" /\ (b.errcode = "ok" \/ b.actual = MyValue(d))
      <4>1. Lock.value = MyValue(d) /\ pc[d] # "idle" /\ pc[d] # "unlock"
        BY <2>5, <3>1 DEF Tells
      <4>2. Lock' = Lock
        BY <4>1, HeldServe
      <4> QED
        BY <1>2, <1>4, <2>5, <3>1, <4>2 DEF Tells
    <3>2. CASE ~(pc[d] = "lock" /\ (b.errcode = "ok" \/ b.actual = MyValue(d)))
      BY <1>2, <1>4, <2>5, <3>2 DEF Tells
    <3> QED
      BY <3>1, <3>2
\* The new answer: the request was the one of the client's phase.
  <2>6. ASSUME NEW b, b = a, d = c, Copy(c, r), pc[c] \in Phase
        PROVE  Tells(d, b)' /\ (pc[d] = "unlock" => Lock'.version # lockVersion[d])
    <3>1. /\ r = RequestOf(c) /\ r.value = MyValue(c) /\ r.key \in Index \cup {LockKey}
          /\ pc[c] = "lock" => r.type = "cas" /\ r.key = LockKey
          /\ pc[c] = "write" => r.type = "put"
          /\ pc[c] = "clear" => r.type = "remove" /\ r.key # LockKey
          /\ pc[c] = "unlock" => r.type = "remove" /\ r.key = LockKey /\ r.match = lockVersion[c]
      <4>1. r = RequestOf(c)
        BY <1>1, <2>6 DEF RequestOK, c
      <4>2. pc[c] = "clear" => n[c] \in Index
        BY <1>7 DEF TypeOK
      <4> QED
        BY <1>1, <1>7, <2>6, <4>1, <4>2, RequestType, Keys DEF Sent
    <3>2. CASE pc[c] = "lock"
      <4>1. ~Erases(r)
        BY <3>1, <3>2 DEF Erases
      <4>2. CASE Nothing(r)
        <5>1. a.errcode = "no_match" /\ a.actual = Lock.value /\ a.version = Lock.version
          BY <1>1, <3>1, <3>2, <4>2 DEF AnswerTo, a
        <5>2. Lock' = Lock
          BY <4>2 DEF Nothing, Lock
        <5> QED
          BY <1>2, <1>4, <1>6, <1>7, <2>6, <3>2, <5>1, <5>2 DEF Tells
      <4>3. CASE Stores(r)
        <5>1. a.errcode = "ok" /\ a.version = db.next
          BY <1>1, <4>3 DEF AnswerTo, a
        <5>2. Lock' = [value |-> MyValue(c), version |-> db.next]
          <6>1. LockKey \in DOMAIN db.map
            BY DEF TypeOK
          <6> QED
            BY <3>1, <3>2, <4>3, <6>1 DEF Stores, Lock
        <5> QED
          BY <1>2, <1>4, <1>7, <2>6, <3>2, <5>1, <5>2 DEF Tells
      <4> QED
        BY <1>1, <3>2, <4>1, <4>2, <4>3
    <3>3. CASE pc[c] = "write"
      <4>1. Stores(r)
        BY <1>1, <3>1, <3>3 DEF Nothing, Erases
      <4> QED
        BY <1>1, <1>2, <2>6, <3>3, <4>1 DEF AnswerTo, Tells, a
    <3>4. CASE pc[c] = "clear"
      <4>1. ~Stores(r)
        BY <3>1, <3>4 DEF Stores
      <4>2. a.errcode \in {"ok", "not_found"}
        BY <1>1, <3>1, <3>4, <4>1 DEF AnswerTo, a
      <4> QED
        BY <1>2, <2>6, <3>4, <4>2 DEF Tells
    <3>5. CASE pc[c] = "unlock"
      <4>1. ~Stores(r)
        BY <3>1, <3>5 DEF Stores
      <4>2. CASE Erases(r)
        <5>1. Lock'.version = 0
          <6>1. LockKey \in DOMAIN db.map
            BY DEF TypeOK
          <6> QED
            BY <3>1, <3>5, <4>2, <6>1 DEF Erases, Lock
        <5>2. a.errcode = "ok"
          BY <1>1, <4>2 DEF AnswerTo, a
        <5>3. lockVersion[c] # 0
          BY <1>3, <2>1, <2>6, <3>5
        <5> QED
          BY <1>2, <2>6, <3>5, <5>1, <5>2, <5>3 DEF Tells
      <4>3. CASE Nothing(r)
        <5>1. Lock' = Lock /\ Lock.version # lockVersion[c]
          BY <3>1, <3>5, <4>3 DEF Nothing, Lock
        <5>2. retried[c]
          <6>1. ASSUME ~retried[c] PROVE FALSE
            <7>1. Untried(c)
              BY <1>1, <2>6, <6>1 DEF Untried, r
            <7>2. Held(c)
              BY <1>7, <3>5, <7>1 DEF UntriedInv, UntriedOK
            <7> QED
              BY <5>1, <7>2 DEF Held
          <6> QED
            BY <1>7, <6>1
        <5> QED
          BY <1>2, <2>6, <3>5, <5>1, <5>2 DEF Tells
      <4> QED
        BY <1>1, <4>1, <4>2, <4>3
    <3> QED
      BY <2>6, <3>2, <3>3, <3>4, <3>5 DEF Phase
  <2>7. \A i \in 1 .. Len(answers'[d]) : Tells(d, answers[d][i])'
    <3> SUFFICES ASSUME NEW i \in 1 .. Len(answers'[d]) PROVE Tells(d, answers[d][i])'
      OBVIOUS
    <3>1. CASE i \in 1 .. Len(answers[d]) /\ answers'[d][i] = answers[d][i]
      <4>1. answers[d][i] \in Answered /\ Tells(d, answers[d][i])
        BY <2>1, <3>1 DEF AnswerOK
      <4>2. \A b \in Answered : Tells(d, b) => Tells(d, b)'
        BY <2>5
      <4> QED
        BY <3>1, <4>1, <4>2
    <3>2. CASE d = c /\ Copy(c, r) /\ pc[c] \in Phase /\ answers'[d][i] = a
      <4>1. \A b : b = a => Tells(d, b)'
        BY <2>6, <3>2
      <4> QED
        BY <3>2, <4>1
    <3> QED
      BY <2>4, <3>1, <3>2
  <2>8. ASSUME answers'[d] # <<>>
        PROVE  /\ asking[d] \/ retried[d]
               /\ \A i \in 1 .. Len(inbox') : inbox'[i].client = d => inbox'[i].serial = serial[d]
               /\ pc[d] = "unlock" => Lock'.version # lockVersion[d]
    <3>1. CASE answers[d] # <<>>
      <4>1. pc[d] = "unlock" => Lock'.version # lockVersion[d]
        <5>1. pc[d] = "unlock" => Lock.version # lockVersion[d] /\ lockVersion[d] \in 1 .. (db.next - 1)
          BY <2>1, <3>1 DEF AnswerOK
        <5> HIDE DEF Respected
        <5> QED
          BY <1>3, <5>1 DEF Locks, Unlocks
      <4>2. /\ asking[d] \/ retried[d]
            /\ \A i \in 1 .. Len(inbox) : inbox[i].client = d => inbox[i].serial = serial[d]
        BY <2>1, <3>1 DEF AnswerOK
      <4>3. \A i \in 1 .. Len(inbox') : inbox'[i].client = d => inbox'[i].serial = serial[d]
        <5> HIDE DEF Respected
        <5> QED
          BY <1>1, <4>2
      <4> QED
        BY <4>1, <4>2, <4>3
    <3>2. CASE answers[d] = <<>>
      <4>1. d = c /\ Copy(c, r) /\ pc[c] \in Phase
        BY <2>2, <2>8, <3>2
      <4>2. asking[d] \/ retried[d]
        BY <1>1, <4>1 DEF RequestOK, c
      <4>3. ASSUME NEW i \in 1 .. Len(inbox'), inbox'[i].client = d PROVE inbox'[i].serial = serial[d]
        <5>1. inbox'[i] = inbox[i + 1] /\ i + 1 \in 1 .. Len(inbox) /\ 1 < i + 1
          BY <1>1
        <5>2. r.serial <= inbox[i + 1].serial
          BY <1>1, <4>1, <4>3, <5>1 DEF OrderInv, r, c
        <5>3. inbox[i + 1].serial <= serial[d] /\ inbox[i + 1].serial \in Nat
          BY <1>5, <4>3, <5>1 DEF RequestOK
        <5> QED
          BY <1>7, <4>1, <5>1, <5>2, <5>3 DEF Copy
      <4> QED
        BY <2>6, <4>1, <4>2, <4>3
    <3> QED
      BY <3>1, <3>2
  <2>9. pc[d] \notin Phase => ~asking[d] /\ answers'[d] = <<>>
    BY <2>1, <2>2 DEF AnswerOK
  <2> QED
    BY <1>2, <2>7, <2>8, <2>9 DEF AnswerOK
<1>12. LockInv'
  <2>1. Lock'.version < db'.next
    <3> HIDE DEF Respected
    <3> QED
      BY <1>3, <1>6 DEF Locks, Unlocks
  <2>2. ASSUME NEW d \in Client
        PROVE  /\ pc[d] \in {"write", "clear", "unlock"} => lockVersion[d] \in 1 .. (db'.next - 1)
               /\ pc[d] \in {"write", "clear"} => Held(d)'
               /\ pc[d] = "unlock" /\ Lock'.version = lockVersion[d] => Held(d)'
    <3>1. /\ pc[d] \in {"write", "clear", "unlock"} => lockVersion[d] \in 1 .. (db.next - 1)
          /\ pc[d] \in {"write", "clear"} => Held(d)
          /\ pc[d] = "unlock" /\ Lock.version = lockVersion[d] => Held(d)
          /\ lockVersion[d] \in Nat
      BY DEF LockInv, TypeOK
    <3>2. pc[d] \in {"write", "clear", "unlock"} => lockVersion[d] \in 1 .. (db'.next - 1)
      <4> HIDE DEF Respected
      <4> QED
        BY <1>3, <3>1 DEF Locks, Unlocks
    <3>3. ASSUME pc[d] \in {"write", "clear"} PROVE Held(d)'
      <4>1. Lock.value = MyValue(d) /\ Held(d)
        BY <3>1, <3>3 DEF Held
      <4>2. Lock' = Lock
        BY <3>3, <4>1, HeldServe
      <4> QED
        BY <1>2, <1>4, <4>1, <4>2 DEF Held
    <3>4. ASSUME pc[d] = "unlock", Lock'.version = lockVersion[d] PROVE Held(d)'
      <4>1. Lock' = Lock
        <5> HIDE DEF Respected
        <5> QED
          BY <1>3, <3>1, <3>4 DEF Locks, Unlocks
      <4> QED
        BY <1>2, <1>4, <3>1, <3>4, <4>1 DEF Held
    <3> QED
      BY <3>2, <3>3, <3>4
  <2>3. ASSUME NEW i \in 1 .. Len(inbox'), inbox'[i].key # LockKey
        PROVE  Lock'.value = inbox'[i].value
    <3> DEFINE q == inbox[i + 1]
               d == q.client
    <3>1. /\ inbox'[i] = q /\ i + 1 \in 1 .. Len(inbox) /\ 1 < i + 1
          /\ q.value \in Value /\ d \in Client /\ RequestOK(q)
          /\ q.serial \in Nat
      BY <1>1, <1>5, InboxType
    <3>2. Lock.value = q.value /\ q.value # Empty
      BY <2>3, <3>1, Values DEF LockInv
    <3>3. ~Locks(r)
      BY <3>2 DEF Locks
    <3>4. ASSUME Unlocks(r) PROVE FALSE
      <4>1. r.value[1] = c /\ q.value[1] = d
        BY <1>1, <3>1 DEF RequestOK, c
      <4>2. d = c
        BY <3>2, <3>4, <4>1 DEF Unlocks
      <4>3. Copy(c, q) /\ pc[c] = "unlock"
        <5>1. r.serial <= q.serial
          BY <1>1, <3>1, <4>2 DEF OrderInv, r, c
        <5>2. q.serial <= serial[c]
          BY <3>1, <4>2 DEF RequestOK
        <5>3. r.serial = serial[c] /\ pc[c] = "unlock"
          BY <3>4 DEF Unlocks, Copy, c
        <5> QED
          BY <1>7, <3>1, <4>2, <5>1, <5>2, <5>3 DEF Copy
      <4>4. q = RequestOf(c)
        BY <3>1, <4>2, <4>3 DEF RequestOK, Phase
      <4>5. RequestOf(c).key = LockKey
        BY <1>7, <4>3, RequestType DEF Phase
      <4> QED
        BY <2>3, <3>1, <4>4, <4>5
    <3> QED
      BY <1>3, <3>1, <3>2, <3>3, <3>4
  <2> QED
    BY <1>2, <2>1, <2>2, <2>3 DEF LockInv
<1> QED
  BY <1>8, <1>9, <1>10, <1>11, <1>12

\* A client that uses an answer leaves no request behind that could still be served as its
\* present one, nor one that still names the lock.
LEMMA NoRemnant ==
  ASSUME Respected, NEW c \in Client, answers[c] # <<>>
  PROVE  \A i \in 1 .. Len(inbox) :
           inbox[i].client = c =>
             /\ inbox[i].serial = serial[c]
             /\ inbox[i].type = "remove" /\ inbox[i].key = LockKey => inbox[i].match # Lock.version
<1> USE DEF Respected
<1>1. AnswerOK(c)
  BY DEF AnswerInv
<1> SUFFICES ASSUME NEW i \in 1 .. Len(inbox), inbox[i].client = c,
                    inbox[i].type = "remove", inbox[i].key = LockKey, inbox[i].match = Lock.version
             PROVE  FALSE
  BY <1>1 DEF AnswerOK
<1>2. RequestOK(inbox[i])
  BY DEF RequestInv
<1>3. pc[c] = "unlock" /\ Copy(c, inbox[i])
  BY <1>2 DEF RequestOK
<1>4. inbox[i] = RequestOf(c)
  BY <1>2, <1>3 DEF RequestOK, Phase
<1>5. inbox[i].match = lockVersion[c]
  BY <1>3, <1>4, RequestType DEF Phase
<1> QED
  BY <1>1, <1>3, <1>5 DEF AnswerOK

\* The client goes on.
LEMMA RespectedMoves ==
  ASSUME Respected, TypeOK', NEW c \in Client, Answer(c),
         NEW p \in Phase \cup {"idle"}, NEW m \in 0 .. MaxLength, Moves(c, p, m)
  PROVE  Respected'
<1> USE DEF Respected
<1> DEFINE a == answers[c][1]
<1>1. /\ pc[c] \in Phase /\ answers[c] # <<>> /\ Tells(c, a)
      /\ UNCHANGED <<sequence, nvalues, inbox, db>>
  BY AnswerCases
<1>2. /\ pc' = [pc EXCEPT ![c] = p] /\ n' = [n EXCEPT ![c] = m]
      /\ serial' = IF p = "idle" THEN serial ELSE [serial EXCEPT ![c] = @ + 1]
      /\ retried' = [retried EXCEPT ![c] = FALSE] /\ asking' = [asking EXCEPT ![c] = FALSE]
      /\ answers' = [answers EXCEPT ![c] = <<>>]
  BY DEF Moves, GoOn
<1>3. /\ p = "write" => \/ pc[c] = "lock" /\ (a.errcode = "ok" \/ a.actual = MyValue(c))
                           /\ lockVersion' = [lockVersion EXCEPT ![c] = a.version]
                        \/ pc[c] \in {"write", "clear"} /\ UNCHANGED lockVersion
      /\ p # "write" => pc[c] # "lock" /\ UNCHANGED lockVersion
      /\ p \in {"clear", "unlock"} => pc[c] \in {"write", "clear"}
      /\ p # "lock"
  BY <1>1 DEF Moves, Phase
<1>4. /\ DOMAIN pc = Client /\ DOMAIN n = Client /\ DOMAIN serial = Client
      /\ DOMAIN retried = Client /\ DOMAIN asking = Client /\ DOMAIN answers = Client
      /\ DOMAIN lockVersion = Client /\ serial[c] \in Nat
  BY DEF TypeOK
<1>5. /\ pc'[c] = p /\ n'[c] = m /\ ~retried'[c] /\ ~asking'[c] /\ answers'[c] = <<>>
      /\ serial[c] <= serial'[c] /\ (p # "idle" => serial'[c] = serial[c] + 1)
      /\ \A d \in Client \ {c} : /\ pc'[d] = pc[d] /\ n'[d] = n[d] /\ serial'[d] = serial[d]
                                 /\ retried'[d] = retried[d] /\ asking'[d] = asking[d]
                                 /\ answers'[d] = answers[d] /\ lockVersion'[d] = lockVersion[d]
      /\ \A d \in Client : MyValue(d)' = MyValue(d)
      /\ Lock' = Lock
  <2> HIDE DEF Respected, a
  <2> QED
    BY <1>1, <1>2, <1>3, <1>4 DEF MyValue, Lock
\* The lock is the client's, from the answer that gave it to the client to its unlock.
<1>6. p \in {"write", "clear", "unlock"} => Held(c)' /\ lockVersion'[c] \in 1 .. (db.next - 1)
  <2>1. CASE pc[c] = "lock" /\ (a.errcode = "ok" \/ a.actual = MyValue(c))
             /\ lockVersion' = [lockVersion EXCEPT ![c] = a.version]
    <3>1. Lock = [value |-> MyValue(c), version |-> a.version] /\ lockVersion'[c] = a.version
      BY <1>1, <1>4, <2>1 DEF Tells
    <3>2. MyValue(c) # Empty
      BY <2>1, MyValueType
    <3>3. Lock.version \in Nat /\ Lock.version # 0 /\ Lock.version < db.next /\ db.next \in Nat
      <4>1. Lock.version \in Nat /\ (Lock.version = 0 <=> Lock.value = Empty)
        BY Absence DEF Lock
      <4>2. Lock.value # Empty
        BY <3>1, <3>2
      <4>3. Lock.version < db.next /\ db.next \in Nat
        BY DEF LockInv, TypeOK
      <4> QED
        BY <4>1, <4>2, <4>3
    <3>4. lockVersion'[c] = Lock.version
      BY <3>1
    <3> HIDE DEF Respected
    <3> QED
      BY <1>5, <3>1, <3>3, <3>4 DEF Held
  <2>2. CASE pc[c] \in {"write", "clear"} /\ UNCHANGED lockVersion
    BY <1>5, <2>2 DEF LockInv, Held
  <2> QED
    BY <1>3, <2>1, <2>2
<1>7. \A i \in 1 .. Len(inbox) :
        /\ inbox[i] \in Sent /\ inbox[i].client \in Client /\ inbox[i].serial \in Nat
        /\ RequestOK(inbox[i])
        /\ inbox[i].client = c =>
             /\ inbox[i].serial = serial[c]
             /\ inbox[i].type = "remove" /\ inbox[i].key = LockKey => inbox[i].match # Lock.version
  BY <1>1, InboxType, NoRemnant DEF RequestInv
<1>8. RequestInv'
  <2> SUFFICES ASSUME NEW i \in 1 .. Len(inbox) PROVE RequestOK(inbox[i])'
    BY <1>1 DEF RequestInv
  <2>1. ASSUME NEW q \in Sent, RequestOK(q), q.serial \in Nat,
               q.client = c => /\ q.serial = serial[c]
                               /\ q.type = "remove" /\ q.key = LockKey => q.match # Lock.version
        PROVE  RequestOK(q)'
    <3>1. q.client \in Client
      BY DEF Sent
    <3>2. CASE q.client = c
      BY <1>1, <1>4, <1>5, <2>1, <3>2 DEF RequestOK, Copy, Phase
    <3>3. CASE q.client # c
      <4>1. pc[q.client] \in Phase => RequestOf(q.client)' = RequestOf(q.client)
        BY <1>5, <3>1, <3>3, SameRequest
      <4> QED
        BY <1>1, <1>5, <2>1, <3>1, <3>3, <4>1 DEF RequestOK, Copy
    <3> QED
      BY <3>2, <3>3
  <2> QED
    BY <1>1, <1>7, <2>1
<1>9. OrderInv'
  BY <1>1 DEF OrderInv
<1>10. UntriedInv'
  <2> SUFFICES ASSUME NEW d \in Client PROVE UntriedOK(d)'
    BY DEF UntriedInv
  <2>1. CASE d = c
    BY <1>1, <1>4, <1>5, <1>6, <1>7, <2>1 DEF UntriedOK, Untried, Copy, Phase
  <2>2. CASE d # c
    BY <1>1, <1>5, <2>2 DEF UntriedInv, UntriedOK, Untried, Copy, Held
  <2> QED
    BY <2>1, <2>2
<1>11. AnswerInv'
  <2> SUFFICES ASSUME NEW d \in Client PROVE AnswerOK(d)'
    BY DEF AnswerInv
  <2>1. CASE d = c
    BY <1>5, <2>1 DEF AnswerOK
  <2>2. CASE d # c
    <3>1. AnswerOK(d)
      BY DEF AnswerInv
    <3>2. \A b : Tells(d, b) => Tells(d, b)'
      BY <1>5, <2>2 DEF Tells
    <3> QED
      BY <1>1, <1>5, <2>2, <3>1, <3>2 DEF AnswerOK
  <2> QED
    BY <2>1, <2>2
<1>12. LockInv'
  <2>1. ASSUME NEW d \in Client
        PROVE  /\ pc'[d] \in {"write", "clear", "unlock"} => lockVersion'[d] \in 1 .. (db.next - 1)
               /\ pc'[d] \in {"write", "clear"} => Held(d)'
               /\ pc'[d] = "unlock" /\ Lock.version = lockVersion'[d] => Held(d)'
    <3>1. CASE d = c
      BY <1>5, <1>6, <3>1
    <3>2. CASE d # c
      BY <1>5, <3>2 DEF LockInv, Held
    <3> QED
      BY <3>1, <3>2
  <2> QED
    BY <1>1, <1>5, <2>1 DEF LockInv
<1> QED
  BY <1>8, <1>9, <1>10, <1>11, <1>12

\* The client gives up.
LEMMA RespectedThrow ==
  ASSUME Respected, TypeOK', NEW c \in Client, Answer(c), pc[c] = "lock", Throw(c)
  PROVE  Respected'
<1> USE DEF Respected
<1>1. /\ answers[c] # <<>> /\ UNCHANGED <<sequence, nvalues, inbox, db>>
      /\ pc' = [pc EXCEPT ![c] = "threw"] /\ asking' = [asking EXCEPT ![c] = FALSE]
      /\ answers' = [answers EXCEPT ![c] = <<>>]
      /\ UNCHANGED <<n, serial, retried, lockVersion>>
  BY AnswerCases DEF Throw
<1>2. DOMAIN pc = Client /\ DOMAIN asking = Client /\ DOMAIN answers = Client
  BY DEF TypeOK
<1>3. /\ pc'[c] = "threw" /\ ~asking'[c] /\ answers'[c] = <<>>
      /\ \A d \in Client \ {c} : /\ pc'[d] = pc[d] /\ asking'[d] = asking[d]
                                 /\ answers'[d] = answers[d]
      /\ \A d \in Client : MyValue(d)' = MyValue(d) /\ Held(d)' = Held(d)
      /\ Lock' = Lock
  BY <1>1, <1>2 DEF MyValue, Lock, Held
<1>4. RequestInv'
  <2>1. ASSUME NEW q \in Sent, RequestOK(q) PROVE RequestOK(q)'
    <3>1. q.client \in Client
      BY DEF Sent
    <3>2. CASE q.client = c
      BY <1>1, <1>3, <2>1, <3>2 DEF RequestOK, Copy, Phase
    <3>3. CASE q.client # c
      <4>1. pc[q.client] \in Phase => RequestOf(q.client)' = RequestOf(q.client)
        BY <1>1, <1>3, <3>1, <3>3, SameRequest
      <4> QED
        BY <1>1, <1>3, <2>1, <3>1, <3>3, <4>1 DEF RequestOK, Copy
    <3> QED
      BY <3>2, <3>3
  <2> QED
    BY <1>1, <2>1, InboxType DEF RequestInv
<1>5. OrderInv'
  BY <1>1 DEF OrderInv
<1>6. UntriedInv'
  <2> SUFFICES ASSUME NEW d \in Client PROVE UntriedOK(d)'
    BY DEF UntriedInv
  <2>1. CASE d = c
    BY <1>1, <1>3, <2>1 DEF UntriedOK, Untried, Phase
  <2>2. CASE d # c
    BY <1>1, <1>3, <2>2 DEF UntriedInv, UntriedOK, Untried, Copy
  <2> QED
    BY <2>1, <2>2
<1>7. AnswerInv'
  <2> SUFFICES ASSUME NEW d \in Client PROVE AnswerOK(d)'
    BY DEF AnswerInv
  <2>1. CASE d = c
    BY <1>3, <2>1 DEF AnswerOK
  <2>2. CASE d # c
    <3>1. AnswerOK(d)
      BY DEF AnswerInv
    <3>2. \A b : Tells(d, b) => Tells(d, b)'
      BY <1>1, <1>3, <2>2 DEF Tells
    <3> QED
      BY <1>1, <1>3, <2>2, <3>1, <3>2 DEF AnswerOK
  <2> QED
    BY <2>1, <2>2
<1>8. LockInv'
  <2>1. \A d \in Client : pc'[d] \in {"write", "clear", "unlock"} => pc'[d] = pc[d]
    BY <1>3
  <2> QED
    BY <1>1, <1>3, <2>1 DEF LockInv
<1> QED
  BY <1>4, <1>5, <1>6, <1>7, <1>8

\* The client asks again.
LEMMA RespectedAsksAgain ==
  ASSUME Respected, TypeOK', NEW c \in Client, Answer(c), AsksAgain(c)
  PROVE  Respected'
<1> USE DEF Respected
<1>1. /\ answers[c] # <<>> /\ UNCHANGED <<sequence, nvalues, inbox, db>> /\ pc[c] = "lock"
      /\ asking' = [asking EXCEPT ![c] = FALSE] /\ retried' = [retried EXCEPT ![c] = TRUE]
      /\ answers' = [answers EXCEPT ![c] = Tail(@)]
      /\ UNCHANGED <<pc, serial, n, lockVersion>>
  BY AnswerCases DEF AsksAgain
<1>2. /\ DOMAIN retried = Client /\ DOMAIN asking = Client /\ DOMAIN answers = Client
      /\ answers[c] \in Seq(Answered)
  BY DEF TypeOK
<1>3. /\ ~asking'[c] /\ retried'[c] /\ answers'[c] = Tail(answers[c])
      /\ \A d \in Client \ {c} : /\ retried'[d] = retried[d] /\ asking'[d] = asking[d]
                                 /\ answers'[d] = answers[d]
      /\ \A d \in Client : MyValue(d)' = MyValue(d) /\ Held(d)' = Held(d)
      /\ Lock' = Lock
  BY <1>1, <1>2 DEF MyValue, Lock, Held
<1>4. RequestInv'
  <2>1. ASSUME NEW q \in Sent, RequestOK(q) PROVE RequestOK(q)'
    <3>1. q.client \in Client
      BY DEF Sent
    <3>2. pc[q.client] \in Phase => RequestOf(q.client)' = RequestOf(q.client)
      BY <1>1, <1>3, <3>1, SameRequest
    <3> QED
      BY <1>1, <1>3, <2>1, <3>1, <3>2 DEF RequestOK, Copy
  <2> QED
    BY <1>1, <2>1, InboxType DEF RequestInv
<1>5. OrderInv' /\ LockInv'
  BY <1>1, <1>3 DEF OrderInv, LockInv
<1>6. UntriedInv'
  <2> SUFFICES ASSUME NEW d \in Client PROVE UntriedOK(d)'
    BY DEF UntriedInv
  <2>1. CASE d = c
    BY <1>1, <1>3, <2>1 DEF UntriedOK, Untried
  <2>2. CASE d # c
    BY <1>1, <1>3, <2>2 DEF UntriedInv, UntriedOK, Untried, Copy
  <2> QED
    BY <2>1, <2>2
<1>7. AnswerInv'
  <2> SUFFICES ASSUME NEW d \in Client PROVE AnswerOK(d)'
    BY DEF AnswerInv
  <2>1. AnswerOK(d)
    BY DEF AnswerInv
  <2>2. \A b : Tells(d, b) => Tells(d, b)'
    BY <1>1, <1>3 DEF Tells
  <2>3. CASE d = c
    <3>1. /\ Len(answers[c]) \in Nat /\ Len(Tail(answers[c])) = Len(answers[c]) - 1
          /\ \A i \in 1 .. Len(Tail(answers[c])) : /\ Tail(answers[c])[i] = answers[c][i + 1]
                                                   /\ i + 1 \in 1 .. Len(answers[c])
      <4> HIDE DEF Respected
      <4> QED
        BY <1>1, <1>2
    <3>2. \A i \in 1 .. Len(answers'[d]) : Tells(d, answers[d][i])'
      <4> SUFFICES ASSUME NEW i \in 1 .. Len(answers'[d]) PROVE Tells(d, answers[d][i])'
        OBVIOUS
      <4>1. answers'[d][i] = answers[d][i + 1] /\ i + 1 \in 1 .. Len(answers[d])
        BY <1>3, <2>3, <3>1
      <4>2. Tells(d, answers[d][i + 1])
        BY <2>1, <4>1 DEF AnswerOK
      <4> QED
        BY <2>2, <4>1, <4>2
    <3> QED
      BY <1>1, <1>3, <2>1, <2>3, <3>2 DEF AnswerOK, Phase
  <2>4. CASE d # c
    BY <1>1, <1>3, <2>1, <2>2, <2>4 DEF AnswerOK
  <2> QED
    BY <2>3, <2>4
<1> QED
  BY <1>4, <1>5, <1>6, <1>7

-----------------------------------------------------------------------------
\* That the lock is respected is inductive.
LEMMA RespectedStep == Respected /\ [Next]_vars => Respected'
<1> SUFFICES ASSUME Respected, [Next]_vars PROVE Respected'
  OBVIOUS
<1>1. TypeOK'
  BY TypeStep DEF Respected
<1>2. ASSUME NEW c \in Client, NEW k \in 1 .. MaxLength, Begin(c, k) PROVE Respected'
  BY <1>1, <1>2, RespectedBegin
<1>3. ASSUME NEW c \in Client, Send(c) PROVE Respected'
  BY <1>1, <1>3, RespectedSend
<1>4. ASSUME NEW c \in Client, Timeout(c) PROVE Respected'
  BY <1>1, <1>4, RespectedTimeout
<1>5. ASSUME NEW c \in Client, Answer(c) PROVE Respected'
  <2>1. \/ \E p \in Phase \cup {"idle"}, m \in 0 .. MaxLength : Moves(c, p, m)
        \/ pc[c] = "lock" /\ Throw(c)
        \/ AsksAgain(c)
    BY <1>5, AnswerCases DEF Respected
  <2> QED
    BY <1>1, <1>5, <2>1, RespectedMoves, RespectedThrow, RespectedAsksAgain
<1>6. ASSUME Serve PROVE Respected'
  BY <1>1, <1>6, RespectedServe
<1>7. ASSUME UNCHANGED vars PROVE Respected'
  <2>1. /\ UNCHANGED <<pc, asking, retried, serial, sequence, nvalues, n, lockVersion,
                       inbox, answers, db>>
    BY <1>7 DEF vars, clientVars
  <2>2. \A c \in Client : pc[c] \in Phase => RequestOf(c)' = RequestOf(c)
    BY <2>1, SameRequest DEF MyValue
  <2>3. RequestInv'
    <3>1. ASSUME NEW q \in Sent, RequestOK(q) PROVE RequestOK(q)'
      <4>1. q.client \in Client
        BY DEF Sent
      <4> QED
        BY <2>1, <2>2, <3>1, <4>1 DEF RequestOK, Copy, Lock
    <3> QED
      BY <2>1, <3>1, InboxType DEF RequestInv, Respected
  <2>4. OrderInv' /\ UntriedInv' /\ AnswerInv' /\ LockInv'
    BY <2>1 DEF Respected, OrderInv, UntriedInv, UntriedOK, Untried, AnswerInv, AnswerOK, Tells,
                LockInv, Held, Copy, MyValue, Lock
  <2> QED
    BY <1>1, <2>3, <2>4 DEF Respected
<1> QED
  BY <1>2, <1>3, <1>4, <1>5, <1>6, <1>7 DEF Next, ClientStep

\* Only a client that asks for the lock throws.
LEMMA ThrowsStep ==
  Respected /\ [Next]_vars => [\A c \in Client : pc'[c] = "threw" => pc[c] \in {"lock", "threw"}]_vars
<1> SUFFICES ASSUME Respected, Next, NEW d \in Client, pc'[d] = "threw", pc[d] # "threw"
             PROVE  pc[d] = "lock"
  OBVIOUS
<1>1. DOMAIN pc = Client
  BY DEF Respected, TypeOK
<1>2. ASSUME NEW c \in Client, NEW k \in 1 .. MaxLength, Begin(c, k) PROVE FALSE
  BY <1>1, <1>2 DEF Begin
<1>3. ASSUME NEW c \in Client, Send(c) \/ Timeout(c) PROVE FALSE
  BY <1>3 DEF Send, Timeout
<1>4. ASSUME NEW c \in Client, Answer(c) PROVE pc[d] = "lock"
  <2>1. \/ \E p \in Phase \cup {"idle"}, m \in 0 .. MaxLength : Moves(c, p, m)
        \/ pc[c] = "lock" /\ Throw(c)
        \/ AsksAgain(c)
    BY <1>4, AnswerCases DEF Respected
  <2> QED
    BY <1>1, <2>1 DEF Moves, GoOn, Throw, AsksAgain, Phase
<1>5. ASSUME Serve PROVE FALSE
  BY <1>5 DEF Serve, clientVars
<1> QED
  BY <1>2, <1>3, <1>4, <1>5 DEF Next, ClientStep

\* The state of the clients, of the requests and answers on their way and of the database is
\* always of its type: no request names a key, a version or a client that there is not.
THEOREM TypeCorrect == Spec => []TypeOK
<1>1. Init => Respected
  BY RespectedInit
<1>2. Respected /\ [Next]_vars => Respected'
  BY RespectedStep
<1>3. Respected => TypeOK
  BY DEF Respected
<1> QED
  BY <1>1, <1>2, <1>3, PTL DEF Spec

\* A client has the lock while it writes and clears and until it first asks for the unlock
\* (attempt_lock's Phases 2 to 4), no write is left over from a lock given back, and the
\* errors that Phases 2 to 4 throw never occur.
THEOREM LockRespectedHolds == Spec => LockRespected
<1>1. Init => Respected
  BY RespectedInit
<1>2. Respected /\ [Next]_vars => Respected'
  BY RespectedStep
<1>3. Respected => HoldsLock /\ NoLateWrites
  <2> SUFFICES ASSUME Respected PROVE HoldsLock /\ NoLateWrites
    OBVIOUS
  <2>1. ASSUME NEW c \in Client, pc[c] = "unlock", ~asking[c], ~retried[c] PROVE Held(c)
    BY <2>1 DEF Respected, UntriedInv, UntriedOK, Untried, Phase
  <2>2. HoldsLock
    BY <2>1 DEF HoldsLock, Respected, LockInv, Held, Lock
  <2>3. NoLateWrites
    <3>1. DOMAIN inbox = 1 .. Len(inbox)
      BY InboxType DEF Respected
    <3> QED
      BY <3>1 DEF NoLateWrites, Respected, LockInv, Lock
  <2> QED
    BY <2>2, <2>3
<1>4. Respected /\ [Next]_vars =>
        [\A c \in Client : pc'[c] = "threw" => pc[c] \in {"lock", "threw"}]_vars
  BY ThrowsStep
<1> QED
  BY <1>1, <1>2, <1>3, <1>4, PTL DEF Spec, LockRespected, ThrowsOnlyInPhase1

-----------------------------------------------------------------------------
(***************************************************************************)
(* The database of the group.  Its present keys are those of the holder's  *)
(* sequence, as far as it got, and what is left of the sequence before.    *)
(***************************************************************************)

\* The requests on their way were sent in the present sequence and lie behind its counter.
RequestIn(r) ==
  LET c == r.client
  IN  /\ r.type = "cas" => /\ r.value = MyValue(c)
                           /\ pc[c] \in {"lock", "threw"} \/ (pc[c] = "write" /\ n[c] = 0)
      /\ r.type = "put" => /\ pc[c] \in {"write", "clear", "unlock"}
                           /\ r.value = MyValue(c)
                           /\ r.key < nvalues[c] /\ r.key <= n[c]
      /\ r.type = "remove" /\ r.key # LockKey =>
           /\ pc[c] \in {"clear", "unlock"}
           /\ r.value = MyValue(c)
           /\ nvalues[c] <= r.key /\ r.key <= n[c]
           /\ pc[c] = "clear" => r.key < n[c] \/ Copy(c, r)
PlaceInv == \A i \in 1 .. Len(inbox) : RequestIn(inbox[i])

\* The lock names a client that is in a sequence, and that sequence.
HolderInv ==
  Lock.value # Empty =>
    \E c \in Client : /\ Lock.value = MyValue(c) /\ pc[c] # "idle"
                      /\ pc[c] \in {"write", "clear", "unlock"} => Lock.version = lockVersion[c]

NumberInv ==
  \A c \in Client : /\ pc[c] = "write" => n[c] < nvalues[c]
                    /\ pc[c] \in {"clear", "unlock"} => nvalues[c] <= n[c]

\* From key lo on: the rest of one sequence, and nothing after it.
Old(lo) == \E e \in lo .. MaxLength, v \in Value :
             \A i \in Index : i >= lo => At(i) = IF i < e THEN v ELSE Empty
Mine(c, m) == \A i \in Index : i < m => At(i) = MyValue(c)
Gone(lo, hi) == \A i \in Index : lo <= i /\ i < hi => At(i) = Empty

\* Nobody has begun to write under the lock.
FreshInv ==
  Lock.value = Empty \/ (\E c \in Client : Lock.value = MyValue(c) /\ pc[c] \in {"lock", "threw"})
    => Old(0)

Writes(c) == /\ Mine(c, n[c]) /\ Old(n[c] + 1)
             /\ Old(n[c]) \/ At(n[c]) = MyValue(c)
             /\ answers[c] # <<>> => At(n[c]) = MyValue(c)
Clears(c) == /\ Mine(c, nvalues[c]) /\ Gone(nvalues[c], n[c]) /\ Old(n[c] + 1)
             /\ Old(n[c]) \/ (~Untried(c) /\ At(n[c]) = Empty)
             /\ answers[c] # <<>> => At(n[c]) = Empty
             /\ answers[c] # <<>> /\ ~retried[c] /\ answers[c][1].errcode = "not_found" =>
                  Gone(n[c], MaxLength)
Done(c) == Mine(c, nvalues[c]) /\ Gone(nvalues[c], MaxLength)
ShapeOK(c) == /\ pc[c] = "write" => Writes(c)
              /\ pc[c] = "clear" => Clears(c)
              /\ pc[c] = "unlock" /\ Lock.value = MyValue(c) => Done(c)
ShapeInv == \A c \in Client : ShapeOK(c)

InShape == Respected /\ PlaceInv /\ HolderInv /\ NumberInv /\ FreshInv /\ ShapeInv

\* The shape at the beginning: nothing is there.
LEMMA InShapeInit == Init => InShape
<1> SUFFICES ASSUME Init PROVE InShape
  OBVIOUS
<1>1. Respected /\ inbox = <<>> /\ Len(inbox) = 0
  BY RespectedInit DEF Init
<1>2. Lock = [value |-> Empty, version |-> 0] /\ \A i \in Index : At(i) = Empty
  BY DEF Init, DB!NewDB, DB!NonexistentVV, Lock, At
<1>3. PlaceInv /\ HolderInv /\ NumberInv /\ ShapeInv
  BY <1>1, <1>2 DEF Init, PlaceInv, HolderInv, NumberInv, ShapeInv, ShapeOK
<1>4. Old(0)
  <2>1. PICK c \in Client : TRUE
    BY Bounds
  <2>2. <<c, 1>> \in Value /\ 0 \in 0 .. MaxLength
    <3>1. 1 \in 1 .. MaxSequences /\ 0 \in 0 .. MaxLength
      BY Bounds
    <3> QED
      BY <3>1, Values
  <2>3. \A i \in Index : ~(i < 0)
    BY Keys
  <2> QED
    BY <1>2, <2>2, <2>3 DEF Old
<1> QED
  BY <1>1, <1>3, <1>4 DEF InShape, FreshInv

\* The rest of a sequence without its first key, and one whose first key is absent.
LEMMA OldNext ==
  ASSUME NEW lo \in Index, Old(lo)
  PROVE  /\ Old(lo + 1)
         /\ At(lo) = Empty => Gone(lo, MaxLength)
<1>1. PICK e \in lo .. MaxLength, v \in Value :
        \A i \in Index : i >= lo => At(i) = IF i < e THEN v ELSE Empty
  BY DEF Old
<1>2. lo \in Nat /\ lo < MaxLength /\ MaxLength \in Nat /\ Index \subseteq Nat
  BY Bounds, Keys DEF Index
<1>3. CASE e = lo
  <2>1. lo + 1 \in lo + 1 .. MaxLength
    BY <1>2
  <2>2. \A i \in Index : i >= lo => At(i) = Empty
    BY <1>1, <1>2, <1>3
  <2>3. \A i \in Index : i >= lo + 1 => At(i) = IF i < lo + 1 THEN v ELSE Empty
    BY <1>2, <2>2
  <2>4. Old(lo + 1)
    BY <2>1, <2>3 DEF Old
  <2>5. Gone(lo, MaxLength)
    BY <1>2, <2>2 DEF Gone
  <2> QED
    BY <2>4, <2>5
<1>4. CASE e # lo
  <2>1. e \in lo + 1 .. MaxLength /\ lo < e
    BY <1>2, <1>4
  <2>2. \A i \in Index : i >= lo + 1 => At(i) = IF i < e THEN v ELSE Empty
    BY <1>1, <1>2
  <2>3. Old(lo + 1)
    BY <2>1, <2>2 DEF Old
  <2>4. At(lo) = v /\ v # Empty
    BY <1>1, <1>2, <2>1, Values
  <2> QED
    BY <2>3, <2>4
<1> QED
  BY <1>3, <1>4

\* The values of the group's keys stay as they are.
LEMMA SameData ==
  ASSUME \A i \in Index : At(i)' = At(i)
  PROVE  /\ \A lo : Old(lo) => Old(lo)'
         /\ \A lo, hi : Gone(lo, hi) => Gone(lo, hi)'
         /\ \A c \in Client : \A m : MyValue(c)' = MyValue(c) /\ Mine(c, m) => Mine(c, m)'
<1>1. ASSUME NEW lo, Old(lo) PROVE Old(lo)'
  <2>1. PICK e \in lo .. MaxLength, v \in Value :
          \A i \in Index : i >= lo => At(i) = IF i < e THEN v ELSE Empty
    BY <1>1 DEF Old
  <2>2. \A i \in Index : i >= lo => At(i)' = IF i < e THEN v ELSE Empty
    BY <2>1
  <2> QED
    BY <2>2 DEF Old
<1> QED
  BY <1>1 DEF Gone, Mine

\* A client's part of the shape, when neither it nor the database changes, except that the
\* client may come closer to a further attempt.
LEMMA SameShape ==
  ASSUME NEW d \in Client, ShapeOK(d), \A i \in Index : At(i)' = At(i), Lock' = Lock,
         n[d] \in Index \/ pc[d] \notin {"write", "clear"},
         pc'[d] = pc[d], n'[d] = n[d], nvalues'[d] = nvalues[d], MyValue(d)' = MyValue(d),
         answers'[d] = answers[d], retried[d] => retried'[d], Untried(d)' => Untried(d)
  PROVE  ShapeOK(d)'
<1>1. CASE pc[d] = "write"
  <2>1. ASSUME NEW k \in Index, k = n[d]
        PROVE  /\ Mine(d, k)' /\ Old(k + 1)' /\ (Old(k)' \/ At(k)' = MyValue(d))
               /\ answers[d] # <<>> => At(k)' = MyValue(d)
    BY <1>1, <2>1, SameData DEF ShapeOK, Writes
  <2> QED
    BY <1>1, <2>1 DEF ShapeOK, Writes
<1>2. CASE pc[d] = "clear"
  <2>1. ASSUME NEW k \in Index, k = n[d], NEW m, m = nvalues[d]
        PROVE  /\ Mine(d, m)' /\ Gone(m, k)' /\ Old(k + 1)'
               /\ Old(k)' \/ (~Untried(d) /\ At(k)' = Empty)
               /\ answers[d] # <<>> => At(k)' = Empty
               /\ answers[d] # <<>> /\ ~retried[d] /\ answers[d][1].errcode = "not_found" =>
                    Gone(k, MaxLength)'
    BY <1>2, <2>1, SameData DEF ShapeOK, Clears
  <2> QED
    BY <1>2, <2>1 DEF ShapeOK, Clears
<1>3. CASE pc[d] = "unlock" /\ Lock.value = MyValue(d)
  <2>1. ASSUME NEW m, m = nvalues[d] PROVE Mine(d, m)' /\ Gone(m, MaxLength)'
    BY <1>3, <2>1, SameData DEF ShapeOK, Done
  <2> QED
    BY <1>3, <2>1 DEF ShapeOK, Done
<1> QED
  BY <1>1, <1>2, <1>3 DEF ShapeOK

\* A request's place, when its client's state stays.
LEMMA SamePlace ==
  ASSUME NEW q \in Sent, RequestIn(q),
         LET d == q.client
         IN  /\ pc'[d] = pc[d] /\ n'[d] = n[d] /\ nvalues'[d] = nvalues[d]
             /\ serial'[d] = serial[d] /\ MyValue(d)' = MyValue(d)
  PROVE  RequestIn(q)'
BY DEF RequestIn, Copy

\* A client that begins a sequence is not the lock's holder.
LEMMA InShapeBegin ==
  ASSUME InShape, Respected', NEW c \in Client, NEW k \in 1 .. MaxLength, Begin(c, k)
  PROVE  InShape'
<1> USE DEF InShape
<1>1. /\ pc[c] = "idle" /\ pc' = [pc EXCEPT ![c] = "lock"]
      /\ sequence' = [sequence EXCEPT ![c] = @ + 1] /\ serial' = [serial EXCEPT ![c] = @ + 1]
      /\ retried' = [retried EXCEPT ![c] = FALSE] /\ n' = [n EXCEPT ![c] = 0]
      /\ nvalues' = [nvalues EXCEPT ![c] = k]
      /\ lockVersion' = [lockVersion EXCEPT ![c] = 0]
      /\ UNCHANGED <<asking, inbox, answers, db>>
  BY DEF Begin
<1>2. /\ DOMAIN pc = Client /\ DOMAIN sequence = Client /\ DOMAIN serial = Client
      /\ DOMAIN retried = Client /\ DOMAIN n = Client /\ DOMAIN nvalues = Client
      /\ DOMAIN lockVersion = Client /\ TypeOK
  BY DEF Respected, TypeOK
<1>3. /\ pc'[c] = "lock" /\ Lock' = Lock
      /\ \A i \in Index : At(i)' = At(i)
      /\ \A d \in Client \ {c} : /\ pc'[d] = pc[d] /\ MyValue(d)' = MyValue(d)
                                 /\ serial'[d] = serial[d] /\ retried'[d] = retried[d]
                                 /\ n'[d] = n[d] /\ nvalues'[d] = nvalues[d]
                                 /\ lockVersion'[d] = lockVersion[d]
  BY <1>1, <1>2 DEF MyValue, Lock, At
<1>4. PlaceInv'
  <2>1. ASSUME NEW q \in Sent, RequestIn(q) PROVE RequestIn(q)'
    <3>1. q.client \in Client
      BY DEF Sent
    <3>2. CASE q.client = c
      BY <1>1, <2>1, <3>2 DEF RequestIn
    <3>3. CASE q.client # c
      BY <1>3, <2>1, <3>1, <3>3, SamePlace
    <3> QED
      BY <3>2, <3>3
  <2> QED
    BY <1>1, <1>2, <2>1, InboxType DEF PlaceInv
<1>5. HolderInv'
  BY <1>1, <1>3 DEF HolderInv
<1>6. NumberInv'
  BY <1>3 DEF NumberInv
\* The new sequence is not the one that the lock names.
<1>7. ASSUME NEW d \in Client, Lock'.value = MyValue(d)', pc'[d] \in {"lock", "threw"}
      PROVE  Lock.value = MyValue(d) /\ pc[d] \in {"lock", "threw"}
  <2>1. CASE d = c
    <3>1. MyValue(c)'[1] = c /\ MyValue(c)' # Empty
      <4>1. /\ sequence'[c] \in 0 .. begun' /\ begun' \in 0 .. MaxSequences
            /\ MaxSequences \in Nat /\ sequence'[c] > 0
        BY <1>3, Bounds DEF Respected, TypeOK
      <4>2. sequence'[c] \in 1 .. MaxSequences
        BY <4>1
      <4> QED
        BY <4>2, Values DEF MyValue
    <3>2. PICK b \in Client : Lock.value = MyValue(b) /\ pc[b] # "idle"
      BY <1>3, <1>7, <2>1, <3>1 DEF HolderInv
    <3>3. b = c
      BY <1>2, <1>3, <1>7, <2>1, <3>1, <3>2, MyValueType
    <3> QED
      BY <1>1, <3>2, <3>3
  <2>2. CASE d # c
    BY <1>3, <1>7, <2>2
  <2> QED
    BY <2>1, <2>2
<1>8. FreshInv'
  <2>1. Old(0) => Old(0)'
    BY <1>3, SameData
  <2> QED
    BY <1>3, <1>7, <2>1 DEF FreshInv
<1>9. ShapeInv'
  <2> SUFFICES ASSUME NEW d \in Client PROVE ShapeOK(d)'
    BY DEF ShapeInv
  <2>1. CASE d = c
    BY <1>3, <2>1 DEF ShapeOK
  <2>2. CASE d # c
    <3>1. ShapeOK(d) /\ (n[d] \in Index \/ pc[d] \notin {"write", "clear"})
      BY <1>2 DEF ShapeInv, TypeOK
    <3>2. Untried(d)' => Untried(d)
      BY <1>1, <1>3, <2>2 DEF Untried, Copy
    <3> QED
      BY <1>1, <1>3, <2>2, <3>1, <3>2, SameShape
  <2> QED
    BY <2>1, <2>2
<1> QED
  BY <1>4, <1>5, <1>6, <1>8, <1>9

\* The steps that move neither a client from its phase nor the database: a request is sent or
\* lost, a timer goes off, or a client will ask for the lock again.
LEMMA InShapeAsk ==
  ASSUME InShape, Respected', NEW c \in Client, Send(c) \/ Timeout(c)
  PROVE  InShape'
<1> USE DEF InShape
<1>1. /\ UNCHANGED <<pc, serial, sequence, nvalues, n, lockVersion, answers, db>>
      /\ retried' = retried \/ retried' = [retried EXCEPT ![c] = TRUE]
      /\ inbox' = inbox \/ (pc[c] \in Phase /\ inbox' = Append(inbox, RequestOf(c)))
  BY Zenon DEF Send, Timeout
<1>2. TypeOK /\ DOMAIN retried = Client /\ DOMAIN asking = Client
  BY DEF Respected, TypeOK
<1>3. /\ Lock' = Lock /\ \A i \in Index : At(i)' = At(i)
      /\ \A d \in Client : MyValue(d)' = MyValue(d) /\ (retried[d] => retried'[d])
  BY <1>1, <1>2 DEF MyValue, Lock, At
<1>4. PlaceInv'
  <2>1. ASSUME NEW q \in Sent, RequestIn(q) PROVE RequestIn(q)'
    <3>1. q.client \in Client
      BY DEF Sent
    <3> QED
      BY <1>1, <1>3, <2>1, <3>1, SamePlace
  <2>2. ASSUME pc[c] \in Phase PROVE RequestOf(c) \in Sent /\ RequestIn(RequestOf(c))
    <3> DEFINE q == RequestOf(c)
    <3>1. /\ q \in Sent /\ q.client = c /\ q.serial = serial[c] /\ q.value = MyValue(c)
          /\ pc[c] = "lock" => q.type = "cas" /\ q.key = LockKey
          /\ pc[c] = "write" => q.type = "put" /\ q.key = n[c]
          /\ pc[c] = "clear" => q.type = "remove" /\ q.key = n[c]
          /\ pc[c] = "unlock" => q.type = "remove" /\ q.key = LockKey
      BY <1>2, <2>2, RequestType
    <3>2. /\ n[c] \in Nat
          /\ pc[c] = "write" => n[c] < nvalues[c]
          /\ pc[c] = "clear" => nvalues[c] <= n[c]
      BY DEF Respected, TypeOK, NumberInv
    <3> HIDE DEF q
    <3>3. RequestIn(q)
      BY <2>2, <3>1, <3>2 DEF RequestIn, Phase, Copy
    <3> QED
      BY <3>1, <3>3 DEF q
  <2>3. inbox \in Seq(Sent) /\ \A i \in 1 .. Len(inbox) : inbox[i] \in Sent /\ RequestIn(inbox[i])
    BY <1>2, InboxType DEF PlaceInv
  <2>4. \A i \in 1 .. Len(inbox') : inbox'[i] \in Sent /\ RequestIn(inbox'[i])
    <3> HIDE DEF InShape
    <3> DEFINE x == RequestOf(c)
    <3>1. CASE inbox' = inbox
      BY <2>3, <3>1
    <3>2. CASE pc[c] \in Phase /\ inbox' = Append(inbox, x)
      <4>1. x \in Sent /\ RequestIn(x)
        BY <2>2, <3>2
      <4> HIDE DEF x
      <4>2. \A i \in 1 .. Len(inbox') : (i \in 1 .. Len(inbox) /\ inbox'[i] = inbox[i]) \/ inbox'[i] = x
        BY <2>3, <3>2, <4>1
      <4> QED
        BY <2>3, <4>1, <4>2
    <3> QED
      BY <1>1, <3>1, <3>2
  <2>5. \A i \in 1 .. Len(inbox') : RequestIn(inbox[i])'
    <3> HIDE DEF InShape
    <3> QED
      BY <2>1, <2>4
  <2> QED
    BY <2>5 DEF PlaceInv
<1>5. HolderInv' /\ NumberInv'
  BY <1>1, <1>3 DEF HolderInv, NumberInv
<1>6. FreshInv'
  <2>1. Old(0) => Old(0)'
    BY <1>3, SameData
  <2> QED
    BY <1>1, <1>3, <2>1 DEF FreshInv
\* A request that is sent or lost, and a timeout, take nothing back.
<1>7. ASSUME NEW d \in Client, Untried(d)' PROVE Untried(d)
  <2>1. pc[d] \in Phase /\ ~retried[d]
    BY <1>1, <1>3, <1>7 DEF Untried
  <2>2. CASE Send(c)
    <3>1. CASE d = c
      BY <2>1, <2>2, <3>1 DEF Send, Untried
    <3>2. CASE d # c
      <4>1. asking'[d] = asking[d] /\ asking' = [asking EXCEPT ![c] = TRUE]
        BY <1>2, <2>2, <3>2 DEF Send
      <4>2. asking[d] => \E i \in 1 .. Len(inbox') : Copy(d, inbox'[i])
        BY <1>1, <1>7, <4>1 DEF Untried, Copy
      <4>3. inbox' = inbox \/ (inbox' = Append(inbox, RequestOf(c)) /\ RequestOf(c).client = c /\ RequestOf(c) \in Sent)
        BY <1>1, <1>2, RequestType
      <4>4. \A i \in 1 .. Len(inbox') :
              Copy(d, inbox'[i]) => i \in 1 .. Len(inbox) /\ Copy(d, inbox[i])
        <5> DEFINE x == RequestOf(c)
        <5>1. x.client = c => ~Copy(d, x)
          BY <3>2 DEF Copy
        <5>2. inbox \in Seq(Sent)
          BY <1>2, InboxType
        <5> HIDE DEF x, InShape
        <5>3. CASE inbox' = Append(inbox, x) /\ x.client = c /\ x \in Sent
          <6>1. \A i \in 1 .. Len(inbox') : (i \in 1 .. Len(inbox) /\ inbox'[i] = inbox[i]) \/ inbox'[i] = x
            BY <5>2, <5>3
          <6> QED
            BY <5>1, <5>3, <6>1
        <5> QED
          BY <4>3, <5>3 DEF x
      <4> QED
        BY <2>1, <4>2, <4>4 DEF Untried
    <3> QED
      BY <3>1, <3>2
  <2>3. CASE Timeout(c)
    <3>1. /\ d # c /\ asking'[d] = asking[d] /\ inbox' = inbox
      BY <1>2, <1>7, <2>3 DEF Timeout, Untried
    <3> QED
      BY <1>1, <1>7, <2>1, <3>1 DEF Untried, Copy
  <2> QED
    BY <2>2, <2>3
<1>8. ShapeInv'
  <2> SUFFICES ASSUME NEW d \in Client PROVE ShapeOK(d)'
    BY DEF ShapeInv
  <2>1. ShapeOK(d) /\ (n[d] \in Index \/ pc[d] \notin {"write", "clear"})
    BY <1>2 DEF ShapeInv, TypeOK
  <2> QED
    BY <1>1, <1>3, <1>7, <2>1, SameShape
<1> QED
  BY <1>4, <1>5, <1>6, <1>8

\* A client that goes on leaves behind it what its next phase takes as given.
LEMMA InShapeMoves ==
  ASSUME InShape, Respected', NEW c \in Client, Answer(c),
         NEW p \in Phase \cup {"idle"}, NEW m \in 0 .. MaxLength, Moves(c, p, m)
  PROVE  InShape'
<1> USE DEF InShape
<1> DEFINE a == answers[c][1]
<1>1. /\ pc[c] \in Phase /\ answers[c] # <<>> /\ Tells(c, a) /\ TypeOK
      /\ UNCHANGED <<sequence, nvalues, inbox, db>>
  BY AnswerCases DEF Respected
<1>2. /\ pc' = [pc EXCEPT ![c] = p] /\ n' = [n EXCEPT ![c] = m]
      /\ serial' = IF p = "idle" THEN serial ELSE [serial EXCEPT ![c] = @ + 1]
      /\ retried' = [retried EXCEPT ![c] = FALSE] /\ asking' = [asking EXCEPT ![c] = FALSE]
      /\ answers' = [answers EXCEPT ![c] = <<>>]
  BY DEF Moves, GoOn
<1>3. \/ /\ pc[c] = "lock" /\ p = "write" /\ m = 0
         /\ a.errcode = "ok" \/ a.actual = MyValue(c)
         /\ lockVersion' = [lockVersion EXCEPT ![c] = a.version]
      \/ /\ pc[c] = "write" /\ m = n[c] + 1 /\ lockVersion' = lockVersion
         /\ \/ p = "write" /\ m < nvalues[c]
            \/ p = "clear" /\ m >= nvalues[c] /\ m < MaxLength
            \/ p = "unlock" /\ m >= nvalues[c] /\ m >= MaxLength
      \/ /\ pc[c] = "clear" /\ m = n[c] + 1 /\ lockVersion' = lockVersion
         /\ \/ p = "clear" /\ m < MaxLength
            \/ p = "unlock" /\ m >= MaxLength
      \/ /\ pc[c] = "clear" /\ m = n[c] /\ p = "unlock" /\ lockVersion' = lockVersion
         /\ ~retried[c] /\ a.errcode = "not_found"
      \/ pc[c] = "unlock" /\ p = "idle" /\ m = 0 /\ lockVersion' = lockVersion
  BY DEF Moves
<1>4. /\ DOMAIN pc = Client /\ DOMAIN n = Client /\ DOMAIN serial = Client
      /\ DOMAIN retried = Client /\ DOMAIN asking = Client /\ DOMAIN answers = Client
      /\ DOMAIN lockVersion = Client /\ serial[c] \in Nat
      /\ n[c] \in 0 .. MaxLength /\ nvalues[c] \in 0 .. MaxLength /\ nvalues[c] > 0
      /\ pc[c] \in {"write", "clear"} => n[c] \in Index
  BY <1>1 DEF TypeOK, Phase
<1>5. /\ pc'[c] = p /\ n'[c] = m /\ ~retried'[c] /\ ~asking'[c] /\ answers'[c] = <<>>
      /\ \A d \in Client \ {c} : /\ pc'[d] = pc[d] /\ n'[d] = n[d] /\ serial'[d] = serial[d]
                                 /\ retried'[d] = retried[d] /\ asking'[d] = asking[d]
                                 /\ answers'[d] = answers[d] /\ lockVersion'[d] = lockVersion[d]
      /\ \A d \in Client : MyValue(d)' = MyValue(d)
      /\ Lock' = Lock /\ nvalues' = nvalues
      /\ \A i \in Index : At(i)' = At(i)
  <2> HIDE DEF InShape, a
  <2> QED
    BY <1>1, <1>2, <1>3, <1>4 DEF MyValue, Lock, At
<1>6. MaxLength \in Nat /\ Index = 0 .. (MaxLength - 1)
  BY Bounds DEF Index
\* All that the client has on its way are copies of the request that was answered.
<1>7. \A i \in 1 .. Len(inbox) :
        /\ inbox[i] \in Sent /\ inbox[i].client \in Client
        /\ RequestIn(inbox[i])
        /\ inbox[i].client = c => inbox[i] = RequestOf(c)
  <2>1. \A i \in 1 .. Len(inbox) :
          /\ inbox[i] \in Sent /\ inbox[i].client \in Client /\ RequestOK(inbox[i])
          /\ inbox[i].client = c => inbox[i].serial = serial[c]
    BY <1>1, InboxType, NoRemnant DEF Respected, RequestInv
  <2>2. \A i \in 1 .. Len(inbox) : inbox[i].client = c => inbox[i] = RequestOf(c)
    BY <1>1, <2>1 DEF RequestOK, Copy
  <2> QED
    BY <2>1, <2>2 DEF PlaceInv
<1>8. PlaceInv'
  <2>1. ASSUME NEW q \in Sent, RequestIn(q), q.client = c => q = RequestOf(c)
        PROVE  RequestIn(q)'
    <3>1. q.client \in Client
      BY DEF Sent
    <3>2. CASE q.client = c
      <4>1. /\ q.value = MyValue(c)
            /\ pc[c] = "lock" => q.type = "cas"
            /\ pc[c] = "write" => q.type = "put" /\ q.key = n[c] /\ q.key < nvalues[c]
            /\ pc[c] = "clear" => q.type = "remove" /\ q.key = n[c] /\ nvalues[c] <= n[c]
            /\ pc[c] = "unlock" => q.type = "remove" /\ q.key = LockKey
        BY <1>1, <2>1, <3>2, RequestType DEF NumberInv
      <4> HIDE DEF InShape, a
      <4>2. pc[c] = "clear" => q.key <= m /\ (p = "clear" => q.key < m) /\ p \in {"clear", "unlock"}
        BY <1>3, <1>4, <4>1
      <4>3. pc[c] = "write" => q.key <= m /\ p \in {"write", "clear", "unlock"}
        BY <1>3, <1>4, <4>1
      <4>4. pc[c] = "lock" => p = "write" /\ m = 0
        BY <1>3
      <4> QED
        BY <1>1, <1>5, <3>2, <4>1, <4>2, <4>3, <4>4 DEF RequestIn, Phase
    <3>3. CASE q.client # c
      BY <1>5, <2>1, <3>1, <3>3, SamePlace
    <3> QED
      BY <3>2, <3>3
  <2> QED
    BY <1>1, <1>7, <2>1 DEF PlaceInv
<1>9. HolderInv'
  <2> SUFFICES ASSUME Lock.value # Empty
               PROVE  \E d \in Client : /\ Lock.value = MyValue(d) /\ pc'[d] # "idle"
                                        /\ pc'[d] \in {"write", "clear", "unlock"} => Lock.version = lockVersion'[d]
    BY <1>5 DEF HolderInv
  <2>1. PICK d \in Client : /\ Lock.value = MyValue(d) /\ pc[d] # "idle"
                            /\ pc[d] \in {"write", "clear", "unlock"} => Lock.version = lockVersion[d]
    BY DEF HolderInv
  <2>2. CASE d # c
    BY <1>5, <2>1, <2>2
  <2>3. CASE d = c
    <3>1. pc[c] # "unlock"
      BY <1>1, <2>1, <2>3 DEF Respected, AnswerInv, AnswerOK
    <3>2. Lock.version = lockVersion'[c]
      <4>1. CASE pc[c] = "lock"
        BY <1>1, <1>3, <1>4, <4>1 DEF Tells
      <4>2. CASE pc[c] # "lock"
        BY <1>1, <1>3, <2>1, <2>3, <4>2 DEF Phase
      <4> QED
        BY <4>1, <4>2
    <3>3. p # "idle"
      BY <1>3, <3>1
    <3> QED
      BY <1>5, <2>1, <2>3, <3>2, <3>3
  <2> QED
    BY <2>2, <2>3
<1>10. NumberInv'
  <2> SUFFICES ASSUME NEW d \in Client
               PROVE  /\ pc'[d] = "write" => n'[d] < nvalues[d]
                      /\ pc'[d] \in {"clear", "unlock"} => nvalues[d] <= n'[d]
    BY <1>5 DEF NumberInv
  <2>1. CASE d = c
    <3>1. pc[c] = "clear" => nvalues[c] <= n[c]
      BY DEF NumberInv
    <3> HIDE DEF InShape, a
    <3> QED
      BY <1>3, <1>4, <1>5, <2>1, <3>1
  <2>2. CASE d # c
    BY <1>5, <2>2 DEF NumberInv
  <2> QED
    BY <2>1, <2>2
<1>11. FreshInv'
  <2>1. Old(0) => Old(0)'
    BY <1>5, SameData
  <2>2. p \notin {"lock", "threw"}
    BY <1>3
  <2> QED
    BY <1>5, <2>1, <2>2 DEF FreshInv
<1>12. ShapeInv'
  <2> SUFFICES ASSUME NEW d \in Client PROVE ShapeOK(d)'
    BY DEF ShapeInv
  <2>1. CASE d # c
    <3>1. ShapeOK(d) /\ (n[d] \in Index \/ pc[d] \notin {"write", "clear"})
      BY <1>1 DEF ShapeInv, TypeOK
    <3>2. Untried(d)' => Untried(d)
      BY <1>1, <1>5, <2>1 DEF Untried, Copy
    <3> QED
      BY <1>5, <2>1, <3>1, <3>2, SameShape
  <2>2. CASE d = c
    <3>1. ShapeOK(c) /\ Index \subseteq Nat
      BY Keys DEF ShapeInv
    <3>2. ASSUME p = "write"
          PROVE  m \in Index /\ Mine(c, m) /\ Old(m)
      <4>1. CASE pc[c] = "lock"
        <5>1. m = 0 /\ Lock.value = MyValue(c)
          BY <1>1, <1>3, <4>1 DEF Tells
        <5>2. Old(0)
          BY <4>1, <5>1 DEF FreshInv
        <5>3. Mine(c, 0)
          BY <3>1 DEF Mine
        <5> QED
          BY <1>6, <5>1, <5>2, <5>3, Bounds
      <4>2. CASE pc[c] = "write"
        <5>1. m = n[c] + 1 /\ m < nvalues[c]
          BY <1>3, <3>2, <4>2
        <5>2. Mine(c, n[c]) /\ Old(n[c] + 1) /\ At(n[c]) = MyValue(c)
          BY <1>1, <3>1, <4>2 DEF ShapeOK, Writes
        <5>3. Mine(c, m)
          BY <1>4, <3>1, <5>1, <5>2 DEF Mine
        <5>4. m \in Index
          BY <1>4, <1>6, <5>1
        <5> QED
          BY <5>1, <5>2, <5>3, <5>4
      <4> QED
        BY <1>3, <3>2, <4>1, <4>2
    <3>3. ASSUME p = "clear"
          PROVE  m \in Index /\ Mine(c, nvalues[c]) /\ Gone(nvalues[c], m) /\ Old(m)
      <4>0. m \in Index
        BY <1>3, <1>6, <3>3
      <4>1. CASE pc[c] = "write"
        <5>1. m = n[c] + 1 /\ m = nvalues[c]
          <6>1. n[c] < nvalues[c]
            BY <4>1 DEF NumberInv
          <6>2. m = n[c] + 1 /\ m >= nvalues[c]
            BY <1>3, <3>3, <4>1
          <6> HIDE DEF InShape
          <6> QED
            BY <1>4, <6>1, <6>2
        <5>2. Mine(c, n[c]) /\ Old(n[c] + 1) /\ At(n[c]) = MyValue(c)
          BY <1>1, <3>1, <4>1 DEF ShapeOK, Writes
        <5>3. Mine(c, m)
          BY <1>4, <3>1, <5>1, <5>2 DEF Mine
        <5>4. Gone(m, m)
          BY <3>1, <4>0 DEF Gone
        <5> QED
          BY <4>0, <5>1, <5>2, <5>3, <5>4
      <4>2. CASE pc[c] = "clear"
        <5>1. m = n[c] + 1
          BY <1>3, <3>3, <4>2
        <5>2. Mine(c, nvalues[c]) /\ Gone(nvalues[c], n[c]) /\ Old(n[c] + 1) /\ At(n[c]) = Empty
          BY <1>1, <3>1, <4>2 DEF ShapeOK, Clears
        <5>3. Gone(nvalues[c], m)
          <6> SUFFICES ASSUME NEW i \in Index, nvalues[c] <= i, i < m PROVE At(i) = Empty
            BY DEF Gone
          <6>1. i < n[c] \/ i = n[c]
            BY <1>4, <1>6, <3>1, <5>1
          <6> QED
            BY <5>2, <6>1 DEF Gone
        <5> QED
          BY <4>0, <5>1, <5>2, <5>3
      <4> QED
        BY <1>3, <3>3, <4>1, <4>2
    <3>4. ASSUME p = "unlock"
          PROVE  Mine(c, nvalues[c]) /\ Gone(nvalues[c], MaxLength)
      <4>1. CASE pc[c] = "write"
        <5>1. m = n[c] + 1 /\ m = nvalues[c] /\ m >= MaxLength
          <6>1. n[c] < nvalues[c]
            BY <4>1 DEF NumberInv
          <6>2. m = n[c] + 1 /\ m >= nvalues[c] /\ m >= MaxLength
            BY <1>3, <3>4, <4>1
          <6> HIDE DEF InShape
          <6> QED
            BY <1>4, <6>1, <6>2
        <5>2. Mine(c, n[c]) /\ At(n[c]) = MyValue(c)
          BY <1>1, <3>1, <4>1 DEF ShapeOK, Writes
        <5>3. Mine(c, m)
          BY <1>4, <3>1, <5>1, <5>2 DEF Mine
        <5>4. Gone(nvalues[c], MaxLength)
          BY <1>4, <1>6, <5>1 DEF Gone
        <5> QED
          BY <5>1, <5>3, <5>4
      <4>2. CASE pc[c] = "clear" /\ m = n[c] + 1 /\ m >= MaxLength
        <5>1. Mine(c, nvalues[c]) /\ Gone(nvalues[c], n[c]) /\ At(n[c]) = Empty
          BY <1>1, <3>1, <4>2 DEF ShapeOK, Clears
        <5>2. Gone(nvalues[c], MaxLength)
          BY <1>4, <1>6, <4>2, <5>1 DEF Gone
        <5> QED
          BY <5>1, <5>2
      <4>3. CASE pc[c] = "clear" /\ ~retried[c] /\ a.errcode = "not_found"
        <5>1. Mine(c, nvalues[c]) /\ Gone(nvalues[c], n[c]) /\ Gone(n[c], MaxLength)
          BY <1>1, <3>1, <4>3 DEF ShapeOK, Clears
        <5>2. Gone(nvalues[c], MaxLength)
          BY <1>4, <1>6, <5>1 DEF Gone
        <5> QED
          BY <5>1, <5>2
      <4> QED
        BY <1>3, <3>4, <4>1, <4>2, <4>3
    <3>5. CASE p = "write"
      <4>1. Old(m + 1)
        BY <3>2, <3>5, OldNext
      <4>2. Mine(c, m)' /\ Old(m)' /\ Old(m + 1)'
        BY <1>5, <3>2, <3>5, <4>1, SameData
      <4> QED
        BY <1>5, <2>2, <3>5, <4>2 DEF ShapeOK, Writes
    <3>6. CASE p = "clear"
      <4>1. Old(m + 1)
        BY <3>3, <3>6, OldNext
      <4>2. ASSUME NEW v, v = nvalues[c]
            PROVE Mine(c, v)' /\ Gone(v, m)' /\ Old(m)' /\ Old(m + 1)'
        BY <1>5, <3>3, <3>6, <4>1, <4>2, SameData
      <4> QED
        BY <1>5, <2>2, <3>6, <4>2 DEF ShapeOK, Clears
    <3>7. CASE p = "unlock"
      <4>1. ASSUME NEW v, v = nvalues[c] PROVE Mine(c, v)' /\ Gone(v, MaxLength)'
        BY <1>5, <3>4, <3>7, <4>1, SameData
      <4> QED
        BY <1>5, <2>2, <3>7, <4>1 DEF ShapeOK, Done
    <3>8. CASE p = "idle"
      BY <1>5, <2>2, <3>8 DEF ShapeOK
    <3> QED
      BY <1>3, <3>5, <3>6, <3>7, <3>8
  <2> QED
    BY <2>1, <2>2
<1> QED
  BY <1>8, <1>9, <1>10, <1>11, <1>12

\* The client gives up, or asks for the lock again.
LEMMA InShapeWaits ==
  ASSUME InShape, Respected', NEW c \in Client, Answer(c), pc[c] = "lock",
         Throw(c) \/ AsksAgain(c)
  PROVE  InShape'
<1> USE DEF InShape
<1>1. /\ UNCHANGED <<sequence, nvalues, inbox, db, n, serial, lockVersion>> /\ TypeOK
      /\ pc' = pc \/ pc' = [pc EXCEPT ![c] = "threw"]
      /\ retried' = retried \/ retried' = [retried EXCEPT ![c] = TRUE]
      /\ asking' = [asking EXCEPT ![c] = FALSE]
      /\ \/ answers' = [answers EXCEPT ![c] = <<>>]
         \/ answers' = [answers EXCEPT ![c] = Tail(@)]
  BY AnswerCases DEF Throw, AsksAgain, Respected
<1>2. /\ DOMAIN pc = Client /\ DOMAIN retried = Client /\ DOMAIN asking = Client
      /\ DOMAIN answers = Client
  BY <1>1 DEF TypeOK
<1>3. /\ pc'[c] \in {"lock", "threw"}
      /\ \A d \in Client \ {c} : /\ pc'[d] = pc[d] /\ retried'[d] = retried[d]
                                 /\ asking'[d] = asking[d] /\ answers'[d] = answers[d]
      /\ \A d \in Client : MyValue(d)' = MyValue(d)
      /\ Lock' = Lock
      /\ \A i \in Index : At(i)' = At(i)
  BY <1>1, <1>2 DEF MyValue, Lock, At
<1>4. PlaceInv'
  <2>1. ASSUME NEW q \in Sent, RequestIn(q) PROVE RequestIn(q)'
    <3>1. q.client \in Client
      BY DEF Sent
    <3>2. CASE q.client = c
      BY <1>1, <1>3, <2>1, <3>2 DEF RequestIn
    <3>3. CASE q.client # c
      BY <1>1, <1>3, <2>1, <3>1, <3>3, SamePlace
    <3> QED
      BY <3>2, <3>3
  <2> QED
    BY <1>1, <2>1, InboxType DEF PlaceInv
<1>5. HolderInv' /\ NumberInv'
  BY <1>1, <1>3 DEF HolderInv, NumberInv
<1>6. FreshInv'
  <2>1. Old(0) => Old(0)'
    BY <1>3, SameData
  <2> QED
    BY <1>3, <2>1 DEF FreshInv
<1>7. ShapeInv'
  <2> SUFFICES ASSUME NEW d \in Client PROVE ShapeOK(d)'
    BY DEF ShapeInv
  <2>1. CASE d = c
    BY <1>3, <2>1 DEF ShapeOK
  <2>2. CASE d # c
    <3>1. ShapeOK(d) /\ (n[d] \in Index \/ pc[d] \notin {"write", "clear"})
      BY <1>1 DEF ShapeInv, TypeOK
    <3>2. Untried(d)' => Untried(d)
      BY <1>1, <1>3, <2>2 DEF Untried, Copy
    <3> QED
      BY <1>1, <1>3, <2>2, <3>1, <3>2, SameShape
  <2> QED
    BY <2>1, <2>2
<1> QED
  BY <1>4, <1>5, <1>6, <1>7

\* What the server's step does to the values: nothing new, or it gives the holder's present
\* key the holder's value, or removes the key that the holder asks to remove.
Puts(c) == /\ pc[c] = "write" /\ Lock' = Lock /\ Lock.value = MyValue(c)
           /\ \A i \in Index : At(i)' = IF i = n[c] THEN MyValue(c) ELSE At(i)
Removes(c) == /\ pc[c] = "clear" /\ Lock' = Lock /\ Lock.value = MyValue(c)
              /\ Copy(c, inbox[1]) /\ At(n[c]) # Empty
              /\ \A i \in Index : At(i)' = IF i = n[c] THEN Empty ELSE At(i)

\* The server's step changes no other values.
LEMMA DataEffect ==
  ASSUME InShape, Serve
  PROVE  \/ \A i \in Index : At(i)' = At(i)
         \/ \E c \in Client : Puts(c) \/ Removes(c)
<1> USE DEF InShape
<1> DEFINE r == inbox[1]
           c == r.client
<1>1. /\ r \in Sent /\ c \in Client /\ RequestOK(r) /\ 1 \in 1 .. Len(inbox)
      /\ Nothing(r) \/ Stores(r) \/ Erases(r)
  <2>1. TypeOK /\ RequestInv
    BY DEF Respected
  <2>2. inbox # <<>> /\ inbox \in Seq(Sent)
    BY <2>1, ServeEffect, InboxType
  <2> QED
    BY <2>1, <2>2, ServeEffect
<1>2. RequestIn(r) /\ (r.key # LockKey => Lock.value = r.value)
  BY <1>1 DEF PlaceInv, Respected, LockInv
<1>3. /\ DOMAIN db.map = Index \cup {LockKey} /\ LockKey \notin Index
      /\ r.key \in Index \cup {LockKey} /\ r.type \in {"cas", "put", "remove"}
      /\ Index \subseteq Nat /\ n[c] \in Nat /\ nvalues[c] \in Nat
      /\ pc[c] \in {"write", "clear"} => n[c] \in Index
  <2>1. /\ DOMAIN db.map = Index \cup {LockKey}
        /\ r.key \in Index \cup {LockKey} /\ r.type \in {"cas", "put", "remove"}
    BY <1>1 DEF Respected, TypeOK, Sent
  <2>2. LockKey \notin Index /\ Index \subseteq Nat
    BY Keys
  <2>3. ASSUME NEW d \in Client
        PROVE  n[d] \in Nat /\ nvalues[d] \in Nat /\ (pc[d] \in {"write", "clear"} => n[d] \in Index)
    BY DEF Respected, TypeOK
  <2> QED
    BY <1>1, <2>1, <2>2, <2>3
<1>4. ShapeOK(c)
  BY <1>1 DEF ShapeInv
<1> HIDE DEF r, c, InShape
<1>5. CASE Nothing(r) \/ r.key = LockKey
  BY <1>1, <1>3, <1>5 DEF Nothing, Stores, Erases, At
<1>6. CASE Stores(r) /\ r.key \in Index
  <2>1. /\ r.type = "put" /\ r.value = MyValue(c) /\ Lock.value = MyValue(c) /\ Lock' = Lock
        /\ \A i \in Index : At(i)' = IF i = r.key THEN MyValue(c) ELSE At(i)
    <3>1. r.type = "put"
      BY <1>1, <1>3, <1>6 DEF RequestOK, Stores
    <3>2. r.value = MyValue(c) /\ Lock.value = MyValue(c)
      BY <1>2, <1>3, <1>6, <3>1 DEF RequestIn, c
    <3> QED
      BY <1>3, <1>6, <3>1, <3>2 DEF Stores, At, Lock
  <2>2. /\ pc[c] \in {"write", "clear", "unlock"}
        /\ r.key < nvalues[c] /\ r.key <= n[c]
    BY <1>2, <2>1 DEF RequestIn, c
  <2>3. CASE pc[c] = "write" /\ r.key = n[c]
    BY <1>1, <2>1, <2>3 DEF Puts
  <2>4. CASE ~(pc[c] = "write" /\ r.key = n[c])
    <3>1. At(r.key) = MyValue(c)
      <4>1. CASE pc[c] = "write"
        <5>1. r.key < n[c]
          <6>1. r.key \in Nat /\ n[c] \in Nat /\ r.key <= n[c]
            BY <1>3, <1>6, <2>2
          <6>2. r.key # n[c]
            BY <2>4, <4>1
          <6> QED
            BY <6>1, <6>2
        <5> QED
          BY <1>4, <1>6, <4>1, <5>1 DEF ShapeOK, Writes, Mine
      <4>2. CASE pc[c] = "clear"
        BY <1>4, <1>6, <2>2, <4>2 DEF ShapeOK, Clears, Mine
      <4>3. CASE pc[c] = "unlock"
        BY <1>4, <1>6, <2>1, <2>2, <4>3 DEF ShapeOK, Done, Mine
      <4> QED
        BY <2>2, <4>1, <4>2, <4>3
    <3> QED
      BY <2>1, <3>1
  <2> QED
    BY <2>3, <2>4
<1>7. CASE Erases(r) /\ r.key \in Index
  <2>1. /\ r.type = "remove" /\ Lock.value = MyValue(c) /\ Lock' = Lock /\ At(r.key) # Empty
        /\ pc[c] \in {"clear", "unlock"} /\ nvalues[c] <= r.key /\ r.key <= n[c]
        /\ pc[c] = "clear" => r.key < n[c] \/ Copy(c, r)
        /\ \A i \in Index : At(i)' = IF i = r.key THEN Empty ELSE At(i)
    <3>1. r.type = "remove" /\ r.key # LockKey
      BY <1>3, <1>7 DEF Erases
    <3>2. /\ r.value = MyValue(c) /\ Lock.value = MyValue(c)
          /\ pc[c] \in {"clear", "unlock"} /\ nvalues[c] <= r.key /\ r.key <= n[c]
          /\ pc[c] = "clear" => r.key < n[c] \/ Copy(c, r)
      BY <1>2, <3>1 DEF RequestIn, c
    <3> QED
      BY <1>3, <1>7, <3>1, <3>2 DEF Erases, At, Lock
  <2>2. pc[c] = "clear"
    <3>1. pc[c] # "unlock"
      <4>1. r.key < MaxLength
        BY <1>7, Bounds DEF Index
      <4> QED
        BY <1>4, <1>7, <2>1, <4>1 DEF ShapeOK, Done, Gone
    <3> QED
      BY <2>1, <3>1
  <2>3. ~(r.key < n[c])
    BY <1>4, <1>7, <2>1, <2>2 DEF ShapeOK, Clears, Gone
  <2>4. r.key = n[c] /\ Copy(c, r)
    BY <1>3, <1>7, <2>1, <2>2, <2>3
  <2> QED
    BY <1>1, <2>1, <2>2, <2>4 DEF Removes, r
<1> QED
  BY <1>1, <1>3, <1>5, <1>6, <1>7

\* The shape before and behind a key whose value changes.
LEMMA ChangedAt ==
  ASSUME NEW k \in Index, NEW w, \A i \in Index : At(i)' = IF i = k THEN w ELSE At(i)
  PROVE  /\ Old(k + 1) => Old(k + 1)'
         /\ \A m : Gone(m, k) => Gone(m, k)'
         /\ \A c \in Client, m \in Nat : MyValue(c)' = MyValue(c) /\ m <= k /\ Mine(c, m) => Mine(c, m)'
         /\ At(k)' = w
<1>1. Index \subseteq Nat /\ k \in Nat
  BY Keys
<1>2. Old(k + 1) => Old(k + 1)'
  <2> SUFFICES ASSUME Old(k + 1) PROVE Old(k + 1)'
    OBVIOUS
  <2>1. PICK e \in k + 1 .. MaxLength, v \in Value :
          \A i \in Index : i >= k + 1 => At(i) = IF i < e THEN v ELSE Empty
    BY DEF Old
  <2>2. \A i \in Index : i >= k + 1 => At(i)' = IF i < e THEN v ELSE Empty
    BY <1>1, <2>1
  <2> QED
    BY <2>2 DEF Old
<1>3. \A m : Gone(m, k) => Gone(m, k)'
  BY <1>1 DEF Gone
<1>4. ASSUME NEW c \in Client, NEW m \in Nat, MyValue(c)' = MyValue(c), m <= k, Mine(c, m)
      PROVE  Mine(c, m)'
  BY <1>1, <1>4 DEF Mine
<1> QED
  BY <1>2, <1>3, <1>4

\* The server's step, whatever copy of a request it serves.
LEMMA InShapeServe ==
  ASSUME InShape, Respected', Serve
  PROVE  InShape'
<1> USE DEF InShape
<1> DEFINE r == inbox[1]
<1>1. /\ TypeOK /\ RequestInv /\ r \in Sent /\ r.client \in Client /\ RequestOK(r)
      /\ RequestIn(r) /\ AnswerTo(r)
      /\ Nothing(r) \/ Stores(r) \/ Erases(r)
      /\ \A i \in 1 .. Len(inbox') : inbox'[i] = inbox[i + 1] /\ i + 1 \in 1 .. Len(inbox)
      /\ \/ answers' = answers
         \/ /\ Copy(r.client, r) /\ pc[r.client] \in Phase
            /\ answers' = [answers EXCEPT ![r.client] = Append(@, DB!Response(db, r))]
      /\ UNCHANGED clientVars
  <2>1. TypeOK /\ RequestInv
    BY DEF Respected
  <2>2. inbox # <<>> /\ inbox \in Seq(Sent)
    BY <2>1, ServeEffect, InboxType
  <2>3. 1 \in 1 .. Len(inbox)
    BY <2>2
  <2> QED
    BY <2>1, <2>2, <2>3, ServeEffect DEF PlaceInv
<1>2. /\ pc' = pc /\ retried' = retried /\ serial' = serial /\ nvalues' = nvalues /\ n' = n
      /\ lockVersion' = lockVersion
      /\ \A d \in Client : MyValue(d)' = MyValue(d)
  BY <1>1 DEF clientVars, MyValue
<1>3. \A d \in Client :
        /\ answers[d] \in Seq(Answered) /\ n[d] \in Nat /\ nvalues[d] \in Nat
        /\ pc[d] \in {"write", "clear"} => n[d] \in Index
        /\ pc[d] # "idle" => MyValue(d)[1] = d /\ MyValue(d) # Empty
  <2> SUFFICES ASSUME NEW d \in Client
               PROVE  /\ answers[d] \in Seq(Answered) /\ n[d] \in Nat /\ nvalues[d] \in Nat
                      /\ pc[d] \in {"write", "clear"} => n[d] \in Index
                      /\ pc[d] # "idle" => MyValue(d)[1] = d /\ MyValue(d) # Empty
    OBVIOUS
  <2>1. pc[d] # "idle" => MyValue(d)[1] = d /\ MyValue(d) # Empty
    BY <1>1, MyValueType
  <2>2. answers[d] \in Seq(Answered) /\ n[d] \in Nat /\ nvalues[d] \in Nat
    BY <1>1 DEF TypeOK
  <2>3. pc[d] \in {"write", "clear"} => n[d] \in Index
    BY <1>1 DEF TypeOK
  <2> QED
    BY <2>1, <2>2, <2>3
<1>4. \/ Lock' = Lock
      \/ /\ Lock.value = Empty /\ Lock'.value = MyValue(r.client)
         /\ pc[r.client] \in {"lock", "threw"}
      \/ Unlocks(r)
  <2>1. Lock' = Lock \/ Locks(r) \/ Unlocks(r)
    BY <1>1, LockEffect
  <2>2. ASSUME Locks(r)
        PROVE  /\ Lock.value = Empty /\ Lock'.value = MyValue(r.client)
               /\ pc[r.client] \in {"lock", "threw"}
    <3>1. Lock.value = Empty /\ Lock'.value = r.value /\ r.type = "cas"
      BY <2>2 DEF Locks
    <3>2. r.value = MyValue(r.client) /\ pc[r.client] \in {"lock", "threw", "write"}
      BY <1>1, <3>1 DEF RequestIn
    <3>3. pc[r.client] # "write"
      <4>1. ASSUME pc[r.client] = "write" PROVE FALSE
        <5>1. Held(r.client)
          BY <1>1, <4>1 DEF Respected, LockInv
        <5>2. Lock.value = MyValue(r.client) /\ MyValue(r.client) # Empty
          BY <1>1, <1>3, <4>1, <5>1 DEF Held
        <5> QED
          BY <3>1, <5>2
      <4> QED
        BY <4>1
    <3> QED
      BY <3>1, <3>2, <3>3
  <2> QED
    BY <2>1, <2>2
\* Two clients' values differ.
<1>5. ASSUME NEW d \in Client, NEW b \in Client, pc[d] # "idle", pc[b] # "idle",
             MyValue(d) = MyValue(b)
      PROVE  d = b
  BY <1>3, <1>5
<1>6. \/ \A i \in Index : At(i)' = At(i)
      \/ \E c \in Client : Puts(c) \/ Removes(c)
  BY DataEffect
<1> HIDE DEF r
<1>7. PlaceInv'
  <2>1. ASSUME NEW q \in Sent, RequestIn(q) PROVE RequestIn(q)'
    <3>1. q.client \in Client
      BY DEF Sent
    <3> QED
      BY <1>2, <2>1, <3>1, SamePlace
  <2>2. \A i \in 1 .. Len(inbox') : inbox'[i] \in Sent /\ RequestIn(inbox'[i])
    BY <1>1, InboxType DEF PlaceInv
  <2>3. \A i \in 1 .. Len(inbox') : RequestIn(inbox[i])'
    <3> HIDE DEF InShape
    <3> QED
      BY <2>1, <2>2
  <2> QED
    BY <2>3 DEF PlaceInv
<1>8. NumberInv'
  BY <1>2 DEF NumberInv
<1>9. HolderInv'
  <2>1. CASE Lock' = Lock
    BY <1>2, <2>1 DEF HolderInv
  <2>2. CASE /\ Lock.value = Empty /\ Lock'.value = MyValue(r.client)
             /\ pc[r.client] \in {"lock", "threw"}
    BY <1>1, <1>2, <2>2 DEF HolderInv
  <2>3. CASE Unlocks(r)
    BY <2>3 DEF HolderInv, Unlocks
  <2> QED
    BY <1>4, <2>1, <2>2, <2>3
\* A value that is put or removed belongs to the holder, which is not about to lock.
<1>10. ASSUME NEW c \in Client, Puts(c) \/ Removes(c)
       PROVE  /\ Lock' = Lock /\ Lock.value = MyValue(c) /\ Lock.value # Empty
              /\ pc[c] \in {"write", "clear"} /\ n[c] \in Index
              /\ \A d \in Client : pc[d] # "idle" /\ Lock.value = MyValue(d) => d = c
  <2>1. Lock' = Lock /\ Lock.value = MyValue(c) /\ pc[c] \in {"write", "clear"}
    BY <1>10 DEF Puts, Removes
  <2> QED
    BY <1>3, <1>5, <2>1
<1>11. FreshInv'
  <2> SUFFICES ASSUME \/ Lock'.value = Empty
                      \/ \E d \in Client : Lock'.value = MyValue(d) /\ pc[d] \in {"lock", "threw"}
               PROVE  Old(0)'
    BY <1>2 DEF FreshInv
  <2>1. CASE Unlocks(r)
    <3> DEFINE c == r.client
    <3>1. pc[c] = "unlock" /\ c \in Client /\ r.value = Lock.value /\ Lock.value = MyValue(c)
      <4>1. r.type = "remove" /\ r.key = LockKey /\ Copy(c, r) /\ pc[c] = "unlock" /\ r.value = Lock.value
        BY <2>1 DEF Unlocks
      <4>2. r = RequestOf(c)
        BY <1>1, <4>1 DEF RequestOK, Phase
      <4>3. RequestOf(c).value = MyValue(c)
        BY <1>1, <4>1, RequestType DEF Phase
      <4> QED
        BY <1>1, <4>1, <4>2, <4>3
    <3> HIDE DEF c
    <3>2. Done(c)
      BY <3>1 DEF ShapeInv, ShapeOK
    <3>3. nvalues[c] \in 0 .. MaxLength /\ MyValue(c) \in Value /\ Index \subseteq Nat
      BY <1>1, <3>1, MyValueType, Keys DEF TypeOK
    <3>4. \A i \in Index : i >= 0 => At(i) = IF i < nvalues[c] THEN MyValue(c) ELSE Empty
      <4> SUFFICES ASSUME NEW i \in Index PROVE At(i) = IF i < nvalues[c] THEN MyValue(c) ELSE Empty
        OBVIOUS
      <4>1. i < MaxLength
        BY Bounds DEF Index
      <4>2. i < nvalues[c] \/ nvalues[c] <= i
        BY <3>3
      <4> QED
        BY <3>2, <3>3, <4>1, <4>2 DEF Done, Mine, Gone
    <3>5. Old(0)
      BY <3>3, <3>4 DEF Old
    <3>6. \A d \in Client : ~Puts(d) /\ ~Removes(d)
      BY <1>10, <2>1 DEF Unlocks
    <3> QED
      BY <1>6, <3>5, <3>6, SameData
  <2>2. CASE ~Unlocks(r)
    <3>1. Old(0)
      BY <1>4, <2>2 DEF FreshInv
    <3>2. \A c \in Client : ~Puts(c) /\ ~Removes(c)
      <4> SUFFICES ASSUME NEW c \in Client, Puts(c) \/ Removes(c) PROVE FALSE
        OBVIOUS
      <4>1. PICK d \in Client : Lock.value = MyValue(d) /\ pc[d] \in {"lock", "threw"}
        BY <1>10
      <4>2. d = c
        BY <1>10, <4>1
      <4> QED
        BY <1>10, <4>1, <4>2
    <3> QED
      BY <1>6, <3>1, <3>2, SameData
  <2> QED
    BY <2>1, <2>2
<1>12. \A d \in Client :
         \/ answers'[d] = answers[d]
         \/ /\ Copy(d, r) /\ pc[d] \in Phase /\ r = RequestOf(d)
            /\ answers'[d] = Append(answers[d], DB!Response(db, r))
  <2>1. CASE answers' = answers
    BY <2>1
  <2>2. CASE /\ Copy(r.client, r) /\ pc[r.client] \in Phase
             /\ answers' = [answers EXCEPT ![r.client] = Append(@, DB!Response(db, r))]
    <3>1. r = RequestOf(r.client) /\ DOMAIN answers = Client
      BY <1>1, <2>2 DEF RequestOK, TypeOK
    <3> DEFINE c == r.client
               b == DB!Response(db, r)
    <3>2. c \in Client /\ answers' = [answers EXCEPT ![c] = Append(@, b)]
      BY <1>1, <2>2
    <3> SUFFICES ASSUME NEW d \in Client
                 PROVE  answers'[d] = answers[d] \/ (d = c /\ answers'[d] = Append(answers[d], b))
      BY <2>2, <3>1
    <3> HIDE DEF c, b, InShape
    <3> QED
      BY <3>1, <3>2
  <2> QED
    BY <1>1, <2>1, <2>2
<1>13. \A d \in Client :
         /\ pc[d] \in {"write", "clear"} => Lock.value = MyValue(d)
         /\ pc[d] # "idle" /\ Lock.value = MyValue(d) =>
              Puts(d) \/ Removes(d) \/ (\A i \in Index : At(i)' = At(i))
  <2>1. \A d \in Client : pc[d] \in {"write", "clear"} => Lock.value = MyValue(d)
    BY DEF Respected, LockInv, Held
  <2> QED
    BY <1>6, <1>10, <2>1
<1>14. ASSUME NEW d \in Client, pc[d] = "write" PROVE Writes(d)'
  <2> SUFFICES ASSUME NEW k \in Index, k = n[d]
               PROVE  /\ Mine(d, k)' /\ Old(k + 1)' /\ (Old(k)' \/ At(k)' = MyValue(d))
                      /\ answers'[d] # <<>> => At(k)' = MyValue(d)
    BY <1>2, <1>3, <1>14 DEF Writes
  <2>1. /\ Mine(d, k) /\ Old(k + 1) /\ (Old(k) \/ At(k) = MyValue(d))
        /\ answers[d] # <<>> => At(k) = MyValue(d)
    BY <1>14 DEF ShapeInv, ShapeOK, Writes
  <2>2. CASE \A i \in Index : At(i)' = At(i)
    <3>1. Mine(d, k)' /\ Old(k + 1)' /\ (Old(k)' \/ At(k)' = MyValue(d))
      BY <1>2, <2>1, <2>2, SameData
    <3>2. ASSUME answers'[d] # <<>>, answers[d] = <<>> PROVE At(k)' = MyValue(d)
      <4>1. r = RequestOf(d)
        BY <1>12, <3>2
      <4>2. r.type = "put" /\ r.key = k /\ r.value = MyValue(d)
        BY <1>1, <1>14, <4>1, RequestType DEF Phase
      <4>3. Stores(r) /\ k \in DOMAIN db.map
        BY <1>1, <4>2 DEF Nothing, Erases, TypeOK
      <4> QED
        BY <4>2, <4>3 DEF Stores, At
    <3> QED
      BY <2>1, <2>2, <3>1, <3>2
  <2>3. CASE Puts(d)
    <3>1. \A i \in Index : At(i)' = IF i = k THEN MyValue(d) ELSE At(i)
      BY <2>3 DEF Puts
    <3>2. k \in Nat /\ k <= k
      BY Keys
    <3> QED
      BY <1>2, <2>1, <3>1, <3>2, ChangedAt
  <2>4. ~Removes(d)
    BY <1>14 DEF Removes
  <2> QED
    BY <1>13, <1>14, <2>2, <2>3, <2>4
<1>15. ASSUME NEW d \in Client, pc[d] = "clear" PROVE Clears(d)'
  <2> DEFINE b == DB!Response(db, r)
  <2> SUFFICES ASSUME NEW k \in Index, k = n[d], NEW m \in Nat, m = nvalues[d]
               PROVE  /\ Mine(d, m)' /\ Gone(m, k)' /\ Old(k + 1)'
                      /\ Old(k)' \/ (~Untried(d)' /\ At(k)' = Empty)
                      /\ answers'[d] # <<>> => At(k)' = Empty
                      /\ answers'[d] # <<>> /\ ~retried[d] /\ answers'[d][1].errcode = "not_found" =>
                           Gone(k, MaxLength)'
    BY <1>2, <1>3, <1>15 DEF Clears
  <2>1. /\ Mine(d, m) /\ Gone(m, k) /\ Old(k + 1) /\ m <= k
        /\ Old(k) \/ (~Untried(d) /\ At(k) = Empty)
        /\ answers[d] # <<>> => At(k) = Empty
        /\ answers[d] # <<>> /\ ~retried[d] /\ answers[d][1].errcode = "not_found" =>
             Gone(k, MaxLength)
    BY <1>15 DEF ShapeInv, ShapeOK, Clears, NumberInv
  <2>2. Untried(d)' => Untried(d) /\ ~Copy(d, r)
    BY UntriedServe DEF r
\* The answer to the request for this very key.
  <2>3. ASSUME answers'[d] # <<>>, answers[d] = <<>>
        PROVE  /\ Copy(d, r) /\ answers'[d] = <<b>> /\ r.type = "remove" /\ r.key = k
               /\ (Nothing(r) /\ At(k) = Empty) \/ (Erases(r) /\ b.errcode = "ok")
    <3>1. r = RequestOf(d) /\ Copy(d, r) /\ answers'[d] = <<b>>
      <4>1. r = RequestOf(d) /\ Copy(d, r) /\ answers'[d] = Append(<<>>, b)
        BY <1>12, <2>3
      <4> HIDE DEF b
      <4> QED
        BY <4>1
    <3>2. r.type = "remove" /\ r.key = k /\ r.key # LockKey
      BY <1>1, <1>15, <3>1, RequestType, Keys DEF Phase
    <3>3. CASE Nothing(r)
      BY <3>1, <3>2, <3>3 DEF Nothing
    <3>4. CASE Erases(r)
      BY <1>1, <3>1, <3>2, <3>4 DEF AnswerTo
    <3>5. ~Stores(r)
      BY <3>2 DEF Stores
    <3> QED
      BY <1>1, <3>3, <3>4, <3>5
  <2>4. CASE \A i \in Index : At(i)' = At(i)
    <3>1. /\ Mine(d, m)' /\ Gone(m, k)' /\ Old(k + 1)'
          /\ Old(k)' \/ (~Untried(d)' /\ At(k)' = Empty)
      BY <1>2, <2>1, <2>2, <2>4, SameData
    <3>2. ASSUME answers'[d] # <<>>, answers[d] = <<>>
          PROVE  /\ At(k)' = Empty
                 /\ ~retried[d] /\ answers'[d][1].errcode = "not_found" => Gone(k, MaxLength)'
      <4>1. CASE Nothing(r)
        <5>1. At(k) = Empty
          BY <1>1, <2>3, <3>2, <4>1 DEF Nothing, Erases
        <5>2. ASSUME ~retried[d] PROVE Gone(k, MaxLength)
          <6>1. Untried(d)
            <7>1. Copy(d, inbox[1]) /\ 1 \in 1 .. Len(inbox)
              <8>1. inbox # <<>> /\ inbox \in Seq(Sent)
                BY <1>1, ServeEffect, InboxType
              <8>2. 1 \in 1 .. Len(inbox)
                BY <8>1
              <8> QED
                BY <2>3, <3>2, <8>2 DEF r
            <7> QED
              BY <1>15, <5>2, <7>1 DEF Untried, Phase
          <6> QED
            BY <2>1, <5>1, <6>1, OldNext
        <5> QED
          BY <2>4, <5>1, <5>2, SameData
      <4>2. CASE Erases(r) /\ b.errcode = "ok"
        <5>1. At(k)' = Empty
          <6>1. r.key = k /\ k \in DOMAIN db.map
            BY <1>1, <2>3, <3>2 DEF TypeOK
          <6> QED
            BY <4>2, <6>1 DEF Erases, At
        <5>2. answers'[d][1].errcode = "ok"
          BY <2>3, <3>2, <4>2
        <5> QED
          BY <5>1, <5>2
      <4> QED
        BY <2>3, <3>2, <4>1, <4>2
    <3>3. ASSUME answers[d] # <<>>
          PROVE  /\ At(k)' = Empty
                 /\ ~retried[d] /\ answers'[d][1].errcode = "not_found" => Gone(k, MaxLength)'
      <4>1. answers'[d][1] = answers[d][1]
        <5>1. answers[d] \in Seq(Answered) /\ b \in Answered
          BY <1>1, <1>3 DEF AnswerTo
        <5>2. answers'[d] = answers[d] \/ answers'[d] = Append(answers[d], b)
          BY <1>12
        <5> HIDE DEF b, InShape
        <5> QED
          BY <3>3, <5>1, <5>2
      <4> QED
        BY <2>1, <2>4, <3>3, <4>1, SameData
    <3> QED
      BY <3>1, <3>2, <3>3
  <2>5. CASE Removes(d)
    <3>1. /\ \A i \in Index : At(i)' = IF i = k THEN Empty ELSE At(i)
          /\ Copy(d, r) /\ At(k) # Empty
      BY <2>5 DEF Removes, r
    <3>2. /\ Mine(d, m)' /\ Gone(m, k)' /\ Old(k + 1)' /\ At(k)' = Empty
      BY <1>2, <2>1, <3>1, ChangedAt
    <3>3. ~Untried(d)'
      BY <2>2, <3>1
    <3>4. answers'[d] # <<>> => answers'[d][1].errcode = "ok"
      <4> SUFFICES ASSUME answers'[d] # <<>> PROVE answers'[d][1].errcode = "ok"
        OBVIOUS
      <4>1. answers[d] = <<>>
        BY <2>1, <3>1
      <4>2. answers'[d] = <<b>> /\ b.errcode = "ok"
        BY <2>3, <3>1, <4>1
      <4> QED
        BY <4>2
    <3> QED
      BY <3>2, <3>3, <3>4
  <2>6. ~Puts(d)
    BY <1>15 DEF Puts
  <2> QED
    BY <1>13, <1>15, <2>4, <2>5, <2>6
<1>16. ASSUME NEW d \in Client, pc[d] = "unlock", Lock'.value = MyValue(d) PROVE Done(d)'
  <2>1. Lock' = Lock
    <3>1. ~Unlocks(r)
      BY <1>3, <1>16 DEF Unlocks
    <3>2. ASSUME Lock'.value = MyValue(r.client), pc[r.client] \in {"lock", "threw"} PROVE FALSE
      <4>1. d = r.client
        BY <1>1, <1>5, <1>16, <3>2
      <4> QED
        BY <1>16, <3>2, <4>1
    <3> QED
      BY <1>4, <3>1, <3>2
  <2>2. Done(d)
    BY <1>16, <2>1 DEF ShapeInv, ShapeOK
  <2>3. \A i \in Index : At(i)' = At(i)
    BY <1>13, <1>16, <2>1 DEF Puts, Removes
  <2> SUFFICES ASSUME NEW m, m = nvalues[d] PROVE Mine(d, m)' /\ Gone(m, MaxLength)'
    BY <1>2 DEF Done
  <2> QED
    BY <1>2, <2>2, <2>3, SameData DEF Done
<1>17. ShapeInv'
  BY <1>2, <1>14, <1>15, <1>16 DEF ShapeInv, ShapeOK
<1> QED
  BY <1>7, <1>8, <1>9, <1>11, <1>17

\* The shape is inductive.
LEMMA InShapeStep == InShape /\ [Next]_vars => InShape'
<1> SUFFICES ASSUME InShape, [Next]_vars PROVE InShape'
  OBVIOUS
<1>1. Respected' /\ TypeOK
  BY RespectedStep DEF InShape, Respected
<1>2. ASSUME NEW c \in Client, NEW k \in 1 .. MaxLength, Begin(c, k) PROVE InShape'
  BY <1>1, <1>2, InShapeBegin
<1>3. ASSUME NEW c \in Client, Send(c) \/ Timeout(c) PROVE InShape'
  BY <1>1, <1>3, InShapeAsk
<1>4. ASSUME NEW c \in Client, Answer(c) PROVE InShape'
  <2>1. \/ \E p \in Phase \cup {"idle"}, m \in 0 .. MaxLength : Moves(c, p, m)
        \/ pc[c] = "lock" /\ (Throw(c) \/ AsksAgain(c))
    BY <1>4, AnswerCases DEF InShape, Respected, AsksAgain
  <2> QED
    BY <1>1, <1>4, <2>1, InShapeMoves, InShapeWaits
<1>5. ASSUME Serve PROVE InShape'
  BY <1>1, <1>5, InShapeServe
<1>6. ASSUME UNCHANGED vars PROVE InShape'
  <2>1. /\ UNCHANGED <<pc, asking, retried, serial, sequence, nvalues, n, lockVersion,
                       inbox, answers, db>>
    BY <1>6 DEF vars, clientVars
  <2>2. /\ Lock' = Lock /\ \A i \in Index : At(i)' = At(i)
        /\ \A d \in Client : MyValue(d)' = MyValue(d)
    BY <2>1 DEF Lock, At, MyValue
  <2>3. PlaceInv'
    <3>1. ASSUME NEW q \in Sent, RequestIn(q) PROVE RequestIn(q)'
      BY <2>1, <2>2, <3>1 DEF RequestIn, Copy, Sent
    <3> QED
      BY <1>1, <2>1, <3>1, InboxType DEF InShape, PlaceInv
  <2>4. HolderInv' /\ NumberInv'
    BY <2>1, <2>2 DEF InShape, HolderInv, NumberInv
  <2>5. FreshInv'
    <3>1. Old(0) => Old(0)'
      BY <2>2, SameData
    <3> QED
      BY <2>1, <2>2, <3>1 DEF InShape, FreshInv
  <2>6. ASSUME NEW d \in Client PROVE ShapeOK(d)'
    <3>1. ShapeOK(d) /\ (n[d] \in Index \/ pc[d] \notin {"write", "clear"})
      BY <1>1 DEF InShape, ShapeInv, TypeOK
    <3>2. Untried(d)' => Untried(d)
      BY <2>1 DEF Untried, Copy
    <3> QED
      BY <2>1, <2>2, <3>1, <3>2, SameShape
  <2> QED
    BY <1>1, <2>3, <2>4, <2>5, <2>6 DEF InShape, ShapeInv
<1> QED
  BY <1>2, <1>3, <1>4, <1>5, <1>6 DEF Next, ClientStep

\* The holder's first a keys, none up to b, and then the rest of the previous sequence.
LEMMA Accepted ==
  ASSUME TypeOK, NEW a \in 0 .. MaxLength, NEW b \in a .. MaxLength,
         \A i \in Index : i < a => At(i) = Lock.value,
         Gone(a, b), Old(b), a = 0 \/ Lock.value # Empty, b = 0 \/ Lock.value # Empty
  PROVE  AcceptedByCheck
<1>1. PICK e \in b .. MaxLength, v \in Value :
        \A i \in Index : i >= b => At(i) = IF i < e THEN v ELSE Empty
  BY DEF Old
<1>2. /\ MaxLength \in Nat /\ a \in Nat /\ b \in Nat /\ e \in Nat
      /\ a <= b /\ b <= e /\ e <= MaxLength /\ Index = 0 .. (MaxLength - 1)
  BY Bounds DEF Index
<1>3. \A i \in Index : i \in Written <=> At(i) # Empty
  BY Absence DEF Written, At
<1>4. ASSUME NEW i \in Index PROVE i \in Written <=> i < a \/ (b <= i /\ i < e)
  <2>1. CASE i < a
    BY <1>2, <1>3, <2>1
  <2>2. CASE a <= i /\ i < b
    BY <1>2, <1>3, <2>2 DEF Gone
  <2>3. CASE b <= i
    BY <1>1, <1>2, <1>3, <2>3, Values
  <2> QED
    BY <1>2, <2>1, <2>2, <2>3
<1>5. Written = (0 .. (a - 1)) \cup (b .. (e - 1))
  <2>1. Written \subseteq Index
    BY DEF Written
  <2>2. (0 .. (a - 1)) \cup (b .. (e - 1)) \subseteq Index
    BY <1>2
  <2>3. \A i \in Index : i \in (0 .. (a - 1)) \cup (b .. (e - 1)) <=> i < a \/ (b <= i /\ i < e)
    BY <1>2
  <2> QED
    BY <1>4, <2>1, <2>2, <2>3
<1>6. Run(0, a - 1, Lock.value)
  <2> SUFFICES ASSUME NEW i \in 0 .. (a - 1) PROVE i \in Written /\ At(i) = Lock.value
    BY DEF Run, At
  <2>1. i \in Index /\ i < a
    BY <1>2
  <2> QED
    BY <1>4, <2>1
<1>7. Run(b, e - 1, v)
  <2> SUFFICES ASSUME NEW i \in b .. (e - 1) PROVE i \in Written /\ At(i) = v
    BY DEF Run, At
  <2>1. i \in Index /\ b <= i /\ i < e
    BY <1>2
  <2> QED
    BY <1>1, <1>4, <2>1
<1>8. a \in 0 .. MaxLength /\ b \in 0 .. MaxLength /\ e \in 0 .. MaxLength
  BY <1>2
<1> HIDE DEF Written, Run
<1> QED
  BY <1>2, <1>5, <1>6, <1>7, <1>8 DEF AcceptedByCheck, Lock

\* What the shape says is what the check asks for.
LEMMA ShapeAccepted == InShape => AcceptedByCheck
<1> SUFFICES ASSUME InShape PROVE AcceptedByCheck
  OBVIOUS
<1> USE DEF InShape
<1>1. TypeOK /\ MaxLength \in Nat /\ Index \subseteq Nat /\ Index = 0 .. (MaxLength - 1)
  BY Bounds, Keys DEF Respected, Index
<1>2. CASE Old(0)
  <2>1. /\ 0 \in 0 .. MaxLength /\ \A i \in Index : ~(i < 0)
        /\ Gone(0, 0)
    BY <1>1 DEF Gone
  <2> QED
    BY <1>1, <1>2, <2>1, Accepted
<1>3. CASE ~Old(0)
  <2>1. PICK c \in Client : Lock.value = MyValue(c) /\ pc[c] # "idle"
    BY <1>3 DEF FreshInv, HolderInv
  <2>2. pc[c] \in {"write", "clear", "unlock"} /\ Lock.value # Empty
    BY <1>1, <1>3, <2>1 DEF FreshInv, TypeOK, Phase
  <2>3. /\ ShapeOK(c) /\ n[c] \in 0 .. MaxLength /\ nvalues[c] \in 0 .. MaxLength
        /\ pc[c] \in {"write", "clear"} => n[c] \in Index
        /\ pc[c] = "clear" => nvalues[c] <= n[c]
    BY <1>1 DEF ShapeInv, TypeOK, NumberInv
  <2>4. ASSUME NEW a \in 0 .. MaxLength, Mine(c, a) PROVE \A i \in Index : i < a => At(i) = Lock.value
    BY <2>1, <2>4 DEF Mine
  <2>5. ASSUME NEW a \in 0 .. MaxLength, NEW b \in a .. MaxLength, Mine(c, a), Gone(a, b), Old(b)
        PROVE  AcceptedByCheck
    BY <1>1, <2>2, <2>4, <2>5, Accepted
  <2>6. CASE pc[c] = "write"
    <3> DEFINE k == n[c]
    <3>1. Mine(c, k) /\ Old(k + 1) /\ (Old(k) \/ At(k) = MyValue(c)) /\ k \in Index
      BY <2>3, <2>6 DEF ShapeOK, Writes
    <3> HIDE DEF k, InShape
    <3>2. k \in 0 .. MaxLength /\ k + 1 \in 0 .. MaxLength /\ k \in k .. MaxLength
          /\ k + 1 \in k + 1 .. MaxLength
      BY <1>1, <3>1
    <3>3. Gone(k, k) /\ Gone(k + 1, k + 1)
      BY <1>1, <3>1 DEF Gone
    <3>4. CASE Old(k)
      BY <2>5, <3>1, <3>2, <3>3, <3>4
    <3>5. CASE At(k) = MyValue(c)
      <4>1. Mine(c, k + 1)
        BY <1>1, <3>1, <3>5 DEF Mine
      <4> QED
        BY <2>5, <3>1, <3>2, <3>3, <4>1
    <3> QED
      BY <3>1, <3>4, <3>5
  <2>7. CASE pc[c] = "clear"
    <3> DEFINE k == n[c]
               m == nvalues[c]
    <3>1. /\ Mine(c, m) /\ Gone(m, k) /\ Old(k + 1) /\ (Old(k) \/ At(k) = Empty) /\ k \in Index
          /\ m \in 0 .. MaxLength /\ m <= k
      BY <2>3, <2>7 DEF ShapeOK, Clears
    <3> HIDE DEF k, m, InShape
    <3>2. k \in m .. MaxLength /\ k + 1 \in m .. MaxLength
      BY <1>1, <3>1
    <3>3. CASE Old(k)
      BY <2>5, <3>1, <3>2, <3>3
    <3>4. CASE At(k) = Empty
      <4>1. Gone(m, k + 1)
        BY <1>1, <3>1, <3>4 DEF Gone
      <4> QED
        BY <2>5, <3>1, <3>2, <4>1
    <3> QED
      BY <3>1, <3>3, <3>4
  <2>8. CASE pc[c] = "unlock"
    <3>1. Mine(c, nvalues[c]) /\ Gone(nvalues[c], MaxLength)
      BY <2>1, <2>3, <2>8 DEF ShapeOK, Done
    <3>2. Old(MaxLength) /\ MaxLength \in nvalues[c] .. MaxLength
      <4>1. MyValue(c) \in Value
        BY <1>1, <2>1, MyValueType
      <4>2. \A i \in Index : ~(i >= MaxLength)
        BY <1>1
      <4>3. MaxLength \in MaxLength .. MaxLength
        BY <1>1
      <4> QED
        BY <1>1, <2>3, <4>1, <4>2, <4>3 DEF Old
    <3> QED
      BY <2>3, <2>5, <3>1, <3>2
  <2> QED
    BY <2>2, <2>6, <2>7, <2>8
<1> QED
  BY <1>2, <1>3

\* lockseq_model::check accepts the database of the group at every moment, whatever is lost,
\* repeated or late: the values of one sequence without a gap, or under a lock first those of
\* the holder and behind a gap the rest of the sequence before.
THEOREM AcceptedByCheckHolds == Spec => []AcceptedByCheck
<1>1. Init => InShape
  BY InShapeInit
<1>2. InShape /\ [Next]_vars => InShape'
  BY InShapeStep
<1>3. InShape => AcceptedByCheck
  BY ShapeAccepted
<1> QED
  BY <1>1, <1>2, <1>3, PTL DEF Spec
=============================================================================
