------------------------------ MODULE PancyDB ------------------------------
(***************************************************************************)
(* The versioned database of pset3/pancydb.{hh,cc} as operators: what a    *)
(* request does to a database and what it answers, and diff, the check     *)
(* that two databases agree up to a number of versions.                    *)
(*                                                                         *)
(* A database is a record: next is next_version_; map holds a value and a  *)
(* version for every key, an absent key having nonexistent_vv; removes is  *)
(* the deque recent_removes_, the latest remove first.                     *)
(***************************************************************************)
EXTENDS Integers, Sequences, SequencesExt

CONSTANTS Key, Value,
          Empty,       \* the empty string, the value of an absent key
          MaxRemoves   \* max_recent_removes

NonexistentVV == [value |-> Empty, version |-> 0]
AnyVersion == -1

VV == [value : Value, version : Nat \ {0}] \cup {NonexistentVV}
Removed == [key : Key, vv : VV, version : Nat]
Database == [next : Nat \ {0}, map : [Key -> VV], removes : Seq(Removed)]

NewDB == [next |-> 1, map |-> [k \in Key |-> NonexistentVV], removes |-> <<>>]

Present(db, k) == db.map[k].version # 0

\* Every request names a key.  `value` is what put and cas store, `expected`
\* what cas compares with, `match` the field version_match.
Request == [type : {"get", "put", "cas", "remove"}, key : Key, value : Value,
            expected : Value \cup {Empty}, match : Nat \cup {AnyVersion}]

\* The request's condition on the version and, for cas, on the value.  Only
\* remove tells an absent key from one that does not match.
Matches(db, r) ==
  LET vv == db.map[r.key]
  IN  /\ r.match >= 0 => r.match = vv.version
      /\ r.type = "cas" => r.expected = vv.value

\* Definitions named Wrong... are mistakes the code could have made; nothing
\* uses them.  Each shows that some property of PancyReplicas notices it.

\* The request changes the database.
Accepted(db, r) == /\ r.type # "get" /\ Matches(db, r)
                   /\ r.type = "remove" => Present(db, r.key)

WrongStoreVersionKept(db, k, v) ==
  [db EXCEPT !.map[k] = [value |-> v, version |-> db.next],
             !.next = IF Present(db, k) THEN @ ELSE @ + 1]
Store(db, k, v) ==
  [next |-> db.next + 1,
   map |-> [db.map EXCEPT ![k] = [value |-> v, version |-> db.next]],
   removes |-> db.removes]

\* do_remove: note the remove, forget the oldest beyond the limit, erase.
Kept(removes) == IF Len(removes) > MaxRemoves THEN SubSeq(removes, 1, MaxRemoves)
                                              ELSE removes
Erase(db, k) ==
  [next |-> db.next + 1,
   map |-> [db.map EXCEPT ![k] = NonexistentVV],
   removes |-> Kept(<<[key |-> k, vv |-> db.map[k], version |-> db.next]>>
                      \o db.removes)]

\* The database after process_req(r).
After(db, r) == IF ~Accepted(db, r) THEN db
                ELSE IF r.type = "remove" THEN Erase(db, r.key)
                ELSE Store(db, r.key, r.value)

\* The response's errcode.  get reports an absent key as ok, with version 0:
\* find_vvptr never returns a null pointer.
Errcode(db, r) == IF r.type = "get" \/ Accepted(db, r) THEN "ok"
                  ELSE IF r.type = "remove" /\ ~Present(db, r.key) THEN "not_found"
                  ELSE "no_match"

\* The response: the actual value when it is of interest, and the version of
\* the key after the request.
Response(db, r) ==
  [errcode |-> Errcode(db, r),
   actual |-> IF r.type = "get" \/ Errcode(db, r) = "no_match"
              THEN db.map[r.key].value ELSE Empty,
   version |-> After(db, r).map[r.key].version]

-----------------------------------------------------------------------------
\* The first version that the older database may not have seen yet.
WrongMinVersion(a, skew) == a.next - skew - 1
MinVersion(a, skew) == a.next - skew

\* find_recent_remove: the latest remove of k not before version min, or
\* nonexistent_vv for the code's null pointer.
RecentRemove(db, k, min) ==
  LET hits == {i \in 1 .. Len(db.removes) : db.removes[i].key = k /\ db.removes[i].version >= min}
  IN  IF hits = {} THEN NonexistentVV ELSE db.removes[Min(hits)].vv

\* recent_removes_ holds every remove from version min on.
WrongRemovesComplete(a, min) == TRUE
RemovesComplete(a, min) == \/ Len(a.removes) < MaxRemoves
                           \/ Last(a.removes).version <= min

\* a, which is not older than b, and b disagree at key k.
Differ(a, b, k, skew) ==
  LET min == MinVersion(a, skew)
      avv == IF Present(a, k) THEN a.map[k] ELSE RecentRemove(a, k, min)
      bvv == IF Present(b, k) THEN b.map[k] ELSE RecentRemove(b, k, min)
  IN  /\ Present(a, k) \/ Present(b, k)
      /\ ~(avv.version > 0 /\ bvv.version = 0 /\ avv.version >= min)
      /\ ~(avv.version = 0 /\ ~RemovesComplete(a, min))
      /\ \/ avv.version = 0 \/ bvv.version = 0
         \/ avv.version < bvv.version
         \/ avv.version > bvv.version /\ avv.version < min
         \/ avv.version = bvv.version /\ avv.value # bvv.value

\* diff: the keys at which it would report an error (the code returns the
\* first of them).
Diff(a, b, skew) ==
  LET new == IF a.next < b.next THEN b ELSE a
      old == IF a.next < b.next THEN a ELSE b
  IN  {k \in Key : Differ(new, old, k, skew)}
=============================================================================
