----------------------------- MODULE MCReceive -----------------------------
\* The instance of Waits that is checked.
EXTENDS Waits

\* As in pt-backup.cc: attempt(first(receive(), receive()), timeout), or a receive() of its own.
MCKids ==
  [t \in {"user", "attempt", "first", "receive1", "receive2", "receive3",
         "with_id1", "with_id2", "with_id3"} |->
     CASE t = "user" -> <<"attempt", "receive3">>
       [] t = "attempt" -> <<"first">>
       [] t = "first" -> <<"receive1", "receive2">>
       [] t = "receive1" -> <<"with_id1">>
       [] t = "receive2" -> <<"with_id2">>
       [] t = "receive3" -> <<"with_id3">>
       [] OTHER -> <<>>]
MCPortOf == [s \in {"with_id1", "with_id2", "with_id3"} |-> IF s = "with_id1" THEN "replica" ELSE "client"]

\* Two senders, messages of this round and of the next two, one DECIDE.
Message(s, t, r) == [src |-> s, type |-> t, round |-> r]
MCMessages == {Message(1, "prepare", 1), Message(2, "prepare", 2),
             Message(1, "propose", 2), Message(2, "prepare", 3),
             Message(2, "decide", 0)}
=============================================================================
