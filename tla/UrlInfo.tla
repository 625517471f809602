------------------------------ MODULE UrlInfo ------------------------------
(***************************************************************************)
(* The URL of an http_message (http.hh, http.cc): make_info splits it into *)
(* path, search and hash, and the search into parameters, of which it      *)
(* decodes the text into one buffer with offsets into it; the results are  *)
(* cached until the URL changes.                                           *)
(*                                                                         *)
(* A character is a string of length one: "4" stands for the hexadecimal   *)
(* digits, "x" for what is safe in a URL and means nothing, "<" for what   *)
(* is not.  Offsets begin at 0, as in the code.                            *)
(***************************************************************************)
EXTENDS Integers, SequencesExt

CONSTANTS Urls,     \* what a message is given first
          Others    \* what it may be given then, by url() or by the parser

VARIABLES url,    \* url_
          flags,  \* info_->flags: whether the parameters are there
          inf     \* info_: f, qurl, qpairs

vars == <<url, flags, inf>>

Safe == {"/", "&", "=", "%", "+", "x", "4"}
Hex == {"4"}
\* The character with the code "44".
Decode44 == "D"

\* A string ends with a NUL that may be looked at.
Byte(u, i) == IF i < Len(u) THEN u[i + 1] ELSE "NUL"
\* std::string(u + first, u + second).
Chars(u, first, second) == SubSeq(u, first + 1, second)

NoFields == [k \in 0 .. 2 |-> <<0, 0>>]
NoInfo == [f |-> NoFields, qurl |-> <<>>, qpairs |-> <<>>]

-----------------------------------------------------------------------------
\* Fields fpos .. n-1 end at s; each begins where the last one ended.
Ended(st, n) ==
  [st EXCEPT !.fpos = n,
             !.f = [k \in 0 .. 2 |->
                      IF k \notin st.fpos .. n - 1 THEN @[k]
                      ELSE <<IF k = 0 THEN 0 ELSE IF k = st.fpos THEN @[k - 1][2] ELSE st.s, st.s>>]]

\* One iteration of the loop over the URL; "ok" ends with a character that is not safe.
SplitStep(u, st) ==
  LET ch == Byte(u, st.s)
      next == IF ch = "?" /\ st.fpos = 0 THEN Ended(st, 1)
              ELSE IF ch = "#" /\ st.fpos < 2 THEN Ended(st, 2)
              ELSE st
  IN  [next EXCEPT !.s = @ + 1, !.ok = ch \in Safe \cup {"?", "#"}]

RECURSIVE SplitLoop(_, _)
SplitLoop(u, st) == IF ~st.ok \/ st.s = Len(u) THEN st ELSE SplitLoop(u, SplitStep(u, st))

\* All fields of a URL that fails are empty.
Fields(u) ==
  LET st == SplitLoop(u, [s |-> 0, fpos |-> 0, f |-> NoFields, ok |-> Byte(u, 0) = "/"])
  IN  IF st.ok /\ u # <<>> THEN Ended(st, 3).f ELSE NoFields

-----------------------------------------------------------------------------
\* Wrong: what is still to be copied is forgotten.
WrongHere(st) == Len(st.qurl)
\* Where the character at s will be in qurl, into which [last, s) is still to be copied.
Here(st) == Len(st.qurl) + st.s - st.last

\* inf.qurl.append(last, s), and c, which stands for n characters.
Copied(u, st, c, n) ==
  [st EXCEPT !.qurl = @ \o Chars(u, st.last, st.s) \o c, !.s = @ + n, !.last = st.s + n]

\* state 0: at the beginning of a parameter, 1: in its name, 2: in its value.  A name
\* that ends without "=" has an empty value at its end.
Pair(st, vend) ==
  IF st.state = 1 THEN <<st.nstart, vend, vend, vend>>
  ELSE <<st.nstart, st.nend, st.vstart, vend>>
Kept(st, vend) ==
  IF st.state = 0 THEN st ELSE [st EXCEPT !.qpairs = Append(@, Pair(st, vend)), !.state = 0]

\* "s2 - s >= 2" lets the second digit be the byte at s2, which is "#" or NUL.
Escape(u, st, s2) ==
  Byte(u, st.s) = "%" /\ s2 - st.s >= 2 /\ Byte(u, st.s + 1) \in Hex /\ Byte(u, st.s + 2) \in Hex

\* Wrong: a second "=" begins the value anew.
WrongEndsName(st) == TRUE
EndsName(st) == st.state <= 1

\* One iteration of the loop over the search.
ParamStep(u, s2, st) ==
  LET ch == Byte(u, st.s)
      inside == [st EXCEPT !.state = IF @ = 0 THEN 1 ELSE @]
  IN  CASE ch = "&" -> [Kept(st, Here(st)) EXCEPT
                          !.s = @ + 1, !.nstart = Here(st) + 1, !.nend = Here(st) + 1]
        [] ch = "=" /\ EndsName(st) -> [st EXCEPT
                          !.s = @ + 1, !.nend = Here(st), !.vstart = Here(st) + 1, !.state = 2]
        [] Escape(u, st, s2) -> Copied(u, inside, <<Decode44>>, 3)
        [] ch = "+" -> Copied(u, inside, <<" ">>, 1)
        [] OTHER -> [inside EXCEPT !.s = @ + 1]

RECURSIVE ParamLoop(_, _, _)
ParamLoop(u, s2, st) == IF st.s = s2 THEN st ELSE ParamLoop(u, s2, ParamStep(u, s2, st))

\* make_info(info_params); the fields are made anew each time, as no flag says that they
\* are there.
Params(u) ==
  LET f == Fields(u)
      s1 == f[1][1] + 1
      st == ParamLoop(u, f[1][2], [s |-> s1, last |-> s1, state |-> 0, nstart |-> 0, nend |-> 0,
                                   vstart |-> 0, qurl |-> <<>>, qpairs |-> <<>>])
      end == Copied(u, st, <<>>, 0)
  IN  IF f[1][1] = f[1][2] THEN [f |-> f, qurl |-> <<>>, qpairs |-> <<>>]
      ELSE [f |-> f, qurl |-> end.qurl, qpairs |-> Kept(end, Len(end.qurl)).qpairs]

\* info(info_params).
Info == IF "params" \in flags THEN inf ELSE Params(url)
-----------------------------------------------------------------------------
Init == url \in Urls /\ flags = {} /\ inf = NoInfo

\* search_param, has_search_param or an iteration over the parameters.
Ask == inf' = Info /\ flags' = {"params"} /\ UNCHANGED url

\* Wrong: the parameters of the URL before are kept.
WrongKilled(fl) == fl
\* kill_info; do_clear, with which the parser begins a message.
Killed(fl) == fl \ {"url", "params"}

SetUrl == \E u \in Others : url' = u /\ flags' = Killed(flags) /\ UNCHANGED inf

Next == Ask \/ SetUrl
Spec == Init /\ [][Next]_vars

\* What search_param and has_search_param find: the first parameter of that name.
Found(name) ==
  LET i == SelectInSeq(Info.qpairs, LAMBDA p : Chars(Info.qurl, p[1], p[2]) = name)
  IN  IF i = 0 THEN <<>>
      ELSE <<Chars(Info.qurl, Info.qpairs[i][3], Info.qpairs[i][4])>>
-----------------------------------------------------------------------------
\* What a URL means: the search begins at the first "?" and ends at the first "#".
Valid(u) == u # <<>> /\ u[1] = "/" /\ ToSet(u) \subseteq Safe \cup {"?", "#"}
Before(u, ch) == LET i == SelectInSeq(u, LAMBDA c : c = ch) IN IF i = 0 THEN u ELSE SubSeq(u, 1, i - 1)
After(u, ch) == SubSeq(u, Len(Before(u, ch)) + 2, Len(u))
Query(u) == After(Before(u, "#"), "?")

RECURSIVE Parts(_), Decoded(_)
\* The parts between "&"s that are not empty.
Parts(q) ==
  IF q = <<>> THEN <<>>
  ELSE (IF q[1] = "&" THEN <<>> ELSE <<Before(q, "&")>>) \o Parts(After(q, "&"))
\* Of a name or a value.
Decoded(t) ==
  IF t = <<>> THEN <<>>
  ELSE IF Len(t) >= 3 /\ t[1] = "%" /\ t[2] \in Hex /\ t[3] \in Hex
       THEN <<Decode44>> \o Decoded(SubSeq(t, 4, Len(t)))
       ELSE <<IF t[1] = "+" THEN " " ELSE t[1]>> \o Decoded(Tail(t))

Meant(u) ==
  LET parts == IF Valid(u) THEN Parts(Query(u)) ELSE <<>>
  IN  [i \in DOMAIN parts |-> [name |-> Decoded(Before(parts[i], "=")),
                               value |-> Decoded(After(parts[i], "="))]]

\* Whatever was asked before of whatever URL, the parameters are those of the URL that the
\* message has: their names and values, decoded, in their order; and the path, the search
\* and the hash make up the URL.
Parsed ==
  LET meant == Meant(url)
      names == {meant[i].name : i \in DOMAIN meant}
  IN  /\ Len(Info.qpairs) = Len(meant)
      /\ \A i \in DOMAIN meant :
           LET p == Info.qpairs[i] IN
           /\ Chars(Info.qurl, p[1], p[2]) = meant[i].name
           /\ Chars(Info.qurl, p[3], p[4]) = meant[i].value
      /\ \A n \in names \cup {<<>>, <<"x">>} :
           LET i == SelectInSeq(meant, LAMBDA m : m.name = n)
           IN  Found(n) = IF i = 0 THEN <<>> ELSE <<meant[i].value>>
      /\ [k \in 0 .. 2 |-> Chars(url, Fields(url)[k][1], Fields(url)[k][2])] =
           IF ~Valid(url) THEN [k \in 0 .. 2 |-> <<>>]
           ELSE LET whole == Before(url, "#")
                    path == Before(whole, "?")
                IN  [k \in 0 .. 2 |-> CASE k = 0 -> path
                                        [] k = 1 -> SubSeq(whole, Len(path) + 1, Len(whole))
                                        [] k = 2 -> SubSeq(url, Len(whole) + 1, Len(url))]
=============================================================================
