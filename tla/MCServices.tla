---------------------------- MODULE MCServices ----------------------------
(***************************************************************************)
(* The instance of Services that is checked, and the URLs of HTTP.  `on`   *)
(* says which of them the run is about; the others stay as they begin.     *)
(***************************************************************************)
EXTENDS Services, SequencesExt

VARIABLES on, url, flags, inf

\* What the rpcs ask for: both create notes, one deletes the first note and the
\* other changes its title, with a body that is refused.
Asks(method, path, body) ==
  [method |-> method, path |-> path, id |-> 1, well |-> TRUE, title |-> CHOOSE t \in Text : TRUE,
   body |-> body]
MCHttpAsk ==
  [r \in Rpc |-> {Asks("POST", "/notes", CHOOSE t \in Text : TRUE),
                  IF r = 1 THEN Asks("DELETE", "/notes/<id>", Absent)
                  ELSE Asks("PUT", "/notes/<id>", NotText)}]

\* Two UDP clients, each on a socket of its own; a request that does not parse.
MCUdpAsk ==
  {Asks("POST", "/notes", CHOOSE t \in Text : TRUE), Asks("DELETE", "/notes/<id>", Absent),
   Asks("GET", "?", Absent)}
MCHome == [p \in {"p1", "p2"} |-> IF p = "p1" THEN "s1" ELSE "s2"]

\* URLs that split in any way, queries that decode in any way, and queries with a hash.
Url == INSTANCE UrlInfo WITH
  Urls <- BoundedSeq({"/", "?", "#", "x", "<"}, 4)
          \cup {<<"/", "?">> \o q : q \in BoundedSeq({"x", "4", "&", "=", "%", "+"}, 4)}
          \cup {<<"/", "?">> \o q : q \in BoundedSeq({"4", "&", "=", "%"}, 5)}
          \cup {<<"/", "?">> \o q \o <<"#", "4">> : q \in BoundedSeq({"4", "&", "=", "%"}, 3)},
  Others <- {<<>>, <<"/", "?", "x", "=", "4", "&", "x">>}
urlVars == <<url, flags, inf>>

MCInit ==
  /\ Init /\ Http!Init /\ Udp!Init /\ Game!Init /\ Url!Init
  /\ on \in {"loop", "http", "udp", "rpc", "url"}
  /\ on # "loop" => \A t \in Thread : hold[t] = "none"
  /\ on # "url" => url = <<>>

InLoop(A) == on = "loop" /\ A /\ UNCHANGED <<on, connVars, udpVars, gameVars, urlVars>>
InHttp(A) == on = "http" /\ A /\ UNCHANGED <<on, vars, udpVars, gameVars, urlVars>>
InUdp(A) == on = "udp" /\ A /\ UNCHANGED <<on, vars, connVars, gameVars, urlVars>>
InRpc(A) == on = "rpc" /\ A /\ UNCHANGED <<on, vars, connVars, udpVars, urlVars>>
InUrl(A) == on = "url" /\ A /\ UNCHANGED <<on, vars, connVars, udpVars, gameVars>>

MCNext == \/ InLoop(Next) \/ InHttp(Http!Next) \/ InUdp(Udp!Next) \/ InRpc(Game!Next)
          \/ InUrl(Url!Next)

\* The game of a bounded instance never comes back to a state it has left, so that one weak
\* fairness is as good as one for each of its processes and threads.
allVars == <<on, vars, connVars, udpVars, gameVars, urlVars>>
MCFairness ==
  /\ WF_allVars(InLoop(LoopStep)) /\ SF_allVars(InLoop(FireTimer))
  /\ \A t \in Thread : SF_allVars(InLoop(ThreadStep(t)))
  /\ Http!Fairness
  /\ WF_allVars(InRpc(Game!Shutdown \/ Game!Exit
                      \/ \E c \in Client : Game!ClientStep(c) \/ Game!Handle(c)))
MCSpec == MCInit /\ [][MCNext]_allVars /\ MCFairness

\* The fields and parameters of a URL are what it means, whatever was cached.
Parsed == Url!Parsed
=============================================================================
