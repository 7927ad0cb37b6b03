----------------------------- MODULE Collection -----------------------------
(***************************************************************************)
(* How the hub collects the terminals' collision counts over TCP           *)
(* (delivery/hub/reqinfo.py and printcoll.py, delivery/terminal/sndinfo.py *)
(* and coll.py).                                                           *)
(*                                                                         *)
(* Two collectors ask the terminals in turn, one connection per question.  *)
(* The server of a terminal takes one connection at a time, answers with   *)
(* the count of resent segments and closes, without reading the request:   *)
(* a close with unread data resets the connection, and an answer that is   *)
(* still on its way is then not sent again.  reqinfo writes a round down   *)
(* next to the line of /proc/tbi it read before; printcoll computes what   *)
(* was added since its first round, and prints a template without it.      *)
(* Neither catches an error of the network, and neither has a timeout.     *)
(***************************************************************************)
EXTENDS Integers, FiniteSets, SequencesExt

CONSTANTS
  Hosts,        \* the terminals, in the order of the loop
  FirstCount,   \* the count at the start
  MaxResends,   \* bound on the count of resent segments of a terminal
  MaxFailures   \* bound on the servers stopped, terminals switched off, answers lost

ASSUME HostsAssumption == Hosts \in Seq(STRING) /\ Len(Hosts) > 0
ASSUME BoundsAssumption == 
  {MaxResends, MaxFailures} \subseteq Nat /\ FirstCount \in 0..MaxResends

Collectors == {"reqinfo", "printcoll"}
Terminals  == Range(Hosts)
Nobody     == "nobody"

VARIABLES
  count,    \* per terminal: segments retransmitted, as netstat -st tells it
  server,   \* per terminal: whether sndinfo runs, its backlog, and the answer it is sending
  col,      \* per collector: where it is in its round
  value,    \* per collector and terminal: COLLISION, or coll less coll_init_val
  base,     \* coll_init_val of printcoll
  sync,     \* whether printcoll has made its first round
  record,   \* the counts reqinfo wrote in this round, zeros when it wrote none
  from,     \* per terminal: the count when this round of reqinfo began; history
  off,      \* per collector: the terminals switched off since its round began; history
  failures  \* failures so far

vars == <<count, server, col, value, base, sync, record, from, off, failures>>

-----------------------------------------------------------------------------

Zero == [h \in Terminals |-> 0]
Up   == [runs |-> TRUE, backlog |-> <<>>, serves |-> Nobody, answer |-> 0]
Down == [Up EXCEPT !.runs = FALSE]
Init ==
  /\ count  = [h \in Terminals |-> FirstCount]
  /\ server = [h \in Terminals |-> Up]
  /\ col    = [c \in Collectors |-> [at |-> "sleep", i |-> 1]]
  /\ value  = [c \in Collectors |-> Zero]
  /\ base   = Zero
  /\ sync   = FALSE
  /\ record = Zero
  /\ from   = Zero
  /\ off    = [c \in Collectors |-> {}]
  /\ failures = 0

Host(c)       == Hosts[col[c].i]
At(c, points) == col[c].at \in points
Goto(c, at)   == col' = [col EXCEPT ![c].at = at]
Fail          == failures < MaxFailures /\ failures' = failures + 1
Kept          == <<value, base, sync, record, from, off>>

(***************************************************************************)
(* The collectors.                                                         *)
(***************************************************************************)

\* The sleep ends: reqinfo reads a line of /proc/tbi.
BeginRound(c) ==
  /\ At(c, {"sleep"})
  /\ col' = [col EXCEPT ![c] = [at |-> "connect", i |-> 1]]
  /\ from' = IF c = "reqinfo" THEN count ELSE from
  /\ off'  = [off EXCEPT ![c] = {}]
  /\ record' = IF c = "reqinfo" THEN Zero ELSE record
  /\ UNCHANGED <<count, server, value, base, sync, failures>>

\* COLLISION[HOST] = 0, before the question.
\* Mutant: the count of the round before stays.
KeepCollision(c) == value
ResetCollision(c) == IF c = "reqinfo" THEN [value EXCEPT ![c][Host(c)] = 0] ELSE value

Connect(c) ==
  /\ At(c, {"connect"})
  /\ server[Host(c)].runs
  /\ server' = [server EXCEPT ![Host(c)].backlog = Append(@, c)]
  /\ value' = ResetCollision(c)
  /\ Goto(c, "recv")
  /\ UNCHANGED <<count, base, sync, record, from, off, failures>>

\* ConnectionRefusedError or a host that cannot be reached ends the collector.
ConnectFails(c) ==
  /\ At(c, {"connect"})
  /\ ~server[Host(c)].runs
  /\ Goto(c, "dead")
  /\ UNCHANGED <<count, server, Kept, failures>>

\* The terminal asked next.
\* Mutant: one that has no collision is asked again.
AskAgain(c, got) == IF got = 0 THEN col[c].i ELSE col[c].i + 1
NextHost(c, got) == col[c].i + 1

Sync(c) == col[c].i = Len(Hosts)

\* What a collector does with an answer: reqinfo keeps one that is not zero,
\* printcoll takes it for a baseline in its first round.
Keep(c, got) ==
  LET h == Host(c) IN
  /\ IF c = "reqinfo"
     THEN /\ value' = IF got # 0 THEN [value EXCEPT ![c][h] = got] ELSE value
          /\ UNCHANGED <<base, sync>>
     ELSE /\ base' = IF sync THEN base ELSE [base EXCEPT ![h] = got]
          /\ value' = IF sync THEN [value EXCEPT ![c][h] = got - base[h]] ELSE value
          /\ sync' = (sync \/ Sync(c))
  /\ col' = [col EXCEPT ![c] = IF NextHost(c, got) > Len(Hosts) THEN [at |-> "end", i |-> 1]
                               ELSE [at |-> "connect", i |-> NextHost(c, got)]]

\* reqinfo writes the round down when every terminal has had a collision; what
\* printcoll prints is its template, without a number.
AllCollided(c) == \A h \in Terminals : value[c][h] # 0
EndRound(c) ==
  /\ At(c, {"end"})
  /\ record' = IF c = "reqinfo" /\ AllCollided(c) THEN value[c] ELSE record
  /\ from' = IF c = "reqinfo" THEN Zero ELSE from
  /\ Goto(c, "sleep")
  /\ UNCHANGED <<count, server, value, base, sync, off, failures>>

(***************************************************************************)
(* The server of a terminal.                                               *)
(***************************************************************************)

\* accept, and coll reads the count.
Accept(h) ==
  LET s == server[h] IN
  /\ s.runs /\ s.serves = Nobody /\ s.backlog # <<>>
  /\ server' = [server EXCEPT ![h].serves = Head(s.backlog), ![h].backlog = Tail(@),
                              ![h].answer = count[h]]
  /\ UNCHANGED <<count, col, Kept, failures>>

\* The connection is closed.
\* Mutant: the server goes on with it.
LeftOpen(s) == [s EXCEPT !.answer = 0]
Closed(s)   == [s EXCEPT !.serves = Nobody, !.answer = 0]

\* sendall and close; the answer arrives and the collector, which does nothing
\* else meanwhile, keeps it,
Answer(h) ==
  LET c == server[h].serves IN
  /\ c # Nobody
  /\ server' = [server EXCEPT ![h] = Closed(@)]
  /\ Keep(c, server[h].answer)
  /\ UNCHANGED <<count, record, from, off, failures>>

\* or the reset of the close does instead: ConnectionResetError.
AnswerLost(h) ==
  LET c == server[h].serves IN
  /\ c # Nobody
  /\ Fail
  /\ server' = [server EXCEPT ![h] = Closed(@)]
  /\ Goto(c, "dead")
  /\ UNCHANGED <<count, Kept>>

(***************************************************************************)
(* The terminals.                                                          *)
(***************************************************************************)

Resend(h) ==
  /\ count[h] < MaxResends
  /\ count' = [count EXCEPT ![h] = @ + 1]
  /\ UNCHANGED <<server, col, Kept, failures>>

\* The collectors a terminal has not answered yet.
Waiting(h) == Range(server[h].backlog) \cup ({server[h].serves} \ {Nobody})

\* sndinfo is stopped: its connections are reset.
Stop(h) ==
  /\ server[h].runs
  /\ Fail
  /\ server' = [server EXCEPT ![h] = Down]
  /\ col' = [c \in Collectors |-> IF c \in Waiting(h) THEN [col[c] EXCEPT !.at = "dead"] ELSE col[c]]
  /\ UNCHANGED <<count, Kept>>

\* The terminal loses power: whoever waits for it is told nothing.
SwitchOff(h) ==
  /\ Fail
  /\ server' = [server EXCEPT ![h] = Down]
  /\ count' = [count EXCEPT ![h] = 0]
  /\ off' = [c \in Collectors |-> off[c] \cup {h}]
  /\ UNCHANGED <<col, value, base, sync, record, from>>

Start(h) ==
  /\ ~server[h].runs
  /\ server' = [server EXCEPT ![h] = Up]
  /\ UNCHANGED <<count, col, Kept, failures>>

-----------------------------------------------------------------------------

Collect(c) == BeginRound(c) \/ Connect(c) \/ ConnectFails(c) \/ EndRound(c)
Serve(h)   == Accept(h) \/ Answer(h)

Next ==
  \/ \E c \in Collectors : Collect(c)
  \/ \E h \in Terminals :
       Serve(h) \/ AnswerLost(h) \/ Resend(h) \/ Stop(h) \/ SwitchOff(h) \/ Start(h)

Spec ==
  /\ Init /\ [][Next]_vars
  /\ \A c \in Collectors : WF_vars(Collect(c))
  /\ \A h \in Terminals : WF_vars(Serve(h))

-----------------------------------------------------------------------------
(***************************************************************************)
(* Properties.                                                             *)
(***************************************************************************)

\* The variables have their types; a server never serves a collector that does
\* not wait for it, so no answer goes to the wrong question.
TypeOK ==
  /\ count \in [Terminals -> 0..MaxResends]
  /\ server \in [Terminals -> [runs : BOOLEAN, backlog : Seq(Collectors),
                               serves : Collectors \cup {Nobody}, answer : 0..MaxResends]]
  /\ col \in [Collectors -> [at : {"sleep", "connect", "recv", "end", "dead"},
                             i : DOMAIN Hosts]]
  /\ value \in [Collectors -> [Terminals -> (0 - MaxResends)..MaxResends]]
  /\ {base, record} \subseteq [Terminals -> 0..MaxResends] /\ sync \in BOOLEAN
  /\ from \in [Terminals -> 0..MaxResends]
  /\ off \in [Collectors -> SUBSET Terminals]
  /\ failures \in 0..MaxFailures
  /\ \A h \in Terminals : \A c \in Waiting(h) : At(c, {"recv"}) /\ Host(c) = h

\* A line reqinfo writes has, for every terminal, a count the terminal had at
\* some time between the reading of /proc/tbi and the writing, and never zero; a
\* terminal that was switched off since is excepted.
RecordOfOneRound ==
  [][record' \notin {record, Zero} =>
       \A h \in Terminals :
         record'[h] > 0
         /\ (h \notin off["reqinfo"] => record'[h] \in from[h] .. count[h])]_vars

\* A round ends, in a sleep or in the collector's death, unless the terminal it
\* waits for was switched off in this round.
RoundEnds ==
  \A c \in Collectors :
    At(c, {"connect", "recv", "end"})
      ~> (At(c, {"sleep", "dead"}) \/ (At(c, {"recv"}) /\ Host(c) \in off[c]))

=============================================================================
