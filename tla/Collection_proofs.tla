------------------------- MODULE Collection_proofs --------------------------
(***************************************************************************)
(* Theorems about Collection, for any non-empty list of terminals, in      *)
(* which one may even appear twice, and any bounds.                        *)
(*                                                                         *)
(* QueueInv says that a connection is in one place, FromInv that counts    *)
(* and answers under way are not older than the round of reqinfo, and      *)
(* RoundInv what reqinfo has of the terminals it has asked.                *)
(***************************************************************************)
EXTENDS Collection, TLAPS

Points == {"sleep", "connect", "recv", "end", "dead"}
Places == [at : Points, i : DOMAIN Hosts]
Counts == 0..MaxResends
Differences == (0 - MaxResends)..MaxResends
Servers == [runs : BOOLEAN, backlog : Seq(Collectors),
            serves : Collectors \cup {Nobody}, answer : Counts]

\* The variables have their types, and what reqinfo has is not negative.
Typed ==
  /\ count \in [Terminals -> Counts]
  /\ server \in [Terminals -> Servers]
  /\ col \in [Collectors -> Places]
  /\ value \in [Collectors -> [Terminals -> Differences]]
  /\ value["reqinfo"] \in [Terminals -> Counts]
  /\ base \in [Terminals -> Counts]
  /\ record \in [Terminals -> Counts]
  /\ sync \in BOOLEAN
  /\ from \in [Terminals -> Counts]
  /\ off \in [Collectors -> SUBSET Terminals]
  /\ failures \in 0..MaxFailures

\* A server has only connections of collectors that wait for it, and each once.
Waits == \A h \in Terminals : \A c \in Waiting(h) : At(c, {"recv"}) /\ Host(c) = h

QueueInv ==
  \A h \in Terminals :
    /\ server[h].serves \notin Range(server[h].backlog)
    /\ IsInjective(server[h].backlog)

TypeInv == Typed /\ Waits /\ QueueInv

Serves(h, c) == server[h].serves = c

\* No count is less than when the round of reqinfo began, and no answer to it.
FromInv ==
  \A h \in Terminals \ off["reqinfo"] :
    /\ from[h] <= count[h]
    /\ Serves(h, "reqinfo") => server[h].answer \in from[h] .. count[h]

\* The k-th terminal has answered in this round.
Asked(c, k) == At(c, {"end"}) \/ (At(c, {"connect", "recv"}) /\ k < col[c].i)

\* Of a terminal that has answered, reqinfo has nothing or a count of this round;
\* of the one it asks, nothing.
RoundInv ==
  /\ At("reqinfo", {"recv"}) => value["reqinfo"][Host("reqinfo")] = 0
  /\ \A k \in DOMAIN Hosts :
       (Asked("reqinfo", k) /\ Hosts[k] \notin off["reqinfo"] /\ value["reqinfo"][Hosts[k]] # 0)
         => value["reqinfo"][Hosts[k]] \in from[Hosts[k]] .. count[Hosts[k]]

Inv == TypeInv /\ FromInv /\ RoundInv

-----------------------------------------------------------------------------
(***************************************************************************)
(* Lists of connections.                                                   *)
(***************************************************************************)

LEMMA AppendOne ==
  ASSUME NEW S, NEW s \in Seq(S), NEW c \in S
  PROVE  /\ Append(s, c) \in Seq(S)
         /\ Range(Append(s, c)) = Range(s) \cup {c}
         /\ (c \notin Range(s) /\ IsInjective(s)) => IsInjective(Append(s, c))
<1> DEFINE t == Append(s, c)
<1>1. /\ t \in Seq(S) /\ Len(t) = Len(s) + 1 /\ DOMAIN t = 1..(Len(s) + 1)
      /\ DOMAIN s = 1..Len(s) /\ Len(s) \in Nat
      /\ \A i \in 1..Len(s) : t[i] = s[i]
      /\ t[Len(s) + 1] = c
  OBVIOUS
<1> HIDE DEF t
<1>2. Range(t) = Range(s) \cup {c}
  <2>1. ASSUME NEW x \in Range(t) PROVE x \in Range(s) \cup {c}
    <3>1. PICK i \in DOMAIN t : t[i] = x  BY <2>1 DEF Range
    <3>2. i = Len(s) + 1 \/ i \in 1..Len(s)  BY <1>1
    <3> QED BY <1>1, <3>1, <3>2 DEF Range
  <2>2. ASSUME NEW x \in Range(s) PROVE x \in Range(t)
    <3>1. PICK i \in DOMAIN s : s[i] = x  BY <2>2 DEF Range
    <3>2. i \in DOMAIN t /\ t[i] = x  BY <1>1, <3>1
    <3> QED BY <3>2 DEF Range
  <2>3. Len(s) + 1 \in DOMAIN t  BY <1>1
  <2>4. c \in Range(t)  BY <1>1, <2>3 DEF Range
  <2> QED BY <2>1, <2>2, <2>4
<1>3. ASSUME c \notin Range(s), IsInjective(s) PROVE IsInjective(t)
  <2> SUFFICES ASSUME NEW i \in DOMAIN t, NEW j \in DOMAIN t, t[i] = t[j] PROVE i = j
    BY DEF IsInjective
  <2>1. \A k \in DOMAIN t : k = Len(s) + 1 \/ k \in 1..Len(s)  BY <1>1
  <2>2. \A k \in 1..Len(s) : t[k] # c  BY <1>1, <1>3 DEF Range
  <2>3. CASE i = Len(s) + 1  BY <1>1, <2>1, <2>2, <2>3
  <2>4. CASE i \in 1..Len(s)
    <3>1. j \in 1..Len(s)  BY <1>1, <2>1, <2>2, <2>4
    <3>2. s[i] = s[j]  BY <1>1, <2>4, <3>1
    <3> QED BY <1>1, <1>3, <2>4, <3>1, <3>2 DEF IsInjective
  <2> QED BY <2>1, <2>3, <2>4
<1> QED BY <1>1, <1>2, <1>3 DEF t

LEMMA TakeOne ==
  ASSUME NEW S, NEW s \in Seq(S), s # <<>>
  PROVE  /\ Head(s) \in S /\ Tail(s) \in Seq(S)
         /\ Range(s) = Range(Tail(s)) \cup {Head(s)}
         /\ IsInjective(s) => (Head(s) \notin Range(Tail(s)) /\ IsInjective(Tail(s)))
<1> DEFINE t == Tail(s)
<1>1. /\ t \in Seq(S) /\ Len(s) \in Nat \ {0} /\ DOMAIN s = 1..Len(s)
      /\ DOMAIN t = 1..(Len(s) - 1)
      /\ \A i \in DOMAIN t : t[i] = s[i + 1]
      /\ Head(s) = s[1] /\ Head(s) \in S
  OBVIOUS
<1> HIDE DEF t
<1>2. Range(s) = Range(t) \cup {Head(s)}
  <2>1. ASSUME NEW x \in Range(s) PROVE x \in Range(t) \cup {Head(s)}
    <3>1. PICK i \in DOMAIN s : s[i] = x  BY <2>1 DEF Range
    <3>2. CASE i = 1  BY <1>1, <3>1, <3>2
    <3>3. CASE i # 1
      <4>1. i - 1 \in DOMAIN t /\ t[i - 1] = s[i]  BY <1>1, <3>3
      <4> QED BY <3>1, <4>1 DEF Range
    <3> QED BY <3>2, <3>3
  <2>2. ASSUME NEW x \in Range(t) PROVE x \in Range(s)
    <3>1. PICK i \in DOMAIN t : t[i] = x  BY <2>2 DEF Range
    <3>2. i + 1 \in DOMAIN s /\ s[i + 1] = x  BY <1>1, <3>1
    <3> QED BY <3>2 DEF Range
  <2>3. 1 \in DOMAIN s  BY <1>1
  <2>4. Head(s) \in Range(s)  BY <1>1, <2>3 DEF Range
  <2> QED BY <2>1, <2>2, <2>4
<1>3. ASSUME IsInjective(s) PROVE Head(s) \notin Range(t) /\ IsInjective(t)
  <2>1. \A i \in DOMAIN t : i + 1 \in DOMAIN s /\ i + 1 # 1 /\ i \in Int  BY <1>1
  <2>2. 1 \in DOMAIN s  BY <1>1
  <2>3. Head(s) \notin Range(t)  BY <1>1, <1>3, <2>1, <2>2 DEF IsInjective, Range
  <2>4. IsInjective(t)
    <3> SUFFICES ASSUME NEW i \in DOMAIN t, NEW j \in DOMAIN t, t[i] = t[j] PROVE i = j
      BY DEF IsInjective
    <3>1. s[i + 1] = s[j + 1]  BY <1>1
    <3>2. i + 1 = j + 1  BY <1>3, <2>1, <3>1 DEF IsInjective
    <3> QED BY <2>1, <3>2
  <2> QED BY <2>3, <2>4
<1> QED BY <1>1, <1>2, <1>3 DEF t

LEMMA HostFacts ==
  /\ Terminals = {Hosts[k] : k \in DOMAIN Hosts}
  /\ Len(Hosts) \in Nat \ {0} /\ DOMAIN Hosts = 1..Len(Hosts)
  /\ 1 \in DOMAIN Hosts
<1>1. Hosts \in Seq(STRING) /\ Len(Hosts) > 0  BY HostsAssumption
<1>2. Len(Hosts) \in Nat /\ DOMAIN Hosts = 1..Len(Hosts)  BY <1>1
<1> QED BY <1>1, <1>2 DEF Terminals, Range

\* A collector asks a terminal, and a terminal has a place in the list.
LEMMA HostOf ==
  ASSUME Typed, NEW c \in Collectors
  PROVE  Host(c) \in Terminals /\ col[c].i \in 1..Len(Hosts)
<1>1. col[c].i \in DOMAIN Hosts  BY DEF Typed, Places
<1> QED BY <1>1, HostFacts DEF Host

\* No server has a collector that does not wait for an answer.
LEMMA NotWaiting ==
  ASSUME Waits, NEW c \in Collectors, ~At(c, {"recv"})
  PROVE  \A h \in Terminals : c \notin Waiting(h)
BY DEF Waits

-----------------------------------------------------------------------------
(***************************************************************************)
(* Types and connections.                                                  *)
(***************************************************************************)

LEMMA WaitingAre ==
  ASSUME Typed, NEW h \in Terminals
  PROVE  Waiting(h) \subseteq Collectors
<1>1. server[h].backlog \in Seq(Collectors) /\ server[h].serves \in Collectors \cup {Nobody}
  BY DEF Typed, Servers
<1> DEFINE s == server[h].backlog
<1>2. Range(s) \subseteq Collectors
  <2>1. DOMAIN s = 1..Len(s) /\ \A i \in 1..Len(s) : s[i] \in Collectors  BY <1>1
  <2> HIDE DEF s
  <2> QED BY <2>1 DEF Range
<1> QED BY <1>1, <1>2 DEF Waiting

\* Connections stay right when those of one collector, which moves on, are gone.
LEMMA OthersWait ==
  ASSUME Typed, Waits, NEW c \in Collectors,
         \A d \in Collectors \ {c} : col'[d] = col[d],
         \A h \in Terminals : Waiting(h)' \subseteq Waiting(h) \ {c}
  PROVE  Waits'
<1> SUFFICES ASSUME NEW h \in Terminals, NEW d \in Waiting(h)'
             PROVE  At(d, {"recv"})' /\ Host(d)' = h
  BY DEF Waits
<1>1. d \in Waiting(h) /\ d # c  OBVIOUS
<1>2. d \in Collectors  BY <1>1, WaitingAre
<1>3. col'[d] = col[d]  BY <1>1, <1>2
<1>4. At(d, {"recv"}) /\ Host(d) = h  BY <1>1 DEF Waits
<1> QED BY <1>3, <1>4 DEF At, Host

\* A step of a collector that does not wait and sends nothing.
LEMMA MovesOn ==
  ASSUME TypeInv, NEW c \in Collectors, ~At(c, {"recv"}), UNCHANGED server,
         \A d \in Collectors \ {c} : col'[d] = col[d]
  PROVE  Waits' /\ QueueInv'
<1>1. \A h \in Terminals : Waiting(h)' \subseteq Waiting(h) \ {c}
  BY NotWaiting DEF Waiting, TypeInv
<1>2. Waits'  BY <1>1, OthersWait DEF TypeInv
<1>3. QueueInv'  BY DEF QueueInv, TypeInv
<1> QED BY <1>2, <1>3

LEMMA BeginRoundType ==
  ASSUME TypeInv, NEW c \in Collectors, BeginRound(c)
  PROVE  TypeInv'
<1>1. Typed'
  <2> USE DEF TypeInv, Typed, BeginRound
  <2>1. [at |-> "connect", i |-> 1] \in Places  BY HostFacts DEF Places, Points
  <2>2. col' \in [Collectors -> Places]  BY <2>1
  <2>3. from' \in [Terminals -> Counts]  OBVIOUS
  <2>4. off' \in [Collectors -> SUBSET Terminals]  BY DEF Collectors
  <2>5. Zero \in [Terminals -> Counts]  BY BoundsAssumption DEF Zero, Counts
  <2>6. record' \in [Terminals -> Counts]  BY <2>5
  <2> QED BY <2>2, <2>3, <2>4, <2>6
<1>2. \A d \in Collectors \ {c} : col'[d] = col[d]  BY DEF BeginRound, TypeInv, Typed
<1>3. Waits' /\ QueueInv'  BY <1>2, MovesOn DEF BeginRound, At
<1> QED BY <1>1, <1>3 DEF TypeInv

LEMMA ConnectFailsType ==
  ASSUME TypeInv, NEW c \in Collectors, ConnectFails(c)
  PROVE  TypeInv'
<1>1. Typed'
  <2> USE DEF TypeInv, Typed, ConnectFails, Goto, Kept
  <2>1. col' \in [Collectors -> Places]  BY DEF Places, Points
  <2> QED BY <2>1
<1>2. \A d \in Collectors \ {c} : col'[d] = col[d]
  BY DEF ConnectFails, Goto, TypeInv, Typed
<1>3. Waits' /\ QueueInv'  BY <1>2, MovesOn DEF ConnectFails, At
<1> QED BY <1>1, <1>3 DEF TypeInv

LEMMA EndRoundType ==
  ASSUME TypeInv, NEW c \in Collectors, EndRound(c)
  PROVE  TypeInv'
<1>1. Typed'
  <2> USE DEF TypeInv, Typed, EndRound, Goto
  <2>1. col' \in [Collectors -> Places]  BY DEF Places, Points
  <2>2. Zero \in [Terminals -> Counts]  BY BoundsAssumption DEF Zero, Counts
  <2>3. from' \in [Terminals -> Counts]  BY <2>2
  <2>4. record' \in [Terminals -> Counts]  OBVIOUS
  <2> QED BY <2>1, <2>3, <2>4
<1>2. \A d \in Collectors \ {c} : col'[d] = col[d]  BY DEF EndRound, Goto, TypeInv, Typed
<1>3. Waits' /\ QueueInv'  BY <1>2, MovesOn DEF EndRound, At
<1> QED BY <1>1, <1>3 DEF TypeInv

\* The server asked has one connection more, the collector waits.
LEMMA ConnectDoes ==
  ASSUME TypeInv, NEW c \in Collectors, Connect(c), NEW a, a = Host(c)
  PROVE  /\ a \in Terminals
         /\ server'[a] = [server[a] EXCEPT !.backlog = Append(@, c)]
         /\ \A h \in Terminals \ {a} : server'[h] = server[h]
         /\ col'[c] = [col[c] EXCEPT !.at = "recv"]
         /\ \A d \in Collectors \ {c} : col'[d] = col[d]
         /\ c = "reqinfo" => /\ value'[c] = [value[c] EXCEPT ![a] = 0]
                             /\ \A d \in Collectors \ {c} : value'[d] = value[d]
         /\ c # "reqinfo" => value' = value
<1>1. a \in Terminals  BY HostOf DEF TypeInv
<1> QED BY <1>1 DEF Connect, ResetCollision, Goto, TypeInv, Typed

LEMMA ConnectType ==
  ASSUME TypeInv, NEW c \in Collectors, Connect(c)
  PROVE  TypeInv'
<1> DEFINE a == Host(c)
<1>1. a \in Terminals  BY HostOf DEF TypeInv
<1>0. PICK b : b = a  OBVIOUS
<1> HIDE DEF a
<1>2. server[b] \in Servers /\ server[b].backlog \in Seq(Collectors)  BY <1>0, <1>1 DEF TypeInv, Typed, Servers
<1>3. /\ server'[b] = [server[b] EXCEPT !.backlog = Append(@, c)]
      /\ \A h \in Terminals \ {b} : server'[h] = server[h]
      /\ col'[c] = [col[c] EXCEPT !.at = "recv"]
      /\ \A d \in Collectors \ {c} : col'[d] = col[d]
      /\ c = "reqinfo" => /\ value'[c] = [value[c] EXCEPT ![b] = 0]
                          /\ \A d \in Collectors \ {c} : value'[d] = value[d]
      /\ c # "reqinfo" => value' = value
  BY <1>0, ConnectDoes DEF a
<1>4. \A h \in Terminals : c \notin Waiting(h)  BY NotWaiting DEF Connect, At, TypeInv
<1>5. /\ Append(server[b].backlog, c) \in Seq(Collectors)
      /\ Range(Append(server[b].backlog, c)) = Range(server[b].backlog) \cup {c}
      /\ (c \notin Range(server[b].backlog) /\ IsInjective(server[b].backlog))
           => IsInjective(Append(server[b].backlog, c))
  BY <1>2, AppendOne
<1>6. /\ server'[b].backlog = Append(server[b].backlog, c)
      /\ server'[b].serves = server[b].serves
      /\ server'[b] \in Servers
  BY <1>2, <1>3, <1>5 DEF Servers
<1>7. Typed'
  <2> USE DEF TypeInv, Typed, Connect, Goto
  <2>1. server' \in [Terminals -> Servers]  BY <1>3, <1>6
  <2>2. col' \in [Collectors -> Places]  BY DEF Places, Points
  <2>3. 0 \in Differences /\ 0 \in Counts  BY BoundsAssumption DEF Differences, Counts
  <2>4. value' \in [Collectors -> [Terminals -> Differences]]  BY <2>3 DEF ResetCollision
  <2>5. value'["reqinfo"] \in [Terminals -> Counts]
    <3>1. CASE c = "reqinfo"
      <4>1. value["reqinfo"] \in [Terminals -> Counts]  OBVIOUS
      <4>2. value'["reqinfo"] = [value["reqinfo"] EXCEPT ![b] = 0]  BY <1>3, <3>1
      <4> HIDE DEF TypeInv
      <4> QED BY <2>3, <4>1, <4>2
    <3>2. CASE c # "reqinfo"  BY <1>3, <3>2
    <3> QED BY <3>1, <3>2
  <2> QED BY <2>1, <2>2, <2>4, <2>5
<1>8. Waits'
  <2> SUFFICES ASSUME NEW h \in Terminals, NEW d \in Waiting(h)'
               PROVE  At(d, {"recv"})' /\ Host(d)' = h
    BY DEF Waits
  <2>1. CASE d = c
    <3>1. h = b
      <4> SUFFICES ASSUME h # b PROVE FALSE  OBVIOUS
      <4>1. server'[h] = server[h]  BY <1>3
      <4> QED BY <1>4, <2>1, <4>1 DEF Waiting
    <3>2. col'[c].at = "recv" /\ col'[c].i = col[c].i  BY <1>3 DEF TypeInv, Typed, Places
    <3> QED BY <1>0, <2>1, <3>1, <3>2 DEF At, Host, a
  <2>2. CASE d # c
    <3>1. d \in Waiting(h)
      <4>1. CASE h = b  BY <1>5, <1>6, <2>2, <4>1 DEF Waiting
      <4>2. CASE h # b  BY <1>3, <4>2 DEF Waiting
      <4> QED BY <4>1, <4>2
    <3>2. d \in Collectors /\ col'[d] = col[d]  BY <1>3, <2>2, <3>1, WaitingAre DEF TypeInv
    <3>3. At(d, {"recv"}) /\ Host(d) = h  BY <3>1 DEF TypeInv, Waits
    <3> QED BY <3>2, <3>3 DEF At, Host
  <2> QED BY <2>1, <2>2
<1>9. QueueInv'
  <2> SUFFICES ASSUME NEW h \in Terminals
               PROVE  /\ server'[h].serves \notin Range(server'[h].backlog)
                      /\ IsInjective(server'[h].backlog)
    BY DEF QueueInv
  <2>1. server[h].serves \notin Range(server[h].backlog) /\ IsInjective(server[h].backlog)
    BY DEF QueueInv, TypeInv
  <2>2. CASE h = b
    <3>1. c \notin Range(server[b].backlog) /\ c # server[b].serves
      <4>1. c # Nobody  BY DEF Collectors, Nobody
      <4> QED BY <1>0, <1>1, <1>4, <4>1 DEF Waiting
    <3> QED BY <1>5, <1>6, <2>1, <2>2, <3>1
  <2>3. CASE h # b  BY <1>3, <2>1, <2>3
  <2> QED BY <2>2, <2>3
<1> QED BY <1>7, <1>8, <1>9 DEF TypeInv

\* A server takes the first of its connections.
LEMMA AcceptDoes ==
  ASSUME TypeInv, NEW h \in Terminals, Accept(h)
  PROVE  /\ server[h].serves = Nobody
         /\ server'[h].serves = Head(server[h].backlog) /\ server'[h].serves \in Collectors
         /\ server'[h].backlog = Tail(server[h].backlog)
         /\ server'[h].answer = count[h]
         /\ server'[h] \in Servers
         /\ \A g \in Terminals \ {h} : server'[g] = server[g]
         /\ Range(server[h].backlog) = Range(server'[h].backlog) \cup {server'[h].serves}
         /\ server'[h].serves \notin Range(server'[h].backlog)
         /\ IsInjective(server'[h].backlog)
         /\ Waiting(h)' = Waiting(h)
<1>1. server[h] \in Servers /\ server[h].backlog \in Seq(Collectors) /\ server[h].backlog # <<>>
      /\ count[h] \in Counts
  BY DEF TypeInv, Typed, Servers, Accept
<1>2. /\ Head(server[h].backlog) \in Collectors /\ Tail(server[h].backlog) \in Seq(Collectors)
      /\ Range(server[h].backlog) = Range(Tail(server[h].backlog)) \cup {Head(server[h].backlog)}
      /\ IsInjective(server[h].backlog) =>
           (Head(server[h].backlog) \notin Range(Tail(server[h].backlog))
            /\ IsInjective(Tail(server[h].backlog)))
  BY <1>1, TakeOne
<1>3. /\ server'[h] = [server[h] EXCEPT !.serves = Head(server[h].backlog),
                                        !.backlog = Tail(server[h].backlog),
                                        !.answer = count[h]]
      /\ \A g \in Terminals \ {h} : server'[g] = server[g]
      /\ server[h].serves = Nobody
  BY DEF Accept, TypeInv, Typed
<1>4. /\ server'[h].serves = Head(server[h].backlog)
      /\ server'[h].backlog = Tail(server[h].backlog)
      /\ server'[h].answer = count[h]
      /\ server'[h] \in Servers
  BY <1>1, <1>2, <1>3 DEF Servers
<1>5. IsInjective(server[h].backlog)  BY DEF TypeInv, QueueInv
<1>6. Nobody \notin Collectors  BY DEF Nobody, Collectors
<1>7. Waiting(h)' = Waiting(h)  BY <1>2, <1>3, <1>4, <1>6 DEF Waiting
<1> QED BY <1>2, <1>3, <1>4, <1>5, <1>7

LEMMA AcceptType ==
  ASSUME TypeInv, NEW h \in Terminals, Accept(h)
  PROVE  TypeInv'
<1>1. Typed'
  <2>1. server' \in [Terminals -> Servers]
    <3>1. server' = [server EXCEPT ![h] = server'[h]]
      BY DEF Accept, TypeInv, Typed
    <3> QED BY <3>1, AcceptDoes DEF TypeInv, Typed
  <2> QED BY <2>1 DEF TypeInv, Typed, Accept, Kept
<1>2. Waits'
  <2> SUFFICES ASSUME NEW g \in Terminals, NEW d \in Waiting(g)'
               PROVE  At(d, {"recv"})' /\ Host(d)' = g
    BY DEF Waits
  <2>1. d \in Waiting(g)
    <3>1. CASE g = h  BY <3>1, AcceptDoes
    <3>2. CASE g # h  BY <3>2, AcceptDoes DEF Waiting
    <3> QED BY <3>1, <3>2
  <2>2. At(d, {"recv"}) /\ Host(d) = g  BY <2>1 DEF TypeInv, Waits
  <2> QED BY <2>2 DEF Accept, At, Host
<1>3. QueueInv'
  <2> SUFFICES ASSUME NEW g \in Terminals
               PROVE  /\ server'[g].serves \notin Range(server'[g].backlog)
                      /\ IsInjective(server'[g].backlog)
    BY DEF QueueInv
  <2>1. CASE g = h  BY <2>1, AcceptDoes
  <2>2. CASE g # h  BY <2>2, AcceptDoes DEF TypeInv, QueueInv
  <2> QED BY <2>1, <2>2
<1> QED BY <1>1, <1>2, <1>3 DEF TypeInv

\* The connection a server has served is gone from all servers.
LEMMA ServedGone ==
  ASSUME TypeInv, NEW h \in Terminals, NEW c \in Collectors, server[h].serves = c,
         server' = [server EXCEPT ![h] = Closed(@)],
         \A d \in Collectors \ {c} : col'[d] = col[d]
  PROVE  /\ server' \in [Terminals -> Servers]
         /\ server'[h].serves = Nobody
         /\ \A g \in Terminals \ {h} : server'[g] = server[g]
         /\ \A g \in Terminals : c \notin Waiting(g)'
         /\ At(c, {"recv"}) /\ Host(c) = h
         /\ Waits' /\ QueueInv'
<1>1. server[h] \in Servers  BY DEF TypeInv, Typed
<1>2. 0 \in Counts  BY BoundsAssumption DEF Counts
<1>3. /\ server'[h].serves = Nobody /\ server'[h].backlog = server[h].backlog
      /\ server'[h] \in Servers
      /\ \A g \in Terminals \ {h} : server'[g] = server[g]
  BY <1>1, <1>2 DEF TypeInv, Typed, Closed, Servers
<1>4. server' \in [Terminals -> Servers]
  BY <1>1, <1>2, <1>3 DEF TypeInv, Typed
<1>5. c # Nobody  BY DEF Collectors, Nobody
<1>6. c \in Waiting(h)  BY <1>5 DEF Waiting
<1>7. At(c, {"recv"}) /\ Host(c) = h  BY <1>6 DEF TypeInv, Waits
<1>8. \A g \in Terminals : Waiting(g)' \subseteq Waiting(g) \ {c}
  <2> TAKE g \in Terminals
  <2>1. CASE g = h
    <3>1. c \notin Range(server[h].backlog)  BY DEF TypeInv, QueueInv
    <3> QED BY <1>3, <2>1, <3>1 DEF Waiting
  <2>2. CASE g # h
    <3>1. Waiting(g)' = Waiting(g)  BY <1>3, <2>2 DEF Waiting
    <3>2. c \notin Waiting(g)  BY <1>7, <2>2 DEF TypeInv, Waits
    <3> QED BY <3>1, <3>2
  <2> QED BY <2>1, <2>2
<1>9. Waits'  BY <1>8, OthersWait DEF TypeInv
<1>10. QueueInv'
  <2> SUFFICES ASSUME NEW g \in Terminals
               PROVE  /\ server'[g].serves \notin Range(server'[g].backlog)
                      /\ IsInjective(server'[g].backlog)
    BY DEF QueueInv
  <2>1. server[g].serves \notin Range(server[g].backlog) /\ IsInjective(server[g].backlog)
    BY DEF QueueInv, TypeInv
  <2>2. CASE g = h
    <3>1. server[h].backlog \in Seq(Collectors)  BY <1>1 DEF Servers
    <3>2. Range(server[h].backlog) \subseteq Collectors  BY WaitingAre DEF TypeInv, Waiting
    <3>3. Nobody \notin Collectors  BY DEF Collectors, Nobody
    <3> QED BY <1>3, <2>1, <2>2, <3>2, <3>3
  <2>3. CASE g # h  BY <1>3, <2>1, <2>3
  <2> QED BY <2>2, <2>3
<1> QED BY <1>3, <1>4, <1>7, <1>8, <1>9, <1>10

LEMMA AnswerType ==
  ASSUME TypeInv, NEW h \in Terminals, Answer(h)
  PROVE  TypeInv'
<1>1. server[h] \in Servers  BY DEF TypeInv, Typed
<1>2. PICK c \in Collectors : server[h].serves = c  BY <1>1 DEF Answer, Servers
<1>3. PICK got \in Counts : server[h].answer = got  BY <1>1 DEF Servers
<1>4. Keep(c, got) /\ server' = [server EXCEPT ![h] = Closed(@)]
      /\ UNCHANGED <<count, record, from, off, failures>>
  BY <1>2, <1>3 DEF Answer
<1>5. \A d \in Collectors \ {c} : col'[d] = col[d]
  BY <1>4 DEF Keep, TypeInv, Typed
<1>6. /\ server' \in [Terminals -> Servers]
      /\ Host(c) = h /\ Waits' /\ QueueInv'
  BY <1>2, <1>4, <1>5, ServedGone
<1>7. col' \in [Collectors -> Places]
  <2>1. col[c].i \in 1..Len(Hosts)  BY HostOf DEF TypeInv
  <2>2. [at |-> "end", i |-> 1] \in Places  BY HostFacts DEF Places, Points
  <2>3. ASSUME ~(NextHost(c, got) > Len(Hosts))
        PROVE  [at |-> "connect", i |-> NextHost(c, got)] \in Places
    BY <2>1, <2>3, HostFacts DEF NextHost, Places, Points
  <2> QED BY <1>4, <2>2, <2>3 DEF Keep, TypeInv, Typed
<1>8. got \in Differences /\ got \in Int  BY <1>3, BoundsAssumption DEF Counts, Differences
<1>9. /\ value' \in [Collectors -> [Terminals -> Differences]]
      /\ value'["reqinfo"] \in [Terminals -> Counts]
      /\ base' \in [Terminals -> Counts] /\ sync' \in BOOLEAN
  <2> USE DEF TypeInv, Typed
  <2>0. \A v \in Differences : [value EXCEPT ![c][h] = v] \in [Collectors -> [Terminals -> Differences]]
    <3>1. value \in [Collectors -> [Terminals -> Differences]]  OBVIOUS
    <3> HIDE DEF TypeInv
    <3> QED BY <3>1
  <2>1. CASE c = "reqinfo"
    <3>1. value' = value \/ value' = [value EXCEPT !["reqinfo"][h] = got]
      BY <1>4, <1>6, <2>1 DEF Keep
    <3>2. base' = base /\ sync' = sync  BY <1>4, <2>1 DEF Keep
    <3>3. value' \in [Collectors -> [Terminals -> Differences]]
      BY <1>8, <2>0, <2>1, <3>1
    <3>4. "reqinfo" \in Collectors  BY DEF Collectors
    <3>5. value'["reqinfo"] = value["reqinfo"]
          \/ value'["reqinfo"] = [value["reqinfo"] EXCEPT ![h] = got]
      BY <3>1, <3>4
    <3>6. value["reqinfo"] \in [Terminals -> Counts]  OBVIOUS
    <3>7. value'["reqinfo"] \in [Terminals -> Counts]
      <4> HIDE DEF TypeInv
      <4> QED BY <3>5, <3>6
    <3> QED BY <3>2, <3>3, <3>7
  <2>2. CASE c # "reqinfo"
    <3>1. c = "printcoll" /\ c # "reqinfo"  BY <2>2 DEF Collectors
    <3>2. value' = value \/ value' = [value EXCEPT ![c][h] = got - base[h]]
      BY <1>4, <1>6, <2>2 DEF Keep
    <3>3. base' = base \/ base' = [base EXCEPT ![h] = got]
      BY <1>4, <1>6, <2>2 DEF Keep
    <3>4. sync' = (sync \/ Sync(c))  BY <1>4, <2>2 DEF Keep
    <3>5. base[h] \in Counts  OBVIOUS
    <3>6. got - base[h] \in Differences  BY <1>3, <3>5, BoundsAssumption DEF Counts, Differences
    <3>7. value' \in [Collectors -> [Terminals -> Differences]]
      BY <2>0, <3>2, <3>6
    <3>8. value'["reqinfo"] = value["reqinfo"]
      BY <2>2, <3>2 DEF Collectors
    <3>9. base' \in [Terminals -> Counts]  BY <3>3
    <3>10. sync' \in BOOLEAN  BY <3>4, Zenon DEF Sync
    <3> QED BY <3>7, <3>8, <3>9, <3>10
  <2> QED BY <2>1, <2>2
<1>10. Typed'  BY <1>4, <1>6, <1>7, <1>9 DEF TypeInv, Typed
<1> QED BY <1>6, <1>10 DEF TypeInv

LEMMA AnswerLostType ==
  ASSUME TypeInv, NEW h \in Terminals, AnswerLost(h)
  PROVE  TypeInv'
<1>1. server[h] \in Servers  BY DEF TypeInv, Typed
<1>2. PICK c \in Collectors : server[h].serves = c  BY <1>1 DEF AnswerLost, Servers
<1>3. Goto(c, "dead") /\ server' = [server EXCEPT ![h] = Closed(@)]
      /\ UNCHANGED <<count, Kept>> /\ Fail
  BY <1>2 DEF AnswerLost
<1>4. \A d \in Collectors \ {c} : col'[d] = col[d]  BY <1>3 DEF Goto, TypeInv, Typed
<1>5. server' \in [Terminals -> Servers] /\ Waits' /\ QueueInv'
  BY <1>2, <1>3, <1>4, ServedGone
<1>6. col' \in [Collectors -> Places]  BY <1>3 DEF Goto, Places, Points, TypeInv, Typed
<1>7. failures' \in 0..MaxFailures  BY <1>3, BoundsAssumption DEF Fail, TypeInv, Typed
<1>8. Typed'  BY <1>3, <1>5, <1>6, <1>7 DEF Kept, TypeInv, Typed
<1> QED BY <1>5, <1>8 DEF TypeInv

\* A server that is stopped or started has no connections.
LEMMA NoConnections ==
  ASSUME TypeInv, NEW h \in Terminals, NEW b \in BOOLEAN,
         server' = [server EXCEPT ![h] = [Up EXCEPT !.runs = b]],
         \A c \in Collectors \ Waiting(h) : col'[c] = col[c]
  PROVE  /\ server' \in [Terminals -> Servers]
         /\ Waits' /\ QueueInv'
         /\ server'[h].serves = Nobody
         /\ \A g \in Terminals \ {h} : server'[g] = server[g]
<1>1. << >> \in Seq(Collectors) /\ 0 \in Counts  BY BoundsAssumption DEF Counts
<1>2. [Up EXCEPT !.runs = b] \in Servers  BY <1>1 DEF Up, Servers
<1>3. /\ server'[h].serves = Nobody /\ server'[h].backlog = << >>
      /\ \A g \in Terminals \ {h} : server'[g] = server[g]
      /\ server' \in [Terminals -> Servers]
  BY <1>2 DEF TypeInv, Typed, Up
<1>4. Range(<< >>) = {}  BY DEF Range
<1>5. Waits'
  <2> SUFFICES ASSUME NEW g \in Terminals, NEW d \in Waiting(g)'
               PROVE  At(d, {"recv"})' /\ Host(d)' = g
    BY DEF Waits
  <2>1. g # h  BY <1>3, <1>4 DEF Waiting
  <2>2. d \in Waiting(g)  BY <1>3, <2>1 DEF Waiting
  <2>3. At(d, {"recv"}) /\ Host(d) = g  BY <2>2 DEF TypeInv, Waits
  <2>4. d \notin Waiting(h)  BY <2>1, <2>3 DEF TypeInv, Waits
  <2>5. col'[d] = col[d]  BY <2>2, <2>4, WaitingAre DEF TypeInv
  <2> QED BY <2>3, <2>5 DEF At, Host
<1>6. QueueInv'
  <2> SUFFICES ASSUME NEW g \in Terminals
               PROVE  /\ server'[g].serves \notin Range(server'[g].backlog)
                      /\ IsInjective(server'[g].backlog)
    BY DEF QueueInv
  <2>1. CASE g = h  BY <1>3, <1>4, <2>1 DEF IsInjective
  <2>2. CASE g # h  BY <1>3, <2>2 DEF QueueInv, TypeInv
  <2> QED BY <2>1, <2>2
<1> QED BY <1>3, <1>5, <1>6

LEMMA StopType ==
  ASSUME TypeInv, NEW h \in Terminals, Stop(h)
  PROVE  TypeInv'
<1>1. server' = [server EXCEPT ![h] = [Up EXCEPT !.runs = FALSE]]  BY DEF Stop, Down
<1>2. \A c \in Collectors : col'[c] = IF c \in Waiting(h) THEN [col[c] EXCEPT !.at = "dead"] ELSE col[c]
  BY DEF Stop
<1>3. server' \in [Terminals -> Servers] /\ Waits' /\ QueueInv'
  BY <1>1, <1>2, NoConnections
<1>4. col' \in [Collectors -> Places]
  BY <1>2 DEF Stop, Places, Points, TypeInv, Typed
<1>5. failures' \in 0..MaxFailures  BY BoundsAssumption DEF Stop, Fail, TypeInv, Typed
<1>6. Typed'  BY <1>3, <1>4, <1>5 DEF Stop, Kept, TypeInv, Typed
<1> QED BY <1>3, <1>6 DEF TypeInv

LEMMA SwitchOffType ==
  ASSUME TypeInv, NEW h \in Terminals, SwitchOff(h)
  PROVE  TypeInv'
<1>1. server' = [server EXCEPT ![h] = [Up EXCEPT !.runs = FALSE]]  BY DEF SwitchOff, Down
<1>2. col' = col  BY DEF SwitchOff
<1>3. server' \in [Terminals -> Servers] /\ Waits' /\ QueueInv'
  BY <1>1, <1>2, NoConnections
<1>4. 0 \in Counts  BY BoundsAssumption DEF Counts
<1>5. failures' \in 0..MaxFailures  BY BoundsAssumption DEF SwitchOff, Fail, TypeInv, Typed
<1>6. count' \in [Terminals -> Counts] /\ off' \in [Collectors -> SUBSET Terminals]
  BY <1>4 DEF SwitchOff, TypeInv, Typed
<1>7. Typed'  BY <1>3, <1>5, <1>6 DEF SwitchOff, TypeInv, Typed
<1> QED BY <1>3, <1>7 DEF TypeInv

LEMMA StartType ==
  ASSUME TypeInv, NEW h \in Terminals, Start(h)
  PROVE  TypeInv'
<1>1. server' = [server EXCEPT ![h] = [Up EXCEPT !.runs = TRUE]]  BY DEF Start, Up
<1>2. col' = col  BY DEF Start
<1>3. server' \in [Terminals -> Servers] /\ Waits' /\ QueueInv'
  BY <1>1, <1>2, NoConnections
<1>4. Typed'  BY <1>3 DEF Start, Kept, TypeInv, Typed
<1> QED BY <1>3, <1>4 DEF TypeInv

LEMMA ResendType ==
  ASSUME TypeInv, NEW h \in Terminals, Resend(h)
  PROVE  TypeInv'
<1>1. count' \in [Terminals -> Counts]
  BY BoundsAssumption DEF Resend, Counts, TypeInv, Typed
<1>2. Typed'  BY <1>1 DEF Resend, Kept, TypeInv, Typed
<1>3. Waits' /\ QueueInv'
  BY DEF Resend, TypeInv, Waits, QueueInv, Waiting, At, Host
<1> QED BY <1>2, <1>3 DEF TypeInv

LEMMA TypeStep ==
  ASSUME TypeInv, [Next]_vars
  PROVE  TypeInv'
<1>1. CASE UNCHANGED vars
  BY <1>1 DEF vars, TypeInv, Typed, Waits, QueueInv, Waiting, At, Host
<1>2. ASSUME NEW c \in Collectors, Collect(c) PROVE TypeInv'
  BY <1>2, BeginRoundType, ConnectType, ConnectFailsType, EndRoundType DEF Collect
<1>3. ASSUME NEW h \in Terminals,
             Serve(h) \/ AnswerLost(h) \/ Resend(h) \/ Stop(h) \/ SwitchOff(h) \/ Start(h)
      PROVE  TypeInv'
  BY <1>3, AcceptType, AnswerType, AnswerLostType, ResendType, StopType, SwitchOffType, StartType
  DEF Serve
<1> QED BY <1>1, <1>2, <1>3 DEF Next

LEMMA TypeInit ==
  ASSUME Init
  PROVE  TypeInv
<1>1. /\ << >> \in Seq(Collectors) /\ 0 \in Counts /\ FirstCount \in Counts
      /\ 0 \in Differences /\ 0 \in 0..MaxFailures
  BY BoundsAssumption DEF Counts, Differences
<1>2. Up \in Servers /\ Up.backlog = << >> /\ Up.serves = Nobody  BY <1>1 DEF Up, Servers
<1>3. [at |-> "sleep", i |-> 1] \in Places  BY HostFacts DEF Places, Points
<1>4. Typed
  <2>1. Zero \in [Terminals -> Counts] /\ Zero \in [Terminals -> Differences]  BY <1>1 DEF Zero
  <2>2. count \in [Terminals -> Counts] /\ server \in [Terminals -> Servers]
        /\ col \in [Collectors -> Places]
    BY <1>1, <1>2, <1>3 DEF Init
  <2>3. value \in [Collectors -> [Terminals -> Differences]] /\ value["reqinfo"] \in [Terminals -> Counts]
    BY <2>1 DEF Init, Collectors
  <2>4. from \in [Terminals -> Counts]  BY <2>1 DEF Init
  <2>5. off \in [Collectors -> SUBSET Terminals] /\ failures \in 0..MaxFailures /\ sync \in BOOLEAN
    BY <1>1 DEF Init
  <2> QED BY <2>1, <2>2, <2>3, <2>4, <2>5 DEF Init, Typed
<1>5. \A h \in Terminals : server[h] = Up  BY DEF Init
<1>6. Range(<< >>) = {}  BY DEF Range
<1>7. Waits  BY <1>2, <1>5, <1>6 DEF Waits, Waiting
<1>8. QueueInv  BY <1>2, <1>5, <1>6 DEF QueueInv, IsInjective
<1> QED BY <1>4, <1>7, <1>8 DEF TypeInv

\* What TypeOK says is part of the invariant.
LEMMA TypeInvImplies == TypeInv => TypeOK
BY DEF TypeInv, Typed, Waits, TypeOK, Counts, Differences, Servers, Places, Points

-----------------------------------------------------------------------------
(***************************************************************************)
(* What an answer does to the collector that gets it.                      *)
(***************************************************************************)

LEMMA AnswerDoes ==
  ASSUME TypeInv, NEW h \in Terminals, Answer(h)
  PROVE  \E c \in Collectors, got \in Counts :
           /\ Serves(h, c) /\ server[h].answer = got
           /\ At(c, {"recv"}) /\ Host(c) = h
           /\ \A g \in Terminals : ~Serves(g, c)' /\ \A d \in Collectors : Serves(g, d)' => Serves(g, d)
           /\ \A g \in Terminals : \A d \in Collectors : Serves(g, d)' => server'[g] = server[g]
           /\ col'[c] = IF col[c].i + 1 > Len(Hosts) THEN [at |-> "end", i |-> 1]
                        ELSE [at |-> "connect", i |-> col[c].i + 1]
           /\ \A d \in Collectors \ {c} : col'[d] = col[d] /\ value'[d] = value[d]
           /\ c = "reqinfo" =>
                /\ value'[c] = IF got # 0 THEN [value[c] EXCEPT ![h] = got] ELSE value[c]
                /\ base' = base /\ sync' = sync
           /\ c = "printcoll" =>
                /\ base' = IF sync THEN base ELSE [base EXCEPT ![h] = got]
                /\ value'[c] = IF sync THEN [value[c] EXCEPT ![h] = got - base[h]] ELSE value[c]
                /\ sync' = (sync \/ col[c].i = Len(Hosts))
           /\ count' = count /\ record' = record /\ from' = from /\ off' = off
<1>1. server[h] \in Servers  BY DEF TypeInv, Typed
<1>2. PICK c \in Collectors : server[h].serves = c  BY <1>1 DEF Answer, Servers
<1>3. PICK got \in Counts : server[h].answer = got  BY <1>1 DEF Servers
<1>4. Keep(c, got) /\ server' = [server EXCEPT ![h] = Closed(@)]
      /\ count' = count /\ record' = record /\ from' = from /\ off' = off
  BY <1>2, <1>3 DEF Answer
<1>5. \A d \in Collectors \ {c} : col'[d] = col[d]
  BY <1>4 DEF Keep, TypeInv, Typed
<1>6. /\ server'[h].serves = Nobody
      /\ \A g \in Terminals \ {h} : server'[g] = server[g]
      /\ \A g \in Terminals : c \notin Waiting(g)'
      /\ At(c, {"recv"}) /\ Host(c) = h
  BY <1>2, <1>4, <1>5, ServedGone
<1>7. Nobody \notin Collectors  BY DEF Nobody, Collectors
<1>8. \A g \in Terminals : ~Serves(g, c)'  BY <1>6, <1>7 DEF Waiting, Serves
<1>9. \A g \in Terminals : \A d \in Collectors :
        Serves(g, d)' => (server'[g] = server[g] /\ Serves(g, d))
  <2> SUFFICES ASSUME NEW g \in Terminals, NEW d \in Collectors, Serves(g, d)'
               PROVE  server'[g] = server[g]
    BY DEF Serves
  <2>1. g # h  BY <1>6, <1>7 DEF Serves
  <2> QED BY <1>6, <2>1
<1>10. col'[c] = IF col[c].i + 1 > Len(Hosts) THEN [at |-> "end", i |-> 1]
                 ELSE [at |-> "connect", i |-> col[c].i + 1]
  BY <1>4 DEF Keep, NextHost, TypeInv, Typed
<1>11. /\ \A d \in Collectors \ {c} : value'[d] = value[d]
       /\ c = "reqinfo" =>
            /\ value'[c] = IF got # 0 THEN [value[c] EXCEPT ![h] = got] ELSE value[c]
            /\ base' = base /\ sync' = sync
       /\ c = "printcoll" =>
            /\ base' = IF sync THEN base ELSE [base EXCEPT ![h] = got]
            /\ value'[c] = IF sync THEN [value[c] EXCEPT ![h] = got - base[h]] ELSE value[c]
            /\ sync' = (sync \/ col[c].i = Len(Hosts))
  <2>1. value \in [Collectors -> [Terminals -> Differences]]  BY DEF TypeInv, Typed
  <2>2. CASE c = "reqinfo"
    BY <1>4, <1>6, <2>1, <2>2 DEF Keep
  <2>3. CASE c = "printcoll"
    BY <1>4, <1>6, <2>1, <2>3 DEF Keep, Sync
  <2> QED BY <2>2, <2>3 DEF Collectors
<1> QED BY <1>2, <1>3, <1>4, <1>5, <1>6, <1>8, <1>9, <1>10, <1>11 DEF Serves

-----------------------------------------------------------------------------
(***************************************************************************)
(* FromInv.                                                                *)
(***************************************************************************)

\* A collector that does not wait is served by nobody.
LEMMA NotServed ==
  ASSUME Waits, NEW c \in Collectors, ~At(c, {"recv"})
  PROVE  \A h \in Terminals : ~Serves(h, c)
<1>1. c # Nobody  BY DEF Nobody, Collectors
<1> QED BY <1>1, NotWaiting DEF Waiting, Serves

\* Steps after which counts are as before, and answers to reqinfo are of before.
LEMMA FromFrame ==
  ASSUME FromInv, UNCHANGED <<from, count>>, off'["reqinfo"] = off["reqinfo"],
         \A h \in Terminals :
           Serves(h, "reqinfo")' => (Serves(h, "reqinfo") /\ server'[h].answer = server[h].answer)
  PROVE  FromInv'
BY DEF FromInv

\* Steps after which reqinfo does not wait for an answer.
LEMMA FromNew ==
  ASSUME TypeInv, ~At("reqinfo", {"recv"}), UNCHANGED <<count, server>>,
         \A h \in Terminals : from'[h] <= count[h]
  PROVE  FromInv'
<1>1. "reqinfo" \in Collectors  BY DEF Collectors
<1>2. \A h \in Terminals : ~Serves(h, "reqinfo")  BY <1>1, NotServed DEF TypeInv
<1>3. \A h \in Terminals : ~Serves(h, "reqinfo")'  BY <1>2 DEF Serves
<1> QED BY <1>3 DEF FromInv

LEMMA FromStep ==
  ASSUME TypeInv, FromInv, [Next]_vars
  PROVE  FromInv'
<1> DEFINE q == "reqinfo"
<1> USE DEF TypeInv
<1>0. /\ q \in Collectors /\ Nobody # q
      /\ \A h \in Terminals : count[h] \in Counts /\ from[h] \in Counts
      /\ \A h \in Terminals : count[h] \in Int /\ from[h] \in Int
  BY DEF Collectors, Nobody, Typed, Counts
<1>1. CASE UNCHANGED vars
  BY <1>1, FromFrame DEF vars, Serves
<1>2. ASSUME NEW c \in Collectors, BeginRound(c) PROVE FromInv'
  <2>1. CASE c # q
    <3>1. off'[q] = off[q]  BY <1>0, <1>2, <2>1 DEF BeginRound, Typed
    <3> QED BY <1>2, <2>1, <3>1, FromFrame DEF BeginRound, Serves
  <2>2. CASE c = q
    <3>1. ~At(q, {"recv"}) /\ count' = count /\ server' = server /\ from' = count
      BY <1>2, <2>2 DEF BeginRound, At
    <3>2. \A h \in Terminals : from'[h] <= count[h]  BY <1>0, <3>1
    <3> QED BY <3>1, <3>2, FromNew
  <2> QED BY <2>1, <2>2
<1>3. ASSUME NEW c \in Collectors, Connect(c) PROVE FromInv'
  <2>1. \A h \in Terminals : server'[h].serves = server[h].serves /\ server'[h].answer = server[h].answer
    BY <1>3, HostOf DEF Connect, Typed, Servers
  <2> QED BY <1>3, <2>1, FromFrame DEF Connect, Serves
<1>4. ASSUME NEW c \in Collectors, ConnectFails(c) PROVE FromInv'
  BY <1>4, FromFrame DEF ConnectFails, Kept, Serves
<1>5. ASSUME NEW c \in Collectors, EndRound(c) PROVE FromInv'
  <2>1. CASE c # q  BY <1>5, <2>1, FromFrame DEF EndRound, Serves
  <2>2. CASE c = q
    <3>1. ~At(q, {"recv"}) /\ count' = count /\ server' = server /\ from' = Zero
      BY <1>5, <2>2 DEF EndRound, At
    <3>2. \A h \in Terminals : from'[h] <= count[h]  BY <1>0, <3>1 DEF Zero, Counts
    <3> QED BY <3>1, <3>2, FromNew
  <2> QED BY <2>1, <2>2
<1>6. ASSUME NEW g \in Terminals, Accept(g) PROVE FromInv'
  <2> SUFFICES ASSUME NEW h \in Terminals \ off[q]
               PROVE  /\ from[h] <= count[h]
                      /\ Serves(h, q)' => server'[h].answer \in from[h] .. count[h]
    BY <1>6 DEF FromInv, Accept, Kept
  <2>1. from[h] <= count[h]  BY DEF FromInv
  <2>2. CASE h = g  BY <1>0, <1>6, <2>1, <2>2, AcceptDoes
  <2>3. CASE h # g
    <3>1. server'[h] = server[h]  BY <1>6, <2>3, AcceptDoes
    <3> QED BY <3>1 DEF FromInv, Serves
  <2> QED BY <2>2, <2>3
<1>7. ASSUME NEW g \in Terminals, Answer(g) PROVE FromInv'
  <2>1. count' = count /\ from' = from /\ off' = off
        /\ \A h \in Terminals : Serves(h, q)' => (Serves(h, q) /\ server'[h] = server[h])
    BY <1>0, <1>7, AnswerDoes
  <2> QED BY <2>1, FromFrame
<1>8. ASSUME NEW g \in Terminals, AnswerLost(g) PROVE FromInv'
  <2>1. \A h \in Terminals : server'[h].serves = Nobody \/ server'[h] = server[h]
    BY <1>8 DEF AnswerLost, Closed, Typed, Servers
  <2> QED BY <1>0, <1>8, <2>1, FromFrame DEF AnswerLost, Kept, Serves
<1>9. ASSUME NEW g \in Terminals, Resend(g) PROVE FromInv'
  <2> SUFFICES ASSUME NEW h \in Terminals \ off[q]
               PROVE  /\ from[h] <= count'[h]
                      /\ Serves(h, q) => server[h].answer \in from[h] .. count'[h]
    BY <1>9 DEF FromInv, Resend, Kept, Serves
  <2>1. /\ from[h] <= count[h]
        /\ Serves(h, q) => server[h].answer \in from[h] .. count[h]
    BY DEF FromInv
  <2>2. count'[h] \in Int /\ count[h] <= count'[h]
    BY <1>0, <1>9 DEF Resend, Typed
  <2> QED BY <1>0, <2>1, <2>2
<1>10. ASSUME NEW g \in Terminals, Stop(g) \/ Start(g) PROVE FromInv'
  <2>1. \A h \in Terminals : server'[h].serves = Nobody \/ server'[h] = server[h]
    BY <1>10 DEF Stop, Start, Down, Up, Typed
  <2> QED BY <1>0, <1>10, <2>1, FromFrame DEF Stop, Start, Kept, Serves
<1>11. ASSUME NEW g \in Terminals, SwitchOff(g) PROVE FromInv'
  <2> SUFFICES ASSUME NEW h \in Terminals \ off'[q]
               PROVE  /\ from[h] <= count'[h]
                      /\ Serves(h, q)' => server'[h].answer \in from[h] .. count'[h]
    BY <1>11 DEF FromInv, SwitchOff
  <2>1. h # g /\ h \notin off[q]  BY <1>0, <1>11 DEF SwitchOff, Typed
  <2>2. server'[h] = server[h] /\ count'[h] = count[h]  BY <1>11, <2>1 DEF SwitchOff, Typed
  <2> QED BY <2>1, <2>2 DEF FromInv, Serves
<1> QED BY <1>1, <1>2, <1>3, <1>4, <1>5, <1>6, <1>7, <1>8, <1>9, <1>10, <1>11
        DEF Next, Collect, Serve

-----------------------------------------------------------------------------
(***************************************************************************)
(* RoundInv.                                                               *)
(***************************************************************************)

\* Steps in which reqinfo does nothing, and no count of a terminal that stays on is less.
LEMMA RoundFrame ==
  ASSUME TypeInv, RoundInv,
         \/ col'["reqinfo"] = col["reqinfo"]
         \/ col'["reqinfo"].at = "dead",
         value'["reqinfo"] = value["reqinfo"], from' = from,
         off["reqinfo"] \subseteq off'["reqinfo"],
         \A h \in Terminals \ off'["reqinfo"] : count[h] <= count'[h] /\ count'[h] \in Int
  PROVE  RoundInv'
<1> DEFINE c == "reqinfo"
<1>0. c \in Collectors  BY DEF Collectors
<1>1. CASE col'[c].at = "dead"  BY <1>1 DEF RoundInv, Asked, At
<1>2. CASE col'[c] = col[c]
  <2>1. At(c, {"recv"})' => value'[c][Host(c)'] = 0  BY <1>2 DEF RoundInv, At, Host
  <2>2. ASSUME NEW k \in DOMAIN Hosts, Asked(c, k)', Hosts[k] \notin off'[c],
               value'[c][Hosts[k]] # 0
        PROVE  value'[c][Hosts[k]] \in from'[Hosts[k]] .. count'[Hosts[k]]
    <3>1. Asked(c, k) /\ Hosts[k] \notin off[c]  BY <1>2, <2>2 DEF Asked, At
    <3>2. value[c][Hosts[k]] \in from[Hosts[k]] .. count[Hosts[k]]
      BY <2>2, <3>1 DEF RoundInv
    <3>3. Hosts[k] \in Terminals  BY HostFacts
    <3>4. count[Hosts[k]] \in Int /\ from[Hosts[k]] \in Int
      BY <1>0, <3>3 DEF TypeInv, Typed, Counts
    <3> QED BY <2>2, <3>2, <3>3, <3>4
  <2> QED BY <2>1, <2>2 DEF RoundInv
<1> QED BY <1>1, <1>2

LEMMA RoundAnswer ==
  ASSUME TypeInv, FromInv, RoundInv, NEW h \in Terminals, Answer(h)
  PROVE  RoundInv'
<1> DEFINE q == "reqinfo"
<1>0. q \in Collectors  BY DEF Collectors
<1>1. PICK c \in Collectors, got \in Counts :
           /\ Serves(h, c) /\ server[h].answer = got
           /\ At(c, {"recv"}) /\ Host(c) = h
           /\ col'[c] = IF col[c].i + 1 > Len(Hosts) THEN [at |-> "end", i |-> 1]
                        ELSE [at |-> "connect", i |-> col[c].i + 1]
           /\ \A d \in Collectors \ {c} : col'[d] = col[d] /\ value'[d] = value[d]
           /\ c = "reqinfo" =>
                /\ value'[c] = IF got # 0 THEN [value[c] EXCEPT ![h] = got] ELSE value[c]
           /\ count' = count /\ from' = from /\ off' = off
  BY AnswerDoes
<1>2. \A g \in Terminals : count[g] \in Int /\ from[g] \in Int
  BY <1>0 DEF TypeInv, Typed, Counts
<1>3. CASE c # q
  BY <1>0, <1>1, <1>2, <1>3, RoundFrame
<1>4. CASE c = q
  <2>1. col'[q].at # "recv"  BY <1>1, <1>4
  <2>2. ASSUME NEW k \in DOMAIN Hosts, Asked(q, k)', Hosts[k] \notin off[q],
               value'[q][Hosts[k]] # 0
        PROVE  value'[q][Hosts[k]] \in from[Hosts[k]] .. count[Hosts[k]]
    <3>1. Hosts[k] \in Terminals /\ k \in 1..Len(Hosts)  BY HostFacts
    <3>2. col[q].i \in 1..Len(Hosts) /\ Len(Hosts) \in Nat  BY <1>0, HostOf, HostFacts DEF TypeInv
    <3>3. value[q] \in [Terminals -> Counts]  BY DEF TypeInv, Typed
    <3>4. value[q][h] = 0  BY <1>1, <1>4 DEF RoundInv
    <3>5. CASE Hosts[k] = h
      <4>1. value'[q][h] = got
        <5>1. CASE got # 0  BY <1>1, <1>4, <3>3, <5>1
        <5>2. CASE got = 0  BY <1>1, <1>4, <2>2, <3>4, <3>5, <5>2
        <5> QED BY <5>1, <5>2
      <4>2. got \in from[h] .. count[h]
        BY <1>0, <1>1, <1>4, <2>2, <3>5 DEF FromInv
      <4> QED BY <3>5, <4>1, <4>2
    <3>6. CASE Hosts[k] # h
      <4>1. value'[q][Hosts[k]] = value[q][Hosts[k]]  BY <1>1, <1>4, <3>1, <3>3, <3>6
      <4>2. k # col[q].i  BY <1>1, <1>4, <3>6 DEF Host
      <4>3. k < col[q].i
        <5>1. CASE col[q].i + 1 > Len(Hosts)  BY <3>1, <3>2, <4>2, <5>1
        <5>2. CASE ~(col[q].i + 1 > Len(Hosts))
          <6>1. col'[q] = [at |-> "connect", i |-> col[q].i + 1]  BY <1>1, <1>4, <5>2
          <6>2. k < col[q].i + 1  BY <2>2, <6>1 DEF Asked, At
          <6> QED BY <3>1, <3>2, <4>2, <6>2
        <5> QED BY <5>1, <5>2
      <4>4. Asked(q, k)  BY <1>1, <1>4, <4>3 DEF Asked, At
      <4> QED BY <2>2, <4>1, <4>4 DEF RoundInv
    <3> QED BY <3>5, <3>6
  <2> QED BY <1>1, <2>1, <2>2 DEF RoundInv, At
<1> QED BY <1>3, <1>4

LEMMA RoundStep ==
  ASSUME TypeInv, FromInv, RoundInv, [Next]_vars
  PROVE  RoundInv'
<1> DEFINE q == "reqinfo"
<1> USE DEF TypeInv
<1>0. /\ q \in Collectors
      /\ \A h \in Terminals : count[h] \in Int /\ count[h] <= count[h]
  BY DEF Collectors, Typed, Counts
<1>1. CASE UNCHANGED vars
  BY <1>0, <1>1, RoundFrame DEF vars
<1>2. ASSUME NEW c \in Collectors, BeginRound(c) PROVE RoundInv'
  <2>1. CASE c # q
    <3>1. off'[q] = off[q] /\ col'[q] = col[q]  BY <1>0, <1>2, <2>1 DEF BeginRound, Typed
    <3> QED BY <1>0, <1>2, <2>1, <3>1, RoundFrame DEF BeginRound
  <2>2. CASE c = q
    <3>1. col'[q] = [at |-> "connect", i |-> 1]  BY <1>2, <2>2 DEF BeginRound, Typed
    <3>2. \A k \in DOMAIN Hosts : ~(k < 1)  BY HostFacts
    <3> QED BY <3>1, <3>2 DEF RoundInv, Asked, At
  <2> QED BY <2>1, <2>2
<1>3. ASSUME NEW c \in Collectors, Connect(c) PROVE RoundInv'
  <2>1. CASE c # q
    BY <1>0, <1>3, <2>1, ConnectDoes, RoundFrame DEF Connect
  <2>2. CASE c = q
    <3>1. PICK a : a = Host(q)  OBVIOUS
    <3>2. /\ a \in Terminals
          /\ col'[q] = [col[q] EXCEPT !.at = "recv"]
          /\ value'[q] = [value[q] EXCEPT ![a] = 0]
      BY <1>3, <2>2, <3>1, ConnectDoes
    <3>3. col'[q].at = "recv" /\ col'[q].i = col[q].i  BY <1>0, <3>2 DEF Typed, Places
    <3>4. value[q] \in [Terminals -> Counts]  BY DEF Typed
    <3>5. value'[q][a] = 0  BY <3>2, <3>4
    <3>6. Host(q)' = a  BY <3>1, <3>3 DEF Host
    <3>7. ASSUME NEW k \in DOMAIN Hosts, Asked(q, k)', Hosts[k] \notin off[q],
                 value'[q][Hosts[k]] # 0
          PROVE  value'[q][Hosts[k]] \in from[Hosts[k]] .. count[Hosts[k]]
      <4>1. Asked(q, k)  BY <1>3, <2>2, <3>3, <3>7 DEF Asked, At, Connect
      <4>2. Hosts[k] # a /\ Hosts[k] \in Terminals  BY <3>5, <3>7, HostFacts
      <4>3. value'[q][Hosts[k]] = value[q][Hosts[k]]  BY <3>2, <3>4, <4>2
      <4> QED BY <3>7, <4>1, <4>3 DEF RoundInv
    <3> QED BY <1>3, <3>5, <3>6, <3>7 DEF RoundInv, Connect
  <2> QED BY <2>1, <2>2
<1>4. ASSUME NEW c \in Collectors, ConnectFails(c) PROVE RoundInv'
  <2>1. col'[q] = col[q] \/ col'[q].at = "dead"
    BY <1>0, <1>4 DEF ConnectFails, Goto, Typed, Places
  <2> QED BY <1>0, <1>4, <2>1, RoundFrame DEF ConnectFails, Kept
<1>5. ASSUME NEW c \in Collectors, EndRound(c) PROVE RoundInv'
  <2>1. CASE c # q  BY <1>0, <1>5, <2>1, RoundFrame DEF EndRound, Goto, Typed
  <2>2. CASE c = q
    <3>1. col'[q].at = "sleep"  BY <1>5, <2>2 DEF EndRound, Goto, Typed, Places
    <3> QED BY <3>1 DEF RoundInv, Asked, At
  <2> QED BY <2>1, <2>2
<1>6. ASSUME NEW g \in Terminals, Accept(g) PROVE RoundInv'
  BY <1>0, <1>6, RoundFrame DEF Accept, Kept
<1>7. ASSUME NEW g \in Terminals, Answer(g) PROVE RoundInv'
  BY <1>7, RoundAnswer
<1>8. ASSUME NEW g \in Terminals, AnswerLost(g) PROVE RoundInv'
  <2>1. col'[q] = col[q] \/ col'[q].at = "dead"
    BY <1>0, <1>8 DEF AnswerLost, Goto, Typed, Places
  <2> QED BY <1>0, <1>8, <2>1, RoundFrame DEF AnswerLost, Kept
<1>9. ASSUME NEW g \in Terminals, Resend(g) PROVE RoundInv'
  <2>1. \A h \in Terminals : count[h] <= count'[h] /\ count'[h] \in Int
    BY <1>0, <1>9 DEF Resend, Typed
  <2> QED BY <1>9, <2>1, RoundFrame DEF Resend, Kept
<1>10. ASSUME NEW g \in Terminals, Stop(g) PROVE RoundInv'
  <2>1. col'[q] = col[q] \/ col'[q].at = "dead"
    <3>1. col'[q] = IF q \in Waiting(g) THEN [col[q] EXCEPT !.at = "dead"] ELSE col[q]
      BY <1>0, <1>10 DEF Stop
    <3> QED BY <1>0, <3>1 DEF Typed, Places
  <2> QED BY <1>0, <1>10, <2>1, RoundFrame DEF Stop, Kept
<1>11. ASSUME NEW g \in Terminals, Start(g) PROVE RoundInv'
  BY <1>0, <1>11, RoundFrame DEF Start, Kept
<1>12. ASSUME NEW g \in Terminals, SwitchOff(g) PROVE RoundInv'
  <2>1. off'[q] = off[q] \cup {g}  BY <1>0, <1>12 DEF SwitchOff
  <2>2. \A h \in Terminals \ off'[q] : count'[h] = count[h]  BY <1>12, <2>1 DEF SwitchOff, Typed
  <2> QED BY <1>0, <1>12, <2>1, <2>2, RoundFrame DEF SwitchOff
<1> QED BY <1>1, <1>2, <1>3, <1>4, <1>5, <1>6, <1>7, <1>8, <1>9, <1>10, <1>11, <1>12
        DEF Next, Collect, Serve

-----------------------------------------------------------------------------
(***************************************************************************)
(* The theorems.                                                           *)
(***************************************************************************)

LEMMA InvInit ==
  ASSUME Init
  PROVE  Inv
<1>1. TypeInv  BY TypeInit
<1>2. \A h \in Terminals : server[h].serves = Nobody  BY DEF Init, Up
<1>3. Nobody # "reqinfo"  BY DEF Nobody
<1>4. FirstCount \in Nat /\ \A h \in Terminals : count[h] = FirstCount
  BY BoundsAssumption DEF Init
<1>5. FromInv
  <2>1. \A h \in Terminals : from[h] = 0  BY DEF Init, Zero
  <2> QED BY <1>2, <1>3, <1>4, <2>1 DEF FromInv, Serves
<1>6. RoundInv  BY DEF Init, Collectors, RoundInv, Asked, At
<1> QED BY <1>1, <1>5, <1>6 DEF Inv

LEMMA InvStep ==
  ASSUME Inv, [Next]_vars
  PROVE  Inv'
BY TypeStep, FromStep, RoundStep DEF Inv

\* The invariant holds (reqinfo.py, printcoll.py, sndinfo.py).
THEOREM Invariant == Spec => []Inv
BY InvInit, InvStep, PTL DEF Spec

\* Values have their types, and a server answers only collectors that wait for it, so no
\* answer goes to the wrong question (sndinfo.py).
THEOREM TypeCorrect == Spec => []TypeOK
<1>1. Inv => TypeOK  BY TypeInvImplies DEF Inv
<1> QED BY <1>1, Invariant, PTL

\* Every count in a line of reqinfo is of the round of that line, and not zero (reqinfo.py).
THEOREM RecordsAreOfOneRound == Spec => RecordOfOneRound
<1>1. ASSUME Inv, [Next]_vars, record' \notin {record, Zero}, NEW h \in Terminals
      PROVE  /\ record'[h] > 0
             /\ (h \notin off["reqinfo"] => record'[h] \in from[h] .. count[h])
  <2> DEFINE q == "reqinfo"
  <2>1. At(q, {"end"}) /\ AllCollided(q) /\ record' = value[q]
    <3>1. PICK c \in Collectors : EndRound(c)
      BY <1>1 DEF Next, Collect, Serve, BeginRound, Connect, ConnectFails, Accept, Answer,
                  AnswerLost, Resend, Stop, SwitchOff, Start, Kept, vars
    <3> QED BY <1>1, <3>1 DEF EndRound
  <2>2. value[q][h] \in Counts  BY <1>1 DEF Inv, TypeInv, Typed
  <2>3. value[q][h] # 0  BY <2>1 DEF AllCollided
  <2>4. PICK k \in DOMAIN Hosts : h = Hosts[k]  BY HostFacts
  <2>5. Asked(q, k)  BY <2>1 DEF Asked
  <2>6. h \notin off[q] => value[q][h] \in from[h] .. count[h]
    BY <1>1, <2>3, <2>4, <2>5 DEF Inv, RoundInv
  <2> QED BY <2>1, <2>2, <2>3, <2>6 DEF Counts
<1>2. Inv /\ [Next]_vars =>
        [record' \notin {record, Zero} =>
           \A h \in Terminals :
             record'[h] > 0
             /\ (h \notin off["reqinfo"] => record'[h] \in from[h] .. count[h])]_vars
  BY <1>1
<1> QED BY <1>2, Invariant, PTL DEF Spec, RecordOfOneRound

=============================================================================
