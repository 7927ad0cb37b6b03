--------------------------- MODULE HubTbi_proofs ---------------------------
(***************************************************************************)
(* Theorems about HubTbi, for every finite set of CPUs, every number of    *)
(* terminals, every set of durations and every width of unsigned long: its *)
(* type invariant, that no race invents airtime, what rmmod leaves behind, *)
(* that the counters are exact and do not go back while no two updates     *)
(* overlap, and that HubTbi implements TbiLedger then.                     *)
(***************************************************************************)
EXTENDS HubTbiLedger, Functions, FiniteSetTheorems, TLAPS

\* An addition of unsigned longs yields an unsigned long.
LEMMA ModWord ==
  ASSUME NEW x \in Int
  PROVE  /\ x % WORD \in Nat
         /\ x \in Nat => x % WORD <= x
  BY WordAssumption

LEMMA OffType == Off \in Handlers
  BY NumTerminalsAssumption DEF Off, Handlers, Points, Kinds, Terminals, Other

LEMMA RepeatType ==
  ASSUME NEW h \in Handlers, NEW again \in Points, NEW done \in Points
  PROVE  Repeat(h, again, done) \in Handlers
<1>1. /\ 0 \in Terminals
      /\ h.k + 1 < NumTerminals => h.k + 1 \in Terminals
  BY NumTerminalsAssumption DEF Handlers, Terminals
<1>2. QED
  BY <1>1 DEF Repeat, Handlers

\* What a step does to one handler keeps the type of them all.
LEMMA EnterType ==
  ASSUME handler \in [CPUs -> Handlers], overlap \in BOOLEAN,
         late \subseteq {"timer", "publisher"},
         NEW c \in CPUs, NEW h \in Handlers, Enter(c, h)
  PROVE  /\ handler' \in [CPUs -> Handlers]
         /\ overlap' \in BOOLEAN
         /\ late' \subseteq {"timer", "publisher"}
  BY DEF Enter

\* Type correctness holds initially.
LEMMA TypeInit == Init => TypeOK
<1> SUFFICES ASSUME Init PROVE TypeOK
  OBVIOUS
<1>1. [k \in Terminals |-> [f \in Fields |-> 0]] \in [Terminals -> [Fields -> Nat]]
  OBVIOUS
<1>2. handler \in [CPUs -> Handlers]
  BY OffType DEF Init
<1>3. timer \in [pending : BOOLEAN, expires : Nat]
  BY IntervalAssumption DEF Init, Arm
<1>4. QED
  BY <1>1, <1>2, <1>3 DEF Init, TypeOK, Modules

\* Every action preserves it.
LEMMA TypeStep == TypeOK /\ [Next]_vars => TypeOK'
<1> SUFFICES ASSUME TypeOK, [Next]_vars PROVE TypeOK'
  OBVIOUS
<1> USE DEF TypeOK
<1>1. CASE Tick
  BY <1>1 DEF Tick, counted
<1>2. ASSUME NEW c \in CPUs, NEW src \in Terminals \cup {Other},
             NEW d \in Durations, Hook(c, src, d)
      PROVE  TypeOK'
  <2> DEFINE h == [Off EXCEPT !.pc   = IF src \in Terminals THEN "load_jiffies" ELSE "publish",
                              !.src  = src,
                              !.time = IF src \in Terminals THEN d ELSE 0]
  <2>1. h \in Handlers
    BY OffType, DurationsAssumption DEF Handlers, Points, UpdatePoints
  <2>2. Enter(c, h)
    BY <1>2 DEF Hook
  <2>3. owed' \in [Terminals -> [Fields -> Nat]]
    BY <1>2, DurationsAssumption DEF Hook, Fields
  <2> HIDE DEF h
  <2>4. QED
    BY <1>2, <2>1, <2>2, <2>3, EnterType DEF Hook, kernel, counted
<1>3. ASSUME NEW c \in CPUs, TimerFires(c) PROVE TypeOK'
  <2> DEFINE h == [Off EXCEPT !.pc = "load_jiffies", !.kind = "timer"]
  <2>1. h \in Handlers
    BY OffType DEF Handlers, Points, UpdatePoints, Kinds
  <2>2. Enter(c, h)
    BY <1>3 DEF TimerFires
  <2> HIDE DEF h
  <2>3. QED
    BY <1>3, <2>1, <2>2, EnterType DEF TimerFires, counted
<1>4. ASSUME NEW c \in CPUs, Continue(c) PROVE TypeOK'
  <2> USE DEF kernel, counted, history
  <2>1. handler[c] \in Handlers
    OBVIOUS
  <2>2. CASE LoadJiffies(c)
    BY <2>1, <2>2 DEF LoadJiffies, Handlers, Points, UpdatePoints
  <2>3. CASE SubLast(c)
    <3>1. IdleTime(handler[c].idle, last_jiffies) \in Nat
      BY <2>1, WordAssumption DEF Handlers, IdleTime
    <3>2. QED
      BY <2>1, <2>3, <3>1 DEF SubLast, Handlers, Points, UpdatePoints
  <2>4. CASE LoadIdle(c)
    <3>1. tbi[handler[c].k]["i"] \in Nat
      BY <2>1 DEF Handlers, Fields
    <3>2. QED
      BY <2>1, <2>4, <3>1 DEF LoadIdle, Handlers, Points, UpdatePoints
  <2>5. CASE StoreIdle(c)
    <3> DEFINE after == Repeat(handler[c], "load_i", "stamp_idle")
               new   == IF after.pc = "stamp_idle"
                        THEN [after EXCEPT !.stamp = jiffies] ELSE after
               sum   == Add(handler[c].reg, handler[c].idle)
    <3>1. after \in Handlers
      BY <2>1, RepeatType DEF Points, UpdatePoints
    <3>2. sum \in Nat
      BY <2>1, ModWord DEF Handlers, Add
    <3> HIDE DEF after
    <3>3. new \in Handlers
      BY <3>1 DEF Handlers
    <3>4. /\ tbi' = [tbi EXCEPT ![handler[c].k]["i"] = sum]
          /\ handler' = [handler EXCEPT ![c] = new]
          /\ UNCHANGED <<kernel, last_jiffies, history>>
      BY <2>5 DEF StoreIdle, after
    <3> HIDE DEF sum, new
    <3>5. QED
      BY <2>1, <3>2, <3>3, <3>4 DEF Handlers, Fields
  <2>6. CASE StampIdle(c)
    <3>1. last_jiffies' \in Nat
      BY <2>1, <2>6 DEF StampIdle, Stamp, Handlers
    <3>2. QED
      BY <2>1, <2>6, <3>1 DEF StampIdle, Handlers, Points, UpdatePoints
  <2>7. CASE LoadAir(c)
    <3>1. tbi[handler[c].k][Field(handler[c].src, handler[c].k)] \in Nat
      BY <2>1 DEF Handlers, Fields, Field
    <3>2. QED
      BY <2>1, <2>7, <3>1 DEF LoadAir, Handlers, Points, UpdatePoints
  <2>8. CASE StoreAir(c)
    <3> DEFINE f   == Field(handler[c].src, handler[c].k)
               new == Repeat(handler[c], "load_air", "stamp_air")
               sum == Add(handler[c].reg, handler[c].time)
    <3>1. new \in Handlers
      BY <2>1, RepeatType DEF Points, UpdatePoints
    <3>2. sum \in Nat /\ f \in Fields
      BY <2>1, ModWord DEF Handlers, Field, Fields, Add
    <3>3. /\ tbi' = [tbi EXCEPT ![handler[c].k][f] = sum]
          /\ handler' = [handler EXCEPT ![c] = new]
          /\ UNCHANGED <<kernel, last_jiffies, history>>
      BY <2>8 DEF StoreAir
    <3> HIDE DEF f, sum, new
    <3>4. QED
      BY <2>1, <3>1, <3>2, <3>3 DEF Handlers
  <2>9. CASE StampAir(c)
    <3>1. last_jiffies' \in Nat
      BY <2>1, <2>9 DEF StampAir, Stamp, Handlers
    <3>2. QED
      BY <2>1, <2>9, <3>1 DEF StampAir, Handlers, Points, UpdatePoints
  <2>10. CASE Publish(c)
    <3>1. [handler[c] EXCEPT !.pc = "rearm"] \in Handlers
      BY <2>1 DEF Handlers, Points
    <3>2. QED
      BY <2>10, <3>1, OffType DEF Publish
  <2>11. CASE Rearm(c)
    BY <2>11, OffType, IntervalAssumption DEF Rearm, Arm
  <2>12. QED
    BY <1>4, <2>2, <2>3, <2>4, <2>5, <2>6, <2>7, <2>8, <2>9, <2>10, <2>11 DEF Continue
<1>5. CASE Exit
  BY <1>5 DEF Exit, DelTimer, RemoveProc, UnregisterHook, FreeModule,
              Modules, counted, history
<1>6. CASE UNCHANGED vars
  BY <1>6 DEF vars, kernel, counted, history
<1>7. QED
  BY <1>1, <1>2, <1>3, <1>4, <1>5, <1>6 DEF Next

\* Every variable keeps its type in every reachable state: no race of the
\* handlers takes a terminal index outside tbi or a counter out of the words.
THEOREM TypeCorrect == Spec => []TypeOK
  BY TypeInit, TypeStep, PTL DEF Spec

-----------------------------------------------------------------------------
(***************************************************************************)
(* AirNeverOvercounted is not inductive: two handlers may be about to add  *)
(* to the same counter, so the airtime they are still to add has to stay   *)
(* covered by owed as well.  A sum over the CPUs is stated without         *)
(* recursion, by the existence of its partial sums along an enumeration of *)
(* the CPUs, and a step moves it by what it moves one summand.             *)
(***************************************************************************)

N == Cardinality(CPUs)
Order == CHOOSE order \in Bijection(1 .. N, CPUs) : TRUE

\* s holds the partial sums of g[1], ..., g[N], which are not negative.
AreSums(s, g) ==
  /\ s \in [0 .. N -> Nat]
  /\ s[0] = 0
  /\ \A i \in 1 .. N : s[i] = s[i - 1] + g[i]
  /\ \A i, j \in 0 .. N : i <= j => s[i] <= s[j]

\* The airtime handler c is still to begin to add to tbi[k][f].
Pending(h, k) ==
  \/ h.pc \in {"load_jiffies", "sub_last", "load_i", "store_i", "stamp_idle"}
  \/ h.pc = "load_air"  /\ k >= h.k
  \/ h.pc = "store_air" /\ k > h.k

Due(h, k, f) == IF f = Field(h.src, k) /\ Pending(h, k) THEN h.time ELSE 0

AllDue(k, f) == [i \in 1 .. N |-> Due(handler[Order[i]], k, f)]

\* Handler c has loaded tbi[k][f] and not yet stored it.
Adding(h, k, f) == h.pc = "store_air" /\ h.k = k /\ Field(h.src, k) = f

\* owed covers tbi[k][f], what a handler will make of it, and what is due.
Covered(k, f) ==
  \E s \in [0 .. N -> Nat] :
    /\ AreSums(s, AllDue(k, f))
    /\ tbi[k][f] + s[N] <= owed[k][f]
    /\ \A c \in CPUs : Adding(handler[c], k, f) =>
         handler[c].reg + handler[c].time + s[N] <= owed[k][f]

AirInv == \A k \in Terminals, f \in {"t", "b"} : Covered(k, f)

LEMMA OrderType ==
  /\ N \in Nat
  /\ Order \in [1 .. N -> CPUs]
  /\ \A c \in CPUs : \E i \in 1 .. N : Order[i] = c
  /\ \A i, j \in 1 .. N : Order[i] = Order[j] => i = j
<1>1. N \in Nat /\ Bijection(1 .. N, CPUs) # {}
  BY CPUsAssumption, FS_CardinalityType DEF N, ExistsBijection
<1>2. Order \in Bijection(1 .. N, CPUs)
  BY <1>1 DEF Order
<1>3. QED
  BY <1>1, <1>2 DEF Bijection, Injection, Surjection, IsInjective

\* When one summand changes, so does the sum, by as much.
LEMMA SumChange ==
  ASSUME NEW g \in [1 .. N -> Nat], NEW g2 \in [1 .. N -> Nat],
         NEW c \in 1 .. N, \A i \in 1 .. N : i # c => g2[i] = g[i],
         NEW s \in [0 .. N -> Nat], AreSums(s, g)
  PROVE  \E s2 \in [0 .. N -> Nat] : /\ AreSums(s2, g2)
                                     /\ s2[N] = s[N] - g[c] + g2[c]
<1>1. N \in Nat
  BY OrderType
<1> DEFINE s2 == [i \in 0 .. N |-> IF i < c THEN s[i] ELSE s[i] - g[c] + g2[c]]
<1>2. /\ g[c] \in Nat /\ g2[c] \in Nat
      /\ \A i \in 0 .. N : s[i] \in Nat
      /\ c - 1 \in 0 .. N
      /\ s[c] = s[c - 1] + g[c]
  BY <1>1 DEF AreSums
<1>3. \A i \in 0 .. N : i >= c => s[i] >= g[c] + s[c - 1]
  BY <1>1, <1>2 DEF AreSums
<1>4. \A i \in 0 .. N : i < c => s[i] <= s[c - 1]
  BY <1>1, <1>2 DEF AreSums
<1>5. s2 \in [0 .. N -> Nat]
  <2>1. ASSUME NEW i \in 0 .. N, i >= c PROVE s[i] - g[c] + g2[c] \in Nat
    <3>1. s[i] >= g[c] + s[c - 1] /\ s[c - 1] \in Nat /\ s[i] \in Nat
      BY <1>2, <1>3, <2>1
    <3>2. QED
      BY <1>2, <3>1
  <2>2. ASSUME NEW i \in 0 .. N
        PROVE  (IF i < c THEN s[i] ELSE s[i] - g[c] + g2[c]) \in Nat
    <3>1. CASE i < c
      BY <3>1
    <3>2. CASE i >= c
      BY <1>1, <2>1, <3>2
    <3>3. QED
      BY <1>1, <3>1, <3>2
  <2>3. QED
    BY <2>2
<1>6. s2[0] = 0
  BY <1>1 DEF AreSums
<1>7. ASSUME NEW i \in 1 .. N PROVE s2[i] = s2[i - 1] + g2[i]
  <2>1. i - 1 \in 0 .. N /\ i \in 0 .. N /\ s[i] = s[i - 1] + g[i]
    BY <1>1 DEF AreSums
  <2>2. g[i] \in Nat /\ g2[i] \in Nat
    OBVIOUS
  <2>3. CASE i < c
    <3>1. s2[i] = s[i] /\ s2[i - 1] = s[i - 1] /\ g2[i] = g[i]
      BY <1>1, <2>1, <2>3
    <3>2. QED
      BY <2>1, <3>1
  <2>4. CASE i = c
    <3>1. s2[i] = s[i] - g[c] + g2[c] /\ s2[i - 1] = s[i - 1]
      BY <1>1, <2>1, <2>4
    <3>2. QED
      BY <1>2, <2>1, <2>4, <3>1
  <2>5. CASE i > c
    <3>1. /\ s2[i] = s[i] - g[c] + g2[c]
          /\ s2[i - 1] = s[i - 1] - g[c] + g2[c]
          /\ g2[i] = g[i]
      BY <1>1, <2>1, <2>5
    <3>2. s[i] \in Nat /\ s[i - 1] \in Nat
      BY <1>2, <2>1
    <3>3. g[c] \in Nat /\ g2[c] \in Nat /\ g[i] \in Nat
      BY <1>2
    <3>4. QED
      BY <2>1, <3>1, <3>2, <3>3
  <2>6. QED
    BY <1>1, <2>3, <2>4, <2>5
<1>8. ASSUME NEW i \in 0 .. N, NEW j \in 0 .. N, i <= j PROVE s2[i] <= s2[j]
  <2>1. s[i] <= s[j]
    BY <1>8 DEF AreSums
  <2>2. CASE j < c
    BY <1>1, <1>2, <1>8, <2>1, <2>2
  <2>3. CASE i < c /\ j >= c
    <3>1. s[i] <= s[c - 1] /\ s[j] >= g[c] + s[c - 1]
      BY <1>3, <1>4, <2>3
    <3>2. s[i] \in Nat /\ s[j] \in Nat /\ s[c - 1] \in Nat
      BY <1>2
    <3>3. s2[i] = s[i] /\ s2[j] = s[j] - g[c] + g2[c]
      BY <1>1, <2>3
    <3>4. QED
      BY <1>2, <3>1, <3>2, <3>3
  <2>4. CASE i >= c
    BY <1>1, <1>2, <1>8, <2>1, <2>4
  <2>5. QED
    BY <1>1, <2>2, <2>3, <2>4
<1>9. s2[N] = s[N] - g[c] + g2[c]
  BY <1>1
<1>10. QED
  BY <1>5, <1>6, <1>7, <1>8, <1>9 DEF AreSums

AirFields == {"t", "b"}

\* A step of CPU c adds no more to what is due than to what is owed for a cell,
\* stores no more than was covered, and when c loads the cell, moves what was
\* due into its register.
Covering(c, k, f) ==
  /\ \A o \in CPUs : o # c => handler'[o] = handler[o]
  /\ Due(handler'[c], k, f) - Due(handler[c], k, f) <= owed'[k][f] - owed[k][f]
  /\ \/ tbi'[k][f] = tbi[k][f]
     \/ /\ Adding(handler[c], k, f)
        /\ tbi'[k][f] <= handler[c].reg + handler[c].time
  /\ owed'[k][f] >= owed[k][f]
  /\ Adding(handler'[c], k, f) => /\ handler'[c].reg = tbi[k][f]
                                  /\ handler'[c].time <= Due(handler[c], k, f)
                                  /\ Due(handler'[c], k, f) = 0

\* The arithmetic of such a step: x is covered with the sum s, x2 with s2.
LEMMA CoverArithmetic ==
  ASSUME NEW x \in Nat, NEW x2 \in Nat, NEW o \in Nat, NEW o2 \in Nat,
         NEW s \in Nat, NEW s2 \in Nat, NEW g \in Nat, NEW g2 \in Nat,
         x + s <= o, s2 = s - g + g2, g2 - g <= o2 - o, o2 >= o,
         x2 <= x \/ (x2 <= x + g /\ g2 = 0)
  PROVE  x2 + s2 <= o2
  OBVIOUS

LEMMA CoverStep ==
  ASSUME TypeOK, TypeOK', NEW c \in CPUs, NEW k \in Terminals, NEW f \in AirFields,
         Covered(k, f), Covering(c, k, f)
  PROVE  Covered(k, f)'
<1> USE DEF AirFields
<1>1. N \in Nat /\ Order \in [1 .. N -> CPUs]
  BY OrderType
<1>2. PICK n \in 1 .. N : Order[n] = c /\ \A i \in 1 .. N : i # n => Order[i] # c
  BY OrderType
<1>3. ASSUME NEW h \in Handlers PROVE Due(h, k, f) \in Nat
  BY <1>3 DEF Due, Handlers
<1>4. \A o \in CPUs : handler[o] \in Handlers /\ handler'[o] \in Handlers
  BY DEF TypeOK
<1> DEFINE g  == AllDue(k, f)
           g2 == [i \in 1 .. N |-> Due(handler'[Order[i]], k, f)]
<1>5. g2 = AllDue(k, f)'
  BY DEF AllDue
<1>6. g \in [1 .. N -> Nat] /\ g2 \in [1 .. N -> Nat]
  BY <1>1, <1>3, <1>4 DEF AllDue
<1>7. /\ \A i \in 1 .. N : i # n => g2[i] = g[i]
      /\ g[n] = Due(handler[c], k, f) /\ g2[n] = Due(handler'[c], k, f)
  BY <1>1, <1>2 DEF AllDue, Covering
<1>8. PICK s \in [0 .. N -> Nat] :
        /\ AreSums(s, g)
        /\ tbi[k][f] + s[N] <= owed[k][f]
        /\ \A o \in CPUs : Adding(handler[o], k, f) =>
             handler[o].reg + handler[o].time + s[N] <= owed[k][f]
  BY DEF Covered
<1> HIDE DEF g, g2
<1>9. PICK s2 \in [0 .. N -> Nat] : AreSums(s2, g2) /\ s2[N] = s[N] - g[n] + g2[n]
  BY <1>6, <1>7, <1>8, SumChange
<1>10. /\ s[N] \in Nat /\ s2[N] \in Nat /\ g[n] \in Nat /\ g2[n] \in Nat
       /\ g2[n] - g[n] <= owed'[k][f] - owed[k][f]
       /\ owed'[k][f] >= owed[k][f]
  BY <1>1, <1>6, <1>7, <1>8, <1>9 DEF Covering
<1>11. /\ tbi[k][f] \in Nat /\ tbi'[k][f] \in Nat
       /\ owed[k][f] \in Nat /\ owed'[k][f] \in Nat
  <2>1. f \in Fields
    BY DEF Fields
  <2>2. /\ tbi \in [Terminals -> [Fields -> Nat]] /\ tbi' \in [Terminals -> [Fields -> Nat]]
        /\ owed \in [Terminals -> [Fields -> Nat]] /\ owed' \in [Terminals -> [Fields -> Nat]]
    BY DEF TypeOK
  <2> QED
    BY <2>1, <2>2
<1>12. \A o \in CPUs : /\ handler[o].reg + handler[o].time \in Nat
                       /\ handler'[o].reg + handler'[o].time \in Nat
                       /\ handler'[o].time \in Nat
  BY <1>4 DEF Handlers
<1>13. ASSUME NEW x \in Nat, NEW x2 \in Nat, x + s[N] <= owed[k][f],
              x2 <= x \/ (x2 <= x + g[n] /\ g2[n] = 0)
       PROVE  x2 + s2[N] <= owed'[k][f]
  BY <1>9, <1>10, <1>11, <1>13, CoverArithmetic
<1>14. tbi'[k][f] + s2[N] <= owed'[k][f]
  <2>1. CASE tbi'[k][f] = tbi[k][f]
    <3>1. tbi[k][f] + s[N] <= owed[k][f] /\ tbi'[k][f] <= tbi[k][f]
      BY <1>8, <1>11, <2>1
    <3>2. QED
      BY <1>11, <1>13, <3>1
  <2>2. CASE /\ Adding(handler[c], k, f)
             /\ tbi'[k][f] <= handler[c].reg + handler[c].time
    <3>1. handler[c].reg + handler[c].time + s[N] <= owed[k][f]
      BY <1>8, <2>2
    <3>2. QED
      BY <1>11, <1>12, <1>13, <2>2, <3>1
  <2>3. QED
    BY <2>1, <2>2 DEF Covering
<1>15. ASSUME NEW o \in CPUs, Adding(handler'[o], k, f)
       PROVE  handler'[o].reg + handler'[o].time + s2[N] <= owed'[k][f]
  <2> DEFINE x  == handler[o].reg + handler[o].time
             x2 == handler'[o].reg + handler'[o].time
  <2>1. x \in Nat /\ x2 \in Nat
    BY <1>12
  <2>2. CASE o # c
    <3>1. handler'[o] = handler[o]
      BY <2>2 DEF Covering
    <3>2. x + s[N] <= owed[k][f] /\ x2 <= x
      BY <1>8, <1>15, <2>1, <3>1
    <3> HIDE DEF x
    <3>3. QED
      BY <1>13, <2>1, <3>2
  <2>3. CASE o = c
    <3>1. handler'[c].reg = tbi[k][f] /\ handler'[c].time <= g[n] /\ g2[n] = 0
      BY <1>7, <1>15, <2>3 DEF Covering
    <3>2. x2 <= tbi[k][f] + g[n]
      BY <1>10, <1>11, <1>12, <2>3, <3>1
    <3>3. tbi[k][f] + s[N] <= owed[k][f]
      BY <1>8
    <3>4. QED
      BY <1>11, <1>13, <2>1, <3>1, <3>2, <3>3
  <2>4. QED
    BY <2>2, <2>3
<1>16. QED
  BY <1>5, <1>9, <1>14, <1>15 DEF Covered

LEMMA AirInit == Init => AirInv
<1> SUFFICES ASSUME Init, NEW k \in Terminals, NEW f \in AirFields PROVE Covered(k, f)
  BY DEF AirInv, AirFields
<1>1. N \in Nat /\ Order \in [1 .. N -> CPUs]
  BY OrderType
<1> DEFINE s == [i \in 0 .. N |-> 0]
<1>2. ASSUME NEW c \in CPUs
      PROVE  Due(handler[c], k, f) = 0 /\ ~Adding(handler[c], k, f)
  BY DEF Init, Off, Due, Pending, Adding
<1>3. AreSums(s, AllDue(k, f))
  BY <1>1, <1>2 DEF AreSums, AllDue
<1>4. tbi[k][f] = 0 /\ owed[k][f] = 0
  BY DEF Init, Fields, AirFields
<1>5. QED
  BY <1>1, <1>2, <1>3, <1>4 DEF Covered

\* A step that leaves handlers, counters and what is owed keeps all covered.
LEMMA AirUnchanged ==
  ASSUME AirInv, UNCHANGED <<handler, tbi, owed>> PROVE AirInv'
  BY DEF AirInv, Covered, AllDue

\* Every step of a handler covers every cell.
LEMMA ContinueCovers ==
  ASSUME TypeOK, TypeOK', NEW c \in CPUs, Continue(c),
         NEW k \in Terminals, NEW f \in AirFields
  PROVE  Covering(c, k, f)
<1> DEFINE h == handler[c]
<1>1. h \in Handlers /\ handler'[c] \in Handlers
  BY DEF TypeOK
<1>2. ASSUME NEW g \in Handlers PROVE Due(g, k, f) \in Nat /\ Due(g, k, f) <= g.time
  BY <1>2 DEF Due, Handlers
<1>3. tbi[k][f] \in Nat /\ owed[k][f] \in Nat
  BY DEF TypeOK, Fields, AirFields
<1>4. ASSUME UNCHANGED owed, \A o \in CPUs : o # c => handler'[o] = handler[o],
             Due(handler'[c], k, f) <= Due(h, k, f),
             ~Adding(handler'[c], k, f), tbi'[k][f] = tbi[k][f]
      PROVE  Covering(c, k, f)
  BY <1>1, <1>2, <1>3, <1>4 DEF Covering
<1> USE DEF history, kernel, counted, TypeOK
<1>5. CASE LoadJiffies(c)
  <2>1. /\ h.pc = "load_jiffies" /\ handler'[c].pc = "sub_last"
        /\ handler'[c].src = h.src /\ handler'[c].time = h.time
        /\ \A o \in CPUs : o # c => handler'[o] = handler[o]
        /\ UNCHANGED <<tbi, owed>>
    BY <1>1, <1>5 DEF LoadJiffies, At, Handlers
  <2>2. Due(handler'[c], k, f) = Due(h, k, f) /\ ~Adding(handler'[c], k, f)
    BY <2>1 DEF Due, Pending, Adding
  <2>3. QED
    BY <1>1, <1>2, <1>4, <2>1, <2>2
<1>6. CASE SubLast(c)
  <2>1. /\ h.pc = "sub_last" /\ handler'[c].pc = "load_i"
        /\ handler'[c].src = h.src /\ handler'[c].time = h.time
        /\ \A o \in CPUs : o # c => handler'[o] = handler[o]
        /\ UNCHANGED <<tbi, owed>>
    BY <1>1, <1>6 DEF SubLast, At, Handlers
  <2>2. Due(handler'[c], k, f) = Due(h, k, f) /\ ~Adding(handler'[c], k, f)
    BY <2>1 DEF Due, Pending, Adding
  <2>3. QED
    BY <1>1, <1>2, <1>4, <2>1, <2>2
<1>7. CASE LoadIdle(c)
  <2>1. /\ h.pc = "load_i" /\ handler'[c].pc = "store_i"
        /\ handler'[c].src = h.src /\ handler'[c].time = h.time
        /\ \A o \in CPUs : o # c => handler'[o] = handler[o]
        /\ UNCHANGED <<tbi, owed>>
    BY <1>1, <1>7 DEF LoadIdle, At, Handlers
  <2>2. Due(handler'[c], k, f) = Due(h, k, f) /\ ~Adding(handler'[c], k, f)
    BY <2>1 DEF Due, Pending, Adding
  <2>3. QED
    BY <1>1, <1>2, <1>4, <2>1, <2>2
<1>8. CASE StoreIdle(c)
  <2>1. /\ h.pc = "store_i" /\ handler'[c].pc \in {"load_i", "stamp_idle"}
        /\ handler'[c].src = h.src /\ handler'[c].time = h.time
        /\ \A o \in CPUs : o # c => handler'[o] = handler[o]
        /\ owed' = owed
    BY <1>1, <1>8 DEF StoreIdle, At, Repeat, Handlers
  <2>2. tbi'[k][f] = tbi[k][f]
    BY <1>1, <1>8 DEF StoreIdle, Handlers, AirFields
  <2>3. Due(handler'[c], k, f) = Due(h, k, f) /\ ~Adding(handler'[c], k, f)
    BY <2>1 DEF Due, Pending, Adding
  <2>4. QED
    BY <1>1, <1>2, <1>4, <2>1, <2>2, <2>3
<1>9. CASE StampIdle(c)
  <2>1. /\ h.pc = "stamp_idle" /\ handler'[c].pc \in {"publish", "load_air"}
        /\ handler'[c].src = h.src /\ handler'[c].time = h.time
        /\ \A o \in CPUs : o # c => handler'[o] = handler[o]
        /\ UNCHANGED <<tbi, owed>>
    BY <1>1, <1>9 DEF StampIdle, At, Handlers
  <2>2. Due(handler'[c], k, f) <= Due(h, k, f) /\ ~Adding(handler'[c], k, f)
    BY <1>1, <2>1 DEF Due, Pending, Adding, Handlers
  <2>3. QED
    BY <1>1, <1>4, <2>1, <2>2
<1>10. CASE LoadAir(c)
  <2>1. /\ h.pc = "load_air" /\ handler'[c].pc = "store_air"
        /\ handler'[c].src = h.src /\ handler'[c].time = h.time /\ handler'[c].k = h.k
        /\ handler'[c].reg = tbi[h.k][Field(h.src, h.k)]
        /\ \A o \in CPUs : o # c => handler'[o] = handler[o]
        /\ UNCHANGED <<tbi, owed>>
    BY <1>1, <1>10 DEF LoadAir, At, Handlers
  <2>2. h.k \in Int /\ k \in Int /\ h.time \in Nat
    BY <1>1, NumTerminalsAssumption DEF Handlers, Terminals
  <2>3. CASE h.k = k /\ Field(h.src, k) = f
    <3>1. Due(h, k, f) = h.time /\ Due(handler'[c], k, f) = 0
      BY <2>1, <2>2, <2>3 DEF Due, Pending
    <3>2. QED
      BY <1>3, <2>1, <2>2, <2>3, <3>1 DEF Covering
  <2>4. CASE ~(h.k = k /\ Field(h.src, k) = f)
    <3>1. ASSUME NEW j \in Int, j # k PROVE k > j <=> k >= j
      BY <2>2, <3>1
    <3>2. Pending(h, k) <=> k >= h.k
      BY <2>1 DEF Pending
    <3>3. Pending(handler'[c], k) <=> k > h.k
      BY <2>1 DEF Pending
    <3>4. Due(handler'[c], k, f) = Due(h, k, f)
      <4>1. CASE Field(h.src, k) = f
        BY <2>1, <2>2, <2>4, <3>1, <3>2, <3>3, <4>1 DEF Due
      <4>2. CASE Field(h.src, k) # f
        BY <2>1, <4>2 DEF Due
      <4>3. QED
        BY <4>1, <4>2
    <3>5. ~Adding(handler'[c], k, f)
      BY <2>1, <2>4 DEF Adding
    <3>6. QED
      BY <1>1, <1>2, <1>4, <2>1, <3>4, <3>5
  <2>5. QED
    BY <2>3, <2>4
<1>11. CASE StoreAir(c)
  <2>1. /\ h.pc = "store_air"
        /\ handler'[c].src = h.src /\ handler'[c].time = h.time
        /\ \/ handler'[c].pc = "load_air" /\ handler'[c].k = h.k + 1
           \/ handler'[c].pc = "stamp_air"
        /\ \A o \in CPUs : o # c => handler'[o] = handler[o]
        /\ owed' = owed
    BY <1>1, <1>11 DEF StoreAir, At, Repeat, Handlers
  <2>2. h.k \in Int /\ k \in Int /\ h.reg \in Nat /\ h.time \in Nat
    BY <1>1, NumTerminalsAssumption DEF Handlers, Terminals
  <2>3. Due(handler'[c], k, f) <= Due(h, k, f) /\ ~Adding(handler'[c], k, f)
    BY <2>1, <2>2 DEF Due, Pending, Adding
  <2>4. tbi'[k][f] = IF h.k = k /\ Field(h.src, k) = f
                     THEN (h.reg + h.time) % WORD ELSE tbi[k][f]
    BY <1>1, <1>11 DEF StoreAir, Add, Handlers, AirFields, Fields
  <2>5. CASE h.k = k /\ Field(h.src, k) = f
    <3>1. Adding(h, k, f) /\ tbi'[k][f] <= h.reg + h.time
      BY <2>1, <2>2, <2>4, <2>5, ModWord DEF Adding
    <3>2. QED
      BY <1>1, <1>2, <1>3, <2>1, <2>3, <3>1 DEF Covering
  <2>6. CASE ~(h.k = k /\ Field(h.src, k) = f)
    BY <1>4, <2>1, <2>3, <2>4, <2>6
  <2>7. QED
    BY <2>5, <2>6
<1>12. CASE StampAir(c)
  <2>1. /\ handler'[c].pc \in {"publish", "rearm", "off"}
        /\ \A o \in CPUs : o # c => handler'[o] = handler[o]
        /\ UNCHANGED <<tbi, owed>>
    BY <1>1, <1>12 DEF StampAir, Off, Handlers
  <2>2. Due(handler'[c], k, f) = 0 /\ ~Adding(handler'[c], k, f)
    BY <2>1 DEF Due, Pending, Adding
  <2>3. QED
    BY <1>1, <1>2, <1>4, <2>1, <2>2
<1>13. CASE Publish(c)
  <2>1. /\ handler'[c].pc \in {"publish", "rearm", "off"}
        /\ \A o \in CPUs : o # c => handler'[o] = handler[o]
        /\ UNCHANGED <<tbi, owed>>
    BY <1>1, <1>13 DEF Publish, Off, Handlers
  <2>2. Due(handler'[c], k, f) = 0 /\ ~Adding(handler'[c], k, f)
    BY <2>1 DEF Due, Pending, Adding
  <2>3. QED
    BY <1>1, <1>2, <1>4, <2>1, <2>2
<1>14. CASE Rearm(c)
  <2>1. /\ handler'[c].pc \in {"publish", "rearm", "off"}
        /\ \A o \in CPUs : o # c => handler'[o] = handler[o]
        /\ UNCHANGED <<tbi, owed>>
    BY <1>1, <1>14 DEF Rearm, Off, Handlers
  <2>2. Due(handler'[c], k, f) = 0 /\ ~Adding(handler'[c], k, f)
    BY <2>1 DEF Due, Pending, Adding
  <2>3. QED
    BY <1>1, <1>2, <1>4, <2>1, <2>2
<1>15. QED
  BY <1>5, <1>6, <1>7, <1>8, <1>9, <1>10, <1>11, <1>12, <1>13, <1>14 DEF Continue

\* So does the entry of a handler, which owes what becomes due.
LEMMA HookCovers ==
  ASSUME TypeOK, TypeOK', NEW c \in CPUs, NEW src \in Terminals \cup {Other},
         NEW d \in Durations, Hook(c, src, d), NEW k \in Terminals, NEW f \in AirFields
  PROVE  Covering(c, k, f)
<1>1. /\ handler[c].pc = "off"
      /\ \A o \in CPUs : o # c => handler'[o] = handler[o]
      /\ tbi' = tbi
      /\ handler'[c].pc = IF src \in Terminals THEN "load_jiffies" ELSE "publish"
      /\ handler'[c].src = src
      /\ handler'[c].time = IF src \in Terminals THEN d ELSE 0
  BY DEF Hook, Enter, At, Off, TypeOK, counted
<1>2. owed'[k][f] = IF src \in Terminals /\ f = Field(src, k)
                    THEN owed[k][f] + d ELSE owed[k][f]
  BY DEF Hook, TypeOK, Fields, AirFields, Field
<1>3. d \in Nat /\ owed[k][f] \in Nat
  BY DurationsAssumption DEF TypeOK, Fields, AirFields
<1>4. Due(handler[c], k, f) = 0
  BY <1>1 DEF Due, Pending
<1>5. Due(handler'[c], k, f) = IF src \in Terminals /\ f = Field(src, k) THEN d ELSE 0
  BY <1>1 DEF Due, Pending
<1>6. ~Adding(handler'[c], k, f)
  BY <1>1 DEF Adding
<1>7. QED
  BY <1>1, <1>2, <1>3, <1>4, <1>5, <1>6 DEF Covering

LEMMA TimerCovers ==
  ASSUME TypeOK, NEW c \in CPUs, TimerFires(c), NEW k \in Terminals, NEW f \in AirFields
  PROVE  Covering(c, k, f)
<1>1. /\ handler[c].pc = "off"
      /\ \A o \in CPUs : o # c => handler'[o] = handler[o]
      /\ UNCHANGED <<tbi, owed>>
      /\ handler'[c].pc = "load_jiffies" /\ handler'[c].time = 0
  BY DEF TimerFires, Enter, At, Off, TypeOK, counted
<1>2. Due(handler[c], k, f) = 0 /\ Due(handler'[c], k, f) = 0
  BY <1>1 DEF Due, Pending
<1>3. ~Adding(handler'[c], k, f) /\ owed[k][f] \in Nat
  BY <1>1 DEF Adding, TypeOK, Fields, AirFields
<1>4. QED
  BY <1>1, <1>2, <1>3 DEF Covering

LEMMA AirStep == TypeOK /\ TypeOK' /\ AirInv /\ [Next]_vars => AirInv'
<1> SUFFICES ASSUME TypeOK, TypeOK', AirInv, [Next]_vars PROVE AirInv'
  OBVIOUS
<1>1. ASSUME NEW c \in CPUs, \A k \in Terminals, f \in AirFields : Covering(c, k, f)
      PROVE  AirInv'
  BY <1>1, CoverStep DEF AirInv, AirFields
<1>2. CASE Tick
  BY <1>2, AirUnchanged DEF Tick, counted
<1>3. ASSUME NEW c \in CPUs, NEW src \in Terminals \cup {Other}, NEW d \in Durations,
             Hook(c, src, d)
      PROVE  AirInv'
  BY <1>1, <1>3, HookCovers
<1>4. ASSUME NEW c \in CPUs, TimerFires(c) PROVE AirInv'
  BY <1>1, <1>4, TimerCovers
<1>5. ASSUME NEW c \in CPUs, Continue(c) PROVE AirInv'
  BY <1>1, <1>5, ContinueCovers
<1>6. CASE Exit
  BY <1>6, AirUnchanged DEF Exit, DelTimer, RemoveProc, UnregisterHook, FreeModule,
                            counted, history
<1>7. CASE UNCHANGED vars
  BY <1>7, AirUnchanged DEF vars, counted, history
<1>8. QED
  BY <1>2, <1>3, <1>4, <1>5, <1>6, <1>7 DEF Next

LEMMA AirCovered == TypeOK /\ AirInv => AirNeverOvercounted
<1> SUFFICES ASSUME TypeOK, AirInv, NEW k \in Terminals, NEW f \in AirFields
             PROVE  tbi[k][f] <= owed[k][f]
  BY DEF AirNeverOvercounted, AirFields
<1>1. PICK s \in [0 .. N -> Nat] : tbi[k][f] + s[N] <= owed[k][f]
  BY DEF AirInv, AirFields, Covered
<1>2. s[N] \in Nat /\ tbi[k][f] \in Nat /\ owed[k][f] \in Nat
  BY OrderType DEF TypeOK, Fields, AirFields
<1>3. QED
  BY <1>1, <1>2

\* On any number of CPUs and in any interleaving of their unlocked additions,
\* no airtime counter of update_tbi exceeds what the packets account for.
THEOREM AirBounded == Spec => []AirNeverOvercounted
  BY TypeInit, TypeStep, AirInit, AirStep, AirCovered, PTL DEF Spec

-----------------------------------------------------------------------------
(***************************************************************************)
(* Unloading.  Only handlers that run in timer_handler arm the timer, and  *)
(* only handlers create the entry.                                         *)
(***************************************************************************)

Closing == {"proc_removed", "unhooked", "unloaded"}

UnloadInv ==
  /\ \A c \in CPUs : At(c, "rearm") => handler[c].kind = "timer"
  /\ module # "live" /\ (timer.pending \/ InFlight("timer")) => "timer" \in late
  /\ module \in Closing /\ (proc_tbi \/ \E c \in CPUs : ~At(c, "off")) => "publisher" \in late

LEMMA UnloadInit == Init => UnloadInv
  BY DEF Init, UnloadInv, Closing, At, Off

\* A step of a handler that goes on, in the same kind of handler or to its end.
LEMMA UnloadContinue ==
  ASSUME TypeOK, UnloadInv, NEW c \in CPUs, ~At(c, "off"), UNCHANGED <<module, late>>,
         \A o \in CPUs \ {c} : handler'[o] = handler[o],
         handler'[c].pc # "off" => handler'[c].kind = handler[c].kind,
         handler'[c].pc = "rearm" => handler[c].kind = "timer",
         timer'.pending => timer.pending \/ handler[c].kind = "timer"
  PROVE  UnloadInv'
<1>1. InFlight("timer")' => InFlight("timer")
  BY DEF InFlight, At
<1>2. timer'.pending => timer.pending \/ InFlight("timer")
  BY DEF InFlight
<1>3. \E o \in CPUs : ~At(o, "off")
  OBVIOUS
<1> QED
  BY <1>1, <1>2, <1>3 DEF UnloadInv, Closing, At

LEMMA UnloadStep == TypeOK /\ UnloadInv /\ [Next]_vars => UnloadInv'
<1> SUFFICES ASSUME TypeOK, UnloadInv, [Next]_vars PROVE UnloadInv'
  OBVIOUS
<1>1. ASSUME UNCHANGED <<module, late, timer, proc_tbi, handler>> PROVE UnloadInv'
  BY <1>1 DEF UnloadInv, Closing, InFlight, At
<1>2. CASE Tick
  BY <1>1, <1>2 DEF Tick
<1>3. ASSUME NEW c \in CPUs, NEW src \in Terminals \cup {Other},
             NEW d \in Durations, Hook(c, src, d)
      PROVE  UnloadInv'
  <2> DEFINE h == [Off EXCEPT !.pc   = IF src \in Terminals THEN "load_jiffies" ELSE "publish",
                              !.src  = src,
                              !.time = IF src \in Terminals THEN d ELSE 0]
  <2>1. Enter(c, h) /\ UNCHANGED <<timer, proc_tbi, module>>
        /\ module \in {"live", "timer_deleted", "proc_removed"}
    BY <1>3 DEF Hook, kernel
  <2>2. h.kind = "hook" /\ h.pc # "rearm"
    BY DEF Off
  <2> HIDE DEF h
  <2>5. \A o \in CPUs : At(o, "rearm")' => At(o, "rearm") /\ handler'[o] = handler[o]
    BY <2>1, <2>2 DEF Enter, At, TypeOK
  <2>3. InFlight("timer")' => InFlight("timer")
    BY <2>1, <2>2 DEF Enter, InFlight, At, TypeOK
  <2>4. late \subseteq late' /\ (module \in Closing => "publisher" \in late')
    BY <2>1 DEF Enter, Closing
  <2> QED
    BY <2>1, <2>3, <2>4, <2>5 DEF UnloadInv
<1>4. ASSUME NEW c \in CPUs, TimerFires(c) PROVE UnloadInv'
  <2> DEFINE h == [Off EXCEPT !.pc = "load_jiffies", !.kind = "timer"]
  <2>1. Enter(c, h) /\ UNCHANGED <<proc_tbi, module>> /\ module # "unloaded" /\ timer.pending
        /\ timer' = [timer EXCEPT !.pending = FALSE]
    BY <1>4 DEF TimerFires
  <2>3. h.pc # "rearm"
    BY DEF Off
  <2> HIDE DEF h
  <2>4. \A o \in CPUs : At(o, "rearm")' => At(o, "rearm") /\ handler'[o] = handler[o]
    BY <2>1, <2>3 DEF Enter, At, TypeOK
  <2>2. late \subseteq late' /\ (module \in Closing => "publisher" \in late')
    BY <2>1 DEF Enter, Closing
  <2> QED
    BY <2>1, <2>2, <2>4 DEF UnloadInv
<1>5. ASSUME NEW c \in CPUs, Continue(c) PROVE UnloadInv'
  <2>1. handler[c] \in Handlers /\ ~At(c, "off")
    BY <1>5 DEF TypeOK, Continue, LoadJiffies, SubLast, LoadIdle, StoreIdle, StampIdle, LoadAir,
                StoreAir, StampAir, Publish, Rearm, At
  <2>2. UNCHANGED <<module, late>> /\ \A o \in CPUs \ {c} : handler'[o] = handler[o]
    BY <1>5 DEF TypeOK, Continue, LoadJiffies, SubLast, LoadIdle, StoreIdle, StampIdle, LoadAir,
                StoreAir, StampAir, Publish, Rearm, kernel, history
  <2>3. CASE Rearm(c)
    <3>1. handler'[c].pc = "off" /\ handler[c].kind = "timer"
      BY <1>5, <2>1, <2>3 DEF Rearm, UnloadInv, Off, TypeOK
    <3> QED
      BY <1>5, <2>1, <2>2, <3>1, UnloadContinue
  <2>4. CASE ~Rearm(c)
    <3>1. UNCHANGED timer
      BY <1>5, <2>4 DEF Continue, LoadJiffies, SubLast, LoadIdle, StoreIdle, StampIdle, LoadAir,
                        StoreAir, StampAir, Publish, kernel
    <3>2. \/ handler'[c] = Off
          \/ /\ handler'[c].kind = handler[c].kind
             /\ handler'[c].pc = "rearm" => handler[c].kind = "timer"
      <4>1. CASE LoadJiffies(c) \/ SubLast(c) \/ LoadIdle(c) \/ LoadAir(c)
        BY <1>5, <2>1, <4>1 DEF LoadJiffies, SubLast, LoadIdle, LoadAir, TypeOK, Handlers
      <4>2. CASE StoreIdle(c) \/ StoreAir(c)
        <5>1. CASE StoreIdle(c)
          <6> DEFINE after == Repeat(handler[c], "load_i", "stamp_idle")
          <6>1. after.kind = handler[c].kind /\ after.pc \in {"load_i", "stamp_idle"}
                /\ after \in Handlers
            BY <2>1, RepeatType DEF Repeat, Handlers, Points, UpdatePoints
          <6>2. handler' = [handler EXCEPT ![c] =
                  IF after.pc = "stamp_idle" THEN [after EXCEPT !.stamp = jiffies] ELSE after]
            BY <5>1 DEF StoreIdle
          <6> HIDE DEF after
          <6> QED
            BY <1>5, <6>1, <6>2 DEF TypeOK, Handlers
        <5>2. CASE StoreAir(c)
          <6> DEFINE after == Repeat(handler[c], "load_air", "stamp_air")
          <6>1. after.kind = handler[c].kind /\ after.pc \in {"load_air", "stamp_air"}
            BY <2>1 DEF Repeat, Handlers
          <6>2. handler' = [handler EXCEPT ![c] = after]
            BY <5>2 DEF StoreAir
          <6> HIDE DEF after
          <6> QED
            BY <1>5, <6>1, <6>2 DEF TypeOK
        <5> QED
          BY <4>2, <5>1, <5>2
      <4>3. CASE StampIdle(c) \/ StampAir(c)
        <5>1. CASE StampIdle(c)
          BY <1>5, <2>1, <5>1 DEF StampIdle, TypeOK, Handlers
        <5>2. CASE StampAir(c)
          BY <1>5, <2>1, <5>2 DEF StampAir, TypeOK, Handlers
        <5> QED
          BY <4>3, <5>1, <5>2
      <4>4. CASE Publish(c)
        BY <1>5, <2>1, <4>4 DEF Publish, TypeOK, Handlers
      <4> QED
        BY <1>5, <2>4, <4>1, <4>2, <4>3, <4>4 DEF Continue
    <3> QED
      BY <1>5, <2>1, <2>2, <3>1, <3>2, UnloadContinue DEF Off
  <2> QED
    BY <2>3, <2>4
<1>6. CASE DelTimer
  BY <1>6 DEF DelTimer, UnloadInv, Closing, InFlight, At, TypeOK
<1>7. CASE RemoveProc
  BY <1>7 DEF RemoveProc, UnloadInv, Closing, InFlight, At, Kinds, TypeOK, Handlers
<1>8. CASE UnregisterHook
  BY <1>8 DEF UnregisterHook, UnloadInv, Closing, InFlight, At, history
<1>9. CASE FreeModule
  BY <1>9 DEF FreeModule, UnloadInv, Closing, InFlight, At, history
<1>10. CASE UNCHANGED vars
  BY <1>1, <1>10 DEF vars, kernel, history
<1> QED
  BY <1>2, <1>3, <1>4, <1>5, <1>6, <1>7, <1>8, <1>9, <1>10 DEF Next, Exit

\* Whatever runs while exit_hello does, rmmod leaves an armed timer only if a timer
\* handler was running when del_timer was called, and a /proc/tbi only if a handler
\* was running at or entered after remove_proc_entry.
THEOREM UnloadClean == Spec => []CleanUnload
<1>1. UnloadInv => CleanUnload
  BY DEF UnloadInv, CleanUnload, Closing
<1> QED
  BY <1>1, TypeInit, TypeStep, UnloadInit, UnloadStep, PTL DEF Spec

-----------------------------------------------------------------------------
(***************************************************************************)
(* One update at a time.  As long as no two updates have overlapped, the   *)
(* counters differ from what is owed by exactly what the update in         *)
(* progress is still to add; and the idle time of a terminal from the time *)
(* up to which it is kept by at most the ticks in lost.                    *)
(***************************************************************************)

Others(c) == \A o \in CPUs \ {c} : handler'[o] = handler[o]

\* What handler c becomes and what its step leaves alone.
Goes(c, pc) ==
  /\ handler'[c] \in Handlers /\ handler'[c].pc = pc /\ Others(c)
  /\ handler'[c].src = handler[c].src /\ handler'[c].kind = handler[c].kind
  /\ UNCHANGED <<jiffies, owed, lost, overlap>>

Keeps(c, fields) ==
  /\ "time" \in fields => handler'[c].time = handler[c].time
  /\ "k" \in fields => handler'[c].k = handler[c].k
  /\ "idle" \in fields => handler'[c].idle = handler[c].idle
  /\ "reg" \in fields => handler'[c].reg = handler[c].reg
  /\ "stamp" \in fields => handler'[c].stamp = handler[c].stamp

\* The loop over the terminals goes on or ends.
Loops(c, again, done) ==
  \/ /\ handler[c].k + 1 < NumTerminals
     /\ handler'[c].pc = again /\ handler'[c].k = handler[c].k + 1
  \/ /\ handler[c].k + 1 >= NumTerminals
     /\ handler'[c].pc = done /\ handler'[c].k = 0

LEMMA HandlerType ==
  ASSUME TypeOK, NEW c \in CPUs
  PROVE  /\ handler[c] \in Handlers
         /\ handler[c].pc \in Points /\ handler[c].kind \in Kinds
         /\ handler[c].src \in Terminals \cup {Other} /\ handler[c].time \in Nat
         /\ handler[c].k \in Terminals /\ handler[c].k \in Nat /\ handler[c].idle \in Nat
         /\ handler[c].reg \in Nat /\ handler[c].stamp \in Nat
BY DEF TypeOK, Handlers, Terminals

LEMMA LoadJiffiesDoes ==
  ASSUME TypeOK, TypeOK', NEW c \in CPUs, LoadJiffies(c)
  PROVE  /\ handler[c].pc = "load_jiffies" /\ Goes(c, "sub_last")
         /\ Keeps(c, {"time", "k", "reg", "stamp"}) /\ handler'[c].idle = jiffies
         /\ UNCHANGED <<tbi, last_jiffies>>
BY HandlerType DEF LoadJiffies, At, Goes, Keeps, Others, Handlers, TypeOK, kernel, counted, history

LEMMA SubLastDoes ==
  ASSUME TypeOK, TypeOK', NEW c \in CPUs, SubLast(c)
  PROVE  /\ handler[c].pc = "sub_last" /\ Goes(c, "load_i")
         /\ Keeps(c, {"time", "k", "reg", "stamp"})
         /\ handler'[c].idle = IdleTime(handler[c].idle, last_jiffies)
         /\ UNCHANGED <<tbi, last_jiffies>>
BY HandlerType DEF SubLast, At, Goes, Keeps, Others, Handlers, TypeOK, kernel, counted, history

LEMMA LoadIdleDoes ==
  ASSUME TypeOK, TypeOK', NEW c \in CPUs, LoadIdle(c)
  PROVE  /\ handler[c].pc = "load_i" /\ Goes(c, "store_i")
         /\ Keeps(c, {"time", "k", "idle", "stamp"})
         /\ handler'[c].reg = tbi[handler[c].k]["i"]
         /\ UNCHANGED <<tbi, last_jiffies>>
BY HandlerType DEF LoadIdle, At, Goes, Keeps, Others, Handlers, TypeOK, kernel, counted, history

LEMMA LoadAirDoes ==
  ASSUME TypeOK, TypeOK', NEW c \in CPUs, LoadAir(c)
  PROVE  /\ handler[c].pc = "load_air" /\ Goes(c, "store_air")
         /\ Keeps(c, {"time", "k", "idle", "stamp"})
         /\ handler'[c].reg = tbi[handler[c].k][Field(handler[c].src, handler[c].k)]
         /\ UNCHANGED <<tbi, last_jiffies>>
BY HandlerType DEF LoadAir, At, Goes, Keeps, Others, Handlers, TypeOK, kernel, counted, history

LEMMA RepeatIs ==
  ASSUME NEW h \in Handlers, NEW again \in Points, NEW done \in Points
  PROVE  LET r == Repeat(h, again, done)
         IN /\ r.src = h.src /\ r.time = h.time /\ r.idle = h.idle /\ r.stamp = h.stamp
            /\ r.kind = h.kind
            /\ \/ h.k + 1 < NumTerminals /\ r.pc = again /\ r.k = h.k + 1
               \/ h.k + 1 >= NumTerminals /\ r.pc = done /\ r.k = 0
BY NumTerminalsAssumption DEF Repeat, Handlers, Terminals

LEMMA StoreIdleDoes ==
  ASSUME TypeOK, TypeOK', NEW c \in CPUs, StoreIdle(c)
  PROVE  /\ handler[c].pc = "store_i" /\ Goes(c, handler'[c].pc)
         /\ Keeps(c, {"time", "idle"}) /\ Loops(c, "load_i", "stamp_idle")
         /\ handler'[c].stamp = IF handler'[c].pc = "stamp_idle" THEN jiffies
                                ELSE handler[c].stamp
         /\ tbi' = [tbi EXCEPT ![handler[c].k]["i"] = Add(handler[c].reg, handler[c].idle)]
         /\ UNCHANGED last_jiffies
<1> DEFINE after == Repeat(handler[c], "load_i", "stamp_idle")
           new == IF after.pc = "stamp_idle" THEN [after EXCEPT !.stamp = jiffies] ELSE after
<1>1. /\ after.src = handler[c].src /\ after.time = handler[c].time
      /\ after.idle = handler[c].idle /\ after.stamp = handler[c].stamp /\ after \in Handlers
      /\ after.kind = handler[c].kind
      /\ \/ handler[c].k + 1 < NumTerminals /\ after.pc = "load_i"
            /\ after.k = handler[c].k + 1
         \/ handler[c].k + 1 >= NumTerminals /\ after.pc = "stamp_idle" /\ after.k = 0
  <2>1. "load_i" \in Points /\ "stamp_idle" \in Points
    BY DEF Points, UpdatePoints
  <2>2. after \in Handlers
    BY <2>1, HandlerType, RepeatType
  <2> QED
    BY <2>1, <2>2, HandlerType, RepeatIs
<1> HIDE DEF after
<1>2. /\ new.src = after.src /\ new.kind = after.kind /\ new.time = after.time /\ new.idle = after.idle
      /\ new.k = after.k /\ new.pc = after.pc
      /\ new.stamp = IF after.pc = "stamp_idle" THEN jiffies ELSE after.stamp
  BY <1>1 DEF Handlers
<1>3. handler' = [handler EXCEPT ![c] = new]
  BY DEF StoreIdle, after
<1> HIDE DEF new
<1>4. handler'[c] = new /\ Others(c) /\ handler'[c] \in Handlers
  BY <1>3 DEF TypeOK, Others
<1>5. /\ handler[c].pc = "store_i" /\ UNCHANGED <<jiffies, owed, lost, overlap, last_jiffies>>
      /\ tbi' = [tbi EXCEPT ![handler[c].k]["i"] = Add(handler[c].reg, handler[c].idle)]
  BY DEF StoreIdle, At, kernel, history
<1> QED
  BY <1>1, <1>2, <1>4, <1>5 DEF Goes, Keeps, Loops

LEMMA StoreAirDoes ==
  ASSUME TypeOK, TypeOK', NEW c \in CPUs, StoreAir(c)
  PROVE  /\ handler[c].pc = "store_air" /\ Goes(c, handler'[c].pc)
         /\ Keeps(c, {"time", "idle", "stamp"}) /\ Loops(c, "load_air", "stamp_air")
         /\ tbi' = [tbi EXCEPT ![handler[c].k][Field(handler[c].src, handler[c].k)] =
                                 Add(handler[c].reg, handler[c].time)]
         /\ UNCHANGED last_jiffies
<1> DEFINE after == Repeat(handler[c], "load_air", "stamp_air")
<1>1. /\ after.src = handler[c].src /\ after.time = handler[c].time
      /\ after.idle = handler[c].idle /\ after.stamp = handler[c].stamp
      /\ after.kind = handler[c].kind
      /\ \/ handler[c].k + 1 < NumTerminals /\ after.pc = "load_air"
            /\ after.k = handler[c].k + 1
         \/ handler[c].k + 1 >= NumTerminals /\ after.pc = "stamp_air" /\ after.k = 0
  BY HandlerType, RepeatIs DEF Points, UpdatePoints
<1>2. handler' = [handler EXCEPT ![c] = after]
  BY DEF StoreAir
<1> HIDE DEF after
<1>3. handler'[c] = after /\ Others(c) /\ handler'[c] \in Handlers
  BY <1>2 DEF TypeOK, Others
<1>4. /\ handler[c].pc = "store_air" /\ UNCHANGED <<jiffies, owed, lost, overlap, last_jiffies>>
      /\ tbi' = [tbi EXCEPT ![handler[c].k][Field(handler[c].src, handler[c].k)] =
                              Add(handler[c].reg, handler[c].time)]
  BY DEF StoreAir, At, kernel, history
<1> QED
  BY <1>1, <1>3, <1>4 DEF Goes, Keeps, Loops

LEMMA StampIdleDoes ==
  ASSUME TypeOK, TypeOK', NEW c \in CPUs, StampIdle(c)
  PROVE  /\ handler[c].pc = "stamp_idle" /\ Goes(c, handler'[c].pc) /\ Keeps(c, {"time", "k"})
         /\ \/ handler'[c].pc = "publish" /\ handler[c].kind = "timer"
            \/ handler'[c].pc = "load_air" /\ handler'[c].stamp = jiffies
         /\ last_jiffies' \in handler[c].stamp .. jiffies /\ UNCHANGED tbi
<1>1. handler[c] \in Handlers
  BY HandlerType
<1>2. CASE handler[c].kind = "timer"
  <2>1. handler' = [handler EXCEPT ![c] = [handler[c] EXCEPT !.pc = "publish", !.idle = 0,
                                                             !.stamp = 0]]
    BY <1>2 DEF StampIdle
  <2> QED
    BY <1>1, <1>2, <2>1 DEF StampIdle, Stamp, At, Goes, Keeps, Others, Handlers, TypeOK, kernel,
                            history
<1>3. CASE handler[c].kind # "timer"
  <2>1. handler' = [handler EXCEPT ![c] = [handler[c] EXCEPT !.pc = "load_air", !.idle = 0,
                                                             !.stamp = jiffies]]
    BY <1>3 DEF StampIdle
  <2> QED
    BY <1>1, <1>3, <2>1 DEF StampIdle, Stamp, At, Goes, Keeps, Others, Handlers, TypeOK, kernel,
                            history
<1> QED
  BY <1>2, <1>3

LEMMA StampAirDoes ==
  ASSUME TypeOK, TypeOK', NEW c \in CPUs, StampAir(c)
  PROVE  /\ handler[c].pc = "stamp_air" /\ Goes(c, "publish") /\ Keeps(c, {"k"})
         /\ last_jiffies' \in handler[c].stamp .. jiffies /\ UNCHANGED tbi
BY HandlerType DEF StampAir, Stamp, At, Goes, Keeps, Others, Handlers, TypeOK, kernel, history

\* The handler steps that are not part of an update.
LEMMA AfterDoes ==
  ASSUME TypeOK, TypeOK', NEW c \in CPUs, Publish(c) \/ Rearm(c)
  PROVE  /\ ~Updating(c) /\ ~Updating(c)' /\ Others(c)
         /\ handler'[c].k = handler[c].k \/ handler'[c].k = 0
         /\ \/ handler'[c].kind = handler[c].kind /\ handler'[c].time = handler[c].time
            \/ handler'[c].kind = "hook"
         /\ UNCHANGED <<jiffies, owed, lost, overlap, tbi, last_jiffies>>
<1>1. handler[c] \in Handlers
  BY HandlerType
<1>2. CASE Publish(c)
  BY <1>1, <1>2 DEF Publish, At, Updating, UpdatePoints, Others, Off, Handlers, TypeOK, counted, history
<1>3. CASE Rearm(c)
  BY <1>1, <1>3 DEF Rearm, At, Updating, UpdatePoints, Others, Off, Handlers, TypeOK, counted, history
<1> QED
  BY <1>2, <1>3

LEMMA HookDoes ==
  ASSUME TypeOK, TypeOK', NEW c \in CPUs, NEW src \in Terminals \cup {Other},
         NEW d \in Durations, Hook(c, src, d)
  PROVE  /\ ~Updating(c) /\ Others(c) /\ handler'[c].src = src /\ handler'[c].k = 0
         /\ handler'[c].kind = "hook"
         /\ src \in Terminals => handler'[c].pc = "load_jiffies" /\ handler'[c].time = d
         /\ src \notin Terminals => ~Updating(c)'
         /\ overlap' = (overlap \/ (src \in Terminals /\ \E o \in CPUs \ {c} : Updating(o)))
         /\ UNCHANGED <<jiffies, lost, tbi, last_jiffies>>
         /\ \A k \in Terminals, f \in AirFields :
              owed'[k][f] = IF src \in Terminals /\ f = Field(src, k) THEN owed[k][f] + d
                            ELSE owed[k][f]
<1> DEFINE h == [Off EXCEPT !.pc   = IF src \in Terminals THEN "load_jiffies" ELSE "publish",
                            !.src  = src,
                            !.time = IF src \in Terminals THEN d ELSE 0]
<1>1. /\ h.pc = IF src \in Terminals THEN "load_jiffies" ELSE "publish"
      /\ h.src = src /\ h.k = 0 /\ h.kind = "hook" /\ h.time = IF src \in Terminals THEN d ELSE 0
  BY DEF Off
<1>2. Enter(c, h) /\ UNCHANGED <<jiffies, lost, tbi, last_jiffies>>
  BY DEF Hook, kernel, counted
<1> HIDE DEF h
<1>3. /\ handler[c].pc = "off" /\ handler'[c] = h /\ Others(c)
      /\ overlap' = (overlap \/ (h.pc \in UpdatePoints /\ \E o \in CPUs \ {c} : Updating(o)))
  BY <1>2 DEF Enter, At, Others, TypeOK
<1>4. \A k \in Terminals, f \in AirFields :
        owed'[k][f] = IF src \in Terminals /\ f = Field(src, k) THEN owed[k][f] + d
                      ELSE owed[k][f]
  BY DEF Hook, TypeOK, Fields, AirFields, Field
<1>5. h.pc \in UpdatePoints <=> src \in Terminals
  BY <1>1 DEF UpdatePoints
<1>6. ~Updating(c) /\ (src \notin Terminals => ~Updating(c)')
  BY <1>3, <1>5 DEF Updating, UpdatePoints
<1> QED
  BY <1>1, <1>2, <1>3, <1>4, <1>5, <1>6

LEMMA TimerDoes ==
  ASSUME TypeOK, TypeOK', NEW c \in CPUs, TimerFires(c)
  PROVE  /\ ~Updating(c) /\ Others(c) /\ handler'[c].pc = "load_jiffies"
         /\ handler'[c].time = 0 /\ handler'[c].src = Other /\ handler'[c].k = 0
         /\ overlap' = (overlap \/ \E o \in CPUs \ {c} : Updating(o))
         /\ UNCHANGED <<jiffies, lost, tbi, last_jiffies, owed>>
<1> DEFINE h == [Off EXCEPT !.pc = "load_jiffies", !.kind = "timer"]
<1>1. h.pc = "load_jiffies" /\ h.time = 0 /\ h.src = Other /\ h.k = 0
  BY DEF Off
<1>2. Enter(c, h) /\ UNCHANGED <<jiffies, lost, tbi, last_jiffies, owed>>
  BY DEF TimerFires, counted
<1> HIDE DEF h
<1>3. /\ handler[c].pc = "off" /\ handler'[c] = h /\ Others(c)
      /\ overlap' = (overlap \/ (h.pc \in UpdatePoints /\ \E o \in CPUs \ {c} : Updating(o)))
  BY <1>2 DEF Enter, At, Others, TypeOK
<1> QED
  BY <1>1, <1>2, <1>3 DEF Updating, UpdatePoints

\* No counter has wrapped around.
NoWrap == /\ jiffies < WORD
          /\ \A k \in Terminals, f \in AirFields : owed[k][f] < WORD

Solo == ~overlap => \A c, d \in CPUs : Updating(c) /\ Updating(d) => c = d

Loop == {"load_i", "store_i", "load_air", "store_air"}
FromTheFirst ==
  \A c \in CPUs : /\ handler[c].pc \notin Loop => handler[c].k = 0
                  /\ handler[c].kind = "timer" => handler[c].time = 0

\* The airtime a handler is still to add to tbi[k][f], its addition in progress included.
AirLeft(h, k, f) ==
  IF f = Field(h.src, k) /\ (Pending(h, k) \/ (h.pc = "store_air" /\ h.k = k))
  THEN h.time ELSE 0

AirBooked(k, f) ==
  /\ Quiet => tbi[k][f] = owed[k][f]
  /\ \A c \in CPUs : Updating(c) => tbi[k][f] + AirLeft(handler[c], k, f) = owed[k][f]
  /\ \A c \in CPUs : Adding(handler[c], k, f) => handler[c].reg = tbi[k][f]

AirExact == NoWrap /\ ~overlap => \A k \in Terminals, f \in AirFields : AirBooked(k, f)

\* What the update of handler h has done to the idle time of terminal k.
IdleBooked(h, k) ==
  LET i == tbi[k]["i"] IN
  /\ h.pc \notin UpdatePoints \ {"load_jiffies"} =>
       i <= last_jiffies /\ last_jiffies <= jiffies /\ i + lost >= last_jiffies
  /\ h.pc = "sub_last" =>
       /\ i <= last_jiffies /\ last_jiffies <= h.idle /\ h.idle <= jiffies
       /\ i + lost >= last_jiffies + (jiffies - h.idle)
  /\ h.pc \in {"load_i", "store_i"} =>
       /\ last_jiffies + h.idle <= jiffies
       /\ k >= h.k => i <= last_jiffies /\ i + h.idle + lost >= jiffies
       /\ k < h.k => i <= last_jiffies + h.idle /\ i + lost >= jiffies
  /\ h.pc = "store_i" /\ k = h.k => h.reg = i
  /\ h.pc = "stamp_idle" =>
       /\ i <= last_jiffies + h.idle /\ last_jiffies + h.idle <= h.stamp
       /\ h.stamp <= jiffies /\ i + lost >= jiffies
  /\ h.pc \in {"load_air", "store_air", "stamp_air"} =>
       /\ i <= last_jiffies /\ last_jiffies <= h.stamp /\ h.stamp <= jiffies
       /\ i + lost >= jiffies

IdleExact ==
  NoWrap /\ ~overlap =>
    \A k \in Terminals : /\ Quiet => IdleBooked(Off, k)
                         /\ \A c \in CPUs : Updating(c) => IdleBooked(handler[c], k)

OneAtATime == Solo /\ FromTheFirst /\ AirExact /\ IdleExact

LEMMA OneInit == Init => OneAtATime
<1> SUFFICES ASSUME Init PROVE OneAtATime
  OBVIOUS
<1>1. \A c \in CPUs : handler[c] = Off
  BY DEF Init
<1>2. Off.pc = "off" /\ Off.k = 0 /\ Off.time = 0
  BY DEF Off
<1>3. \A c \in CPUs : ~Updating(c)
  BY <1>1, <1>2 DEF Updating, UpdatePoints
<1>4. \A k \in Terminals, f \in Fields : tbi[k][f] = 0 /\ owed[k][f] = 0
  BY DEF Init
<1>5. jiffies = 0 /\ last_jiffies = 0 /\ lost = 0
  BY DEF Init
<1>6. AirExact
  BY <1>1, <1>2, <1>3, <1>4 DEF AirExact, AirBooked, Adding, AirFields, Fields
<1>7. IdleExact
  BY <1>2, <1>3, <1>4, <1>5 DEF IdleExact, IdleBooked, Fields
<1> QED
  BY <1>1, <1>2, <1>3, <1>6, <1>7 DEF OneAtATime, Solo, FromTheFirst

\* Nothing owed is forgotten and the clock does not go back.
LEMMA NoWrapBack ==
  ASSUME TypeOK, [Next]_vars, NoWrap'
  PROVE  NoWrap
<1>2. ASSUME UNCHANGED <<jiffies, owed>> PROVE NoWrap
  BY <1>2 DEF NoWrap
<1>3. CASE Tick
  BY <1>3, WordAssumption DEF Tick, NoWrap, TypeOK
<1>4. ASSUME NEW c \in CPUs, NEW src \in Terminals \cup {Other}, NEW d \in Durations, Hook(c, src, d)
      PROVE  NoWrap
  <2>1. jiffies' = jiffies
    BY <1>4 DEF Hook, kernel
  <2>2. \A k \in Terminals, f \in AirFields :
          owed'[k][f] \in {owed[k][f], owed[k][f] + d} /\ owed[k][f] \in Nat
    BY <1>4 DEF Hook, TypeOK, Fields, AirFields
  <2> QED
    BY <2>1, <2>2, DurationsAssumption, WordAssumption DEF NoWrap
<1>5. ASSUME NEW c \in CPUs, TimerFires(c) PROVE NoWrap
  BY <1>2, <1>5 DEF TimerFires
<1>6. ASSUME NEW c \in CPUs, Continue(c) PROVE NoWrap
  <2>1. UNCHANGED <<jiffies, owed>>
    BY <1>6 DEF Continue, LoadJiffies, SubLast, LoadIdle, StoreIdle, StampIdle, LoadAir,
                StoreAir, StampAir, Publish, Rearm, kernel, history
  <2> QED
    BY <1>2, <2>1
<1>7. CASE Exit
  BY <1>2, <1>7 DEF Exit, DelTimer, RemoveProc, UnregisterHook, FreeModule, history
<1>8. CASE UNCHANGED vars
  BY <1>2, <1>8 DEF vars, kernel, history
<1> QED
  BY <1>3, <1>4, <1>5, <1>6, <1>7, <1>8 DEF Next

Sole(c) == \A o \in CPUs \ {c} : ~Updating(o)

LEMMA SoloKept ==
  ASSUME Solo, NEW c \in CPUs, Others(c), ~overlap' => ~overlap,
         ~overlap' /\ Updating(c)' => Updating(c) \/ Sole(c)
  PROVE  Solo'
<1> SUFFICES ASSUME ~overlap', NEW a \in CPUs, NEW b \in CPUs, Updating(a)', Updating(b)'
             PROVE  a = b
  BY DEF Solo
<1>1. \A o \in CPUs : o # c => Updating(o)' = Updating(o)
  BY DEF Others, Updating
<1> QED
  BY <1>1 DEF Solo, Sole

\* A step that is not part of an update.
LEMMA AirAside ==
  ASSUME TypeOK, NEW c \in CPUs, Others(c), ~Updating(c), ~Updating(c)', UNCHANGED tbi,
         NEW k \in Terminals, NEW f \in AirFields, AirBooked(k, f), owed'[k][f] = owed[k][f]
  PROVE  AirBooked(k, f)'
<1>1. \A o \in CPUs : Updating(o)' = Updating(o)
  BY DEF Others, Updating
<1>2. Quiet' = Quiet
  BY <1>1 DEF Quiet
<1>3. \A o \in CPUs : Updating(o)' => handler'[o] = handler[o]
  BY DEF Others
<1>4. \A o \in CPUs : Adding(handler'[o], k, f) => Updating(o)'
  BY DEF Adding, Updating, UpdatePoints
<1>5. ASSUME NEW o \in CPUs, Updating(o)'
      PROVE  tbi'[k][f] + AirLeft(handler'[o], k, f) = owed'[k][f]
  BY <1>1, <1>3, <1>5 DEF AirBooked
<1>6. ASSUME NEW o \in CPUs, Adding(handler'[o], k, f)
      PROVE  handler'[o].reg = tbi'[k][f]
  BY <1>3, <1>4, <1>6 DEF AirBooked
<1>7. Quiet' => tbi'[k][f] = owed'[k][f]
  BY <1>2 DEF AirBooked
<1> QED
  BY <1>5, <1>6, <1>7 DEF AirBooked, AirLeft, Pending, Adding

IdleKept(k) == /\ Quiet => IdleBooked(Off, k)
               /\ \A c \in CPUs : Updating(c) => IdleBooked(handler[c], k)

LEMMA IdleAside ==
  ASSUME TypeOK, NEW c \in CPUs, Others(c), ~Updating(c), ~Updating(c)',
         UNCHANGED <<tbi, last_jiffies, jiffies, lost>>, NEW k \in Terminals, IdleKept(k)
  PROVE  IdleKept(k)'
<1>1. \A o \in CPUs : Updating(o)' = Updating(o)
  BY DEF Others, Updating
<1>2. Quiet' = Quiet
  BY <1>1 DEF Quiet
<1>3. IdleBooked(Off, k) => IdleBooked(Off, k)'
  BY DEF IdleBooked, Off
<1>4. ASSUME NEW o \in CPUs, Updating(o)' PROVE IdleBooked(handler[o], k)'
  <2>1. handler'[o] = handler[o] /\ IdleBooked(handler[o], k)
    BY <1>1, <1>4 DEF Others, IdleKept
  <2> QED
    BY <2>1 DEF IdleBooked
<1> QED
  BY <1>2, <1>3, <1>4 DEF IdleKept

\* A step of the only update.
LEMMA AirBefore ==
  ASSUME TypeOK, NEW c \in CPUs, Sole(c), NEW k \in Terminals, NEW f \in AirFields, AirBooked(k, f)
  PROVE  tbi[k][f] + AirLeft(handler[c], k, f) = owed[k][f]
<1>1. CASE Updating(c)
  BY <1>1 DEF AirBooked
<1>2. CASE ~Updating(c)
  <2>1. Quiet
    BY <1>2 DEF Sole, Quiet
  <2>2. AirLeft(handler[c], k, f) = 0
    BY <1>2 DEF AirLeft, Pending, Updating, UpdatePoints
  <2>3. tbi[k][f] \in Nat
    BY DEF TypeOK, Fields, AirFields
  <2> QED
    BY <2>1, <2>2, <2>3 DEF AirBooked
<1> QED
  BY <1>1, <1>2

LEMMA AirAfter ==
  ASSUME TypeOK', NEW c \in CPUs, Sole(c), Others(c), NEW k \in Terminals, NEW f \in AirFields,
         tbi'[k][f] + AirLeft(handler'[c], k, f) = owed'[k][f],
         Adding(handler'[c], k, f) => handler'[c].reg = tbi'[k][f]
  PROVE  AirBooked(k, f)'
<1>1. \A o \in CPUs : Updating(o)' => o = c
  BY DEF Others, Sole, Updating
<1>2. ~Updating(c)' => AirLeft(handler'[c], k, f) = 0
  BY DEF AirLeft, Pending, Updating, UpdatePoints
<1>3. tbi'[k][f] \in Nat
  BY DEF TypeOK, Fields, AirFields
<1>4. \A o \in CPUs : Adding(handler'[o], k, f) => o = c
  BY <1>1 DEF Adding, Updating, UpdatePoints
<1>5. Quiet' => tbi'[k][f] = owed'[k][f]
  BY <1>2, <1>3 DEF Quiet
<1> QED
  BY <1>1, <1>4, <1>5 DEF AirBooked, AirLeft, Pending, Adding

LEMMA IdleBefore ==
  ASSUME NEW c \in CPUs, Sole(c), NEW k \in Terminals, IdleKept(k)
  PROVE  IdleBooked(handler[c], k)
<1>1. CASE Updating(c)
  BY <1>1 DEF IdleKept
<1>2. CASE ~Updating(c)
  BY <1>2 DEF Sole, Quiet, IdleKept, IdleBooked, Off, Updating, UpdatePoints
<1> QED
  BY <1>1, <1>2

LEMMA IdleAfter ==
  ASSUME NEW c \in CPUs, Sole(c), Others(c), NEW k \in Terminals, IdleBooked(handler[c], k)'
  PROVE  IdleKept(k)'
<1>1. \A o \in CPUs : Updating(o)' => o = c
  BY DEF Others, Sole, Updating
<1>2. Quiet' => IdleBooked(Off, k)'
  BY DEF Quiet, Updating, UpdatePoints, IdleBooked, Off
<1> QED
  BY <1>1, <1>2 DEF IdleKept

LEMMA CellType ==
  ASSUME TypeOK, NEW k \in Terminals
  PROVE  /\ k \in Nat /\ jiffies \in Nat /\ last_jiffies \in Nat /\ lost \in Nat
         /\ tbi[k]["t"] \in Nat /\ tbi[k]["b"] \in Nat /\ tbi[k]["i"] \in Nat
         /\ owed[k]["t"] \in Nat /\ owed[k]["b"] \in Nat
         /\ \A f \in AirFields : tbi[k][f] \in Nat /\ owed[k][f] \in Nat
BY DEF TypeOK, Terminals, Fields, AirFields

\* What does not wrap around is added as it is.
LEMMA NoRemainder ==
  ASSUME NEW x \in Nat, x < WORD
  PROVE  x % WORD = x
BY WordAssumption

\* The steps of an update keep its airtime exact.
LEMMA AirUpdate ==
  ASSUME TypeOK, TypeOK', NEW c \in CPUs, Sole(c), FromTheFirst, NoWrap,
         Continue(c), ~Publish(c), ~Rearm(c),
         NEW k \in Terminals, NEW f \in AirFields, AirBooked(k, f)
  PROVE  AirBooked(k, f)'
<1> DEFINE h == handler[c]
           g == handler'[c]
<1>1. tbi[k][f] + AirLeft(h, k, f) = owed[k][f]
  BY AirBefore
<1>2. /\ h.k \in Nat /\ k \in Nat /\ h.time \in Nat /\ h.reg \in Nat
      /\ tbi[k][f] \in Nat /\ owed[k][f] \in Nat
  BY HandlerType, CellType
<1>3. g.src = h.src /\ Others(c) /\ owed' = owed
  BY LoadJiffiesDoes, SubLastDoes, LoadIdleDoes, LoadAirDoes, StoreIdleDoes, StoreAirDoes,
     StampIdleDoes, StampAirDoes DEF Continue, Goes
<1>4. ASSUME tbi'[k][f] = tbi[k][f], AirLeft(g, k, f) = AirLeft(h, k, f),
             g.pc # "store_air"
      PROVE  AirBooked(k, f)'
  BY <1>1, <1>3, <1>4, AirAfter DEF Adding
<1>5. CASE LoadJiffies(c) \/ SubLast(c) \/ LoadIdle(c)
  <2>1. /\ h.pc \in {"load_jiffies", "sub_last", "load_i"}
        /\ g.pc \in {"sub_last", "load_i", "store_i"}
        /\ g.time = h.time /\ tbi' = tbi
    BY <1>5, LoadJiffiesDoes, SubLastDoes, LoadIdleDoes DEF Goes, Keeps
  <2>2. AirLeft(g, k, f) = AirLeft(h, k, f)
    BY <1>3, <2>1 DEF AirLeft, Pending
  <2> QED
    BY <1>4, <2>1, <2>2
<1>6. CASE StoreIdle(c)
  <2>1. /\ h.pc = "store_i" /\ g.pc \in {"load_i", "stamp_idle"} /\ g.time = h.time
        /\ tbi' = [tbi EXCEPT ![h.k]["i"] = Add(h.reg, h.idle)]
    BY <1>6, StoreIdleDoes DEF Goes, Keeps, Loops
  <2>2. AirLeft(g, k, f) = AirLeft(h, k, f)
    BY <1>3, <2>1 DEF AirLeft, Pending
  <2>3. tbi'[k][f] = tbi[k][f]
    BY <2>1, HandlerType DEF TypeOK, AirFields
  <2> QED
    BY <1>4, <2>1, <2>2, <2>3
<1>7. CASE StampIdle(c)
  <2>1. /\ h.pc = "stamp_idle" /\ g.time = h.time /\ g.k = h.k /\ tbi' = tbi
        /\ \/ g.pc = "publish" /\ h.kind = "timer"
           \/ g.pc = "load_air"
    BY <1>7, StampIdleDoes DEF Keeps
  <2>2. h.k = 0
    BY <2>1 DEF FromTheFirst, Loop
  <2>3. CASE g.pc = "load_air"
    <3>1. AirLeft(g, k, f) = AirLeft(h, k, f)
      BY <1>2, <1>3, <2>1, <2>2, <2>3 DEF AirLeft, Pending
    <3> QED
      BY <1>4, <2>1, <2>3, <3>1
  <2>4. CASE g.pc = "publish" /\ h.kind = "timer"
    <3>1. AirLeft(g, k, f) = 0 /\ AirLeft(h, k, f) = 0
      BY <2>4 DEF AirLeft, Pending, FromTheFirst
    <3> QED
      BY <1>4, <2>1, <2>4, <3>1
  <2> QED
    BY <2>1, <2>3, <2>4
<1>8. CASE LoadAir(c)
  <2>1. /\ h.pc = "load_air" /\ g.pc = "store_air" /\ g.time = h.time /\ g.k = h.k
        /\ g.reg = tbi[h.k][Field(h.src, h.k)] /\ tbi' = tbi
    BY <1>8, LoadAirDoes DEF Goes, Keeps
  <2>2. AirLeft(g, k, f) = AirLeft(h, k, f)
    BY <1>2, <1>3, <2>1 DEF AirLeft, Pending
  <2>3. Adding(g, k, f) => g.reg = tbi[k][f]
    BY <1>3, <2>1 DEF Adding
  <2> QED
    BY <1>1, <1>3, <2>1, <2>2, <2>3, AirAfter
<1>9. CASE StoreAir(c)
  <2>1. /\ h.pc = "store_air" /\ g.time = h.time
        /\ tbi' = [tbi EXCEPT ![h.k][Field(h.src, h.k)] = Add(h.reg, h.time)]
        /\ \/ g.pc = "load_air" /\ g.k = h.k + 1
           \/ h.k + 1 >= NumTerminals /\ g.pc = "stamp_air"
    BY <1>9, StoreAirDoes DEF Goes, Keeps, Loops
  <2>2. k < NumTerminals /\ NumTerminals \in Nat
    BY NumTerminalsAssumption DEF Terminals
  <2>3. tbi'[k][f] = IF h.k = k /\ Field(h.src, k) = f THEN Add(h.reg, h.time) ELSE tbi[k][f]
    BY <2>1, HandlerType DEF TypeOK, AirFields
  <2>4. ~Adding(g, k, f)
    BY <2>1 DEF Adding
  <2>5. CASE h.k = k /\ Field(h.src, k) = f
    <3>1. h.reg = tbi[k][f] /\ AirLeft(h, k, f) = h.time
      BY <2>1, <2>5 DEF AirBooked, Adding, AirLeft
    <3>2. h.reg + h.time = owed[k][f] /\ owed[k][f] < WORD
      BY <1>1, <3>1 DEF NoWrap
    <3>3. tbi'[k][f] = owed[k][f]
      BY <1>2, <2>3, <2>5, <3>2, NoRemainder DEF Add
    <3>4. AirLeft(g, k, f) = 0
      BY <1>2, <2>1, <2>5 DEF AirLeft, Pending
    <3> QED
      BY <1>2, <1>3, <2>4, <3>3, <3>4, AirAfter
  <2>6. CASE ~(h.k = k /\ Field(h.src, k) = f)
    <3>1. AirLeft(g, k, f) = AirLeft(h, k, f)
      <4>1. CASE Field(h.src, k) # f
        BY <1>3, <4>1 DEF AirLeft
      <4>2. CASE h.k # k
        <5>1. Pending(g, k) <=> Pending(h, k)
          BY <1>2, <2>1, <2>2, <4>2 DEF Pending
        <5> QED
          BY <1>3, <2>1, <4>2, <5>1 DEF AirLeft
      <4> QED
        BY <2>6, <4>1, <4>2
    <3> QED
      BY <1>4, <2>1, <2>3, <2>6, <3>1
  <2> QED
    BY <2>5, <2>6
<1>10. CASE StampAir(c)
  <2>1. h.pc = "stamp_air" /\ g.pc = "publish" /\ tbi' = tbi
    BY <1>10, StampAirDoes DEF Goes
  <2>2. AirLeft(g, k, f) = 0 /\ AirLeft(h, k, f) = 0
    BY <2>1 DEF AirLeft, Pending
  <2> QED
    BY <1>4, <2>1, <2>2
<1> QED
  BY <1>5, <1>6, <1>7, <1>8, <1>9, <1>10 DEF Continue

\* And its idle time between the last update and the clock.
LEMMA IdleUpdate ==
  ASSUME TypeOK, TypeOK', NEW c \in CPUs, Sole(c), FromTheFirst, NoWrap,
         Continue(c), ~Publish(c), ~Rearm(c),
         \A j \in Terminals : IdleKept(j), NEW k \in Terminals
  PROVE  IdleBooked(handler[c], k)'
<1> DEFINE h == handler[c]
           g == handler'[c]
<1>1. \A j \in Terminals : IdleBooked(h, j)
  BY IdleBefore
<1>2. /\ h.k \in Nat /\ k \in Nat /\ h.idle \in Nat /\ h.reg \in Nat /\ h.stamp \in Nat
      /\ h.k \in Terminals
      /\ jiffies \in Nat /\ last_jiffies \in Nat /\ lost \in Nat /\ tbi[k]["i"] \in Nat
  BY HandlerType, CellType
<1>3. lost' = lost /\ jiffies' = jiffies
  BY LoadJiffiesDoes, SubLastDoes, LoadIdleDoes, LoadAirDoes, StoreIdleDoes, StoreAirDoes,
     StampIdleDoes, StampAirDoes DEF Continue, Goes
<1>4. jiffies < WORD
  BY DEF NoWrap
<1>5. CASE LoadJiffies(c)
  <2>1. h.pc = "load_jiffies" /\ g.pc = "sub_last" /\ g.idle = jiffies
        /\ UNCHANGED <<tbi, last_jiffies>>
    BY <1>5, LoadJiffiesDoes DEF Goes
  <2> QED
    BY <1>1, <1>2, <1>3, <2>1 DEF IdleBooked, UpdatePoints
<1>6. CASE SubLast(c)
  <2>1. h.pc = "sub_last" /\ g.pc = "load_i" /\ g.idle = IdleTime(h.idle, last_jiffies)
        /\ g.k = h.k /\ UNCHANGED <<tbi, last_jiffies>>
    BY <1>6, SubLastDoes DEF Goes, Keeps
  <2>2. /\ tbi[k]["i"] <= last_jiffies /\ last_jiffies <= h.idle /\ h.idle <= jiffies
        /\ tbi[k]["i"] + lost >= last_jiffies + (jiffies - h.idle)
    BY <1>1, <2>1 DEF IdleBooked
  <2>3. g.idle = h.idle - last_jiffies
    <3>1. h.idle - last_jiffies \in Nat /\ h.idle - last_jiffies < WORD
      BY <1>2, <1>4, <2>2, WordAssumption
    <3> QED
      BY <2>1, <3>1, NoRemainder DEF IdleTime
  <2>4. h.k = 0
    BY <2>1 DEF FromTheFirst, Loop
  <2> QED
    BY <1>2, <1>3, <2>1, <2>2, <2>3, <2>4 DEF IdleBooked, UpdatePoints
<1>7. CASE LoadIdle(c)
  <2>1. /\ h.pc = "load_i" /\ g.pc = "store_i" /\ g.idle = h.idle /\ g.k = h.k
        /\ g.reg = tbi[h.k]["i"] /\ UNCHANGED <<tbi, last_jiffies>>
    BY <1>7, LoadIdleDoes DEF Goes, Keeps
  <2> QED
    BY <1>1, <1>2, <1>3, <2>1 DEF IdleBooked, UpdatePoints
<1>8. CASE StoreIdle(c)
  <2>1. /\ h.pc = "store_i" /\ g.idle = h.idle /\ last_jiffies' = last_jiffies
        /\ tbi' = [tbi EXCEPT ![h.k]["i"] = Add(h.reg, h.idle)]
        /\ \/ g.pc = "load_i" /\ g.k = h.k + 1
           \/ h.k + 1 >= NumTerminals /\ g.pc = "stamp_idle" /\ g.stamp = jiffies
    BY <1>8, StoreIdleDoes DEF Goes, Keeps, Loops
  <2>2. k < NumTerminals /\ NumTerminals \in Nat
    BY NumTerminalsAssumption DEF Terminals
  <2>3. /\ last_jiffies + h.idle <= jiffies
        /\ k >= h.k => tbi[k]["i"] <= last_jiffies /\ tbi[k]["i"] + h.idle + lost >= jiffies
        /\ k < h.k => tbi[k]["i"] <= last_jiffies + h.idle /\ tbi[k]["i"] + lost >= jiffies
        /\ k = h.k => h.reg = tbi[k]["i"]
    BY <1>1, <2>1 DEF IdleBooked
  <2>4. tbi'[k]["i"] = IF k = h.k THEN Add(h.reg, h.idle) ELSE tbi[k]["i"]
    BY <1>2, <2>1 DEF TypeOK, Fields
  <2>5. k = h.k => Add(h.reg, h.idle) = tbi[k]["i"] + h.idle
    <3> SUFFICES ASSUME k = h.k PROVE Add(h.reg, h.idle) = tbi[k]["i"] + h.idle
      OBVIOUS
    <3>1. tbi[k]["i"] + h.idle \in Nat /\ tbi[k]["i"] + h.idle < WORD
      BY <1>2, <1>4, <2>3, WordAssumption
    <3>2. h.reg = tbi[k]["i"]
      BY <2>3
    <3> QED
      BY <3>1, <3>2, NoRemainder DEF Add
  <2>6. k <= h.k => tbi'[k]["i"] <= last_jiffies + h.idle /\ tbi'[k]["i"] + lost >= jiffies
    BY <1>2, <2>3, <2>4, <2>5
  <2>7. k > h.k => tbi'[k]["i"] = tbi[k]["i"]
    BY <1>2, <2>4
  <2>8. CASE g.pc = "load_i" /\ g.k = h.k + 1
    BY <1>2, <1>3, <2>1, <2>3, <2>6, <2>7, <2>8 DEF IdleBooked, UpdatePoints
  <2>9. CASE h.k + 1 >= NumTerminals /\ g.pc = "stamp_idle" /\ g.stamp = jiffies
    <3>1. k <= h.k
      BY <1>2, <2>2, <2>9
    <3> QED
      BY <1>2, <1>3, <2>1, <2>3, <2>6, <2>9, <3>1 DEF IdleBooked, UpdatePoints
  <2> QED
    BY <2>1, <2>8, <2>9
<1>9. CASE StampIdle(c)
  <2>1. /\ h.pc = "stamp_idle" /\ tbi' = tbi /\ last_jiffies' \in h.stamp .. jiffies
        /\ \/ g.pc = "publish"
           \/ g.pc = "load_air" /\ g.stamp = jiffies
    BY <1>9, StampIdleDoes DEF Keeps
  <2> QED
    BY <1>1, <1>2, <1>3, <2>1 DEF IdleBooked, UpdatePoints
<1>10. CASE LoadAir(c)
  <2>1. h.pc = "load_air" /\ g.pc = "store_air" /\ g.stamp = h.stamp
        /\ UNCHANGED <<tbi, last_jiffies>>
    BY <1>10, LoadAirDoes DEF Goes, Keeps
  <2> QED
    BY <1>1, <1>2, <1>3, <2>1 DEF IdleBooked, UpdatePoints
<1>11. CASE StoreAir(c)
  <2>1. /\ h.pc = "store_air" /\ g.pc \in {"load_air", "stamp_air"} /\ g.stamp = h.stamp
        /\ tbi' = [tbi EXCEPT ![h.k][Field(h.src, h.k)] = Add(h.reg, h.time)]
        /\ UNCHANGED last_jiffies
    BY <1>11, StoreAirDoes DEF Goes, Keeps, Loops
  <2>2. tbi'[k]["i"] = tbi[k]["i"]
    BY <1>2, <2>1 DEF TypeOK, Field
  <2> QED
    BY <1>1, <1>2, <1>3, <2>1, <2>2 DEF IdleBooked, UpdatePoints
<1>12. CASE StampAir(c)
  <2>1. h.pc = "stamp_air" /\ g.pc = "publish" /\ tbi' = tbi
        /\ last_jiffies' \in h.stamp .. jiffies
    BY <1>12, StampAirDoes DEF Goes
  <2> QED
    BY <1>1, <1>2, <1>3, <2>1 DEF IdleBooked, UpdatePoints
<1> QED
  BY <1>5, <1>6, <1>7, <1>8, <1>9, <1>10, <1>11, <1>12 DEF Continue

LEMMA FirstKept ==
  ASSUME TypeOK, FromTheFirst, NEW c \in CPUs, Others(c),
         handler'[c].pc \notin Loop => handler'[c].k = 0,
         handler'[c].kind = "timer" => handler'[c].time = 0
  PROVE  FromTheFirst'
BY DEF FromTheFirst, Others

\* The invariants of one update at a time, for a step of c.
LEMMA OneKept ==
  ASSUME OneAtATime, NEW c \in CPUs, Others(c), FromTheFirst', ~overlap' => ~overlap,
         ~overlap' /\ Updating(c)' => Updating(c) \/ Sole(c), NoWrap' => NoWrap,
         ~overlap' /\ NoWrap' =>
           /\ \A k \in Terminals, f \in AirFields : AirBooked(k, f)'
           /\ \A k \in Terminals : IdleKept(k)'
  PROVE  OneAtATime'
<1>1. Solo'
  BY SoloKept DEF OneAtATime
<1>2. AirExact'
  BY DEF AirExact
<1>3. IdleExact'
  BY DEF IdleExact, IdleKept
<1> QED
  BY <1>1, <1>2, <1>3 DEF OneAtATime

LEMMA OneContinue ==
  ASSUME TypeOK, TypeOK', OneAtATime, NoWrap' => NoWrap, NEW c \in CPUs, Continue(c)
  PROVE  OneAtATime'
<1>1. CASE Publish(c) \/ Rearm(c)
  <2>1. /\ ~Updating(c) /\ ~Updating(c)' /\ Others(c)
        /\ UNCHANGED <<jiffies, owed, lost, overlap, tbi, last_jiffies>>
    BY <1>1, AfterDoes
  <2>2. FromTheFirst'
    <3>1. handler[c].k = 0
      BY <2>1 DEF OneAtATime, FromTheFirst, Loop, Updating, UpdatePoints
    <3> QED
      BY <1>1, <2>1, <3>1, AfterDoes, FirstKept DEF OneAtATime, FromTheFirst
  <2>3. ASSUME ~overlap', NoWrap'
        PROVE  /\ \A k \in Terminals, f \in AirFields : AirBooked(k, f)'
               /\ \A k \in Terminals : IdleKept(k)'
    BY <2>1, <2>3, AirAside, IdleAside DEF OneAtATime, AirExact, IdleExact, IdleKept
  <2> QED
    BY <2>1, <2>2, <2>3, OneKept
<1>2. CASE ~Publish(c) /\ ~Rearm(c)
  <2>1. Others(c) /\ UNCHANGED overlap /\ Updating(c)
    BY <1>2, LoadJiffiesDoes, SubLastDoes, LoadIdleDoes, LoadAirDoes, StoreIdleDoes,
       StoreAirDoes, StampIdleDoes, StampAirDoes DEF Continue, Goes, Updating, UpdatePoints
  <2>2. FromTheFirst'
    <3>1. handler'[c].kind = "timer" => handler'[c].time = 0
      <4>1. CASE StampAir(c)
        BY <4>1 DEF StampAir, TypeOK, Handlers
      <4>2. CASE ~StampAir(c)
        <5>1. handler'[c].kind = handler[c].kind /\ handler'[c].time = handler[c].time
          BY <1>2, <4>2, LoadJiffiesDoes, SubLastDoes, LoadIdleDoes, LoadAirDoes, StoreIdleDoes,
             StoreAirDoes, StampIdleDoes DEF Continue, Goes, Keeps
        <5> QED
          BY <5>1 DEF OneAtATime, FromTheFirst
      <4> QED
        BY <4>1, <4>2
    <3>2. handler'[c].pc \notin Loop => handler'[c].k = 0
      <4>1. CASE StoreIdle(c) \/ StoreAir(c)
        BY <4>1, StoreIdleDoes, StoreAirDoes DEF Loops, Loop
      <4>2. CASE LoadIdle(c) \/ LoadAir(c)
        BY <4>2, LoadIdleDoes, LoadAirDoes DEF Goes, Loop
      <4>3. CASE LoadJiffies(c) \/ SubLast(c) \/ StampIdle(c) \/ StampAir(c)
        <5>1. handler[c].pc \notin Loop /\ handler'[c].k = handler[c].k
          BY <4>3, LoadJiffiesDoes, SubLastDoes, StampIdleDoes, StampAirDoes DEF Keeps, Loop
        <5> QED
          BY <5>1 DEF OneAtATime, FromTheFirst
      <4> QED
        BY <1>2, <4>1, <4>2, <4>3 DEF Continue
    <3> QED
      BY <2>1, <3>1, <3>2, FirstKept DEF OneAtATime
  <2>3. ASSUME ~overlap', NoWrap'
        PROVE  /\ \A k \in Terminals, f \in AirFields : AirBooked(k, f)'
               /\ \A k \in Terminals : IdleKept(k)'
    <3>1. Sole(c)
      BY <2>1, <2>3 DEF OneAtATime, Solo, Sole
    <3>2. /\ FromTheFirst /\ NoWrap
          /\ \A k \in Terminals, f \in AirFields : AirBooked(k, f)
          /\ \A k \in Terminals : IdleKept(k)
      BY <2>1, <2>3 DEF OneAtATime, AirExact, IdleExact, IdleKept
    <3>3. \A k \in Terminals, f \in AirFields : AirBooked(k, f)'
      BY <1>2, <3>1, <3>2, AirUpdate
    <3>4. \A k \in Terminals : IdleBooked(handler[c], k)'
      BY <1>2, <3>1, <3>2, IdleUpdate
    <3> QED
      BY <2>1, <3>1, <3>3, <3>4, IdleAfter
  <2> QED
    BY <2>1, <2>2, <2>3, OneKept
<1> QED
  BY <1>1, <1>2

LEMMA OneTick ==
  ASSUME TypeOK, TypeOK', OneAtATime, NoWrap' => NoWrap, Tick
  PROVE  OneAtATime'
<1>1. UNCHANGED <<handler, tbi, owed, overlap, last_jiffies>> /\ jiffies' = jiffies + 1
  BY DEF Tick, counted
<1>2. Solo' /\ FromTheFirst'
  BY <1>1 DEF OneAtATime, Solo, FromTheFirst, Updating
<1>3. AirExact'
  BY <1>1 DEF OneAtATime, AirExact, AirBooked, Quiet, Updating
<1>4. IdleExact'
  <2> SUFFICES ASSUME NoWrap', ~overlap', NEW k \in Terminals PROVE IdleKept(k)'
    BY DEF IdleExact, IdleKept
  <2>1. IdleKept(k)
    BY <1>1 DEF OneAtATime, IdleExact, IdleKept
  <2>2. /\ jiffies \in Nat /\ last_jiffies \in Nat /\ lost \in Nat /\ tbi[k]["i"] \in Nat
        /\ k \in Nat
    BY CellType
  <2>3. ASSUME NEW c \in CPUs, Updating(c)' PROVE IdleBooked(handler[c], k)'
    <3>1. Updating(c) /\ handler'[c] = handler[c] /\ IdleBooked(handler[c], k)
      BY <1>1, <2>1, <2>3 DEF Updating, IdleKept
    <3>2. handler[c].idle \in Nat /\ handler[c].stamp \in Nat /\ handler[c].k \in Nat
      BY HandlerType
    <3>3. handler[c].pc # "load_jiffies" => lost' = lost + 1
      BY <3>1 DEF Tick, At
    <3>4. lost' \in {lost, lost + 1}
      BY DEF Tick
    <3>5. CASE handler[c].pc = "load_jiffies"
      BY <1>1, <2>2, <3>1, <3>4, <3>5 DEF IdleBooked, UpdatePoints
    <3>6. CASE handler[c].pc # "load_jiffies"
      <4>1. handler[c].pc \in UpdatePoints \ {"load_jiffies"} /\ lost' = lost + 1
        BY <3>1, <3>3, <3>6 DEF Updating
      <4> QED
        BY <1>1, <2>2, <3>1, <3>2, <4>1 DEF IdleBooked
    <3> QED
      BY <3>5, <3>6
  <2>4. Quiet' => IdleBooked(Off, k)'
    <3>1. Quiet' = Quiet /\ lost' \in {lost, lost + 1}
      BY <1>1 DEF Quiet, Updating, Tick
    <3> QED
      BY <1>1, <2>1, <2>2, <3>1 DEF IdleKept, IdleBooked, Off, UpdatePoints
  <2> QED
    BY <2>3, <2>4 DEF IdleKept
<1> QED
  BY <1>2, <1>3, <1>4 DEF OneAtATime

LEMMA OneEnter ==
  ASSUME TypeOK, TypeOK', OneAtATime, NoWrap' => NoWrap, NEW c \in CPUs,
         \/ TimerFires(c)
         \/ \E src \in Terminals \cup {Other}, d \in Durations : Hook(c, src, d)
  PROVE  OneAtATime'
<1> DEFINE g == handler'[c]
<1>1. CASE \E src \in {Other}, d \in Durations : Hook(c, src, d) /\ src \notin Terminals
  <2>1. PICK src \in {Other}, d \in Durations : Hook(c, src, d) /\ src \notin Terminals
    BY <1>1
  <2>0. src \in Terminals \cup {Other} /\ src \notin Terminals
    BY <2>1
  <2>2. /\ ~Updating(c) /\ ~Updating(c)' /\ Others(c) /\ g.k = 0 /\ g.kind = "hook"
        /\ UNCHANGED <<jiffies, lost, tbi, last_jiffies>>
        /\ ~overlap' => ~overlap
        /\ \A k \in Terminals, f \in AirFields : owed'[k][f] = owed[k][f]
    <3>1. Hook(c, src, d)
      BY <2>1
    <3>2. /\ ~Updating(c) /\ ~Updating(c)' /\ Others(c) /\ g.k = 0 /\ g.kind = "hook"
          /\ UNCHANGED <<jiffies, lost, tbi, last_jiffies>>
      BY <2>0, <3>1, HookDoes
    <3>3. overlap' = (overlap \/ (src \in Terminals /\ \E o \in CPUs \ {c} : Updating(o)))
      BY <2>0, <3>1, HookDoes
    <3>4. \A k \in Terminals, f \in AirFields : owed'[k][f] = owed[k][f]
      BY <2>0, <3>1, HookDoes
    <3> QED
      BY <3>2, <3>3, <3>4
  <2>3. FromTheFirst'
    BY <2>2, FirstKept DEF OneAtATime
  <2>4. ASSUME ~overlap', NoWrap'
        PROVE  /\ \A k \in Terminals, f \in AirFields : AirBooked(k, f)'
               /\ \A k \in Terminals : IdleKept(k)'
    BY <2>2, <2>4, AirAside, IdleAside DEF OneAtATime, AirExact, IdleExact, IdleKept
  <2> QED
    BY <2>2, <2>3, <2>4, OneKept
<1>2. ASSUME NEW d \in Nat, ~Updating(c), Others(c), g.pc = "load_jiffies", g.k = 0,
             g.kind = "timer" => g.time = 0, g.time = d,
             overlap' = (overlap \/ \E o \in CPUs \ {c} : Updating(o)),
             UNCHANGED <<jiffies, lost, tbi, last_jiffies>>,
             \A k \in Terminals, f \in AirFields :
               owed'[k][f] = IF f = Field(g.src, k) THEN owed[k][f] + d ELSE owed[k][f]
      PROVE  OneAtATime'
  <2>1. FromTheFirst'
    BY <1>2, FirstKept DEF OneAtATime
  <2>2. ~overlap' => ~overlap /\ Sole(c)
    BY <1>2 DEF Sole
  <2>3. ASSUME ~overlap', NoWrap', NEW k \in Terminals, NEW f \in AirFields
        PROVE  AirBooked(k, f)'
    <3>1. tbi[k][f] = owed[k][f]
      <4>1. Quiet
        BY <1>2, <2>2, <2>3 DEF Sole, Quiet
      <4> QED
        BY <2>2, <2>3, <4>1 DEF OneAtATime, AirExact, AirBooked
    <3>2. AirLeft(g, k, f) = IF f = Field(g.src, k) THEN d ELSE 0
      BY <1>2 DEF AirLeft, Pending
    <3>3. tbi'[k][f] + AirLeft(g, k, f) = owed'[k][f]
      BY <1>2, <3>1, <3>2, CellType
    <3>4. ~Adding(g, k, f)
      BY <1>2 DEF Adding
    <3> QED
      BY <1>2, <2>2, <2>3, <3>3, <3>4, AirAfter
  <2>4. ASSUME ~overlap', NoWrap', NEW k \in Terminals PROVE IdleKept(k)'
    <3>1. IdleBooked(handler[c], k)
      BY <2>2, <2>4, IdleBefore DEF OneAtATime, IdleExact, IdleKept
    <3>2. IdleBooked(handler[c], k)'
      BY <1>2, <3>1 DEF IdleBooked, Updating, UpdatePoints
    <3> QED
      BY <1>2, <2>2, <2>4, <3>2, IdleAfter
  <2> QED
    BY <1>2, <2>1, <2>2, <2>3, <2>4, OneKept
<1>3. ASSUME NEW src \in Terminals, NEW d \in Durations, Hook(c, src, d)
      PROVE  OneAtATime'
  <2>1. d \in Nat /\ src \in Terminals \cup {Other}
    BY DurationsAssumption
  <2> QED
    BY <1>2, <1>3, <2>1, HookDoes
<1>4. CASE TimerFires(c)
  <2>1. \A k \in Terminals, f \in AirFields : owed[k][f] + 0 = owed[k][f]
    BY CellType
  <2> QED
    BY <1>2, <1>4, <2>1, TimerDoes
<1>5. Other \notin Terminals
  BY NumTerminalsAssumption DEF Other, Terminals
<1> QED
  BY <1>1, <1>3, <1>4, <1>5

LEMMA OneStep == TypeOK /\ TypeOK' /\ OneAtATime /\ [Next]_vars => OneAtATime'
<1> SUFFICES ASSUME TypeOK, TypeOK', OneAtATime, [Next]_vars PROVE OneAtATime'
  OBVIOUS
<1>1. NoWrap' => NoWrap
  BY NoWrapBack
<1>2. ASSUME UNCHANGED <<handler, tbi, owed, overlap, last_jiffies, jiffies, lost>>
      PROVE  OneAtATime'
  BY <1>2 DEF OneAtATime, Solo, FromTheFirst, AirExact, AirBooked, IdleExact, IdleBooked, NoWrap,
              Quiet, Updating
<1>3. CASE Exit
  BY <1>2, <1>3 DEF Exit, DelTimer, RemoveProc, UnregisterHook, FreeModule, counted, history
<1>4. CASE UNCHANGED vars
  BY <1>2, <1>4 DEF vars, kernel, counted, history
<1> QED
  BY <1>1, <1>3, <1>4, OneTick, OneEnter, OneContinue DEF Next

\* Every packet is owed once at every terminal.
OwedEverywhere ==
  \A j, k \in Terminals : owed[j]["t"] + owed[j]["b"] = owed[k]["t"] + owed[k]["b"]

LEMMA OwedInit == Init => OwedEverywhere
BY DEF Init, OwedEverywhere, Fields

LEMMA OwedStep == TypeOK /\ TypeOK' /\ OwedEverywhere /\ [Next]_vars => OwedEverywhere'
<1> SUFFICES ASSUME TypeOK, TypeOK', OwedEverywhere, [Next]_vars PROVE OwedEverywhere'
  OBVIOUS
<1>1. ASSUME UNCHANGED owed PROVE OwedEverywhere'
  BY <1>1 DEF OwedEverywhere
<1>2. ASSUME NEW c \in CPUs, NEW src \in Terminals \cup {Other}, NEW d \in Durations,
             Hook(c, src, d)
      PROVE  OwedEverywhere'
  <2>1. \A k \in Terminals, f \in AirFields :
          owed'[k][f] = IF src \in Terminals /\ f = Field(src, k) THEN owed[k][f] + d
                        ELSE owed[k][f]
    BY <1>2, HookDoes
  <2>2. d \in Nat
    BY DurationsAssumption
  <2>3. CASE src \notin Terminals
    <3>1. \A k \in Terminals : owed'[k]["t"] = owed[k]["t"] /\ owed'[k]["b"] = owed[k]["b"]
      BY <2>1, <2>3 DEF AirFields
    <3> QED
      BY <3>1 DEF OwedEverywhere
  <2>4. CASE src \in Terminals
    <3>1. ASSUME NEW k \in Terminals
          PROVE  owed'[k]["t"] + owed'[k]["b"] = owed[k]["t"] + owed[k]["b"] + d
      <4>1. owed[k]["t"] \in Nat /\ owed[k]["b"] \in Nat
        BY CellType
      <4>2. CASE k = src
        BY <2>1, <2>2, <2>4, <4>1, <4>2 DEF AirFields, Field
      <4>3. CASE k # src
        BY <2>1, <2>2, <2>4, <4>1, <4>3 DEF AirFields, Field
      <4> QED
        BY <4>2, <4>3
    <3> QED
      BY <3>1 DEF OwedEverywhere
  <2> QED
    BY <2>3, <2>4
<1>3. ASSUME NEW c \in CPUs, Continue(c) PROVE OwedEverywhere'
  <2>1. UNCHANGED owed
    BY <1>3 DEF Continue, LoadJiffies, SubLast, LoadIdle, StoreIdle, StampIdle, LoadAir,
                StoreAir, StampAir, Publish, Rearm, history
  <2> QED
    BY <1>1, <2>1
<1>4. CASE \/ Tick
           \/ \E c \in CPUs : TimerFires(c)
           \/ Exit
           \/ UNCHANGED vars
  BY <1>1, <1>4 DEF Tick, TimerFires, Exit, DelTimer, RemoveProc, UnregisterHook, FreeModule,
                    vars, history
<1> QED
  BY <1>2, <1>3, <1>4 DEF Next

\* As long as no two updates have overlapped and no counter has wrapped around, what one
\* terminal sent is what all the others waited: whenever no update is in progress every
\* counter is exactly what the packets account for.
THEOREM AirtimeExact == Spec => [](NoWrap => AirtimeConserved)
<1>1. TypeOK /\ OneAtATime /\ OwedEverywhere => (NoWrap => AirtimeConserved)
  <2> SUFFICES ASSUME TypeOK, OneAtATime, OwedEverywhere, NoWrap, Quiet, ~overlap,
                      NEW j \in Terminals, NEW k \in Terminals
               PROVE  tbi[j]["t"] + tbi[j]["b"] = tbi[k]["t"] + tbi[k]["b"]
    BY DEF AirtimeConserved
  <2>1. \A l \in Terminals, f \in AirFields : tbi[l][f] = owed[l][f]
    BY DEF OneAtATime, AirExact, AirBooked
  <2> QED
    BY <2>1 DEF OwedEverywhere, AirFields
<1> QED
  BY <1>1, TypeInit, TypeStep, OneInit, OneStep, OwedInit, OwedStep, PTL DEF Spec

\* As long as no two updates have overlapped and no counter has wrapped around, no tick
\* is counted twice as idle time and none is lost outside the updates.
THEOREM IdleTimeKept == Spec => [](NoWrap => IdleTimeExact)
<1>1. TypeOK /\ OneAtATime => (NoWrap => IdleTimeExact)
  <2> SUFFICES ASSUME TypeOK, OneAtATime, NoWrap, Quiet, ~overlap, NEW k \in Terminals
               PROVE  tbi[k]["i"] <= last_jiffies /\ tbi[k]["i"] >= last_jiffies - lost
    BY DEF IdleTimeExact
  <2>1. IdleBooked(Off, k)
    BY DEF OneAtATime, IdleExact
  <2>2. tbi[k]["i"] <= last_jiffies /\ tbi[k]["i"] + lost >= last_jiffies
    BY <2>1 DEF IdleBooked, Off, UpdatePoints
  <2> QED
    BY <2>2, CellType
<1> QED
  BY <1>1, TypeInit, TypeStep, OneInit, OneStep, PTL DEF Spec

\* What is shown goes up, or stays.
Rising == /\ last_jiffies' >= last_jiffies
          /\ \A k \in Terminals, f \in Fields : tbi'[k][f] >= tbi[k][f]

LEMMA RisingContinue ==
  ASSUME TypeOK, TypeOK', OneAtATime, NoWrap, NEW c \in CPUs, Continue(c), ~overlap'
  PROVE  Rising
<1> DEFINE h == handler[c]
<1>1. /\ last_jiffies \in Nat /\ jiffies \in Nat /\ h.k \in Terminals /\ h.stamp \in Nat
      /\ h.reg \in Nat /\ h.idle \in Nat /\ h.time \in Nat /\ tbi \in [Terminals -> [Fields -> Nat]]
  BY HandlerType, CellType DEF TypeOK
<1>2. ASSUME UNCHANGED <<tbi, last_jiffies>> PROVE Rising
  BY <1>1, <1>2 DEF Rising
<1>3. CASE Publish(c) \/ Rearm(c)
  BY <1>2, <1>3, AfterDoes
<1>4. CASE LoadJiffies(c) \/ SubLast(c) \/ LoadIdle(c) \/ LoadAir(c)
  BY <1>2, <1>4, LoadJiffiesDoes, SubLastDoes, LoadIdleDoes, LoadAirDoes
<1>5. ASSUME StoreIdle(c) \/ StoreAir(c) \/ StampIdle(c) \/ StampAir(c)
      PROVE  /\ \A k \in Terminals, f \in AirFields : AirBooked(k, f)
             /\ \A k \in Terminals : IdleBooked(h, k)
             /\ Updating(c)
  <2>1. overlap' = overlap /\ Updating(c)
    BY <1>5, StoreIdleDoes, StoreAirDoes, StampIdleDoes, StampAirDoes
       DEF Goes, Updating, UpdatePoints
  <2> QED
    BY <2>1 DEF OneAtATime, AirExact, IdleExact
<1>6. CASE StoreIdle(c)
  <2>1. /\ h.pc = "store_i" /\ last_jiffies' = last_jiffies
        /\ tbi' = [tbi EXCEPT ![h.k]["i"] = Add(h.reg, h.idle)]
    BY <1>6, StoreIdleDoes
  <2>2. h.reg = tbi[h.k]["i"] /\ h.reg + h.idle <= jiffies
    BY <1>1, <1>5, <1>6, <2>1, CellType DEF IdleBooked
  <2>3. Add(h.reg, h.idle) >= tbi[h.k]["i"]
    <3>1. h.reg + h.idle \in Nat /\ h.reg + h.idle < WORD
      BY <1>1, <2>2, WordAssumption DEF NoWrap
    <3> QED
      BY <1>1, <2>2, <3>1, NoRemainder DEF Add
  <2> QED
    BY <1>1, <2>1, <2>3 DEF Rising
<1>7. CASE StoreAir(c)
  <2> DEFINE f == Field(h.src, h.k)
  <2>1. /\ h.pc = "store_air" /\ last_jiffies' = last_jiffies
        /\ tbi' = [tbi EXCEPT ![h.k][f] = Add(h.reg, h.time)]
    BY <1>7, StoreAirDoes
  <2>2. f \in AirFields /\ f \in Fields
    BY DEF Field, AirFields, Fields
  <2>3. h.reg = tbi[h.k][f] /\ AirLeft(h, h.k, f) = h.time
    BY <1>1, <1>5, <1>7, <2>1, <2>2 DEF AirBooked, Adding, AirLeft
  <2>4. h.reg + h.time = owed[h.k][f] /\ owed[h.k][f] < WORD
    BY <1>1, <1>5, <1>7, <2>2, <2>3 DEF AirBooked, NoWrap
  <2> HIDE DEF f
  <2>5. Add(h.reg, h.time) >= tbi[h.k][f]
    <3>1. h.reg + h.time \in Nat /\ h.reg + h.time < WORD
      BY <1>1, <2>4
    <3> QED
      BY <1>1, <2>3, <3>1, NoRemainder DEF Add
  <2> QED
    BY <1>1, <2>1, <2>2, <2>5 DEF Rising
<1>8. CASE StampIdle(c) \/ StampAir(c)
  <2>1. h.pc \in {"stamp_idle", "stamp_air"} /\ tbi' = tbi /\ last_jiffies' \in h.stamp .. jiffies
    BY <1>8, StampIdleDoes, StampAirDoes
  <2>2. PICK k \in Terminals : TRUE
    BY <1>1
  <2>3. last_jiffies <= h.stamp
    BY <1>1, <1>5, <1>8, <2>1, <2>2 DEF IdleBooked
  <2> QED
    BY <1>1, <2>1, <2>3 DEF Rising
<1> QED
  BY <1>3, <1>4, <1>6, <1>7, <1>8 DEF Continue

LEMMA RisingStep ==
  TypeOK /\ TypeOK' /\ OneAtATime /\ NoWrap /\ [Next]_vars => (~overlap' => Rising)
<1> SUFFICES ASSUME TypeOK, TypeOK', OneAtATime, NoWrap, [Next]_vars, ~overlap' PROVE Rising
  OBVIOUS
<1>1. ASSUME UNCHANGED <<tbi, last_jiffies>> PROVE Rising
  BY <1>1 DEF Rising, TypeOK
<1>2. CASE \E c \in CPUs : Continue(c)
  BY <1>2, RisingContinue
<1>3. CASE ~\E c \in CPUs : Continue(c)
  BY <1>1, <1>3 DEF Next, Tick, Hook, TimerFires, Exit, DelTimer, RemoveProc, UnregisterHook,
                    FreeModule, vars, counted
<1> QED
  BY <1>2, <1>3

\* As long as no two updates overlap and no counter wraps around, no step makes a counter
\* of /proc/tbi or last_jiffies go back, so that no difference of two readings is negative.
THEOREM NothingGoesBack == Spec /\ []NoWrap => MonotoneUnlessOverlap
<1>1. TypeOK /\ TypeOK' /\ OneAtATime /\ NoWrap /\ [Next]_vars
      => [~overlap' => Rising]_vars
  BY RisingStep
<1>2. Spec => []TypeOK
  BY TypeCorrect
<1>3. Spec => []OneAtATime
  BY TypeInit, TypeStep, OneInit, OneStep, PTL DEF Spec
<1>4. Spec /\ []NoWrap => [][~overlap' => Rising]_vars
  BY <1>1, <1>2, <1>3, PTL DEF Spec
<1> QED
  BY <1>4 DEF MonotoneUnlessOverlap, Rising

-----------------------------------------------------------------------------
(* The refinement: HubTbi implements TbiLedger as long as no two updates   *)
(* have overlapped and the clock has not wrapped around, on any number of  *)
(* CPUs; and on one CPU no two updates ever overlap.  The counters may     *)
(* wrap around.                                                            *)

\* The states about which the refinement speaks.
Orderly == ~overlap /\ jiffies < WORD

\* The registers of the update of h: what it has read is still so, what it has to
\* add fits between last_jiffies and the clock, and the airtime is that of a packet.
Registers(h) ==
  /\ \/ h.time = 0 /\ h.src = Other
     \/ h.time \in Durations /\ h.src \in Terminals
  /\ h.pc = "sub_last" => last_jiffies <= h.idle /\ h.idle <= jiffies
  /\ h.pc \in {"load_i", "store_i"} => last_jiffies + h.idle <= jiffies
  /\ h.pc = "stamp_idle" => last_jiffies + h.idle <= h.stamp /\ h.stamp <= jiffies
  /\ h.pc \in {"load_air", "store_air", "stamp_air"} =>
       last_jiffies <= h.stamp /\ h.stamp <= jiffies
  /\ h.pc = "store_i" => h.reg = tbi[h.k]["i"]
  /\ h.pc = "store_air" => h.reg = tbi[h.k][Field(h.src, h.k)]

BooksInv ==
  Orderly => /\ \A k \in Terminals, f \in Fields : tbi[k][f] < WORD
             /\ last_jiffies <= jiffies
             /\ \A c \in CPUs : Updating(c) => Registers(handler[c])

LEMMA BooksInit == Init => BooksInv
BY WordAssumption DEF Init, BooksInv, Fields, Updating, UpdatePoints, Off

\* Neither the clock nor the history of overlaps goes back.
LEMMA OrderlyBack ==
  ASSUME TypeOK, TypeOK', [Next]_vars, Orderly'
  PROVE  Orderly
<1>1. ASSUME UNCHANGED <<jiffies, overlap>> PROVE Orderly
  BY <1>1 DEF Orderly
<1>2. CASE Tick
  BY <1>2, WordAssumption DEF Tick, Orderly, TypeOK
<1>3. ASSUME NEW c \in CPUs, NEW src \in Terminals \cup {Other}, NEW d \in Durations, Hook(c, src, d)
      PROVE  Orderly
  <2>1. jiffies' = jiffies
    BY <1>3, HookDoes
  <2>2. overlap' = (overlap \/ (src \in Terminals /\ \E o \in CPUs \ {c} : Updating(o)))
    BY <1>3, HookDoes
  <2> QED
    BY <2>1, <2>2 DEF Orderly
<1>4. ASSUME NEW c \in CPUs, TimerFires(c) PROVE Orderly
  <2>1. jiffies' = jiffies
    BY <1>4, TimerDoes
  <2>2. overlap' = (overlap \/ \E o \in CPUs \ {c} : Updating(o))
    BY <1>4, TimerDoes
  <2> QED
    BY <2>1, <2>2 DEF Orderly
<1>5. ASSUME NEW c \in CPUs, Continue(c) PROVE Orderly
  <2>1. UNCHANGED <<jiffies, overlap>>
    BY <1>5 DEF Continue, LoadJiffies, SubLast, LoadIdle, StoreIdle, StampIdle, LoadAir,
                StoreAir, StampAir, Publish, Rearm, kernel, history
  <2> QED
    BY <1>1, <2>1
<1>6. CASE Exit
  BY <1>1, <1>6 DEF Exit, DelTimer, RemoveProc, UnregisterHook, FreeModule, history
<1>7. CASE UNCHANGED vars
  BY <1>1, <1>7 DEF vars, kernel, history
<1> QED
  BY <1>2, <1>3, <1>4, <1>5, <1>6, <1>7 DEF Next

\* One addition keeps the counters below WORD.
LEMMA AddFits ==
  ASSUME NEW x \in Nat, NEW y \in Nat
  PROVE  Add(x, y) \in Nat /\ Add(x, y) < WORD
BY WordAssumption DEF Add

\* A step of c, the others not being in an update, keeps the registers.
LEMMA BooksKept ==
  ASSUME BooksInv, Orderly, NEW c \in CPUs, Sole(c), Others(c),
         \A k \in Terminals, f \in Fields : tbi'[k][f] < WORD, last_jiffies' <= jiffies',
         Updating(c)' => Registers(handler[c])'
  PROVE  BooksInv'
<1>1. \A o \in CPUs : Updating(o)' => o = c
  BY DEF Others, Sole, Updating
<1> QED
  BY <1>1 DEF BooksInv

LEMMA BooksContinue ==
  ASSUME TypeOK, TypeOK', OneAtATime, BooksInv, Orderly, NEW c \in CPUs, Continue(c)
  PROVE  BooksInv'
<1> DEFINE h == handler[c]
           g == handler'[c]
<1>1. /\ last_jiffies <= jiffies /\ \A k \in Terminals, f \in Fields : tbi[k][f] < WORD
      /\ Updating(c) => Registers(h)
  BY DEF BooksInv
<1>2. /\ last_jiffies \in Nat /\ jiffies \in Nat /\ h.k \in Terminals /\ h.stamp \in Nat
      /\ h.reg \in Nat /\ h.idle \in Nat /\ h.time \in Nat /\ tbi \in [Terminals -> [Fields -> Nat]]
      /\ g.reg \in Nat /\ g.stamp \in Nat /\ g.idle \in Nat /\ g.k \in Terminals
      /\ last_jiffies' \in Nat
  BY HandlerType, CellType DEF TypeOK, Handlers
<1>3. CASE Publish(c) \/ Rearm(c)
  <2>1. /\ ~Updating(c)' /\ Others(c) /\ UNCHANGED <<jiffies, tbi, last_jiffies, overlap>>
    BY <1>3, AfterDoes
  <2>2. \A o \in CPUs : Updating(o)' => Updating(o) /\ handler'[o] = handler[o]
    BY <2>1 DEF Others, Updating
  <2> QED
    BY <2>1, <2>2 DEF BooksInv, Registers, Orderly
<1>4. CASE ~Publish(c) /\ ~Rearm(c)
  <2>1. /\ Others(c) /\ Updating(c) /\ jiffies' = jiffies /\ g.src = h.src
    BY <1>4, LoadJiffiesDoes, SubLastDoes, LoadIdleDoes, LoadAirDoes, StoreIdleDoes,
       StoreAirDoes, StampIdleDoes, StampAirDoes DEF Continue, Goes, Updating, UpdatePoints
  <2>2. Sole(c)
    BY <2>1 DEF OneAtATime, Solo, Sole, Orderly
  <2>3. Registers(h)
    BY <1>1, <2>1
  <2>4. \/ h.time = 0 /\ h.src = Other
        \/ h.time \in Durations /\ h.src \in Terminals
    BY <2>3 DEF Registers
  <2>5. ASSUME Updating(c)' => Registers(h)', UNCHANGED tbi, last_jiffies' <= jiffies
        PROVE  BooksInv'
    BY <1>1, <2>1, <2>2, <2>5, BooksKept
  <2>6. CASE LoadJiffies(c)
    <3>1. /\ g.pc = "sub_last" /\ g.time = h.time /\ g.idle = jiffies
          /\ UNCHANGED <<tbi, last_jiffies>>
      BY <2>6, LoadJiffiesDoes DEF Goes, Keeps
    <3> QED
      BY <1>1, <1>2, <2>1, <2>4, <2>5, <3>1 DEF Registers
  <2>7. CASE SubLast(c)
    <3>1. /\ h.pc = "sub_last" /\ g.pc = "load_i" /\ g.time = h.time
          /\ g.idle = IdleTime(h.idle, last_jiffies) /\ UNCHANGED <<tbi, last_jiffies>>
      BY <2>7, SubLastDoes DEF Goes, Keeps
    <3>2. h.idle - last_jiffies \in Nat /\ h.idle - last_jiffies < WORD /\ h.idle <= jiffies
      BY <1>2, <2>3, <3>1, WordAssumption DEF Registers, Orderly
    <3>3. g.idle = h.idle - last_jiffies
      BY <3>1, <3>2, NoRemainder DEF IdleTime
    <3> QED
      BY <1>1, <1>2, <2>1, <2>4, <2>5, <3>1, <3>2, <3>3 DEF Registers
  <2>8. CASE LoadIdle(c)
    <3>1. /\ h.pc = "load_i" /\ g.pc = "store_i" /\ g.time = h.time /\ g.idle = h.idle
          /\ g.k = h.k /\ g.reg = tbi[h.k]["i"] /\ UNCHANGED <<tbi, last_jiffies>>
      BY <2>8, LoadIdleDoes DEF Goes, Keeps
    <3> QED
      BY <1>1, <1>2, <2>1, <2>3, <2>5, <3>1 DEF Registers
  <2>9. CASE StoreIdle(c)
    <3>1. /\ h.pc = "store_i" /\ g.time = h.time /\ g.idle = h.idle /\ UNCHANGED last_jiffies
          /\ tbi' = [tbi EXCEPT ![h.k]["i"] = Add(h.reg, h.idle)]
          /\ \/ g.pc = "load_i"
             \/ g.pc = "stamp_idle" /\ g.stamp = jiffies
      BY <2>9, StoreIdleDoes DEF Goes, Keeps, Loops
    <3>2. \A k \in Terminals, f \in Fields : tbi'[k][f] < WORD
      BY <1>1, <1>2, <3>1, AddFits
    <3>3. Registers(h)'
      BY <1>2, <2>1, <2>3, <3>1 DEF Registers
    <3> QED
      BY <1>1, <2>1, <2>2, <3>1, <3>2, <3>3, BooksKept
  <2>10. CASE StampIdle(c)
    <3>1. /\ h.pc = "stamp_idle" /\ g.time = h.time /\ tbi' = tbi
          /\ last_jiffies' \in h.stamp .. jiffies
          /\ \/ g.pc = "publish"
             \/ g.pc = "load_air" /\ g.stamp = jiffies
      BY <2>10, StampIdleDoes DEF Keeps
    <3>2. Updating(c)' => Registers(h)'
      BY <1>2, <2>1, <2>4, <3>1 DEF Registers, Updating, UpdatePoints
    <3> QED
      BY <1>2, <2>5, <3>1, <3>2
  <2>11. CASE LoadAir(c)
    <3>1. /\ h.pc = "load_air" /\ g.pc = "store_air" /\ g.time = h.time /\ g.stamp = h.stamp
          /\ g.k = h.k /\ g.reg = tbi[h.k][Field(h.src, h.k)] /\ UNCHANGED <<tbi, last_jiffies>>
      BY <2>11, LoadAirDoes DEF Goes, Keeps
    <3> QED
      BY <1>1, <1>2, <2>1, <2>3, <2>5, <3>1 DEF Registers
  <2>12. CASE StoreAir(c)
    <3>1. /\ h.pc = "store_air" /\ g.time = h.time /\ g.stamp = h.stamp /\ UNCHANGED last_jiffies
          /\ tbi' = [tbi EXCEPT ![h.k][Field(h.src, h.k)] = Add(h.reg, h.time)]
          /\ g.pc \in {"load_air", "stamp_air"}
      BY <2>12, StoreAirDoes DEF Goes, Keeps, Loops
    <3>2. \A k \in Terminals, f \in Fields : tbi'[k][f] < WORD
      BY <1>1, <1>2, <3>1, AddFits
    <3>3. Registers(h)'
      BY <1>2, <2>1, <2>3, <3>1 DEF Registers
    <3> QED
      BY <1>1, <2>1, <2>2, <3>1, <3>2, <3>3, BooksKept
  <2>13. CASE StampAir(c)
    <3>1. g.pc = "publish" /\ tbi' = tbi /\ last_jiffies' \in h.stamp .. jiffies
      BY <2>13, StampAirDoes DEF Goes
    <3> QED
      BY <1>2, <2>5, <3>1 DEF Updating, UpdatePoints
  <2> QED
    BY <1>4, <2>6, <2>7, <2>8, <2>9, <2>10, <2>11, <2>12, <2>13 DEF Continue
<1> QED
  BY <1>3, <1>4
LEMMA BooksEnter ==
  ASSUME TypeOK, TypeOK', BooksInv, Orderly, Orderly', NEW c \in CPUs,
         \/ TimerFires(c)
         \/ \E src \in Terminals \cup {Other}, d \in Durations : Hook(c, src, d)
  PROVE  BooksInv'
<1> DEFINE h == handler[c]
           g == handler'[c]
<1>1. \A k \in Terminals, f \in Fields : tbi[k][f] < WORD
  BY DEF BooksInv
<1>2. ASSUME Sole(c), Others(c), UNCHANGED <<jiffies, tbi, last_jiffies>>,
             Updating(c)' => \/ g.time = 0 /\ g.src = Other
                             \/ g.time \in Durations /\ g.src \in Terminals,
             g.pc \notin UpdatePoints \ {"load_jiffies"}
      PROVE  BooksInv'
  <2>1. Updating(c)' => Registers(h)'
    BY <1>2 DEF Registers, UpdatePoints
  <2> QED
    BY <1>1, <1>2, <2>1, BooksKept DEF BooksInv
<1>3. CASE TimerFires(c)
  <2>1. /\ Others(c) /\ UNCHANGED <<jiffies, tbi, last_jiffies>>
        /\ g.pc = "load_jiffies" /\ g.time = 0 /\ g.src = Other
    BY <1>3, TimerDoes
  <2>2. Sole(c)
    BY <1>3, TimerDoes DEF Orderly, Sole
  <2> QED
    BY <1>2, <2>1, <2>2
<1>4. ASSUME NEW src \in Terminals, NEW d \in Durations, Hook(c, src, d)
      PROVE  BooksInv'
  <2>1. /\ Others(c) /\ UNCHANGED <<jiffies, tbi, last_jiffies>>
        /\ g.pc = "load_jiffies" /\ g.time = d /\ g.src = src
    BY <1>4, HookDoes
  <2>2. overlap' = (overlap \/ (src \in Terminals /\ \E o \in CPUs \ {c} : Updating(o)))
    BY <1>4, HookDoes
  <2>3. Sole(c)
    BY <2>2 DEF Orderly, Sole
  <2> QED
    BY <1>2, <1>4, <2>1, <2>3
<1>5. ASSUME NEW src \in {Other}, NEW d \in Durations, Hook(c, src, d), src \notin Terminals
      PROVE  BooksInv'
  <2>1. /\ Others(c) /\ UNCHANGED <<jiffies, tbi, last_jiffies>> /\ ~Updating(c)'
    BY <1>5, HookDoes
  <2>2. \A o \in CPUs : Updating(o)' => Updating(o) /\ handler'[o] = handler[o]
    BY <2>1 DEF Others, Updating
  <2> QED
    BY <2>1, <2>2 DEF BooksInv, Registers, Orderly
<1>6. Other \notin Terminals
  BY NumTerminalsAssumption DEF Other, Terminals
<1> QED
  BY <1>3, <1>4, <1>5, <1>6

LEMMA BooksStep == TypeOK /\ TypeOK' /\ OneAtATime /\ BooksInv /\ [Next]_vars => BooksInv'
<1> SUFFICES ASSUME TypeOK, TypeOK', OneAtATime, BooksInv, [Next]_vars, Orderly' PROVE BooksInv'
  BY DEF BooksInv
<1>1. Orderly
  BY OrderlyBack
<1>2. CASE Tick
  <2>1. jiffies' = jiffies + 1 /\ UNCHANGED <<last_jiffies, tbi, handler>>
    BY <1>2 DEF Tick, counted
  <2>2. \A k \in Terminals, f \in Fields : tbi'[k][f] < WORD
    BY <1>1, <2>1 DEF BooksInv
  <2>3. last_jiffies' <= jiffies' /\ jiffies \in Nat
    BY <1>1, <2>1, CellType DEF BooksInv, TypeOK
  <2>4. ASSUME NEW c \in CPUs, Updating(c)' PROVE Registers(handler[c])'
    <3>1. Updating(c) /\ handler'[c] = handler[c] /\ Registers(handler[c])
      BY <1>1, <2>1, <2>4 DEF BooksInv, Updating
    <3>2. handler[c].idle \in Nat /\ handler[c].stamp \in Nat /\ last_jiffies \in Nat
      BY HandlerType DEF TypeOK
    <3> QED
      BY <2>1, <2>3, <3>1, <3>2 DEF Registers
  <2> QED
    BY <2>2, <2>3, <2>4 DEF BooksInv
<1>3. CASE Exit \/ UNCHANGED vars
  <2>1. UNCHANGED <<jiffies, last_jiffies, tbi, handler, overlap>>
    BY <1>3 DEF Exit, DelTimer, RemoveProc, UnregisterHook, FreeModule, vars, kernel, counted,
                history
  <2> QED
    BY <2>1 DEF BooksInv, Registers, Updating, Orderly
<1> QED
  BY <1>1, <1>2, <1>3, BooksEnter, BooksContinue DEF Next

-----------------------------------------------------------------------------
(***************************************************************************)
(* The refinement mapping, as the step of one handler sees it.             *)
(***************************************************************************)

\* The handler of c as the refinement mapping sees it when the others do not update.
Seen(c) == IF Updating(c) THEN handler[c] ELSE Off

LEMMA CurrentBefore ==
  ASSUME NEW c \in CPUs, Sole(c)
  PROVE  Current = Seen(c)
<1>1. CASE Updating(c)
  <2>1. \A d \in CPUs : Updating(d) <=> d = c
    BY <1>1 DEF Sole
  <2>2. (CHOOSE d \in CPUs : Updating(d)) = c
    BY <2>1
  <2> QED
    BY <1>1, <2>2 DEF Current, Seen
<1>2. CASE ~Updating(c)
  BY <1>2 DEF Current, Seen, Sole
<1> QED
  BY <1>1, <1>2

LEMMA CurrentAfter ==
  ASSUME NEW c \in CPUs, Sole(c), Others(c)
  PROVE  Current' = Seen(c)'
<1>0. \A d \in CPUs : Updating(d)' => d = c
  BY DEF Others, Sole, Updating
<1>1. CASE Updating(c)'
  <2>1. \A d \in CPUs : Updating(d)' <=> d = c
    BY <1>0, <1>1
  <2>2. (CHOOSE d \in CPUs : Updating(d)') = c
    BY <2>1
  <2>3. (CHOOSE d \in CPUs : Updating(d))' = c
    BY <2>2
  <2> QED
    BY <1>1, <2>3 DEF Current, Seen
<1>2. CASE ~Updating(c)'
  BY <1>0, <1>2 DEF Current, Seen
<1> QED
  BY <1>1, <1>2

Open(h) == h.pc \in UpdatePoints \ {"load_jiffies"}

\* What the handler Current is still to add to tbi[k][f].
Ahead(k, f) == IF f = "i" THEN IdleAhead(Current, k) ELSE AirAhead(Current, k, f)

LEMMA BookedIs == Booked = [k \in Terminals |-> [f \in Fields |-> (tbi[k][f] + Ahead(k, f)) % WORD]]
BY DEF Booked, Ahead

LEMMA NoneAhead ==
  ASSUME NEW h, ~Open(h), NEW k \in Terminals, NEW f \in Fields
  PROVE  IdleAhead(h, k) = 0 /\ AirAhead(h, k, f) = 0
BY DEF IdleAhead, AirAhead, Open, UpdatePoints

LEMMA NoneAheadAfter ==
  ASSUME ~Open(Current'), NEW k \in Terminals, NEW f \in Fields
  PROVE  Ahead(k, f)' = 0
BY DEF Ahead, IdleAhead, AirAhead, Open, UpdatePoints

\* A step that the ledger does not see.
LEMMA Unseen ==
  ASSUME UNCHANGED jiffies, Open(Current') <=> Open(Current), BookedUpTo' = BookedUpTo,
         \A k \in Terminals, f \in Fields :
           (tbi'[k][f] + Ahead(k, f)') % WORD = (tbi[k][f] + Ahead(k, f)) % WORD
  PROVE  UNCHANGED Ledger!vars
<1>1. Booked' = Booked
  BY BookedIs DEF Booked, Ahead
<1> QED
  BY <1>1 DEF Ledger!vars, Open

\* Outside an update the books are the counters.
LEMMA Aside ==
  ASSUME UNCHANGED <<jiffies, tbi, last_jiffies>>, ~Open(Current), ~Open(Current')
  PROVE  UNCHANGED Ledger!vars
<1>1. BookedUpTo = last_jiffies /\ BookedUpTo' = last_jiffies'
  BY DEF BookedUpTo, Open, UpdatePoints
<1>2. \A k \in Terminals, f \in Fields : Ahead(k, f) = 0 /\ Ahead(k, f)' = 0
  BY NoneAhead, NoneAheadAfter DEF Ahead
<1> QED
  BY <1>1, <1>2, Unseen

\* The steps of an update between its transaction and its stamps.
LEMMA UnseenUpdate ==
  ASSUME TypeOK, TypeOK', OneAtATime, BooksInv, Orderly, NEW c \in CPUs, Sole(c),
         SubLast(c) \/ LoadIdle(c) \/ StoreIdle(c) \/ LoadAir(c) \/ StoreAir(c)
  PROVE  UNCHANGED Ledger!vars
<1> DEFINE h == handler[c]
           g == handler'[c]
<1>1. /\ last_jiffies \in Nat /\ jiffies \in Nat /\ h.k \in Terminals /\ h.stamp \in Nat
      /\ h.k \in Nat /\ h.reg \in Nat /\ h.idle \in Nat /\ h.time \in Nat
      /\ tbi \in [Terminals -> [Fields -> Nat]] /\ NumTerminals \in Nat
      /\ \A k \in Terminals : k \in Nat /\ k < NumTerminals
  <2>1. /\ h.k \in Terminals /\ h.stamp \in Nat /\ h.k \in Nat /\ h.reg \in Nat
        /\ h.idle \in Nat /\ h.time \in Nat
    BY HandlerType
  <2>2. /\ last_jiffies \in Nat /\ jiffies \in Nat /\ tbi \in [Terminals -> [Fields -> Nat]]
    BY DEF TypeOK
  <2>3. NumTerminals \in Nat /\ \A k \in Terminals : k \in Nat /\ k < NumTerminals
    BY NumTerminalsAssumption DEF Terminals
  <2> QED
    BY <2>1, <2>2, <2>3
<1>2. Others(c) /\ g.src = h.src /\ g.time = h.time /\ UNCHANGED <<jiffies, last_jiffies>>
  BY SubLastDoes, LoadIdleDoes, StoreIdleDoes, LoadAirDoes, StoreAirDoes DEF Goes, Keeps
<1>3. /\ h.pc \in {"sub_last", "load_i", "store_i", "load_air", "store_air"}
      /\ g.pc \in {"load_i", "store_i", "stamp_idle", "load_air", "store_air", "stamp_air"}
  BY SubLastDoes, LoadIdleDoes, StoreIdleDoes, LoadAirDoes, StoreAirDoes DEF Goes, Loops
<1>4. Updating(c) /\ Updating(c)'
  BY <1>3 DEF Updating, UpdatePoints
<1>5. Current = h /\ Current' = g
  BY <1>2, <1>4, CurrentBefore, CurrentAfter DEF Seen
<1>6. Open(Current) /\ Open(Current')
  BY <1>3, <1>5 DEF Open, UpdatePoints
<1>7. Registers(h)
  BY <1>4 DEF BooksInv
<1>8. h.pc \notin Loop => h.k = 0
  BY DEF OneAtATime, FromTheFirst
<1>9. ASSUME BookedUpTo' = BookedUpTo, tbi' = tbi,
             \A k \in Terminals, f \in Fields : Ahead(k, f)' = Ahead(k, f)
      PROVE  UNCHANGED Ledger!vars
  BY <1>2, <1>6, <1>9, Unseen
<1>10. CASE SubLast(c)
  <2>1. /\ h.pc = "sub_last" /\ g.pc = "load_i" /\ g.k = h.k /\ tbi' = tbi
        /\ g.idle = IdleTime(h.idle, last_jiffies)
    BY <1>10, SubLastDoes DEF Goes, Keeps
  <2>2. h.k = 0
    BY <1>8, <2>1 DEF Loop
  <2>3. g.idle = h.idle - last_jiffies
    <3>1. h.idle - last_jiffies \in Nat /\ h.idle - last_jiffies < WORD
      BY <1>1, <1>7, <2>1, WordAssumption DEF Registers, Orderly
    <3> QED
      BY <2>1, <3>1, NoRemainder DEF IdleTime
  <2>4. BookedUpTo' = BookedUpTo
    BY <1>1, <1>2, <1>5, <2>1, <2>3 DEF BookedUpTo
  <2>5. \A k \in Terminals : IdleAhead(Current, k) = g.idle /\ IdleAhead(Current, k)' = g.idle
    BY <1>1, <1>5, <2>1, <2>2 DEF IdleAhead
  <2>6. \A k \in Terminals, f \in Fields : AirAhead(Current, k, f)' = AirAhead(Current, k, f)
    BY <1>2, <1>5, <2>1 DEF AirAhead
  <2> QED
    BY <1>9, <2>1, <2>4, <2>5, <2>6 DEF Ahead
<1>11. CASE LoadIdle(c) \/ LoadAir(c)
  <2>1. /\ \/ h.pc = "load_i" /\ g.pc = "store_i"
           \/ h.pc = "load_air" /\ g.pc = "store_air"
        /\ g.k = h.k /\ tbi' = tbi /\ g.idle = h.idle
    BY <1>11, LoadIdleDoes, LoadAirDoes DEF Goes, Keeps
  <2>2. BookedUpTo' = BookedUpTo
    BY <1>2, <1>5, <2>1 DEF BookedUpTo
  <2>3. \A k \in Terminals : IdleAhead(Current, k)' = IdleAhead(Current, k)
    BY <1>5, <2>1 DEF IdleAhead
  <2>4. \A k \in Terminals, f \in Fields : AirAhead(Current, k, f)' = AirAhead(Current, k, f)
    BY <1>2, <1>5, <2>1 DEF AirAhead
  <2> QED
    BY <1>9, <2>1, <2>2, <2>3, <2>4 DEF Ahead
<1>12. CASE StoreIdle(c)
  <2>1. /\ h.pc = "store_i" /\ g.idle = h.idle
        /\ tbi' = [tbi EXCEPT ![h.k]["i"] = Add(h.reg, h.idle)]
        /\ \/ g.pc = "load_i" /\ g.k = h.k + 1
           \/ g.pc = "stamp_idle" /\ h.k + 1 >= NumTerminals
    BY <1>12, StoreIdleDoes DEF Goes, Keeps, Loops
  <2>2. BookedUpTo' = BookedUpTo
    BY <1>2, <1>5, <2>1 DEF BookedUpTo
  <2>3. ASSUME NEW k \in Terminals, NEW f \in Fields
        PROVE  (tbi'[k][f] + Ahead(k, f)') % WORD = (tbi[k][f] + Ahead(k, f)) % WORD
    <3>0. k \in Nat /\ k < NumTerminals /\ h.k \in Nat /\ NumTerminals \in Nat
      BY <1>1
    <3>1. AirAhead(Current, k, f)' = AirAhead(Current, k, f)
      BY <1>2, <1>5, <2>1 DEF AirAhead
    <3>2. CASE f # "i"
      BY <1>1, <2>1, <3>1, <3>2 DEF Ahead
    <3>3. CASE f = "i" /\ k # h.k
      <4>1. tbi'[k][f] = tbi[k][f]
        BY <1>1, <2>1, <3>3
      <4>2. IdleAhead(Current, k)' = IdleAhead(Current, k)
        <5>1. CASE g.pc = "load_i" /\ g.k = h.k + 1
          <6>1. k >= g.k <=> k >= h.k
            BY <3>0, <3>3, <5>1
          <6> QED
            BY <1>5, <2>1, <5>1, <6>1 DEF IdleAhead
        <5>2. CASE g.pc = "stamp_idle" /\ h.k + 1 >= NumTerminals
          <6>1. ~(k >= h.k)
            BY <3>0, <3>3, <5>2
          <6> QED
            BY <1>5, <2>1, <5>2, <6>1 DEF IdleAhead
        <5> QED
          BY <2>1, <5>1, <5>2
      <4> QED
        BY <3>3, <4>1, <4>2 DEF Ahead
    <3>4. CASE f = "i" /\ k = h.k
      <4>1. Ahead(k, f) = h.idle /\ Ahead(k, f)' = 0
        BY <1>1, <1>5, <2>1, <3>4 DEF IdleAhead, Ahead
      <4>2. tbi'[k][f] = (tbi[k][f] + h.idle) % WORD
        BY <1>1, <1>7, <2>1, <3>4 DEF Registers, Add
      <4>3. tbi'[k][f] \in Nat /\ tbi'[k][f] < WORD
        BY <1>1, <2>1, <3>4, AddFits
      <4> QED
        BY <4>1, <4>2, <4>3, NoRemainder
    <3> QED
      BY <3>2, <3>3, <3>4
  <2> QED
    BY <1>2, <1>6, <2>2, <2>3, Unseen
<1>13. CASE StoreAir(c)
  <2>1. /\ h.pc = "store_air"
        /\ tbi' = [tbi EXCEPT ![h.k][Field(h.src, h.k)] = Add(h.reg, h.time)]
        /\ \/ g.pc = "load_air" /\ g.k = h.k + 1
           \/ g.pc = "stamp_air" /\ h.k + 1 >= NumTerminals
    BY <1>13, StoreAirDoes DEF Goes, Keeps, Loops
  <2>2. BookedUpTo' = BookedUpTo
    BY <1>2, <1>5, <2>1 DEF BookedUpTo
  <2>3. ASSUME NEW k \in Terminals, NEW f \in Fields
        PROVE  (tbi'[k][f] + Ahead(k, f)') % WORD = (tbi[k][f] + Ahead(k, f)) % WORD
    <3>0. k \in Nat /\ k < NumTerminals /\ h.k \in Nat /\ NumTerminals \in Nat
      BY <1>1
    <3>1. IdleAhead(Current, k)' = 0 /\ IdleAhead(Current, k) = 0
      BY <1>5, <2>1 DEF IdleAhead
    <3>2. Field(h.src, k) \in Fields /\ Field(h.src, k) # "i"
      BY DEF Field, Fields
    <3>3. CASE f # Field(h.src, k)
      <4>1. tbi'[k][f] = tbi[k][f]
        BY <1>1, <2>1, <3>3
      <4>2. AirAhead(Current, k, f)' = 0 /\ AirAhead(Current, k, f) = 0
        BY <1>2, <1>5, <3>3 DEF AirAhead
      <4> QED
        BY <3>1, <4>1, <4>2 DEF Ahead
    <3>4. CASE f = Field(h.src, k) /\ k # h.k
      <4>1. tbi'[k][f] = tbi[k][f]
        BY <1>1, <2>1, <3>4
      <4>2. AirAhead(Current, k, f)' = AirAhead(Current, k, f)
        <5>1. CASE g.pc = "load_air" /\ g.k = h.k + 1
          <6>1. k >= g.k <=> k >= h.k
            BY <3>0, <3>4, <5>1
          <6> QED
            BY <1>2, <1>5, <2>1, <5>1, <6>1 DEF AirAhead
        <5>2. CASE g.pc = "stamp_air" /\ h.k + 1 >= NumTerminals
          <6>1. ~(k >= h.k)
            BY <3>0, <3>4, <5>2
          <6> QED
            BY <1>2, <1>5, <2>1, <5>2, <6>1 DEF AirAhead
        <5> QED
          BY <2>1, <5>1, <5>2
      <4> QED
        BY <3>1, <4>1, <4>2 DEF Ahead
    <3>5. CASE f = Field(h.src, k) /\ k = h.k
      <4>1. AirAhead(Current, k, f) = h.time /\ AirAhead(Current, k, f)' = 0
        BY <1>1, <1>2, <1>5, <2>1, <3>5 DEF AirAhead
      <4>2. tbi'[k][f] = (tbi[k][f] + h.time) % WORD
        BY <1>1, <1>7, <2>1, <3>2, <3>5 DEF Registers, Add
      <4>3. tbi'[k][f] \in Nat /\ tbi'[k][f] < WORD
        BY <1>1, <2>1, <3>2, <3>5, AddFits
      <4>4. Ahead(k, f) = h.time /\ Ahead(k, f)' = 0
        BY <3>2, <3>5, <4>1 DEF Ahead
      <4> QED
        BY <4>2, <4>3, <4>4, NoRemainder
    <3> QED
      BY <3>3, <3>4, <3>5
  <2> QED
    BY <1>2, <1>6, <2>2, <2>3, Unseen
<1> QED
  BY <1>10, <1>11, <1>12, <1>13

\* The read of jiffies is the transaction.
LEMMA BookedByRead ==
  ASSUME TypeOK, TypeOK', OneAtATime, BooksInv, Orderly, NEW c \in CPUs, Sole(c), LoadJiffies(c)
  PROVE  Ledger!Next
<1> DEFINE h == handler[c]
           g == handler'[c]
<1>1. /\ h.pc = "load_jiffies" /\ g.pc = "sub_last" /\ g.src = h.src /\ g.time = h.time
      /\ g.k = h.k /\ g.idle = jiffies /\ Others(c) /\ UNCHANGED <<jiffies, tbi, last_jiffies>>
  BY LoadJiffiesDoes DEF Goes, Keeps
<1>2. Updating(c) /\ Updating(c)'
  BY <1>1 DEF Updating, UpdatePoints
<1>3. Current = h /\ Current' = g
  BY <1>1, <1>2, CurrentBefore, CurrentAfter DEF Seen
<1>4. ~Open(Current) /\ Open(Current')
  BY <1>1, <1>3 DEF Open, UpdatePoints
<1>5. Registers(h) /\ last_jiffies <= jiffies
  BY <1>2 DEF BooksInv
<1>6. jiffies \in Nat /\ last_jiffies \in Nat /\ jiffies < WORD
      /\ tbi \in [Terminals -> [Fields -> Nat]]
  BY DEF TypeOK, Orderly
<1>7. BookedUpTo = last_jiffies /\ BookedUpTo' = jiffies
  BY <1>1, <1>3 DEF BookedUpTo
<1>8. ASSUME NEW k \in Terminals
      PROVE  /\ Booked[k]["t"] = tbi[k]["t"] /\ Booked[k]["b"] = tbi[k]["b"]
             /\ Booked[k]["i"] = tbi[k]["i"]
  <2>1. ASSUME NEW f \in Fields PROVE Booked[k][f] = tbi[k][f]
    <3>1. Ahead(k, f) = 0
      BY <1>4, NoneAhead DEF Ahead
    <3>2. tbi[k][f] \in Nat /\ tbi[k][f] < WORD
      BY <1>6 DEF BooksInv
    <3> QED
      BY <3>1, <3>2, BookedIs, NoRemainder
  <2> QED
    BY <2>1 DEF Fields
<1>9. jiffies - last_jiffies \in Nat /\ jiffies - last_jiffies < WORD
  BY <1>5, <1>6, WordAssumption
<1>10. IdleTime(jiffies, last_jiffies) = jiffies - last_jiffies
  BY <1>9, NoRemainder DEF IdleTime
<1>11. ASSUME NEW k \in Terminals
       PROVE  /\ Ahead(k, "i")' = jiffies - last_jiffies
              /\ Ahead(k, "t")' = IF k = h.src THEN h.time ELSE 0
              /\ Ahead(k, "b")' = IF k = h.src THEN 0 ELSE h.time
  <2>1. Ahead(k, "i")' = jiffies - last_jiffies
    BY <1>1, <1>3, <1>10 DEF Ahead, IdleAhead
  <2>2. /\ Ahead(k, "t")' = IF k = h.src THEN h.time ELSE 0
        /\ Ahead(k, "b")' = IF k = h.src THEN 0 ELSE h.time
    BY <1>1, <1>3 DEF Ahead, AirAhead, Field
  <2> QED
    BY <2>1, <2>2
<1>12. ASSUME NEW src, NEW d, h.time = d, d = 0 \/ src = h.src, d \in Nat
       PROVE  Ledger!Book(src, d)
  <2>1. ASSUME NEW k \in Terminals
        PROVE  Booked'[k] = [t |-> (Booked[k].t + IF k = src THEN d ELSE 0) % WORD,
                             b |-> (Booked[k].b + IF k = src THEN 0 ELSE d) % WORD,
                             i |-> (Booked[k].i + jiffies - last_jiffies) % WORD]
    <3>1. Booked'[k] = [f \in Fields |-> (tbi'[k][f] + Ahead(k, f)') % WORD]
      BY DEF Booked, Ahead
    <3>2. (tbi[k]["i"] + Ahead(k, "i")') % WORD = (Booked[k].i + jiffies - last_jiffies) % WORD
      <4>1. tbi[k]["i"] + (jiffies - last_jiffies) = tbi[k]["i"] + jiffies - last_jiffies
        BY <1>6 DEF Fields
      <4> QED
        BY <1>8, <1>11, <4>1
    <3>3. (tbi[k]["t"] + Ahead(k, "t")') % WORD = (Booked[k].t + IF k = src THEN d ELSE 0) % WORD
      BY <1>8, <1>11, <1>12
    <3>4. (tbi[k]["b"] + Ahead(k, "b")') % WORD = (Booked[k].b + IF k = src THEN 0 ELSE d) % WORD
      BY <1>8, <1>11, <1>12
    <3> QED
      BY <1>1, <3>1, <3>2, <3>3, <3>4 DEF Fields
  <2>2. Booked' = [k \in Terminals |-> Booked'[k]]
    BY DEF Booked
  <2>3. Booked' = [k \in Terminals |->
                    [t |-> (Booked[k].t + IF k = src THEN d ELSE 0) % WORD,
                     b |-> (Booked[k].b + IF k = src THEN 0 ELSE d) % WORD,
                     i |-> (Booked[k].i + jiffies - last_jiffies) % WORD]]
    BY <2>1, <2>2
  <2> QED
    BY <1>1, <1>4, <1>7, <2>3 DEF Ledger!Book, Ledger!Terminals, Terminals, Open
<1>13. CASE h.time = 0
  <2>1. 0 \in Terminals
    BY NumTerminalsAssumption DEF Terminals
  <2>2. Ledger!Book(0, 0)
    BY <1>12, <1>13
  <2> QED
    BY <2>1, <2>2 DEF Ledger!Next, Ledger!Terminals, Terminals
<1>14. CASE h.time \in Durations /\ h.src \in Terminals
  <2>1. Ledger!Book(h.src, h.time)
    BY <1>12, <1>14, DurationsAssumption
  <2> QED
    BY <1>14, <2>1 DEF Ledger!Next, Ledger!Terminals, Terminals
<1> QED
  BY <1>5, <1>13, <1>14 DEF Registers

\* The writes of last_jiffies are the stamps.
LEMMA Stamped ==
  ASSUME TypeOK, TypeOK', OneAtATime, BooksInv, Orderly, NEW c \in CPUs, Sole(c),
         StampIdle(c) \/ StampAir(c)
  PROVE  Ledger!Next
<1> DEFINE h == handler[c]
           g == handler'[c]
<1>1. /\ h.pc \in {"stamp_idle", "stamp_air"} /\ g.pc \in {"publish", "load_air"}
      /\ g.src = h.src /\ Others(c) /\ UNCHANGED <<jiffies, tbi>>
      /\ last_jiffies' \in h.stamp .. jiffies
  BY StampIdleDoes, StampAirDoes DEF Goes
<1>2. Updating(c) /\ Registers(h)
  BY <1>1 DEF Updating, UpdatePoints, BooksInv
<1>3. Current = h /\ Current' = IF g.pc = "load_air" THEN g ELSE Off
  BY <1>1, <1>2, CurrentBefore, CurrentAfter DEF Seen, Updating, UpdatePoints
<1>4. /\ last_jiffies \in Nat /\ jiffies \in Nat /\ h.stamp \in Nat /\ h.idle \in Nat
      /\ h.k \in Nat /\ last_jiffies' \in Nat
      /\ \A k \in Terminals : k \in Nat
  BY HandlerType DEF TypeOK, Terminals
<1>5. Open(Current) /\ Open(Current') \in BOOLEAN
  BY <1>1, <1>3 DEF Open, UpdatePoints
<1>6. BookedUpTo' = last_jiffies'
  BY <1>3 DEF BookedUpTo, Off
<1>7. BookedUpTo <= h.stamp
  <2>1. CASE h.pc = "stamp_idle"
    BY <1>2, <1>3, <2>1 DEF BookedUpTo, Registers
  <2>2. CASE h.pc = "stamp_air"
    BY <1>2, <1>3, <2>2 DEF BookedUpTo, Registers
  <2> QED
    BY <1>1, <2>1, <2>2
<1>8. BookedUpTo \in Int
  BY <1>1, <1>3, <1>4 DEF BookedUpTo
<1>9. last_jiffies' \in BookedUpTo .. jiffies
  BY <1>1, <1>4, <1>7, <1>8
<1>10. ASSUME NEW k \in Terminals, NEW f \in Fields PROVE Ahead(k, f)' = Ahead(k, f)
  <2>1. IdleAhead(Current, k) = 0 /\ IdleAhead(Current, k)' = 0
    BY <1>1, <1>3 DEF IdleAhead, Off
  <2>2. CASE h.pc = "stamp_air"
    <3>1. g.pc = "publish"
      BY <1>1, <2>2, StampIdleDoes, StampAirDoes DEF Goes
    <3>2. AirAhead(Current, k, f) = 0 /\ AirAhead(Current, k, f)' = 0
      BY <1>3, <2>2, <3>1 DEF AirAhead, Off
    <3> QED
      BY <2>1, <3>2 DEF Ahead
  <2>3. CASE h.pc = "stamp_idle"
    <3>1. /\ g.time = h.time /\ g.k = h.k
          /\ \/ g.pc = "publish" /\ h.kind = "timer"
             \/ g.pc = "load_air"
      BY <2>3, StampIdleDoes, StampAirDoes DEF Keeps
    <3>2. h.k = 0 /\ (h.kind = "timer" => h.time = 0)
      BY <2>3 DEF OneAtATime, FromTheFirst, Loop
    <3>3. AirAhead(Current, k, f)' = AirAhead(Current, k, f)
      <4>1. CASE g.pc = "load_air"
        <5>1. k >= g.k
          BY <1>4, <3>1, <3>2
        <5> QED
          BY <1>1, <1>3, <2>3, <3>1, <4>1, <5>1 DEF AirAhead
      <4>2. CASE g.pc = "publish" /\ h.kind = "timer"
        BY <1>3, <3>2, <4>2 DEF AirAhead, Off
      <4> QED
        BY <3>1, <4>1, <4>2
    <3> QED
      BY <2>1, <3>3 DEF Ahead
  <2> QED
    BY <1>1, <2>2, <2>3
<1>11. Booked' = Booked
  BY <1>1, <1>10 DEF Booked, Ahead
<1>12. Ledger!Stamp
  BY <1>1, <1>5, <1>6, <1>9, <1>11 DEF Ledger!Stamp, Open
<1> QED
  BY <1>12 DEF Ledger!Next

-----------------------------------------------------------------------------

LEMMA LedgerInit == Init => Ledger!Init
<1> SUFFICES ASSUME Init PROVE Ledger!Init
  OBVIOUS
<1>1. \A c \in CPUs : ~Updating(c)
  BY DEF Init, Updating, UpdatePoints, Off
<1>2. Current = Off
  BY <1>1 DEF Current
<1>3. ~Open(Current) /\ BookedUpTo = last_jiffies
  BY <1>2 DEF Open, UpdatePoints, Off, BookedUpTo
<1>4. \A k \in Terminals, f \in Fields : tbi[k][f] = 0 /\ Ahead(k, f) = 0
  BY <1>3, NoneAhead DEF Init, Ahead
<1>5. 0 % WORD = 0
  BY WordAssumption
<1>6. Booked = [k \in Terminals |-> [f \in Fields |-> 0]]
  BY <1>4, <1>5 DEF Booked, Ahead
<1> QED
  BY <1>3, <1>6 DEF Init, Ledger!Init, Ledger!Terminals, Terminals, Fields, Open

LEMMA LedgerStep ==
  TypeOK /\ TypeOK' /\ OneAtATime /\ BooksInv /\ Orderly /\ Orderly' /\ [Next]_vars
  => [Ledger!Next]_(Ledger!vars)
<1> SUFFICES ASSUME TypeOK, TypeOK', OneAtATime, BooksInv, Orderly, Orderly', [Next]_vars
             PROVE  Ledger!Next \/ UNCHANGED Ledger!vars
  OBVIOUS
<1>1. CASE Tick
  <2>1. /\ jiffies < MaxJiffies /\ jiffies' = jiffies + 1
        /\ UNCHANGED <<handler, tbi, last_jiffies>>
    BY <1>1 DEF Tick, counted
  <2>2. Current' = Current
    BY <2>1 DEF Current, Updating
  <2>3. Booked' = Booked /\ BookedUpTo' = BookedUpTo
    BY <2>1, <2>2 DEF Booked, BookedUpTo, IdleAhead, AirAhead
  <2> QED
    BY <2>1, <2>2, <2>3 DEF Ledger!Next, Ledger!Advance
<1>2. ASSUME NEW c \in CPUs, Sole(c), Others(c), UNCHANGED <<jiffies, tbi, last_jiffies>>,
             Updating(c) => handler[c].pc = "load_jiffies",
             Updating(c)' => handler'[c].pc = "load_jiffies"
      PROVE  UNCHANGED Ledger!vars
  <2>1. Current = Seen(c) /\ Current' = Seen(c)'
    BY <1>2, CurrentBefore, CurrentAfter
  <2>2. ~Open(Current) /\ ~Open(Current')
    BY <1>2, <2>1 DEF Open, Seen, Updating, UpdatePoints, Off
  <2> QED
    BY <1>2, <2>2, Aside
<1>3. ASSUME UNCHANGED <<jiffies, tbi, last_jiffies>>,
             \A o \in CPUs : Updating(o)' = Updating(o),
             \A o \in CPUs : Updating(o) => handler'[o] = handler[o]
      PROVE  UNCHANGED Ledger!vars
  <2>1. Current' = Current
    <3>1. CASE \E o \in CPUs : Updating(o)
      <4>1. (CHOOSE o \in CPUs : Updating(o))' = CHOOSE o \in CPUs : Updating(o)
        BY <1>3
      <4>2. (CHOOSE o \in CPUs : Updating(o)) \in CPUs
            /\ Updating(CHOOSE o \in CPUs : Updating(o))
        BY <3>1
      <4> QED
        BY <1>3, <3>1, <4>1, <4>2 DEF Current
    <3>2. CASE ~\E o \in CPUs : Updating(o)
      BY <1>3, <3>2 DEF Current
    <3> QED
      BY <3>1, <3>2
  <2>2. Booked' = Booked /\ BookedUpTo' = BookedUpTo
    BY <1>3, <2>1 DEF Booked, BookedUpTo, IdleAhead, AirAhead
  <2> QED
    BY <1>3, <2>1, <2>2 DEF Ledger!vars
<1>4. ASSUME NEW c \in CPUs, NEW src \in Terminals \cup {Other}, NEW d \in Durations, Hook(c, src, d)
      PROVE  UNCHANGED Ledger!vars
  <2>1. /\ ~Updating(c) /\ Others(c) /\ UNCHANGED <<jiffies, tbi, last_jiffies>>
        /\ src \in Terminals => handler'[c].pc = "load_jiffies"
        /\ src \notin Terminals => ~Updating(c)'
    BY <1>4, HookDoes
  <2>2. CASE src \in Terminals
    <3>1. overlap' = (overlap \/ (src \in Terminals /\ \E o \in CPUs \ {c} : Updating(o)))
      BY <1>4, HookDoes
    <3>2. Sole(c)
      BY <2>2, <3>1 DEF Orderly, Sole
    <3> QED
      BY <1>2, <2>1, <2>2, <3>2
  <2>3. CASE src \notin Terminals
    <3>1. \A o \in CPUs : Updating(o)' = Updating(o) /\ (Updating(o) => handler'[o] = handler[o])
      BY <2>1, <2>3 DEF Others, Updating
    <3> QED
      BY <1>3, <2>1, <3>1
  <2> QED
    BY <2>2, <2>3
<1>5. ASSUME NEW c \in CPUs, TimerFires(c) PROVE UNCHANGED Ledger!vars
  <2>1. /\ ~Updating(c) /\ Others(c) /\ UNCHANGED <<jiffies, tbi, last_jiffies>>
        /\ handler'[c].pc = "load_jiffies"
        /\ overlap' = (overlap \/ \E o \in CPUs \ {c} : Updating(o))
    BY <1>5, TimerDoes
  <2>2. Sole(c)
    BY <2>1 DEF Orderly, Sole
  <2> QED
    BY <1>2, <2>1, <2>2
<1>6. ASSUME NEW c \in CPUs, Continue(c) PROVE Ledger!Next \/ UNCHANGED Ledger!vars
  <2>1. CASE Publish(c) \/ Rearm(c)
    <3>1. /\ ~Updating(c) /\ ~Updating(c)' /\ Others(c)
          /\ UNCHANGED <<jiffies, tbi, last_jiffies>>
      BY <2>1, AfterDoes
    <3>2. \A o \in CPUs : Updating(o)' = Updating(o) /\ (Updating(o) => handler'[o] = handler[o])
      BY <3>1 DEF Others, Updating
    <3> QED
      BY <1>3, <3>1, <3>2
  <2>2. CASE ~Publish(c) /\ ~Rearm(c)
    <3>1. Updating(c)
      BY <1>6, <2>2, LoadJiffiesDoes, SubLastDoes, LoadIdleDoes, LoadAirDoes, StoreIdleDoes,
         StoreAirDoes, StampIdleDoes, StampAirDoes DEF Continue, Updating, UpdatePoints
    <3>2. Sole(c)
      BY <3>1 DEF OneAtATime, Solo, Sole, Orderly
    <3> QED
      BY <1>6, <2>2, <3>2, UnseenUpdate, BookedByRead, Stamped DEF Continue
  <2> QED
    BY <2>1, <2>2
<1>7. CASE Exit \/ UNCHANGED vars
  <2>1. UNCHANGED <<jiffies, last_jiffies, tbi, handler>>
    BY <1>7 DEF Exit, DelTimer, RemoveProc, UnregisterHook, FreeModule, vars, kernel, counted
  <2> QED
    BY <1>3, <2>1 DEF Updating
<1> QED
  BY <1>1, <1>4, <1>5, <1>6, <1>7 DEF Next

\* As long as no two updates overlap and the clock does not wrap around, on any number of
\* CPUs, the nine additions and two assignments of update_tbi act as one transaction.
THEOREM OrderlyImplementsLedger == Spec /\ []Orderly => ImplementsLedger
<1>1. Spec => []TypeOK
  BY TypeCorrect
<1>2. Spec => []OneAtATime
  BY TypeInit, TypeStep, OneInit, OneStep, PTL DEF Spec
<1>3. Spec => []BooksInv
  BY TypeInit, TypeStep, OneInit, OneStep, BooksInit, BooksStep, PTL DEF Spec
<1>4. Spec /\ []Orderly => Ledger!Spec
  BY <1>1, <1>2, <1>3, LedgerInit, LedgerStep, PTL DEF Spec, Ledger!Spec
<1> QED
  BY <1>4 DEF ImplementsLedger

\* On one CPU no two updates overlap: the softirq handlers run one after the other.
LEMMA OneCpuInTurn ==
  ASSUME \A c, d \in CPUs : c = d, MaxJiffies < WORD
  PROVE  Spec => []Orderly
<1> DEFINE I == ~overlap /\ jiffies <= MaxJiffies
<1>1. Init => I
  BY BoundsAssumption DEF Init
<1>2. TypeOK /\ TypeOK' /\ I /\ [Next]_vars => I'
  <2> SUFFICES ASSUME TypeOK, TypeOK', I, [Next]_vars PROVE I'
    OBVIOUS
  <2>1. CASE Tick
    BY <2>1, BoundsAssumption DEF Tick, TypeOK
  <2>2. ASSUME NEW c \in CPUs, NEW src \in Terminals \cup {Other}, NEW d \in Durations,
               Hook(c, src, d)
        PROVE  I'
    <3>1. jiffies' = jiffies
      BY <2>2, HookDoes
    <3>2. overlap' = (overlap \/ (src \in Terminals /\ \E o \in CPUs \ {c} : Updating(o)))
      BY <2>2, HookDoes
    <3> QED
      BY <3>1, <3>2
  <2>3. ASSUME NEW c \in CPUs, TimerFires(c) PROVE I'
    <3>1. jiffies' = jiffies
      BY <2>3, TimerDoes
    <3>2. overlap' = (overlap \/ \E o \in CPUs \ {c} : Updating(o))
      BY <2>3, TimerDoes
    <3> QED
      BY <3>1, <3>2
  <2>4. ASSUME NEW c \in CPUs, Continue(c) PROVE I'
    BY <2>4 DEF Continue, LoadJiffies, SubLast, LoadIdle, StoreIdle, StampIdle, LoadAir,
                StoreAir, StampAir, Publish, Rearm, kernel, history
  <2>5. CASE Exit \/ UNCHANGED vars
    BY <2>5 DEF Exit, DelTimer, RemoveProc, UnregisterHook, FreeModule, vars, kernel, history
  <2> QED
    BY <2>1, <2>2, <2>3, <2>4, <2>5 DEF Next
<1>3. TypeOK /\ I => Orderly
  BY BoundsAssumption, WordAssumption DEF Orderly, TypeOK
<1> QED
  BY <1>1, <1>2, <1>3, TypeInit, TypeStep, PTL DEF Spec

\* On one CPU the hub keeps the ledger, whatever the packets, the timer and rmmod do.
THEOREM OneCpuImplementsLedger ==
  ASSUME \A c, d \in CPUs : c = d, MaxJiffies < WORD
  PROVE  Spec => ImplementsLedger
BY OneCpuInTurn, OrderlyImplementsLedger, PTL

=============================================================================
