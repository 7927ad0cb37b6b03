----------------------------- MODULE TbiLedger -----------------------------
(***************************************************************************)
(* What the accounting of the hub (netfilter/hub/tbi.c) promises when its  *)
(* updates come one at a time: each is a single transaction that books, on *)
(* every terminal, the time since the last update as idle and the airtime  *)
(* of the packet as transmitting or busy.  The clock may run on while an   *)
(* update is in progress; that time is then dropped, once.                 *)
(***************************************************************************)
EXTENDS Integers

CONSTANTS NumTerminals, Durations, WORD, MaxJiffies

VARIABLES
  now,    \* the clock
  tbi,    \* the books
  last,   \* the time up to which they are kept
  open    \* is an update in progress

vars == <<now, tbi, last, open>>

Terminals == 0 .. (NumTerminals - 1)

Init ==
  /\ now  = 0
  /\ tbi  = [k \in Terminals |-> [f \in {"t", "b", "i"} |-> 0]]
  /\ last = 0
  /\ open = FALSE

Advance ==
  /\ now < MaxJiffies
  /\ now' = now + 1
  /\ UNCHANGED <<tbi, last, open>>

\* Books idle time on every terminal, and the airtime d of a packet of src.
Book(src, d) ==
  /\ ~open
  /\ tbi' = [k \in Terminals |->
              [t |-> (tbi[k].t + IF k = src THEN d ELSE 0) % WORD,
               b |-> (tbi[k].b + IF k = src THEN 0 ELSE d) % WORD,
               i |-> (tbi[k].i + now - last) % WORD]]
  /\ last' = now
  /\ open' = TRUE
  /\ UNCHANGED now

\* Drops what the clock ran on since the books were made.
Stamp ==
  /\ open
  /\ last' \in last .. now
  /\ open' \in BOOLEAN
  /\ UNCHANGED <<now, tbi>>

Next ==
  \/ Advance
  \/ \E src \in Terminals, d \in Durations \cup {0} : Book(src, d)
  \/ Stamp

Spec == Init /\ [][Next]_vars

=============================================================================
