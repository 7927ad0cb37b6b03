---------------------------- MODULE HubTbiLedger ----------------------------
(***************************************************************************)
(* HubTbi implements TbiLedger as long as no two updates overlap, on one   *)
(* CPU therefore always.  The transaction of an update takes place where   *)
(* the handler reads jiffies; what the handler has still to add is counted *)
(* as booked, and last_jiffies as already moved.                           *)
(***************************************************************************)
EXTENDS HubTbi

\* The handler in the middle of an update, if there is one.
Current ==
  IF \E c \in CPUs : Updating(c) THEN handler[CHOOSE c \in CPUs : Updating(c)] ELSE Off

IdleAhead(h, k) ==
  CASE h.pc = "sub_last"                             -> IdleTime(h.idle, last_jiffies)
    [] h.pc \in {"load_i", "store_i"} /\ k >= h.k     -> h.idle
    [] OTHER                                         -> 0

AirAhead(h, k, f) ==
  IF /\ f = Field(h.src, k)
     /\ \/ h.pc \in {"sub_last", "load_i", "store_i", "stamp_idle"}
        \/ h.pc \in {"load_air", "store_air"} /\ k >= h.k
  THEN h.time ELSE 0

Booked == [k \in Terminals |-> [f \in Fields |->
            (tbi[k][f] + IF f = "i" THEN IdleAhead(Current, k)
                                    ELSE AirAhead(Current, k, f)) % WORD]]

BookedUpTo ==
  CASE Current.pc = "sub_last"                                -> Current.idle
    [] Current.pc \in {"load_i", "store_i", "stamp_idle"}     -> last_jiffies + Current.idle
    [] OTHER                                                  -> last_jiffies

Ledger == INSTANCE TbiLedger WITH
            now  <- jiffies,
            tbi  <- Booked,
            last <- BookedUpTo,
            open <- Current.pc \in UpdatePoints \ {"load_jiffies"}

\* Updates that do not overlap book every packet and every tick once: the nine
\* additions and two assignments of update_tbi act as one transaction, also
\* when the counters wrap around.
ImplementsLedger == Ledger!Spec

=============================================================================
