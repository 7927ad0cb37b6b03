------------------------------- MODULE HubTbi -------------------------------
(***************************************************************************)
(* The hub kernel module (netfilter/hub/hub.c, netfilter/hub/tbi.c).       *)
(*                                                                         *)
(* A netfilter hook charges the airtime of every TCP packet to three       *)
(* counters per terminal: t (this terminal transmitted), b (the channel    *)
(* was busy with another terminal) and i (jiffies between two updates).    *)
(* A timer adds to i even when no packet arrives.  Both handlers run in    *)
(* softirq context, on any CPU, with no lock around tbi and last_jiffies:  *)
(* each `x += d' is one unlocked add of the x86-64 build, that is, a load  *)
(* and a store between which another CPU may act.  A CPU runs one softirq  *)
(* handler at a time, to its end.                                          *)
(*                                                                         *)
(* jiffies counts from the load of the module: only differences of it are  *)
(* used.  The specification starts where init_hello returns.               *)
(***************************************************************************)
EXTENDS Integers, FiniteSets

CONSTANTS
  CPUs,          \* processors that run softirq handlers
  NumTerminals,  \* length of tbi; 3 in the code
  Durations,     \* values of msecs_to_jiffies(skb->data_len / R_BITRATE)
  Interval,      \* msecs_to_jiffies(timer_interval)
  WORD,          \* 2^64, the modulus of unsigned long
  MaxJiffies,    \* bound of the clock
  MaxPackets     \* bound on the TCP packets seen

ASSUME CPUsAssumption         == IsFiniteSet(CPUs)
ASSUME NumTerminalsAssumption == NumTerminals \in Nat \ {0}
ASSUME DurationsAssumption    == Durations \subseteq Nat
ASSUME IntervalAssumption     == Interval \in Nat \ {0}
ASSUME WordAssumption         == WORD \in Nat \ {0}
ASSUME BoundsAssumption       == MaxJiffies \in Nat /\ MaxPackets \in Nat

Terminals == 0 .. (NumTerminals - 1)
Other     == NumTerminals      \* a source address hook_func compares unequal
Fields    == {"t", "b", "i"}

VARIABLES
  jiffies,       \* the kernel's tick counter
  last_jiffies,  \* jiffies at the last update
  tbi,           \* the counters
  handler,       \* per CPU: the softirq handler it runs and its registers
  timer,         \* timer_update_idle: pending, and when it expires
  proc_tbi,      \* does /proc/tbi exist
  module,        \* how far exit_hello has come
  packets,       \* history: TCP packets seen (bounds the model)
  owed,          \* history: airtime charged by the handlers begun so far
  lost,          \* history: ticks during an update, after its first read
  overlap,       \* history: have two updates ever been in progress at once
  late           \* history: handlers exit_hello did not wait for

kernel  == <<jiffies, timer, proc_tbi, module>>
counted == <<last_jiffies, tbi>>
history == <<packets, owed, lost, overlap, late>>
vars    == <<kernel, counted, handler, history>>

-----------------------------------------------------------------------------

Kinds == {"hook", "timer"}

\* Program points: the update proper, then the calls that follow it.
UpdatePoints == {"load_jiffies", "sub_last", "load_i", "store_i", "stamp_idle",
                 "load_air", "store_air", "stamp_air"}
Points == UpdatePoints \cup {"off", "publish", "rearm"}

Modules == {"live", "timer_deleted", "proc_removed", "unhooked", "unloaded"}

\* A CPU that runs no handler.
Off == [pc |-> "off", kind |-> "hook", src |-> Other, time |-> 0,
        k |-> 0, idle |-> 0, reg |-> 0, stamp |-> 0]

\* mod_timer(&timer_update_idle, now + msecs_to_jiffies(timer_interval)).
\* Mutant: the timer is not armed.
ArmForgotten(now) == [pending |-> FALSE, expires |-> now + Interval]
Arm(now)          == [pending |-> TRUE,  expires |-> now + Interval]

Init ==
  /\ jiffies      = 0
  /\ last_jiffies = 0
  /\ tbi          = [k \in Terminals |-> [f \in Fields |-> 0]]
  /\ handler      = [c \in CPUs |-> Off]
  /\ timer        = Arm(jiffies)
  /\ proc_tbi     = FALSE
  /\ module       = "live"
  /\ packets      = 0
  /\ owed         = [k \in Terminals |-> [f \in Fields |-> 0]]
  /\ lost         = 0
  /\ overlap      = FALSE
  /\ late         = {}

At(c, point)   == handler[c].pc = point
Updating(c)    == handler[c].pc \in UpdatePoints
InFlight(kind) == \E c \in CPUs : ~At(c, "off") /\ handler[c].kind = kind

\* update_tbi: the sender transmits, the channel is busy for the others.
\* Mutant: every terminal is charged as if it were the sender.
FieldOfSender(src, k) == "t"
Field(src, k)         == IF k = src THEN "t" ELSE "b"

\* One unlocked addition to an unsigned long.  Mutant: tbi[k].i = idle_time.
Assigned(reg, d) == d % WORD
Add(reg, d)      == (reg + d) % WORD

\* last_jiffies = jiffies, where the build may read jiffies at any point since
\* h.stamp.  Mutant: the assignment is forgotten.
StampForgotten(h) == {last_jiffies}
Stamp(h)          == h.stamp .. jiffies

\* The kernel's clock.
Tick ==
  /\ jiffies < MaxJiffies
  /\ jiffies' = jiffies + 1
  /\ lost' = IF \E c \in CPUs : Updating(c) /\ ~At(c, "load_jiffies")
             THEN lost + 1 ELSE lost
  /\ UNCHANGED <<timer, proc_tbi, module, counted, handler,
                 packets, owed, overlap, late>>

\* CPU c enters a handler; while exit_hello runs, note what it may have missed.
Enter(c, h) ==
  /\ At(c, "off")
  /\ handler' = [handler EXCEPT ![c] = h]
  /\ overlap' = (overlap \/ (h.pc \in UpdatePoints /\ \E o \in CPUs \ {c} : Updating(o)))
  /\ late' = IF module \in {"proc_removed", "unhooked"}
             THEN late \cup {"publisher"} ELSE late

\* hook_func on a TCP packet.  It accepts every other packet unchanged.
Hook(c, src, d) ==
  /\ module \in {"live", "timer_deleted", "proc_removed"}
  /\ packets < MaxPackets
  /\ packets' = packets + 1
  /\ Enter(c, [Off EXCEPT !.pc   = IF src \in Terminals THEN "load_jiffies" ELSE "publish",
                          !.src  = src,
                          !.time = IF src \in Terminals THEN d ELSE 0])
  /\ owed' = IF src \in Terminals
             THEN [k \in Terminals |->
                    [owed[k] EXCEPT ![IF k = src THEN "t" ELSE "b"] = @ + d]]
             ELSE owed
  /\ UNCHANGED <<kernel, counted, lost>>

\* timer_handler, once the timer has expired.
TimerFires(c) ==
  /\ module # "unloaded"
  /\ timer.pending
  /\ jiffies >= timer.expires
  /\ timer' = [timer EXCEPT !.pending = FALSE]
  /\ Enter(c, [Off EXCEPT !.pc = "load_jiffies", !.kind = "timer"])
  /\ UNCHANGED <<jiffies, proc_tbi, module, counted, packets, owed, lost>>

\* update_tbi_idle: idle_time = jiffies - last_jiffies, in two reads.
LoadJiffies(c) ==
  /\ At(c, "load_jiffies")
  /\ handler' = [handler EXCEPT ![c].pc = "sub_last", ![c].idle = jiffies]
  /\ UNCHANGED <<kernel, counted, history>>

IdleTime(now, last) == (now - last) % WORD

SubLast(c) ==
  /\ At(c, "sub_last")
  /\ handler' = [handler EXCEPT ![c].pc = "load_i",
                                ![c].idle = IdleTime(@, last_jiffies)]
  /\ UNCHANGED <<kernel, counted, history>>

\* Mutants of Repeat: one terminal too many, one too few.
RepeatTooFar(h, again, done) ==
  IF h.k < NumTerminals
  THEN [h EXCEPT !.pc = again, !.k = @ + 1, !.reg = 0]
  ELSE [h EXCEPT !.pc = done,  !.k = 0,     !.reg = 0]

RepeatTooShort(h, again, done) ==
  IF h.k + 2 < NumTerminals
  THEN [h EXCEPT !.pc = again, !.k = @ + 1, !.reg = 0]
  ELSE [h EXCEPT !.pc = done,  !.k = 0,     !.reg = 0]

\* After terminal k: the same program point for the next one, or what follows.
Repeat(h, again, done) ==
  IF h.k + 1 < NumTerminals
  THEN [h EXCEPT !.pc = again, !.k = @ + 1, !.reg = 0]
  ELSE [h EXCEPT !.pc = done,  !.k = 0,     !.reg = 0]

\* tbi[k].i += idle_time
LoadIdle(c) ==
  /\ At(c, "load_i")
  /\ handler' = [handler EXCEPT ![c].pc = "store_i", ![c].reg = tbi[handler[c].k]["i"]]
  /\ UNCHANGED <<kernel, counted, history>>

StoreIdle(c) ==
  LET h == handler[c]
      after == Repeat(h, "load_i", "stamp_idle")
  IN
  /\ At(c, "store_i")
  /\ tbi' = [tbi EXCEPT ![h.k]["i"] = Add(h.reg, h.idle)]
  /\ handler' = [handler EXCEPT ![c] =
                  IF after.pc = "stamp_idle"
                  THEN [after EXCEPT !.stamp = jiffies] ELSE after]
  /\ UNCHANGED <<kernel, last_jiffies, history>>

\* The end of update_tbi_idle: jiffies is read after its additions.
StampIdle(c) ==
  LET h == handler[c] IN
  /\ At(c, "stamp_idle")
  /\ last_jiffies' \in Stamp(h)
  /\ handler' = [handler EXCEPT ![c] =
                  IF h.kind = "timer"
                  THEN [h EXCEPT !.pc = "publish",  !.idle = 0, !.stamp = 0]
                  ELSE [h EXCEPT !.pc = "load_air", !.idle = 0, !.stamp = jiffies]]
  /\ UNCHANGED <<kernel, tbi, history>>

\* tbi[k].t += transmit_time for the sender, tbi[k].b += transmit_time else
LoadAir(c) ==
  LET h == handler[c] IN
  /\ At(c, "load_air")
  /\ handler' = [handler EXCEPT ![c].pc = "store_air",
                                ![c].reg = tbi[h.k][Field(h.src, h.k)]]
  /\ UNCHANGED <<kernel, counted, history>>

StoreAir(c) ==
  LET h == handler[c] IN
  /\ At(c, "store_air")
  /\ tbi' = [tbi EXCEPT ![h.k][Field(h.src, h.k)] = Add(h.reg, h.time)]
  /\ handler' = [handler EXCEPT ![c] = Repeat(h, "load_air", "stamp_air")]
  /\ UNCHANGED <<kernel, last_jiffies, history>>

\* The end of update_tbi.  For terminals 0 and 1 the build reads jiffies before
\* the additions and stores it after them, for terminal 2 both come after.
StampAir(c) ==
  LET h == handler[c] IN
  /\ At(c, "stamp_air")
  /\ last_jiffies' \in Stamp(h)
  /\ handler' = [handler EXCEPT ![c].pc = "publish", ![c].time = 0, ![c].stamp = 0]
  /\ UNCHANGED <<kernel, tbi, history>>

\* proc_create("tbi", ...): a second entry of the same name is refused.
Publish(c) ==
  LET h == handler[c] IN
  /\ At(c, "publish")
  /\ proc_tbi' = TRUE
  /\ handler' = [handler EXCEPT ![c] =
                  IF h.kind = "timer" THEN [h EXCEPT !.pc = "rearm"] ELSE Off]
  /\ UNCHANGED <<jiffies, timer, module, counted, history>>

\* The timer handler arms its timer again.
Rearm(c) ==
  /\ At(c, "rearm")
  /\ timer' = Arm(jiffies)
  /\ handler' = [handler EXCEPT ![c] = Off]
  /\ UNCHANGED <<jiffies, proc_tbi, module, counted, history>>

\* Mutant of DelTimer: the module is removed with its timer armed.
DelTimerForgotten ==
  /\ module = "live"
  /\ module' = "timer_deleted"
  /\ late' = IF InFlight("timer") THEN {"timer"} ELSE {}
  /\ UNCHANGED <<jiffies, timer, proc_tbi, counted, handler, packets, owed, lost, overlap>>

\* exit_hello, one call at a time.  del_timer deactivates a pending timer and
\* does not wait for a handler that runs.
DelTimer ==
  /\ module = "live"
  /\ module' = "timer_deleted"
  /\ timer' = [timer EXCEPT !.pending = FALSE]
  /\ late' = IF InFlight("timer") THEN {"timer"} ELSE {}
  /\ UNCHANGED <<jiffies, proc_tbi, counted, handler, packets, owed, lost, overlap>>

RemoveProc ==
  /\ module = "timer_deleted"
  /\ module' = "proc_removed"
  /\ proc_tbi' = FALSE
  /\ late' = IF \E kind \in Kinds : InFlight(kind)
             THEN late \cup {"publisher"} ELSE late
  /\ UNCHANGED <<jiffies, timer, counted, handler, packets, owed, lost, overlap>>

UnregisterHook ==
  /\ module = "proc_removed"
  /\ module' = "unhooked"
  /\ UNCHANGED <<jiffies, timer, proc_tbi, counted, handler, history>>

\* The kernel frees the module's text after a grace period in which every
\* handler that was running has returned.
FreeModule ==
  /\ module = "unhooked"
  /\ \A c \in CPUs : At(c, "off")
  /\ module' = "unloaded"
  /\ UNCHANGED <<jiffies, timer, proc_tbi, counted, handler, history>>

Continue(c) ==
  \/ LoadJiffies(c) \/ SubLast(c)
  \/ LoadIdle(c) \/ StoreIdle(c) \/ StampIdle(c)
  \/ LoadAir(c) \/ StoreAir(c) \/ StampAir(c)
  \/ Publish(c) \/ Rearm(c)

Exit == DelTimer \/ RemoveProc \/ UnregisterHook \/ FreeModule

Next ==
  \/ Tick
  \/ \E c \in CPUs : \/ \E src \in Terminals \cup {Other}, d \in Durations : Hook(c, src, d)
                     \/ TimerFires(c)
                     \/ Continue(c)
  \/ Exit

Spec == Init /\ [][Next]_vars

\* The clock ticks, a softirq handler that was entered runs to its end, and an
\* expired timer is eventually run.  Packets and rmmod may never come.
Fairness ==
  /\ WF_vars(Tick)
  /\ \A c \in CPUs : WF_vars(Continue(c))
  /\ WF_vars(\E c \in CPUs : TimerFires(c))

FairSpec == Spec /\ Fairness

-----------------------------------------------------------------------------

Handlers == [pc : Points, kind : Kinds, src : Terminals \cup {Other}, time : Nat,
             k : Terminals, idle : Nat, reg : Nat, stamp : Nat]

\* Every variable stays in its type; in particular a handler's terminal index
\* stays inside tbi.
TypeOK ==
  /\ jiffies \in Nat
  /\ last_jiffies \in Nat
  /\ tbi \in [Terminals -> [Fields -> Nat]]
  /\ handler \in [CPUs -> Handlers]
  /\ timer \in [pending : BOOLEAN, expires : Nat]
  /\ proc_tbi \in BOOLEAN
  /\ module \in Modules
  /\ packets \in Nat
  /\ owed \in [Terminals -> [Fields -> Nat]]
  /\ lost \in Nat
  /\ overlap \in BOOLEAN
  /\ late \subseteq {"timer", "publisher"}

\* On any number of CPUs and through any race of the unlocked additions, no
\* counter of update_tbi ever shows more airtime than the packets account for:
\* a race may lose airtime, it never invents it.
AirNeverOvercounted ==
  \A k \in Terminals, f \in {"t", "b"} : tbi[k][f] <= owed[k][f]

Quiet == \A c \in CPUs : ~Updating(c)

\* As long as no two updates have overlapped, between updates the channel was
\* transmitting or busy for the same time as seen from every terminal: what
\* one terminal sent is what all the others waited.
AirtimeConserved ==
  Quiet /\ ~overlap =>
    \A j, k \in Terminals : tbi[j]["t"] + tbi[j]["b"] = tbi[k]["t"] + tbi[k]["b"]

\* As long as no two updates have overlapped, the idle time of every terminal
\* is the time up to last_jiffies, less at most the ticks that fell inside an
\* update: no tick is counted twice, and none is lost outside the updates.
IdleTimeExact ==
  Quiet /\ ~overlap =>
    \A k \in Terminals : /\ tbi[k]["i"] <= last_jiffies
                         /\ tbi[k]["i"] >= last_jiffies - lost

\* As long as no two updates have overlapped, no counter shown in /proc/tbi
\* decreases and last_jiffies does not go back: what tx_delay.py subtracts
\* from the next reading is never larger than that reading.
MonotoneUnlessOverlap ==
  [][~overlap' => /\ last_jiffies' >= last_jiffies
                  /\ \A k \in Terminals, f \in Fields : tbi'[k][f] >= tbi[k][f]]_vars

\* After rmmod a pending timer, which would run freed code, is left only by a
\* timer handler that was running when del_timer was called, and a /proc/tbi
\* entry, which would refer to freed code, only by a handler that was running
\* at or entered after remove_proc_entry.
CleanUnload ==
  module = "unloaded" => /\ timer.pending => "timer" \in late
                         /\ proc_tbi => "publisher" \in late

\* The readers of /proc/tbi open it without a test: while the module stays
\* loaded the entry appears, with or without traffic.
EventuallyPublished == module = "live" ~> (proc_tbi \/ module # "live")

=============================================================================
