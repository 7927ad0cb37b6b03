--------------------------- MODULE TerminalModule ---------------------------
(***************************************************************************)
(* The terminal kernel module (netfilter/terminal/terminal.c).             *)
(*                                                                         *)
(* post_hook_func sees every TCP segment the terminal sends, pre_hook_func *)
(* every one it receives.  From SYN, FIN and the sequence numbers they     *)
(* guess when a connection is up and count the segments sent again, the    *)
(* collisions.  All connections share five flags, one last_sequence and    *)
(* one total_collision, with no lock: each statement is a step of its own, *)
(* and hooks run concurrently in the module's Contexts, except that TCP    *)
(* sends the segments of one connection one after the other.               *)
(***************************************************************************)
EXTENDS Integers, FiniteSets

CONSTANTS
  Contexts,     \* where hooks run: processors, and softirqs on top of them
  Conns,        \* connections
  InitialSeq,   \* initial sequence number of each connection
  SEQ,          \* 2^32, the modulus of TCP sequence numbers and of unsigned int
  WORD,         \* the modulus of unsigned long, 2^32 or 2^64
  MaxSegments,  \* bound on the data segments of a connection
  MaxResends    \* bound on all retransmissions

ASSUME ContextsAssumption == IsFiniteSet(Contexts) /\ IsFiniteSet(Conns)
ASSUME ConnsAssumption     == Conns # {}
ASSUME SeqAssumption      == SEQ \in Nat \ {0} /\ WORD \in Nat \ {0} /\ SEQ <= WORD
ASSUME InitialSeqAssumption == InitialSeq \in [Conns -> 0 .. (SEQ - 1)]
ASSUME BoundsAssumption   == MaxSegments \in Nat /\ MaxResends \in Nat

VARIABLES
  flag,             \* the five bools
  last_sequence,    \* highest sequence number seen
  total_collision,  \* what /proc/collision_count prints
  entry,            \* does /proc/collision_count exist
  hook,             \* per context: the hook it runs, and on which segment
  module,           \* how far exit_hello has come
  tcp,              \* the terminal's connections
  resends,          \* history: retransmissions by either side (bounds the model)
  resent,           \* history: data segments sent again, the truth to count
  seen,             \* history: has post_hook_func let a segment go
  overlap,          \* history: have two hooks run at once
  crossed,          \* history: was a segment hooked while another connection was up
  passive,          \* history: has the peer opened, or closed first, a connection
  aborted,          \* history: has a connection ended without FIN
  wrapped,          \* history: has a sequence number wrapped around to 0
  late              \* history: has exit_hello left a post hook to run after it

flags   == <<flag, last_sequence, total_collision>>
proc    == <<entry, seen>>
history == <<overlap, crossed, passive, aborted, wrapped, late>>
vars    == <<flags, proc, hook, module, tcp, resends, resent, history>>

-----------------------------------------------------------------------------

Flags == {"syn_require", "syn_acked", "fin_require", "init_sequence", "connected"}

\* The statements of the hooks that assign a bool, and what follows them.
Assigns ==
  [syn_require_on   |-> [flag |-> "syn_require",   is |-> TRUE,  then |-> "init_sequence_off"],
   init_sequence_off|-> [flag |-> "init_sequence", is |-> FALSE, then |-> "payload"],
   fin_require_on   |-> [flag |-> "fin_require",   is |-> TRUE,  then |-> "payload"],
   init_sequence_on |-> [flag |-> "init_sequence", is |-> TRUE,  then |-> "set_last"],
   syn_acked_off    |-> [flag |-> "syn_acked",     is |-> FALSE, then |-> "syn_require_off"],
   syn_require_off  |-> [flag |-> "syn_require",   is |-> FALSE, then |-> "connected_on"],
   connected_on     |-> [flag |-> "connected",     is |-> TRUE,  then |-> "return"],
   syn_acked_on     |-> [flag |-> "syn_acked",     is |-> TRUE,  then |-> "return"],
   fin_require_off  |-> [flag |-> "fin_require",   is |-> FALSE, then |-> "connected_off"],
   connected_off    |-> [flag |-> "connected",     is |-> FALSE, then |-> "forget_sequence"],
   forget_sequence  |-> [flag |-> "init_sequence", is |-> FALSE, then |-> "return"]]

\* The conditions that read a bool, with their two branches.
Tests ==
  [if_connected     |-> [flag |-> "connected",     yes |-> "if_init",       no |-> "remove"],
   if_init          |-> [flag |-> "init_sequence", yes |-> "compare",       no |-> "init_sequence_on"],
   if_syn_acked     |-> [flag |-> "syn_acked",     yes |-> "syn_acked_off", no |-> "return"],
   if_syn_require   |-> [flag |-> "syn_require",   yes |-> "syn_acked_on",  no |-> "return"],
   if_fin_require   |-> [flag |-> "fin_require",   yes |-> "fin_require_off", no |-> "return"]]

Points == DOMAIN Assigns \cup DOMAIN Tests \cup
          {"off", "payload", "set_last", "compare", "load", "store", "advance",
           "remove", "create", "return"}

Modules == {"live", "removed", "post_gone", "pre_gone", "unloaded"}

\* Segments: what the hooks look at.  Numbers count from the connection's SYN.
Kinds == {"syn", "ack", "data", "fin", "data_fin"}
Segments == [conn : Conns, out : BOOLEAN, kind : Kinds, number : 0 .. MaxSegments]
HasData(seg) == seg.kind \in {"data", "data_fin"}
HasFin(seg)  == seg.kind \in {"fin", "data_fin"}
\* Mutant: the number is not cut to 32 bits.
SequenceUncut(x, n) == InitialSeq[x] + n
Sequence(x, n)      == (InitialSeq[x] + n) % SEQ
SequenceOf(c)  == Sequence(hook[c].seg.conn, hook[c].seg.number)

NoSegment(x) == [conn |-> x, out |-> FALSE, kind |-> "ack", number |-> 0]
Idle == [pc |-> "off", seg |-> NoSegment(CHOOSE x \in Conns : TRUE), reg |-> 0]

\* init_hello leaves init_sequence as the loader made it: FALSE.
Init ==
  /\ flag            = [b \in Flags |-> FALSE]
  /\ last_sequence   = 0
  /\ total_collision = 0
  /\ entry   = FALSE
  /\ hook    = [c \in Contexts |-> Idle]
  /\ module  = "live"
  /\ tcp     = [x \in Conns |-> [state |-> "closed", sent |-> 0]]
  /\ resends = 0
  /\ resent  = 0
  /\ seen    = FALSE
  /\ overlap = FALSE
  /\ crossed = FALSE
  /\ passive = FALSE
  /\ aborted = FALSE
  /\ wrapped = FALSE
  /\ late    = FALSE

At(c, point)  == hook[c].pc = point
Goto(c, point) == hook' = [hook EXCEPT ![c].pc = point]
Quiet         == \A c \in Contexts : At(c, "off")
Hooked(x)     == {c \in Contexts : ~At(c, "off") /\ hook[c].seg.conn = x}
Up(x)         == tcp[x].state \notin {"closed", "done"} \/ Hooked(x) # {}
Sending(x)    == \E c \in Hooked(x) : hook[c].seg.out

-----------------------------------------------------------------------------
(* The hooks *)

\* The first statement a hook reaches on a segment.  Mutant: FINs sent go unseen.
EntryWithoutFin(seg) ==
  CASE seg.kind = "syn"             -> IF seg.out THEN "syn_require_on" ELSE "if_syn_require"
    [] seg.out /\ seg.kind # "syn"   -> "payload"
    [] ~seg.out /\ HasFin(seg)      -> "if_fin_require"
    [] OTHER                        -> "return"

Entry(seg) ==
  CASE seg.out  /\ seg.kind = "syn" -> "syn_require_on"
    [] seg.out  /\ HasFin(seg)      -> "fin_require_on"
    [] seg.out  /\ seg.kind \in {"ack", "data"} -> "payload"
    [] ~seg.out /\ seg.kind = "syn" -> "if_syn_require"
    [] ~seg.out /\ HasFin(seg)      -> "if_fin_require"
    [] OTHER                        -> "return"

\* Netfilter calls the hook of the segment's direction, if it is registered.
Enter(c, seg) ==
  /\ At(c, "off")
  /\ IF seg.out THEN module \in {"live", "removed"}
                ELSE module \in {"live", "removed", "post_gone"}
  /\ hook' = [hook EXCEPT ![c] = [pc |-> Entry(seg), seg |-> seg, reg |-> 0]]
  /\ overlap' = (overlap \/ ~Quiet)
  /\ crossed' = (crossed \/ \E x \in Conns \ {seg.conn} : Up(x))
  /\ wrapped' = (wrapped \/ (HasData(seg) /\ InitialSeq[seg.conn] + seg.number >= SEQ))
  /\ late' = (late \/ (seg.out /\ module = "removed"))
  /\ UNCHANGED <<flags, proc, module, aborted>>

Assign(c) ==
  /\ hook[c].pc \in DOMAIN Assigns
  /\ LET a == Assigns[hook[c].pc] IN
     /\ flag' = [flag EXCEPT ![a.flag] = a.is]
     /\ Goto(c, a.then)
  /\ UNCHANGED <<last_sequence, total_collision, proc, module, tcp, resends, resent, history>>

Test(c) ==
  /\ hook[c].pc \in DOMAIN Tests
  /\ LET t == Tests[hook[c].pc] IN Goto(c, IF flag[t.flag] THEN t.yes ELSE t.no)
  /\ UNCHANGED <<flags, proc, module, tcp, resends, resent, history>>

\* connected && PAYLOAD_SIZE(skb): without payload, connected makes no difference.
Payload(c) ==
  /\ At(c, "payload")
  /\ Goto(c, IF HasData(hook[c].seg) THEN "if_connected" ELSE "remove")
  /\ UNCHANGED <<flags, proc, module, tcp, resends, resent, history>>

\* last_sequence = current_sequence - 1.  Mutant: without the - 1.
BeforeOffByOne(sequence) == sequence
Before(sequence)         == (sequence - 1) % WORD

SetLast(c) ==
  /\ At(c, "set_last")
  /\ last_sequence' = Before(SequenceOf(c))
  /\ Goto(c, "compare")
  /\ UNCHANGED <<flag, total_collision, proc, module, tcp, resends, resent, history>>

\* Mutant: the last segment sent again goes uncounted.
CollidedStrictly(sequence) == sequence < last_sequence
Collided(sequence)         == sequence <= last_sequence

Compare(c) ==
  /\ At(c, "compare")
  /\ Goto(c, IF Collided(SequenceOf(c)) THEN "load" ELSE "advance")
  /\ UNCHANGED <<flags, proc, module, tcp, resends, resent, history>>

\* total_collision++
Load(c) ==
  /\ At(c, "load")
  /\ hook' = [hook EXCEPT ![c].pc = "store", ![c].reg = total_collision]
  /\ UNCHANGED <<flags, proc, module, tcp, resends, resent, history>>

Store(c) ==
  /\ At(c, "store")
  /\ total_collision' = (hook[c].reg + 1) % SEQ
  /\ hook' = [hook EXCEPT ![c].pc = "remove", ![c].reg = 0]
  /\ UNCHANGED <<flag, last_sequence, proc, module, tcp, resends, resent, history>>

\* last_sequence = current_sequence
Advance(c) ==
  /\ At(c, "advance")
  /\ last_sequence' = SequenceOf(c)
  /\ Goto(c, "remove")
  /\ UNCHANGED <<flag, total_collision, proc, module, tcp, resends, resent, history>>

\* remove_proc_entry, then proc_create, which refuses a second entry of the name.
RemoveEntry(c) ==
  /\ At(c, "remove")
  /\ entry' = FALSE
  /\ Goto(c, "create")
  /\ UNCHANGED <<flags, seen, module, tcp, resends, resent, history>>

CreateEntry(c) ==
  /\ At(c, "create")
  /\ entry' = TRUE
  /\ Goto(c, "if_syn_acked")
  /\ UNCHANGED <<flags, seen, module, tcp, resends, resent, history>>

-----------------------------------------------------------------------------
(* TCP, as the hooks see it: a segment acts on its connection once its hook *)
(* has returned, an outgoing one by being sent, an incoming one by being    *)
(* delivered.                                                               *)

Connected == {"open", "fin_wait", "close_wait", "last_ack"}
Finishing == {"fin_wait", "last_ack"}   \* a FIN was sent, and is not acknowledged
States    == {"closed", "syn_sent", "syn_rcvd", "acking", "done"} \cup Connected

Send(c, x, kind, number) == ~Sending(x) /\ Enter(c, [conn |-> x, out |-> TRUE, kind |-> kind, number |-> number])
Receive(c, x, kind)      == Enter(c, [conn |-> x, out |-> FALSE, kind |-> kind, number |-> 0])

\* A first SYN, SYN-ACK or FIN goes out, or a segment with none of them and no data.
SendControl(c, x) ==
  /\ \/ tcp[x].state \in {"closed", "syn_rcvd"}   /\ Send(c, x, "syn", 0)
     \/ tcp[x].state \in {"acking"} \cup Connected /\ Send(c, x, "ack", 0)
     \/ tcp[x].state \in {"open", "close_wait"}  /\ Send(c, x, "fin", 0)
  /\ UNCHANGED <<tcp, resends, resent, passive>>

\* The next data segment goes out, the last one perhaps with the FIN.
SendData(c, x) ==
  /\ tcp[x].state \in {"open", "close_wait"}
  /\ tcp[x].sent < MaxSegments
  /\ \E kind \in {"data", "data_fin"} : Send(c, x, kind, tcp[x].sent + 1)
  /\ tcp' = [tcp EXCEPT ![x].sent = @ + 1]
  /\ UNCHANGED <<resends, resent, passive>>

\* A retransmission timer: the SYN, the FIN or a data segment, the last one perhaps
\* with the FIN, goes out again.
Resend(c, x) ==
  /\ resends < MaxResends
  /\ resends' = resends + 1
  /\ \/ /\ tcp[x].state \in {"syn_sent", "syn_rcvd"}
        /\ Send(c, x, "syn", 0)
        /\ UNCHANGED resent
     \/ /\ tcp[x].state \in Finishing
        /\ Send(c, x, "fin", 0)
        /\ UNCHANGED resent
     \/ /\ tcp[x].state \in Connected
        /\ \E n \in 1 .. tcp[x].sent : Send(c, x, "data", n)
        /\ resent' = resent + 1
     \/ /\ tcp[x].state \in Finishing /\ tcp[x].sent > 0
        /\ Send(c, x, "data_fin", tcp[x].sent)
        /\ resent' = resent + 1
  /\ UNCHANGED <<tcp, passive>>

\* SYN, SYN-ACK or FIN of the peer arrives.
ReceiveControl(c, x) ==
  /\ \/ tcp[x].state \in {"closed", "syn_sent"} /\ Receive(c, x, "syn")
     \/ tcp[x].state \in {"open", "fin_wait"}   /\ Receive(c, x, "fin")
  /\ passive' = (passive \/ tcp[x].state \in {"closed", "open"})
  /\ UNCHANGED <<tcp, resends, resent>>

\* The peer's SYN-ACK or FIN arrives again: its answer was lost.
ReceiveAgain(c, x) ==
  /\ resends < MaxResends
  /\ resends' = resends + 1
  /\ \/ tcp[x].state = "open" /\ Receive(c, x, "syn")
     \/ tcp[x].state = "done" /\ Receive(c, x, "fin")
  /\ UNCHANGED <<tcp, resent, passive>>

\* The final ACK of the peer, which no hook heeds.
LastAck(x) ==
  /\ tcp[x].state = "last_ack"
  /\ ~Sending(x)
  /\ tcp' = [tcp EXCEPT ![x].state = "done"]
  /\ UNCHANGED <<flags, proc, hook, module, resends, resent, history>>

\* A reset, or the last timer: the handshake failed, or the connection is lost.
\* No hook heeds a reset; one that is sent is like any segment without data.
Abort(x) ==
  /\ tcp[x].state \notin {"closed", "done"}
  /\ ~Sending(x)
  /\ tcp' = [tcp EXCEPT ![x].state = "done"]
  /\ aborted' = TRUE
  /\ UNCHANGED <<flags, proc, hook, module, resends, resent,
                 overlap, crossed, passive, wrapped, late>>

AfterSend(state, seg) ==
  CASE seg.kind = "syn" /\ state = "closed"     -> "syn_sent"
    [] seg.kind = "syn" /\ state = "syn_rcvd"   -> "open"
    [] seg.kind = "ack" /\ state = "acking"     -> "open"
    [] HasFin(seg)      /\ state = "open"       -> "fin_wait"
    [] HasFin(seg)      /\ state = "close_wait" -> "last_ack"
    [] OTHER                                    -> state

AfterReceive(state, seg) ==
  CASE seg.kind = "syn" /\ state = "closed"     -> "syn_rcvd"
    [] seg.kind = "syn" /\ state = "syn_sent"   -> "acking"
    [] HasFin(seg)      /\ state = "open"       -> "close_wait"
    [] HasFin(seg)      /\ state = "fin_wait"   -> "done"
    [] OTHER                                    -> state

\* return NF_ACCEPT
Return(c) ==
  /\ At(c, "return")
  /\ LET seg == hook[c].seg IN
     tcp' = [tcp EXCEPT ![seg.conn].state =
              IF seg.out THEN AfterSend(@, seg) ELSE AfterReceive(@, seg)]
  /\ seen' = (seen \/ hook[c].seg.out)
  /\ hook' = [hook EXCEPT ![c] = Idle]
  /\ UNCHANGED <<flags, entry, module, resends, resent, history>>

-----------------------------------------------------------------------------
(* Unloading *)

\* Mutant: the entry stays.
RemoveForgotten ==
  /\ module = "live"
  /\ module' = "removed"
  /\ late' = (\E c \in Contexts : ~At(c, "off") /\ hook[c].seg.out)
  /\ UNCHANGED <<flags, entry, hook, tcp, resends, resent, seen, overlap, crossed, passive, aborted, wrapped>>

RemoveOnExit ==
  /\ module = "live"
  /\ module' = "removed"
  /\ entry' = FALSE
  /\ late' = (\E c \in Contexts : ~At(c, "off") /\ hook[c].seg.out)
  /\ UNCHANGED <<flags, hook, tcp, resends, resent, seen, overlap, crossed, passive, aborted, wrapped>>

\* Unregisters post_hook_func, then pre_hook_func; the text is freed after a
\* grace period in which every running hook has returned.
Unregister ==
  /\ \/ module = "removed"   /\ module' = "post_gone"
     \/ module = "post_gone" /\ module' = "pre_gone"
     \/ module = "pre_gone"  /\ Quiet /\ module' = "unloaded"
  /\ UNCHANGED <<flags, proc, hook, tcp, resends, resent, history>>

-----------------------------------------------------------------------------

Statement(c) ==
  \/ Assign(c) \/ Test(c) \/ Payload(c) \/ SetLast(c) \/ Compare(c) \/ Load(c)
  \/ Store(c) \/ Advance(c) \/ RemoveEntry(c) \/ CreateEntry(c) \/ Return(c)

Next ==
  \/ \E c \in Contexts : Statement(c)
  \/ \E c \in Contexts, x \in Conns : \/ SendControl(c, x) \/ SendData(c, x) \/ Resend(c, x)
                                      \/ ReceiveControl(c, x) \/ ReceiveAgain(c, x)
  \/ \E x \in Conns : LastAck(x) \/ Abort(x)
  \/ RemoveOnExit \/ Unregister

Spec == Init /\ [][Next]_vars

-----------------------------------------------------------------------------

\* Every variable stays in its type.
TypeOK ==
  /\ flag \in [Flags -> BOOLEAN]
  /\ last_sequence \in 0 .. (WORD - 1)
  /\ total_collision \in 0 .. (SEQ - 1)
  /\ hook \in [Contexts -> [pc : Points, seg : Segments, reg : 0 .. (SEQ - 1)]]
  /\ module \in Modules
  /\ tcp \in [Conns -> [state : States, sent : 0 .. MaxSegments]]
  /\ resends \in 0 .. MaxResends
  /\ resent \in 0 .. MaxResends
  /\ {entry, seen, overlap, crossed, passive, aborted, wrapped, late} \subseteq BOOLEAN

\* As long as connections do not cross and no sequence number wraps, a segment
\* counted as a collision was a retransmission, whatever the hooks' races, whoever
\* opens and closes and however a connection ends.
NeverOvercounts ==
  ~crossed /\ ~wrapped => total_collision <= resent

\* If moreover no two hooks ran at once and the terminal opened and closed every
\* connection, as pktgen.py does, and none was refused or reset, every
\* retransmission was counted, in an unsigned int.
CountsEveryResend ==
  Quiet /\ ~crossed /\ ~wrapped /\ ~overlap /\ ~passive /\ ~aborted
    => total_collision = resent % SEQ

\* In the same circumstances the module takes a connection for up exactly from
\* the end of its handshake to the peer's FIN.
ConnectedTracksTcp ==
  Quiet /\ ~crossed /\ ~overlap /\ ~passive /\ ~aborted =>
    (flag["connected"] <=> \E x \in Conns : tcp[x].state \in {"open", "fin_wait"})

\* Once a segment was let go, /proc/collision_count is missing only while a hook
\* stands between its remove_proc_entry and its proc_create: two hooks that remove
\* and create against each other do not lose it, though the proc_create of one
\* fails when the other was first.
EntryPresent ==
  module = "live" /\ seen => entry \/ \E c \in Contexts : At(c, "create")

\* An entry that outlives the module was created by a post hook that exit_hello
\* did not keep from running after its remove_proc_entry.
CleanUnload == module = "unloaded" /\ entry => late

=============================================================================
