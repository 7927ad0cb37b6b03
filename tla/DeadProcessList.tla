--------------------------- MODULE DeadProcessList ---------------------------
(***************************************************************************)
(* The dead processes of /proc/hw1: the record __put_task_struct keeps of  *)
(* every process that dies (hw1/linux/kernel/fork.c), and the module that  *)
(* lists and frees the records (hw1/mod/hw1.c, modes 'E' and 'T').         *)
(*                                                                         *)
(* The records hang on one circular list of the kernel, Node_head_ch.  A   *)
(* dying process is put away in softirq context (the RCU callback that     *)
(* drops the last reference); it appends with no lock.  /proc/hw1 is read  *)
(* and written in process context, with no lock and softirqs enabled.  So  *)
(* a death comes between any two steps of a read on the same CPU, and on   *)
(* another CPU two deaths interleave step by step, sharing the global      *)
(* pointer deadProcess.  One user process opens /proc/hw1 at a time.       *)
(*                                                                         *)
(* Records are numbered by the order of the deaths.  kmalloc succeeds.     *)
(***************************************************************************)
EXTENDS Integers, Sequences, FiniteSets

CONSTANTS
  CPUs,       \* processors
  Home,       \* the one the user process runs on
  Nodes,      \* addresses kmalloc may return
  Node_head_ch, \* the address of the head of the list
  Poison,     \* LIST_POISON1 and LIST_POISON2, put into freed nodes
  NoNode,     \* an uninitialised pointer
  Room,       \* records that fit into the first buffer of seq_file
  MaxDeaths,  \* bound on the processes that die
  MaxCalls    \* bound on the opens and writes of /proc/hw1

ASSUME HomeAssumption  == Home \in CPUs
ASSUME NodesAssumption == IsFiniteSet(Nodes) /\ Node_head_ch \notin Nodes /\ Poison \notin Nodes
                          /\ NoNode \notin Nodes /\ Node_head_ch # Poison
ASSUME RoomAssumption  == Room \in Nat \ {0}
ASSUME BoundsAssumption == MaxDeaths \in Nat /\ MaxCalls \in Nat

Links == Nodes \cup {Node_head_ch}
Modes == {"T", "E", "other"}   \* the first character of a write; "other" includes '\0'

VARIABLES
  next, prev,       \* struct list_head of every node and of Node_head_ch
  allocated,        \* nodes kmalloc has returned and kfree has not taken back
  record,           \* the death a node describes; 0: not filled in yet
  deadProcess,      \* the global pointer of fork.c
  softirq,          \* per CPU: the __put_task_struct it runs
  flag_check_mode,  \* which show function the next open takes
  input_str,        \* the first character of the last write
  proc,             \* the user process inside open, read and write
  died,             \* history: deaths begun
  calls,            \* history: opens and writes (bounds the model)
  reported,         \* history: the records copied to the reader, in order
  cleared,          \* history: the records freed by echo E, and the deaths during one
  dropped,          \* history: the records in a buffer that overflowed
  raced             \* history: has a process died while Deleting

list    == <<next, prev, allocated, record>>
hw1     == <<flag_check_mode, input_str>>
history == <<died, calls, reported, cleared, dropped, raced>>
vars    == <<list, deadProcess, softirq, hw1, proc, history>>

-----------------------------------------------------------------------------

DeletePoints == {"delete", "take", "unlink_next", "unlink_prev", "free"}
Points       == {"idle", "opened", "print", "printed"} \cup DeletePoints

Idle == [pc |-> "idle", show |-> "other", pos |-> Node_head_ch, q |-> Node_head_ch,
         before |-> Node_head_ch, after |-> Node_head_ch, buffer |-> <<>>, room |-> Room]
Off  == [pc |-> "off", pid |-> 0, new |-> NoNode, tail |-> Node_head_ch]

Init ==
  /\ next = [n \in Links |-> IF n = Node_head_ch THEN Node_head_ch ELSE Poison]
  /\ prev = [n \in Links |-> IF n = Node_head_ch THEN Node_head_ch ELSE Poison]
  /\ allocated = {}
  /\ record = [n \in Nodes |-> 0]
  /\ deadProcess = NoNode
  /\ softirq = [c \in CPUs |-> Off]
  /\ flag_check_mode = "T"
  /\ input_str = "other"
  /\ proc = Idle
  /\ died = 0 /\ calls = 0
  /\ reported = <<>> /\ cleared = {} /\ dropped = {}
  /\ raced = FALSE

\* In a delete loop, or in a print loop that has read the end of the list.
Deleting == \/ proc.pc \in DeletePoints
            \/ proc.pc = "print" /\ proc.pos = Node_head_ch
Clearing == Deleting /\ proc.show # "E"     \* the loop of write_call_back_func

-----------------------------------------------------------------------------
(* __put_task_struct of a task whose state is TASK_DEAD.                   *)

\* deadProcess = kmalloc(...); the name is copied in.
Allocate(c) ==
  /\ softirq[c].pc = "off"
  /\ died < MaxDeaths
  /\ \E n \in Nodes \ allocated :
       /\ allocated' = allocated \cup {n}
       /\ deadProcess' = n
       /\ record' = [record EXCEPT ![n] = 0]
  /\ died' = died + 1
  /\ softirq' = [softirq EXCEPT ![c] = [Off EXCEPT !.pc = "fill", !.pid = died + 1]]
  /\ raced' = (raced \/ Deleting)
  /\ cleared' = IF Clearing THEN cleared \cup {died + 1} ELSE cleared
  /\ UNCHANGED <<next, prev, hw1, proc, calls, reported, dropped>>

\* Each field is stored through the global, which the calls of strlen and
\* strncpy made the build load again.
Fill(c) ==
  /\ softirq[c].pc = "fill"
  /\ record' = [record EXCEPT ![deadProcess] = softirq[c].pid]
  /\ softirq' = [softirq EXCEPT ![c].pc = "read_tail"]
  /\ UNCHANGED <<next, prev, allocated, deadProcess, hw1, proc, history>>

\* list_add_tail(&deadProcess->list, &Node_head_ch), one store at a time.
ReadTail(c) ==
  /\ softirq[c].pc = "read_tail"
  /\ softirq' = [softirq EXCEPT ![c].pc = "link_head", ![c].new = deadProcess,
                                ![c].tail = prev[Node_head_ch]]
  /\ UNCHANGED <<list, deadProcess, hw1, proc, history>>

LinkHead(c) ==
  /\ softirq[c].pc = "link_head"
  /\ prev' = [prev EXCEPT ![Node_head_ch] = softirq[c].new]
  /\ softirq' = [softirq EXCEPT ![c].pc = "link_new"]
  /\ UNCHANGED <<next, allocated, record, deadProcess, hw1, proc, history>>

LinkNew(c) ==
  LET new == softirq[c].new IN
  /\ softirq[c].pc = "link_new"
  /\ next' = [next EXCEPT ![new] = Node_head_ch]
  /\ prev' = [prev EXCEPT ![new] = softirq[c].tail]
  /\ softirq' = [softirq EXCEPT ![c].pc = "link_tail"]
  /\ UNCHANGED <<allocated, record, deadProcess, hw1, proc, history>>

LinkTail(c) ==
  /\ softirq[c].pc = "link_tail"
  /\ next' = [next EXCEPT ![softirq[c].tail] = softirq[c].new]
  /\ softirq' = [softirq EXCEPT ![c] = Off]
  /\ UNCHANGED <<prev, allocated, record, deadProcess, hw1, proc, history>>

Death(c) == \/ Allocate(c) \/ Fill(c)
            \/ ReadTail(c) \/ LinkHead(c) \/ LinkNew(c) \/ LinkTail(c)

-----------------------------------------------------------------------------
(* The user process.  A softirq on its own CPU runs to its end first.      *)

At(point) == proc.pc = point /\ softirq[Home].pc = "off"

\* open_selected_proc takes the show function of the mode of this moment.
Open ==
  /\ At("idle")
  /\ calls < MaxCalls
  /\ calls' = calls + 1
  /\ proc' = [Idle EXCEPT !.pc = "opened", !.show = flag_check_mode]
  /\ UNCHANGED <<list, deadProcess, softirq, hw1, died, reported, cleared, dropped, raced>>

\* print_mode_A and print_mode_error leave the list alone.
ShowOther ==
  /\ At("opened")
  /\ proc.show # "E"
  /\ proc' = Idle
  /\ UNCHANGED <<list, deadProcess, softirq, hw1, history>>

\* Mutant: the loop starts at the second entry.
SecondEntry == next[next[Node_head_ch]]
FirstEntry  == next[Node_head_ch]

\* print_mode_B up to list_for_each_entry.
ShowDead ==
  /\ At("opened")
  /\ proc.show = "E"
  /\ proc' = [proc EXCEPT !.pc = "print", !.pos = FirstEntry]
  /\ UNCHANGED <<list, deadProcess, softirq, hw1, history>>

\* Mutant of AfterPrint: the records stay on the list.
ReadAgain  == "printed"
AfterPrint == "delete"

\* One record of print_mode_B, or the end of its loop.  Once the buffer of
\* seq_file has overflowed seq_printf stores nothing more.
PrintRecord ==
  /\ At("print")
  /\ IF proc.pos = Node_head_ch
     THEN /\ proc' = [proc EXCEPT !.pc = AfterPrint]
          /\ UNCHANGED dropped
     ELSE IF Len(proc.buffer) > proc.room
     THEN /\ proc' = [proc EXCEPT !.pos = next[@]]
          /\ dropped' = dropped \cup {record[proc.pos]}
     ELSE /\ proc' = [proc EXCEPT !.buffer = Append(@, record[proc.pos]),
                                  !.pos = next[proc.pos]]
          /\ UNCHANGED dropped
  /\ UNCHANGED <<list, deadProcess, softirq, hw1, died, calls, reported, cleared, raced>>

\* write_call_back_func; an empty write finds the character of the last one.
Write(ch) ==
  /\ At("idle")
  /\ calls < MaxCalls
  /\ calls' = calls + 1
  /\ input_str' = IF ch = "" THEN input_str ELSE ch
  /\ flag_check_mode' = input_str'
  /\ proc' = IF flag_check_mode' = "E" THEN [Idle EXCEPT !.pc = "delete"] ELSE Idle
  /\ UNCHANGED <<list, deadProcess, softirq, died, reported, cleared, dropped, raced>>

\* The delete loops of write_call_back_func and print_mode_B are the same
\* list_for_each_safe: pos = head->next, q = pos->next.
Delete ==
  /\ At("delete")
  /\ proc' = [proc EXCEPT !.pc = "take", !.pos = next[Node_head_ch], !.q = next[next[Node_head_ch]]]
  /\ UNCHANGED <<list, deadProcess, softirq, hw1, history>>

\* list_del(pos) reads both neighbours; at the head the loop ends.
Take ==
  /\ At("take")
  /\ proc' = IF proc.pos = Node_head_ch
             THEN IF proc.show = "E" THEN [proc EXCEPT !.pc = "printed"] ELSE Idle
             ELSE [proc EXCEPT !.pc = "unlink_prev", !.before = prev[proc.pos],
                               !.after = next[proc.pos]]
  /\ UNCHANGED <<list, deadProcess, softirq, hw1, history>>

UnlinkPrev ==
  /\ At("unlink_prev")
  /\ prev' = [prev EXCEPT ![proc.after] = proc.before]
  /\ proc' = [proc EXCEPT !.pc = "unlink_next"]
  /\ UNCHANGED <<next, allocated, record, deadProcess, softirq, hw1, history>>

\* Mutant of Bypass: the node stays reachable from the one before it.
BypassForgotten(node) == node
Bypass(node)          == proc.after

UnlinkNext ==
  /\ At("unlink_next")
  /\ next' = [next EXCEPT ![proc.before] = Bypass(proc.pos)]
  /\ proc' = [proc EXCEPT !.pc = "free"]
  /\ cleared' = IF Clearing THEN cleared \cup {record[proc.pos]} ELSE cleared
  /\ UNCHANGED <<prev, allocated, record, deadProcess, softirq, hw1,
                 died, calls, reported, dropped, raced>>

\* list_for_each_safe: the next node was read before.
Following(p, nxt) == p.q

\* The node is poisoned and freed; pos = q, q = pos->next.
Free ==
  /\ At("free")
  /\ next' = [next EXCEPT ![proc.pos] = Poison]
  /\ prev' = [prev EXCEPT ![proc.pos] = Poison]
  /\ allocated' = allocated \ {proc.pos}
  /\ proc' = LET pos == Following(proc, next') IN
             [proc EXCEPT !.pc = "take", !.pos = pos,
                          !.q = IF pos = Poison THEN Poison ELSE next'[pos]]
  /\ UNCHANGED <<record, deadProcess, softirq, hw1, history>>

\* seq_read: a buffer that overflowed is thrown away and the whole show
\* function runs again with one of twice the size; else the reader gets it.
SeqRead ==
  /\ At("printed")
  /\ IF Len(proc.buffer) > proc.room
     THEN /\ proc' = [Idle EXCEPT !.pc = "opened", !.show = proc.show, !.room = 2 * proc.room]
          /\ dropped' = dropped \cup {proc.buffer[i] : i \in DOMAIN proc.buffer}
          /\ UNCHANGED reported
     ELSE /\ proc' = Idle
          /\ reported' = reported \o proc.buffer
          /\ UNCHANGED dropped
  /\ UNCHANGED <<list, deadProcess, softirq, hw1, died, calls, cleared, raced>>

User == \/ Open \/ ShowOther \/ ShowDead \/ PrintRecord \/ SeqRead
        \/ \E ch \in Modes \cup {""} : Write(ch)
        \/ Delete \/ Take \/ UnlinkPrev \/ UnlinkNext \/ Free

Next == User \/ \E c \in CPUs : Death(c)

Spec == Init /\ [][Next]_vars

-----------------------------------------------------------------------------

\* The nodes a walk along next (or prev) from the head comes to: the least set
\* that has the one after the head and after each of its own.
Closed(link, S) == link[Node_head_ch] \in S /\ \A n \in S \ {Poison} : link[n] \in S
Walk(link) == {n \in Nodes \cup {Poison} :
                 \A S \in SUBSET (Links \cup {Poison}) : Closed(link, S) => n \in S}

Listed    == Walk(next)
InFlight  == {c \in CPUs : softirq[c].pc # "off"}
Recorded  == (1 .. died) \ {softirq[c].pid : c \in InFlight}
Pending   == {record[n] : n \in Listed} \cup {proc.buffer[i] : i \in DOMAIN proc.buffer}
Delivered == {reported[i] : i \in DOMAIN reported}

\* Every variable stays in its type; in particular the pointers of the print and
\* delete loops are never the poison of a freed node.
TypeOK ==
  /\ next \in [Links -> Links \cup {Poison}]
  /\ prev \in [Links -> Links \cup {Poison}]
  /\ allocated \subseteq Nodes
  /\ record \in [Nodes -> 0 .. MaxDeaths]
  /\ deadProcess \in Nodes \cup {NoNode}
  /\ softirq \in [CPUs -> [pc : {"off", "fill", "read_tail", "link_head", "link_new", "link_tail"},
                           pid : 0 .. MaxDeaths, new : Nodes \cup {NoNode}, tail : Links]]
  /\ flag_check_mode \in Modes /\ input_str \in Modes
  /\ proc \in [pc : Points, show : Modes, pos : Links, q : Links, before : Links,
               after : Links, buffer : Seq(1 .. MaxDeaths), room : Nat]
  /\ died \in 0 .. MaxDeaths /\ calls \in 0 .. MaxCalls
  /\ reported \in Seq(1 .. MaxDeaths)
  /\ cleared \subseteq 1 .. MaxDeaths /\ dropped \subseteq 1 .. MaxDeaths
  /\ raced \in BOOLEAN

\* On one CPU, whatever deaths interrupt it, no read or write comes to a freed
\* node, and none is left for the next one to come to: not on the list, not
\* at its tail, where the next death stores.
NoUseAfterFree ==
  InFlight = {} =>
    /\ Listed \subseteq allocated
    /\ prev[Node_head_ch] \in allocated \cup {Node_head_ch}
    /\ proc.pc \in {"print", "take", "unlink_prev", "unlink_next", "free"} =>
         proc.pos \in allocated \cup {Node_head_ch}

\* Every pointer is of its type, and leads to no freed node.
PointersSound == TypeOK /\ NoUseAfterFree

\* The dead are reported in the order they died, and nobody twice: a record is
\* freed before the reader sees it, also when the buffer overflows.
ReportedOnceInOrder ==
  \A i, j \in DOMAIN reported : i < j => reported[i] < reported[j]

\* As long as nobody died between the end of a print loop and the end of the
\* delete loop after it, nor during the delete loop of a write, every dead process has been
\* reported, or will be by the next read, or was cleared by echo E, or was in
\* a buffer that overflowed: there is no other way to lose one.
NoLossUnlessRaced ==
  InFlight = {} /\ ~raced =>
    Recorded \subseteq Delivered \cup Pending \cup cleared \cup dropped

\* hw1.c: "Basically, kernel list is circular list."  With no death and no call
\* in progress, prev leads back along next, through every allocated node.
CircularList ==
  InFlight = {} /\ proc.pc = "idle" =>
    /\ Listed = allocated
    /\ \A n \in Listed \cup {Node_head_ch} : next[n] # Poison /\ prev[next[n]] = n

=============================================================================
