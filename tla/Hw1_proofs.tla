----------------------------- MODULE Hw1_proofs -----------------------------
(***************************************************************************)
(* Theorems about the two reports of /proc/hw1.                            *)
(*                                                                         *)
(* The dead process list on one processor, for any number of nodes, deaths *)
(* and calls and any size of the first buffer: no pointer leads to a freed *)
(* node, the dead are reported once and in order, and none is lost but in  *)
(* the ways the model names.  There a death runs between two steps of the  *)
(* user process.  The invariant says which nodes a walk from the head      *)
(* comes to, and what the registers of the death and of the loops know     *)
(* about them.                                                             *)
(*                                                                         *)
(* The process report: whatever tasks do while print_mode_A walks the task *)
(* list, each task has one row, but for those whose mm changed; and if     *)
(* nothing changed, the header agrees with the rows.                       *)
(***************************************************************************)
EXTENDS DeadProcessList, ProcessReport, FiniteSetTheorems, SequenceTheorems,
        WellFoundedInduction, TLAPS

\* A set of numbers has a least one, by the well-foundedness of < on Nat.
LEMMA Least ==
  ASSUME NEW S \in SUBSET Nat, S # {}
  PROVE  \E m \in S : \A n \in S : m <= n
<1> DEFINE R == {p \in Nat \X Nat : p[1] < p[2]}
<1>1. IsWellFoundedOn(R, Nat)
  BY NatLessThanWellFounded DEF OpToRel
<1>2. PICK m \in S : \A n \in S : ~(<<n, m>> \in R)
  <2> HIDE DEF R
  <2> QED  BY <1>1, WFMin
<1>3. \A n \in S : n \in Nat /\ m \in Nat /\ ~(n < m)
  BY <1>2
<1> QED  BY <1>3

(***************************************************************************)
(* The dead process list.                                                  *)
(***************************************************************************)

(* The invariant.  L is the set of nodes on the list.                      *)

\* The death in progress, the deaths before it, and its node.
Dying   == softirq[Home].pc # "off"
Last    == IF Dying THEN died - 1 ELSE died
Linking == softirq[Home].pc \in {"link_head", "link_new", "link_tail"}
New     == IF Linking THEN softirq[Home].new ELSE deadProcess

\* The end of the list, as it was before the death in progress.
OldTail == IF softirq[Home].pc \in {"link_new", "link_tail"} THEN softirq[Home].tail
           ELSE prev[Node_head_ch]
FirstNode   == next[Node_head_ch]
ElementsOf(s) == {s[i] : i \in DOMAIN s}

\* The list runs through L in the order of the deaths.
Chain(L) ==
  /\ FirstNode \in L \cup {Node_head_ch}
  /\ FirstNode # Node_head_ch => prev[FirstNode] = Node_head_ch
  /\ \A n \in L :
       /\ record[n] \in 1 .. Last
       /\ FirstNode \in L /\ record[FirstNode] <= record[n]
       /\ next[n] \in L \cup {Node_head_ch}
       /\ next[n] # Node_head_ch => record[n] < record[next[n]]
  /\ \A m, n \in L :
       /\ record[n] < record[m] => next[n] \in L /\ record[next[n]] <= record[m]
       /\ record[m] = record[n] => m = n

\* Its end is where the head's prev points, unless a death raced with the deletion
\* of the last node: then it points to a node off the list, or will do so.
TailInv(L) ==
  \/ /\ OldTail \in L \cup {Node_head_ch}
     /\ next[OldTail] = Node_head_ch
  \/ /\ L = {}
     /\ OldTail \in allocated
     /\ raced
  \/ /\ proc.pc = "unlink_next"
     /\ proc.after = Node_head_ch
     /\ OldTail = Node_head_ch

\* What a death has done so far.
DeathInv(L) ==
  Dying =>
    /\ softirq[Home].pid = died /\ died >= 1
    /\ New \in allocated \ L /\ New # OldTail
    /\ proc.pc \in {"unlink_next", "free"} => New # proc.pos
    /\ softirq[Home].pc # "fill" => record[New] = died
    /\ softirq[Home].pc = "link_head" => softirq[Home].tail = OldTail
    /\ softirq[Home].pc \in {"link_new", "link_tail"} => prev[Node_head_ch] = New
    /\ softirq[Home].pc = "link_tail" => next[New] = Node_head_ch /\ prev[New] = OldTail
    /\ Deleting => raced

\* Where the print loop and the delete loop are.
PrintInv(L) == proc.pc = "print" => proc.pos \in L \cup {Node_head_ch}

TakeInv ==
  proc.pc = "take" /\ proc.pos # Node_head_ch =>
    proc.pos = FirstNode /\ proc.q \in {next[FirstNode], Node_head_ch}

UnlinkInv ==
  /\ proc.pc \in {"unlink_prev", "unlink_next"} =>
       /\ proc.pos \in allocated /\ record[proc.pos] \in 1 .. Last
       /\ proc.before = Node_head_ch /\ proc.q \in {proc.after, Node_head_ch}
       /\ proc.after # Node_head_ch \/ proc.pc = "unlink_prev" \/ ~raced => proc.pos = FirstNode
       /\ proc.after # Node_head_ch \/ ~raced => proc.after = next[proc.pos]
  /\ proc.pc = "unlink_next" =>
       IF proc.after = Node_head_ch THEN OldTail # proc.pos
       ELSE prev[proc.after] = Node_head_ch

FreeInv(L) ==
  proc.pc = "free" =>
    /\ proc.pos \in allocated \ L /\ OldTail # proc.pos
    /\ proc.q \in {FirstNode, Node_head_ch}

LoopInv(L) == PrintInv(L) /\ TakeInv /\ UnlinkInv /\ FreeInv(L)

\* What was reported, what is in the buffer and what is on the list follow each
\* other; the delete loop ends behind what the print loop has put into the buffer.
Behind(S) == \A n \in S, i \in DOMAIN proc.buffer : proc.buffer[i] < record[n]

Ascending(L) ==
  /\ \A i \in DOMAIN reported : reported[i] <= Last
  /\ \A i \in DOMAIN proc.buffer : proc.buffer[i] <= Last
  /\ \A i, j \in DOMAIN reported : i < j => reported[i] < reported[j]
  /\ \A i, j \in DOMAIN proc.buffer : i < j => proc.buffer[i] < proc.buffer[j]
  /\ \A i \in DOMAIN reported, n \in L : reported[i] < record[n]
  /\ \A i \in DOMAIN reported, j \in DOMAIN proc.buffer : reported[i] < proc.buffer[j]

BehindInv(L) ==
  /\ proc.pc = "print" /\ proc.pos # Node_head_ch => Behind({proc.pos})
  /\ proc.pc = "printed" => Behind(L)
  /\ proc.pc = "take" /\ proc.pos = Node_head_ch => Behind(L)
  /\ proc.pc \in {"take", "unlink_prev", "unlink_next", "free"} /\ proc.q = Node_head_ch =>
       Behind(L \ {proc.pos})
  /\ proc.pc \in {"idle", "opened"} \/ proc.show # "E" => proc.buffer = <<>>
  /\ proc.pc \in {"print", "printed"} => proc.show = "E"

\* Unless a death raced with a delete loop, nobody has been lost, and a delete loop
\* behind a print loop finds only what was printed.
Printed == ElementsOf(proc.buffer) \cup dropped

Kept(L) == {record[n] : n \in L} \cup ElementsOf(proc.buffer) \cup Delivered \cup cleared \cup dropped

LossInv(L) ==
  /\ ~raced => 1 .. Last \subseteq Kept(L)
  /\ proc.pc = "print" => \A n \in L :
       IF proc.pos = Node_head_ch THEN raced \/ record[n] \in Printed
       ELSE record[n] < record[proc.pos] => record[n] \in Printed
  /\ ~raced /\ proc.show = "E" /\ proc.pc \in DeletePoints =>
       \A n \in L : record[n] \in Printed

ListIs(L) == Chain(L) /\ TailInv(L) /\ DeathInv(L) /\ LoopInv(L)
             /\ Ascending(L) /\ BehindInv(L) /\ LossInv(L)

ListInv == TypeOK /\ \E L \in SUBSET allocated : ListIs(L)

-----------------------------------------------------------------------------
(* Deaths.                                                                 *)

LEMMA Names ==
  /\ Home \in CPUs /\ Node_head_ch \in Links /\ Nodes \subseteq Links
  /\ \A n \in Nodes : n # Node_head_ch /\ n # Poison /\ n # NoNode
  /\ Node_head_ch # Poison /\ Poison \notin Links
  BY HomeAssumption, NodesAssumption DEF Links

\* The records in a buffer, reported or not, are numbers.
LEMMA Numbers ==
  ASSUME TypeOK
  PROVE  /\ \A i \in DOMAIN proc.buffer : proc.buffer[i] \in 1 .. MaxDeaths
         /\ \A i \in DOMAIN reported : reported[i] \in 1 .. MaxDeaths
         /\ proc.buffer \in Seq(1 .. MaxDeaths) /\ DOMAIN proc.buffer = 1 .. Len(proc.buffer)
         /\ reported \in Seq(1 .. MaxDeaths) /\ DOMAIN reported = 1 .. Len(reported)
         /\ Len(proc.buffer) \in Nat /\ Len(reported) \in Nat
<1>1. proc.buffer \in Seq(1 .. MaxDeaths) /\ reported \in Seq(1 .. MaxDeaths)
  BY DEF TypeOK
<1>2. /\ DOMAIN proc.buffer = 1 .. Len(proc.buffer) /\ DOMAIN reported = 1 .. Len(reported)
      /\ Len(proc.buffer) \in Nat /\ Len(reported) \in Nat
  BY <1>1, LenProperties
<1> QED  BY <1>1, <1>2, ElementOfSeq

\* kmalloc returns a node that nobody looks at.
LEMMA AllocateKeeps ==
  ASSUME CPUs = {Home}, TypeOK, TypeOK', NEW L \in SUBSET allocated, ListIs(L), Allocate(Home)
  PROVE  \E G \in SUBSET allocated' : ListIs(G)'
<1> USE Names
<1>1. PICK n \in Nodes \ allocated : allocated' = allocated \cup {n} /\ deadProcess' = n
                                      /\ record' = [record EXCEPT ![n] = 0]
  BY DEF Allocate
<1>2. /\ softirq[Home].pc = "off" /\ softirq'[Home].pc = "fill" /\ softirq'[Home].pid = died + 1
      /\ died' = died + 1 /\ died \in Nat
      /\ raced' = (raced \/ Deleting)
      /\ cleared \subseteq cleared' /\ (Clearing => died + 1 \in cleared')
      /\ UNCHANGED <<next, prev, proc, reported, dropped>>
  BY DEF Allocate, TypeOK, Off
<1>3. /\ ~Dying /\ Dying' /\ Last = died /\ Last' = died
      /\ OldTail' = OldTail /\ FirstNode' = FirstNode /\ New' = n /\ Deleting' = Deleting
      /\ ~Linking'
  BY <1>1, <1>2 DEF Dying, Last, OldTail, FirstNode, New, Linking, Deleting
<1>4. /\ n \notin L
      /\ \A m \in allocated : record'[m] = record[m] /\ m \in Nodes
      /\ n \notin allocated
  BY <1>1, <1>2 DEF TypeOK
<1>5. OldTail \in allocated \cup {Node_head_ch}
  BY <1>1 DEF ListIs, TailInv
<1>6. Chain(L)'
  BY <1>2, <1>3, <1>4 DEF ListIs, Chain
<1>7. TailInv(L)'
  BY <1>1, <1>2, <1>3 DEF ListIs, TailInv
<1>8. DeathInv(L)'
  <2>1. proc.pc \in {"unlink_next", "free"} => proc.pos \in allocated
    BY <1>2 DEF ListIs, LoopInv, UnlinkInv, FreeInv
  <2>2. n \in allocated' \ L /\ n # OldTail'
    BY <1>1, <1>3, <1>4, <1>5
  <2>3. proc'.pc \in {"unlink_next", "free"} => n # proc'.pos
    BY <1>2, <1>4, <2>1
  <2>4. Deleting' => raced'
    BY <1>2, <1>3
  <2>5. softirq'[Home].pid = died' /\ died' >= 1
    BY <1>2
  <2>6. softirq'[Home].pc = "fill" /\ New' = n
    BY <1>2, <1>3
  <2>7. n \in allocated' \ L /\ n # OldTail'
    BY <2>2
  <2> QED  BY <2>3, <2>4, <2>5, <2>6, <2>7 DEF DeathInv
<1>9. LoopInv(L)'
  BY <1>1, <1>2, <1>3, <1>4 DEF ListIs, LoopInv, PrintInv, TakeInv, UnlinkInv, FreeInv
<1>10. Ascending(L)' /\ BehindInv(L)'
  <2>1. proc.pc = "print" /\ proc.pos # Node_head_ch => proc.pos \in L
    BY DEF ListIs, LoopInv, PrintInv
  <2> QED
    BY <1>1, <1>2, <1>3, <1>4, <2>1 DEF ListIs, Ascending, BehindInv, Behind
<1>11. LossInv(L)'
  <2>1. proc.pc = "print" /\ proc.pos # Node_head_ch => proc.pos \in L
    BY DEF ListIs, LoopInv, PrintInv
  <2>2. {record'[m] : m \in L} = {record[m] : m \in L}
    BY <1>4
  <2>3. Kept(L) \subseteq Kept(L)' /\ Printed' = Printed
    BY <1>2, <2>2 DEF Kept, Delivered, Printed
  <2> QED  BY <1>2, <1>3, <1>4, <2>1, <2>3 DEF ListIs, LossInv
<1> QED  BY <1>1, <1>6, <1>7, <1>8, <1>9, <1>10, <1>11 DEF ListIs

\* The steps up to the last store leave the list as it is: only the registers of
\* the death and its own node change.
LEMMA DeathKeeps ==
  ASSUME CPUs = {Home}, TypeOK, TypeOK', NEW L \in SUBSET allocated, ListIs(L),
         Dying, Dying', New' = New, OldTail' = OldTail, softirq'[Home].pid = softirq[Home].pid,
         UNCHANGED <<allocated, hw1, proc, history>>,
         \A m \in Links \ {New} : next'[m] = next[m] /\ (m # Node_head_ch => prev'[m] = prev[m]),
         \A m \in Nodes \ {New} : record'[m] = record[m]
  PROVE  /\ Chain(L)' /\ TailInv(L)' /\ LoopInv(L)' /\ Ascending(L)' /\ BehindInv(L)' /\ LossInv(L)'
         /\ L \in SUBSET allocated'
         /\ New \in allocated \ L /\ New # OldTail /\ softirq[Home].pid = died /\ died >= 1
         /\ (proc.pc \in {"unlink_next", "free"} => New # proc.pos) /\ (Deleting => raced)
         /\ Deleting' = Deleting
<1> USE Names
<1>1. /\ New \in allocated \ L /\ New # OldTail /\ New # Node_head_ch
      /\ softirq[Home].pid = died /\ died >= 1
      /\ proc.pc \in {"unlink_next", "free"} => New # proc.pos
      /\ Deleting => raced
      /\ L \subseteq Nodes /\ allocated \subseteq Nodes
  BY DEF ListIs, DeathInv, TypeOK
<1>2. /\ UNCHANGED <<allocated, proc, died, reported, cleared, dropped, raced>>
      /\ Last' = Last /\ FirstNode' = FirstNode /\ Deleting' = Deleting /\ Printed' = Printed
  BY <1>1 DEF history, Last, FirstNode, Deleting, Printed, Links
<1>3. \A m \in L : record'[m] = record[m] /\ next'[m] = next[m] /\ prev'[m] = prev[m]
  BY <1>1
<1>4. Chain(L)'
  BY <1>2, <1>3 DEF ListIs, Chain
<1>5. TailInv(L)'
  <2>1. OldTail \in L \cup {Node_head_ch} => next'[OldTail] = next[OldTail]
    BY <1>1, <1>3
  <2> QED  BY <1>2, <2>1 DEF ListIs, TailInv
<1>6. LoopInv(L)'
  <2>1. PrintInv(L)' /\ TakeInv'
    <3>1. FirstNode # Node_head_ch => next'[FirstNode] = next[FirstNode]
      BY <1>3 DEF ListIs, Chain
    <3> QED  BY <1>2, <3>1 DEF ListIs, LoopInv, PrintInv, TakeInv
  <2>2. UnlinkInv'
    <3>1. proc.pc \in {"unlink_prev", "unlink_next"} => proc.pos # New
      <4>1. proc.pc = "unlink_prev" => proc.pos = FirstNode /\ proc.pos \in allocated
        BY DEF ListIs, LoopInv, UnlinkInv
      <4>2. proc.pc = "unlink_prev" => proc.pos \in L
        BY <1>1, <4>1 DEF ListIs, Chain
      <4> QED  BY <1>1, <4>2
    <3>2. proc.pc \in {"unlink_prev", "unlink_next"} =>
            record'[proc.pos] = record[proc.pos] /\ next'[proc.pos] = next[proc.pos]
      BY <1>1, <3>1 DEF ListIs, LoopInv, UnlinkInv
    <3>3. proc.pc = "unlink_next" /\ proc.after # Node_head_ch => proc.after \in L
      <4>1. proc.pc = "unlink_next" /\ proc.after # Node_head_ch =>
              proc.pos = FirstNode /\ proc.pos \in allocated /\ proc.after = next[proc.pos]
        BY DEF ListIs, LoopInv, UnlinkInv
      <4> QED  BY <1>1, <4>1 DEF ListIs, Chain
    <3> QED  BY <1>2, <1>3, <3>2, <3>3 DEF ListIs, LoopInv, UnlinkInv
  <2>3. FreeInv(L)'
    BY <1>2 DEF ListIs, LoopInv, FreeInv
  <2> QED  BY <2>1, <2>2, <2>3 DEF LoopInv
<1>7. proc.pc = "print" /\ proc.pos # Node_head_ch => proc.pos \in L
  BY DEF ListIs, LoopInv, PrintInv
<1>8. Ascending(L)' /\ BehindInv(L)'
  BY <1>2, <1>3, <1>7 DEF ListIs, Ascending, BehindInv, Behind
<1>9. LossInv(L)'
  <2>1. {record'[m] : m \in L} = {record[m] : m \in L}
    BY <1>3
  <2>2. Kept(L) = Kept(L)'
    BY <1>2, <2>1 DEF Kept, Delivered
  <2> QED  BY <1>2, <1>3, <1>7, <2>2 DEF ListIs, LossInv
<1> QED  BY <1>1, <1>2, <1>4, <1>5, <1>6, <1>8, <1>9

LEMMA FillKeeps ==
  ASSUME CPUs = {Home}, TypeOK, TypeOK', NEW L \in SUBSET allocated, ListIs(L), Fill(Home)
  PROVE  \E G \in SUBSET allocated' : ListIs(G)'
<1>1. /\ softirq[Home].pc = "fill" /\ softirq'[Home] = [softirq[Home] EXCEPT !.pc = "read_tail"]
      /\ UNCHANGED <<next, prev, allocated, deadProcess, hw1, proc, history>>
      /\ record' = [record EXCEPT ![deadProcess] = softirq[Home].pid]
  BY Names DEF Fill, TypeOK
<1>2. /\ softirq'[Home].pc = "read_tail" /\ softirq'[Home].pid = softirq[Home].pid
  BY <1>1, Names DEF TypeOK
<1>3. Dying /\ Dying' /\ New = deadProcess /\ New' = New /\ OldTail' = OldTail
  BY <1>1, <1>2 DEF Dying, New, Linking, OldTail
<1>4. \A m \in Nodes \ {New} : record'[m] = record[m]
  BY <1>1, <1>3 DEF TypeOK
<1>5. \A m \in Links \ {New} : next'[m] = next[m] /\ (m # Node_head_ch => prev'[m] = prev[m])
  BY <1>1
<1>6. record'[New] = softirq[Home].pid
  <2>1. New \in Nodes
    BY <1>3 DEF ListIs, DeathInv, TypeOK
  <2> QED  BY <1>1, <1>3, <2>1 DEF TypeOK
<1>7. DeathInv(L)' /\ Chain(L)' /\ TailInv(L)' /\ LoopInv(L)' /\ Ascending(L)' /\ BehindInv(L)'
      /\ LossInv(L)' /\ L \in SUBSET allocated'
  BY <1>1, <1>2, <1>3, <1>4, <1>5, <1>6, DeathKeeps DEF DeathInv, history
<1> QED  BY <1>7 DEF ListIs

LEMMA ReadTailKeeps ==
  ASSUME CPUs = {Home}, TypeOK, TypeOK', NEW L \in SUBSET allocated, ListIs(L), ReadTail(Home)
  PROVE  \E G \in SUBSET allocated' : ListIs(G)'
<1>1. /\ softirq[Home].pc = "read_tail"
      /\ softirq'[Home] = [softirq[Home] EXCEPT !.pc = "link_head", !.new = deadProcess,
                                                !.tail = prev[Node_head_ch]]
      /\ UNCHANGED <<next, prev, allocated, record, deadProcess, hw1, proc, history>>
  BY Names DEF ReadTail, TypeOK, list
<1>2. /\ softirq'[Home].pc = "link_head" /\ softirq'[Home].pid = softirq[Home].pid
      /\ softirq'[Home].new = deadProcess /\ softirq'[Home].tail = prev[Node_head_ch]
  BY <1>1, Names DEF TypeOK
<1>3. Dying /\ Dying' /\ New = deadProcess /\ New' = New /\ OldTail' = OldTail
      /\ OldTail = prev[Node_head_ch]
  BY <1>1, <1>2 DEF Dying, New, Linking, OldTail
<1>4. record[New] = died
  BY <1>1, <1>3 DEF ListIs, DeathInv
<1>5. DeathInv(L)' /\ Chain(L)' /\ TailInv(L)' /\ LoopInv(L)' /\ Ascending(L)' /\ BehindInv(L)'
      /\ LossInv(L)' /\ L \in SUBSET allocated'
  BY <1>1, <1>2, <1>3, <1>4, DeathKeeps DEF DeathInv, history
<1> QED  BY <1>5 DEF ListIs

LEMMA LinkHeadKeeps ==
  ASSUME CPUs = {Home}, TypeOK, TypeOK', NEW L \in SUBSET allocated, ListIs(L), LinkHead(Home)
  PROVE  \E G \in SUBSET allocated' : ListIs(G)'
<1>1. /\ softirq[Home].pc = "link_head"
      /\ softirq'[Home] = [softirq[Home] EXCEPT !.pc = "link_new"]
      /\ prev' = [prev EXCEPT ![Node_head_ch] = softirq[Home].new]
      /\ UNCHANGED <<next, allocated, record, deadProcess, hw1, proc, history>>
  BY Names DEF LinkHead, TypeOK
<1>2. /\ softirq'[Home].pc = "link_new" /\ softirq'[Home].pid = softirq[Home].pid
      /\ softirq'[Home].new = softirq[Home].new /\ softirq'[Home].tail = softirq[Home].tail
      /\ prev'[Node_head_ch] = softirq[Home].new
      /\ \A m \in Links \ {Node_head_ch} : prev'[m] = prev[m]
  BY <1>1, Names DEF TypeOK
<1>3. Dying /\ Dying' /\ New = softirq[Home].new /\ New' = New
  BY <1>1, <1>2 DEF Dying, New, Linking
<1>4. record[New] = died /\ OldTail' = OldTail
  BY <1>1, <1>2, <1>3 DEF ListIs, DeathInv, OldTail
<1>5. DeathInv(L)' /\ Chain(L)' /\ TailInv(L)' /\ LoopInv(L)' /\ Ascending(L)' /\ BehindInv(L)'
      /\ LossInv(L)' /\ L \in SUBSET allocated'
  BY <1>1, <1>2, <1>3, <1>4, DeathKeeps DEF DeathInv, history
<1> QED  BY <1>5 DEF ListIs

LEMMA LinkNewKeeps ==
  ASSUME CPUs = {Home}, TypeOK, TypeOK', NEW L \in SUBSET allocated, ListIs(L), LinkNew(Home)
  PROVE  \E G \in SUBSET allocated' : ListIs(G)'
<1>1. /\ softirq[Home].pc = "link_new"
      /\ softirq'[Home] = [softirq[Home] EXCEPT !.pc = "link_tail"]
      /\ next' = [next EXCEPT ![softirq[Home].new] = Node_head_ch]
      /\ prev' = [prev EXCEPT ![softirq[Home].new] = softirq[Home].tail]
      /\ UNCHANGED <<allocated, record, deadProcess, hw1, proc, history>>
  BY Names DEF LinkNew, TypeOK
<1>2. /\ softirq'[Home].pc = "link_tail" /\ softirq'[Home].pid = softirq[Home].pid
      /\ softirq'[Home].new = softirq[Home].new /\ softirq'[Home].tail = softirq[Home].tail
  BY <1>1, Names DEF TypeOK
<1>3. Dying /\ Dying' /\ New = softirq[Home].new /\ New' = New /\ OldTail' = OldTail
      /\ OldTail = softirq[Home].tail
  BY <1>1, <1>2 DEF Dying, New, Linking, OldTail
<1>4. record[New] = died /\ prev[Node_head_ch] = New /\ New \in Nodes
  BY <1>1, <1>3 DEF ListIs, DeathInv, TypeOK
<1>5. /\ \A m \in Links \ {New} : next'[m] = next[m] /\ prev'[m] = prev[m]
      /\ next'[New] = Node_head_ch /\ prev'[New] = OldTail /\ prev'[Node_head_ch] = New
  BY <1>1, <1>3, <1>4, Names DEF TypeOK
<1>6. DeathInv(L)' /\ Chain(L)' /\ TailInv(L)' /\ LoopInv(L)' /\ Ascending(L)' /\ BehindInv(L)'
      /\ LossInv(L)' /\ L \in SUBSET allocated'
  BY <1>1, <1>2, <1>3, <1>4, <1>5, DeathKeeps DEF DeathInv, history
<1> QED  BY <1>6 DEF ListIs

\* The last store puts the node at the end of the list, if its end was there.
LEMMA LinkTailFacts ==
  ASSUME CPUs = {Home}, TypeOK, TypeOK', NEW L \in SUBSET allocated, ListIs(L), LinkTail(Home)
  PROVE  /\ Dying /\ ~Dying' /\ Last' = died /\ Last = died - 1 /\ died \in Nat
         /\ OldTail' = New /\ prev[Node_head_ch] = New
         /\ New \in allocated \ L /\ New # OldTail /\ New # Node_head_ch
         /\ record[New] = died /\ next[New] = Node_head_ch /\ prev[New] = OldTail
         /\ (proc.pc \in {"unlink_next", "free"} => New # proc.pos) /\ (Deleting => raced)
         /\ OldTail \in Links
         /\ \A m \in Links : next'[m] = IF m = OldTail THEN New ELSE next[m]
         /\ UNCHANGED <<prev, allocated, record, proc, died, reported, cleared, dropped, raced>>
         /\ Deleting' = Deleting
<1> USE Names
<1>1. /\ softirq[Home].pc = "link_tail" /\ softirq'[Home] = Off
      /\ next' = [next EXCEPT ![softirq[Home].tail] = softirq[Home].new]
      /\ UNCHANGED <<prev, allocated, record, deadProcess, hw1, proc, history>>
  BY DEF LinkTail, TypeOK
<1>2. softirq'[Home].pc = "off"
  BY <1>1 DEF Off
<1>3. /\ Dying /\ ~Dying' /\ New = softirq[Home].new /\ OldTail = softirq[Home].tail
      /\ OldTail' = prev[Node_head_ch] /\ Last = died - 1 /\ Last' = died
  BY <1>1, <1>2 DEF Dying, New, Linking, OldTail, Last, history
<1>4. OldTail \in Links
  BY <1>3 DEF TypeOK
<1>5. \A m \in Links : next'[m] = IF m = OldTail THEN New ELSE next[m]
  BY <1>1, <1>3, <1>4 DEF TypeOK
<1>6. /\ New \in allocated \ L /\ New # OldTail
      /\ record[New] = died /\ next[New] = Node_head_ch /\ prev[New] = OldTail
      /\ (proc.pc \in {"unlink_next", "free"} => New # proc.pos) /\ (Deleting => raced)
      /\ prev[Node_head_ch] = New
  BY <1>1, <1>3 DEF ListIs, DeathInv
<1>7. New # Node_head_ch
  BY <1>6 DEF TypeOK
<1> QED  BY <1>1, <1>3, <1>4, <1>5, <1>6, <1>7 DEF history, Deleting, TypeOK

LEMMA LinkTailKeeps ==
  ASSUME CPUs = {Home}, TypeOK, TypeOK', NEW L \in SUBSET allocated, ListIs(L), LinkTail(Home)
  PROVE  \E G \in SUBSET allocated' : ListIs(G)'
<1> USE Names
<1> PICK new : new = New
  OBVIOUS
<1>1. /\ ~Dying' /\ Last' = died /\ Last = died - 1 /\ died \in Nat
      /\ OldTail' = new /\ prev[Node_head_ch] = new
      /\ new \in allocated \ L /\ new # OldTail /\ new # Node_head_ch
      /\ record[new] = died /\ next[new] = Node_head_ch /\ prev[new] = OldTail
      /\ proc.pc \in {"unlink_next", "free"} => new # proc.pos
      /\ Deleting => raced
      /\ OldTail \in Links
      /\ \A m \in Links : next'[m] = IF m = OldTail THEN new ELSE next[m]
      /\ UNCHANGED <<prev, allocated, record, proc, died, reported, cleared, dropped, raced>>
      /\ Deleting' = Deleting
  BY LinkTailFacts
<1>2. L \subseteq Nodes /\ allocated \subseteq Nodes
  BY DEF TypeOK
<1>3. \A n \in L : record[n] \in 1 .. Last
  BY DEF ListIs, Chain
<1> DEFINE Joined == OldTail \in L \cup {Node_head_ch} /\ next[OldTail] = Node_head_ch
<1>4. PICK G \in SUBSET allocated :
        /\ G \subseteq L \cup {new} /\ Chain(G)' /\ TailInv(G)'
        /\ Joined => G = L \cup {new} /\ (OldTail = Node_head_ch => FirstNode = Node_head_ch)
        /\ \/ Joined
           \/ raced /\ L = {} /\ FirstNode' = FirstNode
           \/ raced /\ proc.pc = "unlink_next" /\ proc.after = Node_head_ch
  <2>1. CASE Joined
    <3>1. CASE OldTail = Node_head_ch
      <4>1. L = {} /\ FirstNode = Node_head_ch
        BY <1>2, <2>1, <3>1 DEF ListIs, Chain, FirstNode
      <4>2. FirstNode' = new /\ next'[new] = Node_head_ch /\ prev'[new] = Node_head_ch
            /\ record'[new] \in 1 .. Last'
        <5>1. died >= 1
          BY LinkTailFacts DEF ListIs, DeathInv
        <5> QED  BY <1>1, <1>2, <3>1, <5>1 DEF FirstNode, Links
      <4>3. Chain({new})' /\ TailInv({new})'
        BY <1>1, <4>2 DEF Chain, TailInv
      <4> QED  BY <1>1, <2>1, <4>1, <4>3
    <3>2. CASE OldTail # Node_head_ch
      <4>1. OldTail \in L /\ FirstNode' = FirstNode /\ FirstNode \in L
        BY <1>1, <2>1, <3>2 DEF FirstNode, ListIs, Chain
      <4>2. died >= 1
        BY LinkTailFacts DEF ListIs, DeathInv
      <4>3. /\ next'[new] = Node_head_ch /\ next'[OldTail] = new
            /\ \A n \in L \ {OldTail} : next'[n] = next[n]
        BY <1>1, <1>2, <4>1
      <4>4. /\ \A n \in L : n # new /\ n # Node_head_ch /\ record[n] \in 1 .. died - 1
            /\ prev[FirstNode] = Node_head_ch /\ FirstNode # Node_head_ch
        BY <1>1, <1>2, <1>3, <4>1 DEF ListIs, Chain
      <4>5. \A n \in L : record[n] < record[OldTail] \/ n = OldTail
        BY <1>2, <1>3, <2>1, <4>1, <4>4 DEF ListIs, Chain
      <4>6. \A n \in L \ {OldTail} : next[n] \in L
        BY <4>1, <4>5 DEF ListIs, Chain
      <4>7. Chain(L \cup {new})'
        <5>1. \A n \in L \cup {new} :
                /\ record'[n] \in 1 .. Last'
                /\ FirstNode' \in L /\ record'[FirstNode'] <= record'[n]
                /\ next'[n] \in L \cup {new, Node_head_ch}
                /\ next'[n] # Node_head_ch => record'[n] < record'[next'[n]]
          <6> TAKE n \in L \cup {new}
          <6>1. CASE n = new
            BY <6>1, <1>1, <4>1, <4>2, <4>3, <4>4
          <6>2. CASE n = OldTail
            BY <6>2, <1>1, <4>1, <4>2, <4>3, <4>4 DEF ListIs, Chain
          <6>3. CASE n \in L \ {OldTail}
            BY <6>3, <1>1, <4>1, <4>2, <4>3, <4>4, <4>6 DEF ListIs, Chain
          <6> QED  BY <6>1, <6>2, <6>3
        <5>2. \A m, n \in L \cup {new} :
                /\ record'[n] < record'[m] => next'[n] \in L \cup {new} /\ record'[next'[n]] <= record'[m]
                /\ record'[m] = record'[n] => m = n
          <6> SUFFICES ASSUME NEW m \in L \cup {new}, NEW n \in L \cup {new}
                       PROVE  /\ record'[n] < record'[m] => next'[n] \in L \cup {new} /\ record'[next'[n]] <= record'[m]
                              /\ record'[m] = record'[n] => m = n
            OBVIOUS
          <6>1. CASE n = new
            BY <6>1, <1>1, <4>2, <4>4
          <6>2. CASE n = OldTail
            BY <6>2, <1>1, <4>1, <4>2, <4>3, <4>4, <4>5 DEF ListIs, Chain
          <6>3. CASE n \in L \ {OldTail} /\ m = new
            BY <6>3, <1>1, <4>2, <4>3, <4>4, <4>6
          <6>4. CASE n \in L \ {OldTail} /\ m \in L
            BY <6>4, <1>1, <4>3 DEF ListIs, Chain
          <6> QED  BY <6>1, <6>2, <6>3, <6>4
        <5>3. FirstNode' \in L /\ prev'[FirstNode'] = Node_head_ch
          BY <1>1, <4>1, <4>4
        <5> QED  BY <5>1, <5>2, <5>3 DEF Chain
      <4>8. TailInv(L \cup {new})'
        BY <1>1, <4>3 DEF TailInv
      <4> QED  BY <1>1, <2>1, <3>2, <4>7, <4>8
    <3> QED  BY <3>1, <3>2
  <2>2. CASE ~Joined /\ L = {} /\ OldTail \in allocated /\ raced
    <3>1. FirstNode' = FirstNode /\ FirstNode = Node_head_ch
      BY <1>1, <1>2, <2>2 DEF FirstNode, ListIs, Chain
    <3>2. Chain({})' /\ TailInv({})'
      BY <1>1, <2>2, <3>1 DEF Chain, TailInv
    <3> QED  BY <1>1, <2>2, <3>1, <3>2
  <2>3. CASE ~Joined /\ proc.pc = "unlink_next" /\ proc.after = Node_head_ch /\ OldTail = Node_head_ch
    <3>1. FirstNode' = new /\ next'[new] = Node_head_ch /\ prev'[new] = Node_head_ch
          /\ record'[new] \in 1 .. Last'
      <4>1. died >= 1
        BY LinkTailFacts DEF ListIs, DeathInv
      <4> QED  BY <1>1, <1>2, <2>3, <4>1 DEF FirstNode, Links
    <3>2. Chain({new})' /\ TailInv({new})'
      BY <1>1, <3>1 DEF Chain, TailInv
    <3>3. raced
      BY <1>1, <2>3 DEF Deleting, DeletePoints
    <3> QED  BY <1>1, <2>3, <3>2, <3>3
  <2> QED  BY <2>1, <2>2, <2>3 DEF ListIs, TailInv
<1> HIDE DEF Joined
<1>5. DeathInv(G)'
  BY <1>1 DEF DeathInv
<1>6. FirstNode # Node_head_ch /\ ~(proc.pc = "unlink_next" /\ proc.after = Node_head_ch) =>
        FirstNode' = FirstNode /\ Joined /\ next[OldTail] = Node_head_ch
  BY <1>1, <1>2, <1>4 DEF FirstNode, Joined, ListIs, Chain
<1>7. LoopInv(G)'
  <2>1. PrintInv(G)'
    BY <1>1, <1>4 DEF PrintInv, ListIs, LoopInv
  <2>2. TakeInv'
    <3>1. proc.pc = "take" /\ proc.pos # Node_head_ch =>
            proc.pos = FirstNode /\ proc.q \in {next[FirstNode], Node_head_ch} /\ FirstNode \in Links
      BY DEF ListIs, LoopInv, TakeInv, TypeOK
    <3> QED  BY <1>1, <1>6, <3>1 DEF TakeInv
  <2>3. UnlinkInv'
    <3>1. proc.pc \in {"unlink_prev", "unlink_next"} => raced
      BY <1>1 DEF Deleting, DeletePoints
    <3>2. /\ proc.pc \in {"unlink_prev", "unlink_next"} =>
             /\ proc.pos \in allocated /\ record[proc.pos] \in 1 .. Last
             /\ proc.before = Node_head_ch /\ proc.q \in {proc.after, Node_head_ch}
             /\ proc.after # Node_head_ch \/ proc.pc = "unlink_prev" => proc.pos = FirstNode
             /\ proc.after # Node_head_ch => proc.after = next[proc.pos]
          /\ proc.pc = "unlink_next" /\ proc.after # Node_head_ch => prev[proc.after] = Node_head_ch
      BY DEF ListIs, LoopInv, UnlinkInv
    <3>3. proc.pc \in {"unlink_prev", "unlink_next"} /\ (proc.after # Node_head_ch \/ proc.pc = "unlink_prev")
            => FirstNode' = FirstNode /\ (proc.after # Node_head_ch => proc.pos # OldTail)
      BY <1>2, <1>6, <3>2
    <3> QED  BY <1>1, <1>2, <3>1, <3>2, <3>3 DEF UnlinkInv, Links
  <2>4. FreeInv(G)'
    <3>1. proc.pc = "free" => proc.pos \in allocated \ L /\ proc.q \in {FirstNode, Node_head_ch}
      BY DEF ListIs, LoopInv, FreeInv
    <3> QED  BY <1>1, <1>4, <1>6, <3>1 DEF FreeInv
  <2> QED  BY <2>1, <2>2, <2>3, <2>4 DEF LoopInv
<1>8. Ascending(G)'
  <2>1. \A i \in DOMAIN reported, n \in G : reported[i] < record[n]
    BY <1>1, <1>4, Numbers, BoundsAssumption DEF ListIs, Ascending
  <2>2. \A i \in DOMAIN reported : reported[i] <= died
    BY <1>1, Numbers, BoundsAssumption DEF ListIs, Ascending
  <2>3. \A i \in DOMAIN proc.buffer : proc.buffer[i] <= died
    BY <1>1, Numbers, BoundsAssumption DEF ListIs, Ascending
  <2> QED  BY <1>1, <2>1, <2>2, <2>3 DEF ListIs, Ascending
<1>9. BehindInv(G)'
  <2>1. \A S : Behind(S) => Behind(S \cup {new})
    <3>1. \A i \in DOMAIN proc.buffer : proc.buffer[i] < record[new]
      BY <1>1, Numbers, BoundsAssumption DEF ListIs, Ascending
    <3> QED  BY <3>1 DEF Behind
  <2>2. Behind(L) => Behind(G)
    BY <1>4, <2>1 DEF Behind
  <2>3. Behind(L \ {proc.pos}) => Behind(G \ {proc.pos})
    BY <1>4, <2>1 DEF Behind
  <2>4. \A S : Behind(S)' = Behind(S)
    BY <1>1 DEF Behind
  <2> QED  BY <1>1, <2>2, <2>3, <2>4 DEF BehindInv, ListIs
<1>10. LossInv(G)'
  <2>1. ~raced => 1 .. died \subseteq Kept(G)'
    <3>1. ~raced => G = L \cup {new} /\ 1 .. died - 1 \subseteq Kept(L)
      BY <1>1, <1>4 DEF LossInv, ListIs
    <3>2. ~raced => Kept(L) \subseteq Kept(G)' /\ died \in Kept(G)'
      BY <1>1, <3>1 DEF Kept, Delivered
    <3> QED  BY <1>1, <3>1, <3>2
  <2>2. proc.pc = "print" => \A n \in G :
          IF proc.pos = Node_head_ch THEN raced \/ record[n] \in Printed
          ELSE record[n] < record[proc.pos] => record[n] \in Printed
    <3>1. proc.pc = "print" /\ proc.pos = Node_head_ch => raced
      BY <1>1 DEF Deleting
    <3>2. proc.pc = "print" /\ proc.pos # Node_head_ch => ~(record[new] < record[proc.pos])
      BY <1>1, <1>3 DEF ListIs, LoopInv, PrintInv
    <3> QED  BY <1>4, <3>1, <3>2 DEF ListIs, LossInv
  <2>3. proc.pc \in DeletePoints => raced
    BY <1>1 DEF Deleting
  <2> QED  BY <1>1, <2>1, <2>2, <2>3 DEF LossInv, Printed
<1> QED  BY <1>1, <1>4, <1>5, <1>7, <1>8, <1>9, <1>10 DEF ListIs

LEMMA DeathListInv ==
  ASSUME CPUs = {Home}, TypeOK, TypeOK', NEW L \in SUBSET allocated, ListIs(L), NEW c \in CPUs, Death(c)
  PROVE  \E G \in SUBSET allocated' : ListIs(G)'
BY AllocateKeeps, FillKeeps, ReadTailKeeps, LinkHeadKeeps, LinkNewKeeps, LinkTailKeeps DEF Death

-----------------------------------------------------------------------------
(* The user process, when no death is in progress.                         *)

\* A step that leaves the list alone.
LEMMA ListUntouched ==
  ASSUME TypeOK, NEW L \in SUBSET allocated, ListIs(L), softirq[Home].pc = "off",
         proc.pc # "unlink_next", UNCHANGED <<list, deadProcess, softirq, died, raced>>
  PROVE  /\ Chain(L)' /\ TailInv(L)' /\ DeathInv(L)' /\ L \in SUBSET allocated'
         /\ Last' = Last /\ Last = died /\ FirstNode' = FirstNode /\ OldTail' = OldTail
         /\ UNCHANGED <<next, prev, allocated, record, raced, died>>
         /\ died \in Nat /\ \A n \in L : record[n] \in 1 .. died /\ n \in Nodes
<1>1. /\ ~Dying /\ ~Dying' /\ Last' = Last /\ Last = died /\ FirstNode' = FirstNode
      /\ OldTail' = OldTail /\ UNCHANGED <<next, prev, allocated, record, raced, died>>
  BY DEF Dying, Last, FirstNode, OldTail, list
<1>2. died \in Nat /\ L \subseteq Nodes
  BY BoundsAssumption DEF TypeOK
<1>3. Chain(L)' /\ \A n \in L : record[n] \in 1 .. died
  BY <1>1 DEF ListIs, Chain
<1>4. TailInv(L)'
  BY <1>1 DEF ListIs, TailInv
<1>5. DeathInv(L)'
  BY <1>1 DEF DeathInv
<1> QED  BY <1>1, <1>2, <1>3, <1>4, <1>5

\* The buffer of an idle process, and of one that has just opened, is empty.
LEMMA EmptyKept ==
  ASSUME TypeOK, NEW L \in SUBSET allocated, ListIs(L), softirq[Home].pc = "off",
         proc.pc # "unlink_next", UNCHANGED <<list, deadProcess, softirq, died, raced>>,
         UNCHANGED <<reported, cleared, dropped>>,
         proc.buffer = <<>>, proc'.buffer = <<>>, proc'.pc \in {"idle", "opened", "delete"},
         proc'.pc = "delete" => proc'.show # "E"
  PROVE  ListIs(L)' /\ L \in SUBSET allocated'
<1>1. /\ Chain(L)' /\ TailInv(L)' /\ DeathInv(L)' /\ L \in SUBSET allocated'
      /\ Last' = Last /\ Last = died
      /\ UNCHANGED <<next, prev, allocated, record, raced, died>>
  BY ListUntouched
<1>2. LoopInv(L)'
  BY DEF LoopInv, PrintInv, TakeInv, UnlinkInv, FreeInv
<1>3. Ascending(L)' /\ BehindInv(L)'
  BY <1>1 DEF ListIs, Ascending, BehindInv, Behind
<1>4. LossInv(L)'
  <2>1. ElementsOf(proc.buffer)' = ElementsOf(proc.buffer)
    BY DEF ElementsOf
  <2>2. Kept(L)' = Kept(L)
    BY <1>1, <2>1 DEF Kept, Delivered
  <2> QED  BY <1>1, <2>2 DEF ListIs, LossInv, DeletePoints
<1> QED  BY <1>1, <1>2, <1>3, <1>4 DEF ListIs

LEMMA OpenKeeps ==
  ASSUME TypeOK, NEW L \in SUBSET allocated, ListIs(L), Open
  PROVE  ListIs(L)' /\ L \in SUBSET allocated'
<1>1. proc'.buffer = <<>> /\ proc'.pc = "opened"
  BY DEF Open, Idle
<1>2. proc.buffer = <<>>
  BY DEF Open, At, ListIs, BehindInv
<1> QED  BY <1>1, <1>2, EmptyKept DEF Open, At

LEMMA ShowOtherKeeps ==
  ASSUME TypeOK, NEW L \in SUBSET allocated, ListIs(L), ShowOther
  PROVE  ListIs(L)' /\ L \in SUBSET allocated'
<1>1. proc'.buffer = <<>> /\ proc'.pc = "idle"
  BY DEF ShowOther, Idle
<1>2. proc.buffer = <<>>
  BY DEF ShowOther, At, ListIs, BehindInv
<1> QED  BY <1>1, <1>2, EmptyKept DEF ShowOther, At, history

LEMMA WriteKeeps ==
  ASSUME TypeOK, NEW L \in SUBSET allocated, ListIs(L), NEW ch, Write(ch)
  PROVE  ListIs(L)' /\ L \in SUBSET allocated'
<1>1. /\ proc'.buffer = <<>> /\ proc'.pc \in {"idle", "delete"}
      /\ proc'.pc = "delete" => proc'.show # "E"
  BY DEF Write, Idle
<1>2. proc.buffer = <<>>
  BY DEF Write, At, ListIs, BehindInv
<1> QED  BY <1>1, <1>2, EmptyKept DEF Write, At

LEMMA ShowDeadKeeps ==
  ASSUME TypeOK, NEW L \in SUBSET allocated, ListIs(L), ShowDead
  PROVE  ListIs(L)' /\ L \in SUBSET allocated'
<1>1. /\ Chain(L)' /\ TailInv(L)' /\ DeathInv(L)' /\ L \in SUBSET allocated'
      /\ Last' = Last /\ Last = died
      /\ UNCHANGED <<next, prev, allocated, record, raced, died>>
      /\ \A n \in L : record[n] \in 1 .. died
  BY ListUntouched DEF ShowDead, At, history
<1>2. /\ proc.pc = "opened" /\ proc.show = "E" /\ UNCHANGED <<reported, cleared, dropped>>
      /\ proc' = [proc EXCEPT !.pc = "print", !.pos = FirstNode]
  BY DEF ShowDead, At, history, FirstEntry, FirstNode
<1>3. /\ proc'.pc = "print" /\ proc'.pos = FirstNode /\ proc'.show = "E" /\ proc'.buffer = proc.buffer
  BY <1>2 DEF TypeOK
<1>4. proc.buffer = <<>>
  BY <1>2 DEF ListIs, BehindInv
<1>5. LoopInv(L)'
  BY <1>3 DEF ListIs, Chain, LoopInv, PrintInv, TakeInv, UnlinkInv, FreeInv
<1>6. Ascending(L)' /\ BehindInv(L)'
  BY <1>1, <1>2, <1>3, <1>4 DEF ListIs, Ascending, BehindInv, Behind
<1>7. LossInv(L)'
  <2>1. Kept(L)' = Kept(L)
    BY <1>1, <1>2, <1>3 DEF Kept, Delivered
  <2>2. \A n \in L : FirstNode # Node_head_ch /\ ~(record[n] < record[FirstNode])
    BY <1>1, Names DEF ListIs, Chain, TypeOK
  <2> QED  BY <1>1, <1>3, <2>1, <2>2 DEF ListIs, LossInv, DeletePoints
<1> QED  BY <1>1, <1>5, <1>6, <1>7 DEF ListIs

LEMMA PrintRecordKeeps ==
  ASSUME TypeOK, TypeOK', NEW L \in SUBSET allocated, ListIs(L), PrintRecord
  PROVE  ListIs(L)' /\ L \in SUBSET allocated'
<1>1. /\ Chain(L)' /\ TailInv(L)' /\ DeathInv(L)' /\ L \in SUBSET allocated'
      /\ Last' = Last /\ Last = died
      /\ UNCHANGED <<next, prev, allocated, record, raced, died>>
      /\ died \in Nat /\ \A n \in L : record[n] \in 1 .. died /\ n \in Nodes
  BY ListUntouched DEF PrintRecord, At
<1>2. proc.pc = "print" /\ proc.show = "E" /\ proc.pos \in L \cup {Node_head_ch}
      /\ UNCHANGED <<reported, cleared>>
  BY DEF PrintRecord, At, ListIs, LoopInv, PrintInv, BehindInv
<1>3. CASE proc.pos = Node_head_ch
  <2>1. UNCHANGED dropped /\ proc' = [proc EXCEPT !.pc = "delete"]
    BY <1>3 DEF PrintRecord, AfterPrint
  <2>2. proc'.pc = "delete" /\ proc'.show = "E" /\ proc'.buffer = proc.buffer
    BY <1>2, <2>1 DEF TypeOK
  <2>3. LoopInv(L)'
    BY <2>2 DEF LoopInv, PrintInv, TakeInv, UnlinkInv, FreeInv
  <2>4. Ascending(L)' /\ BehindInv(L)'
    BY <1>1, <1>2, <2>2 DEF ListIs, Ascending, BehindInv
  <2>5. LossInv(L)'
    <3>1. Kept(L)' = Kept(L) /\ Printed' = Printed
      BY <1>1, <1>2, <2>1, <2>2 DEF Kept, Delivered, Printed
    <3> QED  BY <1>1, <1>2, <1>3, <2>2, <3>1 DEF ListIs, LossInv
  <2> QED  BY <1>1, <2>3, <2>4, <2>5 DEF ListIs
<1>4. CASE proc.pos # Node_head_ch
  <2>1. proc.pos \in L /\ next[proc.pos] \in L \cup {Node_head_ch}
    BY <1>2, <1>4 DEF ListIs, Chain
  <2>2. /\ proc'.pc = "print" /\ proc'.show = "E" /\ proc'.pos = next[proc.pos]
        /\ dropped \subseteq dropped'
        /\ \/ proc'.buffer = proc.buffer /\ dropped' = dropped \cup {record[proc.pos]}
           \/ proc'.buffer = Append(proc.buffer, record[proc.pos])
    BY <1>2, <1>4 DEF PrintRecord, TypeOK
  <2>3. /\ Printed \cup {record[proc.pos]} \subseteq Printed'
        /\ ElementsOf(proc.buffer) \subseteq ElementsOf(proc'.buffer)
        /\ \A i \in DOMAIN proc'.buffer :
             \/ i \in DOMAIN proc.buffer /\ proc'.buffer[i] = proc.buffer[i]
             \/ i = Len(proc.buffer) + 1 /\ proc'.buffer[i] = record[proc.pos]
    <3>1. CASE proc'.buffer = Append(proc.buffer, record[proc.pos])
      <4>1. /\ DOMAIN proc'.buffer = 1 .. Len(proc.buffer) + 1
            /\ \A i \in 1 .. Len(proc.buffer) : proc'.buffer[i] = proc.buffer[i]
            /\ proc'.buffer[Len(proc.buffer) + 1] = record[proc.pos]
        BY <1>1, <2>1, <3>1, Numbers DEF TypeOK
      <4>2. DOMAIN proc.buffer = 1 .. Len(proc.buffer) /\ Len(proc.buffer) \in Nat
        BY Numbers
      <4>3. \A i \in DOMAIN proc'.buffer : i \in DOMAIN proc.buffer \/ i = Len(proc.buffer) + 1
        BY <4>1, <4>2
      <4>4. DOMAIN proc.buffer \subseteq DOMAIN proc'.buffer
            /\ Len(proc.buffer) + 1 \in DOMAIN proc'.buffer
        BY <4>1, <4>2
      <4>5. ElementsOf(proc.buffer) \cup {record[proc.pos]} \subseteq ElementsOf(proc'.buffer)
        BY <4>1, <4>2, <4>4 DEF ElementsOf
      <4> QED  BY <2>2, <4>1, <4>2, <4>3, <4>5 DEF Printed
    <3>2. CASE proc'.buffer = proc.buffer /\ dropped' = dropped \cup {record[proc.pos]}
      BY <3>2 DEF Printed, ElementsOf
    <3> QED  BY <2>2, <3>1, <3>2
  <2>4. LoopInv(L)'
    BY <2>1, <2>2 DEF LoopInv, PrintInv, TakeInv, UnlinkInv, FreeInv
  <2>5. \A i \in DOMAIN proc'.buffer : proc'.buffer[i] <= record[proc.pos]
    BY <1>1, <1>2, <1>4, <2>1, <2>3, Numbers DEF ListIs, BehindInv, Behind
  <2>6. Ascending(L)'
    <3>1. \A i \in DOMAIN proc'.buffer : proc'.buffer[i] <= died
      BY <1>1, <2>1, <2>3, Numbers DEF ListIs, Ascending
    <3>2. \A i, j \in DOMAIN proc'.buffer : i < j => proc'.buffer[i] < proc'.buffer[j]
      BY <1>1, <1>2, <1>4, <2>1, <2>3, Numbers DEF ListIs, Ascending, BehindInv, Behind
    <3>3. \A i \in DOMAIN reported, j \in DOMAIN proc'.buffer : reported[i] < proc'.buffer[j]
      BY <1>1, <2>1, <2>3 DEF ListIs, Ascending
    <3> QED  BY <1>1, <1>2, <3>1, <3>2, <3>3 DEF ListIs, Ascending
  <2>7. BehindInv(L)'
    <3>1. proc'.pos # Node_head_ch => record[proc.pos] < record[next[proc.pos]]
                                      /\ next[proc.pos] \in L
      BY <2>1, <2>2 DEF ListIs, Chain
    <3>2. proc'.pos # Node_head_ch =>
            \A i \in DOMAIN proc'.buffer : proc'.buffer[i] < record[proc'.pos]
      BY <1>1, <2>1, <2>2, <2>5, <3>1, BoundsAssumption, Numbers DEF TypeOK
    <3> QED  BY <1>1, <2>2, <3>2 DEF BehindInv, Behind
  <2>8. LossInv(L)'
    <3>1. Kept(L) \subseteq Kept(L)'
      BY <1>1, <1>2, <2>2, <2>3 DEF Kept, Delivered
    <3>2. \A n \in L : record[n] <= record[proc.pos] => record[n] \in Printed'
      <4> TAKE n \in L
      <4>1. record[n] < record[proc.pos] => record[n] \in Printed
        BY <1>2, <1>4 DEF ListIs, LossInv
      <4> QED  BY <1>1, <2>1, <2>3, <4>1
    <3>3. \A n \in L : next[proc.pos] # Node_head_ch /\ record[n] < record[next[proc.pos]] =>
                         record[n] <= record[proc.pos]
      BY <1>1, <2>1 DEF ListIs, Chain
    <3>4. \A n \in L : next[proc.pos] = Node_head_ch => record[n] <= record[proc.pos]
      BY <1>1, <2>1, Names DEF ListIs, Chain, TypeOK
    <3> QED  BY <1>1, <2>2, <3>1, <3>2, <3>3, <3>4 DEF ListIs, LossInv, DeletePoints
  <2> QED  BY <1>1, <2>4, <2>6, <2>7, <2>8 DEF ListIs
<1> QED  BY <1>3, <1>4

LEMMA OnlyOne ==
  ASSUME TypeOK, NEW L \in SUBSET allocated, Chain(L), next[FirstNode] = Node_head_ch
  PROVE  L \subseteq {FirstNode}
BY Names DEF Chain, TypeOK

LEMMA DeleteKeeps ==
  ASSUME TypeOK, NEW L \in SUBSET allocated, ListIs(L), Delete
  PROVE  ListIs(L)' /\ L \in SUBSET allocated'
<1>1. /\ Chain(L)' /\ TailInv(L)' /\ DeathInv(L)' /\ L \in SUBSET allocated'
      /\ Last' = Last /\ Last = died /\ FirstNode' = FirstNode
      /\ UNCHANGED <<next, prev, allocated, record, raced, died>>
  BY ListUntouched DEF Delete, At, history
<1>2. /\ proc.pc = "delete" /\ UNCHANGED <<reported, cleared, dropped>>
      /\ proc' = [proc EXCEPT !.pc = "take", !.pos = FirstNode, !.q = next[FirstNode]]
  BY DEF Delete, At, history, FirstNode
<1>3. /\ proc'.pc = "take" /\ proc'.pos = FirstNode /\ proc'.q = next[FirstNode]
      /\ proc'.show = proc.show /\ proc'.buffer = proc.buffer
  BY <1>2 DEF TypeOK
<1>4. LoopInv(L)'
  BY <1>1, <1>3 DEF LoopInv, PrintInv, TakeInv, UnlinkInv, FreeInv
<1>5. Ascending(L)'
  BY <1>1, <1>2, <1>3 DEF ListIs, Ascending
<1>6. BehindInv(L)'
  <2>1. proc'.pos = Node_head_ch => L = {}
    BY <1>3, Names DEF ListIs, Chain, TypeOK
  <2>2. proc'.q = Node_head_ch => L \ {proc'.pos} = {}
    BY <1>3, OnlyOne DEF ListIs
  <2>3. proc'.show # "E" => proc'.buffer = <<>>
    BY <1>3 DEF ListIs, BehindInv
  <2> QED  BY <1>3, <2>1, <2>2, <2>3 DEF BehindInv, Behind
<1>7. LossInv(L)'
  <2>1. Kept(L)' = Kept(L) /\ Printed' = Printed
    BY <1>1, <1>2, <1>3 DEF Kept, Delivered, Printed
  <2> QED  BY <1>1, <1>2, <1>3, <2>1 DEF ListIs, LossInv, DeletePoints
<1> QED  BY <1>1, <1>4, <1>5, <1>6, <1>7 DEF ListIs

LEMMA TakeKeeps ==
  ASSUME TypeOK, NEW L \in SUBSET allocated, ListIs(L), Take
  PROVE  ListIs(L)' /\ L \in SUBSET allocated'
<1>1. /\ Chain(L)' /\ TailInv(L)' /\ DeathInv(L)' /\ L \in SUBSET allocated'
      /\ Last' = Last /\ Last = died /\ FirstNode' = FirstNode /\ OldTail' = OldTail
      /\ UNCHANGED <<next, prev, allocated, record, raced, died>>
  BY ListUntouched DEF Take, At, history
<1>2. proc.pc = "take" /\ UNCHANGED <<reported, cleared, dropped>>
  BY DEF Take, At, history
<1>3. CASE proc.pos = Node_head_ch /\ proc.show # "E"
  <2>1. proc'.buffer = <<>> /\ proc'.pc = "idle"
    BY <1>3 DEF Take, Idle
  <2>2. proc.buffer = <<>>
    BY <1>3 DEF ListIs, BehindInv
  <2> QED  BY <1>2, <2>1, <2>2, EmptyKept DEF Take, At, history
<1>4. CASE proc.pos = Node_head_ch /\ proc.show = "E"
  <2>1. proc' = [proc EXCEPT !.pc = "printed"]
    BY <1>4 DEF Take
  <2>2. proc'.pc = "printed" /\ proc'.show = "E" /\ proc'.buffer = proc.buffer
    BY <1>4, <2>1 DEF TypeOK
  <2>3. LoopInv(L)'
    BY <2>2 DEF LoopInv, PrintInv, TakeInv, UnlinkInv, FreeInv
  <2>4. Ascending(L)' /\ BehindInv(L)'
    BY <1>1, <1>2, <1>4, <2>2 DEF ListIs, Ascending, BehindInv, Behind
  <2>5. LossInv(L)'
    <3>1. Kept(L)' = Kept(L)
      BY <1>1, <1>2, <2>2 DEF Kept, Delivered
    <3> QED  BY <1>1, <2>2, <3>1 DEF ListIs, LossInv, DeletePoints
  <2> QED  BY <1>1, <2>3, <2>4, <2>5 DEF ListIs
<1>5. CASE proc.pos # Node_head_ch
  <2>1. proc' = [proc EXCEPT !.pc = "unlink_prev", !.before = prev[proc.pos],
                             !.after = next[proc.pos]]
    BY <1>5 DEF Take
  <2>2. /\ proc'.pc = "unlink_prev" /\ proc'.show = proc.show /\ proc'.buffer = proc.buffer
        /\ proc'.pos = proc.pos /\ proc'.q = proc.q
        /\ proc'.before = prev[proc.pos] /\ proc'.after = next[proc.pos]
    BY <2>1 DEF TypeOK
  <2>3. /\ proc.pos = FirstNode /\ proc.q \in {next[FirstNode], Node_head_ch}
        /\ FirstNode \in L /\ prev[FirstNode] = Node_head_ch /\ record[FirstNode] \in 1 .. Last
    BY <1>2, <1>5 DEF ListIs, LoopInv, TakeInv, Chain
  <2>4. LoopInv(L)'
    BY <1>1, <2>2, <2>3 DEF LoopInv, PrintInv, TakeInv, UnlinkInv, FreeInv
  <2>5. Ascending(L)' /\ BehindInv(L)'
    BY <1>1, <1>2, <2>2 DEF ListIs, Ascending, BehindInv, Behind
  <2>6. LossInv(L)'
    <3>1. Kept(L)' = Kept(L) /\ Printed' = Printed
      BY <1>1, <1>2, <2>2 DEF Kept, Delivered, Printed
    <3> QED  BY <1>1, <1>2, <2>2, <3>1 DEF ListIs, LossInv, DeletePoints
  <2> QED  BY <1>1, <2>4, <2>5, <2>6 DEF ListIs
<1> QED  BY <1>3, <1>4, <1>5

LEMMA UnlinkPrevKeeps ==
  ASSUME TypeOK, NEW L \in SUBSET allocated, ListIs(L), UnlinkPrev
  PROVE  ListIs(L)' /\ L \in SUBSET allocated'
<1> USE Names
<1>1. /\ proc.pc = "unlink_prev" /\ softirq[Home].pc = "off"
      /\ prev' = [prev EXCEPT ![proc.after] = proc.before]
      /\ proc' = [proc EXCEPT !.pc = "unlink_next"]
      /\ UNCHANGED <<next, allocated, record, deadProcess, softirq, died, reported, cleared,
                     dropped, raced>>
  BY DEF UnlinkPrev, At, history
<1>2. /\ proc'.pc = "unlink_next" /\ proc'.show = proc.show /\ proc'.buffer = proc.buffer
      /\ proc'.pos = proc.pos /\ proc'.q = proc.q
      /\ proc'.before = proc.before /\ proc'.after = proc.after
  BY <1>1 DEF TypeOK
<1>3. /\ ~Dying /\ ~Dying' /\ Last' = Last /\ FirstNode' = FirstNode /\ OldTail = prev[Node_head_ch]
      /\ OldTail' = prev'[Node_head_ch]
  BY <1>1 DEF Dying, Last, FirstNode, OldTail
<1>4. /\ proc.pos = FirstNode /\ FirstNode \in allocated /\ record[FirstNode] \in 1 .. Last
      /\ proc.before = Node_head_ch /\ proc.q \in {proc.after, Node_head_ch}
      /\ proc.after # Node_head_ch \/ ~raced => proc.after = next[FirstNode]
  BY <1>1 DEF ListIs, LoopInv, UnlinkInv
<1>5. /\ FirstNode \in L /\ FirstNode # Node_head_ch /\ prev[FirstNode] = Node_head_ch
      /\ proc.after \in Links
  BY <1>4 DEF ListIs, Chain, TypeOK
<1>6. \A m \in Links : prev'[m] = IF m = proc.after THEN Node_head_ch ELSE prev[m]
  BY <1>1, <1>4 DEF TypeOK
<1>7. Chain(L)'
  <2>1. prev'[FirstNode] = Node_head_ch
    BY <1>5, <1>6 DEF TypeOK
  <2> QED  BY <1>1, <1>3, <2>1 DEF ListIs, Chain
<1>8. TailInv(L)' /\ (proc.after = Node_head_ch => OldTail' # FirstNode)
  <2>1. CASE proc.after = Node_head_ch
    BY <1>2, <1>3, <1>5, <1>6, <2>1 DEF TailInv
  <2>2. CASE proc.after # Node_head_ch
    <3>1. OldTail' = OldTail
      BY <1>3, <1>6, <2>2
    <3> QED  BY <1>1, <1>5, <2>2, <3>1 DEF ListIs, TailInv
  <2> QED  BY <2>1, <2>2
<1>9. DeathInv(L)'
  BY <1>3 DEF DeathInv
<1>10. LoopInv(L)'
  <2>1. proc.after # Node_head_ch => prev'[proc.after] = Node_head_ch
    BY <1>5, <1>6
  <2>2. UnlinkInv'
    BY <1>1, <1>2, <1>3, <1>4, <1>8, <2>1 DEF UnlinkInv
  <2> QED  BY <1>2, <2>2 DEF LoopInv, PrintInv, TakeInv, FreeInv
<1>11. Ascending(L)' /\ BehindInv(L)'
  BY <1>1, <1>2, <1>3 DEF ListIs, Ascending, BehindInv, Behind
<1>12. LossInv(L)'
  <2>1. Kept(L)' = Kept(L) /\ Printed' = Printed
    BY <1>1, <1>2 DEF Kept, Delivered, Printed
  <2> QED  BY <1>1, <1>2, <1>3, <2>1 DEF ListIs, LossInv, DeletePoints
<1> QED  BY <1>1, <1>7, <1>8, <1>9, <1>10, <1>11, <1>12 DEF ListIs

\* The node leaves the list; if it was the last when its neighbours were read, so do
\* those that were put behind it since.
LEMMA UnlinkNextKeeps ==
  ASSUME TypeOK, NEW L \in SUBSET allocated, ListIs(L), UnlinkNext
  PROVE  \E G \in SUBSET allocated' : ListIs(G)'
<1> USE Names
<1>1. /\ proc.pc = "unlink_next" /\ softirq[Home].pc = "off"
      /\ next' = [next EXCEPT ![proc.before] = proc.after]
      /\ proc' = [proc EXCEPT !.pc = "free"]
      /\ cleared' = IF Clearing THEN cleared \cup {record[proc.pos]} ELSE cleared
      /\ UNCHANGED <<prev, allocated, record, deadProcess, softirq, died, reported,
                     dropped, raced>>
  BY DEF UnlinkNext, At, Bypass
<1>2. /\ proc'.pc = "free" /\ proc'.show = proc.show /\ proc'.buffer = proc.buffer
      /\ proc'.pos = proc.pos /\ proc'.q = proc.q
      /\ L \subseteq Nodes /\ allocated \subseteq Nodes /\ proc.after \in Links
  BY <1>1 DEF TypeOK
<1>3. /\ ~Dying /\ ~Dying' /\ Last' = Last /\ OldTail = prev[Node_head_ch] /\ OldTail' = OldTail
  BY <1>1 DEF Dying, Last, OldTail
<1>4. /\ proc.pos \in allocated /\ record[proc.pos] \in 1 .. Last
      /\ proc.before = Node_head_ch /\ proc.q \in {proc.after, Node_head_ch}
      /\ proc.after # Node_head_ch \/ ~raced => proc.pos = FirstNode /\ proc.after = next[proc.pos]
      /\ proc.after = Node_head_ch => OldTail # proc.pos
      /\ proc.after # Node_head_ch => prev[proc.after] = Node_head_ch
  BY <1>1 DEF ListIs, LoopInv, UnlinkInv
<1>5. /\ FirstNode' = proc.after
      /\ \A m \in Links \ {Node_head_ch} : next'[m] = next[m]
  BY <1>1, <1>4 DEF FirstNode, TypeOK
<1>6. proc.after # Node_head_ch \/ ~raced => proc.pos \in L
  BY <1>2, <1>4 DEF ListIs, Chain
<1>7. PICK G \in SUBSET L :
        /\ Chain(G)' /\ TailInv(G)' /\ proc.pos \notin G /\ OldTail # proc.pos
        /\ ~raced => G = L \ {proc.pos} /\ proc.pos \in L
  <2>1. CASE proc.after = Node_head_ch
    <3>1. Chain({})'
      BY <1>5, <2>1 DEF Chain
    <3>2. ~raced => L = {proc.pos}
      BY <1>4, <1>6, <2>1, OnlyOne DEF ListIs
    <3>3. \/ OldTail = Node_head_ch
          \/ OldTail \in L /\ raced
          \/ OldTail \in allocated /\ raced
      BY <1>4, <2>1, <3>2 DEF ListIs, TailInv
    <3>4. TailInv({})'
      BY <1>1, <1>3, <1>5, <2>1, <3>3 DEF TailInv, FirstNode
    <3> QED  BY <1>4, <1>6, <2>1, <3>1, <3>2, <3>4
  <2>2. CASE proc.after # Node_head_ch
    <3>1. /\ proc.pos = FirstNode /\ FirstNode \in L /\ proc.after = next[FirstNode] /\ proc.after \in L
          /\ FirstNode # Node_head_ch
      BY <1>2, <1>4, <1>6, <2>2 DEF ListIs, Chain
    <3>2. \A n \in L : record[n] \in Nat
      BY BoundsAssumption DEF TypeOK
    <3>3. \A n \in L \ {FirstNode} : record[FirstNode] < record[n] /\ next'[n] = next[n] /\ next[n] # FirstNode
                                 /\ record[next[FirstNode]] <= record[n]
      BY <1>2, <1>5, <3>1, <3>2 DEF ListIs, Chain
    <3>4. proc.after # FirstNode
      BY <2>2, <3>1, <3>2 DEF ListIs, Chain
    <3> PICK first : first = FirstNode
      OBVIOUS
    <3>5. Chain(L \ {first})'
      <4>1. \A n \in L \ {first} :
              /\ record'[n] \in 1 .. Last'
              /\ FirstNode' \in L \ {first} /\ record'[FirstNode'] <= record'[n]
              /\ next'[n] \in (L \ {first}) \cup {Node_head_ch}
              /\ next'[n] # Node_head_ch => record'[n] < record'[next'[n]]
        BY <1>1, <1>3, <1>5, <3>1, <3>3, <3>4 DEF ListIs, Chain
      <4>2. \A m, n \in L \ {first} :
              /\ record'[n] < record'[m] => next'[n] \in L \ {first} /\ record'[next'[n]] <= record'[m]
              /\ record'[m] = record'[n] => m = n
        BY <1>1, <1>3, <1>5, <3>1, <3>3, <3>4 DEF ListIs, Chain
      <4>3. FirstNode' \in L \ {first} /\ prev'[FirstNode'] = Node_head_ch
        BY <1>1, <1>4, <1>5, <2>2, <3>1, <3>4
      <4> QED  BY <4>1, <4>2, <4>3 DEF Chain
    <3>6. OldTail \in L \ {proc.pos} /\ next[OldTail] = Node_head_ch
      <4>1. next[FirstNode] # Node_head_ch /\ L # {}
        BY <2>2, <3>1
      <4>2. OldTail \in L \cup {Node_head_ch} /\ next[OldTail] = Node_head_ch
        BY <2>2, <4>1 DEF ListIs, TailInv
      <4> QED  BY <3>1, <4>1, <4>2 DEF FirstNode
    <3>7. TailInv(L \ {first})'
      BY <1>2, <1>3, <1>5, <3>1, <3>6 DEF TailInv
    <3> QED  BY <1>6, <3>1, <3>5, <3>6, <3>7
  <2> QED  BY <2>1, <2>2
<1>8. DeathInv(G)'
  BY <1>3 DEF DeathInv
<1>9. LoopInv(G)'
  BY <1>1, <1>2, <1>3, <1>4, <1>5, <1>7 DEF LoopInv, PrintInv, TakeInv, UnlinkInv, FreeInv
<1>10. Ascending(G)' /\ BehindInv(G)'
  BY <1>1, <1>2, <1>3, <1>7 DEF ListIs, Ascending, BehindInv, Behind
<1>11. LossInv(G)'
  <2>1. CASE raced
    BY <1>1, <1>2, <2>1 DEF LossInv
  <2>2. CASE ~raced
    <3>1. G = L \ {proc.pos} /\ proc.pos \in L
      BY <1>7, <2>2
    <3>2. Printed' = Printed
      BY <1>1, <1>2 DEF Printed
    <3>3. record[proc.pos] \in Kept(G)'
      <4>1. CASE proc.show = "E"
        <5>1. record[proc.pos] \in Printed
          BY <1>1, <2>2, <3>1, <4>1 DEF ListIs, LossInv, DeletePoints
        <5> QED  BY <3>2, <5>1 DEF Kept, Printed
      <4>2. CASE proc.show # "E"
        <5>1. record[proc.pos] \in cleared'
          BY <1>1, <4>2 DEF Clearing, Deleting, DeletePoints
        <5> QED  BY <5>1 DEF Kept
      <4> QED  BY <4>1, <4>2
    <3>4. Kept(L) \subseteq Kept(G)'
      BY <1>1, <1>2, <3>1, <3>3 DEF Kept, Delivered
    <3> QED  BY <1>1, <1>2, <1>3, <2>2, <3>1, <3>2, <3>4 DEF ListIs, LossInv, DeletePoints
  <2> QED  BY <2>1, <2>2
<1> QED  BY <1>1, <1>7, <1>8, <1>9, <1>10, <1>11 DEF ListIs

LEMMA FreeKeeps ==
  ASSUME TypeOK, NEW L \in SUBSET allocated, ListIs(L), Free
  PROVE  ListIs(L)' /\ L \in SUBSET allocated'
<1> USE Names
<1>1. /\ proc.pc = "free" /\ softirq[Home].pc = "off"
      /\ next' = [next EXCEPT ![proc.pos] = Poison]
      /\ prev' = [prev EXCEPT ![proc.pos] = Poison]
      /\ allocated' = allocated \ {proc.pos}
      /\ UNCHANGED <<record, deadProcess, softirq, died, reported, cleared, dropped, raced>>
  BY DEF Free, At, history
<1>2. proc' = [proc EXCEPT !.pc = "take", !.pos = proc.q, !.q = next'[proc.q]]
  BY DEF Free, Following, TypeOK
<1>3. /\ proc'.pc = "take" /\ proc'.show = proc.show /\ proc'.buffer = proc.buffer
      /\ proc'.pos = proc.q /\ proc'.q = next'[proc.q]
      /\ L \subseteq Nodes /\ allocated \subseteq Nodes
  BY <1>2 DEF TypeOK
<1>4. /\ ~Dying /\ ~Dying' /\ Last' = Last /\ OldTail = prev[Node_head_ch]
      /\ OldTail' = prev'[Node_head_ch]
  BY <1>1 DEF Dying, Last, OldTail
<1>5. proc.pos \in allocated \ L /\ OldTail # proc.pos /\ proc.q \in {FirstNode, Node_head_ch}
  BY <1>1 DEF ListIs, LoopInv, FreeInv
<1>6. /\ \A m \in Links \ {proc.pos} : next'[m] = next[m] /\ prev'[m] = prev[m]
      /\ Node_head_ch # proc.pos
  BY <1>1, <1>3, <1>5 DEF TypeOK
<1>7. /\ FirstNode' = FirstNode /\ OldTail' = OldTail /\ FirstNode \in L \cup {Node_head_ch}
      /\ \A n \in L \cup {Node_head_ch} : n # proc.pos /\ n \in Links
  BY <1>3, <1>4, <1>5, <1>6 DEF FirstNode, ListIs, Chain
<1>8. Chain(L)' /\ L \in SUBSET allocated'
  BY <1>1, <1>4, <1>6, <1>7 DEF ListIs, Chain
<1>9. TailInv(L)'
  BY <1>1, <1>5, <1>6, <1>7 DEF ListIs, TailInv
<1>10. DeathInv(L)'
  BY <1>4 DEF DeathInv
<1>11. LoopInv(L)'
  BY <1>3, <1>5, <1>7 DEF LoopInv, PrintInv, TakeInv, UnlinkInv, FreeInv
<1>12. Ascending(L)'
  BY <1>1, <1>3, <1>4 DEF ListIs, Ascending
<1>13. BehindInv(L)'
  <2>1. proc.q = Node_head_ch => \A n \in L, i \in DOMAIN proc.buffer : proc.buffer[i] < record[n]
    <3>1. L \ {proc.pos} = L
      BY <1>5
    <3> QED  BY <1>1, <3>1 DEF ListIs, BehindInv, Behind
  <2>2. proc.q # Node_head_ch /\ next'[proc.q] = Node_head_ch => L \subseteq {proc.q}
    BY <1>5, <1>6, <1>7, OnlyOne DEF ListIs
  <2>3. proc'.show # "E" => proc'.buffer = <<>>
    BY <1>3 DEF ListIs, BehindInv
  <2> QED  BY <1>1, <1>3, <2>1, <2>2, <2>3 DEF BehindInv, Behind
<1>14. LossInv(L)'
  <2>1. Kept(L)' = Kept(L) /\ Printed' = Printed
    BY <1>1, <1>3 DEF Kept, Delivered, Printed
  <2> QED  BY <1>1, <1>3, <1>4, <2>1 DEF ListIs, LossInv, DeletePoints
<1> QED  BY <1>8, <1>9, <1>10, <1>11, <1>12, <1>13, <1>14 DEF ListIs

LEMMA SeqReadKeeps ==
  ASSUME TypeOK, NEW L \in SUBSET allocated, ListIs(L), SeqRead
  PROVE  ListIs(L)' /\ L \in SUBSET allocated'
<1>1. /\ Chain(L)' /\ TailInv(L)' /\ DeathInv(L)' /\ L \in SUBSET allocated'
      /\ Last' = Last /\ Last = died
      /\ UNCHANGED <<next, prev, allocated, record, raced, died>>
  BY ListUntouched DEF SeqRead, At
<1>2. proc.pc = "printed" /\ UNCHANGED cleared
  BY DEF SeqRead, At
<1>3. proc'.buffer = <<>> /\ proc'.pc \in {"idle", "opened"}
  <2>1. \/ \E x, y : proc' = [Idle EXCEPT !.pc = "opened", !.show = x, !.room = y]
        \/ proc' = Idle
    BY Zenon DEF SeqRead
  <2>2. CASE proc' = Idle
    BY <2>2 DEF Idle
  <2>3. CASE \E x, y : proc' = [Idle EXCEPT !.pc = "opened", !.show = x, !.room = y]
    <3>1. PICK x, y : proc' = [Idle EXCEPT !.pc = "opened", !.show = x, !.room = y]
      BY <2>3
    <3>2. proc'.pc = "opened"
      BY <3>1 DEF Idle
    <3>3. proc'.buffer = Idle.buffer
      BY <3>1 DEF Idle
    <3> QED  BY <3>2, <3>3 DEF Idle
  <2> QED  BY <2>1, <2>2, <2>3
<1>4. LoopInv(L)'
  BY <1>3 DEF LoopInv, PrintInv, TakeInv, UnlinkInv, FreeInv
<1>5. /\ Delivered \cup ElementsOf(proc.buffer) \cup dropped \subseteq Delivered' \cup dropped'
      /\ Ascending(L)'
  <2>1. CASE UNCHANGED reported /\ dropped' = dropped \cup ElementsOf(proc.buffer)
    <3>1. Ascending(L)'
      BY <1>1, <1>3, <2>1 DEF ListIs, Ascending
    <3> QED  BY <2>1, <3>1 DEF Delivered
  <2>2. CASE UNCHANGED dropped /\ reported' = reported \o proc.buffer
    <3>1. /\ DOMAIN reported' = 1 .. Len(reported) + Len(proc.buffer)
          /\ \A i \in 1 .. Len(reported) + Len(proc.buffer) :
               reported'[i] = IF i <= Len(reported) THEN reported[i]
                              ELSE proc.buffer[i - Len(reported)]
      <4>1. reported' \in Seq(1 .. MaxDeaths)
        BY <2>2, Numbers, ConcatProperties
      <4>2. DOMAIN reported' = 1 .. Len(reported')
        BY <4>1, LenProperties
      <4> QED  BY <2>2, <4>2, Numbers, ConcatProperties
    <3>2. /\ DOMAIN reported = 1 .. Len(reported) /\ Len(reported) \in Nat
          /\ DOMAIN proc.buffer = 1 .. Len(proc.buffer) /\ Len(proc.buffer) \in Nat
      BY Numbers
    <3>3. Delivered \cup ElementsOf(proc.buffer) \subseteq Delivered'
      <4>1. \A i \in DOMAIN reported : i \in DOMAIN reported' /\ reported'[i] = reported[i]
        BY <3>1, <3>2
      <4>2. \A i \in DOMAIN proc.buffer : /\ Len(reported) + i \in DOMAIN reported'
                                          /\ reported'[Len(reported) + i] = proc.buffer[i]
        BY <3>1, <3>2
      <4> QED  BY <4>1, <4>2 DEF Delivered, ElementsOf
    <3>4. \A k \in DOMAIN reported' :
            \/ k \in DOMAIN reported /\ reported'[k] = reported[k]
            \/ /\ k > Len(reported) /\ k - Len(reported) \in DOMAIN proc.buffer
               /\ reported'[k] = proc.buffer[k - Len(reported)]
      BY <3>1, <3>2
    <3>5. \A i, j \in DOMAIN reported' : i < j => reported'[i] < reported'[j]
      <4> SUFFICES ASSUME NEW i \in DOMAIN reported', NEW j \in DOMAIN reported', i < j
                   PROVE  reported'[i] < reported'[j]
        OBVIOUS
      <4>1. CASE j \in DOMAIN reported /\ reported'[j] = reported[j]
        BY <3>1, <3>2, <3>4, <4>1 DEF ListIs, Ascending
      <4>2. CASE /\ j > Len(reported) /\ j - Len(reported) \in DOMAIN proc.buffer
                 /\ reported'[j] = proc.buffer[j - Len(reported)]
        <5>1. CASE i \in DOMAIN reported /\ reported'[i] = reported[i]
          BY <4>2, <5>1 DEF ListIs, Ascending
        <5>2. CASE /\ i > Len(reported) /\ i - Len(reported) \in DOMAIN proc.buffer
                   /\ reported'[i] = proc.buffer[i - Len(reported)]
          <6>1. i - Len(reported) < j - Len(reported)
            BY <3>1, <3>2
          <6> QED  BY <4>2, <5>2, <6>1 DEF ListIs, Ascending
        <5> QED  BY <3>4, <5>1, <5>2
      <4> QED  BY <3>4, <4>1, <4>2
    <3>6. \A i \in DOMAIN reported' : reported'[i] <= died /\ \A n \in L : reported'[i] < record[n]
      BY <1>1, <1>2, <3>4 DEF ListIs, Ascending, BehindInv, Behind
    <3>7. Ascending(L)'
      BY <1>1, <1>3, <3>5, <3>6 DEF Ascending
    <3> QED  BY <2>2, <3>3, <3>7
  <2> QED  BY <2>1, <2>2 DEF SeqRead, ElementsOf
<1>6. BehindInv(L)'
  BY <1>3 DEF BehindInv
<1>7. LossInv(L)'
  <2>1. Kept(L) \subseteq Kept(L)'
    BY <1>1, <1>2, <1>5 DEF Kept
  <2> QED  BY <1>1, <1>3, <2>1 DEF ListIs, LossInv, DeletePoints
<1> QED  BY <1>1, <1>4, <1>5, <1>6, <1>7 DEF ListIs

-----------------------------------------------------------------------------
(* Types.                                                                  *)

Procs    == [pc : Points, show : Modes, pos : Links, q : Links, before : Links,
             after : Links, buffer : Seq(1 .. MaxDeaths), room : Nat]
Softirqs == [pc : {"off", "fill", "read_tail", "link_head", "link_new", "link_tail"},
             pid : 0 .. MaxDeaths, new : Nodes \cup {NoNode}, tail : Links]

ListTypes ==
  /\ next \in [Links -> Links \cup {Poison}]
  /\ prev \in [Links -> Links \cup {Poison}]
  /\ allocated \subseteq Nodes
  /\ record \in [Nodes -> 0 .. MaxDeaths]
  /\ deadProcess \in Nodes \cup {NoNode}
HistoryTypes ==
  /\ died \in 0 .. MaxDeaths /\ calls \in 0 .. MaxCalls
  /\ reported \in Seq(1 .. MaxDeaths)
  /\ cleared \subseteq 1 .. MaxDeaths /\ dropped \subseteq 1 .. MaxDeaths
  /\ raced \in BOOLEAN

LEMMA Typed ==
  TypeOK <=> /\ ListTypes /\ HistoryTypes /\ proc \in Procs
             /\ softirq \in [CPUs -> Softirqs] /\ flag_check_mode \in Modes /\ input_str \in Modes
BY DEF TypeOK, ListTypes, HistoryTypes, Procs, Softirqs

LEMMA DeathTypes ==
  ASSUME CPUs = {Home}, TypeOK, NEW L \in SUBSET allocated, ListIs(L), Death(Home)
  PROVE  TypeOK'
<1> USE Names, BoundsAssumption
<1>1. OldTail \in Links
  BY DEF ListIs, TailInv, TypeOK
<1>2. Dying => New \in Nodes
  BY DEF ListIs, DeathInv, TypeOK
<1>0. /\ ListTypes /\ HistoryTypes /\ proc \in Procs /\ softirq \in [CPUs -> Softirqs]
      /\ flag_check_mode \in Modes /\ input_str \in Modes
  BY Typed
<1>t. /\ softirq' \in [CPUs -> Softirqs] /\ ListTypes' /\ HistoryTypes' /\ UNCHANGED <<hw1, proc>>
      => TypeOK'
  BY <1>0 DEF hw1, TypeOK, ListTypes, HistoryTypes, Procs, Softirqs
<1>3. CASE Allocate(Home)
  <2>1. softirq' = [softirq EXCEPT ![Home] = [Off EXCEPT !.pc = "fill", !.pid = died + 1]]
        /\ died + 1 \in 1 .. MaxDeaths
    BY <1>0, <1>3 DEF Allocate, HistoryTypes
  <2>2. [Off EXCEPT !.pc = "fill", !.pid = died + 1] \in Softirqs
    <3>1. NoNode \in Nodes \cup {NoNode} /\ died + 1 \in 0 .. MaxDeaths
      BY <2>1
    <3> QED  BY <3>1 DEF Off, Softirqs
  <2>3. softirq' \in [CPUs -> Softirqs]
    BY <1>0, <2>1, <2>2
  <2>4. ListTypes'
    BY <1>0, <1>3 DEF Allocate, ListTypes
  <2>5. HistoryTypes'
    BY <1>0, <1>3, <2>1 DEF Allocate, HistoryTypes
  <2> QED  BY <1>3, <1>t, <2>3, <2>4, <2>5 DEF Allocate
<1>4. CASE Fill(Home)
  <2>1. deadProcess \in Nodes
    BY <1>2, <1>4 DEF Fill, New, Linking, Dying
  <2>2. softirq' \in [CPUs -> Softirqs]
    BY <1>0, <1>4, <2>1 DEF Fill, Softirqs
  <2>3. ListTypes' /\ HistoryTypes'
    BY <1>0, <1>4, <2>1 DEF Fill, ListTypes, HistoryTypes, history, list, Softirqs
  <2> QED  BY <1>4, <1>t, <2>2, <2>3 DEF Fill
<1>5. CASE ReadTail(Home)
  <2>1. deadProcess \in Nodes /\ prev[Node_head_ch] \in Links
    BY <1>1, <1>2, <1>5 DEF ReadTail, New, Linking, Dying, OldTail
  <2>2. softirq' \in [CPUs -> Softirqs]
    <3>1. [softirq[Home] EXCEPT !.pc = "link_head", !.new = deadProcess,
                               !.tail = prev[Node_head_ch]] \in Softirqs
      BY <1>0, <2>1 DEF Softirqs
    <3> QED  BY <1>0, <1>5, <3>1 DEF ReadTail
  <2>3. ListTypes' /\ HistoryTypes'
    BY <1>0, <1>5, <2>1 DEF ReadTail, ListTypes, HistoryTypes, history, list, Softirqs
  <2> QED  BY <1>5, <1>t, <2>2, <2>3 DEF ReadTail
<1>6. CASE LinkHead(Home)
  <2>1. softirq[Home].new \in Nodes
    BY <1>2, <1>6 DEF LinkHead, New, Linking, Dying
  <2>2. softirq' \in [CPUs -> Softirqs]
    BY <1>0, <1>6, <2>1 DEF LinkHead, Softirqs
  <2>3. ListTypes' /\ HistoryTypes'
    BY <1>0, <1>6, <2>1 DEF LinkHead, ListTypes, HistoryTypes, history, list, Softirqs
  <2> QED  BY <1>6, <1>t, <2>2, <2>3 DEF LinkHead
<1>7. CASE LinkNew(Home)
  <2>1. softirq[Home].new \in Nodes
    BY <1>2, <1>7 DEF LinkNew, New, Linking, Dying
  <2>2. softirq' \in [CPUs -> Softirqs]
    BY <1>0, <1>7, <2>1 DEF LinkNew, Softirqs
  <2>3. ListTypes' /\ HistoryTypes'
    BY <1>0, <1>7, <2>1 DEF LinkNew, ListTypes, HistoryTypes, history, list, Softirqs
  <2> QED  BY <1>7, <1>t, <2>2, <2>3 DEF LinkNew
<1>8. CASE LinkTail(Home)
  <2>1. softirq[Home].new \in Nodes
    BY <1>2, <1>8 DEF LinkTail, New, Linking, Dying
  <2>2. softirq' \in [CPUs -> Softirqs]
    BY <1>0, <1>8, <2>1 DEF LinkTail, Softirqs, Off
  <2>3. ListTypes' /\ HistoryTypes'
    BY <1>0, <1>8, <2>1 DEF LinkTail, ListTypes, HistoryTypes, history, list, Softirqs
  <2> QED  BY <1>8, <1>t, <2>2, <2>3 DEF LinkTail
<1> QED  BY <1>3, <1>4, <1>5, <1>6, <1>7, <1>8 DEF Death

LEMMA IdleType == Idle \in Procs
<1>1. <<>> \in Seq(1 .. MaxDeaths)
  BY EmptySeq
<1>2. Room \in Nat /\ Node_head_ch \in Links
  BY Names, RoomAssumption
<1> QED  BY <1>1, <1>2 DEF Idle, Points, Modes, Procs

LEMMA WriteCalls ==
  ASSUME TypeOK, NEW ch, Write(ch)
  PROVE  calls' \in 0 .. MaxCalls
<1>1. calls < MaxCalls /\ calls' = calls + 1
  BY Zenon DEF Write
<1>2. calls \in 0 .. MaxCalls
  BY DEF TypeOK
<1> QED  BY <1>1, <1>2, BoundsAssumption

LEMMA UserTypes ==
  ASSUME TypeOK, NEW L \in SUBSET allocated, ListIs(L), User
  PROVE  TypeOK'
<1> USE Names, BoundsAssumption
<1>0. /\ ListTypes /\ HistoryTypes /\ proc \in Procs /\ softirq \in [CPUs -> Softirqs]
      /\ flag_check_mode \in Modes /\ input_str \in Modes /\ Idle \in Procs
  BY Typed, IdleType
<1>t. /\ proc' \in Procs /\ ListTypes' /\ HistoryTypes' /\ UNCHANGED softirq
      /\ flag_check_mode' \in Modes /\ input_str' \in Modes
      => TypeOK'
  BY <1>0 DEF TypeOK, ListTypes, HistoryTypes, Procs, Softirqs
<1>l. UNCHANGED <<list, deadProcess>> => ListTypes'
  BY <1>0 DEF ListTypes, list
<1>h. UNCHANGED <<died, reported, cleared, dropped, raced>> /\ calls' \in 0 .. MaxCalls
      => HistoryTypes'
  BY <1>0 DEF HistoryTypes
<1>c. calls \in 0 .. MaxCalls
  BY <1>0 DEF HistoryTypes
<1>1. /\ FirstNode \in Links /\ next[FirstNode] \in Links
      /\ \A n \in L : n \in Nodes /\ next[n] \in Links /\ record[n] \in 1 .. MaxDeaths
  <2>1. Last <= MaxDeaths /\ Last \in Int
    BY DEF Last, TypeOK
  <2>2. \A n \in L : n \in Nodes /\ n \in Links
    BY DEF TypeOK
  <2>3. FirstNode \in Links /\ \A n \in L : next[n] \in Links
    BY <2>2 DEF ListIs, Chain
  <2>4. \A n \in L : record[n] \in 1 .. MaxDeaths
    BY <2>1 DEF ListIs, Chain
  <2>5. next[FirstNode] \in Links
    BY <2>3 DEF ListIs, Chain, FirstNode
  <2> QED  BY <2>2, <2>3, <2>4, <2>5
<1>2. CASE Open
  <2>1. proc' \in Procs /\ calls' \in 0 .. MaxCalls
    <3>1. calls' \in 0 .. MaxCalls
      BY <1>2, <1>c DEF Open
    <3>2. [Idle EXCEPT !.pc = "opened", !.show = flag_check_mode] \in Procs
      BY <1>0 DEF Procs, Points
    <3> QED  BY <1>2, <3>1, <3>2 DEF Open
  <2> QED  BY <1>0, <1>2, <1>t, <1>l, <1>h, <2>1 DEF Open, hw1
<1>3. CASE ShowOther
  BY <1>0, <1>3, <1>t, <1>l, <1>h, <1>c DEF ShowOther, hw1, history
<1>4. CASE ShowDead
  <2>1. proc' \in Procs
    BY <1>0, <1>1, <1>4 DEF ShowDead, FirstNode, FirstEntry, Procs, Points
  <2> QED  BY <1>0, <1>4, <1>t, <1>l, <1>h, <1>c, <2>1 DEF ShowDead, hw1, history
<1>5. CASE PrintRecord
  <2>1. proc.pos # Node_head_ch => proc.pos \in L
    BY <1>5 DEF PrintRecord, At, ListIs, LoopInv, PrintInv
  <2>2. proc.pos # Node_head_ch => Append(proc.buffer, record[proc.pos]) \in Seq(1 .. MaxDeaths)
    BY <1>1, <2>1, Numbers, AppendProperties
  <2>3. proc' \in Procs
    <3>1. \/ proc' = [proc EXCEPT !.pc = "delete"]
          \/ proc.pos # Node_head_ch /\ proc' = [proc EXCEPT !.pos = next[proc.pos]]
          \/ /\ proc.pos # Node_head_ch
             /\ proc' = [proc EXCEPT !.buffer = Append(proc.buffer, record[proc.pos]),
                                     !.pos = next[proc.pos]]
      BY <1>5 DEF PrintRecord, AfterPrint
    <3>2. CASE proc' = [proc EXCEPT !.pc = "delete"]
      BY <1>0, <3>2 DEF Procs, Points, DeletePoints
    <3>3. CASE proc.pos # Node_head_ch /\ proc' = [proc EXCEPT !.pos = next[proc.pos]]
      BY <1>0, <1>1, <2>1, <3>3 DEF Procs
    <3>4. CASE /\ proc.pos # Node_head_ch
               /\ proc' = [proc EXCEPT !.buffer = Append(proc.buffer, record[proc.pos]),
                                       !.pos = next[proc.pos]]
      <4>1. PICK s \in Seq(1 .. MaxDeaths) : s = Append(proc.buffer, record[proc.pos])
        BY <2>2, <3>4
      <4> QED  BY <1>0, <1>1, <2>1, <3>4, <4>1 DEF Procs
    <3> QED  BY <3>1, <3>2, <3>3, <3>4
  <2>4. HistoryTypes'
    BY <1>0, <1>1, <1>5, <2>1 DEF PrintRecord, HistoryTypes
  <2> QED  BY <1>0, <1>5, <1>t, <1>l, <2>3, <2>4 DEF PrintRecord, hw1
<1>6. CASE SeqRead
  <2>1. reported \o proc.buffer \in Seq(1 .. MaxDeaths)
    BY Numbers, ConcatProperties
  <2>2. {proc.buffer[i] : i \in DOMAIN proc.buffer} \subseteq 1 .. MaxDeaths
    BY Numbers
  <2>3. proc' \in Procs
    <3>1. PICK r \in Nat : r = 2 * proc.room
      BY <1>0 DEF Procs
    <3>2. \/ proc' = [Idle EXCEPT !.pc = "opened", !.show = proc.show, !.room = r]
          \/ proc' = Idle
      BY <1>6, <3>1 DEF SeqRead
    <3>3. [Idle EXCEPT !.pc = "opened", !.show = proc.show, !.room = r] \in Procs
      BY <1>0, <3>1 DEF Procs, Points
    <3> QED  BY <1>0, <3>2, <3>3
  <2>4. HistoryTypes'
    BY <1>0, <1>6, <2>1, <2>2 DEF SeqRead, HistoryTypes
  <2> QED  BY <1>0, <1>6, <1>t, <1>l, <2>3, <2>4 DEF SeqRead, hw1
<1>7. ASSUME NEW ch \in Modes \cup {""}, Write(ch) PROVE TypeOK'
  <2>1. input_str' \in Modes /\ flag_check_mode' \in Modes /\ calls' \in 0 .. MaxCalls
    <3>1. calls' \in 0 .. MaxCalls
      BY <1>7, WriteCalls
    <3>2. input_str' \in Modes /\ flag_check_mode' = input_str'
      BY <1>0, <1>7 DEF Write
    <3> QED  BY <3>1, <3>2
  <2>2. [Idle EXCEPT !.pc = "delete"] \in Procs
    BY <1>0 DEF Procs, Points, DeletePoints
  <2>3. proc' \in Procs
    BY <1>0, <1>7, <2>2 DEF Write
  <2> QED  BY <1>0, <1>7, <1>t, <1>l, <1>h, <2>1, <2>3 DEF Write
<1>8. CASE Delete
  <2>1. proc' \in Procs
    BY <1>0, <1>1, <1>8 DEF Delete, FirstNode, Procs, Points, DeletePoints
  <2> QED  BY <1>0, <1>8, <1>t, <1>l, <1>h, <1>c, <2>1 DEF Delete, hw1, history
<1>9. CASE Take
  <2>1. proc.pos # Node_head_ch => /\ prev[proc.pos] \in Links /\ next[proc.pos] \in Links
    BY <1>1, <1>9 DEF Take, At, ListIs, LoopInv, TakeInv, Chain
  <2>2. [proc EXCEPT !.pc = "printed"] \in Procs
    BY <1>0 DEF Procs, Points
  <2>3. proc.pos # Node_head_ch =>
          [proc EXCEPT !.pc = "unlink_prev", !.before = prev[proc.pos],
                       !.after = next[proc.pos]] \in Procs
    BY <1>0, <2>1 DEF Procs, Points, DeletePoints
  <2>4. proc' \in Procs
    BY <1>0, <1>9, <2>2, <2>3 DEF Take
  <2> QED  BY <1>0, <1>9, <1>t, <1>l, <1>h, <1>c, <2>4 DEF Take, hw1, history
<1>10. CASE UnlinkPrev
  <2>1. proc' \in Procs
    BY <1>0, <1>10 DEF UnlinkPrev, Procs, Points, DeletePoints
  <2>2. ListTypes'
    BY <1>0, <1>10 DEF UnlinkPrev, ListTypes, Procs
  <2> QED  BY <1>0, <1>10, <1>t, <1>h, <1>c, <2>1, <2>2 DEF UnlinkPrev, hw1, history
<1>11. CASE UnlinkNext
  <2>1. record[proc.pos] \in 1 .. MaxDeaths
    BY <1>11 DEF UnlinkNext, At, ListIs, LoopInv, UnlinkInv, Last, TypeOK
  <2>2. proc' \in Procs
    BY <1>0, <1>11 DEF UnlinkNext, Procs, Points, DeletePoints
  <2>3. ListTypes'
    BY <1>0, <1>11 DEF UnlinkNext, ListTypes, Procs, Bypass
  <2>4. HistoryTypes'
    BY <1>0, <1>11, <2>1 DEF UnlinkNext, HistoryTypes
  <2> QED  BY <1>0, <1>11, <1>t, <2>2, <2>3, <2>4 DEF UnlinkNext, hw1
<1>12. CASE Free
  <2>1. proc.pos \in Nodes \ L /\ proc.q \in {FirstNode, Node_head_ch}
    BY <1>12 DEF Free, At, ListIs, LoopInv, FreeInv, TypeOK
  <2>2. /\ proc.pos # FirstNode /\ proc.pos # Node_head_ch
    BY <1>1, <2>1 DEF ListIs, Chain
  <2>3. next' = [next EXCEPT ![proc.pos] = Poison] /\ next'[proc.q] \in Links
        /\ proc.q \in Links /\ proc.q # Poison
    BY <1>0, <1>1, <1>12, <2>1, <2>2 DEF Free, FirstNode, ListTypes
  <2>4. proc' = [proc EXCEPT !.pc = "take", !.pos = proc.q, !.q = next'[proc.q]]
    BY <1>12, <2>3 DEF Free, Following
  <2>5. proc' \in Procs
    BY <1>0, <2>3, <2>4 DEF Procs, Points, DeletePoints
  <2>6. ListTypes'
    BY <1>0, <1>12 DEF Free, ListTypes
  <2> QED  BY <1>0, <1>12, <1>t, <1>h, <1>c, <2>5, <2>6 DEF Free, hw1, history
<1> QED  BY <1>2, <1>3, <1>4, <1>5, <1>6, <1>7, <1>8, <1>9, <1>10, <1>11, <1>12 DEF User

-----------------------------------------------------------------------------
(* The invariant holds.                                                    *)

LEMMA ListInit == Init => ListInv
<1> SUFFICES ASSUME Init PROVE ListInv
  OBVIOUS
<1> USE Names, BoundsAssumption
<1>1. TypeOK
  <2>1. proc \in Procs
    BY IdleType DEF Init
  <2>2. softirq \in [CPUs -> Softirqs]
    BY DEF Init, Off, Softirqs
  <2>3. ListTypes /\ HistoryTypes
    <3>1. ListTypes
      BY DEF Init, ListTypes
    <3>2. reported \in Seq(1 .. MaxDeaths)
      BY EmptySeq DEF Init
    <3>3. /\ died = 0 /\ calls = 0 /\ cleared = {} /\ dropped = {}
          /\ raced \in BOOLEAN
      BY DEF Init
    <3> QED  BY <3>1, <3>2, <3>3 DEF HistoryTypes
  <2> QED  BY <2>1, <2>2, <2>3, Typed DEF Init, Modes
<1>2. /\ ~Dying /\ proc.pc = "idle" /\ proc.buffer = <<>> /\ reported = <<>> /\ died = 0
      /\ FirstNode = Node_head_ch /\ OldTail = Node_head_ch
  BY DEF Init, Idle, Off, Dying, FirstNode, OldTail
<1>3. Chain({}) /\ TailInv({}) /\ DeathInv({}) /\ LoopInv({})
  BY <1>2 DEF Chain, TailInv, DeathInv, LoopInv, PrintInv, TakeInv, UnlinkInv, FreeInv, FirstNode
<1>4. Ascending({}) /\ BehindInv({}) /\ LossInv({})
  BY <1>2 DEF Ascending, BehindInv, LossInv, Last, DeletePoints
<1> QED  BY <1>1, <1>3, <1>4 DEF ListInv, ListIs

LEMMA ListNext ==
  ASSUME CPUs = {Home}, ListInv, [Next]_vars
  PROVE  ListInv'
<1>1. PICK L \in SUBSET allocated : ListIs(L)
  BY DEF ListInv
<1>2. TypeOK
  BY DEF ListInv
<1>3. ASSUME NEW c \in CPUs, Death(c) PROVE ListInv'
  <2>1. TypeOK'
    BY <1>1, <1>2, <1>3, DeathTypes
  <2> QED  BY <1>1, <1>2, <1>3, <2>1, DeathListInv DEF ListInv
<1>4. CASE User
  <2>1. TypeOK'
    BY <1>1, <1>2, <1>4, UserTypes
  <2>2. \E G \in SUBSET allocated' : ListIs(G)'
    BY <1>1, <1>2, <1>4, <2>1, OpenKeeps, ShowOtherKeeps, ShowDeadKeeps, PrintRecordKeeps,
       SeqReadKeeps, WriteKeeps, DeleteKeeps, TakeKeeps, UnlinkPrevKeeps, UnlinkNextKeeps,
       FreeKeeps DEF User
  <2> QED  BY <2>1, <2>2 DEF ListInv
<1>5. CASE UNCHANGED vars
  <2>1. TypeOK' /\ L \in SUBSET allocated'
    BY <1>1, <1>2, <1>5 DEF vars, list, hw1, history, TypeOK
  <2>2. ListIs(L)'
    BY <1>1, <1>5 DEF vars, list, hw1, history, ListIs, Chain, TailInv, DeathInv, LoopInv,
       PrintInv, TakeInv, UnlinkInv, FreeInv, Ascending, BehindInv, Behind, LossInv, Kept,
       Printed, ElementsOf, Delivered, Dying, Last, New, Linking, OldTail, FirstNode, Deleting
  <2> QED  BY <2>1, <2>2 DEF ListInv
<1> QED  BY <1>3, <1>4, <1>5 DEF Next

LEMMA ListHolds ==
  ASSUME CPUs = {Home}
  PROVE  Spec => []ListInv
<1>1. ListInv /\ [Next]_vars => ListInv'
  BY ListNext
<1> QED  BY <1>1, ListInit, PTL DEF Spec

-----------------------------------------------------------------------------
(* What a walk from the head comes to.                                     *)

\* No set that the walk stays in leaves out a node of L: the first node left out would
\* be the one after a node that is not.
LEMMA WalkIsChain ==
  ASSUME TypeOK, NEW L \in SUBSET allocated, Chain(L)
  PROVE  Listed = L
<1> USE Names
<1>1. L \subseteq Nodes /\ \A n \in L : record[n] \in Nat
  BY BoundsAssumption DEF TypeOK
<1>2. Listed \subseteq L
  <2>1. L \cup {Node_head_ch} \in SUBSET (Links \cup {Poison})
    BY <1>1
  <2>2. Closed(next, L \cup {Node_head_ch})
    BY DEF Closed, Chain, FirstNode
  <2>3. \A n \in Listed : n \in Nodes \cup {Poison} /\ n \in L \cup {Node_head_ch}
    BY <2>1, <2>2 DEF Listed, Walk
  <2> QED  BY <2>3
<1>3. ASSUME NEW S \in SUBSET (Links \cup {Poison}), Closed(next, S) PROVE L \subseteq S
  <2> SUFFICES ASSUME L \ S # {} PROVE FALSE
    OBVIOUS
  <2> DEFINE Missing == {record[n] : n \in L \ S}
  <2>1. PICK r \in Missing : \A k \in Missing : r <= k
    <3>1. Missing \in SUBSET Nat /\ Missing # {}
      BY <1>1
    <3> HIDE DEF Missing
    <3> QED  BY <3>1, Least
  <2>2. PICK n \in L \ S : r = record[n]
    BY <2>1
  <2>3. \A m \in L \ S : record[n] <= record[m]
    BY <2>1, <2>2
  <2>4. FirstNode \in S /\ FirstNode \in L /\ FirstNode # n
    BY <1>3, <2>2 DEF Closed, FirstNode, Chain
  <2> DEFINE Before == {record[m] : m \in {x \in L : record[x] < record[n]}}
  <2>5. record[FirstNode] < record[n]
    BY <1>1, <2>2, <2>4 DEF Chain
  <2>6. PICK b \in L : record[b] < record[n]
                       /\ \A m \in L : record[m] < record[n] => record[m] <= record[b]
    <3> DEFINE Gaps == {record[n] - record[m] : m \in {x \in L : record[x] < record[n]}}
    <3>1. Gaps \in SUBSET Nat /\ Gaps # {}
      BY <1>1, <2>2, <2>4, <2>5
    <3>2. PICK g \in Gaps : \A k \in Gaps : g <= k
      <4> HIDE DEF Gaps
      <4> QED  BY <3>1, Least
    <3>3. PICK b \in L : record[b] < record[n] /\ g = record[n] - record[b]
      BY <3>2
    <3>4. \A m \in L : record[m] < record[n] => record[n] - record[b] <= record[n] - record[m]
      BY <3>2, <3>3
    <3> QED  BY <1>1, <2>2, <3>3, <3>4
  <2>7. b \in S /\ b # Poison
    BY <1>1, <2>2, <2>3, <2>6
  <2>8. next[b] \in S /\ next[b] \in L /\ record[next[b]] <= record[n] /\ record[b] < record[next[b]]
    BY <1>1, <1>3, <2>2, <2>6, <2>7 DEF Closed, Chain
  <2>9. record[next[b]] = record[n]
    BY <1>1, <2>2, <2>6, <2>8
  <2> QED  BY <2>2, <2>8, <2>9 DEF Chain
<1>4. L \subseteq Listed
  BY <1>1, <1>3 DEF Listed, Walk
<1> QED  BY <1>2, <1>4

-----------------------------------------------------------------------------
(* The theorems.                                                           *)

LEMMA NobodyDying ==
  ASSUME CPUs = {Home}, InFlight = {}
  PROVE  softirq[Home].pc = "off" /\ ~Dying /\ Last = died
BY DEF InFlight, Dying, Last

\* On one processor no pointer of the list, of a loop or of the end of the list leads to
\* a freed node, whatever deaths come between the steps of print_mode_B and
\* write_call_back_func.
THEOREM NoFreedNodeReached ==
  ASSUME CPUs = {Home}
  PROVE  Spec => []PointersSound
<1>1. ListInv => PointersSound
  <2> SUFFICES ASSUME ListInv, InFlight = {}
               PROVE  /\ Listed \subseteq allocated
                      /\ prev[Node_head_ch] \in allocated \cup {Node_head_ch}
                      /\ proc.pc \in {"print", "take", "unlink_prev", "unlink_next", "free"} =>
                           proc.pos \in allocated \cup {Node_head_ch}
    BY DEF PointersSound, NoUseAfterFree, ListInv
  <2>1. PICK L \in SUBSET allocated : ListIs(L)
    BY DEF ListInv
  <2>2. OldTail = prev[Node_head_ch]
    BY NobodyDying DEF OldTail
  <2>3. prev[Node_head_ch] \in allocated \cup {Node_head_ch}
    BY <2>1, <2>2 DEF ListIs, TailInv
  <2>4. Listed \subseteq allocated
    BY <2>1, WalkIsChain DEF ListInv, ListIs
  <2>5. FirstNode \in allocated \cup {Node_head_ch}
    BY <2>1 DEF ListIs, Chain
  <2>6. proc.pc \in {"print", "take", "unlink_prev", "unlink_next", "free"} =>
          proc.pos \in allocated \cup {Node_head_ch}
    BY <2>1, <2>5 DEF ListIs, LoopInv, PrintInv, TakeInv, UnlinkInv, FreeInv
  <2> QED  BY <2>3, <2>4, <2>6
<1> QED  BY <1>1, ListHolds, PTL

\* On one processor the readers of /proc/hw1 are given the dead in the order they died,
\* and nobody twice, although the buffer may overflow and the show function run again.
THEOREM InOrder ==
  ASSUME CPUs = {Home}
  PROVE  Spec => []ReportedOnceInOrder
<1>1. ListInv => ReportedOnceInOrder
  BY DEF ListInv, ListIs, Ascending, ReportedOnceInOrder
<1> QED  BY <1>1, ListHolds, PTL

\* On one processor every recorded death was reported, is about to be, was cleared by a
\* write of E or was in a buffer that overflowed, unless somebody died while a delete
\* loop ran or was about to.
THEOREM NoOtherLoss ==
  ASSUME CPUs = {Home}
  PROVE  Spec => []NoLossUnlessRaced
<1>1. ListInv => NoLossUnlessRaced
  <2> SUFFICES ASSUME ListInv, InFlight = {}, ~raced
               PROVE  Recorded \subseteq Delivered \cup Pending \cup cleared \cup dropped
    BY DEF NoLossUnlessRaced
  <2>1. PICK L \in SUBSET allocated : ListIs(L)
    BY DEF ListInv
  <2>2. 1 .. died \subseteq Kept(L)
    BY <2>1, NobodyDying DEF ListIs, LossInv
  <2>3. Listed = L
    BY <2>1, WalkIsChain DEF ListInv, ListIs
  <2>4. Recorded \subseteq 1 .. died
    BY DEF Recorded
  <2> QED  BY <2>2, <2>3, <2>4 DEF Kept, Pending, ElementsOf
<1> QED  BY <1>1, ListHolds, PTL

-----------------------------------------------------------------------------
(***************************************************************************)
(* The process report.                                                     *)
(***************************************************************************)

(* The walk: for_each_process comes to the first task ahead.               *)

LEMMA FirstIsLeast ==
  ASSUME NEW S \in SUBSET Nat, S # {}
  PROVE  First(S) \in S /\ \A u \in S : First(S) <= u
BY Least DEF First

Known == DOMAIN tasks

\* The loop moves up the list, past no task that is on it.
LEMMA ComeDoes ==
  ASSUME ReportTypeOK, Come
  PROVE  /\ at' \in Known /\ at' > at /\ at' \in 1 .. forked /\ at' \in Tasks
         /\ \A t \in Known : t <= at' <=> t <= at \/ t = at'
<1>1. Ahead \in SUBSET Nat /\ Ahead # {} /\ at' = First(Ahead)
  BY DEF ReportTypeOK, Ahead, Come
<1>2. at' \in Ahead /\ \A u \in Ahead : at' <= u
  BY <1>1, FirstIsLeast
<1>3. /\ at \in Nat /\ forked \in 0 .. MaxTasks /\ Known \subseteq 1 .. forked
      /\ MaxTasks \in Nat
  BY ReportBoundsAssumption DEF ReportTypeOK, Known
<1> QED  BY <1>2, <1>3 DEF Ahead, Known, Tasks

-----------------------------------------------------------------------------
(* Type correctness.  The counts are in their types because the loop does  *)
(* not count more tasks than it has come to.                               *)

Bounded == pass = "count" => total <= at /\ \A l \in Letters : number[l] <= at

\* What the kernel does to one task: the others stay, and the report is not touched.
Changed(t, new) ==
  /\ tasks' = [u \in Known \cup {t} |-> IF u = t THEN new ELSE tasks[u]]
  /\ remapped' = IF t \in Known /\ tasks[t].mm # new.mm THEN remapped \cup {t} ELSE remapped
  /\ \/ forked' = forked + 1 /\ t = forked' /\ t \notin Known
     \/ forked' = forked /\ t \in Known
  /\ forked' <= MaxTasks
  /\ t \in Known /\ tasks[t].state = TASK_DEAD /\ tasks[t].exit_state # 0 =>
       new.state = TASK_DEAD /\ new.exit_state # 0
  /\ new.state = TASK_DEAD => new.exit_state # 0
  /\ new \in TaskType /\ UNCHANGED report
  /\ changes' \in 1 .. MaxChanges + 1
Reaped(t) ==
  /\ tasks' = [u \in Known \ {t} |-> tasks[u]] /\ UNCHANGED <<forked, report, remapped>>
  /\ changes' \in 1 .. MaxChanges + 1

LEMMA KernelDoes ==
  ASSUME ReportTypeOK, \A t \in Known : tasks[t].state = TASK_DEAD => tasks[t].exit_state # 0, Kernel
  PROVE  \/ \E t \in Tasks, new \in TaskType : Changed(t, new)
         \/ \E t \in Known : Reaped(t)
<1> USE ReportBoundsAssumption
<1>0. /\ Known \subseteq 1 .. forked /\ forked \in 0 .. MaxTasks /\ Known \subseteq Tasks
      /\ \A t \in Known : tasks[t] \in TaskType
      /\ changes \in 0 .. MaxChanges + 1
  BY DEF ReportTypeOK, Known, Tasks
<1>1. ASSUME NEW t, NEW new, Change(t, new)
      PROVE  /\ tasks' = [u \in Known \cup {t} |-> IF u = t THEN new ELSE tasks[u]]
             /\ remapped' = IF t \in Known /\ tasks[t].mm # new.mm THEN remapped \cup {t} ELSE remapped
             /\ UNCHANGED report /\ changes' \in 1 .. MaxChanges + 1
  BY <1>0, <1>1 DEF Change, Known
<1>2. CASE Fork
  <2>1. PICK mm \in BOOLEAN : Change(forked', [state |-> TASK_RUNNING, exit_state |-> 0, mm |-> mm])
    BY <1>2 DEF Fork
  <2> DEFINE new == [state |-> TASK_RUNNING, exit_state |-> 0, mm |-> mm]
  <2>2. forked' = forked + 1 /\ forked' <= MaxTasks /\ forked' \notin Known /\ forked' \in Tasks
    BY <1>0, <1>2 DEF Fork, Tasks
  <2>3. new \in TaskType /\ new.state # TASK_DEAD
    BY DEF TaskType, States, TASK_RUNNING, TASK_DEAD
  <2> HIDE DEF new
  <2> QED  BY <1>1, <2>1, <2>2, <2>3 DEF Changed, new
<1>3. ASSUME NEW t \in Known, NEW new \in TaskType, Change(t, new), UNCHANGED forked,
             tasks[t].state # TASK_DEAD, new.state = TASK_DEAD => new.exit_state # 0
      PROVE  \E u \in Tasks, n \in TaskType : Changed(u, n)
  <2>1. /\ tasks' = [u \in Known \cup {t} |-> IF u = t THEN new ELSE tasks[u]]
        /\ remapped' = IF t \in Known /\ tasks[t].mm # new.mm THEN remapped \cup {t} ELSE remapped
        /\ UNCHANGED report /\ changes' \in 1 .. MaxChanges + 1
    BY <1>1, <1>3
  <2>2. forked' = forked /\ forked' <= MaxTasks
    BY <1>0, <1>3
  <2>3. Changed(t, new)
    BY <1>3, <2>1, <2>2 DEF Changed
  <2> QED  BY <1>0, <2>3
<1>4. ASSUME NEW t \in Known, Schedule(t) PROVE \E u \in Tasks, n \in TaskType : Changed(u, n)
  <2>1. PICK s \in States \ {TASK_DEAD} : Change(t, [tasks[t] EXCEPT !.state = s])
    BY <1>4 DEF Schedule
  <2> DEFINE new == [tasks[t] EXCEPT !.state = s]
  <2>2. new \in TaskType /\ new.state = s
    BY <1>0 DEF TaskType
  <2>3. tasks[t].state # TASK_DEAD
    BY <1>4 DEF Schedule
  <2>4. UNCHANGED forked
    BY <1>4 DEF Schedule
  <2> HIDE DEF new
  <2> QED  BY <1>3, <2>1, <2>2, <2>3, <2>4 DEF new
<1>5. ASSUME NEW t \in Known, Remap(t) PROVE \E u \in Tasks, n \in TaskType : Changed(u, n)
  <2> DEFINE new == [tasks[t] EXCEPT !.mm = ~@]
  <2>1. new \in TaskType /\ new.state = tasks[t].state
    BY <1>0 DEF TaskType
  <2>2. Change(t, new) /\ UNCHANGED forked /\ tasks[t].state # TASK_DEAD
    BY <1>5 DEF Remap, TASK_RUNNING, TASK_DEAD
  <2> HIDE DEF new
  <2> QED  BY <1>3, <2>1, <2>2
<1>6. ASSUME NEW t \in Known, Exit(t) \/ Die(t) PROVE \E u \in Tasks, n \in TaskType : Changed(u, n)
  <2>1. tasks[t].state # TASK_DEAD /\ UNCHANGED forked
    BY <1>6 DEF Exit, Die, TASK_RUNNING, TASK_DEAD
  <2>2. CASE Exit(t)
    <3> DEFINE new == [tasks[t] EXCEPT !.exit_state = EXIT_ZOMBIE]
    <3>1. new \in TaskType /\ new.exit_state # 0
      BY <1>0 DEF TaskType, EXIT_ZOMBIE
    <3>2. Change(t, new)
      BY <2>2 DEF Exit
    <3> HIDE DEF new
    <3> QED  BY <1>3, <2>1, <3>1, <3>2
  <2>3. CASE Die(t)
    <3> DEFINE new == [tasks[t] EXCEPT !.state = TASK_DEAD]
    <3>1. new \in TaskType /\ new.exit_state # 0
      BY <1>0, <2>3 DEF TaskType, Die, EXIT_ZOMBIE, States
    <3>2. Change(t, new)
      BY <2>3 DEF Die
    <3> HIDE DEF new
    <3> QED  BY <1>3, <2>1, <3>1, <3>2
  <2> QED  BY <1>6, <2>2, <2>3
<1>7. ASSUME NEW t \in Known, Reap(t) PROVE Reaped(t)
  BY <1>0, <1>7 DEF Reap, Reaped, Known
<1> QED  BY <1>2, <1>4, <1>5, <1>6, <1>7 DEF Kernel, Known

\* do_task_dead comes after exit_notify: a dead task has an exit_state.
DeadExits == \A t \in Known : tasks[t].state = TASK_DEAD => tasks[t].exit_state # 0

TypeInv == ReportTypeOK /\ Bounded /\ DeadExits

LEMMA InitType == ReportInit => TypeInv
<1> SUFFICES ASSUME ReportInit PROVE TypeInv
  OBVIOUS
<1>1. Known = {} /\ DOMAIN tasks = {}
  BY DEF ReportInit, Known
<1> QED
  BY <1>1, ReportBoundsAssumption DEF ReportInit, TypeInv, ReportTypeOK, Bounded, DeadExits, Tasks, Letters, Passes

\* The steps of the report are one case each.
LEMMA ReportCases ==
  ASSUME [ReportNext]_reportVars
  PROVE  \/ Kernel \/ Show \/ (Come /\ Count) \/ (Come /\ Row) \/ Header \/ EndPass
         \/ UNCHANGED reportVars
BY DEF ReportNext, Count, Row

LEMMA NextType == TypeInv /\ [ReportNext]_reportVars => TypeInv'
<1> SUFFICES ASSUME TypeInv, [ReportNext]_reportVars PROVE TypeInv'
  OBVIOUS
<1> USE ReportBoundsAssumption
<1>1. /\ Known \subseteq 1 .. forked /\ forked \in 0 .. MaxTasks /\ Known \subseteq Tasks
      /\ \A t \in Known : tasks[t] \in TaskType
      /\ ReportTypeOK /\ Bounded /\ DeadExits
      /\ changes \in 0 .. MaxChanges + 1 /\ remapped \subseteq Tasks /\ born \subseteq Tasks
      /\ at \in 0 .. MaxTasks
  BY DEF ReportTypeOK, Known, Tasks, TypeInv
<1>2. CASE Kernel
  <2>1. ASSUME NEW t \in Tasks, NEW new \in TaskType, Changed(t, new) PROVE TypeInv'
    <3>1. /\ tasks' = [u \in Known \cup {t} |-> IF u = t THEN new ELSE tasks[u]]
          /\ Known' = Known \cup {t}
      BY <2>1 DEF Changed, Known
    <3>2. /\ Known' \subseteq 1 .. forked' /\ forked' \in 0 .. MaxTasks
          /\ \A u \in Known' : tasks'[u] \in TaskType
      <4>1. CASE forked' = forked + 1 /\ t = forked'
        BY <1>1, <2>1, <3>1, <4>1 DEF Changed
      <4>2. CASE forked' = forked /\ t \in Known
        BY <1>1, <2>1, <3>1, <4>2 DEF Changed
      <4> QED  BY <2>1, <4>1, <4>2 DEF Changed
    <3>3. remapped' \subseteq Tasks
      BY <1>1, <2>1 DEF Changed
    <3>4. ReportTypeOK'
      BY <1>1, <2>1, <3>2, <3>3 DEF Changed, ReportTypeOK, report, Known
    <3>5. DeadExits'
      BY <1>1, <2>1, <3>1 DEF Changed, DeadExits
    <3>6. Bounded'
      BY <1>1, <2>1 DEF Changed, Bounded, report
    <3> QED  BY <3>4, <3>5, <3>6 DEF TypeInv
  <2>2. ASSUME NEW t \in Known, Reaped(t) PROVE TypeInv'
    <3>1. tasks' = [u \in Known \ {t} |-> tasks[u]] /\ Known' = Known \ {t}
      BY <2>2 DEF Reaped, Known
    <3>2. ReportTypeOK'
      BY <1>1, <2>2, <3>1 DEF Reaped, ReportTypeOK, report, Known
    <3> QED  BY <1>1, <2>2, <3>1, <3>2 DEF Reaped, DeadExits, Bounded, report, TypeInv
  <2> QED  BY <1>1, <1>2, <2>1, <2>2, KernelDoes DEF DeadExits
<1>3. CASE Show
  <2>1. ReportTypeOK'
    BY <1>1, <1>3 DEF Show, ReportTypeOK, NoTotal, Passes, Known
  <2> QED  BY <1>1, <1>3, <2>1 DEF Show, DeadExits, Bounded, NoTotal, Known, TypeInv
<1>4. CASE Come /\ Count
  <2>1. at' \in Known /\ at' > at /\ at' \in 1 .. forked /\ at' \in Tasks
    BY <1>1, <1>4, ComeDoes
  <2>2. /\ total \in Nat /\ total + 1 <= at' /\ at' <= MaxTasks
        /\ \A l \in Letters : number[l] \in Nat /\ number[l] <= at
    BY <1>1, <1>4, <2>1 DEF Count, Bounded, ReportTypeOK
  <2>3. \A l \in Letters : number'[l] \in Nat /\ number'[l] <= at'
    <3>1. \A l \in Letters : number'[l] = number[l] \/ number'[l] = number[l] + 1
      BY <1>4, <2>2 DEF Count
    <3> QED  BY <1>1, <2>1, <2>2, <3>1
  <2>4. total' \in 0 .. MaxTasks /\ number' \in [Letters -> 0 .. MaxTasks] /\ total' <= at'
    <3>1. number' = [l \in Letters |-> number'[l]]
      BY <1>4 DEF Count
    <3> QED  BY <1>1, <1>4, <2>1, <2>2, <2>3, <3>1 DEF Count
  <2>5. ReportTypeOK'
    BY <1>1, <1>4, <2>1, <2>4 DEF Count, ReportTypeOK, Tasks
  <2> QED  BY <1>1, <1>4, <2>3, <2>4, <2>5 DEF Count, DeadExits, Bounded, Known, TypeInv
<1>5. CASE Come /\ Row
  <2>1. at' \in Known /\ at' > at /\ at' \in 1 .. forked /\ at' \in Tasks
    BY <1>1, <1>5, ComeDoes
  <2>2. rows' \subseteq [task : Tasks, pass : {"user", "kernel"}, letter : SUBSET Letters]
    <3>1. \A s : Letter(s) \in SUBSET Letters
      BY DEF Letter, Letters
    <3>2. pass \in {"user", "kernel"}
      BY <1>5 DEF Row
    <3>3. [task |-> at', pass |-> pass, letter |-> Letter(tasks[at'].state)]
            \in [task : Tasks, pass : {"user", "kernel"}, letter : SUBSET Letters]
      BY <2>1, <3>1, <3>2
    <3>4. rows \subseteq [task : Tasks, pass : {"user", "kernel"}, letter : SUBSET Letters]
      BY <1>1 DEF ReportTypeOK
    <3> QED  BY <1>5, <3>3, <3>4 DEF Row
  <2>3. ReportTypeOK'
    BY <1>1, <1>5, <2>1, <2>2 DEF Row, ReportTypeOK, Tasks
  <2> QED  BY <1>1, <1>5, <2>3 DEF Row, DeadExits, Bounded, Known, TypeInv
<1>6. CASE Header \/ EndPass
  <2>1. ReportTypeOK'
    <3>1. UNCHANGED <<tasks, forked, total, number, rows, changes, shows, born, remapped>>
          /\ at' = 0 /\ pass' \in {"user", "kernel", "done"}
      BY <1>6 DEF Header, EndPass
    <3> QED  BY <1>1, <3>1 DEF ReportTypeOK, Passes
  <2> QED  BY <1>1, <1>6, <2>1 DEF Header, EndPass, DeadExits, Bounded, Known, TypeInv
<1>7. CASE UNCHANGED reportVars
  BY <1>1, <1>7 DEF reportVars, report, ReportTypeOK, Bounded, DeadExits, Known, TypeInv
<1> QED  BY <1>2, <1>3, <1>4, <1>5, <1>6, <1>7, ReportCases

-----------------------------------------------------------------------------
(* Once each.                                                              *)

\* A pass prints a task at most once, where the loop has been.
OnePerPass ==
  /\ \A r \in rows : r.task <= forked
  /\ pass = "count" => rows = {}
  /\ \A r \in rows : pass = "user" => r.pass = "user"
  /\ \A r \in rows : pass = r.pass => r.task <= at
  /\ \A r, s \in rows : r.task = s.task /\ r.pass = s.pass => r = s

\* A task printed as a user process keeps its mm or is remapped: it is not
\* printed as a kernel thread too.
MmKept ==
  /\ \A r \in rows : r.pass = "user" /\ r.task \in Known => tasks[r.task].mm \/ r.task \in remapped
  /\ \A r, s \in rows : r.task = s.task /\ r.pass # s.pass => r.task \in remapped

\* A task that was there from the beginning has its row once its pass has come by.
Excused(t) == HasRow(t) \/ t \in remapped \/ tasks[t].state = TASK_DEAD
Found ==
  /\ born \subseteq 1 .. forked
  /\ \A t \in born \cap Known :
       /\ (pass = "user" /\ t <= at) \/ pass = "kernel"  => Excused(t) \/ ~tasks[t].mm
       /\ (pass = "kernel" /\ t <= at) \/ pass = "done" => Excused(t)

RowsInv == OnePerPass /\ MmKept /\ Found

LEMMA InitRows == ReportInit => RowsInv
<1> SUFFICES ASSUME ReportInit PROVE RowsInv
  OBVIOUS
<1> QED  BY DEF ReportInit, RowsInv, OnePerPass, MmKept, Found, Known

\* What tasks do meanwhile.
LEMMA RowsChanged ==
  ASSUME TypeInv, RowsInv, NEW t \in Tasks, NEW new \in TaskType, Changed(t, new)
  PROVE  RowsInv'
<1>1. /\ tasks' = [u \in Known \cup {t} |-> IF u = t THEN new ELSE tasks[u]]
      /\ Known' = Known \cup {t}
      /\ UNCHANGED <<pass, at, rows, born>>
  BY DEF Changed, Known, report
<1>2. /\ Known \subseteq 1 .. forked /\ forked \in Nat /\ forked' \in Nat
      /\ forked' >= forked /\ \A u \in Known : tasks[u] \in TaskType
      /\ \A r \in rows : r.task \in Nat
      /\ t \in Known \/ t > forked
  BY ReportBoundsAssumption DEF TypeInv, ReportTypeOK, Known, Changed, Tasks
<1>3. OnePerPass'
  BY <1>1, <1>2 DEF RowsInv, OnePerPass
<1>4. /\ remapped \subseteq remapped'
      /\ \A u \in Known : tasks'[u].mm = tasks[u].mm \/ u \in remapped'
  BY <1>1, <1>2 DEF Changed, TaskType
<1>5. \A u \in Known : tasks[u].state = TASK_DEAD => tasks'[u].state = TASK_DEAD
  BY <1>1 DEF Changed, TypeInv, DeadExits
<1>6. \A r \in rows : r.task \in Known' => r.task \in Known
  BY <1>1, <1>2 DEF RowsInv, OnePerPass
<1>7. MmKept'
  BY <1>1, <1>4, <1>6 DEF RowsInv, MmKept
<1>8. \A u \in born : u \in Known' => u \in Known
  BY <1>1, <1>2 DEF RowsInv, Found
<1>9. \A u \in Known : Excused(u) => Excused(u)'
  BY <1>1, <1>4, <1>5 DEF Excused, HasRow
<1>10. \A u \in Known : Excused(u) \/ ~tasks[u].mm => Excused(u)' \/ ~tasks'[u].mm
  BY <1>4, <1>9 DEF Excused
<1>11. Found'
  BY <1>1, <1>2, <1>8, <1>9, <1>10 DEF RowsInv, Found
<1> QED  BY <1>3, <1>7, <1>11 DEF RowsInv

LEMMA NextRows == TypeInv /\ RowsInv /\ [ReportNext]_reportVars => RowsInv'
<1> SUFFICES ASSUME TypeInv, RowsInv, [ReportNext]_reportVars PROVE RowsInv'
  OBVIOUS
<1>1. /\ Known \subseteq 1 .. forked /\ forked \in Nat /\ at \in Nat
      /\ ReportTypeOK /\ DeadExits /\ born \subseteq Nat
      /\ \A t \in Known : tasks[t] \in TaskType
      /\ \A r \in rows : r.task \in Nat /\ r.pass \in {"user", "kernel"}
      /\ OnePerPass /\ MmKept /\ Found
  BY ReportBoundsAssumption DEF TypeInv, ReportTypeOK, Known, RowsInv, Tasks
<1>2. CASE Kernel
  <2>1. ASSUME NEW t \in Known, Reaped(t) PROVE RowsInv'
    <3>1. /\ Known' = Known \ {t} /\ \A u \in Known' : tasks'[u] = tasks[u]
          /\ UNCHANGED <<forked, pass, at, rows, born, remapped>>
      BY <2>1 DEF Reaped, Known, report
    <3>2. OnePerPass'
      BY <1>1, <3>1 DEF OnePerPass
    <3>3. MmKept'
      BY <1>1, <3>1 DEF MmKept
    <3>4. \A u \in Known' : Excused(u)' = Excused(u)
      BY <3>1 DEF Excused, HasRow
    <3>5. Found'
      BY <1>1, <3>1, <3>4 DEF Found
    <3> QED  BY <3>2, <3>3, <3>5 DEF RowsInv
  <2> QED  BY <1>1, <1>2, <2>1, RowsChanged, KernelDoes DEF DeadExits
<1>3. CASE Show
  BY <1>1, <1>3 DEF Show, RowsInv, OnePerPass, MmKept, Found, Known
<1>4. CASE Come /\ Count
  <2>1. UNCHANGED <<tasks, forked, pass, rows, born, remapped>> /\ pass = "count" /\ rows = {}
    BY <1>1, <1>4 DEF Count, OnePerPass
  <2> QED  BY <1>1, <2>1 DEF RowsInv, OnePerPass, MmKept, Found, Known
<1>5. CASE Come /\ Row
  <2> DEFINE new == [task |-> at', pass |-> pass, letter |-> Letter(tasks[at'].state)]
  <2>1. /\ at' \in Known /\ at' > at /\ at' \in 1 .. forked
        /\ \A u \in Known : u <= at' <=> u <= at \/ u = at'
    BY <1>1, <1>5, ComeDoes
  <2>0. PICK t \in Known : t = at'
    BY <2>1
  <2>2. /\ UNCHANGED <<tasks, forked, pass, born, remapped>> /\ pass \in {"user", "kernel"}
        /\ rows' = IF Prints(pass, tasks[at']) THEN rows \cup {new} ELSE rows
    BY <1>5 DEF Row
  <2>3. /\ rows \subseteq rows' /\ \A r \in rows' : r \in rows \/ r = new
        /\ new.task = at' /\ new.pass = pass
        /\ \A r \in rows : r.pass = pass => r.task < at'
    BY <1>1, <2>1, <2>2 DEF OnePerPass
  <2>4. new \in rows' => tasks[at'].mm = (pass = "user")
    <3>1. new \in rows' => Prints(pass, tasks[at'])
      BY <2>1, <2>2, <2>3
    <3> QED  BY <3>1 DEF Prints
  <2>5. OnePerPass'
    <3>1. \A r \in rows' : r.task <= forked'
      BY <1>1, <2>1, <2>2, <2>3 DEF OnePerPass
    <3>2. \A r \in rows' : /\ pass' = "user" => r.pass = "user"
                           /\ pass' = r.pass => r.task <= at'
      BY <1>1, <2>1, <2>2, <2>3 DEF OnePerPass
    <3>3. \A r, s \in rows' : r.task = s.task /\ r.pass = s.pass => r = s
      BY <1>1, <2>1, <2>3 DEF OnePerPass
    <3> QED  BY <2>2, <3>1, <3>2, <3>3 DEF OnePerPass
  <2>6. MmKept'
    <3>1. \A r \in rows' : r.pass = "user" /\ r.task \in Known =>
            tasks[r.task].mm \/ r.task \in remapped
      BY <1>1, <2>2, <2>3, <2>4 DEF MmKept
    <3>2. ASSUME NEW r \in rows', NEW s \in rows', r.task = s.task, r.pass # s.pass
          PROVE  r.task \in remapped
      <4>1. CASE r \in rows /\ s \in rows
        BY <1>1, <3>2, <4>1 DEF MmKept
      <4>2. ASSUME NEW u \in rows, new \in rows', u.task = at', u.pass # pass
            PROVE  at' \in remapped
        <5>1. u.pass = "user" /\ pass = "kernel"
          BY <1>1, <2>2, <4>2 DEF OnePerPass
        <5> QED  BY <1>1, <2>1, <2>4, <4>2, <5>1 DEF MmKept
      <4> QED  BY <2>3, <3>2, <4>1, <4>2
    <3> QED  BY <2>2, <3>1, <3>2 DEF MmKept, Known
  <2>7. \A u \in Known : Excused(u) => Excused(u)'
    BY <2>2, <2>3 DEF Excused, HasRow
  <2>8. Excused(t)' \/ tasks[t].mm # (pass = "user")
    <3>1. CASE Prints(pass, tasks[t])
      BY <2>0, <2>2, <2>3, <3>1 DEF Excused, HasRow
    <3>2. CASE ~Prints(pass, tasks[t])
      BY <2>2, <3>2 DEF Prints, Excused, TASK_DEAD
    <3> QED  BY <3>1, <3>2
  <2>9. Found'
    <3>1. ASSUME NEW u \in born \cap Known
          PROVE  /\ (pass = "user" /\ u <= at') \/ pass = "kernel" => Excused(u)' \/ ~tasks[u].mm
                 /\ (pass = "kernel" /\ u <= at') \/ pass = "done" => Excused(u)'
      <4>1. CASE u = t
        <5>1. CASE pass = "user"
          BY <2>8, <4>1, <5>1
        <5>2. CASE pass = "kernel"
          <6>1. Excused(t) \/ ~tasks[t].mm
            BY <1>1, <4>1, <5>2 DEF Found
          <6>2. tasks[t].mm \in BOOLEAN
            BY <1>1 DEF TaskType
          <6> QED  BY <2>7, <2>8, <4>1, <5>2, <6>1, <6>2
        <5> QED  BY <2>2, <5>1, <5>2
      <4>2. CASE u # t
        BY <1>1, <2>0, <2>1, <2>7, <4>2 DEF Found
      <4> QED  BY <4>1, <4>2
    <3> QED  BY <1>1, <2>2, <3>1 DEF Found, Known
  <2> QED  BY <2>5, <2>6, <2>9 DEF RowsInv
<1>6. CASE Header \/ EndPass
  <2>1. UNCHANGED <<tasks, forked, rows, born, remapped>> /\ at' = 0 /\ \A u \in Known : u <= at
    BY <1>1, <1>6 DEF Header, EndPass, Ahead, Known
  <2>2. /\ Known' = Known /\ \A u \in Known : Excused(u)' = Excused(u)
        /\ \A u \in Known : ~(u <= 0)
    BY <1>1, <2>1 DEF Known, Excused, HasRow
  <2>3. OnePerPass'
    BY <1>1, <1>6, <2>1 DEF Header, EndPass, OnePerPass
  <2>4. MmKept'
    BY <1>1, <2>1, <2>2 DEF MmKept
  <2>5. Found'
    BY <1>1, <1>6, <2>1, <2>2 DEF Header, EndPass, Found
  <2> QED  BY <2>3, <2>4, <2>5 DEF RowsInv
<1>7. CASE UNCHANGED reportVars
  BY <1>1, <1>7 DEF reportVars, report, RowsInv, OnePerPass, MmKept, Found, Known, Excused, HasRow
<1> QED  BY <1>2, <1>3, <1>4, <1>5, <1>6, <1>7, ReportCases

\* Whatever tasks fork, change state, exit and are reaped while print_mode_A walks the
\* list without a lock, every variable stays in its type, a task has at most one row and,
\* if it was there throughout and is not dead, at least one, unless its mm changed.
THEOREM ListedOnce == ReportSpec => []ListedOnceUnlessRemapped
<1>1. TypeInv /\ RowsInv => ListedOnceUnlessRemapped
  <2> SUFFICES ASSUME TypeInv, RowsInv PROVE ListedOnceUnlessRemapped
    OBVIOUS
  <2>1. ListedTwiceOnlyIfRemapped
    BY DEF RowsInv, OnePerPass, MmKept, ListedTwiceOnlyIfRemapped
  <2>2. MissedOnlyIfRemapped
    BY DEF RowsInv, Found, Excused, MissedOnlyIfRemapped, Known
  <2> QED  BY <2>1, <2>2 DEF TypeInv, ListedOnceUnlessRemapped
<1>2. ReportSpec => [](TypeInv /\ RowsInv)
  BY InitType, NextType, InitRows, NextRows, PTL DEF ReportSpec
<1> QED  BY <1>1, <1>2, PTL

-----------------------------------------------------------------------------
(* The header.  As long as no task changes, the first loop has counted the *)
(* tasks it has come to, and the rows are of the tasks printed so far.     *)

With(s, l) == {t \in s : l \in Letter(tasks[t].state)}
Seen    == IF pass = "count" THEN {t \in Known : t <= at} ELSE Known
RowsDue == {t \in Known :
             \/ tasks[t].mm  /\ ((pass = "user" /\ t <= at) \/ pass \in {"kernel", "done"})
             \/ ~tasks[t].mm /\ ((pass = "kernel" /\ t <= at) \/ pass = "done")}

Exact ==
  /\ born = Known
  /\ total = Cardinality(Seen)
  /\ \A l \in Letters : number[l] = Cardinality(With(Seen, l))
  /\ \A l \in Letters : RowsOf(l) = Cardinality(With(RowsDue, l))

HeaderInv == IsFiniteSet(rows) /\ (changes = 0 /\ pass # "idle" => Exact)

LEMMA KnownFinite == TypeInv => IsFiniteSet(Known) /\ \A s \in SUBSET Known : IsFiniteSet(s)
<1> SUFFICES ASSUME TypeInv PROVE IsFiniteSet(Known) /\ \A s \in SUBSET Known : IsFiniteSet(s)
  OBVIOUS
<1>1. forked \in Int /\ Known \in SUBSET (1 .. forked)
  BY ReportBoundsAssumption DEF TypeInv, ReportTypeOK, Known
<1>2. IsFiniteSet(1 .. forked)
  BY <1>1, FS_Interval
<1>3. \A s \in SUBSET Known : IsFiniteSet(s)
  BY <1>1, <1>2, FS_Subset
<1> QED  BY <1>3

\* A count goes up by one with an element that is new to the set.
LEMMA CountOne ==
  ASSUME NEW S, NEW x, IsFiniteSet(S), x \notin S
  PROVE  Cardinality(S \cup {x}) = Cardinality(S) + 1
BY FS_AddElement

LEMMA InitHeader == ReportInit => HeaderInv
BY FS_EmptySet DEF ReportInit, HeaderInv

LEMMA HeaderCount ==
  ASSUME TypeInv, HeaderInv, Come, Count, changes = 0
  PROVE  Exact'
<1>1. /\ at' \in Known /\ at' > at /\ \A u \in Known : u <= at' <=> u <= at \/ u = at'
      /\ at \in Nat /\ at' \in Nat
  BY ComeDoes, ReportBoundsAssumption DEF TypeInv, ReportTypeOK, Known, Tasks
<1>2. /\ pass = "count" /\ pass' = pass
      /\ UNCHANGED <<tasks, rows, born>> /\ Known' = Known
      /\ total' = total + 1
      /\ \A l \in Letters :
           number'[l] = number[l] + (IF l \in Letter(tasks[at'].state) THEN 1 ELSE 0)
  BY DEF Count, Known
<1>3. Exact
  BY <1>2 DEF HeaderInv
<1>4. /\ Seen' = Seen \cup {at'} /\ at' \notin Seen /\ Seen \subseteq Known
      /\ RowsDue' = RowsDue
  <2>1. Seen = {t \in Known : t <= at} /\ Seen' = {t \in Known : t <= at'}
    BY <1>2 DEF Seen
  <2>2. Seen' = Seen \cup {at'}
    BY <1>1, <2>1
  <2>3. at' \notin Seen /\ Seen \subseteq Known
    BY <1>1, <2>1
  <2>4. RowsDue = {} /\ RowsDue' = {}
    BY <1>2 DEF RowsDue
  <2> QED  BY <2>2, <2>3, <2>4
<1>5. IsFiniteSet(Seen) /\ \A l \in Letters : IsFiniteSet(With(Seen, l))
  BY <1>4, KnownFinite DEF With
<1>6. total' = Cardinality(Seen')
  BY <1>2, <1>3, <1>4, <1>5, CountOne DEF Exact
<1>7. ASSUME NEW l \in Letters PROVE number'[l] = Cardinality(With(Seen, l)')
  <2>0. number[l] = Cardinality(With(Seen, l)) /\ number[l] \in Nat
    BY <1>3, ReportBoundsAssumption DEF Exact, TypeInv, ReportTypeOK
  <2>1. CASE l \in Letter(tasks[at'].state)
    <3>1. With(Seen, l)' = With(Seen, l) \cup {at'} /\ at' \notin With(Seen, l)
      BY <1>2, <1>4, <2>1 DEF With
    <3>2. Cardinality(With(Seen, l) \cup {at'}) = Cardinality(With(Seen, l)) + 1
      BY <1>5, <3>1, CountOne
    <3> QED  BY <1>2, <2>0, <2>1, <3>1, <3>2
  <2>2. CASE l \notin Letter(tasks[at'].state)
    <3>1. With(Seen, l)' = With(Seen, l)
      BY <1>2, <1>4, <2>2 DEF With
    <3> QED  BY <1>2, <2>0, <2>2, <3>1
  <2> QED  BY <2>1, <2>2
<1>8. \A l \in Letters : With(RowsDue, l)' = With(RowsDue, l) /\ RowsOf(l)' = RowsOf(l)
  BY <1>2, <1>4 DEF With, RowsOf
<1> QED  BY <1>2, <1>3, <1>6, <1>7, <1>8 DEF Exact

LEMMA HeaderRow ==
  ASSUME TypeInv, RowsInv, HeaderInv, Come, Row
  PROVE  HeaderInv'
<1> DEFINE new == [task |-> at', pass |-> pass, letter |-> Letter(tasks[at'].state)]
<1>1. /\ at' \in Known /\ at' > at /\ \A u \in Known : u <= at' <=> u <= at \/ u = at'
      /\ at \in Nat /\ at' \in Nat
  BY ComeDoes, ReportBoundsAssumption DEF TypeInv, ReportTypeOK, Known, Tasks
<1>2. /\ pass \in {"user", "kernel"}
      /\ UNCHANGED <<tasks, pass, total, number, changes, born>> /\ Known' = Known
      /\ rows' = IF Prints(pass, tasks[at']) THEN rows \cup {new} ELSE rows
  BY DEF Row, Known
<1>3. new.task = at' /\ new.pass = pass /\ new.letter = Letter(tasks[at'].state)
  OBVIOUS
<1>4. new \notin rows
  <2>1. \A r \in rows : r.pass = pass => r.task <= at
    BY DEF RowsInv, OnePerPass
  <2> QED  BY <1>1, <1>3, <2>1
<1> HIDE DEF new
<1>5. IsFiniteSet(rows) /\ IsFiniteSet(rows')
  BY <1>2, FS_AddElement DEF HeaderInv
<1>6. ASSUME changes = 0 PROVE Exact'
  <2>1. Exact /\ Seen' = Seen /\ \A l \in Letters : With(Seen, l)' = With(Seen, l)
    BY <1>2, <1>6 DEF HeaderInv, Seen, With
  <2>2. tasks[at'].mm \in BOOLEAN
    BY <1>1 DEF TypeInv, ReportTypeOK, TaskType, Known
  <2>3. ASSUME NEW l \in Letters PROVE RowsOf(l)' = Cardinality(With(RowsDue, l)')
    <3> DEFINE S == {r \in rows : l \in r.letter}
    <3>1. Cardinality(S) = Cardinality(With(RowsDue, l)) /\ RowsOf(l)' = Cardinality({r \in rows' : l \in r.letter})
      BY <2>1 DEF Exact, RowsOf
    <3>2. IsFiniteSet(S) /\ IsFiniteSet(With(RowsDue, l))
      BY <1>5, FS_Subset, KnownFinite DEF With, RowsDue
    <3>3. CASE Prints(pass, tasks[at']) /\ l \in Letter(tasks[at'].state)
      <4>1. {r \in rows' : l \in r.letter} = S \cup {new} /\ new \notin S
        BY <1>2, <1>3, <1>4, <3>3
      <4>2. tasks[at'].mm = (pass = "user")
        BY <3>3 DEF Prints
      <4>3. RowsDue' = RowsDue \cup {at'} /\ at' \notin RowsDue
        <5>1. at' \in RowsDue' /\ at' \notin RowsDue
          <6>0. at' \in Known' /\ tasks'[at'].mm = tasks[at'].mm /\ pass' = pass /\ ~(at' <= at)
            BY <1>1, <1>2
          <6>1. CASE pass = "user"
            <7>1. tasks[at'].mm
              BY <4>2, <6>1
            <7>2. at' \notin RowsDue
              BY <6>0, <6>1, <7>1 DEF RowsDue
            <7>3. at' \in {t \in Known' : tasks'[t].mm /\ t <= at'}
              BY <1>1, <6>0, <7>1
            <7> QED  BY <6>0, <6>1, <7>2, <7>3 DEF RowsDue
          <6>2. CASE pass = "kernel"
            <7>1. ~tasks[at'].mm
              BY <4>2, <6>2
            <7>2. at' \notin RowsDue
              BY <6>0, <6>2, <7>1 DEF RowsDue
            <7>3. at' \in {t \in Known' : ~tasks'[t].mm /\ t <= at'}
              BY <1>1, <6>0, <7>1
            <7> QED  BY <6>0, <6>2, <7>2, <7>3 DEF RowsDue
          <6> QED  BY <1>2, <6>1, <6>2
        <5>2. \A t \in Known : t # at' => (t \in RowsDue' <=> t \in RowsDue)
          BY <1>1, <1>2 DEF RowsDue
        <5>3. RowsDue' \subseteq Known /\ RowsDue \subseteq Known
          BY <1>2 DEF RowsDue
        <5> QED  BY <1>1, <5>1, <5>2, <5>3
      <4>4. With(RowsDue, l)' = With(RowsDue, l) \cup {at'} /\ at' \notin With(RowsDue, l)
        BY <1>2, <3>3, <4>3 DEF With
      <4> HIDE DEF S
      <4> QED  BY <3>1, <3>2, <4>1, <4>4, CountOne
    <3>4. CASE ~(Prints(pass, tasks[at']) /\ l \in Letter(tasks[at'].state))
      <4>1. {r \in rows' : l \in r.letter} = S
        BY <1>2, <1>3, <3>4
      <4>2. With(RowsDue, l)' = With(RowsDue, l)
        <5>1. CASE l \notin Letter(tasks[at'].state)
          <6>1. \A t \in Known : t # at' => (t \in RowsDue' <=> t \in RowsDue)
            BY <1>1, <1>2 DEF RowsDue
          <6>2. RowsDue' \subseteq Known /\ RowsDue \subseteq Known
            BY <1>2 DEF RowsDue
          <6> QED  BY <1>2, <5>1, <6>1, <6>2 DEF With
        <5>2. CASE l \in Letter(tasks[at'].state)
          <6>1. tasks[at'].state # 64
            BY <5>2 DEF Letter
          <6>2. tasks[at'].mm # (pass = "user")
            BY <3>4, <5>2, <6>1 DEF Prints
          <6>3. RowsDue' = RowsDue
            <7>1. CASE pass = "user"
              BY <1>1, <1>2, <2>2, <6>2, <7>1 DEF RowsDue
            <7>2. CASE pass = "kernel"
              BY <1>1, <1>2, <2>2, <6>2, <7>2 DEF RowsDue
            <7> QED  BY <1>2, <7>1, <7>2
          <6> QED  BY <1>2, <6>3 DEF With
        <5> QED  BY <5>1, <5>2
      <4> QED  BY <3>1, <4>1, <4>2
    <3> QED  BY <3>3, <3>4
  <2> QED  BY <1>2, <2>1, <2>3 DEF Exact
<1> QED  BY <1>2, <1>5, <1>6 DEF HeaderInv

LEMMA NextHeader == TypeInv /\ RowsInv /\ HeaderInv /\ [ReportNext]_reportVars => HeaderInv'
<1> SUFFICES ASSUME TypeInv, RowsInv, HeaderInv, [ReportNext]_reportVars PROVE HeaderInv'
  OBVIOUS
<1>1. Known \subseteq Nat /\ \A u \in Known : ~(u <= 0)
  BY DEF TypeInv, ReportTypeOK, Known
<1>2. CASE Kernel
  <2>0. ReportTypeOK /\ \A t \in Known : tasks[t].state = TASK_DEAD => tasks[t].exit_state # 0
    BY DEF TypeInv, DeadExits
  <2>1. rows' = rows /\ changes' # 0
    <3>1. ASSUME NEW t, NEW new, Changed(t, new) PROVE rows' = rows /\ changes' # 0
      BY <3>1, ReportBoundsAssumption DEF Changed, report
    <3>2. ASSUME NEW t, Reaped(t) PROVE rows' = rows /\ changes' # 0
      BY <3>2, ReportBoundsAssumption DEF Reaped, report
    <3> QED  BY <1>2, <2>0, <3>1, <3>2, KernelDoes
  <2> QED  BY <2>1 DEF HeaderInv
<1>3. CASE Show
  <2>1. /\ rows' = {} /\ pass' = "count" /\ at' = 0 /\ tasks' = tasks /\ Known' = Known
        /\ born' = Known /\ total' = 0 /\ number' = [l \in Letters |-> 0]
    BY <1>3 DEF Show, Known, NoTotal
  <2>2. Seen' = {} /\ RowsDue' = {}
    BY <1>1, <2>1 DEF Seen, RowsDue
  <2>3. \A l \in Letters : With(Seen, l)' = {} /\ With(RowsDue, l)' = {}
                           /\ {r \in rows' : l \in r.letter} = {}
    BY <2>1, <2>2 DEF With
  <2>4. \A l \in Letters : RowsOf(l)' = Cardinality({r \in rows' : l \in r.letter})
    BY DEF RowsOf
  <2> QED  BY <2>1, <2>2, <2>3, <2>4, FS_EmptySet DEF HeaderInv, Exact
<1>4. CASE Come /\ Count
  <2>1. rows' = rows /\ changes' = changes
    BY <1>4 DEF Count
  <2> QED  BY <1>4, <2>1, HeaderCount DEF HeaderInv
<1>5. CASE Come /\ Row
  BY <1>5, HeaderRow
<1>6. CASE Header \/ EndPass
  <2>1. /\ UNCHANGED <<tasks, rows, born, total, number, changes>> /\ Known' = Known /\ at' = 0
        /\ \A u \in Known : u <= at
        /\ pass # "idle"
    BY <1>1, <1>6 DEF Header, EndPass, Ahead, Known, TypeInv, ReportTypeOK
  <2>2. Seen' = Seen
    BY <1>6, <2>1 DEF Seen, Header, EndPass
  <2>3. RowsDue' = RowsDue
    <3>1. CASE Header
      BY <1>1, <2>1, <3>1 DEF RowsDue, Header
    <3>2. CASE EndPass
      BY <1>1, <2>1, <3>2 DEF RowsDue, EndPass
    <3> QED  BY <1>6, <3>1, <3>2
  <2>4. \A l \in Letters : /\ With(Seen, l)' = With(Seen, l) /\ With(RowsDue, l)' = With(RowsDue, l)
                           /\ RowsOf(l)' = RowsOf(l)
    BY <2>1, <2>2, <2>3 DEF With, RowsOf
  <2> QED  BY <2>1, <2>2, <2>4 DEF HeaderInv, Exact
<1>7. CASE UNCHANGED reportVars
  <2>1. UNCHANGED <<tasks, rows, born, total, number, changes, pass, at>>
    BY <1>7 DEF reportVars, report
  <2> QED  BY <2>1 DEF HeaderInv, Exact, Seen, RowsDue, With, RowsOf, Known
<1> QED  BY <1>2, <1>3, <1>4, <1>5, <1>6, <1>7, ReportCases

\* If no task changed while the report was made, the tasks counted in each state are those
\* that have a row with its letter, and the total is the number of tasks.
THEOREM HeaderTrue == ReportSpec => []HeaderAgreesWithRows
<1>1. TypeInv /\ HeaderInv => HeaderAgreesWithRows
  <2> SUFFICES ASSUME TypeInv, HeaderInv, pass = "done", changes = 0
               PROVE  /\ \A l \in Letters : number[l] = RowsOf(l)
                      /\ total = Cardinality(born)
    BY DEF HeaderAgreesWithRows
  <2>1. Exact /\ Seen = Known
    BY DEF HeaderInv, Seen
  <2>2. RowsDue = Known
    BY DEF RowsDue, TypeInv, ReportTypeOK, TaskType, Known
  <2> QED  BY <2>1, <2>2 DEF Exact
<1>2. ReportSpec => [](TypeInv /\ RowsInv /\ HeaderInv)
  BY InitType, NextType, InitRows, NextRows, InitHeader, NextHeader, PTL DEF ReportSpec
<1> QED  BY <1>1, <1>2, PTL

=============================================================================
