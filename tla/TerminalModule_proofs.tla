----------------------- MODULE TerminalModule_proofs -----------------------
(***************************************************************************)
(* Theorems about TerminalModule: its type invariant; that the entry       *)
(* /proc/collision_count can be found while the module lives and outlives  *)
(* it only through a hook exit_hello did not wait for; that no race makes  *)
(* the count too high; and that it is exact, and `connected` follows the   *)
(* connection, in the circumstances of pktgen.py.                          *)
(***************************************************************************)
EXTENDS TerminalModule, TLAPS

\* The statements of post_hook_func up to its proc_create.
UpToCreate == {"syn_require_on", "init_sequence_off", "fin_require_on", "payload",
               "if_connected", "if_init", "init_sequence_on", "set_last", "compare",
               "load", "store", "advance", "remove", "create"}

-----------------------------------------------------------------------------
(* The tables of statements: they assign and test flags, lead to program   *)
(* points, and only proc_create leaves UpToCreate.                         *)

Links(p, q) == q \in Points /\ q # "off" /\ (p \in UpToCreate <=> q \in UpToCreate)

LEMMA AssignsDomain ==
  DOMAIN Assigns = {"syn_require_on", "init_sequence_off", "fin_require_on", "init_sequence_on",
                    "syn_acked_off", "syn_require_off", "connected_on", "syn_acked_on",
                    "fin_require_off", "connected_off", "forget_sequence"}
BY DEF Assigns

LEMMA TestsDomain ==
  DOMAIN Tests = {"if_connected", "if_init", "if_syn_acked", "if_syn_require", "if_fin_require"}
BY DEF Tests

AssignsRow(p) == /\ Assigns[p].flag \in Flags
                 /\ Assigns[p].is \in BOOLEAN
                 /\ Links(p, Assigns[p].then)

LEMMA AssignsTable == \A p \in DOMAIN Assigns : AssignsRow(p)
<1>1. AssignsRow("syn_require_on")
  BY AssignsDomain, TestsDomain DEF AssignsRow, Links, Assigns, Flags, Points, UpToCreate
<1>2. AssignsRow("init_sequence_off")
  BY AssignsDomain, TestsDomain DEF AssignsRow, Links, Assigns, Flags, Points, UpToCreate
<1>3. AssignsRow("fin_require_on")
  BY AssignsDomain, TestsDomain DEF AssignsRow, Links, Assigns, Flags, Points, UpToCreate
<1>4. AssignsRow("init_sequence_on")
  BY AssignsDomain, TestsDomain DEF AssignsRow, Links, Assigns, Flags, Points, UpToCreate
<1>5. AssignsRow("syn_acked_off")
  BY AssignsDomain, TestsDomain DEF AssignsRow, Links, Assigns, Flags, Points, UpToCreate
<1>6. AssignsRow("syn_require_off")
  BY AssignsDomain, TestsDomain DEF AssignsRow, Links, Assigns, Flags, Points, UpToCreate
<1>7. AssignsRow("connected_on")
  BY AssignsDomain, TestsDomain DEF AssignsRow, Links, Assigns, Flags, Points, UpToCreate
<1>8. AssignsRow("syn_acked_on")
  BY AssignsDomain, TestsDomain DEF AssignsRow, Links, Assigns, Flags, Points, UpToCreate
<1>9. AssignsRow("fin_require_off")
  BY AssignsDomain, TestsDomain DEF AssignsRow, Links, Assigns, Flags, Points, UpToCreate
<1>10. AssignsRow("connected_off")
  BY AssignsDomain, TestsDomain DEF AssignsRow, Links, Assigns, Flags, Points, UpToCreate
<1>11. AssignsRow("forget_sequence")
  BY AssignsDomain, TestsDomain DEF AssignsRow, Links, Assigns, Flags, Points, UpToCreate
<1> QED
  BY <1>1, <1>2, <1>3, <1>4, <1>5, <1>6, <1>7, <1>8, <1>9, <1>10, <1>11, AssignsDomain

TestsRow(p) == /\ Tests[p].flag \in Flags
               /\ Links(p, Tests[p].yes)
               /\ Links(p, Tests[p].no)

LEMMA TestsTable == \A p \in DOMAIN Tests : TestsRow(p)
<1>1. TestsRow("if_connected")
  BY AssignsDomain, TestsDomain DEF TestsRow, Links, Tests, Flags, Points, UpToCreate
<1>2. TestsRow("if_init")
  BY AssignsDomain, TestsDomain DEF TestsRow, Links, Tests, Flags, Points, UpToCreate
<1>3. TestsRow("if_syn_acked")
  BY AssignsDomain, TestsDomain DEF TestsRow, Links, Tests, Flags, Points, UpToCreate
<1>4. TestsRow("if_syn_require")
  BY AssignsDomain, TestsDomain DEF TestsRow, Links, Tests, Flags, Points, UpToCreate
<1>5. TestsRow("if_fin_require")
  BY AssignsDomain, TestsDomain DEF TestsRow, Links, Tests, Flags, Points, UpToCreate
<1> QED
  BY <1>1, <1>2, <1>3, <1>4, <1>5, TestsDomain

\* The points that are no entry of a table.
LEMMA OtherPoints ==
  /\ {"off", "payload", "set_last", "compare", "load", "store", "advance",
      "remove", "create", "return"} \subseteq Points
  /\ {"if_connected", "if_syn_acked", "syn_require_on", "fin_require_on",
      "if_syn_require", "if_fin_require"} \subseteq Points
BY AssignsDomain, TestsDomain DEF Points

LEMMA ModRange ==
  ASSUME NEW a \in Int, NEW w \in Nat \ {0}
  PROVE  a % w \in 0 .. (w - 1)
OBVIOUS

-----------------------------------------------------------------------------
(* Type correctness.                                                       *)

HookType == [pc : Points, seg : Segments, reg : 0 .. (SEQ - 1)]

LEMMA IdleType == Idle \in HookType
<1>1. (CHOOSE x \in Conns : TRUE) \in Conns
  BY ConnsAssumption
<1>2. NoSegment(CHOOSE x \in Conns : TRUE) \in Segments
  BY <1>1, BoundsAssumption DEF NoSegment, Segments, Kinds
<1> QED  BY <1>2, OtherPoints, SeqAssumption DEF Idle, HookType

\* A hook that goes on to another statement stays a hook.
LEMMA GotoType ==
  ASSUME TypeOK, NEW c \in Contexts, NEW p \in Points, Goto(c, p)
  PROVE  hook' \in [Contexts -> HookType]
BY DEF TypeOK, Goto, HookType

LEMMA EntryType ==
  ASSUME NEW seg \in Segments
  PROVE  Entry(seg) \in Points
BY OtherPoints DEF Entry

\* A hook is entered on a segment.
LEMMA EnterType ==
  ASSUME TypeOK, NEW c \in Contexts, NEW seg \in Segments, Enter(c, seg)
  PROVE  /\ hook' \in [Contexts -> HookType]
         /\ {seen', overlap', crossed', aborted', wrapped', late'} \subseteq BOOLEAN
         /\ UNCHANGED <<flags, entry, module>>
<1>1. hook' \in [Contexts -> HookType]
  <2>1. [pc |-> Entry(seg), seg |-> seg, reg |-> 0] \in HookType
    BY EntryType, SeqAssumption DEF HookType
  <2> QED  BY <2>1 DEF TypeOK, Enter, HookType
<1>2. seg.out \in BOOLEAN /\ {seen, overlap, crossed, aborted, wrapped, late} \subseteq BOOLEAN
  BY DEF Segments, TypeOK
<1>3. {seen', overlap', crossed', aborted', wrapped', late'} \subseteq BOOLEAN
  BY <1>2 DEF Enter, proc
<1> QED  BY <1>1, <1>3 DEF Enter, proc

\* The statements of the hooks.
LEMMA StatementType ==
  ASSUME TypeOK, NEW c \in Contexts, Statement(c)
  PROVE  TypeOK'
<1> USE SeqAssumption, BoundsAssumption
<1>1. CASE Assign(c)
  <2>1. AssignsRow(hook[c].pc)
    BY <1>1, AssignsTable DEF Assign
  <2>2. Goto(c, Assigns[hook[c].pc].then) /\ Assigns[hook[c].pc].then \in Points
    BY <1>1, <2>1 DEF Assign, AssignsRow, Links
  <2>3. hook' \in [Contexts -> HookType]
    BY <2>2, GotoType
  <2>4. flag' \in [Flags -> BOOLEAN]
    BY <1>1, <2>1 DEF Assign, AssignsRow, TypeOK
  <2> QED  BY <1>1, <2>3, <2>4 DEF Assign, TypeOK, HookType, history, proc
<1>2. CASE Test(c)
  <2>1. TestsRow(hook[c].pc)
    BY <1>2, TestsTable DEF Test
  <2>2. PICK p \in Points : Goto(c, p)
    BY <1>2, <2>1 DEF Test, TestsRow, Links
  <2>3. hook' \in [Contexts -> HookType]
    BY <2>2, GotoType
  <2> QED  BY <1>2, <2>3 DEF Test, TypeOK, HookType, history, proc, flags
<1>3. CASE Payload(c)
  <2>1. PICK p \in Points : Goto(c, p)
    BY <1>3, OtherPoints DEF Payload
  <2>2. hook' \in [Contexts -> HookType]
    BY <2>1, GotoType
  <2> QED  BY <1>3, <2>2 DEF Payload, TypeOK, HookType, history, proc, flags
<1>4. SequenceOf(c) \in 0 .. (SEQ - 1)
  <2>1. hook[c].seg \in Segments
    BY DEF TypeOK
  <2>2. InitialSeq[hook[c].seg.conn] + hook[c].seg.number \in Int
    BY <2>1, InitialSeqAssumption DEF Segments
  <2> QED  BY <2>2, ModRange DEF SequenceOf, Sequence
<1>5. CASE SetLast(c)
  <2>1. hook' \in [Contexts -> HookType]
    BY <1>5, OtherPoints, GotoType DEF SetLast
  <2>2. SequenceOf(c) - 1 \in Int
    BY <1>4
  <2>3. last_sequence' \in 0 .. (WORD - 1)
    BY <1>5, <2>2, ModRange DEF SetLast, Before
  <2> QED  BY <1>5, <2>1, <2>3 DEF SetLast, TypeOK, HookType, history, proc
<1>6. CASE Compare(c)
  <2>1. PICK p \in Points : Goto(c, p)
    BY <1>6, OtherPoints DEF Compare
  <2>2. hook' \in [Contexts -> HookType]
    BY <2>1, GotoType
  <2> QED  BY <1>6, <2>2 DEF Compare, TypeOK, HookType, history, proc, flags
<1>7. CASE Load(c)
  <2>1. hook' \in [Contexts -> HookType]
    BY <1>7, OtherPoints DEF Load, TypeOK, HookType
  <2> QED  BY <1>7, <2>1 DEF Load, TypeOK, HookType, history, proc, flags
<1>8. CASE Store(c)
  <2>a. "remove" \in Points /\ 0 \in 0 .. (SEQ - 1)
    BY OtherPoints
  <2>b. [hook[c] EXCEPT !.pc = "remove", !.reg = 0] \in HookType
    BY <2>a DEF TypeOK, HookType
  <2>c. hook' = [hook EXCEPT ![c] = [hook[c] EXCEPT !.pc = "remove", !.reg = 0]]
    BY <1>8 DEF Store, TypeOK
  <2>1. hook' \in [Contexts -> HookType]
    BY <2>b, <2>c DEF TypeOK, HookType
  <2>2. total_collision' \in 0 .. (SEQ - 1)
    BY <1>8, ModRange DEF Store, TypeOK
  <2> QED  BY <1>8, <2>1, <2>2 DEF Store, TypeOK, HookType, history, proc
<1>9. CASE Advance(c)
  <2>1. hook' \in [Contexts -> HookType]
    BY <1>9, OtherPoints, GotoType DEF Advance
  <2>2. last_sequence' \in 0 .. (WORD - 1)
    BY <1>4, <1>9 DEF Advance
  <2> QED  BY <1>9, <2>1, <2>2 DEF Advance, TypeOK, HookType, history, proc
<1>10. CASE RemoveEntry(c) \/ CreateEntry(c)
  <2>1. hook' \in [Contexts -> HookType]
    BY <1>10, OtherPoints, GotoType DEF RemoveEntry, CreateEntry
  <2> QED  BY <1>10, <2>1 DEF RemoveEntry, CreateEntry, TypeOK, HookType, history, proc, flags
<1>11. CASE Return(c)
  <2>1. hook' \in [Contexts -> HookType]
    BY <1>11, IdleType DEF Return, TypeOK, HookType
  <2>2. \A state \in States, seg \in Segments : /\ AfterSend(state, seg) \in States
                                                /\ AfterReceive(state, seg) \in States
    BY DEF AfterSend, AfterReceive, States, Connected
  <2>3. hook[c].seg \in Segments /\ hook[c].seg.conn \in Conns
    BY DEF TypeOK, Segments
  <2>4. tcp[hook[c].seg.conn].state \in States
    BY <2>3 DEF TypeOK
  <2>5. tcp' \in [Conns -> [state : States, sent : 0 .. MaxSegments]]
    BY <1>11, <2>2, <2>3, <2>4 DEF Return, TypeOK
  <2> QED  BY <1>11, <2>1, <2>5 DEF Return, TypeOK, HookType, history, proc, flags
<1> QED
  BY <1>1, <1>2, <1>3, <1>5, <1>6, <1>7, <1>8, <1>9, <1>10, <1>11 DEF Statement

\* A segment the connection sends or receives.
LEMMA SegmentType ==
  ASSUME NEW x \in Conns, NEW out \in BOOLEAN, NEW kind \in Kinds, NEW n \in 0 .. MaxSegments
  PROVE  [conn |-> x, out |-> out, kind |-> kind, number |-> n] \in Segments
BY DEF Segments

\* A hook entered by TCP, which may count a transmission.
LEMMA EntersType ==
  ASSUME TypeOK, NEW c \in Contexts, NEW seg \in Segments, Enter(c, seg),
         tcp' \in [Conns -> [state : States, sent : 0 .. MaxSegments]],
         resends' \in 0 .. MaxResends, resent' \in 0 .. MaxResends, passive' \in BOOLEAN
  PROVE  TypeOK'
BY EnterType DEF TypeOK, HookType, flags

\* resent counts some of what resends counts.
Counted == resent <= resends

\* What TCP does enters a hook.
LEMMA TcpEnters ==
  ASSUME NEW c \in Contexts, NEW x \in Conns, TypeOK,
         SendControl(c, x) \/ SendData(c, x) \/ Resend(c, x)
           \/ ReceiveControl(c, x) \/ ReceiveAgain(c, x)
  PROVE  \E seg \in Segments : Enter(c, seg)
<1>1. \A kind \in Kinds, n \in 0 .. MaxSegments :
        Send(c, x, kind, n) => \E seg \in Segments : Enter(c, seg)
  <2> SUFFICES ASSUME NEW kind \in Kinds, NEW n \in 0 .. MaxSegments, Send(c, x, kind, n)
               PROVE  \E seg \in Segments : Enter(c, seg)
    OBVIOUS
  <2>1. Enter(c, [conn |-> x, out |-> TRUE, kind |-> kind, number |-> n])
    BY DEF Send
  <2> QED  BY <2>1, SegmentType, Zenon
<1>2. \A kind \in Kinds : Receive(c, x, kind) => \E seg \in Segments : Enter(c, seg)
  <2> SUFFICES ASSUME NEW kind \in Kinds, Receive(c, x, kind)
               PROVE  \E seg \in Segments : Enter(c, seg)
    OBVIOUS
  <2>1. Enter(c, [conn |-> x, out |-> FALSE, kind |-> kind, number |-> 0])
    BY DEF Receive
  <2>2. 0 \in 0 .. MaxSegments
    BY BoundsAssumption
  <2>3. [conn |-> x, out |-> FALSE, kind |-> kind, number |-> 0] \in Segments
    BY <2>2, SegmentType
  <2> QED  BY <2>1, <2>3, Zenon
<1>3. /\ {"syn", "ack", "fin", "data", "data_fin"} \subseteq Kinds
      /\ 0 \in 0 .. MaxSegments
      /\ tcp[x].sent \in 0 .. MaxSegments
      /\ \A n \in 1 .. tcp[x].sent : n \in 0 .. MaxSegments
      /\ tcp[x].sent < MaxSegments => tcp[x].sent + 1 \in 0 .. MaxSegments
  BY BoundsAssumption DEF Kinds, TypeOK
<1> QED  BY <1>1, <1>2, <1>3 DEF SendControl, SendData, Resend, ReceiveControl, ReceiveAgain

\* What TCP does.
LEMMA TcpType ==
  ASSUME TypeOK, Counted, NEW c \in Contexts, NEW x \in Conns,
         SendControl(c, x) \/ SendData(c, x) \/ Resend(c, x)
           \/ ReceiveControl(c, x) \/ ReceiveAgain(c, x)
  PROVE  TypeOK' /\ Counted'
<1> USE BoundsAssumption
<1>1. PICK seg \in Segments : Enter(c, seg)
  BY TcpEnters
<1>2. /\ tcp[x].sent \in 0 .. MaxSegments
      /\ passive \in BOOLEAN
      /\ resends \in 0 .. MaxResends /\ resent \in 0 .. MaxResends
      /\ tcp \in [Conns -> [state : States, sent : 0 .. MaxSegments]]
  BY DEF TypeOK
<1>3. CASE SendControl(c, x)
  <2>1. UNCHANGED <<tcp, resends, resent, passive>>
    BY <1>3 DEF SendControl
  <2> QED  BY <1>1, <1>2, <2>1, EntersType DEF Counted
<1>4. CASE SendData(c, x)
  <2>1. tcp[x].sent + 1 \in 0 .. MaxSegments
    BY <1>2, <1>4 DEF SendData
  <2>2. tcp' \in [Conns -> [state : States, sent : 0 .. MaxSegments]]
    BY <1>2, <1>4, <2>1 DEF SendData
  <2>3. UNCHANGED <<resends, resent, passive>>
    BY <1>4 DEF SendData
  <2> QED  BY <1>1, <1>2, <2>2, <2>3, EntersType DEF Counted
<1>5. CASE Resend(c, x)
  <2>1. /\ UNCHANGED <<tcp, passive>>
        /\ resends < MaxResends /\ resends' = resends + 1
        /\ resent' = resent \/ resent' = resent + 1
    BY <1>5 DEF Resend
  <2>2. /\ resends' \in 0 .. MaxResends /\ resent' \in 0 .. MaxResends
        /\ resent' <= resends'
    BY <1>2, <2>1 DEF Counted
  <2> QED  BY <1>1, <1>2, <2>1, <2>2, EntersType DEF Counted
<1>6. CASE ReceiveControl(c, x)
  <2>1. UNCHANGED <<tcp, resends, resent>>
    BY <1>6 DEF ReceiveControl
  <2>2. passive' \in BOOLEAN
    BY <1>2, <1>6 DEF ReceiveControl
  <2> QED  BY <1>1, <1>2, <2>1, <2>2, EntersType DEF Counted
<1>7. CASE ReceiveAgain(c, x)
  <2>1. /\ UNCHANGED <<tcp, resent, passive>>
        /\ resends < MaxResends /\ resends' = resends + 1
    BY <1>7 DEF ReceiveAgain
  <2>2. resends' \in 0 .. MaxResends /\ resent' <= resends'
    BY <1>2, <2>1 DEF Counted
  <2> QED  BY <1>1, <1>2, <2>1, <2>2, EntersType DEF Counted
<1> QED  BY <1>3, <1>4, <1>5, <1>6, <1>7

LEMMA InitType == Init => TypeOK /\ Counted
<1> SUFFICES ASSUME Init PROVE TypeOK /\ Counted
  OBVIOUS
<1> USE SeqAssumption, BoundsAssumption
<1>1. hook \in [Contexts -> HookType]
  BY IdleType DEF Init
<1>2. flag \in [Flags -> BOOLEAN]
  BY DEF Init
<1>3. tcp \in [Conns -> [state : States, sent : 0 .. MaxSegments]]
  BY DEF Init, States
<1>4. module \in Modules
  BY DEF Init, Modules
<1>5. {entry, seen, overlap, crossed, passive, aborted, wrapped, late} \subseteq BOOLEAN
  BY DEF Init
<1>6. /\ last_sequence \in 0 .. (WORD - 1) /\ total_collision \in 0 .. (SEQ - 1)
      /\ resends \in 0 .. MaxResends /\ resent \in 0 .. MaxResends /\ resent <= resends
  BY DEF Init
<1> QED  BY <1>1, <1>2, <1>3, <1>4, <1>5, <1>6 DEF TypeOK, HookType, Counted

LEMMA NextType == TypeOK /\ Counted /\ [Next]_vars => TypeOK' /\ Counted'
<1> SUFFICES ASSUME TypeOK, Counted, [Next]_vars PROVE TypeOK' /\ Counted'
  OBVIOUS
<1>1. ASSUME NEW c \in Contexts, Statement(c) PROVE TypeOK' /\ Counted'
  <2>1. UNCHANGED <<resends, resent>>
    BY <1>1 DEF Statement, Assign, Test, Payload, SetLast, Compare, Load, Store, Advance,
                RemoveEntry, CreateEntry, Return
  <2> QED  BY <1>1, <2>1, StatementType DEF Counted
<1>2. ASSUME NEW x \in Conns, LastAck(x) \/ Abort(x) PROVE TypeOK' /\ Counted'
  <2>1. tcp' \in [Conns -> [state : States, sent : 0 .. MaxSegments]]
    BY <1>2 DEF LastAck, Abort, TypeOK, States
  <2> QED  BY <1>2, <2>1 DEF LastAck, Abort, TypeOK, Counted, history, proc, flags
<1>3. CASE RemoveOnExit
  BY <1>3 DEF RemoveOnExit, TypeOK, Counted, Modules, flags
<1>4. CASE Unregister
  BY <1>4 DEF Unregister, TypeOK, Counted, Modules, flags, history, proc
<1>5. CASE UNCHANGED vars
  BY <1>5 DEF vars, TypeOK, Counted, flags, history, proc
<1> QED  BY <1>1, <1>2, <1>3, <1>4, <1>5, TcpType DEF Next

\* Every variable stays in its type, whatever hooks and connections there are:
\* the counters keep within unsigned int and unsigned long.
THEOREM TypeCorrect == Spec => []TypeOK
<1>1. Spec => [](TypeOK /\ Counted)
  BY InitType, NextType, PTL DEF Spec
<1> QED  BY <1>1, PTL

-----------------------------------------------------------------------------
(* The entry while the module lives.                                       *)

\* A statement other than proc_create and the return leaves its hook on its way.
Moves(c) ==
  /\ hook[c].pc # "off" /\ hook'[c].pc # "off"
  /\ hook[c].pc \in UpToCreate <=> hook'[c].pc \in UpToCreate
  /\ hook'[c].seg = hook[c].seg
  /\ \A d \in Contexts \ {c} : hook'[d] = hook[d]
  /\ UNCHANGED <<module, seen, late>>
  /\ hook[c].pc # "create"
  /\ entry' = entry \/ (entry' = FALSE /\ hook'[c].pc = "create")

LEMMA GotoMoves ==
  ASSUME TypeOK, NEW c \in Contexts, NEW p, Goto(c, p)
  PROVE  /\ hook'[c].pc = p /\ hook'[c].seg = hook[c].seg
         /\ \A d \in Contexts \ {c} : hook'[d] = hook[d]
BY DEF TypeOK, Goto

LEMMA StatementMoves ==
  ASSUME TypeOK, NEW c \in Contexts, Statement(c)
  PROVE  Moves(c) \/ CreateEntry(c) \/ Return(c)
<1>1. CASE Assign(c)
  <2>1. AssignsRow(hook[c].pc) /\ hook[c].pc \notin {"off", "create"}
    BY <1>1, AssignsTable, AssignsDomain DEF Assign
  <2>2. Goto(c, Assigns[hook[c].pc].then) /\ Links(hook[c].pc, Assigns[hook[c].pc].then)
    BY <1>1, <2>1 DEF Assign, AssignsRow
  <2> QED  BY <1>1, <2>1, <2>2, GotoMoves DEF Assign, Moves, Links, history, proc
<1>2. CASE Test(c)
  <2>1. TestsRow(hook[c].pc) /\ hook[c].pc \notin {"off", "create"}
    BY <1>2, TestsTable, TestsDomain DEF Test
  <2>2. PICK p : Goto(c, p) /\ Links(hook[c].pc, p)
    BY <1>2, <2>1 DEF Test, TestsRow
  <2> QED  BY <1>2, <2>1, <2>2, GotoMoves DEF Test, Moves, Links, history, proc
<1>3. CASE Payload(c)
  <2>1. PICK p \in {"if_connected", "remove"} : Goto(c, p)
    BY <1>3 DEF Payload
  <2> QED  BY <1>3, <2>1, GotoMoves DEF Payload, At, Moves, UpToCreate, history, proc
<1>4. CASE SetLast(c)
  BY <1>4, GotoMoves DEF SetLast, At, Moves, UpToCreate, history, proc
<1>5. CASE Compare(c)
  <2>1. PICK p \in {"load", "advance"} : Goto(c, p)
    BY <1>5 DEF Compare
  <2> QED  BY <1>5, <2>1, GotoMoves DEF Compare, At, Moves, UpToCreate, history, proc
<1>6. CASE Load(c)
  BY <1>6 DEF Load, TypeOK, At, Moves, UpToCreate, history, proc
<1>7. CASE Store(c)
  BY <1>7 DEF Store, TypeOK, At, Moves, UpToCreate, history, proc
<1>8. CASE Advance(c)
  BY <1>8, GotoMoves DEF Advance, At, Moves, UpToCreate, history, proc
<1>9. CASE RemoveEntry(c)
  BY <1>9, GotoMoves DEF RemoveEntry, At, Moves, UpToCreate, history, proc
<1> QED  BY <1>1, <1>2, <1>3, <1>4, <1>5, <1>6, <1>7, <1>8, <1>9 DEF Statement

\* The two steps that are left: proc_create, and the return.
LEMMA CreateMoves ==
  ASSUME TypeOK, NEW c \in Contexts, CreateEntry(c)
  PROVE  /\ hook[c].pc \in UpToCreate /\ hook[c].pc # "off"
         /\ hook'[c].pc = "if_syn_acked" /\ hook'[c].seg = hook[c].seg
         /\ \A d \in Contexts \ {c} : hook'[d] = hook[d]
         /\ entry' = TRUE /\ UNCHANGED <<module, seen, late>>
BY GotoMoves DEF CreateEntry, At, UpToCreate, history, proc

LEMMA ReturnMoves ==
  ASSUME TypeOK, NEW c \in Contexts, Return(c)
  PROVE  /\ hook[c].pc = "return" /\ hook'[c].pc = "off"
         /\ \A d \in Contexts \ {c} : hook'[d] = hook[d]
         /\ seen' = (seen \/ hook[c].seg.out)
         /\ UNCHANGED <<entry, module, late>>
BY DEF Return, TypeOK, At, Idle, history

LEMMA EnterMoves ==
  ASSUME TypeOK, NEW c \in Contexts, NEW seg \in Segments, Enter(c, seg)
  PROVE  /\ hook[c].pc = "off" /\ hook'[c].pc # "off"
         /\ hook'[c].pc \in UpToCreate <=> seg.out
         /\ hook'[c].seg = seg
         /\ \A d \in Contexts \ {c} : hook'[d] = hook[d]
         /\ late' = (late \/ (seg.out /\ module = "removed"))
         /\ UNCHANGED <<entry, module, seen>>
<1>1. hook'[c] = [pc |-> Entry(seg), seg |-> seg, reg |-> 0]
  BY DEF Enter, TypeOK
<1>2. seg.out \in BOOLEAN
  BY DEF Segments
<1>3. Entry(seg) # "off" /\ (Entry(seg) \in UpToCreate <=> seg.out)
  <2>1. CASE seg.out
    BY <2>1 DEF Entry, HasFin, Segments, Kinds, UpToCreate
  <2>2. CASE ~seg.out
    BY <2>2 DEF Entry, HasFin, Segments, Kinds, UpToCreate
  <2> QED  BY <1>2, <2>1, <2>2
<1>4. \A d \in Contexts \ {c} : hook'[d] = hook[d]
  BY DEF Enter, TypeOK
<1> QED  BY <1>1, <1>3, <1>4 DEF Enter, At, proc

\* The steps of Next, by what they do to the hooks and the entry.
LEMMA NextCases ==
  ASSUME TypeOK, [Next]_vars
  PROVE  \/ \E c \in Contexts : Moves(c) \/ CreateEntry(c) \/ Return(c)
         \/ \E c \in Contexts, seg \in Segments : Enter(c, seg)
         \/ RemoveOnExit
         \/ Unregister
         \/ UNCHANGED <<hook, entry, module, seen, late>>
<1>1. ASSUME NEW x \in Conns, LastAck(x) \/ Abort(x) PROVE UNCHANGED <<hook, entry, module, seen, late>>
  BY <1>1 DEF LastAck, Abort, history, proc
<1>2. CASE UNCHANGED vars
  BY <1>2 DEF vars, history, proc
<1> QED  BY <1>1, <1>2, StatementMoves, TcpEnters DEF Next

\* A hook of a segment sent that has passed its proc_create.
Past(c) == hook[c].pc # "off" /\ hook[c].seg.out /\ hook[c].pc \notin UpToCreate

\* Only hooks of segments sent come to proc_create.  Once one has passed it, while the
\* module lives, the entry is there or one that has removed it is about to create it.
EntryInv ==
  /\ \A c \in Contexts : hook[c].pc \in UpToCreate => hook[c].seg.out
  /\ module = "live" /\ (seen \/ \E c \in Contexts : Past(c))
       => entry \/ \E c \in Contexts : hook[c].pc = "create"

LEMMA InitEntry == Init => EntryInv
BY DEF Init, Idle, UpToCreate, Past, EntryInv

LEMMA NextEntry == TypeOK /\ EntryInv /\ [Next]_vars => EntryInv'
<1> SUFFICES ASSUME TypeOK, EntryInv, [Next]_vars PROVE EntryInv'
  OBVIOUS
<1>0. entry \in BOOLEAN /\ seen \in BOOLEAN
  BY DEF TypeOK
<1>1. ASSUME NEW c \in Contexts, Moves(c) PROVE EntryInv'
  <2>1. ASSUME NEW d \in Contexts
        PROVE  /\ hook[d].pc \in UpToCreate <=> hook'[d].pc \in UpToCreate
               /\ hook'[d].seg = hook[d].seg
               /\ Past(d)' <=> Past(d)
               /\ hook[d].pc = "create" => hook'[d].pc = "create"
    BY <1>1 DEF Moves, Past
  <2>2. entry' = entry \/ hook'[c].pc = "create"
    BY <1>1 DEF Moves
  <2>3. UNCHANGED <<module, seen>>
    BY <1>1 DEF Moves
  <2> QED  BY <1>0, <2>1, <2>2, <2>3 DEF EntryInv
<1>2. ASSUME NEW c \in Contexts, CreateEntry(c) PROVE EntryInv'
  <2>1. entry' = TRUE /\ hook'[c].pc \notin UpToCreate
    BY <1>2, CreateMoves DEF UpToCreate
  <2>2. \A d \in Contexts \ {c} : hook'[d] = hook[d]
    BY <1>2, CreateMoves
  <2> QED  BY <2>1, <2>2 DEF EntryInv
<1>3. ASSUME NEW c \in Contexts, Return(c) PROVE EntryInv'
  <2>1. /\ hook[c].pc = "return" /\ hook'[c].pc = "off"
        /\ \A d \in Contexts \ {c} : hook'[d] = hook[d]
        /\ seen' = (seen \/ hook[c].seg.out)
        /\ UNCHANGED <<entry, module>>
    BY <1>3, ReturnMoves
  <2>2. hook[c].pc \notin UpToCreate /\ hook'[c].pc \notin UpToCreate /\ ~Past(c)'
    BY <2>1 DEF UpToCreate, Past
  <2>3. hook[c].seg.out => Past(c)
    BY <2>1, <2>2 DEF Past
  <2>4. \A d \in Contexts : Past(d)' => Past(d)
    BY <2>1, <2>2 DEF Past
  <2>5. \A d \in Contexts : hook[d].pc = "create" => hook'[d].pc = "create"
    BY <2>1
  <2> QED  BY <1>0, <2>1, <2>2, <2>3, <2>4, <2>5 DEF EntryInv
<1>4. ASSUME NEW c \in Contexts, NEW seg \in Segments, Enter(c, seg) PROVE EntryInv'
  <2>1. /\ hook[c].pc = "off"
        /\ hook'[c].pc \in UpToCreate <=> hook'[c].seg.out
        /\ \A d \in Contexts \ {c} : hook'[d] = hook[d]
        /\ UNCHANGED <<entry, module, seen>>
    BY <1>4, EnterMoves
  <2>2. \A d \in Contexts : Past(d)' => Past(d)
    BY <2>1 DEF Past
  <2>3. \A d \in Contexts : hook[d].pc = "create" => hook'[d].pc = "create"
    BY <2>1
  <2> QED  BY <2>1, <2>2, <2>3 DEF EntryInv
<1>5. CASE RemoveOnExit
  BY <1>5 DEF RemoveOnExit, EntryInv
<1>6. CASE Unregister
  BY <1>6 DEF Unregister, EntryInv
<1>7. CASE UNCHANGED <<hook, entry, module, seen, late>>
  BY <1>7 DEF EntryInv, Past
<1> QED  BY <1>1, <1>2, <1>3, <1>4, <1>5, <1>6, <1>7, NextCases

\* Whatever hooks overlap on whatever processors, once a segment was let go
\* /proc/collision_count is missing only while a hook stands between its
\* remove_proc_entry and its proc_create.
THEOREM EntryFound == Spec => []EntryPresent
<1>1. EntryInv => EntryPresent
  BY DEF EntryInv, EntryPresent, At
<1>2. Spec => [](TypeOK /\ Counted /\ EntryInv)
  BY InitType, NextType, InitEntry, NextEntry, PTL DEF Spec
<1> QED  BY <1>1, <1>2, PTL

-----------------------------------------------------------------------------
(* The entry once the module is being unloaded.                            *)

\* exit_hello has removed the entry, or left a post hook to run: only such a
\* hook still runs, or has created the entry again.
UnloadInv ==
  module # "live" =>
    /\ entry => late
    /\ \A c \in Contexts : hook[c].pc # "off" /\ hook[c].seg.out => late

LEMMA NextUnload == TypeOK /\ EntryInv /\ UnloadInv /\ [Next]_vars => UnloadInv'
<1> SUFFICES ASSUME TypeOK, EntryInv, UnloadInv, [Next]_vars PROVE UnloadInv'
  OBVIOUS
<1>0. entry \in BOOLEAN /\ late \in BOOLEAN
  BY DEF TypeOK
<1>1. ASSUME NEW c \in Contexts, Moves(c) PROVE UnloadInv'
  <2>1. \A d \in Contexts : hook'[d].pc # "off" /\ hook'[d].seg.out
                              => hook[d].pc # "off" /\ hook[d].seg.out
    BY <1>1 DEF Moves
  <2> QED  BY <1>0, <1>1, <2>1 DEF Moves, UnloadInv
<1>2. ASSUME NEW c \in Contexts, CreateEntry(c) PROVE UnloadInv'
  <2>1. hook[c].pc # "off" /\ hook[c].seg.out
    BY <1>2, CreateMoves DEF EntryInv
  <2> QED  BY <1>2, <2>1, CreateMoves DEF UnloadInv
<1>3. ASSUME NEW c \in Contexts, Return(c) PROVE UnloadInv'
  BY <1>3, ReturnMoves DEF UnloadInv
<1>4. ASSUME NEW c \in Contexts, NEW seg \in Segments, Enter(c, seg) PROVE UnloadInv'
  <2>1. seg.out => module \in {"live", "removed"}
    BY <1>4 DEF Enter
  <2>2. (seg.out /\ module # "live") \/ late => late'
    BY <1>0, <1>4, <2>1, EnterMoves
  <2>3. /\ hook'[c].seg = seg
        /\ \A d \in Contexts \ {c} : hook'[d] = hook[d]
        /\ UNCHANGED <<entry, module>>
    BY <1>4, EnterMoves
  <2> QED  BY <2>2, <2>3 DEF UnloadInv
<1>5. CASE RemoveOnExit
  BY <1>5 DEF RemoveOnExit, At, UnloadInv
<1>6. CASE Unregister
  BY <1>6 DEF Unregister, UnloadInv, history, proc
<1>7. CASE UNCHANGED <<hook, entry, module, seen, late>>
  BY <1>7 DEF UnloadInv
<1> QED  BY <1>1, <1>2, <1>3, <1>4, <1>5, <1>6, <1>7, NextCases

\* An entry found after the module was unloaded was created by a post hook that
\* ran after exit_hello's remove_proc_entry: if none did, exit_hello cleans up.
THEOREM UnloadClean == Spec => []CleanUnload
<1>1. UnloadInv => CleanUnload
  BY DEF UnloadInv, CleanUnload
<1>2. Init => UnloadInv
  BY DEF Init, UnloadInv
<1>3. Spec => [](TypeOK /\ Counted /\ EntryInv /\ UnloadInv)
  BY InitType, NextType, InitEntry, NextEntry, <1>2, NextUnload, PTL DEF Spec
<1> QED  BY <1>1, <1>3, PTL

-----------------------------------------------------------------------------
(***************************************************************************)
(* What is counted.  As long as connections do not cross, one post hook    *)
(* runs at a time, and a data segment sent for the first time is above     *)
(* last_sequence whenever that is compared, because every connection       *)
(* begins with a SYN, after which init_sequence stays off until a data     *)
(* segment sets last_sequence.                                             *)
(***************************************************************************)

Out(c)      == ~At(c, "off") /\ hook[c].seg.out
DataHook(c) == Out(c) /\ HasData(hook[c].seg)

\* The statements only segments with data reach, and those only pre_hook_func has.
Counting  == {"if_connected", "if_init", "init_sequence_on", "set_last", "compare", "load",
              "store", "advance"}
PrePoints == {"if_syn_require", "syn_acked_on", "if_fin_require", "fin_require_off",
              "connected_off", "forget_sequence"}

Path(c) ==
  LET h == hook[c] IN
  /\ DataHook(c) => h.seg.number >= 1 /\ h.seg.number <= tcp[h.seg.conn].sent
  /\ h.pc \in {"syn_require_on", "init_sequence_off"} => h.seg.kind = "syn"
  /\ h.pc = "fin_require_on" => HasFin(h.seg)
  /\ h.pc \in Counting => HasData(h.seg)
  /\ h.pc \in PrePoints => ~h.seg.out

OneSends  == \A c, d \in Contexts : Out(c) /\ Out(d) /\ hook[c].seg.conn = hook[d].seg.conn
                                      => c = d
Exclusive == ~crossed => \A x, y \in Conns : Up(x) /\ Up(y) => x = y
Numbers   == ~wrapped => \A x \in Conns : InitialSeq[x] + tcp[x].sent < SEQ

TcpInv == (\A c \in Contexts : Path(c)) /\ OneSends /\ Exclusive /\ Numbers

LEMMA InitTcp == Init => TcpInv
<1> SUFFICES ASSUME Init PROVE TcpInv
  OBVIOUS
<1>1. \A c \in Contexts : hook[c].pc = "off"
  BY DEF Init, Idle
<1>2. \A c \in Contexts : Path(c)
  BY <1>1 DEF Path, DataHook, Out, At, Counting, PrePoints
<1>3. OneSends
  BY <1>1 DEF OneSends, Out, At
<1>4. \A x \in Conns : tcp[x].state = "closed" /\ tcp[x].sent = 0
  BY DEF Init
<1>5. Exclusive
  BY <1>1, <1>4 DEF Exclusive, Up, Hooked, At
<1>6. Numbers
  BY <1>4, InitialSeqAssumption, SeqAssumption DEF Numbers
<1> QED  BY <1>2, <1>3, <1>5, <1>6 DEF TcpInv

\* A statement of c, other than the return, on its way through the hook.
Stays(c) ==
  /\ hook[c].pc # "off" /\ hook'[c].pc # "off"
  /\ hook'[c].seg = hook[c].seg
  /\ \A d \in Contexts \ {c} : hook'[d] = hook[d]
  /\ UNCHANGED <<tcp, resends, resent, history>>

\* The tables again: where a statement can come from.
AssignsFrom(p) ==
  LET q == Assigns[p].then IN
  /\ q \in {"syn_require_on", "init_sequence_off"} => p = "syn_require_on"
  /\ q # "fin_require_on"
  /\ q \in Counting => p = "init_sequence_on" /\ q = "set_last"
  /\ q \in PrePoints => p \in PrePoints
  /\ q = "payload" => p \in {"init_sequence_off", "fin_require_on"}
  /\ Assigns[p].flag = "init_sequence" =>
       Assigns[p].is = (p = "init_sequence_on")
  /\ p \in {"init_sequence_on", "init_sequence_off"} => Assigns[p].flag = "init_sequence"

LEMMA AssignsFromTable == \A p \in DOMAIN Assigns : AssignsFrom(p)
<1>1. AssignsFrom("syn_require_on") /\ AssignsFrom("init_sequence_off")
  BY AssignsDomain DEF AssignsFrom, Assigns, Counting, PrePoints
<1>2. AssignsFrom("fin_require_on") /\ AssignsFrom("init_sequence_on")
  BY AssignsDomain DEF AssignsFrom, Assigns, Counting, PrePoints
<1>3. AssignsFrom("syn_acked_off") /\ AssignsFrom("syn_require_off")
  BY AssignsDomain DEF AssignsFrom, Assigns, Counting, PrePoints
<1>4. AssignsFrom("connected_on") /\ AssignsFrom("syn_acked_on")
  BY AssignsDomain DEF AssignsFrom, Assigns, Counting, PrePoints
<1>5. AssignsFrom("fin_require_off") /\ AssignsFrom("connected_off")
  BY AssignsDomain DEF AssignsFrom, Assigns, Counting, PrePoints
<1>6. AssignsFrom("forget_sequence")
  BY AssignsDomain DEF AssignsFrom, Assigns, Counting, PrePoints
<1> QED  BY <1>1, <1>2, <1>3, <1>4, <1>5, <1>6, AssignsDomain

TestsFrom(p) ==
  \A q \in {Tests[p].yes, Tests[p].no} :
    /\ q \notin {"syn_require_on", "init_sequence_off", "fin_require_on", "payload", "set_last"}
    /\ q \in Counting => p \in {"if_connected", "if_init"}
    /\ q \in PrePoints => p \in PrePoints
    /\ q = "compare" => p = "if_init" /\ q = Tests[p].yes /\ q # Tests[p].no
    /\ q \notin {"if_connected", "load", "store"}

LEMMA TestsFromTable ==
  /\ \A p \in DOMAIN Tests : TestsFrom(p)
  /\ Tests["if_init"].flag = "init_sequence"
<1>1. TestsFrom("if_connected") /\ TestsFrom("if_init") /\ Tests["if_init"].flag = "init_sequence"
  BY TestsDomain DEF TestsFrom, Tests, Counting, PrePoints
<1>2. TestsFrom("if_syn_acked") /\ TestsFrom("if_syn_require")
  BY TestsDomain DEF TestsFrom, Tests, Counting, PrePoints
<1>3. TestsFrom("if_fin_require")
  BY TestsDomain DEF TestsFrom, Tests, Counting, PrePoints
<1> QED  BY <1>1, <1>2, <1>3, TestsDomain

LEMMA StatementPath ==
  ASSUME TypeOK, EntryInv, NEW c \in Contexts, Path(c), Statement(c), ~Return(c)
  PROVE  Stays(c) /\ Path(c)'
<1> DEFINE p == hook[c].pc
           q == hook'[c].pc
<1>1. ASSUME Stays(c), q \in {"syn_require_on", "init_sequence_off"} => p = "syn_require_on",
             q # "fin_require_on", q \in Counting => HasData(hook[c].seg),
             q \in PrePoints => p \in PrePoints
      PROVE  Stays(c) /\ Path(c)'
  BY <1>1 DEF Stays, Path, DataHook, Out, At
<1>2. CASE Assign(c)
  <2>1. /\ p \in DOMAIN Assigns /\ Goto(c, Assigns[p].then) /\ p # "off"
        /\ Assigns[p].then # "off" /\ UNCHANGED <<tcp, resends, resent, history>>
    BY <1>2, AssignsTable, AssignsDomain DEF Assign, AssignsRow, Links
  <2>2. Stays(c) /\ q = Assigns[p].then
    BY <2>1, GotoMoves DEF Stays
  <2>3. AssignsFrom(p)
    BY <2>1, AssignsFromTable
  <2>4. q \in Counting => HasData(hook[c].seg)
    BY <2>2, <2>3 DEF AssignsFrom, Path, Counting
  <2> QED
    BY <1>1, <2>2, <2>3, <2>4 DEF AssignsFrom
<1>3. CASE Test(c)
  <2>1. /\ p \in DOMAIN Tests /\ p # "off" /\ UNCHANGED <<tcp, resends, resent, history>>
        /\ TestsRow(p) /\ TestsFrom(p)
    BY <1>3, TestsTable, TestsFromTable, TestsDomain DEF Test
  <2>2. PICK r \in {Tests[p].yes, Tests[p].no} : Goto(c, r)
    BY <1>3 DEF Test
  <2>3. r # "off"
    BY <2>1 DEF TestsRow, Links
  <2>4. Stays(c) /\ q = r
    BY <2>1, <2>2, <2>3, GotoMoves DEF Stays
  <2>5. q \in Counting => HasData(hook[c].seg)
    BY <2>1, <2>4 DEF TestsFrom, Path, Counting
  <2> QED
    BY <1>1, <2>1, <2>4, <2>5 DEF TestsFrom
<1>4. CASE Payload(c)
  <2>1. PICK r \in {"if_connected", "remove"} : Goto(c, r) /\ (r = "if_connected" => HasData(hook[c].seg))
    BY <1>4 DEF Payload
  <2>2. Stays(c) /\ q = r
    BY <1>4, <2>1, GotoMoves DEF Stays, Payload, At
  <2> QED
    BY <1>1, <2>1, <2>2 DEF Counting, PrePoints
<1>5. CASE SetLast(c) \/ Compare(c) \/ Load(c) \/ Store(c) \/ Advance(c)
  <2>1. Stays(c) /\ p \in Counting /\ q \in {"compare", "load", "advance", "store", "remove"}
    <3>1. CASE SetLast(c) \/ Advance(c)
      BY <3>1, GotoMoves DEF SetLast, Advance, At, Stays, Counting
    <3>2. CASE Compare(c)
      <4>1. PICK r \in {"load", "advance"} : Goto(c, r)
        BY <3>2 DEF Compare
      <4> QED
        BY <3>2, <4>1, GotoMoves DEF Compare, At, Stays, Counting
    <3>3. CASE Load(c)
      BY <3>3 DEF Load, At, Stays, Counting, TypeOK
    <3>4. CASE Store(c)
      <4>1. hook' = [hook EXCEPT ![c] = [hook[c] EXCEPT !.pc = "remove", !.reg = 0]]
        BY <3>4 DEF Store
      <4>2. hook[c] \in HookType /\ hook \in [Contexts -> HookType]
        BY DEF TypeOK, HookType
      <4>3. hook'[c].seg = hook[c].seg /\ q = "remove" /\ \A d \in Contexts \ {c} : hook'[d] = hook[d]
        BY <4>1, <4>2 DEF HookType
      <4> QED
        BY <3>4, <4>3 DEF Store, At, Stays, Counting
    <3> QED
      BY <1>5, <3>1, <3>2, <3>3, <3>4
  <2>2. HasData(hook[c].seg)
    BY <2>1 DEF Path
  <2> QED
    BY <1>1, <2>1, <2>2 DEF PrePoints
<1>6. CASE RemoveEntry(c) \/ CreateEntry(c)
  <2>1. Stays(c) /\ q \in {"create", "if_syn_acked"}
    BY <1>6, GotoMoves DEF RemoveEntry, CreateEntry, At, Stays
  <2> QED
    BY <1>1, <2>1 DEF Counting, PrePoints
<1> QED
  BY <1>2, <1>3, <1>4, <1>5, <1>6 DEF Statement

\* Which connections are up, and who sends, are left alone by such a statement.
LEMMA StaysUp ==
  ASSUME NEW c \in Contexts, Stays(c)
  PROVE  /\ \A x \in Conns : Up(x)' = Up(x) /\ Hooked(x)' = Hooked(x)
         /\ \A d \in Contexts : Out(d)' = Out(d) /\ DataHook(d)' = DataHook(d)
         /\ \A d \in Contexts : hook'[d].seg = hook[d].seg
         /\ \A d \in Contexts \ {c} : Path(d)' = Path(d)
<1>1. \A d \in Contexts : /\ hook'[d].seg = hook[d].seg
                          /\ hook'[d].pc = "off" <=> hook[d].pc = "off"
  BY DEF Stays
<1>2. tcp' = tcp
  BY DEF Stays
<1>3. \A x \in Conns : Hooked(x)' = Hooked(x)
  BY <1>1 DEF Hooked, At
<1>4. \A x \in Conns : Up(x)' = Up(x)
  BY <1>2, <1>3 DEF Up
<1>5. \A d \in Contexts : Out(d)' = Out(d) /\ DataHook(d)' = DataHook(d)
  BY <1>1 DEF Out, DataHook, At
<1>6. \A d \in Contexts \ {c} : Path(d)' = Path(d)
  BY <1>2, <1>5 DEF Stays, Path
<1> QED  BY <1>1, <1>3, <1>4, <1>5, <1>6

\* The segment a TCP step hands to a hook: without data, new data, or data again.
Control(x, seg) == ~HasData(seg) /\ UNCHANGED <<tcp, resent>>
NewData(x, seg) == /\ seg.out /\ HasData(seg) /\ tcp[x].state \in {"open", "close_wait"}
                   /\ seg.number = tcp[x].sent + 1 /\ UNCHANGED resent
                   /\ tcp' = [tcp EXCEPT ![x].sent = @ + 1]
DataAgain(x, seg) == /\ seg.out /\ HasData(seg) /\ seg.number \in 1 .. tcp[x].sent
                     /\ resent' = resent + 1 /\ UNCHANGED tcp

LEMMA TcpDoes ==
  ASSUME NEW c \in Contexts, NEW x \in Conns, TypeOK,
         SendControl(c, x) \/ SendData(c, x) \/ Resend(c, x)
           \/ ReceiveControl(c, x) \/ ReceiveAgain(c, x)
  PROVE  \E seg \in Segments :
           /\ Enter(c, seg) /\ seg.conn = x /\ (seg.out => ~Sending(x))
           /\ Control(x, seg) \/ NewData(x, seg) \/ DataAgain(x, seg)
<1> USE BoundsAssumption
<1>1. ASSUME NEW kind \in Kinds, NEW n \in 0 .. MaxSegments, Send(c, x, kind, n),
             \A seg \in Segments : seg.conn = x /\ seg.out /\ seg.kind = kind /\ seg.number = n
               => Control(x, seg) \/ NewData(x, seg) \/ DataAgain(x, seg)
      PROVE  \E seg \in Segments :
               /\ Enter(c, seg) /\ seg.conn = x /\ (seg.out => ~Sending(x))
               /\ Control(x, seg) \/ NewData(x, seg) \/ DataAgain(x, seg)
  <2> DEFINE s == [conn |-> x, out |-> TRUE, kind |-> kind, number |-> n]
  <2>1. s \in Segments /\ s.conn = x /\ s.out /\ s.kind = kind /\ s.number = n
    BY SegmentType
  <2>2. Enter(c, s) /\ ~Sending(x)
    BY <1>1 DEF Send
  <2> HIDE DEF s
  <2>3. Control(x, s) \/ NewData(x, s) \/ DataAgain(x, s)
    BY <1>1, <2>1
  <2> QED  BY <2>1, <2>2, <2>3
<1>2. ASSUME NEW kind \in Kinds, Receive(c, x, kind), kind \notin {"data", "data_fin"},
             UNCHANGED <<tcp, resent>>
      PROVE  \E seg \in Segments :
               /\ Enter(c, seg) /\ seg.conn = x /\ (seg.out => ~Sending(x))
               /\ Control(x, seg) \/ NewData(x, seg) \/ DataAgain(x, seg)
  <2> DEFINE s == [conn |-> x, out |-> FALSE, kind |-> kind, number |-> 0]
  <2>0. 0 \in 0 .. MaxSegments
    OBVIOUS
  <2>1. s \in Segments /\ s.conn = x /\ ~s.out /\ s.kind = kind
    BY <2>0, SegmentType
  <2>2. Enter(c, s)
    BY <1>2 DEF Receive
  <2> HIDE DEF s
  <2>3. Control(x, s)
    BY <1>2, <2>1 DEF Control, HasData
  <2> QED  BY <2>1, <2>2, <2>3
<1>3. /\ {"syn", "ack", "fin", "data", "data_fin"} \subseteq Kinds
      /\ 0 \in 0 .. MaxSegments
      /\ \A n \in 1 .. tcp[x].sent : n \in 0 .. MaxSegments
      /\ tcp[x].sent < MaxSegments => tcp[x].sent + 1 \in 0 .. MaxSegments
  BY BoundsAssumption DEF Kinds, TypeOK
<1>4. ASSUME UNCHANGED <<tcp, resent>>, NEW kind \in {"syn", "ack", "fin"}, NEW seg \in Segments,
             seg.kind = kind
      PROVE  Control(x, seg)
  BY <1>4 DEF Control, HasData
<1>5. CASE SendControl(c, x)
  <2>1. PICK kind \in {"syn", "ack", "fin"} : Send(c, x, kind, 0)
    BY <1>5 DEF SendControl
  <2>2. UNCHANGED <<tcp, resent>>
    BY <1>5 DEF SendControl
  <2> QED  BY <1>1, <1>3, <1>4, <2>1, <2>2
<1>6. CASE SendData(c, x)
  <2>1. PICK kind \in {"data", "data_fin"} : Send(c, x, kind, tcp[x].sent + 1)
    BY <1>6 DEF SendData
  <2>2. /\ tcp[x].state \in {"open", "close_wait"} /\ tcp[x].sent < MaxSegments
        /\ tcp' = [tcp EXCEPT ![x].sent = @ + 1] /\ UNCHANGED resent
    BY <1>6 DEF SendData
  <2>3. \A seg \in Segments : seg.conn = x /\ seg.out /\ seg.kind = kind
          /\ seg.number = tcp[x].sent + 1 => NewData(x, seg)
    BY <2>2 DEF NewData, HasData
  <2> QED  BY <1>1, <1>3, <2>1, <2>2, <2>3
<1>7. CASE Resend(c, x)
  <2>1. CASE (Send(c, x, "syn", 0) \/ Send(c, x, "fin", 0)) /\ UNCHANGED resent
    <3>1. UNCHANGED <<tcp, resent>>
      BY <1>7, <2>1 DEF Resend
    <3> QED  BY <1>1, <1>3, <1>4, <2>1, <3>1
  <2>2. CASE (\E n \in 1 .. tcp[x].sent : Send(c, x, "data", n)) /\ resent' = resent + 1
    <3>1. PICK n \in 1 .. tcp[x].sent : Send(c, x, "data", n)
      BY <2>2
    <3>2. UNCHANGED tcp
      BY <1>7 DEF Resend
    <3>3. \A seg \in Segments : seg.conn = x /\ seg.out /\ seg.kind = "data"
            /\ seg.number = n => DataAgain(x, seg)
      BY <2>2, <3>2 DEF DataAgain, HasData
    <3> QED  BY <1>1, <1>3, <3>1, <3>3
  <2>3. CASE tcp[x].sent > 0 /\ Send(c, x, "data_fin", tcp[x].sent) /\ resent' = resent + 1
    <3>1. UNCHANGED tcp
      BY <1>7 DEF Resend
    <3>2. tcp[x].sent \in 1 .. tcp[x].sent
      BY <2>3 DEF TypeOK
    <3>3. \A seg \in Segments : seg.conn = x /\ seg.out /\ seg.kind = "data_fin"
            /\ seg.number = tcp[x].sent => DataAgain(x, seg)
      BY <2>3, <3>1, <3>2 DEF DataAgain, HasData
    <3> QED  BY <1>1, <1>3, <2>3, <3>2, <3>3
  <2> QED  BY <1>7, <2>1, <2>2, <2>3 DEF Resend
<1>8. CASE ReceiveControl(c, x) \/ ReceiveAgain(c, x)
  <2>1. PICK kind \in {"syn", "fin"} : Receive(c, x, kind)
    BY <1>8 DEF ReceiveControl, ReceiveAgain
  <2>2. UNCHANGED <<tcp, resent>>
    BY <1>8 DEF ReceiveControl, ReceiveAgain
  <2> QED  BY <1>2, <1>3, <2>1, <2>2
<1> QED  BY <1>5, <1>6, <1>7, <1>8

LEMMA EntryIs ==
  ASSUME NEW seg \in Segments
  PROVE  LET q == Entry(seg) IN
         /\ q \in {"syn_require_on", "fin_require_on", "payload", "if_syn_require",
                   "if_fin_require", "return"}
         /\ q = "syn_require_on" => seg.kind = "syn"
         /\ q = "fin_require_on" => HasFin(seg)
         /\ q \in {"if_syn_require", "if_fin_require"} => ~seg.out
         /\ q \in {"payload", "return"} => ~(seg.out /\ seg.kind = "syn")
<1>1. seg.out \in BOOLEAN
  BY DEF Segments
<1>2. CASE seg.out
  BY <1>2 DEF Entry, HasFin
<1>3. CASE ~seg.out
  BY <1>3 DEF Entry, HasFin
<1> QED  BY <1>1, <1>2, <1>3

\* What entering a hook does to the connections.
LEMMA EnterDoes ==
  ASSUME TypeOK, NEW c \in Contexts, NEW seg \in Segments, Enter(c, seg),
         \A y \in Conns : tcp'[y].state = tcp[y].state
  PROVE  /\ hook[c].pc = "off" /\ hook'[c].pc = Entry(seg) /\ hook'[c].seg = seg
         /\ hook'[c].pc # "off"
         /\ \A d \in Contexts \ {c} : hook'[d] = hook[d]
         /\ \A y \in Conns : Up(y)' => Up(y) \/ y = seg.conn
         /\ \A d \in Contexts \ {c} : Out(d)' = Out(d) /\ DataHook(d)' = DataHook(d)
         /\ ~Out(c) /\ (Out(c)' = seg.out) /\ (DataHook(c)' = (seg.out /\ HasData(seg)))
         /\ ~crossed' => ~crossed /\ \A y \in Conns : Up(y) => y = seg.conn
         /\ ~wrapped' => ~wrapped /\ (HasData(seg) => InitialSeq[seg.conn] + seg.number < SEQ)
         /\ UNCHANGED flags
<1>1. hook' = [hook EXCEPT ![c] = [pc |-> Entry(seg), seg |-> seg, reg |-> 0]] /\ hook[c].pc = "off"
  BY DEF Enter, At
<1>2. /\ hook'[c].pc = Entry(seg) /\ hook'[c].seg = seg
      /\ \A d \in Contexts \ {c} : hook'[d] = hook[d]
  BY <1>1 DEF TypeOK
<1>3. Entry(seg) # "off"
  BY EntryIs
<1>4. \A y \in Conns : y # seg.conn => Hooked(y)' = Hooked(y)
  BY <1>1, <1>2 DEF Hooked, At
<1>5. \A y \in Conns : Up(y)' => Up(y) \/ y = seg.conn
  BY <1>4 DEF Up
<1>6. \A d \in Contexts \ {c} : Out(d)' = Out(d) /\ DataHook(d)' = DataHook(d)
  BY <1>2 DEF Out, DataHook, At
<1>7. seg.out \in BOOLEAN
  BY DEF Segments
<1>8. ~Out(c) /\ (Out(c)' = seg.out) /\ (DataHook(c)' = (seg.out /\ HasData(seg)))
  BY <1>1, <1>2, <1>3, <1>7 DEF Out, DataHook, At, HasData
<1>9. ~crossed' => ~crossed /\ \A y \in Conns : Up(y) => y = seg.conn
  BY DEF Enter
<1>10. InitialSeq[seg.conn] + seg.number \in Int /\ SEQ \in Int
  BY InitialSeqAssumption, SeqAssumption DEF Segments
<1>11. ~wrapped' => ~wrapped /\ (HasData(seg) => InitialSeq[seg.conn] + seg.number < SEQ)
  <2>1. wrapped' = (wrapped \/ (HasData(seg) /\ InitialSeq[seg.conn] + seg.number >= SEQ))
    BY DEF Enter
  <2>2. ~(InitialSeq[seg.conn] + seg.number >= SEQ) <=> InitialSeq[seg.conn] + seg.number < SEQ
    BY <1>10
  <2> QED  BY <2>1, <2>2, Zenon
<1> QED  BY <1>1, <1>2, <1>3, <1>5, <1>6, <1>8, <1>9, <1>11 DEF Enter

LEMMA EnterTcp ==
  ASSUME TypeOK, TcpInv, NEW c \in Contexts, NEW x \in Conns,
         SendControl(c, x) \/ SendData(c, x) \/ Resend(c, x)
           \/ ReceiveControl(c, x) \/ ReceiveAgain(c, x)
  PROVE  TcpInv'
<1>1. PICK seg \in Segments :
        /\ Enter(c, seg) /\ seg.conn = x /\ (seg.out => ~Sending(x))
        /\ Control(x, seg) \/ NewData(x, seg) \/ DataAgain(x, seg)
  BY TcpDoes
<1>2. \A y \in Conns : /\ tcp'[y].state = tcp[y].state
                       /\ tcp[y].sent \in Nat /\ InitialSeq[y] \in Nat
                       /\ tcp'[y].sent \in Nat /\ tcp'[y].sent >= tcp[y].sent
                       /\ y # x => tcp'[y].sent = tcp[y].sent
  BY <1>1, InitialSeqAssumption, BoundsAssumption DEF Control, NewData, DataAgain, TypeOK
<1>3. /\ hook[c].pc = "off" /\ hook'[c].pc = Entry(seg) /\ hook'[c].seg = seg
      /\ \A d \in Contexts \ {c} : hook'[d] = hook[d]
      /\ \A y \in Conns : Up(y)' => Up(y) \/ y = seg.conn
      /\ \A d \in Contexts \ {c} : Out(d)' = Out(d) /\ DataHook(d)' = DataHook(d)
      /\ ~Out(c) /\ (Out(c)' = seg.out) /\ (DataHook(c)' = (seg.out /\ HasData(seg)))
      /\ ~crossed' => ~crossed /\ \A y \in Conns : Up(y) => y = seg.conn
      /\ ~wrapped' => ~wrapped /\ (HasData(seg) => InitialSeq[seg.conn] + seg.number < SEQ)
  BY <1>1, <1>2, EnterDoes
<1>4. ASSUME NEW d \in Contexts PROVE Path(d)'
  <2>1. CASE d = c
    <3>1. DataHook(c)' => seg.number >= 1 /\ seg.number <= tcp'[x].sent
      <4>1. CASE Control(x, seg)
        BY <1>3, <4>1 DEF Control
      <4>2. CASE NewData(x, seg)
        <5>1. tcp'[x].sent = tcp[x].sent + 1
          BY <4>2 DEF NewData, TypeOK
        <5> QED  BY <1>2, <4>2, <5>1 DEF NewData
      <4>3. CASE DataAgain(x, seg)
        BY <1>2, <4>3 DEF DataAgain
      <4> QED  BY <1>1, <4>1, <4>2, <4>3
    <3>2. hook'[c].pc \notin Counting
      BY <1>3, EntryIs DEF Counting
    <3> QED  BY <1>1, <1>3, <2>1, <3>1, <3>2, EntryIs DEF Path, PrePoints
  <2>2. CASE d # c
    <3>1. hook'[d] = hook[d] /\ DataHook(d)' = DataHook(d) /\ Path(d)
      BY <1>3, <2>2 DEF TcpInv
    <3>2. /\ hook[d].seg.conn \in Conns /\ hook[d].seg.number \in Nat
      BY BoundsAssumption DEF TypeOK, Segments
    <3>3. hook[d].seg.number <= tcp[hook[d].seg.conn].sent
            => hook[d].seg.number <= tcp'[hook[d].seg.conn].sent
      BY <1>2, <3>2
    <3> QED  BY <3>1, <3>3 DEF Path
  <2> QED  BY <2>1, <2>2
<1>5. OneSends'
  <2> SUFFICES ASSUME NEW a \in Contexts, NEW b \in Contexts, Out(a)', Out(b)',
                      hook'[a].seg.conn = hook'[b].seg.conn
               PROVE  a = b
    BY DEF OneSends
  <2>1. ASSUME seg.out, NEW d \in Contexts \ {c}, Out(d) PROVE hook[d].seg.conn # x
    BY <1>1, <2>1 DEF Sending, Hooked, Out
  <2> QED  BY <1>1, <1>3, <2>1 DEF TcpInv, OneSends
<1>6. Exclusive'
  BY <1>3 DEF TcpInv, Exclusive
<1>7. Numbers'
  <2> SUFFICES ASSUME ~wrapped', NEW y \in Conns PROVE InitialSeq[y] + tcp'[y].sent < SEQ
    BY DEF Numbers
  <2>1. InitialSeq[y] + tcp[y].sent < SEQ
    BY <1>3 DEF TcpInv, Numbers
  <2>2. CASE NewData(x, seg) /\ y = x
    <3>1. tcp'[x].sent = seg.number /\ HasData(seg)
      BY <2>2 DEF NewData, TypeOK
    <3> QED  BY <1>1, <1>3, <2>2, <3>1
  <2>3. CASE ~(NewData(x, seg) /\ y = x)
    <3>1. tcp'[y].sent = tcp[y].sent
      BY <1>1, <1>2, <2>3 DEF Control, DataAgain
    <3> QED  BY <2>1, <3>1
  <2> QED  BY <2>2, <2>3
<1> QED  BY <1>4, <1>5, <1>6, <1>7 DEF TcpInv

\* A hook that returns leaves its connection.
LEMMA ReturnDoes ==
  ASSUME TypeOK, NEW c \in Contexts, Return(c)
  PROVE  LET x == hook[c].seg.conn IN
         /\ hook[c].pc = "return" /\ hook'[c] = Idle /\ hook'[c].pc = "off"
         /\ \A d \in Contexts \ {c} : hook'[d] = hook[d]
         /\ \A y \in Conns : tcp'[y].sent = tcp[y].sent
         /\ \A y \in Conns \ {x} : tcp'[y].state = tcp[y].state
         /\ tcp'[x].state = IF hook[c].seg.out THEN AfterSend(tcp[x].state, hook[c].seg)
                            ELSE AfterReceive(tcp[x].state, hook[c].seg)
         /\ Up(x) /\ x \in Conns
         /\ \A y \in Conns : Up(y)' => Up(y)
         /\ ~Out(c)' /\ ~DataHook(c)'
         /\ \A d \in Contexts \ {c} : Out(d)' = Out(d) /\ DataHook(d)' = DataHook(d)
         /\ UNCHANGED <<flags, resends, resent, history>>
<1> DEFINE x == hook[c].seg.conn
<1>1. hook' = [hook EXCEPT ![c] = Idle] /\ hook[c].pc = "return"
  BY DEF Return, At
<1>2. hook'[c] = Idle /\ hook'[c].pc = "off" /\ \A d \in Contexts \ {c} : hook'[d] = hook[d]
  BY <1>1 DEF TypeOK, Idle
<1>3. x \in Conns /\ c \in Hooked(x)
  BY <1>1 DEF TypeOK, Segments, Hooked, At
<1>4. /\ \A y \in Conns : tcp'[y].sent = tcp[y].sent
      /\ \A y \in Conns \ {x} : tcp'[y].state = tcp[y].state
      /\ tcp'[x].state = IF hook[c].seg.out THEN AfterSend(tcp[x].state, hook[c].seg)
                         ELSE AfterReceive(tcp[x].state, hook[c].seg)
  BY <1>3 DEF Return, TypeOK
<1>5. \A y \in Conns : y # x => Hooked(y)' = Hooked(y)
  BY <1>1, <1>2 DEF Hooked, At
<1>6. \A y \in Conns : Up(y)' => Up(y)
  BY <1>3, <1>4, <1>5 DEF Up
<1>7. ~Out(c)' /\ ~DataHook(c)'
  BY <1>2 DEF Out, DataHook, At
<1>8. \A d \in Contexts \ {c} : Out(d)' = Out(d) /\ DataHook(d)' = DataHook(d)
  BY <1>2 DEF Out, DataHook, At
<1>9. UNCHANGED <<flags, resends, resent, history>>
  BY DEF Return
<1>10. Up(x)
  BY <1>3 DEF Up
<1> QED  BY <1>1, <1>2, <1>3, <1>4, <1>6, <1>7, <1>8, <1>9, <1>10

LEMMA NextTcp == TypeOK /\ EntryInv /\ TcpInv /\ [Next]_vars => TcpInv'
<1> SUFFICES ASSUME TypeOK, EntryInv, TcpInv, [Next]_vars PROVE TcpInv'
  OBVIOUS
<1>1. ASSUME NEW c \in Contexts, Statement(c), ~Return(c) PROVE TcpInv'
  <2>1. Stays(c) /\ Path(c)'
    BY <1>1, StatementPath DEF TcpInv
  <2>2. \A d \in Contexts : Path(d)'
    BY <2>1, StaysUp DEF TcpInv
  <2>3. OneSends'
    BY <2>1, StaysUp DEF TcpInv, OneSends
  <2>4. Exclusive'
    <3>1. crossed' = crossed
      BY <2>1 DEF Stays, history, proc
    <3> QED  BY <2>1, <3>1, StaysUp DEF TcpInv, Exclusive
  <2>5. Numbers'
    BY <2>1 DEF TcpInv, Numbers, Stays, history, proc
  <2> QED  BY <2>2, <2>3, <2>4, <2>5 DEF TcpInv
<1>2. ASSUME NEW c \in Contexts, Return(c) PROVE TcpInv'
  <2>1. /\ hook'[c].pc = "off"
        /\ \A d \in Contexts \ {c} : hook'[d] = hook[d]
        /\ \A y \in Conns : tcp'[y].sent = tcp[y].sent
        /\ \A y \in Conns : Up(y)' => Up(y)
        /\ ~Out(c)' /\ ~DataHook(c)'
        /\ \A d \in Contexts \ {c} : Out(d)' = Out(d) /\ DataHook(d)' = DataHook(d)
        /\ crossed' = crossed /\ wrapped' = wrapped
    BY <1>2, ReturnDoes DEF history, proc
  <2>2. ASSUME NEW d \in Contexts PROVE Path(d)'
    <3>1. CASE d = c
      BY <2>1, <3>1 DEF Path, Counting, PrePoints
    <3>2. CASE d # c
      <4>1. hook[d].seg.conn \in Conns /\ Path(d)
        BY DEF TypeOK, Segments, TcpInv
      <4> QED  BY <2>1, <3>2, <4>1 DEF Path
    <3> QED  BY <3>1, <3>2
  <2>3. OneSends'
    BY <2>1 DEF TcpInv, OneSends
  <2>4. Exclusive' /\ Numbers'
    BY <2>1 DEF TcpInv, Exclusive, Numbers
  <2> QED  BY <2>2, <2>3, <2>4 DEF TcpInv
<1>3. ASSUME UNCHANGED <<hook, tcp, crossed, wrapped>> PROVE TcpInv'
  BY <1>3 DEF TcpInv, Path, OneSends, Exclusive, Numbers, Out, DataHook, At, Up, Hooked
<1>4. ASSUME NEW x \in Conns, LastAck(x) \/ Abort(x) PROVE TcpInv'
  <2>1. /\ UNCHANGED <<hook, crossed, wrapped>>
        /\ \A y \in Conns : tcp'[y].sent = tcp[y].sent
        /\ \A y \in Conns : tcp'[y].state \in {tcp[y].state, "done"}
    BY <1>4 DEF LastAck, Abort, TypeOK, history, proc
  <2>2. \A y \in Conns : Up(y)' => Up(y)
    BY <2>1 DEF Up, Hooked, At
  <2>3. ASSUME NEW d \in Contexts PROVE Path(d)'
    <3>1. hook[d].seg.conn \in Conns /\ Path(d)
      BY DEF TypeOK, Segments, TcpInv
    <3> QED  BY <2>1, <3>1 DEF Path, DataHook, Out, At
  <2>4. OneSends'
    BY <2>1 DEF TcpInv, OneSends, Out, At
  <2>5. Exclusive' /\ Numbers'
    BY <2>1, <2>2 DEF TcpInv, Exclusive, Numbers
  <2> QED  BY <2>3, <2>4, <2>5 DEF TcpInv
<1>5. CASE RemoveOnExit \/ Unregister \/ UNCHANGED vars
  BY <1>3, <1>5 DEF RemoveOnExit, Unregister, vars, history, proc
<1> QED  BY <1>1, <1>2, <1>4, <1>5, EnterTcp DEF Next

-----------------------------------------------------------------------------

\* No two connections have been up at once and no sequence number has wrapped around.
Plain == ~crossed /\ ~wrapped

Number(c) == InitialSeq[hook[c].seg.conn] + hook[c].seg.number

\* The statements before the test of init_sequence, and those that only come after it
\* was turned off for the SYN.
BeforeTest == {"fin_require_on", "payload", "if_connected", "if_init"}
SynPast    == {"payload", "remove", "create", "if_syn_acked", "syn_acked_off",
               "syn_require_off", "connected_on", "return"}

\* A hook on its way to total_collision++ has a retransmission to count, and one that
\* has none will find its segment above last_sequence.
Charged(c) ==
  LET h == hook[c] IN
  /\ h.pc \in BeforeTest /\ HasData(h.seg) =>
       \/ total_collision < resent
       \/ /\ h.seg.number = tcp[h.seg.conn].sent
          /\ flag["init_sequence"] => last_sequence < Number(c)
  /\ h.pc = "compare" => total_collision < resent \/ last_sequence < Number(c)
  /\ h.pc \in {"load", "store"} => total_collision < resent
  /\ h.pc = "store" => h.reg = total_collision
  /\ h.seg.out /\ h.seg.kind = "syn" /\ h.pc \in SynPast => ~flag["init_sequence"]

\* After the SYN, init_sequence stays off until last_sequence is that of the connection.
Synced == {"syn_sent", "acking", "open", "fin_wait", "close_wait", "last_ack"}
Setting(x) == \E c \in Hooked(x) : At(c, "set_last")
Below(x) ==
  tcp[x].state \in Synced /\ flag["init_sequence"] /\ ~Setting(x) =>
    last_sequence <= InitialSeq[x] + tcp[x].sent

CountInv ==
  Plain => /\ total_collision <= resent
           /\ \A c \in Contexts : Charged(c)
           /\ \A x \in Conns : Below(x)

LEMMA InitCount == Init => CountInv
<1> SUFFICES ASSUME Init PROVE CountInv
  OBVIOUS
<1>1. \A c \in Contexts : hook[c].pc = "off"
  BY DEF Init, Idle
<1>2. \A x \in Conns : tcp[x].state = "closed"
  BY DEF Init
<1>3. total_collision = 0 /\ resent = 0
  BY DEF Init
<1> QED  BY <1>1, <1>2, <1>3 DEF CountInv, Charged, Below, Synced, BeforeTest, SynPast

LEMMA OnlyOut ==
  ASSUME TypeOK, TcpInv, ~crossed, NEW c \in Contexts, NEW d \in Contexts, Out(c), Out(d)
  PROVE  c = d
<1>1. hook[c].seg.conn \in Conns /\ hook[d].seg.conn \in Conns
  BY DEF TypeOK, Segments
<1>2. Up(hook[c].seg.conn) /\ Up(hook[d].seg.conn)
  BY DEF Up, Hooked, Out
<1> QED  BY <1>1, <1>2 DEF TcpInv, Exclusive, OneSends

LEMMA ChargedAside ==
  ASSUME EntryInv', NEW d \in Contexts, ~Out(d)'
  PROVE  Charged(d)'
<1>1. hook'[d].pc \in UpToCreate \cup SynPast => hook'[d].pc # "off"
  BY DEF UpToCreate, SynPast
<1>2. hook'[d].pc \notin UpToCreate
  BY <1>1 DEF EntryInv, Out, At
<1>3. ~(hook'[d].seg.out /\ hook'[d].pc \in SynPast)
  BY <1>1 DEF Out, At
<1> QED  BY <1>2, <1>3 DEF Charged, UpToCreate, BeforeTest

\* A statement of c that only c and its connection notice.
LEMMA CountStays ==
  ASSUME TypeOK, TypeOK', EntryInv', TcpInv, CountInv, Plain, NEW c \in Contexts, Stays(c),
         total_collision' <= resent', Charged(c)',
         \/ /\ UNCHANGED <<last_sequence, total_collision>> /\ hook[c].pc # "set_last"
            /\ flag'["init_sequence"] => flag["init_sequence"]
         \/ Out(c) /\ Below(hook[c].seg.conn)'
  PROVE  CountInv'
<1> DEFINE x == hook[c].seg.conn
<1>1. /\ \A d \in Contexts \ {c} : hook'[d] = hook[d]
      /\ hook'[c].seg = hook[c].seg /\ tcp' = tcp /\ resent' = resent
  BY DEF Stays
<1>2. /\ \A y \in Conns : Up(y)' = Up(y) /\ Hooked(y)' = Hooked(y)
      /\ \A d \in Contexts : Out(d)' = Out(d)
      /\ \A d \in Contexts : hook'[d].seg = hook[d].seg
  BY StaysUp
<1>3. CASE /\ UNCHANGED <<last_sequence, total_collision>> /\ hook[c].pc # "set_last"
           /\ flag'["init_sequence"] => flag["init_sequence"]
  <2>1. ASSUME NEW d \in Contexts PROVE Charged(d)'
    <3>1. CASE d = c
      BY <3>1
    <3>2. CASE d # c
      BY <1>1, <1>3, <3>2 DEF CountInv, Charged, Number
    <3> QED  BY <3>1, <3>2
  <2>2. ASSUME NEW y \in Conns PROVE Below(y)'
    <3>1. Setting(y) => Setting(y)'
      BY <1>1, <1>2, <1>3 DEF Setting, Hooked, At
    <3> QED  BY <1>1, <1>3, <3>1 DEF CountInv, Below
  <2> QED  BY <2>1, <2>2 DEF CountInv
<1>4. CASE Out(c) /\ Below(x)'
  <2>1. ASSUME NEW d \in Contexts PROVE Charged(d)'
    <3>1. CASE d = c
      BY <3>1
    <3>2. CASE d # c
      <4>1. ~Out(d)'
        BY <1>2, <1>4, <3>2, OnlyOut DEF Plain
      <4> QED  BY <4>1, ChargedAside
    <3> QED  BY <3>1, <3>2
  <2>2. ASSUME NEW y \in Conns PROVE Below(y)'
    <3>1. CASE y = x
      BY <1>1, <1>4, <3>1 DEF Below, Setting
    <3>2. CASE y # x
      <4>1. Up(x) /\ x \in Conns
        BY <1>4 DEF Up, Hooked, Out, TypeOK, Segments
      <4>2. ~Up(y)
        BY <3>2, <4>1 DEF TcpInv, Exclusive, Plain
      <4>3. tcp[y].state \notin Synced
        BY <4>2 DEF Up, Synced
      <4> QED  BY <1>1, <4>3 DEF Below
    <3> QED  BY <3>1, <3>2
  <2> QED  BY <2>1, <2>2 DEF CountInv
<1> QED  BY <1>3, <1>4

\* The number the module computes is the number of the segment.
LEMMA NumberIs ==
  ASSUME TypeOK, TcpInv, Plain, NEW c \in Contexts, Path(c), DataHook(c)
  PROVE  /\ SequenceOf(c) = Number(c) /\ Number(c) \in Nat /\ Number(c) >= 1
         /\ Number(c) <= InitialSeq[hook[c].seg.conn] + tcp[hook[c].seg.conn].sent
         /\ Before(SequenceOf(c)) = Number(c) - 1
<1> DEFINE x == hook[c].seg.conn
           n == hook[c].seg.number
<1>1. /\ x \in Conns /\ InitialSeq[x] \in Nat /\ n \in Nat /\ tcp[x].sent \in Nat
      /\ SEQ \in Nat \ {0} /\ WORD \in Nat \ {0} /\ SEQ <= WORD
  BY InitialSeqAssumption, SeqAssumption, BoundsAssumption DEF TypeOK, Segments
<1>2. n >= 1 /\ n <= tcp[x].sent
  BY DEF Path
<1>3. InitialSeq[x] + tcp[x].sent < SEQ
  BY <1>1 DEF TcpInv, Numbers, Plain
<1>4. /\ Number(c) = InitialSeq[x] + n /\ Number(c) \in Nat /\ Number(c) >= 1
      /\ Number(c) < SEQ /\ Number(c) <= InitialSeq[x] + tcp[x].sent
  BY <1>1, <1>2, <1>3 DEF Number
<1>5. SequenceOf(c) = Number(c)
  <2>1. SequenceOf(c) = Number(c) % SEQ
    BY DEF SequenceOf, Sequence, Number
  <2> QED  BY <1>1, <1>4, <2>1
<1>6. Before(SequenceOf(c)) = Number(c) - 1
  BY <1>1, <1>4, <1>5 DEF Before
<1> QED  BY <1>4, <1>5, <1>6

\* The next statement of c, as a hook.
LEMMA CountStatement ==
  ASSUME TypeOK, TypeOK', EntryInv, EntryInv', TcpInv, CountInv, Plain, NEW c \in Contexts,
         Statement(c), ~Return(c)
  PROVE  CountInv'
<1> DEFINE h == hook[c]
           p == hook[c].pc
           q == hook'[c].pc
           x == hook[c].seg.conn
<1>1. Path(c) /\ Charged(c) /\ Stays(c) /\ total_collision <= resent
  BY StatementPath DEF TcpInv, CountInv
<1>2. /\ hook'[c].seg = h.seg /\ tcp' = tcp /\ resent' = resent /\ p # "off"
      /\ \A d \in Contexts \ {c} : hook'[d] = hook[d]
  BY <1>1 DEF Stays
<1>3. /\ total_collision \in Nat /\ resent \in Nat /\ last_sequence \in Nat /\ h.reg \in Nat
      /\ x \in Conns /\ tcp[x].sent \in Nat /\ flag["init_sequence"] \in BOOLEAN
      /\ flag \in [Flags -> BOOLEAN] /\ "init_sequence" \in Flags
  BY SeqAssumption, BoundsAssumption DEF TypeOK, Segments, Flags
<1>4. p \in UpToCreate => Out(c)
  BY <1>2 DEF EntryInv, Out, At
<1>5. ASSUME UNCHANGED <<last_sequence, total_collision>>, Charged(c)', p # "set_last",
             flag'["init_sequence"] => flag["init_sequence"]
      PROVE  CountInv'
  BY <1>1, <1>2, <1>5, CountStays
<1>6. ASSUME Out(c), Charged(c)', Below(x)', total_collision' <= resent
      PROVE  CountInv'
  BY <1>1, <1>2, <1>6, CountStays
<1>7. CASE Assign(c)
  <2>1. /\ p \in DOMAIN Assigns /\ q = Assigns[p].then /\ AssignsFrom(p) /\ AssignsRow(p)
        /\ flag' = [flag EXCEPT ![Assigns[p].flag] = Assigns[p].is]
        /\ UNCHANGED <<last_sequence, total_collision>>
    BY <1>7, AssignsTable, AssignsFromTable, GotoMoves DEF Assign
  <2>2. CASE p = "init_sequence_on"
    <3>1. q = "set_last"
      BY <2>1, <2>2 DEF Assigns
    <3>2. Out(c) /\ c \in Hooked(x)
      BY <1>2, <1>4, <2>2 DEF UpToCreate, Hooked, At
    <3>3. Setting(x)'
      BY <1>2, <3>1, <3>2 DEF Setting, Hooked, At
    <3>4. Below(x)'
      BY <1>2, <3>3 DEF Below, Setting
    <3>5. Charged(c)'
      BY <3>1 DEF Charged, BeforeTest, SynPast
    <3> QED  BY <1>1, <1>6, <2>1, <3>2, <3>4, <3>5
  <2>3. CASE p # "init_sequence_on"
    <3>1. flag'["init_sequence"] => flag["init_sequence"]
      BY <1>3, <2>1, <2>3 DEF AssignsFrom
    <3>2. p # "set_last" /\ q \notin {"if_connected", "if_init", "compare", "load", "store", "fin_require_on"}
      BY <2>1, <2>3, AssignsDomain DEF AssignsFrom, Counting
    <3>3. q = "payload" /\ HasData(h.seg) =>
            \/ total_collision < resent
            \/ /\ h.seg.number = tcp[x].sent
               /\ flag["init_sequence"] => last_sequence < Number(c)
      <4>1. q = "payload" /\ HasData(h.seg) => p = "fin_require_on"
        BY <1>1, <2>1 DEF AssignsFrom, Path, HasData
      <4> QED  BY <1>1, <4>1 DEF Charged, BeforeTest
    <3>4. h.seg.out /\ h.seg.kind = "syn" /\ q \in SynPast => ~flag'["init_sequence"]
      <4>1. CASE p = "init_sequence_off"
        BY <1>3, <2>1, <4>1 DEF AssignsFrom
      <4>2. CASE p # "init_sequence_off"
        <5>1. h.seg.out /\ h.seg.kind = "syn" => p \in SynPast \cup {"syn_require_on"}
          BY <1>1, <2>1, <2>3, <4>2, AssignsDomain DEF Path, PrePoints, SynPast, HasFin
        <5>2. p = "syn_require_on" => q = "init_sequence_off"
          BY <2>1 DEF Assigns
        <5> QED  BY <1>1, <3>1, <5>1, <5>2 DEF Charged, SynPast
      <4> QED  BY <4>1, <4>2
    <3>5. Charged(c)'
      BY <1>2, <2>1, <3>1, <3>2, <3>3, <3>4 DEF Charged, BeforeTest, Number
    <3> QED  BY <1>5, <2>1, <3>1, <3>2, <3>5
  <2> QED  BY <2>2, <2>3
<1>8. CASE Test(c)
  <2>1. /\ p \in DOMAIN Tests /\ q \in {Tests[p].yes, Tests[p].no} /\ TestsFrom(p)
        /\ q = IF flag[Tests[p].flag] THEN Tests[p].yes ELSE Tests[p].no
        /\ UNCHANGED <<flag, last_sequence, total_collision>>
    <3>1. q = IF flag[Tests[p].flag] THEN Tests[p].yes ELSE Tests[p].no
      BY <1>8, GotoMoves DEF Test
    <3> QED  BY <1>8, <3>1, TestsFromTable DEF Test, flags
  <2>2. p # "set_last" /\ q \notin {"payload", "if_connected", "load", "store", "fin_require_on"}
    BY <2>1, TestsDomain DEF TestsFrom
  <2>3. q \in {"compare", "if_init"} => HasData(h.seg) /\ p \in BeforeTest
    <3>1. q \in {"compare", "if_init"} => p \in {"if_connected", "if_init"}
      BY <2>1 DEF TestsFrom, Counting
    <3> QED  BY <1>1, <3>1 DEF Path, Counting, BeforeTest
  <2>4. q = "compare" => flag["init_sequence"]
    BY <1>3, <2>1, TestsFromTable DEF TestsFrom
  <2>5. h.seg.out /\ h.seg.kind = "syn" /\ q \in SynPast => p \in SynPast
    BY <1>1, <2>1, TestsDomain DEF Path, PrePoints, Counting, HasData, SynPast
  <2>6. Charged(c)'
    BY <1>1, <1>2, <2>1, <2>2, <2>3, <2>4, <2>5 DEF Charged, BeforeTest, Number
  <2> QED  BY <1>5, <2>1, <2>2, <2>6
<1>9. CASE Payload(c)
  <2>1. /\ p = "payload" /\ q \in {"if_connected", "remove"}
        /\ UNCHANGED <<flag, last_sequence, total_collision>>
    <3>1. PICK r \in {"if_connected", "remove"} : Goto(c, r)
      BY <1>9 DEF Payload
    <3> QED  BY <1>9, <3>1, GotoMoves DEF Payload, At, flags
  <2>2. Charged(c)'
    BY <1>1, <1>2, <2>1 DEF Charged, BeforeTest, Number, SynPast
  <2> QED  BY <1>5, <2>1, <2>2
<1>10. CASE SetLast(c)
  <2>1. /\ p = "set_last" /\ q = "compare" /\ last_sequence' = Before(SequenceOf(c))
        /\ UNCHANGED <<flag, total_collision>>
    BY <1>10, GotoMoves DEF SetLast, At
  <2>2. Out(c) /\ DataHook(c)
    BY <1>1, <1>4, <2>1 DEF UpToCreate, Path, Counting, DataHook
  <2>3. /\ last_sequence' = Number(c) - 1 /\ Number(c) \in Nat
        /\ Number(c) <= InitialSeq[x] + tcp[x].sent
    BY <1>1, <2>1, <2>2, NumberIs
  <2>4. Below(x)'
    BY <1>2, <1>3, <2>3, InitialSeqAssumption DEF Below
  <2>5. Charged(c)'
    BY <1>2, <2>1, <2>3 DEF Charged, BeforeTest, Number, SynPast
  <2> QED  BY <1>1, <1>6, <2>1, <2>2, <2>4, <2>5
<1>11. CASE Compare(c)
  <2>1. /\ p = "compare" /\ q = (IF Collided(SequenceOf(c)) THEN "load" ELSE "advance")
        /\ UNCHANGED <<flag, last_sequence, total_collision>>
    BY <1>11, GotoMoves DEF Compare, At, flags
  <2>2. DataHook(c)
    BY <1>1, <1>4, <2>1 DEF UpToCreate, Path, Counting, DataHook
  <2>3. SequenceOf(c) = Number(c) /\ Number(c) \in Nat
    BY <1>1, <2>2, NumberIs
  <2>4. q = "load" => total_collision < resent
    BY <1>1, <1>3, <2>1, <2>3 DEF Charged, Collided
  <2>5. Charged(c)'
    BY <1>2, <2>1, <2>4 DEF Charged, BeforeTest, Number, SynPast
  <2> QED  BY <1>5, <2>1, <2>5
<1>12. CASE Load(c)
  <2>1. /\ p = "load" /\ q = "store" /\ hook'[c].reg = total_collision
        /\ UNCHANGED <<flag, last_sequence, total_collision>>
    BY <1>12 DEF Load, At, flags, TypeOK
  <2>2. Charged(c)'
    BY <1>1, <1>2, <2>1 DEF Charged, BeforeTest, Number, SynPast
  <2> QED  BY <1>5, <2>1, <2>2
<1>13. CASE Store(c)
  <2>1. /\ p = "store" /\ q = "remove" /\ total_collision' = (h.reg + 1) % SEQ
        /\ UNCHANGED <<flag, last_sequence>>
    <3>1. hook' = [hook EXCEPT ![c] = [hook[c] EXCEPT !.pc = "remove", !.reg = 0]]
      BY <1>13 DEF Store
    <3>2. hook[c] \in HookType /\ hook \in [Contexts -> HookType]
      BY DEF TypeOK, HookType
    <3>3. q = "remove"
      BY <3>1, <3>2 DEF HookType
    <3> QED  BY <1>13, <3>3 DEF Store, At
  <2>2. total_collision < resent /\ h.reg = total_collision
    BY <1>1, <2>1 DEF Charged
  <2>3. total_collision' <= resent
    <3>1. (h.reg + 1) % SEQ <= h.reg + 1
      BY <1>3, SeqAssumption
    <3>2. (h.reg + 1) % SEQ \in Nat
      BY <1>3, SeqAssumption
    <3> QED  BY <1>3, <2>1, <2>2, <3>1, <3>2
  <2>4. Out(c) /\ HasData(h.seg)
    BY <1>1, <1>4, <2>1 DEF UpToCreate, Path, Counting
  <2>5. Below(x)'
    <3>1. Setting(x) => Setting(x)'
      BY <1>2, <2>1 DEF Setting, Hooked, At
    <3>2. Below(x)
      BY <1>3 DEF CountInv
    <3> QED  BY <1>2, <2>1, <3>1, <3>2 DEF Below, Setting
  <2>6. Charged(c)'
    BY <1>2, <2>1, <2>4 DEF Charged, BeforeTest, HasData
  <2> QED  BY <1>6, <2>3, <2>4, <2>5, <2>6
<1>14. CASE Advance(c)
  <2>1. /\ p = "advance" /\ q = "remove" /\ last_sequence' = SequenceOf(c)
        /\ UNCHANGED <<flag, total_collision>>
    BY <1>14, GotoMoves DEF Advance, At
  <2>2. Out(c) /\ DataHook(c)
    BY <1>1, <1>4, <2>1 DEF UpToCreate, Path, Counting, DataHook
  <2>3. last_sequence' = Number(c) /\ Number(c) <= InitialSeq[x] + tcp[x].sent
    BY <1>1, <2>1, <2>2, NumberIs
  <2>4. Below(x)'
    BY <1>2, <2>3 DEF Below
  <2>5. Charged(c)'
    BY <1>2, <2>1, <2>2 DEF Charged, BeforeTest, HasData, DataHook
  <2> QED  BY <1>1, <1>6, <2>1, <2>2, <2>4, <2>5
<1>15. CASE RemoveEntry(c) \/ CreateEntry(c)
  <2>1. /\ p \in {"remove", "create"} /\ q \in {"create", "if_syn_acked"}
        /\ UNCHANGED <<flag, last_sequence, total_collision>>
    BY <1>15, GotoMoves DEF RemoveEntry, CreateEntry, At, flags
  <2>2. Charged(c)'
    BY <1>1, <1>2, <2>1 DEF Charged, BeforeTest, SynPast
  <2> QED  BY <1>5, <2>1, <2>2
<1> QED
  BY <1>7, <1>8, <1>9, <1>10, <1>11, <1>12, <1>13, <1>14, <1>15 DEF Statement

LEMMA CountEnter ==
  ASSUME TypeOK, TypeOK', EntryInv, EntryInv', TcpInv, CountInv, Plain',
         NEW c \in Contexts, NEW x \in Conns,
         SendControl(c, x) \/ SendData(c, x) \/ Resend(c, x)
           \/ ReceiveControl(c, x) \/ ReceiveAgain(c, x)
  PROVE  CountInv'
<1>1. PICK seg \in Segments :
        /\ Enter(c, seg) /\ seg.conn = x /\ (seg.out => ~Sending(x))
        /\ Control(x, seg) \/ NewData(x, seg) \/ DataAgain(x, seg)
  BY TcpDoes
<1>2. \A y \in Conns : /\ tcp'[y].state = tcp[y].state
                       /\ tcp[y].sent \in Nat /\ InitialSeq[y] \in Nat
                       /\ tcp'[y].sent \in Nat /\ tcp'[y].sent >= tcp[y].sent
                       /\ y # x => tcp'[y].sent = tcp[y].sent
  BY <1>1, InitialSeqAssumption, BoundsAssumption DEF Control, NewData, DataAgain, TypeOK
<1>3. /\ hook[c].pc = "off" /\ hook'[c].pc = Entry(seg) /\ hook'[c].seg = seg
      /\ hook'[c].pc # "off"
      /\ \A d \in Contexts \ {c} : hook'[d] = hook[d]
      /\ \A d \in Contexts \ {c} : Out(d)' = Out(d)
      /\ ~Out(c) /\ (Out(c)' = seg.out)
      /\ ~crossed' => ~crossed /\ \A y \in Conns : Up(y) => y = x
      /\ ~wrapped' => ~wrapped
      /\ UNCHANGED <<flag, last_sequence, total_collision>>
  BY <1>1, <1>2, EnterDoes DEF flags
<1>4. Plain /\ resent' \in {resent, resent + 1}
  BY <1>1, <1>3 DEF Plain, Control, NewData, DataAgain
<1>5. /\ total_collision \in Nat /\ resent \in Nat /\ last_sequence \in Nat
      /\ flag["init_sequence"] \in BOOLEAN
  BY SeqAssumption, BoundsAssumption DEF TypeOK, Flags
<1>6. total_collision' <= resent' /\ (total_collision < resent => total_collision' < resent')
  BY <1>3, <1>4, <1>5 DEF CountInv
<1>7. \A d \in Contexts : Out(d) => hook[d].seg.conn = x
  BY <1>3, <1>4 DEF Plain, Up, Hooked, Out, TypeOK, Segments
<1>8. ASSUME NEW d \in Contexts, d # c PROVE Charged(d)'
  <2>1. CASE ~Out(d)
    <3>1. ~Out(d)'
      BY <1>3, <1>8, <2>1
    <3> QED  BY <3>1, ChargedAside
  <2>2. CASE Out(d)
    <3>1. ~seg.out
      BY <1>1, <1>7, <2>2 DEF Sending, Hooked, Out
    <3>2. Control(x, seg)
      BY <1>1, <3>1 DEF NewData, DataAgain
    <3>3. tcp' = tcp /\ resent' = resent
      BY <3>2 DEF Control
    <3> QED  BY <1>3, <1>4, <1>8, <3>3 DEF CountInv, Charged, Number
  <2> QED  BY <2>1, <2>2
<1>9. ASSUME NEW y \in Conns PROVE Below(y)'
  <2>1. Setting(y) => Setting(y)'
    BY <1>3 DEF Setting, Hooked, At
  <2>2. Below(y)
    BY <1>4 DEF CountInv
  <2> QED  BY <1>2, <1>3, <1>5, <2>1, <2>2 DEF Below
<1>10. Charged(c)'
  <2> DEFINE q == hook'[c].pc
  <2>1. /\ q \in {"syn_require_on", "fin_require_on", "payload", "if_syn_require",
                  "if_fin_require", "return"}
        /\ q \in {"payload", "return"} => ~(seg.out /\ seg.kind = "syn")
    BY <1>3, EntryIs
  <2>2. /\ q \notin {"compare", "load", "store"}
        /\ ~(q \in SynPast /\ seg.out /\ seg.kind = "syn")
    BY <2>1 DEF SynPast
  <2>3. HasData(seg) /\ q \in BeforeTest =>
          \/ total_collision' < resent'
          \/ /\ seg.number = tcp'[x].sent
             /\ flag'["init_sequence"] => last_sequence' < Number(c)'
    <3>1. CASE Control(x, seg)
      BY <3>1 DEF Control
    <3>2. CASE DataAgain(x, seg)
      BY <1>3, <1>4, <1>5, <3>2 DEF DataAgain, CountInv
    <3>3. CASE NewData(x, seg)
      <4>1. seg.number = tcp'[x].sent /\ tcp'[x].sent = tcp[x].sent + 1
        BY <3>3 DEF NewData, TypeOK
      <4>2. ~Setting(x)
        <5>1. ~\E d \in Contexts : Out(d) /\ hook[d].seg.conn = x
          BY <1>1, <3>3 DEF NewData, Sending, Hooked, Out
        <5>2. \A d \in Contexts : hook[d].pc = "set_last" => Out(d)
          BY <1>4, ChargedAside, <1>3 DEF EntryInv, UpToCreate, Out, At
        <5> QED  BY <5>1, <5>2 DEF Setting, Hooked, At
      <4>3. flag["init_sequence"] => last_sequence <= InitialSeq[x] + tcp[x].sent
        BY <1>4, <3>3, <4>2 DEF CountInv, Below, NewData, Synced
      <4>4. Number(c)' = InitialSeq[x] + (tcp[x].sent + 1)
        BY <1>1, <1>3, <4>1 DEF Number
      <4>5. InitialSeq[x] \in Nat /\ tcp[x].sent \in Nat
        BY <1>2
      <4> QED  BY <1>3, <1>5, <4>1, <4>3, <4>4, <4>5
    <3> QED  BY <1>1, <3>1, <3>2, <3>3
  <2> QED  BY <1>1, <1>3, <2>2, <2>3 DEF Charged
<1> QED  BY <1>6, <1>8, <1>9, <1>10 DEF CountInv

LEMMA CountReturn ==
  ASSUME TypeOK, TypeOK', EntryInv', TcpInv, CountInv, Plain, NEW c \in Contexts, Return(c)
  PROVE  CountInv'
<1> DEFINE h == hook[c]
           x == hook[c].seg.conn
<1>1. /\ h.pc = "return" /\ hook'[c].pc = "off"
      /\ \A d \in Contexts \ {c} : hook'[d] = hook[d]
      /\ \A y \in Conns : tcp'[y].sent = tcp[y].sent
      /\ \A y \in Conns \ {x} : tcp'[y].state = tcp[y].state
      /\ tcp'[x].state = IF h.seg.out THEN AfterSend(tcp[x].state, h.seg)
                         ELSE AfterReceive(tcp[x].state, h.seg)
      /\ x \in Conns /\ ~Out(c)'
      /\ UNCHANGED <<flag, last_sequence, total_collision, resent>>
  BY ReturnDoes DEF flags
<1>2. ASSUME NEW d \in Contexts PROVE Charged(d)'
  <2>1. CASE d = c
    BY <1>1, <2>1, ChargedAside
  <2>2. CASE d # c
    <3>1. hook[d].seg.conn \in Conns
      BY DEF TypeOK, Segments
    <3> QED  BY <1>1, <2>2, <3>1 DEF CountInv, Charged, Number
  <2> QED  BY <2>1, <2>2
<1>3. ASSUME NEW y \in Conns PROVE Below(y)'
  <2>1. Setting(y) => Setting(y)'
    BY <1>1 DEF Setting, Hooked, At
  <2>2. Below(y)
    BY DEF CountInv
  <2>3. CASE tcp'[y].state = tcp[y].state \/ tcp[y].state \in Synced
    BY <1>1, <2>1, <2>2, <2>3 DEF Below
  <2>4. CASE tcp'[y].state # tcp[y].state /\ tcp[y].state \notin Synced
    <3>1. y = x
      BY <1>1, <2>4
    <3>2. (h.seg.kind = "syn" /\ h.seg.out) \/ tcp'[y].state \notin Synced
      <4>1. h.seg.out \in BOOLEAN
        BY DEF TypeOK, Segments
      <4>2. CASE h.seg.out
        BY <1>1, <2>4, <3>1, <4>2 DEF AfterSend, Synced
      <4>3. CASE ~h.seg.out
        BY <1>1, <2>4, <3>1, <4>3 DEF AfterReceive, Synced
      <4> QED  BY <4>1, <4>2, <4>3
    <3>3. h.seg.kind = "syn" /\ h.seg.out => ~flag["init_sequence"]
      BY <1>1 DEF CountInv, Charged, SynPast
    <3> QED  BY <1>1, <3>2, <3>3 DEF Below
  <2> QED  BY <2>3, <2>4
<1> QED  BY <1>1, <1>2, <1>3 DEF CountInv

LEMMA NextCount ==
  TypeOK /\ TypeOK' /\ EntryInv /\ EntryInv' /\ TcpInv /\ CountInv /\ [Next]_vars => CountInv'
<1> SUFFICES ASSUME TypeOK, TypeOK', EntryInv, EntryInv', TcpInv, CountInv, [Next]_vars, Plain'
             PROVE  CountInv'
  BY DEF CountInv
<1>1. ASSUME NEW c \in Contexts, Statement(c) PROVE CountInv'
  <2>1. Plain
    <3>1. CASE Return(c)
      BY <3>1, ReturnDoes DEF Plain, history, proc
    <3>2. CASE ~Return(c)
      BY <1>1, <3>2, StatementPath DEF Plain, Stays, history, proc, TcpInv
    <3> QED  BY <3>1, <3>2
  <2> QED  BY <1>1, <2>1, CountStatement, CountReturn
<1>2. ASSUME UNCHANGED <<flag, last_sequence, total_collision, resent, hook, tcp, crossed, wrapped>>
      PROVE  CountInv'
  BY <1>2 DEF CountInv, Plain, Charged, Number, Below, Setting, Hooked, At
<1>3. ASSUME NEW x \in Conns, LastAck(x) \/ Abort(x) PROVE CountInv'
  <2>1. /\ UNCHANGED <<flag, last_sequence, total_collision, resent, hook, crossed, wrapped>>
        /\ \A y \in Conns : tcp'[y].sent = tcp[y].sent
        /\ \A y \in Conns : tcp'[y].state \in {tcp[y].state, "done"}
    BY <1>3 DEF LastAck, Abort, TypeOK, history, proc, flags
  <2>2. \A d \in Contexts : hook[d].seg.conn \in Conns
    BY DEF TypeOK, Segments
  <2>3. \A d \in Contexts : Charged(d)'
    BY <2>1, <2>2 DEF CountInv, Plain, Charged, Number
  <2>4. \A y \in Conns : Below(y)'
    BY <2>1 DEF CountInv, Plain, Below, Synced, Setting, Hooked, At
  <2> QED  BY <2>1, <2>3, <2>4 DEF CountInv, Plain
<1>4. CASE RemoveOnExit \/ Unregister \/ UNCHANGED vars
  BY <1>2, <1>4 DEF RemoveOnExit, Unregister, vars, history, proc, flags
<1> QED  BY <1>1, <1>3, <1>4, CountEnter DEF Next

\* As long as connections do not cross and no sequence number wraps around, whatever hooks
\* race on whatever processors and whoever opens and closes, nothing is counted as a
\* collision that was not a retransmission.
THEOREM NothingInvented == Spec => []NeverOvercounts
<1>1. CountInv => NeverOvercounts
  BY DEF CountInv, Plain, NeverOvercounts
<1>2. Spec => [](TypeOK /\ Counted /\ EntryInv /\ TcpInv /\ CountInv)
  BY InitType, NextType, InitEntry, NextEntry, InitTcp, NextTcp, InitCount, NextCount, PTL DEF Spec
<1> QED  BY <1>1, <1>2, PTL

-----------------------------------------------------------------------------
(***************************************************************************)
(* What is missed.  When hooks run one at a time, connections follow one   *)
(* another and the terminal opens and closes them, the flags are at every  *)
(* statement of a hook what the state of its connection makes them, and    *)
(* the counter is resent or, inside the hook of a segment sent again, one  *)
(* behind it.                                                              *)
(***************************************************************************)

\* What a statement does, by the point the hook stands at: it assigns a bool, or goes on.
Makes(c, p, b, v, q) ==
  hook[c].pc = p => /\ hook'[c].pc = q
                    /\ \A f \in Flags : flag'[f] = (IF f = b THEN v ELSE flag[f])
Goes(c, p, q) == hook[c].pc = p => hook'[c].pc = q /\ flag' = flag

Assignments(c) ==
  /\ Makes(c, "syn_require_on", "syn_require", TRUE, "init_sequence_off")
  /\ Makes(c, "init_sequence_off", "init_sequence", FALSE, "payload")
  /\ Makes(c, "fin_require_on", "fin_require", TRUE, "payload")
  /\ Makes(c, "init_sequence_on", "init_sequence", TRUE, "set_last")
  /\ Makes(c, "syn_acked_off", "syn_acked", FALSE, "syn_require_off")
  /\ Makes(c, "syn_require_off", "syn_require", FALSE, "connected_on")
  /\ Makes(c, "connected_on", "connected", TRUE, "return")
  /\ Makes(c, "syn_acked_on", "syn_acked", TRUE, "return")
  /\ Makes(c, "fin_require_off", "fin_require", FALSE, "connected_off")
  /\ Makes(c, "connected_off", "connected", FALSE, "forget_sequence")
  /\ Makes(c, "forget_sequence", "init_sequence", FALSE, "return")

Conditions(c) ==
  /\ Goes(c, "if_connected", IF flag["connected"] THEN "if_init" ELSE "remove")
  /\ Goes(c, "if_init", IF flag["init_sequence"] THEN "compare" ELSE "init_sequence_on")
  /\ Goes(c, "if_syn_acked", IF flag["syn_acked"] THEN "syn_acked_off" ELSE "return")
  /\ Goes(c, "if_syn_require", IF flag["syn_require"] THEN "syn_acked_on" ELSE "return")
  /\ Goes(c, "if_fin_require", IF flag["fin_require"] THEN "fin_require_off" ELSE "return")

Others(c) ==
  /\ Goes(c, "payload", IF HasData(hook[c].seg) THEN "if_connected" ELSE "remove")
  /\ Goes(c, "set_last", "compare")
  /\ Goes(c, "compare", IF Collided(SequenceOf(c)) THEN "load" ELSE "advance")
  /\ Goes(c, "load", "store")
  /\ Goes(c, "store", "remove")
  /\ Goes(c, "advance", "remove")
  /\ Goes(c, "remove", "create")
  /\ Goes(c, "create", "if_syn_acked")

\* What it does to the counter.
Counts(c) ==
  LET p == hook[c].pc IN
  /\ last_sequence' = CASE p = "set_last" -> Before(SequenceOf(c))
                        [] p = "advance"  -> SequenceOf(c)
                        [] OTHER          -> last_sequence
  /\ total_collision' = IF p = "store" THEN (hook[c].reg + 1) % SEQ ELSE total_collision
  /\ p = "load" => hook'[c].reg = total_collision

LEMMA AssignIs ==
  ASSUME TypeOK, NEW c \in Contexts, Assign(c)
  PROVE  Assignments(c) /\ Conditions(c) /\ Others(c) /\ Counts(c)
<1> DEFINE p == hook[c].pc
<1>1. /\ p \in DOMAIN Assigns /\ hook'[c].pc = Assigns[p].then
      /\ flag' = [flag EXCEPT ![Assigns[p].flag] = Assigns[p].is]
      /\ UNCHANGED <<last_sequence, total_collision>>
  BY GotoMoves DEF Assign
<1>2. p \notin DOMAIN Tests \cup {"payload", "set_last", "compare", "load", "store", "advance",
                                  "remove", "create"}
  BY <1>1, AssignsDomain, TestsDomain
<1>3. ASSUME NEW r \in DOMAIN Assigns PROVE Makes(c, r, Assigns[r].flag, Assigns[r].is, Assigns[r].then)
  <2>1. flag \in [Flags -> BOOLEAN]
    BY DEF TypeOK
  <2> QED  BY <1>1, <2>1 DEF Makes
<1>4. Assignments(c)
  <2>1. /\ Makes(c, "syn_require_on", "syn_require", TRUE, "init_sequence_off")
        /\ Makes(c, "init_sequence_off", "init_sequence", FALSE, "payload")
    BY <1>3, AssignsDomain DEF Assigns
  <2>2. /\ Makes(c, "fin_require_on", "fin_require", TRUE, "payload")
        /\ Makes(c, "init_sequence_on", "init_sequence", TRUE, "set_last")
    BY <1>3, AssignsDomain DEF Assigns
  <2>3. /\ Makes(c, "syn_acked_off", "syn_acked", FALSE, "syn_require_off")
        /\ Makes(c, "syn_require_off", "syn_require", FALSE, "connected_on")
    BY <1>3, AssignsDomain DEF Assigns
  <2>4. /\ Makes(c, "connected_on", "connected", TRUE, "return")
        /\ Makes(c, "syn_acked_on", "syn_acked", TRUE, "return")
    BY <1>3, AssignsDomain DEF Assigns
  <2>5. /\ Makes(c, "fin_require_off", "fin_require", FALSE, "connected_off")
        /\ Makes(c, "connected_off", "connected", FALSE, "forget_sequence")
    BY <1>3, AssignsDomain DEF Assigns
  <2>6. Makes(c, "forget_sequence", "init_sequence", FALSE, "return")
    BY <1>3, AssignsDomain DEF Assigns
  <2> QED  BY <2>1, <2>2, <2>3, <2>4, <2>5, <2>6 DEF Assignments
<1>5. Conditions(c) /\ Others(c)
  BY <1>2, TestsDomain DEF Conditions, Others, Goes
<1>6. Counts(c)
  BY <1>1, <1>2 DEF Counts
<1> QED  BY <1>4, <1>5, <1>6

LEMMA TestIs ==
  ASSUME TypeOK, NEW c \in Contexts, Test(c)
  PROVE  Assignments(c) /\ Conditions(c) /\ Others(c) /\ Counts(c)
<1> DEFINE p == hook[c].pc
<1>1. /\ p \in DOMAIN Tests
      /\ hook'[c].pc = IF flag[Tests[p].flag] THEN Tests[p].yes ELSE Tests[p].no
      /\ UNCHANGED <<flag, last_sequence, total_collision>>
  BY GotoMoves DEF Test, flags
<1>2. p \notin DOMAIN Assigns \cup {"payload", "set_last", "compare", "load", "store", "advance",
                                    "remove", "create"}
  BY <1>1, AssignsDomain, TestsDomain
<1>3. ASSUME NEW r \in DOMAIN Tests
      PROVE  Goes(c, r, IF flag[Tests[r].flag] THEN Tests[r].yes ELSE Tests[r].no)
  BY <1>1 DEF Goes
<1>4. Conditions(c)
  <2>1. Goes(c, "if_connected", IF flag["connected"] THEN "if_init" ELSE "remove")
    BY <1>3, TestsDomain DEF Tests
  <2>2. Goes(c, "if_init", IF flag["init_sequence"] THEN "compare" ELSE "init_sequence_on")
    BY <1>3, TestsDomain DEF Tests
  <2>3. Goes(c, "if_syn_acked", IF flag["syn_acked"] THEN "syn_acked_off" ELSE "return")
    BY <1>3, TestsDomain DEF Tests
  <2>4. Goes(c, "if_syn_require", IF flag["syn_require"] THEN "syn_acked_on" ELSE "return")
    BY <1>3, TestsDomain DEF Tests
  <2>5. Goes(c, "if_fin_require", IF flag["fin_require"] THEN "fin_require_off" ELSE "return")
    BY <1>3, TestsDomain DEF Tests
  <2> QED  BY <2>1, <2>2, <2>3, <2>4, <2>5 DEF Conditions
<1>5. Assignments(c) /\ Others(c)
  BY <1>2, AssignsDomain DEF Assignments, Others, Goes, Makes
<1>6. Counts(c)
  BY <1>1, <1>2, TestsDomain DEF Counts
<1> QED  BY <1>4, <1>5, <1>6

\* Every statement but the return does what its point says.
LEMMA StatementIs ==
  ASSUME TypeOK, NEW c \in Contexts, Statement(c), ~Return(c)
  PROVE  /\ Assignments(c) /\ Conditions(c) /\ Others(c) /\ Counts(c)
         /\ hook[c].pc # "return"
<1> DEFINE p == hook[c].pc
<1>1. ASSUME p \in {"payload", "set_last", "compare", "load", "store", "advance", "remove", "create"}
      PROVE  Assignments(c) /\ Conditions(c) /\ p # "return"
  BY <1>1, AssignsDomain, TestsDomain DEF Assignments, Conditions, Goes, Makes
<1>2. CASE Assign(c)
  BY <1>2, AssignIs, AssignsDomain DEF Assign
<1>3. CASE Test(c)
  BY <1>3, TestIs, TestsDomain DEF Test
<1>4. CASE Payload(c)
  BY <1>1, <1>4, GotoMoves DEF Payload, At, Others, Goes, Counts, flags
<1>5. CASE SetLast(c)
  BY <1>1, <1>5, GotoMoves DEF SetLast, At, Others, Goes, Counts, flags
<1>6. CASE Compare(c)
  BY <1>1, <1>6, GotoMoves DEF Compare, At, Others, Goes, Counts, flags
<1>7. CASE Load(c)
  <2>1. hook' = [hook EXCEPT ![c] = [hook[c] EXCEPT !.pc = "store", !.reg = total_collision]]
    BY <1>7 DEF Load
  <2>2. hook[c] \in HookType /\ hook \in [Contexts -> HookType]
    BY DEF TypeOK, HookType
  <2>3. hook'[c].pc = "store" /\ hook'[c].reg = total_collision
    BY <2>1, <2>2 DEF HookType
  <2> QED  BY <1>1, <1>7, <2>3 DEF Load, At, Others, Goes, Counts, flags
<1>8. CASE Store(c)
  <2>1. hook' = [hook EXCEPT ![c] = [hook[c] EXCEPT !.pc = "remove", !.reg = 0]]
    BY <1>8 DEF Store
  <2>2. hook[c] \in HookType /\ hook \in [Contexts -> HookType]
    BY DEF TypeOK, HookType
  <2>3. hook'[c].pc = "remove"
    BY <2>1, <2>2 DEF HookType
  <2> QED  BY <1>1, <1>8, <2>3 DEF Store, At, Others, Goes, Counts, flags
<1>9. CASE Advance(c)
  BY <1>1, <1>9, GotoMoves DEF Advance, At, Others, Goes, Counts, flags
<1>10. CASE RemoveEntry(c) \/ CreateEntry(c)
  BY <1>1, <1>10, GotoMoves DEF RemoveEntry, CreateEntry, At, Others, Goes, Counts, flags
<1> QED  BY <1>2, <1>3, <1>4, <1>5, <1>6, <1>7, <1>8, <1>9, <1>10 DEF Statement

\* The states of TCP in which a connection the terminal opened carries data, and those
\* it goes through.
OnLine  == {"open", "fin_wait"}
OwnWay  == {"closed", "syn_sent", "acking", "open", "fin_wait", "done"}
InTurn  == ~crossed /\ ~overlap /\ ~passive /\ ~aborted
HasSent(x) == tcp[x].state \in OnLine /\ tcp[x].sent > 0

\* The flags say where the connection is.
Agrees(x) ==
  /\ flag["syn_require"]   <=> tcp[x].state \in {"syn_sent", "acking"}
  /\ flag["syn_acked"]     <=> tcp[x].state = "acking"
  /\ flag["connected"]     <=> tcp[x].state \in OnLine
  /\ flag["fin_require"]   <=> tcp[x].state = "fin_wait"
  /\ flag["init_sequence"] <=> HasSent(x)

\* The flags inside a hook: of a SYN sent, of the ACK of the peer's SYN, of a segment of
\* an open connection, of the peer's SYN-ACK, of its FIN.
State(c) == tcp[hook[c].seg.conn].state

OfSyn(c) ==
  LET p == hook[c].pc IN
  /\ hook[c].seg.out /\ hook[c].seg.kind = "syn" /\ State(c) \in {"closed", "syn_sent"}
  /\ p \in {"syn_require_on", "init_sequence_off", "payload", "remove", "create",
            "if_syn_acked", "return"}
  /\ flag["syn_require"] <=> (State(c) = "syn_sent" \/ p # "syn_require_on")
  /\ ~flag["syn_acked"] /\ ~flag["fin_require"] /\ ~flag["connected"] /\ ~flag["init_sequence"]

OfAck(c) ==
  LET p == hook[c].pc IN
  /\ hook[c].seg.out /\ hook[c].seg.kind = "ack" /\ State(c) = "acking"
  /\ p \in {"payload", "remove", "create", "if_syn_acked", "syn_acked_off",
            "syn_require_off", "connected_on", "return"}
  /\ flag["syn_require"] <=> p \notin {"connected_on", "return"}
  /\ flag["syn_acked"]   <=> p \notin {"syn_require_off", "connected_on", "return"}
  /\ flag["connected"]   <=> p = "return"
  /\ ~flag["fin_require"] /\ ~flag["init_sequence"]

\* Up to setting it, the hook of the first data segment finds init_sequence off.
First(c) == /\ HasData(hook[c].seg) /\ tcp[hook[c].seg.conn].sent = 1 /\ ~flag["init_sequence"]
            /\ hook[c].pc \in {"fin_require_on", "payload", "if_connected", "if_init",
                               "init_sequence_on"}
OfOpen(c) ==
  LET p == hook[c].pc
      seg == hook[c].seg IN
  /\ seg.out /\ seg.kind \in {"ack", "data", "fin", "data_fin"} /\ State(c) \in OnLine
  /\ p \in {"fin_require_on", "payload", "if_connected", "if_init", "init_sequence_on",
            "set_last", "compare", "load", "store", "advance", "remove", "create",
            "if_syn_acked", "return"}
  /\ p = "fin_require_on" => HasFin(seg)
  /\ flag["connected"] /\ ~flag["syn_require"] /\ ~flag["syn_acked"]
  /\ flag["fin_require"] <=> (State(c) = "fin_wait" \/ (HasFin(seg) /\ p # "fin_require_on"))
  /\ (flag["init_sequence"] <=> tcp[seg.conn].sent > 0) \/ First(c)
  /\ p = "init_sequence_on" => First(c)

OfSynAck(c) ==
  LET p == hook[c].pc IN
  /\ ~hook[c].seg.out /\ hook[c].seg.kind = "syn" /\ State(c) \in {"syn_sent", "open"}
  /\ p \in {"if_syn_require", "syn_acked_on", "return"}
  /\ p = "syn_acked_on" => State(c) = "syn_sent"
  /\ flag["syn_require"] <=> State(c) = "syn_sent"
  /\ flag["syn_acked"]   <=> (State(c) = "syn_sent" /\ p = "return")
  /\ flag["connected"]   <=> State(c) = "open"
  /\ ~flag["fin_require"]
  /\ flag["init_sequence"] <=> HasSent(hook[c].seg.conn)

OfFin(c) ==
  LET p == hook[c].pc IN
  /\ ~hook[c].seg.out /\ hook[c].seg.kind = "fin" /\ State(c) \in {"fin_wait", "done"}
  /\ p \in {"if_fin_require", "fin_require_off", "connected_off", "forget_sequence", "return"}
  /\ State(c) = "done" => p \in {"if_fin_require", "return"}
  /\ ~flag["syn_require"] /\ ~flag["syn_acked"]
  /\ flag["fin_require"] <=> (State(c) = "fin_wait" /\ p \in {"if_fin_require", "fin_require_off"})
  /\ flag["connected"] <=> (State(c) = "fin_wait"
                              /\ p \in {"if_fin_require", "fin_require_off", "connected_off"})
  /\ flag["init_sequence"] <=> (HasSent(hook[c].seg.conn) /\ p # "return")

Flow(c) == OfSyn(c) \/ OfAck(c) \/ OfOpen(c) \/ OfSynAck(c) \/ OfFin(c)

Lone(x) == \A y \in Conns : y # x => ~Up(y)

FlowInv ==
  InTurn => /\ \A c, d \in Contexts : ~At(c, "off") /\ ~At(d, "off") => c = d
            /\ \A x \in Conns : tcp[x].state \in OwnWay
            /\ \A x \in Conns : tcp[x].state \in {"closed", "syn_sent", "acking"} => tcp[x].sent = 0
            /\ \A c \in Contexts : ~At(c, "off") => Flow(c)
            /\ Quiet => \A x \in Conns : Lone(x) => Agrees(x)

LEMMA FlowStatement ==
  ASSUME TypeOK, NEW c \in Contexts, Statement(c), ~Return(c), Stays(c), Path(c), Flow(c)
  PROVE  Flow(c)'
<1> DEFINE p == hook[c].pc
           q == hook'[c].pc
           x == hook[c].seg.conn
<1>1. Assignments(c) /\ Conditions(c) /\ Others(c) /\ p # "return"
  BY StatementIs
<1>2. /\ hook'[c].seg = hook[c].seg /\ tcp' = tcp /\ State(c)' = State(c)
      /\ HasData(hook[c].seg)' = HasData(hook[c].seg) /\ HasFin(hook[c].seg)' = HasFin(hook[c].seg)
  BY DEF Stays, State, HasData, HasFin
<1>3. /\ flag \in [Flags -> BOOLEAN]
      /\ Flags = {"syn_require", "syn_acked", "fin_require", "init_sequence", "connected"}
      /\ x \in Conns /\ tcp[x].sent \in Nat
  BY BoundsAssumption DEF TypeOK, Flags, Segments
<1>4. CASE OfSyn(c)
  <2>1. ~HasData(hook[c].seg)
    BY <1>4 DEF OfSyn, HasData
  <2>2. OfSyn(c)'
    BY <1>1, <1>2, <1>3, <1>4, <2>1 DEF OfSyn, Assignments, Conditions, Others, Makes, Goes
  <2> QED  BY <2>2 DEF Flow
<1>5. CASE OfAck(c)
  <2>1. ~HasData(hook[c].seg)
    BY <1>5 DEF OfAck, HasData
  <2>2. OfAck(c)'
    BY <1>1, <1>2, <1>3, <1>5, <2>1 DEF OfAck, Assignments, Conditions, Others, Makes, Goes
  <2> QED  BY <2>2 DEF Flow
<1>6. CASE OfOpen(c)
  <2>0. /\ p \in {"if_connected", "if_init", "init_sequence_on"} => HasData(hook[c].seg)
        /\ HasData(hook[c].seg) => tcp[x].sent > 0
    BY <1>3, <1>6 DEF Path, Counting, DataHook, Out, At, OfOpen, Segments, TypeOK
  <2>1. CASE p = "fin_require_on"
    BY <1>1, <1>2, <1>3, <1>6, <2>1 DEF OfOpen, First, Flow, Assignments, Makes
  <2>2. CASE p \in {"payload", "if_connected", "if_init"}
    BY <1>1, <1>2, <1>3, <1>6, <2>0, <2>2 DEF OfOpen, First, Flow, Conditions, Others, Goes
  <2>3. CASE p = "init_sequence_on"
    BY <1>1, <1>2, <1>3, <1>6, <2>0, <2>3 DEF OfOpen, First, Flow, Assignments, Makes
  <2>4. CASE p \in {"set_last", "compare", "load", "store", "advance", "remove", "create",
                    "if_syn_acked"}
    BY <1>1, <1>2, <1>3, <1>6, <2>0, <2>4 DEF OfOpen, First, Flow, Conditions, Others, Goes
  <2> QED  BY <1>1, <1>6, <2>1, <2>2, <2>3, <2>4 DEF OfOpen
<1>7. CASE OfSynAck(c)
  <2>1. HasSent(x)' = HasSent(x)
    BY <1>2 DEF HasSent
  <2>2. OfSynAck(c)'
    BY <1>1, <1>2, <1>3, <1>7, <2>1 DEF OfSynAck, Assignments, Conditions, Others, Makes, Goes
  <2> QED  BY <2>2 DEF Flow
<1>8. CASE OfFin(c)
  <2>1. HasSent(x)' = HasSent(x)
    BY <1>2 DEF HasSent
  <2>2. CASE p = "if_fin_require"
    <3>1. /\ flag' = flag
          /\ q = IF flag["fin_require"] THEN "fin_require_off" ELSE "return"
      BY <1>1, <2>2 DEF Conditions, Goes
    <3>2. flag["fin_require"] <=> State(c) = "fin_wait"
      BY <1>8, <2>2 DEF OfFin
    <3>3. CASE State(c) = "fin_wait"
      BY <1>2, <1>8, <2>1, <2>2, <3>1, <3>2, <3>3 DEF OfFin, Flow
    <3>4. CASE State(c) = "done"
      BY <1>2, <1>8, <2>1, <2>2, <3>1, <3>2, <3>4 DEF OfFin, Flow, HasSent, State, OnLine
    <3> QED  BY <1>8, <3>3, <3>4 DEF OfFin
  <2>3. CASE p = "fin_require_off"
    BY <1>1, <1>2, <1>3, <1>8, <2>1, <2>3 DEF OfFin, Flow, Assignments, Makes
  <2>4. CASE p = "connected_off"
    BY <1>1, <1>2, <1>3, <1>8, <2>1, <2>4 DEF OfFin, Flow, Assignments, Makes
  <2>5. CASE p = "forget_sequence"
    BY <1>1, <1>2, <1>3, <1>8, <2>1, <2>5 DEF OfFin, Flow, Assignments, Makes
  <2> QED  BY <1>1, <1>8, <2>2, <2>3, <2>4, <2>5 DEF OfFin
<1> QED  BY <1>4, <1>5, <1>6, <1>7, <1>8 DEF Flow

\* What TCP hands to the hooks when the terminal opens and closes.
Offered(x, seg) ==
  LET s == tcp[x].state IN
  \/ /\ UNCHANGED <<tcp, resent>>
     /\ \/ seg.out /\ seg.kind = "syn" /\ s \in {"closed", "syn_sent"}
        \/ seg.out /\ seg.kind = "ack" /\ s \in {"acking"} \cup OnLine
        \/ seg.out /\ seg.kind = "fin" /\ s \in OnLine
        \/ ~seg.out /\ seg.kind = "syn" /\ s \in {"syn_sent", "open"}
        \/ ~seg.out /\ seg.kind = "fin" /\ s \in {"fin_wait", "done"}
  \/ NewData(x, seg) /\ s = "open"
  \/ DataAgain(x, seg) /\ s \in OnLine

LEMMA TcpOffers ==
  ASSUME NEW c \in Contexts, NEW x \in Conns, TypeOK, tcp[x].state \in OwnWay, ~passive',
         SendControl(c, x) \/ SendData(c, x) \/ Resend(c, x)
           \/ ReceiveControl(c, x) \/ ReceiveAgain(c, x)
  PROVE  ~passive /\ \E seg \in Segments : Enter(c, seg) /\ seg.conn = x /\ Offered(x, seg)
<1> USE BoundsAssumption
<1>1. ASSUME NEW kind \in Kinds, NEW n \in 0 .. MaxSegments, Send(c, x, kind, n),
             \A seg \in Segments : seg.conn = x /\ seg.out /\ seg.kind = kind /\ seg.number = n
               => Offered(x, seg)
      PROVE  \E seg \in Segments : Enter(c, seg) /\ seg.conn = x /\ Offered(x, seg)
  <2> DEFINE s == [conn |-> x, out |-> TRUE, kind |-> kind, number |-> n]
  <2>1. s \in Segments /\ s.conn = x /\ s.out /\ s.kind = kind /\ s.number = n
    BY SegmentType
  <2>2. Enter(c, s)
    BY <1>1 DEF Send
  <2> HIDE DEF s
  <2> QED  BY <1>1, <2>1, <2>2
<1>2. ASSUME NEW kind \in Kinds, Receive(c, x, kind),
             \A seg \in Segments : seg.conn = x /\ ~seg.out /\ seg.kind = kind => Offered(x, seg)
      PROVE  \E seg \in Segments : Enter(c, seg) /\ seg.conn = x /\ Offered(x, seg)
  <2> DEFINE s == [conn |-> x, out |-> FALSE, kind |-> kind, number |-> 0]
  <2>0. 0 \in 0 .. MaxSegments
    OBVIOUS
  <2>1. s \in Segments /\ s.conn = x /\ ~s.out /\ s.kind = kind
    BY <2>0, SegmentType
  <2>2. Enter(c, s)
    BY <1>2 DEF Receive
  <2> HIDE DEF s
  <2> QED  BY <1>2, <2>1, <2>2
<1>3. /\ {"syn", "ack", "fin", "data", "data_fin"} \subseteq Kinds
      /\ 0 \in 0 .. MaxSegments
      /\ \A n \in 1 .. tcp[x].sent : n \in 0 .. MaxSegments
      /\ tcp[x].sent < MaxSegments => tcp[x].sent + 1 \in 0 .. MaxSegments
  BY BoundsAssumption DEF Kinds, TypeOK
<1>4. CASE SendControl(c, x)
  <2>1. UNCHANGED <<tcp, resent, passive>>
    BY <1>4 DEF SendControl
  <2>2. CASE tcp[x].state = "closed" /\ Send(c, x, "syn", 0)
    BY <1>1, <1>3, <2>1, <2>2 DEF Offered
  <2>3. CASE tcp[x].state \in {"acking"} \cup OnLine /\ Send(c, x, "ack", 0)
    BY <1>1, <1>3, <2>1, <2>3 DEF Offered
  <2>4. CASE tcp[x].state = "open" /\ Send(c, x, "fin", 0)
    BY <1>1, <1>3, <2>1, <2>4 DEF Offered, OnLine
  <2> QED  BY <1>4, <2>1, <2>2, <2>3, <2>4 DEF SendControl, Connected, OwnWay, OnLine
<1>5. CASE SendData(c, x)
  <2>1. PICK kind \in {"data", "data_fin"} : Send(c, x, kind, tcp[x].sent + 1)
    BY <1>5 DEF SendData
  <2>2. /\ tcp[x].state = "open" /\ tcp[x].sent < MaxSegments
        /\ tcp' = [tcp EXCEPT ![x].sent = @ + 1] /\ UNCHANGED <<resent, passive>>
    BY <1>5 DEF SendData, OwnWay
  <2>3. \A seg \in Segments : seg.conn = x /\ seg.out /\ seg.kind = kind
          /\ seg.number = tcp[x].sent + 1 => Offered(x, seg)
    BY <2>2 DEF Offered, NewData, HasData
  <2> QED  BY <1>1, <1>3, <2>1, <2>2, <2>3
<1>6. CASE Resend(c, x)
  <2>0. UNCHANGED <<tcp, passive>>
    BY <1>6 DEF Resend
  <2>1. CASE tcp[x].state = "syn_sent" /\ Send(c, x, "syn", 0) /\ UNCHANGED resent
    BY <1>1, <1>3, <2>0, <2>1 DEF Offered
  <2>2. CASE /\ tcp[x].state \in OnLine /\ resent' = resent + 1
             /\ \E n \in 1 .. tcp[x].sent : Send(c, x, "data", n)
    <3>1. PICK n \in 1 .. tcp[x].sent : Send(c, x, "data", n)
      BY <2>2
    <3>2. \A seg \in Segments : seg.conn = x /\ seg.out /\ seg.kind = "data"
            /\ seg.number = n => Offered(x, seg)
      BY <2>0, <2>2 DEF Offered, DataAgain, HasData
    <3> QED  BY <1>1, <1>3, <2>0, <3>1, <3>2
  <2>3. CASE tcp[x].state = "fin_wait" /\ Send(c, x, "fin", 0) /\ UNCHANGED resent
    BY <1>1, <1>3, <2>0, <2>3 DEF Offered, OnLine
  <2>4. CASE /\ tcp[x].state = "fin_wait" /\ tcp[x].sent > 0 /\ resent' = resent + 1
             /\ Send(c, x, "data_fin", tcp[x].sent)
    <3>1. tcp[x].sent \in 1 .. tcp[x].sent
      BY <2>4 DEF TypeOK
    <3>2. \A seg \in Segments : seg.conn = x /\ seg.out /\ seg.kind = "data_fin"
            /\ seg.number = tcp[x].sent => Offered(x, seg)
      BY <2>0, <2>4, <3>1 DEF Offered, DataAgain, HasData, OnLine
    <3> QED  BY <1>1, <1>3, <2>0, <2>4, <3>1, <3>2
  <2> QED
    BY <1>6, <2>0, <2>1, <2>2, <2>3, <2>4 DEF Resend, Connected, Finishing, OwnWay, OnLine
<1>7. CASE ReceiveControl(c, x)
  <2>1. /\ UNCHANGED <<tcp, resent>> /\ ~passive
        /\ \/ tcp[x].state = "syn_sent" /\ Receive(c, x, "syn")
           \/ tcp[x].state = "fin_wait" /\ Receive(c, x, "fin")
    BY <1>7 DEF ReceiveControl
  <2> QED  BY <1>2, <1>3, <2>1 DEF Offered
<1>8. CASE ReceiveAgain(c, x)
  <2>1. /\ UNCHANGED <<tcp, resent, passive>>
        /\ \/ tcp[x].state = "open" /\ Receive(c, x, "syn")
           \/ tcp[x].state = "done" /\ Receive(c, x, "fin")
    BY <1>8 DEF ReceiveAgain
  <2> QED  BY <1>2, <1>3, <2>1 DEF Offered
<1> QED  BY <1>4, <1>5, <1>6, <1>7, <1>8

\* Between two hooks exactly the flags of the connection that is up are set, and the
\* first statement of a hook finds them so.
LEMMA FlowEnter ==
  ASSUME TypeOK, FlowInv, InTurn', NEW c \in Contexts, NEW x \in Conns,
         SendControl(c, x) \/ SendData(c, x) \/ Resend(c, x)
           \/ ReceiveControl(c, x) \/ ReceiveAgain(c, x)
  PROVE  FlowInv' /\ InTurn /\ Quiet /\ Lone(x)
<1>1. InTurn /\ Quiet /\ Lone(x)
  <2>1. PICK seg \in Segments : Enter(c, seg) /\ seg.conn = x
    BY TcpDoes
  <2>2. ~overlap /\ Quiet /\ ~crossed /\ ~aborted /\ Lone(x)
    BY <2>1 DEF Enter, InTurn, Lone
  <2>3. ~passive
    BY DEF InTurn, SendControl, SendData, Resend, ReceiveControl, ReceiveAgain
  <2> QED  BY <2>2, <2>3 DEF InTurn
<1>2. /\ Agrees(x) /\ \A y \in Conns : tcp[y].state \in OwnWay
      /\ \A y \in Conns : tcp[y].state \in {"closed", "syn_sent", "acking"} => tcp[y].sent = 0
  BY <1>1 DEF FlowInv
<1>3. PICK seg \in Segments : Enter(c, seg) /\ seg.conn = x /\ Offered(x, seg)
  BY <1>2, TcpOffers DEF InTurn
<1>4. \A y \in Conns : tcp'[y].state = tcp[y].state
  BY <1>3 DEF Offered, NewData, DataAgain, TypeOK
<1>5. /\ hook'[c].pc = Entry(seg) /\ hook'[c].seg = seg /\ hook'[c].pc # "off"
      /\ \A d \in Contexts \ {c} : hook'[d] = hook[d]
      /\ flag' = flag
  BY <1>3, <1>4, EnterDoes DEF flags
<1>6. \A d \in Contexts \ {c} : hook'[d].pc = "off"
  BY <1>1, <1>5 DEF Quiet, At
<1>7. /\ State(c)' = tcp[x].state
      /\ flag \in [Flags -> BOOLEAN] /\ tcp[x].sent \in Nat
      /\ Flags = {"syn_require", "syn_acked", "fin_require", "init_sequence", "connected"}
  BY <1>3, <1>4, <1>5, BoundsAssumption DEF State, TypeOK, Flags
<1>8. Flow(c)'
  <2>1. CASE seg.out /\ seg.kind = "syn" /\ tcp[x].state \in {"closed", "syn_sent"}
    <3>1. Entry(seg) = "syn_require_on"
      BY <2>1 DEF Entry, HasFin
    <3> QED  BY <1>2, <1>5, <1>7, <2>1, <3>1 DEF Agrees, HasSent, OnLine, Flow, OfSyn
  <2>2. CASE seg.out /\ seg.kind = "ack" /\ tcp[x].state = "acking"
    <3>1. Entry(seg) = "payload"
      BY <2>2 DEF Entry, HasFin
    <3> QED  BY <1>2, <1>5, <1>7, <2>2, <3>1 DEF Agrees, HasSent, OnLine, Flow, OfAck
  <2>3. CASE ~seg.out /\ seg.kind = "syn" /\ tcp[x].state \in {"syn_sent", "open"} /\ tcp' = tcp
    <3>1. Entry(seg) = "if_syn_require"
      BY <2>3 DEF Entry, HasFin
    <3>2. HasSent(x)' = HasSent(x)
      BY <2>3 DEF HasSent
    <3> QED  BY <1>2, <1>3, <1>5, <1>7, <2>3, <3>1, <3>2 DEF Agrees, OnLine, Flow, OfSynAck
  <2>4. CASE ~seg.out /\ seg.kind = "fin" /\ tcp[x].state \in {"fin_wait", "done"} /\ tcp' = tcp
    <3>1. Entry(seg) = "if_fin_require"
      BY <2>4 DEF Entry, HasFin
    <3>2. HasSent(x)' = HasSent(x)
      BY <2>4 DEF HasSent
    <3> QED  BY <1>2, <1>3, <1>5, <1>7, <2>4, <3>1, <3>2 DEF Agrees, OnLine, Flow, OfFin
  <2>5. CASE /\ seg.out /\ seg.kind \in {"ack", "data", "fin", "data_fin"}
             /\ tcp[x].state \in OnLine
             /\ tcp'[x].sent = tcp[x].sent \/ (HasData(seg) /\ tcp'[x].sent = tcp[x].sent + 1)
    <3>1. /\ Entry(seg) \in {"payload", "fin_require_on"}
          /\ Entry(seg) = "fin_require_on" <=> HasFin(seg)
      BY <2>5 DEF Entry, HasFin
    <3>2. HasData(hook[c].seg)' = HasData(seg) /\ HasFin(hook[c].seg)' = HasFin(seg)
      BY <1>5 DEF HasData, HasFin
    <3>3. flag["init_sequence"] <=> tcp[x].sent > 0
      BY <1>2, <2>5 DEF Agrees, HasSent
    <3>4. (flag'["init_sequence"] <=> tcp'[x].sent > 0) \/ First(c)'
      <4>1. CASE tcp'[x].sent = tcp[x].sent
        BY <1>5, <3>3, <4>1
      <4>2. CASE HasData(seg) /\ tcp'[x].sent = tcp[x].sent + 1
        BY <1>3, <1>5, <1>7, <3>1, <3>2, <3>3, <4>2 DEF First
      <4> QED  BY <2>5, <4>1, <4>2
    <3>5. /\ flag["connected"] /\ ~flag["syn_require"] /\ ~flag["syn_acked"]
          /\ flag["fin_require"] <=> tcp[x].state = "fin_wait"
      BY <1>2, <2>5 DEF Agrees, OnLine
    <3>6. OfOpen(c)'
      BY <1>3, <1>5, <1>7, <2>5, <3>1, <3>2, <3>4, <3>5 DEF OfOpen, OnLine
    <3> QED  BY <3>6 DEF Flow
  <2> QED
    <3>1. CASE NewData(x, seg) /\ tcp[x].state = "open"
      <4>1. tcp'[x].sent = tcp[x].sent + 1
        BY <3>1 DEF NewData, TypeOK
      <4> QED  BY <2>5, <3>1, <4>1 DEF NewData, HasData, OnLine
    <3>2. CASE DataAgain(x, seg) /\ tcp[x].state \in OnLine
      BY <2>5, <3>2 DEF DataAgain, HasData
    <3>3. CASE seg.out /\ seg.kind \in {"ack", "fin"} /\ tcp[x].state \in OnLine /\ tcp' = tcp
      BY <2>5, <3>3
    <3> QED  BY <1>3, <2>1, <2>2, <2>3, <2>4, <3>1, <3>2, <3>3 DEF Offered
<1>9. \A y \in Conns : tcp'[y].sent = tcp[y].sent \/ tcp[y].state \in OnLine
  BY <1>3 DEF Offered, NewData, DataAgain, TypeOK, OnLine
<1>10. FlowInv'
  <2>1. ~Quiet'
    BY <1>5 DEF Quiet, At
  <2>2. \A d, e \in Contexts : ~At(d, "off")' /\ ~At(e, "off")' => d = e
    BY <1>6 DEF At
  <2>3. \A y \in Conns : tcp'[y].state \in {"closed", "syn_sent", "acking"} => tcp'[y].sent = 0
    BY <1>2, <1>4, <1>9 DEF OnLine
  <2>4. \A d \in Contexts : ~At(d, "off")' => Flow(d)'
    BY <1>6, <1>8 DEF At
  <2> QED  BY <1>2, <1>4, <2>1, <2>2, <2>3, <2>4 DEF FlowInv
<1> QED  BY <1>1, <1>10

\* A hook that returns leaves the flags agreeing with the state it moves its connection to.
LEMMA FlowReturn ==
  ASSUME TypeOK, TcpInv, FlowInv, InTurn', NEW c \in Contexts, Return(c)
  PROVE  FlowInv' /\ InTurn
<1>0. PICK x \in Conns : x = hook[c].seg.conn
  BY ReturnDoes
<1> DEFINE s == tcp[x].state
<1>1. /\ hook[c].pc = "return" /\ hook'[c].pc = "off"
      /\ \A d \in Contexts \ {c} : hook'[d] = hook[d]
      /\ \A y \in Conns : tcp'[y].sent = tcp[y].sent
      /\ \A y \in Conns \ {x} : tcp'[y].state = tcp[y].state
      /\ tcp'[x].state = IF hook[c].seg.out THEN AfterSend(tcp[x].state, hook[c].seg)
                         ELSE AfterReceive(tcp[x].state, hook[c].seg)
      /\ Up(x) /\ x \in Conns
      /\ \A y \in Conns : Up(y)' => Up(y)
      /\ UNCHANGED <<flags, resends, resent, history>>
  BY <1>0, ReturnDoes
<1>2. InTurn /\ flag' = flag /\ flag \in [Flags -> BOOLEAN]
      /\ Flags = {"syn_require", "syn_acked", "fin_require", "init_sequence", "connected"}
  BY <1>1 DEF InTurn, history, proc, flags, TypeOK, Flags
<1>3. Flow(c) /\ s = State(c)
  BY <1>0, <1>1, <1>2 DEF FlowInv, At, State
<1>4. /\ \A d, e \in Contexts : ~At(d, "off") /\ ~At(e, "off") => d = e
      /\ \A y \in Conns : tcp[y].state \in OwnWay
      /\ \A y \in Conns : tcp[y].state \in {"closed", "syn_sent", "acking"} => tcp[y].sent = 0
  BY <1>2 DEF FlowInv
<1>5. \A d \in Contexts : hook'[d].pc = "off"
  BY <1>1, <1>4 DEF At
<1>6. HasSent(x)' <=> (tcp'[x].state \in OnLine /\ tcp[x].sent > 0)
  BY <1>1 DEF HasSent
<1>7. \/ tcp'[x].state = s
      \/ s = "closed" /\ tcp'[x].state = "syn_sent"
      \/ s = "syn_sent" /\ tcp'[x].state = "acking"
      \/ tcp'[x].state \in {"open", "fin_wait", "done"}
  <2>1. CASE OfSyn(c)
    BY <1>0, <1>1, <1>3, <2>1 DEF OfSyn, AfterSend, HasFin
  <2>2. CASE OfAck(c)
    BY <1>0, <1>1, <1>3, <2>2 DEF OfAck, AfterSend, HasFin
  <2>3. CASE OfOpen(c)
    BY <1>0, <1>1, <1>3, <2>3 DEF OfOpen, AfterSend, HasFin, OnLine
  <2>4. CASE OfSynAck(c)
    BY <1>0, <1>1, <1>3, <2>4 DEF OfSynAck, AfterReceive, HasFin
  <2>5. CASE OfFin(c)
    BY <1>0, <1>1, <1>3, <2>5 DEF OfFin, AfterReceive, HasFin
  <2> QED  BY <1>3, <2>1, <2>2, <2>3, <2>4, <2>5 DEF Flow
<1>8. Agrees(x)'
  <2>1. CASE OfSyn(c)
    <3>1. tcp'[x].state = "syn_sent"
      BY <1>0, <1>1, <1>3, <2>1 DEF OfSyn, AfterSend, HasFin
    <3> QED  BY <1>0, <1>1, <1>2, <1>6, <2>1, <3>1 DEF OfSyn, Agrees, OnLine
  <2>2. CASE OfAck(c)
    <3>1. tcp'[x].state = "open"
      BY <1>0, <1>1, <1>3, <2>2 DEF OfAck, AfterSend, HasFin
    <3>2. tcp[x].sent = 0
      BY <1>0, <1>1, <1>3, <1>4, <2>2 DEF OfAck
    <3> QED  BY <1>0, <1>1, <1>2, <1>6, <2>2, <3>1, <3>2 DEF OfAck, Agrees, OnLine
  <2>3. CASE OfOpen(c)
    <3>1. tcp'[x].state = IF HasFin(hook[c].seg) THEN "fin_wait" ELSE s
      BY <1>0, <1>1, <1>3, <2>3 DEF OfOpen, AfterSend, HasFin, OnLine
    <3>2. s \in OnLine /\ (s = "open" \/ s = "fin_wait")
      BY <1>3, <2>3 DEF OfOpen, OnLine
    <3> QED  BY <1>0, <1>1, <1>2, <1>3, <1>6, <2>3, <3>1, <3>2 DEF OfOpen, First, Agrees, OnLine
  <2>4. CASE OfSynAck(c)
    <3>1. tcp'[x].state = IF s = "syn_sent" THEN "acking" ELSE s
      BY <1>0, <1>1, <1>3, <2>4 DEF OfSynAck, AfterReceive, HasFin
    <3> QED  BY <1>0, <1>1, <1>2, <1>3, <1>6, <2>4, <3>1 DEF OfSynAck, Agrees, OnLine, HasSent
  <2>5. CASE OfFin(c)
    <3>1. tcp'[x].state = "done"
      BY <1>0, <1>1, <1>3, <2>5 DEF OfFin, AfterReceive, HasFin
    <3> QED  BY <1>0, <1>1, <1>2, <1>3, <1>6, <2>5, <3>1 DEF OfFin, Agrees, OnLine
  <2> QED  BY <1>3, <2>1, <2>2, <2>3, <2>4, <2>5 DEF Flow
<1>9. ASSUME NEW y \in Conns, Lone(y)' PROVE Agrees(y)'
  <2>1. CASE y = x
    BY <1>8, <2>1
  <2>2. CASE y # x
    <3>1. ~Up(y)
      BY <1>1, <1>2, <2>2 DEF TcpInv, Exclusive, InTurn
    <3>2. tcp'[y].state \in {"closed", "done"}
      BY <1>1, <2>2, <3>1 DEF Up
    <3>3. tcp'[x].state \in {"closed", "done"}
      BY <1>1, <1>9, <2>2 DEF Lone, Up
    <3> QED  BY <1>8, <3>2, <3>3 DEF Agrees, HasSent, OnLine
  <2> QED  BY <2>1, <2>2
<1>10. \A y \in Conns : tcp'[y].state \in OwnWay
  BY <1>1, <1>4, <1>7 DEF OwnWay
<1>11. \A y \in Conns : tcp'[y].state \in {"closed", "syn_sent", "acking"} => tcp'[y].sent = 0
  BY <1>1, <1>4, <1>7
<1> QED  BY <1>2, <1>5, <1>9, <1>10, <1>11 DEF FlowInv, At

LEMMA NextFlow == TypeOK /\ EntryInv /\ TcpInv /\ FlowInv /\ [Next]_vars => FlowInv'
<1> SUFFICES ASSUME TypeOK, EntryInv, TcpInv, FlowInv, [Next]_vars, InTurn' PROVE FlowInv'
  BY DEF FlowInv
<1>1. ASSUME NEW c \in Contexts, Statement(c), ~Return(c) PROVE FlowInv'
  <2>1. Stays(c) /\ Path(c)
    BY <1>1, StatementPath DEF TcpInv
  <2>2. InTurn /\ ~At(c, "off") /\ ~At(c, "off")' /\ tcp' = tcp
    BY <2>1 DEF InTurn, Stays, history, proc, At
  <2>3. Flow(c)'
    BY <1>1, <2>1, <2>2, FlowStatement DEF FlowInv
  <2>4. \A d \in Contexts : ~At(d, "off")' => d = c
    BY <2>1, <2>2 DEF Stays, FlowInv, At
  <2> QED  BY <2>2, <2>3, <2>4 DEF FlowInv, Quiet
<1>2. ASSUME UNCHANGED <<flag, hook, tcp, crossed, overlap, passive, aborted>> PROVE FlowInv'
  <2>1. InTurn /\ \A y \in Conns : HasSent(y)' = HasSent(y) /\ Up(y)' = Up(y) /\ Agrees(y)' = Agrees(y)
    BY <1>2 DEF InTurn, HasSent, Up, Hooked, At, Agrees
  <2>2. \A d \in Contexts : Flow(d)' = Flow(d)
    BY <1>2 DEF Flow, OfSyn, OfAck, OfOpen, First, OfSynAck, OfFin, State, HasSent, HasData, HasFin
  <2> QED  BY <1>2, <2>1, <2>2 DEF FlowInv, Lone, Quiet, At
<1>3. ASSUME NEW x \in Conns, LastAck(x) \/ Abort(x) PROVE FlowInv'
  <2>1. InTurn /\ tcp[x].state = "last_ack"
    BY <1>3 DEF LastAck, Abort, InTurn, history, proc
  <2> QED  BY <2>1 DEF FlowInv, OwnWay
<1>4. CASE RemoveOnExit \/ Unregister \/ UNCHANGED vars
  BY <1>2, <1>4 DEF RemoveOnExit, Unregister, vars, history, proc, flags
<1> QED  BY <1>1, <1>3, <1>4, FlowEnter, FlowReturn DEF Next

LEMMA InitFlow == Init => FlowInv
<1> SUFFICES ASSUME Init PROVE FlowInv
  OBVIOUS
<1>1. \A c \in Contexts : hook[c].pc = "off"
  BY DEF Init, Idle
<1>2. \A x \in Conns : tcp[x].state = "closed" /\ tcp[x].sent = 0
  BY DEF Init
<1>3. \A x \in Conns : Agrees(x)
  BY <1>2 DEF Init, Agrees, HasSent, OnLine, Flags
<1> QED  BY <1>1, <1>2, <1>3 DEF FlowInv, At, OwnWay

\* In the circumstances of pktgen.py, hooks one at a time and connections one after the
\* other, opened and closed by the terminal, the module takes a connection for up exactly
\* from the end of its handshake to the peer's FIN.
THEOREM ConnectedIsUp == Spec => []ConnectedTracksTcp
<1>1. TypeOK /\ TcpInv /\ FlowInv => ConnectedTracksTcp
  <2> SUFFICES ASSUME TypeOK, TcpInv, FlowInv, Quiet, InTurn
               PROVE  flag["connected"] <=> \E x \in Conns : tcp[x].state \in OnLine
    BY DEF ConnectedTracksTcp, InTurn, OnLine
  <2>1. CASE \E x \in Conns : Up(x)
    <3>1. PICK x \in Conns : Up(x)
      BY <2>1
    <3>2. \A y \in Conns : y # x => ~Up(y)
      BY <3>1 DEF TcpInv, Exclusive, InTurn
    <3>3. \A y \in Conns : y # x => tcp[y].state \notin OnLine
      BY <3>2 DEF Up, OnLine
    <3> QED  BY <3>2, <3>3 DEF FlowInv, Lone, Agrees
  <2>2. CASE ~\E x \in Conns : Up(x)
    <3>1. \A y \in Conns : tcp[y].state \notin OnLine
      BY <2>2 DEF Up, OnLine
    <3>2. PICK x \in Conns : TRUE
      BY ConnsAssumption
    <3>3. Agrees(x)
      BY <2>2 DEF FlowInv, Lone
    <3> QED  BY <3>1, <3>3 DEF Agrees
  <2> QED  BY <2>1, <2>2
<1>2. Spec => [](TypeOK /\ Counted /\ EntryInv /\ TcpInv /\ FlowInv)
  BY InitType, NextType, InitEntry, NextEntry, InitTcp, NextTcp, InitFlow, NextFlow, PTL DEF Spec
<1> QED  BY <1>1, <1>2, PTL

-----------------------------------------------------------------------------
(* The counter, in the same circumstances.                                 *)

LEMMA Quotient == ASSUME NEW n \in Nat \ {0}, NEW a \in Nat PROVE a = n * (a \div n) + (a % n)
OBVIOUS

LEMMA Remainder ==
  ASSUME NEW n \in Nat \ {0}, NEW q \in Int, NEW r \in 0 .. (n - 1)
  PROVE  (n * q + r) % n = r
OBVIOUS

LEMMA ModSucc ==
  ASSUME NEW n \in Nat \ {0}, NEW a \in Nat
  PROVE  ((a % n) + 1) % n = (a + 1) % n
<1> DEFINE r == a % n
           q == a \div n
<1>1. a = n * q + r /\ q \in Int /\ r \in 0 .. (n - 1)
  BY Quotient
<1> HIDE DEF q, r
<1>2. CASE r + 1 < n
  <2>1. a + 1 = n * q + (r + 1) /\ r + 1 \in 0 .. (n - 1)
    BY <1>1, <1>2
  <2>2. (n * q + (r + 1)) % n = r + 1
    BY <1>1, <2>1, Remainder
  <2>3. (n * 0 + (r + 1)) % n = r + 1
    BY <1>1, <2>1, Remainder
  <2> QED  BY <1>1, <2>1, <2>2, <2>3 DEF r
<1>3. CASE r + 1 = n
  <2>1. a + 1 = n * (q + 1) + 0 /\ r + 1 = n * 1 + 0 /\ 0 \in 0 .. (n - 1) /\ q + 1 \in Int
    BY <1>1, <1>3
  <2>2. (n * (q + 1) + 0) % n = 0
    BY <1>1, <2>1, Remainder
  <2>3. (n * 1 + 0) % n = 0
    BY <1>1, <2>1, Remainder
  <2> QED  BY <1>1, <2>1, <2>2, <2>3 DEF r
<1> QED  BY <1>1, <1>2, <1>3

\* The highest number of a connection; the counter right, and one resend behind.
Highest(x) == InitialSeq[x] + tcp[x].sent
Even   == total_collision = resent % SEQ
Behind == (total_collision + 1) % SEQ = resent % SEQ

\* A hook has a new segment to pass, or an old one to count, or is done with it.
Fresh(c) ==
  LET x == hook[c].seg.conn IN
  /\ hook[c].seg.number = tcp[x].sent /\ Even
  /\ tcp[x].sent > 1 => flag["init_sequence"]
  /\ flag["init_sequence"] => last_sequence = Highest(x) - 1
Again(c) == /\ flag["init_sequence"] /\ Behind
            /\ last_sequence = Highest(hook[c].seg.conn)
Done(c)  == /\ Even
            /\ flag["init_sequence"] => last_sequence = Highest(hook[c].seg.conn)

Tally(c) ==
  LET p == hook[c].pc IN
  /\ p \in BeforeTest /\ HasData(hook[c].seg) => Fresh(c) \/ Again(c)
  /\ p = "init_sequence_on" => Fresh(c)
  /\ p = "set_last" => hook[c].seg.number = tcp[hook[c].seg.conn].sent /\ Even
  /\ p = "compare"  => Fresh(c) \/ Again(c)
  /\ p = "load"     => Again(c)
  /\ p = "store"    => Again(c) /\ hook[c].reg = total_collision
  /\ p = "advance"  => hook[c].seg.number = tcp[hook[c].seg.conn].sent /\ Even
  /\ \/ p \in {"init_sequence_on", "set_last", "compare", "load", "store", "advance"}
     \/ p \in BeforeTest /\ HasData(hook[c].seg)
     \/ Done(c)

TallyInv ==
  InTurn /\ ~wrapped =>
    /\ \A c \in Contexts : ~At(c, "off") => Tally(c)
    /\ Quiet => /\ Even
                /\ \A x \in Conns : Lone(x) /\ flag["init_sequence"] => last_sequence = Highest(x)

LEMMA InitTally == Init => TallyInv
<1> SUFFICES ASSUME Init PROVE TallyInv
  OBVIOUS
<1>1. \A c \in Contexts : hook[c].pc = "off"
  BY DEF Init, Idle
<1>2. 0 % SEQ = 0
  BY SeqAssumption
<1>3. total_collision = 0 /\ resent = 0 /\ ~flag["init_sequence"]
  BY DEF Init, Flags
<1> QED  BY <1>1, <1>2, <1>3 DEF TallyInv, At, Even

LEMMA TallyStatement ==
  ASSUME TypeOK, TcpInv, Plain, NEW c \in Contexts, Statement(c), ~Return(c), Stays(c),
         Path(c), Flow(c), Tally(c)
  PROVE  Tally(c)'
<1>0. PICK x \in Conns : x = hook[c].seg.conn
  BY DEF TypeOK, Segments
<1> DEFINE p == hook[c].pc
           q == hook'[c].pc
           number == hook[c].seg.number
<1>1. Assignments(c) /\ Conditions(c) /\ Others(c) /\ Counts(c) /\ p # "return" /\ p # "off"
  BY StatementIs DEF Stays
<1>2. /\ hook'[c].seg = hook[c].seg /\ tcp' = tcp /\ resent' = resent
      /\ HasData(hook[c].seg)' = HasData(hook[c].seg)
      /\ Highest(x)' = Highest(x)
  BY DEF Stays, HasData, Highest
<1>3. /\ flag \in [Flags -> BOOLEAN] /\ "init_sequence" \in Flags /\ "connected" \in Flags
      /\ Flags = {"syn_require", "syn_acked", "fin_require", "init_sequence", "connected"}
      /\ tcp[x].sent \in Nat /\ InitialSeq[x] \in Nat /\ number \in Nat /\ last_sequence \in Nat
      /\ Highest(x) \in Nat
  BY InitialSeqAssumption, BoundsAssumption, SeqAssumption DEF TypeOK, Flags, Segments, Highest
<1>4. p \in Counting => OfOpen(c) /\ HasData(hook[c].seg) /\ DataHook(c) /\ tcp[x].sent > 0
  <2> SUFFICES ASSUME p \in Counting PROVE OfOpen(c) /\ HasData(hook[c].seg) /\ DataHook(c) /\ tcp[x].sent > 0
    OBVIOUS
  <2>1. HasData(hook[c].seg)
    BY DEF Path
  <2>2. OfOpen(c)
    BY <2>1 DEF Flow, OfSyn, OfAck, OfSynAck, OfFin, HasData
  <2>3. DataHook(c)
    BY <1>1, <2>1, <2>2 DEF DataHook, Out, At, OfOpen
  <2> QED  BY <1>0, <1>3, <2>1, <2>2, <2>3 DEF Path
<1>5. DataHook(c) => /\ SequenceOf(c) = InitialSeq[x] + number
                     /\ Before(SequenceOf(c)) = (InitialSeq[x] + number) - 1
                     /\ InitialSeq[x] + number <= Highest(x)
  <2>1. DataHook(c) => /\ SequenceOf(c) = Number(c)
                       /\ Before(SequenceOf(c)) = Number(c) - 1
                       /\ Number(c) <= InitialSeq[x] + tcp[x].sent
    BY <1>0, NumberIs
  <2>2. Number(c) = InitialSeq[x] + number
    BY <1>0 DEF Number
  <2>3. Highest(x) = InitialSeq[x] + tcp[x].sent
    BY DEF Highest
  <2> HIDE DEF number
  <2> QED  BY <2>1, <2>2, <2>3
<1>6. CASE p \notin BeforeTest \cup {"init_sequence_on", "set_last", "compare", "load", "store", "advance"}
  <2>1. UNCHANGED <<last_sequence, total_collision>> /\ Done(c)
    BY <1>1, <1>6 DEF Counts, Tally
  <2>2. flag'["init_sequence"] => flag["init_sequence"]
    BY <1>1, <1>3, <1>6, AssignsDomain, TestsDomain
      DEF Assignments, Conditions, Others, Makes, Goes, BeforeTest, TypeOK, Points
  <2>3. q \notin {"init_sequence_on", "set_last", "compare", "load", "store", "advance"}
    BY <1>1, <1>6, AssignsDomain, TestsDomain
      DEF Assignments, Conditions, Others, Makes, Goes, BeforeTest, TypeOK, Points
  <2>4. q \in BeforeTest => ~HasData(hook[c].seg)
    <3>1. q \in BeforeTest => p = "init_sequence_off"
      BY <1>1, <1>6, AssignsDomain, TestsDomain
        DEF Assignments, Conditions, Others, Makes, Goes, BeforeTest, TypeOK, Points
    <3> QED  BY <3>1 DEF Path, HasData
  <2> QED  BY <1>0, <1>2, <2>1, <2>2, <2>3, <2>4 DEF Tally, Done, Even
<1>7. CASE p \in BeforeTest
  <2>1. UNCHANGED <<last_sequence, total_collision>> /\ p \notin {"set_last", "store", "advance"}
    BY <1>1, <1>7 DEF Counts, BeforeTest
  <2>2. flag'["init_sequence"] = flag["init_sequence"]
    BY <1>1, <1>3, <1>7 DEF Assignments, Conditions, Others, Makes, Goes, BeforeTest
  <2>3. Fresh(c)' = Fresh(c) /\ Again(c)' = Again(c) /\ Done(c)' = Done(c)
    BY <1>0, <1>2, <2>1, <2>2 DEF Fresh, Again, Done, Even, Behind, Highest
  <2>4. CASE HasData(hook[c].seg)
    <3>1. Fresh(c) \/ Again(c)
      BY <1>7, <2>4 DEF Tally
    <3>2. q \in {"payload", "if_connected", "if_init", "compare"}
             \/ (q = "init_sequence_on" /\ ~flag["init_sequence"])
      <4>1. CASE p = "fin_require_on"
        BY <1>1, <4>1 DEF Assignments, Makes
      <4>2. CASE p = "payload"
        BY <1>1, <2>4, <4>2 DEF Others, Goes
      <4>3. CASE p = "if_connected"
        BY <1>1, <1>4, <4>3 DEF Conditions, Goes, Counting, OfOpen
      <4>4. CASE p = "if_init"
        BY <1>1, <4>4 DEF Conditions, Goes
      <4> QED  BY <1>7, <4>1, <4>2, <4>3, <4>4 DEF BeforeTest
    <3>3. q = "init_sequence_on" => Fresh(c)
      BY <3>1, <3>2 DEF Again
    <3> QED  BY <1>2, <2>3, <2>4, <3>1, <3>2, <3>3 DEF Tally, BeforeTest
  <2>5. CASE ~HasData(hook[c].seg)
    <3>1. Done(c)
      BY <1>7, <2>5 DEF Tally, BeforeTest
    <3>2. p \notin {"if_connected", "if_init"}
      BY <2>5 DEF Path, Counting
    <3>3. q \in {"payload", "remove"}
      BY <1>1, <1>7, <2>5, <3>2 DEF Assignments, Others, Makes, Goes, BeforeTest
    <3> QED  BY <1>2, <2>3, <2>5, <3>1, <3>3 DEF Tally
  <2> QED  BY <2>4, <2>5
<1>8. CASE p = "init_sequence_on"
  <2>1. q = "set_last" /\ UNCHANGED <<last_sequence, total_collision>>
    BY <1>1, <1>8 DEF Assignments, Makes, Counts
  <2> QED  BY <1>2, <1>8, <2>1 DEF Tally, Fresh, Even, BeforeTest
<1>9. CASE p = "set_last"
  <2>1. /\ q = "compare" /\ flag' = flag /\ total_collision' = total_collision
        /\ last_sequence' = Before(SequenceOf(c))
    BY <1>1, <1>9 DEF Others, Goes, Counts
  <2>2. number = tcp[x].sent /\ Even /\ DataHook(c) /\ flag["init_sequence"]
    BY <1>0, <1>3, <1>4, <1>9 DEF Tally, Counting, OfOpen, First
  <2>3. last_sequence' = Highest(x) - 1
    BY <1>3, <1>5, <2>1, <2>2 DEF Highest
  <2>4. Fresh(c)'
    BY <1>0, <1>2, <2>1, <2>2, <2>3 DEF Fresh, Even
  <2> QED  BY <2>1, <2>4 DEF Tally, BeforeTest
<1>10. CASE p = "compare"
  <2>1. /\ flag' = flag /\ UNCHANGED <<last_sequence, total_collision>> /\ DataHook(c)
        /\ q = IF Collided(SequenceOf(c)) THEN "load" ELSE "advance"
    BY <1>1, <1>4, <1>10 DEF Others, Goes, Counts, Counting
  <2>2. CASE Fresh(c)
    <3>1. flag["init_sequence"]
      BY <1>0, <1>3, <1>4, <1>10 DEF Counting, OfOpen, First
    <3>2. number = tcp[x].sent /\ Even /\ last_sequence = Highest(x) - 1
      BY <1>0, <2>2, <3>1 DEF Fresh
    <3>3. ~Collided(SequenceOf(c))
      BY <1>3, <1>5, <2>1, <3>2 DEF Collided, Highest
    <3> QED  BY <1>0, <1>2, <2>1, <3>2, <3>3 DEF Tally, Even, BeforeTest
  <2>3. CASE Again(c)
    <3>1. Collided(SequenceOf(c))
      BY <1>0, <1>3, <1>5, <2>1, <2>3 DEF Collided, Again
    <3>2. Again(c)'
      BY <1>0, <1>2, <2>1, <2>3 DEF Again, Behind
    <3> QED  BY <2>1, <3>1, <3>2 DEF Tally, BeforeTest
  <2> QED  BY <1>10, <2>2, <2>3 DEF Tally
<1>11. CASE p = "load"
  <2>1. /\ q = "store" /\ flag' = flag /\ UNCHANGED <<last_sequence, total_collision>>
        /\ hook'[c].reg = total_collision
    BY <1>1, <1>11 DEF Others, Goes, Counts
  <2>2. Again(c)'
    BY <1>0, <1>2, <1>11, <2>1 DEF Tally, Again, Behind
  <2> QED  BY <2>1, <2>2 DEF Tally, BeforeTest
<1>12. CASE p = "store"
  <2>1. /\ q = "remove" /\ flag' = flag /\ last_sequence' = last_sequence
        /\ total_collision' = (hook[c].reg + 1) % SEQ
    BY <1>1, <1>12 DEF Others, Goes, Counts
  <2>2. Again(c) /\ hook[c].reg = total_collision
    BY <1>12 DEF Tally
  <2>3. Done(c)'
    BY <1>0, <1>2, <2>1, <2>2 DEF Again, Done, Behind, Even
  <2> QED  BY <2>1, <2>3 DEF Tally, BeforeTest
<1>13. CASE p = "advance"
  <2>1. /\ q = "remove" /\ flag' = flag /\ total_collision' = total_collision
        /\ last_sequence' = SequenceOf(c)
    BY <1>1, <1>13 DEF Others, Goes, Counts
  <2>2. number = tcp[x].sent /\ Even /\ DataHook(c)
    BY <1>0, <1>4, <1>13 DEF Tally, Counting
  <2>3. last_sequence' = Highest(x)
    BY <1>5, <2>1, <2>2 DEF Highest
  <2>4. Done(c)'
    BY <1>0, <1>2, <2>1, <2>2, <2>3 DEF Done, Even
  <2> QED  BY <2>1, <2>4 DEF Tally, BeforeTest
<1> QED  BY <1>6, <1>7, <1>8, <1>9, <1>10, <1>11, <1>12, <1>13

LEMMA TallyEnter ==
  ASSUME TypeOK, FlowInv, TallyInv, InTurn', ~wrapped', NEW c \in Contexts, NEW x \in Conns,
         SendControl(c, x) \/ SendData(c, x) \/ Resend(c, x)
           \/ ReceiveControl(c, x) \/ ReceiveAgain(c, x)
  PROVE  TallyInv'
<1>1. InTurn /\ Quiet /\ Lone(x)
  BY FlowEnter
<1>2. Agrees(x) /\ tcp[x].state \in OwnWay
  BY <1>1 DEF FlowInv
<1>3. PICK seg \in Segments : Enter(c, seg) /\ seg.conn = x /\ Offered(x, seg)
  BY <1>2, TcpOffers DEF InTurn
<1>4. \A y \in Conns : tcp'[y].state = tcp[y].state
  BY <1>3 DEF Offered, NewData, DataAgain, TypeOK
<1>5. /\ hook'[c].pc = Entry(seg) /\ hook'[c].seg = seg /\ hook'[c].pc # "off"
      /\ \A d \in Contexts \ {c} : hook'[d] = hook[d]
      /\ UNCHANGED <<flag, last_sequence, total_collision>>
      /\ ~wrapped
  BY <1>3, <1>4, EnterDoes DEF flags
<1>6. \A d \in Contexts \ {c} : hook'[d].pc = "off"
  BY <1>1, <1>5 DEF Quiet, At
<1>7. Even /\ (flag["init_sequence"] => last_sequence = Highest(x))
  BY <1>1, <1>5 DEF TallyInv
<1>8. /\ tcp[x].sent \in Nat /\ InitialSeq[x] \in Nat /\ resent \in Nat /\ SEQ \in Nat \ {0}
      /\ flag["init_sequence"] \in BOOLEAN
  BY InitialSeqAssumption, BoundsAssumption, SeqAssumption DEF TypeOK, Flags
<1>9. HasData(hook[c].seg)' = HasData(seg)
  BY <1>5 DEF HasData
<1>10. /\ hook'[c].pc \in {"syn_require_on", "fin_require_on", "payload", "if_syn_require",
                           "if_fin_require", "return"}
       /\ HasData(seg) /\ seg.out => hook'[c].pc \in BeforeTest
  <2>1. HasData(seg) /\ seg.out => hook'[c].pc \in BeforeTest
    BY <1>5 DEF Entry, HasData, HasFin, BeforeTest
  <2> QED  BY <1>5, <2>1, EntryIs
<1>11. Tally(c)'
  <2>1. CASE ~HasData(seg)
    <3>1. tcp' = tcp /\ resent' = resent
      BY <1>3, <2>1 DEF Offered, NewData, DataAgain
    <3>2. Done(c)'
      BY <1>3, <1>5, <1>7, <3>1 DEF Done, Even, Highest
    <3> QED  BY <1>9, <1>10, <2>1, <3>2 DEF Tally
  <2>2. CASE NewData(x, seg) /\ tcp[x].state = "open"
    <3>1. seg.number = tcp'[x].sent /\ tcp'[x].sent = tcp[x].sent + 1 /\ resent' = resent
          /\ HasData(seg) /\ seg.out
      BY <2>2 DEF NewData, TypeOK
    <3>2. flag["init_sequence"] <=> tcp[x].sent > 0
      BY <1>2, <2>2 DEF Agrees, HasSent, OnLine
    <3>3. Highest(x)' = Highest(x) + 1 /\ Highest(x) \in Nat
      BY <1>8, <3>1 DEF Highest
    <3>4. Fresh(c)'
      BY <1>3, <1>5, <1>7, <1>8, <3>1, <3>2, <3>3 DEF Fresh, Even
    <3> QED  BY <1>9, <1>10, <3>1, <3>4 DEF Tally, BeforeTest
  <2>3. CASE DataAgain(x, seg) /\ tcp[x].state \in OnLine
    <3>1. tcp' = tcp /\ resent' = resent + 1 /\ HasData(seg) /\ seg.out /\ tcp[x].sent > 0
      BY <1>8, <2>3 DEF DataAgain
    <3>2. flag["init_sequence"]
      BY <1>2, <2>3, <3>1 DEF Agrees, HasSent
    <3>3. (total_collision + 1) % SEQ = (resent + 1) % SEQ
      BY <1>7, <1>8, ModSucc DEF Even
    <3>4. Again(c)'
      BY <1>3, <1>5, <1>7, <3>1, <3>2, <3>3 DEF Again, Behind, Highest
    <3> QED  BY <1>9, <1>10, <3>1, <3>4 DEF Tally, BeforeTest
  <2> QED  BY <1>3, <2>1, <2>2, <2>3 DEF Offered, HasData
<1>12. ~Quiet'
  BY <1>5 DEF Quiet, At
<1> QED  BY <1>6, <1>11, <1>12 DEF TallyInv, At

LEMMA TallyReturn ==
  ASSUME TypeOK, TcpInv, FlowInv, FlowInv', TallyInv, InTurn', ~wrapped',
         NEW c \in Contexts, Return(c)
  PROVE  TallyInv'
<1>0. PICK x \in Conns : x = hook[c].seg.conn
  BY ReturnDoes
<1>1. /\ hook[c].pc = "return" /\ hook'[c].pc = "off"
      /\ \A d \in Contexts \ {c} : hook'[d] = hook[d]
      /\ \A y \in Conns : tcp'[y].sent = tcp[y].sent
      /\ \A y \in Conns \ {x} : tcp'[y].state = tcp[y].state
      /\ Up(x) /\ UNCHANGED <<flags, resends, resent, history>>
  BY <1>0, ReturnDoes
<1>2. InTurn /\ ~wrapped /\ UNCHANGED <<flag, last_sequence, total_collision>>
  BY <1>1, FlowReturn DEF history, proc, flags
<1>3. Done(c)
  <2>1. Tally(c)
    BY <1>1, <1>2 DEF TallyInv, At
  <2> QED  BY <1>1, <2>1 DEF Tally, BeforeTest
<1>4. \A d \in Contexts : hook'[d].pc = "off"
  <2>1. \A d, e \in Contexts : ~At(d, "off") /\ ~At(e, "off") => d = e
    BY <1>2 DEF FlowInv
  <2> QED  BY <1>1, <2>1 DEF At
<1>5. Even'
  BY <1>1, <1>2, <1>3 DEF Done, Even
<1>6. ASSUME NEW y \in Conns, Lone(y)', flag'["init_sequence"] PROVE last_sequence' = Highest(y)'
  <2>1. CASE y = x
    BY <1>0, <1>1, <1>2, <1>3, <1>6, <2>1 DEF Done, Highest
  <2>2. CASE y # x
    <3>1. ~Up(y)
      BY <1>1, <1>2, <2>2 DEF TcpInv, Exclusive, InTurn
    <3>2. tcp'[y].state \in {"closed", "done"}
      BY <1>1, <2>2, <3>1 DEF Up
    <3>3. Agrees(y)'
      BY <1>4, <1>6 DEF FlowInv, Quiet, At
    <3> QED  BY <1>6, <3>2, <3>3 DEF Agrees, HasSent, OnLine
  <2> QED  BY <2>1, <2>2
<1> QED  BY <1>4, <1>5, <1>6 DEF TallyInv, At

LEMMA NextTally ==
  TypeOK /\ EntryInv /\ TcpInv /\ FlowInv /\ FlowInv' /\ TallyInv /\ [Next]_vars => TallyInv'
<1> SUFFICES ASSUME TypeOK, EntryInv, TcpInv, FlowInv, FlowInv', TallyInv, [Next]_vars,
                    InTurn', ~wrapped'
             PROVE  TallyInv'
  BY DEF TallyInv
<1>1. ASSUME NEW c \in Contexts, Statement(c), ~Return(c) PROVE TallyInv'
  <2>1. Stays(c) /\ Path(c)
    BY <1>1, StatementPath DEF TcpInv
  <2>2. InTurn /\ ~wrapped /\ ~At(c, "off") /\ ~At(c, "off")'
    BY <2>1 DEF InTurn, Stays, history, proc, At
  <2>3. Plain /\ Flow(c) /\ Tally(c)
    BY <2>2 DEF Plain, InTurn, FlowInv, TallyInv
  <2>4. Tally(c)'
    BY <1>1, <2>1, <2>3, TallyStatement
  <2>5. \A d \in Contexts : ~At(d, "off")' => d = c
    BY <2>1, <2>2 DEF Stays, FlowInv, At
  <2> QED  BY <2>2, <2>4, <2>5 DEF TallyInv, Quiet
<1>2. ASSUME UNCHANGED <<flag, last_sequence, total_collision, resent, hook, tcp,
                         crossed, overlap, passive, aborted, wrapped>>
      PROVE  TallyInv'
  <2>1. InTurn /\ ~wrapped /\ \A y \in Conns : Highest(y)' = Highest(y) /\ Lone(y)' = Lone(y)
    BY <1>2 DEF InTurn, Highest, Lone, Up, Hooked, At
  <2>2. \A d \in Contexts : Tally(d)' = Tally(d)
    BY <1>2 DEF Tally, Fresh, Again, Done, Even, Behind, Highest, HasData
  <2> QED  BY <1>2, <2>1, <2>2 DEF TallyInv, Quiet, At, Even
<1>3. ASSUME NEW x \in Conns, LastAck(x) \/ Abort(x) PROVE TallyInv'
  <2>1. InTurn /\ tcp[x].state = "last_ack"
    BY <1>3 DEF LastAck, Abort, InTurn, history, proc
  <2> QED  BY <2>1 DEF FlowInv, OwnWay
<1>4. CASE RemoveOnExit \/ Unregister \/ UNCHANGED vars
  BY <1>2, <1>4 DEF RemoveOnExit, Unregister, vars, history, proc, flags
<1> QED  BY <1>1, <1>3, <1>4, TallyEnter, TallyReturn DEF Next

\* In the circumstances of pktgen.py, and as long as no sequence number wraps around, every
\* retransmission is counted, in an unsigned int.
THEOREM NothingMissed == Spec => []CountsEveryResend
<1>1. TallyInv => CountsEveryResend
  BY DEF TallyInv, InTurn, Even, CountsEveryResend
<1>2. Spec => [](TypeOK /\ Counted /\ EntryInv /\ TcpInv /\ FlowInv /\ TallyInv)
  BY InitType, NextType, InitEntry, NextEntry, InitTcp, NextTcp, InitFlow, NextFlow,
     InitTally, NextTally, PTL DEF Spec
<1> QED  BY <1>1, <1>2, PTL

=============================================================================
