-------------------------- MODULE DelayPath_proofs --------------------------
(***************************************************************************)
(* Theorems about DelayPath: its type invariant, that no delay that was    *)
(* sent reaches the file, and when the module reads a file it may not.     *)
(***************************************************************************)
EXTENDS DelayPath, TLAPS

\* The steps of Next that leave the variables of put-delay alone, and those
\* that leave the programs alone.
ProgramStep ==
  \/ Transmit \/ Interrupt
  \/ \E h \in Receivers : Start(h) \/ Receive(h)
  \/ ReadTbi \/ OpenDelays \/ WriteDelays \/ StopTrained

KernelStep ==
  \/ InitJp \/ FileClose \/ Unregister \/ Unload
  \/ \E c \in Cpus : Enter(c) \/ FileReadInt(c) \/ Delay(c)

LEMMA NextSplits == Next <=> ProgramStep \/ KernelStep
BY DEF Next, ProgramStep, KernelStep

LEMMA KernelStepKeeps == KernelStep => UNCHANGED <<Programs, where, History>>
BY DEF KernelStep, InitJp, FileClose, Unregister, Unload, Enter, FileReadInt, Delay,
       Programs, History

LEMMA ProgramStepKeeps == ProgramStep => UNCHANGED <<Kernel, first>>
BY DEF ProgramStep, Transmit, Predict, Connect, ConnectFails, Send, Interrupt, Start, Receive,
       Recv, OpenFile, WriteFails, ReadTbi, OpenDelays, WriteDelays, StopTrained, Kernel, History

-----------------------------------------------------------------------------
(* Types. *)

ConnStates == {"open", "sent", "closed"}
ReceiverType == [program : {"rx_delay", "recv_delay", "none"},
                 at : {"off", "accept", "got", "opened"}, conns : Seq(ConnStates)]

LEMMA HostIsReceiver ==
  ASSUME TypeOK
  PROVE  Host \in Receivers
BY DEF TypeOK, Host, Receivers

LEMMA LastTerminal ==
  /\ 1 \in DOMAIN Terminals
  /\ \A i \in DOMAIN Terminals : i < Len(Terminals) => i + 1 \in DOMAIN Terminals
BY TerminalsAssumption

\* Change keeps the connections of the right type, and touches nothing else.
LEMMA ChangeKeepsType ==
  ASSUME TypeOK, NEW to \in ConnStates, NEW h \in Receivers, Change(h, to)
  PROVE  receiver' \in [Receivers -> ReceiverType]
<1> DEFINE s == receiver[h].conns
           t == [i \in DOMAIN s |-> IF s[i] = "open" THEN to ELSE s[i]]
<1>1. receiver \in [Receivers -> ReceiverType]
  BY DEF TypeOK, ReceiverType, ConnStates
<1>2. s \in Seq(ConnStates)
  BY <1>1 DEF ReceiverType
<1>3. t \in Seq(ConnStates)
  <2>1. PICK n \in Nat : s \in [1..n -> ConnStates]
    BY <1>2
  <2>2. t \in [1..n -> ConnStates]
    BY <2>1
  <2> QED
    BY <2>2
<1>4. receiver' = [receiver EXCEPT ![h].conns = t]
  BY DEF Change
<1> QED
  BY <1>1, <1>3, <1>4 DEF ReceiverType

LEMMA TypeInit == Init => TypeOK
<1> SUFFICES ASSUME Init PROVE TypeOK
  OBVIOUS
<1>1. file \in [Machines -> Contents] /\ first \in [Machines -> Contents]
  BY DEF Init, Contents
<1>2. receiver \in [Receivers -> ReceiverType]
  BY DEF Init, Down, ReceiverType
<1> QED
  BY <1>1, <1>2, LastTerminal DEF Init, TypeOK, ReceiverType, ConnStates, Machines, NoProbe

LEMMA TypeProgram ==
  ASSUME TypeOK, ProgramStep
  PROVE  TypeOK'
<1> USE DEF ConnStates
<1>r. receiver \in [Receivers -> ReceiverType]
  BY DEF TypeOK, ReceiverType
<1>k. UNCHANGED <<Kernel, first>>
  BY ProgramStepKeeps
<1>h. Host \in Receivers
  BY HostIsReceiver
<1>n. NextTerminal \in [at : {"off", "connect", "send", "sleep"}, i : DOMAIN Terminals]
  BY LastTerminal, TerminalsAssumption DEF NextTerminal, TypeOK
<1>f. Refused \in [at : {"off", "connect", "send", "sleep"}, i : DOMAIN Terminals]
  BY LastTerminal DEF Refused
<1>1. CASE Predict
  BY <1>1, <1>k, LastTerminal DEF Predict, TypeOK, Kernel, History
<1>2. CASE Connect
  <2>1. Append(receiver[Host].conns, "open") \in Seq(ConnStates)
    BY <1>r, <1>h DEF ReceiverType
  <2>2. receiver' = [receiver EXCEPT ![Host].conns = Append(@, "open")]
    BY <1>2 DEF Connect
  <2>3. receiver' \in [Receivers -> ReceiverType]
    BY <2>1, <2>2, <1>r, <1>h DEF ReceiverType
  <2>4. tx' \in [at : {"off", "connect", "send", "sleep"}, i : DOMAIN Terminals]
    BY <1>2 DEF Connect, TypeOK
  <2>5. UNCHANGED <<trained, file, History>>
    BY <1>2 DEF Connect
  <2> QED
    BY <2>3, <2>4, <2>5, <1>k DEF TypeOK, Kernel, History, ReceiverType
<1>3. CASE ConnectFails
  BY <1>3, <1>k, <1>f DEF ConnectFails, TypeOK, Kernel, History
<1>4. CASE Send
  <2>1. receiver' \in [Receivers -> ReceiverType]
    BY <1>4, <1>h, ChangeKeepsType DEF Send
  <2>2. tx' \in [at : {"off", "connect", "send", "sleep"}, i : DOMAIN Terminals]
    BY <1>4, <1>n, <1>f DEF Send
  <2> QED
    BY <1>4, <2>1, <2>2, <1>k DEF Send, TypeOK, Kernel, History, ReceiverType
<1>5. CASE Interrupt
  <2>1. receiver' \in [Receivers -> ReceiverType]
    BY <1>5, <1>h, ChangeKeepsType DEF Interrupt
  <2> QED
    BY <1>5, <2>1, <1>f, <1>k DEF Interrupt, TypeOK, Kernel, History, ReceiverType
<1>6. ASSUME NEW h \in Receivers, Start(h) PROVE TypeOK'
  <2>1. receiver' \in [Receivers -> ReceiverType]
    BY <1>6, <1>r DEF Start, ReceiverType
  <2> QED
    BY <1>6, <2>1, <1>k DEF Start, TypeOK, Kernel, History, ReceiverType
<1>7. ASSUME NEW h \in Receivers, Recv(h) PROVE TypeOK'
  <2>1. receiver' \in [Receivers -> ReceiverType]
    BY <1>7, <1>r DEF Recv, ReceiverType, Raised, Down
  <2> QED
    BY <1>7, <2>1, <1>k DEF Recv, TypeOK, Kernel, History, ReceiverType
<1>8. ASSUME NEW h \in Receivers, OpenFile(h) PROVE TypeOK'
  <2>1. receiver' \in [Receivers -> ReceiverType]
    BY <1>8, <1>r DEF OpenFile, ReceiverType
  <2>2. file' \in [Machines -> Contents] /\ delivered' \subseteq Receivers
    BY <1>8 DEF OpenFile, TypeOK, Contents, Machines
  <2> QED
    BY <1>8, <2>1, <2>2, <1>k DEF OpenFile, TypeOK, Kernel, ReceiverType
<1>9. ASSUME NEW h \in Receivers, WriteFails(h) PROVE TypeOK'
  <2>1. receiver' \in [Receivers -> ReceiverType]
    BY <1>9, <1>r DEF WriteFails, ReceiverType, Raised, Down
  <2>2. file' = file
    BY <1>9 DEF WriteFails, TypeOK
  <2>3. UNCHANGED <<tx, trained, History>>
    BY <1>9 DEF WriteFails
  <2> QED
    BY <2>1, <2>2, <2>3, <1>k DEF TypeOK, Kernel, History, ReceiverType
<1>10. CASE ReadTbi
  BY <1>10, <1>k DEF ReadTbi, TypeOK, Kernel, History
<1>11. CASE OpenDelays
  <2>1. file' \in [Machines -> Contents]
    BY <1>11 DEF OpenDelays, TypeOK, Contents
  <2> QED
    BY <1>11, <2>1, <1>k DEF OpenDelays, TypeOK, Kernel, History
<1>12. CASE WriteDelays
  <2>1. file' \in [Machines -> Contents]
    BY <1>12 DEF WriteDelays, TypeOK, Contents
  <2> QED
    BY <1>12, <2>1, <1>k DEF WriteDelays, TypeOK, Kernel
<1>13. CASE StopTrained
  BY <1>13, <1>k DEF StopTrained, TypeOK, Kernel, History
<1> QED
  BY <1>1, <1>2, <1>3, <1>4, <1>5, <1>6, <1>7, <1>8, <1>9, <1>10, <1>11, <1>12, <1>13
  DEF ProgramStep, Transmit, Receive

LEMMA TypeKernel ==
  ASSUME TypeOK, KernelStep
  PROVE  TypeOK'
<1>k. UNCHANGED <<Programs, where, History>>
  BY KernelStepKeeps
<1>1. CASE InitJp
  BY <1>1, <1>k DEF InitJp, FileOpen, TypeOK, Programs, History
<1>2. CASE FileClose
  BY <1>2, <1>k DEF FileClose, Dangling, TypeOK, Programs, History
<1>3. CASE Unregister
  BY <1>3, <1>k DEF Unregister, TypeOK, Programs, History
<1>4. CASE Unload
  BY <1>4, <1>k DEF Unload, TypeOK, Programs, History
<1>5. ASSUME NEW c \in Cpus, Enter(c) PROVE TypeOK'
  BY <1>5, <1>k DEF Enter, TypeOK, Programs, History
<1>6. ASSUME NEW c \in Cpus, FileReadInt(c) PROVE TypeOK'
  <2>1. probe' \in [Cpus -> [at : {"off", "read", "delay"},
                            ret : {"none", "number", "undefined", "freed"}]]
    BY <1>6 DEF FileReadInt, Kstrtol, TypeOK
  <2>2. module' \in {module, "oops"} /\ handle' = handle
    BY <1>6 DEF FileReadInt
  <2> QED
    BY <2>1, <2>2, <1>k DEF TypeOK, Programs, History
<1>7. ASSUME NEW c \in Cpus, Delay(c) PROVE TypeOK'
  BY <1>7, <1>k DEF Delay, NoProbe, TypeOK, Programs, History
<1> QED
  BY <1>1, <1>2, <1>3, <1>4, <1>5, <1>6, <1>7 DEF KernelStep

LEMMA TypeStep == TypeOK /\ [Next]_vars => TypeOK'
<1>1. TypeOK /\ UNCHANGED vars => TypeOK'
  BY DEF TypeOK, vars
<1> QED
  BY <1>1, TypeProgram, TypeKernel, NextSplits

\* Every variable of the delay path stays in its type, for any number of
\* terminals and processors and any backlog.
THEOREM TypeCorrect == Spec => []TypeOK
<1>1. Init => TypeOK
  BY TypeInit
<1>2. TypeOK /\ [Next]_vars => TypeOK'
  BY TypeStep
<1> QED
  BY <1>1, <1>2, PTL DEF Spec

-----------------------------------------------------------------------------
(* What the programs do to the files. *)

\* A terminal's file is what it was until its receiver gets a message, and empty
\* ever after; a receiver that has opened the file has taken a delay; TrainedModel has a
\* reading to subtract when it computes; no program makes a file disappear; the
\* hub's number is gone for good once it is overwritten.
DeliveredDelayLost ==
  \A h \in Receivers : file[h] = IF h \in delivered THEN "empty" ELSE first[h]
OpenedIsDelivered == \A h \in Receivers : At(h, "opened") => h \in delivered
BasisIsReading ==
  /\ trained.start => trained.tmp = "reading"
  /\ trained.at \in {"open", "write"} => trained.basis = "reading"
FilesStay == \A m \in Machines : file[m] = "missing" => first[m] = "missing"
FilesInv ==
  TypeOK /\ DeliveredDelayLost /\ OpenedIsDelivered /\ BasisIsReading
         /\ ListsFromDifferences /\ FilesStay

LEMMA FilesInit == Init => FilesInv
<1> SUFFICES ASSUME Init PROVE FilesInv
  OBVIOUS
<1>1. file = first /\ delivered = {} /\ written = "nothing"
  BY DEF Init
<1>2. receiver = [h \in Receivers |-> Down]
  BY DEF Init
<1> QED
  BY <1>1, <1>2, TypeInit
  DEF Init, FilesInv, DeliveredDelayLost, OpenedIsDelivered, BasisIsReading,
      ListsFromDifferences, FilesStay, At, Down

\* What is said of the receivers and the files.
FilePart == DeliveredDelayLost /\ OpenedIsDelivered /\ FilesStay

LEMMA FilePartKept ==
  ASSUME FilesInv, UNCHANGED <<file, History>>,
         \A h \in Receivers : At(h, "opened")' => At(h, "opened")
  PROVE  FilePart'
BY DEF FilesInv, FilePart, DeliveredDelayLost, OpenedIsDelivered, FilesStay, History

LEMMA FilePartStep ==
  ASSUME FilesInv, ProgramStep
  PROVE  FilePart'
<1>r. receiver \in [Receivers -> ReceiverType]
  BY DEF FilesInv, TypeOK, ReceiverType, ConnStates
<1>f. file \in [Machines -> Contents] /\ first' = first /\ Receivers \subseteq Machines
  BY ProgramStepKeeps DEF FilesInv, TypeOK, Machines
<1>1. ASSUME UNCHANGED <<receiver, file, History>> PROVE FilePart'
  BY <1>1, FilePartKept DEF At
<1>2. CASE Connect
  <2>1. \A h \in Receivers : receiver'[h].at = receiver[h].at
    BY <1>2, <1>r DEF Connect, ReceiverType
  <2> QED
    BY <1>2, <2>1, FilePartKept DEF Connect, At
<1>3. CASE Send \/ Interrupt
  <2>1. PICK to \in ConnStates : Change(Host, to)
    BY <1>3 DEF Send, Interrupt, ConnStates
  <2>2. \A h \in Receivers : receiver'[h].at = receiver[h].at
    BY <2>1, <1>r DEF Change, ReceiverType
  <2> QED
    BY <1>3, <2>2, FilePartKept DEF Send, Interrupt, At
<1>4. ASSUME NEW h \in Receivers, Start(h) \/ Recv(h) PROVE FilePart'
  <2>s. ASSUME Start(h)
        PROVE  \E r : r.at # "opened" /\ receiver' = [receiver EXCEPT ![h] = r]
    BY <2>s DEF Start
  <2>t. ASSUME Recv(h)
        PROVE  \E r : r.at # "opened" /\ receiver' = [receiver EXCEPT ![h] = r]
    <3>1. [receiver[h] EXCEPT !.at = "got"].at = "got" /\ Raised(h).at = "off"
      BY <1>r DEF ReceiverType, Raised, Down
    <3> QED
      BY <2>t, <3>1 DEF Recv
  <2>1. PICK r : r.at # "opened" /\ receiver' = [receiver EXCEPT ![h] = r]
    BY <1>4, <2>s, <2>t
  <2>2. \A g \in Receivers : receiver'[g].at = "opened" => receiver[g].at = "opened"
    BY <2>1, <1>r
  <2> QED
    BY <1>4, <2>2, FilePartKept DEF Start, Recv, At
<1>5. ASSUME NEW h \in Receivers, OpenFile(h) PROVE FilePart'
  <2>1. file' = [file EXCEPT ![h] = "empty"] /\ delivered' = delivered \cup {h}
    BY <1>5 DEF OpenFile
  <2>2. \A g \in Receivers : g # h => receiver'[g] = receiver[g]
    BY <1>5, <1>r DEF OpenFile
  <2>3. \A m \in Machines : file'[m] = IF m = h THEN "empty" ELSE file[m]
    BY <2>1, <1>f
  <2>4. DeliveredDelayLost'
    BY <2>1, <2>3, <1>f DEF FilesInv, DeliveredDelayLost
  <2>5. OpenedIsDelivered'
    BY <2>1, <2>2 DEF FilesInv, OpenedIsDelivered, At
  <2>6. FilesStay'
    BY <2>3, <1>f DEF FilesInv, FilesStay
  <2> QED
    BY <2>4, <2>5, <2>6 DEF FilePart
<1>6. ASSUME NEW h \in Receivers, WriteFails(h) PROVE FilePart'
  <2>1. file' = file
    BY <1>6, <1>f DEF WriteFails
  <2>2. \A g \in Receivers : receiver'[g].at = "opened" => receiver[g].at = "opened"
    BY <1>6, <1>r DEF WriteFails, Raised, Down, ReceiverType
  <2>3. UNCHANGED History
    BY <1>6 DEF WriteFails
  <2> QED
    BY <2>1, <2>2, <2>3, FilePartKept DEF At
<1>7. CASE OpenDelays \/ WriteDelays
  <2>1. UNCHANGED <<receiver, delivered>>
    BY <1>7 DEF OpenDelays, WriteDelays, History
  <2>2. PICK content \in {"empty", "list"} : file' = [file EXCEPT ![Hub] = content]
    BY <1>7 DEF OpenDelays, WriteDelays
  <2>3. \A m \in Machines : file'[m] = IF m = Hub THEN content ELSE file[m]
    BY <2>2, <1>f
  <2> QED
    BY <2>1, <2>3, <1>f, TerminalsAssumption
    DEF FilesInv, FilePart, DeliveredDelayLost, OpenedIsDelivered, FilesStay, At
<1>8. CASE Predict \/ ConnectFails \/ ReadTbi \/ StopTrained
  BY <1>8, <1>1 DEF Predict, ConnectFails, ReadTbi, StopTrained
<1> QED
  BY <1>2, <1>3, <1>4, <1>5, <1>6, <1>7, <1>8 DEF ProgramStep, Transmit, Receive

LEMMA ListsStep ==
  ASSUME FilesInv, ProgramStep
  PROVE  BasisIsReading' /\ ListsFromDifferences'
<1> USE DEF BasisIsReading, ListsFromDifferences
<1>1. ASSUME UNCHANGED <<trained, written>> PROVE BasisIsReading' /\ ListsFromDifferences'
  BY <1>1 DEF FilesInv
<1>2. CASE ReadTbi
  BY <1>2 DEF FilesInv, ReadTbi, Used, History
<1>3. CASE OpenDelays \/ WriteDelays \/ StopTrained
  BY <1>3 DEF FilesInv, TypeOK, OpenDelays, WriteDelays, StopTrained, History
<1>4. CASE Transmit \/ Interrupt
  BY <1>4, <1>1 DEF Transmit, Predict, Connect, ConnectFails, Send, Interrupt, History
<1>5. ASSUME NEW h \in Receivers, Start(h) \/ Receive(h) PROVE UNCHANGED <<trained, written>>
  BY <1>5 DEF Start, Receive, Recv, OpenFile, WriteFails, History
<1> QED
  BY <1>1, <1>2, <1>3, <1>4, <1>5 DEF ProgramStep

LEMMA FilesStep == FilesInv /\ [Next]_vars => FilesInv'
<1> SUFFICES ASSUME FilesInv, [Next]_vars PROVE FilesInv'
  OBVIOUS
<1>1. TypeOK'
  BY TypeStep DEF FilesInv
<1>2. CASE ProgramStep
  BY <1>1, <1>2, FilePartStep, ListsStep DEF FilesInv, FilePart
<1>3. CASE KernelStep \/ UNCHANGED vars
  <2>1. UNCHANGED <<receiver, file, trained, first, delivered, written>>
    BY <1>3, KernelStepKeeps DEF vars, Programs, History
  <2> QED
    BY <1>1, <2>1
    DEF FilesInv, DeliveredDelayLost, OpenedIsDelivered, BasisIsReading,
        ListsFromDifferences, FilesStay, At
<1> QED
  BY <1>2, <1>3, NextSplits

THEOREM FilesAlways == Spec => []FilesInv
<1> QED
  BY FilesInit, FilesStep, PTL DEF Spec

\* TrainedModel never writes a list that was computed from absolute counters
\* (TrainedModel.py), however often it is stopped and started.
THEOREM ListsSound == Spec => []ListsFromDifferences
<1>1. FilesInv => ListsFromDifferences
  BY DEF FilesInv
<1> QED
  BY <1>1, FilesAlways, PTL

-----------------------------------------------------------------------------
(* What the module reads. *)

\* The handle says how far exit_jp has come; a probe that runs keeps the module in
\* memory; what it has read it holds until its delay; a null handle comes from a
\* missing file, and an undefined delay from a file that holds no number.
Overwritten ==
  first[where] # "number" \/ where \in delivered \/ (where = Hub /\ file[Hub] # "number")
HandleInv ==
  /\ (handle = "closed") <=> module \in {"closed", "waiting"}
  /\ handle = "null" /\ module # "unloaded" => first[where] = "missing"
  /\ module = "oops" => handle = "null"
ProbesInv ==
  \A c \in Cpus :
    /\ probe[c].at # "off" => module # "unloaded"
    /\ probe[c].ret # "none" => probe[c].at = "delay"
    /\ probe[c].ret = "freed" => module \in {"closed", "waiting"}
    /\ probe[c].ret = "undefined" => Overwritten
ModuleInv == HandleInv /\ ProbesInv

LEMMA ModuleInit == Init => ModuleInv
BY DEF Init, ModuleInv, HandleInv, ProbesInv, NoProbe

\* Once the file has been written to, or never held a number, that stays so.
LEMMA OverwrittenStays ==
  ASSUME FilesInv, ProgramStep, Overwritten
  PROVE  Overwritten'
<1>f. file \in [Machines -> Contents] /\ where' = where /\ first' = first /\ where \in Machines
      /\ Hub \in Machines
  BY ProgramStepKeeps DEF FilesInv, TypeOK, Kernel, Machines
<1>1. delivered \subseteq delivered'
  BY DEF ProgramStep, Transmit, Predict, Connect, ConnectFails, Send, Interrupt, Start, Receive,
       Recv, OpenFile, WriteFails, ReadTbi, OpenDelays, WriteDelays, StopTrained, History
<1>2. file[Hub] # "number" => file'[Hub] # "number"
  <2>1. ASSUME NEW h \in Receivers, OpenFile(h) PROVE file'[Hub] = file[Hub]
    BY <2>1, <1>f, TerminalsAssumption DEF OpenFile
  <2>2. ASSUME NEW h \in Receivers, WriteFails(h) PROVE file'[Hub] = file[Hub]
    BY <2>2, <1>f, TerminalsAssumption DEF WriteFails
  <2>3. ASSUME OpenDelays \/ WriteDelays PROVE file'[Hub] # "number"
    BY <2>3, <1>f DEF OpenDelays, WriteDelays
  <2>4. ASSUME NEW h \in Receivers, Start(h) \/ Recv(h) PROVE file' = file
    BY <2>4 DEF Start, Recv
  <2>5. ASSUME Transmit \/ Interrupt \/ ReadTbi \/ StopTrained PROVE file' = file
    BY <2>5 DEF Transmit, Predict, Connect, ConnectFails, Send, Interrupt, ReadTbi, StopTrained
  <2> QED
    BY <2>1, <2>2, <2>3, <2>4, <2>5 DEF ProgramStep, Receive
<1> QED
  BY <1>f, <1>1, <1>2 DEF Overwritten

LEMMA ModuleProgram ==
  ASSUME FilesInv, ModuleInv, ProgramStep
  PROVE  ModuleInv'
<1>1. UNCHANGED <<where, module, handle, probe, first>>
  BY ProgramStepKeeps DEF Kernel
<1>2. HandleInv'
  BY <1>1 DEF ModuleInv, HandleInv
<1>3. ProbesInv'
  BY <1>1, OverwrittenStays DEF ModuleInv, ProbesInv
<1> QED
  BY <1>2, <1>3 DEF ModuleInv

LEMMA ModuleKernel ==
  ASSUME FilesInv, ModuleInv, KernelStep
  PROVE  ModuleInv'
<1>k. UNCHANGED <<file, where, first, delivered>>
  BY KernelStepKeeps DEF Programs, History
<1>t. /\ probe \in [Cpus -> [at : {"off", "read", "delay"},
                         ret : {"none", "number", "undefined", "freed"}]]
      /\ where \in Machines
  BY DEF FilesInv, TypeOK
<1>o. Overwritten' <=> Overwritten
  BY <1>k DEF Overwritten
<1>1. CASE InitJp
  <2>1. HandleInv'
    BY <1>1, <1>k DEF InitJp, FileOpen, ModuleInv, HandleInv, FilesInv, FilesStay, TypeOK
  <2>2. ProbesInv'
    BY <1>1, <1>o DEF InitJp, ModuleInv, ProbesInv
  <2> QED
    BY <2>1, <2>2 DEF ModuleInv
<1>2. CASE FileClose
  <2>1. HandleInv'
    BY <1>2, <1>k DEF FileClose, Dangling, ModuleInv, HandleInv, FilesInv, TypeOK
  <2>2. ProbesInv'
    BY <1>2, <1>o DEF FileClose, ModuleInv, ProbesInv
  <2> QED
    BY <2>1, <2>2 DEF ModuleInv
<1>3. CASE Unregister
  <2>1. HandleInv'
    BY <1>3, <1>k DEF Unregister, ModuleInv, HandleInv
  <2>2. ProbesInv'
    BY <1>3, <1>o DEF Unregister, ModuleInv, ProbesInv
  <2> QED
    BY <2>1, <2>2 DEF ModuleInv
<1>4. CASE Unload
  <2>1. HandleInv'
    BY <1>4, <1>k DEF Unload, ModuleInv, HandleInv
  <2>2. ProbesInv'
    BY <1>4, <1>o DEF Unload, Over, ModuleInv, ProbesInv
  <2> QED
    BY <2>1, <2>2 DEF ModuleInv
<1>5. ASSUME NEW c \in Cpus, Enter(c) PROVE ModuleInv'
  <2>1. HandleInv'
    BY <1>5, <1>k DEF Enter, ModuleInv, HandleInv
  <2>2. ProbesInv'
    BY <1>5, <1>o, <1>t DEF Enter, ModuleInv, ProbesInv
  <2> QED
    BY <2>1, <2>2 DEF ModuleInv
<1>6. ASSUME NEW c \in Cpus, FileReadInt(c) PROVE ModuleInv'
  <2>1. CASE handle = "null"
    <3>1. module' = "oops" /\ UNCHANGED <<probe, handle>>
      BY <1>6, <2>1 DEF FileReadInt
    <3>2. first[where] = "missing"
      BY <1>6, <2>1 DEF FileReadInt, ModuleInv, HandleInv, ProbesInv
    <3> QED
      BY <3>1, <3>2, <2>1, <1>k, <1>o DEF ModuleInv, HandleInv, ProbesInv
  <2>2. CASE handle # "null"
    <3>1. UNCHANGED <<module, handle>>
      BY <1>6, <2>2 DEF FileReadInt
    <3>2. PICK got : /\ got = IF handle = "closed" THEN "freed" ELSE Kstrtol(file[where])
                     /\ probe' = [probe EXCEPT ![c] = [at |-> "delay", ret |-> got]]
      BY <1>6, <2>2 DEF FileReadInt
    <3>3. got = "undefined" => Overwritten
      BY <3>2, <1>t DEF Kstrtol, Overwritten, FilesInv, DeliveredDelayLost, Machines
    <3>4. got = "freed" => module \in {"closed", "waiting"}
      BY <3>2 DEF Kstrtol, ModuleInv, HandleInv
    <3>5. module # "unloaded"
      BY <1>6 DEF FileReadInt, ModuleInv, ProbesInv
    <3>6. \A d \in Cpus : probe'[d] = IF d = c THEN [at |-> "delay", ret |-> got] ELSE probe[d]
      BY <3>2, <1>t
    <3>7. HandleInv'
      BY <3>1, <1>k DEF ModuleInv, HandleInv
    <3>8. ProbesInv'
      BY <3>1, <3>3, <3>4, <3>5, <3>6, <1>o DEF ModuleInv, ProbesInv
    <3> QED
      BY <3>7, <3>8 DEF ModuleInv
  <2> QED
    BY <2>1, <2>2
<1>7. ASSUME NEW c \in Cpus, Delay(c) PROVE ModuleInv'
  <2>1. HandleInv'
    BY <1>7, <1>k DEF Delay, ModuleInv, HandleInv
  <2>2. ProbesInv'
    BY <1>7, <1>o, <1>t DEF Delay, NoProbe, ModuleInv, ProbesInv
  <2> QED
    BY <2>1, <2>2 DEF ModuleInv
<1> QED
  BY <1>1, <1>2, <1>3, <1>4, <1>5, <1>6, <1>7 DEF KernelStep

LEMMA ModuleStep == FilesInv /\ ModuleInv /\ [Next]_vars => ModuleInv'
<1>1. ModuleInv /\ UNCHANGED vars => ModuleInv'
  BY DEF ModuleInv, HandleInv, ProbesInv, Overwritten, vars
<1> QED
  BY <1>1, ModuleProgram, ModuleKernel, NextSplits

THEOREM ModuleAlways == Spec => []ModuleInv
<1> QED
  BY ModuleInit, ModuleStep, FilesAlways, PTL DEF Spec

\* With any number of processors a delay is undefined only after somebody wrote to
\* the file, or when it never held a number; a probe reads the closed file only
\* inside exit_jp; and the kernel stumbles only over a file that was missing.
THEOREM ReadsSound == Spec => []ModuleReads
<1>1. ModuleInv => UndefinedOnlyIfWritten
  BY DEF ModuleInv, ProbesInv, Overwritten, UndefinedOnlyIfWritten
<1>2. ModuleInv => ClosedOnlyInExit
  BY DEF ModuleInv, ProbesInv, ClosedOnlyInExit
<1>3. ModuleInv => OopsOnlyWithoutFile
  <2>1. module = "oops" /\ ModuleInv => handle = "null" /\ module # "unloaded"
    BY DEF ModuleInv, HandleInv
  <2> QED
    BY <2>1 DEF ModuleInv, HandleInv, OopsOnlyWithoutFile
<1>4. ModuleInv => ModuleReads
  BY <1>1, <1>2, <1>3 DEF ModuleReads
<1> QED
  BY <1>4, ModuleAlways, PTL

=============================================================================
