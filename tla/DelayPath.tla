------------------------------ MODULE DelayPath ------------------------------
(***************************************************************************)
(* The way of a delay from the predictor to a segment (model/tx_delay.py,  *)
(* TrainedModel.py and rx_delay.py, delivery/terminal/recv_delay.py,       *)
(* delay/put_delay.c and file_ops.c).                                      *)
(*                                                                         *)
(* tx_delay on the hub predicts a delay for every terminal and sends it on *)
(* a connection of its own.  A receiver there writes it to the file delay, *)
(* which the kernel module has open: a probe parses it for every segment.  *)
(* TrainedModel, the predictor before it, writes a list of delays to the   *)
(* same file of the hub.                                                   *)
(*                                                                         *)
(* Both receivers hand a value of the wrong type to print or to write,     *)
(* after the file was truncated, and end with TypeError.  tx_delay catches *)
(* KeyboardInterrupt only.  The module keeps its pointer after file_close. *)
(***************************************************************************)
EXTENDS Naturals, Sequences

CONSTANTS
  Terminals,   \* in the order of tx_delay's loop
  Cpus,        \* processors of the machine the module is loaded on
  MaxBacklog   \* bound on the connections that wait for a receiver

Hub       == "hub"
Receivers == {Terminals[i] : i \in DOMAIN Terminals}
Machines  == Receivers \cup {Hub}

ASSUME TerminalsAssumption ==
  Terminals \in Seq(STRING) /\ Terminals # <<>> /\ Hub \notin Receivers
ASSUME BacklogAssumption == MaxBacklog \in Nat \ {0}

VARIABLES
  predictor, \* the one that is used
  tx,        \* tx_delay: where it is, and the terminal of its loop
  trained,   \* TrainedModel: where it is, start, tmp, and what was subtracted
  receiver,  \* per terminal: the program, where it is, and its connections
  file,      \* per machine: what the file delay holds
  where,     \* the machine put-delay is for: a terminal, or the hub for TrainedModel
  module,    \* how far init_jp and exit_jp have come
  handle,    \* the module's pointer to the file
  probe,     \* per processor: where its probe is, and the delay it has read
  first,     \* per machine: what the file held at the start; history
  delivered, \* the terminals whose receiver has got a delay; history
  written    \* what the difference behind the list was taken against; history

vars == <<predictor, tx, trained, receiver, file, where, module, handle, probe,
          first, delivered, written>>

-----------------------------------------------------------------------------

\* A file holds the list TrainedModel writes, as the repository's does, or a
\* number somebody put there.
Contents == {"missing", "empty", "list", "number"}
Down     == [program |-> "none", at |-> "off", conns |-> <<>>]
NoProbe  == [at |-> "off", ret |-> "none"]

Init ==
  /\ predictor \in {"tx_delay", "TrainedModel"}
  /\ where \in IF predictor = "tx_delay" THEN Receivers ELSE {Hub}
  /\ tx      = [at |-> "off", i |-> 1]
  /\ trained = [at |-> "off", start |-> FALSE, tmp |-> "zeros", basis |-> "zeros"]
  /\ receiver = [h \in Receivers |-> Down]
  /\ \E content \in {"missing", "list", "number"} :
       file = [m \in Machines |-> IF m = where THEN content ELSE "list"]
  /\ module = "unloaded" /\ handle = "null"
  /\ probe  = [c \in Cpus |-> NoProbe]
  /\ first  = file
  /\ delivered = {}
  /\ written = "nothing"

Host      == Terminals[tx.i]
At(h, p)  == receiver[h].at = p
Kernel    == <<predictor, where, module, handle, probe>>
History   == <<first, delivered, written>>

(***************************************************************************)
(* tx_delay.                                                               *)
(***************************************************************************)

\* The next terminal, or sleep(1).
\* Mutants: one past the last; the same again.
SameTerminal == [at |-> "connect", i |-> tx.i]
OnePast == IF tx.i <= Len(Terminals) THEN [at |-> "connect", i |-> tx.i + 1]
                                     ELSE [at |-> "sleep", i |-> 1]
NextTerminal == IF tx.i < Len(Terminals) THEN [at |-> "connect", i |-> tx.i + 1]
                                         ELSE [at |-> "sleep", i |-> 1]

\* Started; or awake: the line of /proc/tbi is read and the network is run.
Predict ==
  /\ predictor = "tx_delay"
  /\ tx.at \in {"off", "sleep"}
  /\ tx' = [at |-> "connect", i |-> 1]
  /\ UNCHANGED <<trained, receiver, file, Kernel, History>>

Connect ==
  /\ tx.at = "connect" /\ ~At(Host, "off")
  /\ Len(receiver[Host].conns) < MaxBacklog
  /\ receiver' = [receiver EXCEPT ![Host].conns = Append(@, "open")]
  /\ tx' = [tx EXCEPT !.at = "send"]
  /\ UNCHANGED <<trained, file, Kernel, History>>

\* ConnectionRefusedError ends the program.
Refused == [at |-> "off", i |-> 1]
ConnectFails ==
  /\ tx.at = "connect" /\ At(Host, "off")
  /\ tx' = Refused
  /\ UNCHANGED <<trained, receiver, file, Kernel, History>>

\* The connection tx_delay has open, when the receiver has not ended with it.
Open(h)   == {i \in DOMAIN receiver[h].conns : receiver[h].conns[i] = "open"}
Change(h, to) ==
  receiver' = [receiver EXCEPT ![h].conns = [i \in DOMAIN @ |-> IF @[i] = "open" THEN to ELSE @[i]]]

\* sendall, and the with block closes the connection.  One that was reset is
\* noticed or not.
Send ==
  /\ tx.at = "send"
  /\ Change(Host, "sent")
  /\ tx' \in IF Open(Host) = {} THEN {NextTerminal, Refused} ELSE {NextTerminal}
  /\ UNCHANGED <<trained, file, Kernel, History>>

\* Ctrl-C, and NameError for ff.
Interrupt ==
  /\ tx.at # "off"
  /\ Change(Host, "closed")
  /\ tx' = Refused
  /\ UNCHANGED <<trained, file, Kernel, History>>

(***************************************************************************)
(* The receivers.                                                          *)
(***************************************************************************)

Start(h) ==
  /\ At(h, "off")
  /\ \E program \in {"rx_delay", "recv_delay"} :
       receiver' = [receiver EXCEPT ![h] = [program |-> program, at |-> "accept", conns |-> <<>>]]
  /\ UNCHANGED <<tx, trained, file, Kernel, History>>

\* An exception closes the connection, the listening socket and the program.
Raised(h) == Down

\* recv has returned the delay, or nothing when tx_delay was interrupted: then
\* int('') ends recv_delay.
Recv(h) ==
  LET got == Head(receiver[h].conns) IN
  /\ At(h, "accept") /\ receiver[h].conns # <<>> /\ got # "open"
  /\ receiver' = [receiver EXCEPT ![h] =
       IF got = "closed" /\ receiver[h].program = "recv_delay" THEN Raised(h)
       ELSE [@ EXCEPT !.at = "got"]]
  /\ UNCHANGED <<tx, trained, file, Kernel, History>>

\* open('delay', 'w') truncates the file, or creates it.
OpenFile(h) ==
  /\ At(h, "got")
  /\ file' = [file EXCEPT ![h] = "empty"]
  /\ receiver' = [receiver EXCEPT ![h].at = "opened"]
  /\ delivered' = delivered \cup {h}
  /\ UNCHANGED <<tx, trained, Kernel, first, written>>

\* '%d' % delay in rx_delay, f.write(delay) in recv_delay: TypeError; nothing
\* is written when the with block closes the file.
WriteFails(h) ==
  /\ At(h, "opened")
  /\ receiver' = [receiver EXCEPT ![h] = Raised(h)]
  /\ UNCHANGED <<tx, trained, file, Kernel, History>>

(***************************************************************************)
(* TrainedModel.                                                           *)
(***************************************************************************)

\* A line of /proc/tbi less the last; the first time it is not used.
\* Mutant: it is used at once.
UsedAtOnce == TRUE
Used == trained.start
ReadTbi ==
  /\ predictor = "TrainedModel"
  /\ trained.at \in {"off", "read", "sleep"}
  /\ trained' = [at |-> IF Used THEN "open" ELSE "read", start |-> TRUE,
                 tmp |-> "reading", basis |-> trained.tmp]
  /\ UNCHANGED <<tx, receiver, file, Kernel, History>>

OpenDelays ==
  /\ trained.at = "open"
  /\ file' = [file EXCEPT ![Hub] = "empty"]
  /\ trained' = [trained EXCEPT !.at = "write"]
  /\ UNCHANGED <<tx, receiver, Kernel, History>>

WriteDelays ==
  /\ trained.at = "write"
  /\ file' = [file EXCEPT ![Hub] = "list"]
  /\ trained' = [trained EXCEPT !.at = "sleep"]
  /\ written' = trained.basis
  /\ UNCHANGED <<tx, receiver, Kernel, first, delivered>>

\* Ctrl-C; the file stays as it is.
StopTrained ==
  /\ trained.at # "off"
  /\ trained' = [at |-> "off", start |-> FALSE, tmp |-> "zeros", basis |-> "zeros"]
  /\ UNCHANGED <<tx, receiver, file, Kernel, History>>

(***************************************************************************)
(* put-delay.                                                              *)
(***************************************************************************)

Programs == <<predictor, tx, trained, receiver, file>>

\* A file that is missing leaves a null pointer.
FileOpen(content) == IF content = "missing" THEN "null" ELSE "file"

\* file_open and register_jprobe.
InitJp ==
  /\ module = "unloaded"
  /\ handle' = FileOpen(file[where])
  /\ module' = "live"
  /\ UNCHANGED <<Programs, where, probe, History>>

\* A segment is sent.
Enter(c) ==
  /\ module \in {"live", "closed"} /\ probe[c].at = "off"
  /\ probe' = [probe EXCEPT ![c].at = "read"]
  /\ UNCHANGED <<Programs, where, module, handle, History>>

\* kstrtol leaves ret uninitialised for anything but a number.
Kstrtol(content) == IF content = "number" THEN "number" ELSE "undefined"

\* file_read_int.
FileReadInt(c) ==
  /\ module # "oops" /\ probe[c].at = "read"
  /\ IF handle = "null"
     THEN module' = "oops" /\ UNCHANGED probe
     ELSE /\ probe' = [probe EXCEPT ![c] = [at |-> "delay",
                ret |-> IF handle = "closed" THEN "freed" ELSE Kstrtol(file[where])]]
          /\ UNCHANGED module
  /\ UNCHANGED <<Programs, where, handle, History>>

\* udelay and jprobe_return.
Delay(c) ==
  /\ module # "oops" /\ probe[c].at = "delay"
  /\ probe' = [probe EXCEPT ![c] = NoProbe]
  /\ UNCHANGED <<Programs, where, module, handle, History>>

\* filp_close reads the count of the file, even through a null pointer.
\* Mutant: the pointer is cleared, the probe still registered.
Cleared   == "null"
Dangling  == "closed"
FileClose ==
  /\ module = "live"
  /\ IF handle = "null" THEN module' = "oops" /\ UNCHANGED handle
                        ELSE module' = "closed" /\ handle' = Dangling
  /\ UNCHANGED <<Programs, where, probe, History>>

\* unregister_jprobe: no probe begins any more, and those that run are waited for.
Unregister ==
  /\ module = "closed"
  /\ module' = "waiting"
  /\ UNCHANGED <<Programs, where, handle, probe, History>>

Over(c) == probe[c].at = "off"
Unload ==
  /\ module = "waiting" /\ \A c \in Cpus : Over(c)
  /\ module' = "unloaded" /\ handle' = "null"
  /\ UNCHANGED <<Programs, where, probe, History>>

-----------------------------------------------------------------------------

Transmit   == Predict \/ Connect \/ ConnectFails \/ Send
Receive(h) == Recv(h) \/ OpenFile(h) \/ WriteFails(h)

Next ==
  \/ Transmit \/ Interrupt
  \/ \E h \in Receivers : Start(h) \/ Receive(h)
  \/ ReadTbi \/ OpenDelays \/ WriteDelays \/ StopTrained
  \/ InitJp \/ FileClose \/ Unregister \/ Unload
  \/ \E c \in Cpus : Enter(c) \/ FileReadInt(c) \/ Delay(c)

\* Programs that run go on; nobody needs to start one.
Spec ==
  /\ Init /\ [][Next]_vars
  /\ WF_vars(tx.at # "off" /\ Transmit)
  /\ \A h \in Receivers : WF_vars(Receive(h))

-----------------------------------------------------------------------------
(***************************************************************************)
(* Properties.                                                             *)
(***************************************************************************)

\* The variables have their types.
TypeOK ==
  /\ tx \in [at : {"off", "connect", "send", "sleep"}, i : DOMAIN Terminals]
  /\ trained \in [at : {"off", "read", "open", "write", "sleep"}, start : BOOLEAN,
                  tmp : {"zeros", "reading"}, basis : {"zeros", "reading"}]
  /\ receiver \in [Receivers -> [program : {"rx_delay", "recv_delay", "none"},
                                 at : {"off", "accept", "got", "opened"},
                                 conns : Seq({"open", "sent", "closed"})]]
  /\ file \in [Machines -> Contents] /\ first \in [Machines -> Contents]
  /\ where \in Machines /\ predictor \in {"tx_delay", "TrainedModel"}
  /\ module \in {"unloaded", "live", "closed", "waiting", "oops"}
  /\ handle \in {"null", "file", "closed"}
  /\ probe \in [Cpus -> [at : {"off", "read", "delay"},
                         ret : {"none", "number", "undefined", "freed"}]]
  /\ delivered \subseteq Receivers
  /\ written \in {"nothing", "zeros", "reading"}

\* As long as nobody writes to a file that holds a number, a segment is delayed by
\* a number, and not by what happens to be on the stack.
UndefinedOnlyIfWritten ==
  \A c \in Cpus : probe[c].ret = "undefined" =>
    first[where] # "number" \/ where \in delivered \/ (where = Hub /\ file[Hub] # "number")

\* A probe reads a file that is closed only until exit_jp is done.
ClosedOnlyInExit ==
  \A c \in Cpus : probe[c].ret = "freed" => module \in {"closed", "waiting"}

\* The kernel stumbles over the module only when the file was missing at its
\* load, in the first probe or at exit; neither a truncated file nor a probe that
\* races with exit_jp does it.
OopsOnlyWithoutFile == module = "oops" => first[where] = "missing"

\* The lists of TrainedModel come from the difference of two readings, also after
\* it was stopped and started.
ListsFromDifferences == written # "zeros"

\* What the module does with the file on a processor that sends: its delay is a
\* number, its file open and the kernel whole, but for the cases named.
ModuleReads == UndefinedOnlyIfWritten /\ ClosedOnlyInExit /\ OopsOnlyWithoutFile

\* A receiver that has taken a delay and is done with the file has "updated the delay"
\* (rx_delay.py 15): the file holds it.  It never does: both end before they write it.
DelayWritten ==
  [][\A h \in Receivers :
       (At(h, "opened") /\ Head(receiver[h].conns) = "sent" /\ ~At(h, "opened")')
         => file'[h] = "number"]_vars

\* tx_delay ends when a receiver stays down: one that has taken a delay takes the
\* next round down with it.
SenderEnds ==
  \A h \in Receivers :
    (tx.at # "off" /\ At(h, "off")) ~> (tx.at = "off" \/ ~At(h, "off"))

=============================================================================
