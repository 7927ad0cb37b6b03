# Specifications of IoTyranno

IoTyranno predicts collisions on a shared Wi-Fi channel. A *hub* watches the
TCP traffic of three *terminals*, and charges the airtime of every packet to
counters; the terminals count the segments they had to send again; a neural
network maps the two to a delay for every terminal; a kernel module on the
terminal delays its segments by it. Next to that the repository holds the
homework the team's kernel work grew from (`hw1`), and experiments with signals,
character devices and probes.

This directory holds TLA+ specifications of the parts, configurations with which
TLC checks them on small instances, and proofs that TLAPS checks for every value
of the constants. The specifications are written from the code; where they
disagree with a comment of it, the section *Findings* says so.

    tlc -config HubTwoCpus.cfg MCHubTbi      # check an instance
    tlapm HubTbi_proofs.tla                  # check the proofs

`PROJECT.json` is the index: components and their state of modelling, runs, the
source lines of every definition, mutations of the specification that every
property detects, hazards, findings and theorems.

## 1. Inventory

### 1.1 Hub kernel module (`netfilter/hub/hub.c`, `tbi.c`, `tbi.h`)

*State*: `tbi[3]`, for every terminal the jiffies it transmitted (`t`), found the
channel busy (`b`) and idle (`i`); `last_jiffies`; a timer; `/proc/tbi`.
*Operations*: `hook_func` on every received TCP packet (`update_tbi`, create
`/proc/tbi`), `timer_handler` every 500 ms (`update_tbi_idle`, create, rearm), the
read of `/proc/tbi`, load and unload. *Interaction*: netfilter and the timer call
it in softirq context on any CPU; the user programs read `/proc/tbi`. *Hard*:
nothing is locked: every addition is a load and a store, `last_jiffies` is read
and written by all; unloading uses `del_timer` and removes `/proc/tbi` before the
hook that creates it. *Correct if*: no airtime is invented; what one terminal
transmitted is what the others waited; every tick is accounted once; the counters
do not go back; unloading leaves nothing behind that points into the module.

### 1.2 Terminal kernel module (`netfilter/terminal/terminal.c`, `collision.c`)

*State*: five flags (`syn_require`, `syn_acked`, `fin_require`, `init_sequence`,
`connected`), `last_sequence`, `total_collision`, `/proc/collision_count`.
*Operations*: `post_hook_func` on every segment sent, `pre_hook_func` on every
segment received, read, load and unload. *Hard*: one set of flags for all
connections, no locks, retransmitted SYNs and FINs, sequence numbers that wrap.
*Correct if*: what is counted are retransmissions, all of them; `connected` follows
the connection; the entry can be found.

### 1.3 hw1 (`hw1/linux/kernel/fork.c`, `sched.h`, `hw1/mod/hw1.c`)

*State*: a list of records of dead processes, the global pointer `deadProcess`, the
mode. *Operations*: `__put_task_struct` appends (softirq); `/proc/hw1`: a write sets
the mode and clears the list on `E`; an open picks the show function; mode B prints
and deletes the list, mode A walks the task list three times. *Hard*: no lock
between softirq and process context or between CPUs; `seq_file` runs a show
function again when its buffer was too small; tasks change while they are listed.
*Correct if*: every death is reported once, in order; no freed record is touched;
a report shows every process once and its header agrees with its rows.

### 1.4 Readers of `/proc/tbi` (`tbi_proc_print`, `delivery/getCollision.py`)

Nine loads without a lock, while handlers add. *Correct if*: every value lies between
those at the begin and the end of the read; differences are not negative.

### 1.4a The rest of `fork.c`

The homework patches one function of a file that makes and takes apart every task of
the machine; the dead record is only as good as the counts that lead to it.

*Process creation* (`copy_process`, `unshare`). *State*: `task_struct`s that point to
counted objects, which they share or not as the flags of `clone` say; `nr_threads`; the
user's process count. *Hard*: twenty stages that may fail, each with its label in a chain
that undoes what came before; unshare works on shared objects without a lock; limits are
checked before the counts are raised; signals arrive while a child is half made.
*Correct if*: every object is counted as often as it is held, at every moment; what the
kernel takes for granted of threads and namespaces holds; no child escapes a signal.

*Address space life* (`mm_init`, `dup_mm`, `mmput`, `get_task_mm`, `mm_access`). *State*:
`mm_struct`s with two counts, areas, files, the committed memory, the module of the binary
format. *Hard*: the copy may fail at any area, with something in hand; readers of `/proc`
and kernel threads come in while tasks exit and exec. *Correct if*: counts, files, charges
and modules are exact; memory is there while it is used, and not given out to
the wrong credentials.

*Task life* (`dup_task_struct`, `mm_release`, `wait_for_vfork_done`, the stack cache,
`__put_task_struct`). *State*: references, `vfork_done`, kernel stacks, RCU
callbacks. *Hard*: a completion on the stack of a parent that may be killed; who drops
the last reference. *Correct if*: nothing is used after it was freed, and one record
is written per death.

### 1.5 Collision query (`reqinfo.py`, `printcoll.py`; `sndinfo.py`, `coll.py`)

The hub asks the three terminals in turn for the retransmissions `netstat` counts and
writes a record of nine counters and three collisions if none is zero. *Hard*:
readings of different moments in one record, terminals that are down, a server that
answers without reading the request. *Correct if*: a record holds values of one
round, in the order of the terminals, and never one of the round before.

### 1.6 Collision notification (`server.py`; `sender.py`, `collision_notify.py`)

The earlier push design: each sender keeps its connection open and sends for ever; the
server serves one connection to its end. *Correct if*: every sender is eventually
heard — which the code does not achieve.

### 1.7 Predictor (`model/TrainedModel.py`, `tx_delay.py`)

Each second: read `/proc/tbi`, subtract the last reading, run the network, cut
below a threshold (`mkdelay`), send or write the delays. *Correct if*: the first
round, whose difference is against zeros, yields no delay; a delay belongs to the
terminal it is sent to.

### 1.8 Delay delivery and delay kernel module (`rx_delay.py`, `recv_delay.py`, `delay/put_delay.c`, `file_ops.c`)

A receiver writes the delay to a file, which a probe on `__tcp_transmit_skb` reads and
parses on every segment. *Hard*: the file is truncated before it is written; errors
between the two; `kstrtol` that fails leaves the result uninitialised; the module
closes the file before it unregisters the probe. *Correct if*: a segment is delayed by
a delay that was sent — which the code does not achieve.

### 1.9 Others

Signal notification (`signal/signal.c`, `netfilter/tmp/sndsig.c`): a task is looked up
under RCU and used after. Character device (`chardev/`): one buffer for all openers,
set-up with error paths. Probes (`probe/`): log only. Traffic generator and sink
(`application/`, `simpleServer/`): the environment. Scripts; earlier variants of the
hub module (`netfilter/tmp`); vendored kernel sources; recorded results.

## 2. Modules

| module | models | built on |
|---|---|---|
| `HubTbi` | 1.1 | |
| `TbiLedger` | what the accounting of 1.1 promises, as transactions | |
| `HubTbiLedger` | the refinement mapping from `HubTbi` to `TbiLedger` | `HubTbi`, `TbiLedger` |
| `HubTbi_proofs` | theorems about `HubTbi` and about the refinement | `HubTbiLedger` |
| `TerminalModule` | 1.2 with TCP as its environment | |
| `TerminalModule_proofs` | theorems about `TerminalModule` | `TerminalModule` |
| `DeadProcessList` | 1.3, mode `E` | |
| `ProcessReport` | 1.3, mode `T` | |
| `Hw1_proofs` | theorems about both modes | `DeadProcessList`, `ProcessReport` |
| `CopyProcess` | 1.4a, process creation | |
| `CopyProcess_proofs` | theorems about `CopyProcess` | `CopyProcess` |
| `MmLife` | 1.4a, address space life | |
| `MmLife_proofs` | theorems about `MmLife` | `MmLife` |
| `TaskLife` | 1.4a, task life, and the signal module of 1.9 | |
| `TaskLife_proofs` | theorems about `TaskLife` | `TaskLife` |
| `Collection` | 1.5 | |
| `Collection_proofs` | theorems about `Collection` | `Collection` |
| `DelayPath` | 1.8, and the loops of 1.7 | |
| `DelayPath_proofs` | theorems about `DelayPath` | `DelayPath` |
| `MC...` | constants and symmetry for TLC | the module of that name |

### HubTbi

`handler[c]` is the softirq handler CPU `c` runs: its program counter, the terminal
it has come to and its registers. One action per memory access of shared
data: `LoadJiffies` and `SubLast` are the two reads of `jiffies - last_jiffies`,
`LoadIdle`/`StoreIdle` and `LoadAir`/`StoreAir` an addition to a counter, `StampIdle`
and `StampAir` the two assignments to `last_jiffies`. The object code in the
repository (x86-64) has the additions as unlocked `add` to memory, and reads `jiffies`
for the last assignment before the additions on two of the three branches; `Stamp`
therefore allows any value `jiffies` had since. `Hook` and `TimerFires` enter the
handlers, `Publish` is `proc_create`, `Rearm` is `mod_timer`. `exit_hello` is one
action per call, and `FreeModule` is the kernel's, which waits for handlers
that run but not for a timer that is pending. `Tick` is the clock.

History variables say what should have been counted (`owed`), how many ticks fell
inside updates (`lost`), whether updates ever overlapped (`overlap`), and which
handlers `exit_hello` did not wait for (`late`).

`TbiLedger` books idle time and airtime of an update in one step and may then drop
the ticks that passed during it. `HubTbiLedger` maps `HubTbi` to it: the books show
what a handler in progress has still to add.

### TerminalModule

A hook is a program counter over the statements of the C functions: those that
assign a flag and those that test one are tables (`Assigns`, `Tests`), the others
actions. `Contexts` are the places where hooks run at the same time. The second half
is the environment: TCP connections that are opened, carry data, lose segments and
are closed from either side, with FINs alone or on data; a segment acts on its
connection when its hook has returned. Numbers are the segment's index from an
initial sequence number, cut to `SEQ`. `Resend` is TCP's timer for a SYN, for data and for
a FIN alone or on data; `Abort` a handshake that fails or a connection that is reset, of which no hook
learns. Both sides closing at the same moment is left out: the FIN of the peer
is then one of a `passive` close or one that answers. Payload is taken to be linear
(`PAYLOAD_SIZE` sees no page fragments).

History variables name the circumstances under which the count is exact: connections
that `crossed`, a `passive` open or close, one that was `aborted`, a number that
`wrapped`, hooks that `overlap`; `seen` says that `post_hook_func` has let a segment go.

### DeadProcessList

`next` and `prev` are the pointers of every node; deaths and delete loops are modelled
store by store, as `list.h` makes them. `softirq[c]` is a `__put_task_struct` on CPU
`c`; `proc` the user process inside `open`, `read` or `write`. A softirq on the CPU of
the user process (`Home`) runs to its end before the process goes on. Several
adjacent accesses of the process that a death cannot tell apart are one step.
`SeqRead` is the loop of `seq_read`: a buffer that was too small is dropped, and the
show function runs again. One user process at a time; `kmalloc` succeeds. `Walk` is what a
walk along the pointers comes to, as the least set closed under them.

### ProcessReport

`tasks` is the task list; the kernel's actions fork, schedule, remap, end and
reap tasks; `Show`, `Count`, `Row` and `EndPass` are the three loops of
`print_mode_A`; `Header` is the line the second prints. A task that is reaped under the
loop keeps its link.

### CopyProcess

`task[t]` is a `task_struct`: its pointers by kind, and in `held` what it has taken of
them so far. `Stages` and `Gains` list the calls of `copy_process` in order and what each
takes; `OnFailure` gives the label each jumps to, and `GivenBack` what is undone from
there. A stage that touches shared counts is an action; a run of stages that touch
only the child is one step (`Prepare`). `Publish` is the section under `tasklist_lock`, with
`copy_seccomp` and the test for a signal. `Unshare` to the last put are the
steps of `unshare` (`UnshareFiles` and the rest; `CleanupSighand` is `__cleanup_sighand`). `Exit`, `Release` and `PutTaskStruct` are the counterpart in
`kernel/exit.c`; fork fails at a flag check without a trace, so such calls are no step.
The tasks that run from the start are given by flags the checks accept
(`SecondFlagsAssumption`). Left out: the flag checks for init (1542) and for a task whose children are in another
pid namespace (1552); that `copy_seccomp` takes a filter before the tests of 1826 and 1830, which give
it back when they fail; and that the preparations of `unshare`, objects nobody else
knows yet, are made one after the other (`PrepareNew` makes them at once).

### MmLife

`mm[m]` is an `mm_struct` with its areas and counts; `call[t]` where `t` is in `dup_mmap` or
in exec. `dup_mmap` is one action per area and point of failure: the charge, the copy, the file.
`FinalMmput` is the teardown by whoever dropped the last user; `ExitMmap` takes from the counts of
every file what the areas of the mm had put there (`Number`). A reader goes through
`mm_access` or `get_exe_file` of a task, a kernel thread borrows an mm and may use it.
Readers are no tasks of the model, so `mm == current->mm` (1063) does not occur; one that is killed
at `mutex_lock_killable` has not begun. `cred_guard_mutex` belongs to the `signal_struct`; the model
keeps one per task, which lets more happen at once. When `mm_init` fails it frees what nobody
knows yet, and the fork has not begun either.

### TaskLife

`task[t]` has the references, the parent, `vfork_done` and the kernel stack; `call[t]` where
the task is in fork, in `mm_release` or in exit. A task is named by the number of the
fork that made it, and so is the stack frame its parent waits in. `callbacks` are the pending
`delayed_put_task_struct`, and `RcuPut` is one that runs. `Entries` are the ways into `_do_fork`
(`fork`, `vfork`, `clone`, `kernel_thread`) and the flags each may pass. RCU is modelled by `grace`: the sections that were open when
the callback was queued. `Put` is `put_task_struct`, whose last call writes the record.
`WakeUpNewTask` is the end of `_do_fork` from the publishing in `copy_process` on: a child that can be
found but does not run yet is not in the model. `SendSigInfo` is the call on whatever is left of
the task; what it does to freed memory is not followed. When `dup_task_struct` fails it gives the
stack back at once; `ForkFails` is the failure of a later stage.

### Collection

`col[c]` is where a collector is in its loop, `server[h]` the server of a terminal with the
connections that wait for it. `Serve` accepts, answers and closes; closing a socket with
unread data resets the connection, so the answer may be lost (`AnswerLost`). Servers can
be stopped and started and terminals switched off, which the other side only sees
if it sends or connects again. The line `printcoll` prints has no number in it and is left out. Ctrl-C, a
`/proc/tbi` that is not there, and an output of `netstat` that `coll` finds no count in all end
a program; of the last, a server that is stopped with a connection (`Stop`) is the effect.

### DelayPath

`tx` and `trained` are the two predictors, of which one is used; `receiver[h]` is the
program that listens on a terminal, with its connections; `file[m]` the contents of the file
`delay` on a machine; `module`, `handle` and `probe[c]` the kernel module on one machine.
`WriteFails` is the statement that raises `TypeError`. `tx_delay` ends by refused and reset connections and by
Ctrl-C (`Interrupt`); a line of `/proc/tbi` or a prediction that is no number ends it the same
way as Ctrl-C before it connects. `FileReadInt` takes `kernel_read` to succeed, also on a file that
was closed: what a read of a freed `struct file` does is not bounded by this code.

## 3. What the runs check

| run | instance | shows |
|---|---|---|
| `hub_two_cpus` | 2 CPUs, 2 terminals, 2 packets, 2 ticks, unload at any time; 2.2 M states | `AirNeverOvercounted`, `AirtimeConserved`, `IdleTimeExact`, `CleanUnload`, `MonotoneUnlessOverlap` |
| `hub_one_cpu` | 1 CPU, the 3 terminals of the code, counters modulo 4, packets optional; fairness; 164 k states | `ImplementsLedger`, `EventuallyPublished` |
| `terminal` | 2 contexts, a connection of 3 segments, the last with number 0 modulo 5, 2 retransmissions, reset or failed at any time, unload at any time; 1.9 M states | `CountsEveryResend`, `ConnectedTracksTcp`, `NeverOvercounts`, `CleanUnload` |
| `dead_one_cpu` | 1 CPU, 4 deaths, 3 nodes, 4 calls, first buffer of 1 record; 215 k states | `PointersSound`, `ReportedOnceInOrder`, `NoLossUnlessRaced` |
| `report_rows` | 2 tasks, 3 changes within a show, 2 shows; 1.0 M states | `ListedOnceUnlessRemapped`, `HeaderAgreesWithRows` |
| `copy_process` | 4 tasks, two of them running in one of three relations, 8 sets of flags for `clone` and 3 for `unshare`, 2 calls, limits of 3, one fatal signal; 451 k states | `Consistent`, `UnwindsExactly`, `SharingRules`, `NoSurvivor`, `LimitsUnlessOverlapped` |
| `mm_life` | 2 threads and an unborn task, 3 mms, 2 files, a fork, an exec, a map or unmap, a reader and a kernel thread with 2 calls; 1.1 M states | `Consistent`, `ResourcesExact`, `AccessChecked` |
| `task_life` | 2 forks by 2 tasks, a cache of 1 stack, 1 signal; fairness; 503 k states | `Consistent`, `VforkSafe`, `StacksExclusive`, `HeldTasksExist`, `VforkReturns` |
| `collection` | 2 collectors, 2 terminals, counts up to 2, 1 failure; fairness; 626 k states | `RecordOfOneRound`, `RoundEnds` |
| `delay_path` | 2 terminals, 1 CPU, backlog of 2, any restart; fairness; 887 k states | `ListsFromDifferences`, `ModuleReads`, `SenderEnds` |

Each run also checks the type invariant of its module, by itself or as a conjunct of
the first property named. Several properties are conjunctions of named parts
(`ResourcesExact` of `FilesExact`, `CommittedExact` and `ModulesExact`, and so on); every part
is stated, with a comment, at the end of its module. The runs that expect a violation
(`dead_two_cpus`, `delay_lost`) are in *Findings*.

*Bounds.* Two CPUs and two packets are enough for every pair of handlers to
overlap at every pair of points, with the timer as a third; two terminals tell the
sender from another, and `hub_one_cpu` has the three of the code. `MaxJiffies` bounds
the clock: with an interval of 1 or 2 the timer expires repeatedly within it.
`WORD` is large in `hub_two_cpus`, so that "no more than" means what it says, and
4 in `hub_one_cpu`, where counters wrap. In `terminal` two contexts are every pair of hooks that can
meet, the hooks of one connection's outgoing segments excepted, which TCP sends in turn; of three segments one
is compared with, one is behind it and one has a number that wrapped, and two retransmissions
race with them or with each other's answers. Two connections, one after the other or crossing, with two
contexts are beyond the time of a run: what flags one leaves to the next is covered by the
proofs, which are for any number of both, and so is `EntryPresent`, which takes two post hooks
that overlap. The counter is an `unsigned int` of width `SEQ`, and
`CountsEveryResend` is an equation modulo it. In `DeadProcessList` four deaths overflow the first buffer and leave one
for afterwards, and three nodes are used again. In `ProcessReport` one task is listed
twice or not at all, and the second is one to pass.

In `CopyProcess` two calls are what may overlap, in each other or with an exit and a release;
the task that runs from the start as the first one's thread, as a task that shares
memory, handlers and fs, or as one in a namespace of its own stands for a call made
before; of the flag sets `clone` refuses there is one per check. Limits of 3 with two
tasks running are exceeded by two calls only if they overlap. In `MmLife` one fork meets
every one of the other calls once, which suffices for each of them to fall
between any two of its steps; the initial areas are of each kind `dup_mmap`
distinguishes. In `TaskLife` two forks are a parent in vfork whose child forks or vforks
itself, or two children of one parent; a cache of one slot is filled and emptied within
them. In `Collection` a count can grow once, which is enough to tell a value
of one round from the next; one failure is a stop, a lost answer or a switched-off
terminal at any point, after which rounds go on. In `DelayPath` a
backlog of 2 holds the open connection and one left from before; more processors are covered
by the proof.

*Deadlock* is not checked: counters are bounded, modules that are
unloaded do nothing, and in `CopyProcess`, `MmLife` and `TaskLife` everybody may have exited. In
`Collection` both collectors may be dead, in `DelayPath` the kernel may have stopped. What
must go on there is said by the liveness properties instead.

*Fairness*. `HubTbi!Fairness`, used by `hub_one_cpu`: the clock ticks; a handler that
was entered runs to its end, since softirqs are not preempted by processes; an
expired timer is run, since the kernel runs softirqs after every interrupt. Packets
and `rmmod` may never come. `TaskLife`: a task that runs in the kernel and is not
blocked goes on (`Kernel`), which the scheduler grants; nobody needs to fork, exit or kill.
The child of a vfork need not exit: `VforkReturns` starts when it has let go of the memory.
`Collection`: collectors and servers that run go on; sends and receives have no
timeout, so a collector that asks a terminal which is switched off just
then waits for ever, which `RoundEnds` excepts and which is how the code behaves. `DelayPath`:
`tx_delay` and receivers that run go on; nobody needs to start one or press Ctrl-C.

## 4. Proofs

Every safety property of section 3 is a theorem here, for every
value of the constants that meets the named assumptions; each property was model-checked
first, and so was each strengthened invariant. The theorems of a
component are in `<module>_proofs`, those of the two modes of `hw1.c` in `Hw1_proofs`. They have one shape: `Init` establishes an invariant, every
action keeps it (one step of the proof per action, mostly a lemma that first says what the
action changes), the invariant implies the property. The sections say what the invariant adds
to the property and why it is needed.

**`HubTbi_proofs`**, for any finite set of CPUs, any number of terminals, any durations
and any word size.

* `TypeCorrect` (`TypeOK`): the terminal index of a handler stays in the table
  because `Repeat` stops at the last one.
* `AirBounded` (`AirNeverOvercounted`): a handler that has loaded a counter stores it later
  over what others have stored, and handlers that have yet to add may together add more than
  is owed, unless it is known that what is owed exceeds the counter by what they have to
  add. `AirInv` says so: for every counter and handler with a register loaded from
  it, register and counter plus all that is still to be added by the handlers is at
  most what is owed. The sum over the CPUs is written with a function of partial
  sums along an enumeration of the finite set. No assumption on overlap, the clock
  or the word size: `% WORD` only makes a counter smaller.
* `UnloadClean` (`CleanUnload`): `UnloadInv` follows timer and entry through the calls of
  `exit_hello`.
* `AirtimeExact`, `IdleTimeKept` and `NothingGoesBack` (`AirtimeConserved`, `IdleTimeExact`,
  `MonotoneUnlessOverlap`): `OneAtATime` says that without overlap there is at most one update
  (`Solo`) and, for each of its points, what it has added to every terminal and has still to
  add (`AirBooked`), and where the idle counters are between `last_jiffies`, the registers and
  `jiffies` (`IdleBooked`). The hypothesis `NoWrap`, that `jiffies` and what is owed are below the
  word size, is what `WORD` of the run is large for: a counter that has wrapped is not
  what is owed, and does go back.
* `OrderlyImplementsLedger` (`ImplementsLedger`): as long as updates do not overlap and
  `jiffies` does not wrap (`Orderly`; the counters may wrap), every step of `HubTbi` is a step of
  `TbiLedger` or a stutter: the load after which the books show the whole update
  is its transaction, the last assignment the drop of the ticks that passed meanwhile. `BooksInv`
  gives the registers. `OneCpuImplementsLedger`: on one CPU updates never overlap.

**`TerminalModule_proofs`**, for finite sets of contexts and connections (at least one),
any initial sequence numbers below `SEQ` and `SEQ <= WORD`.

* `TypeCorrect` (`TypeOK`): the tables of statements are checked row by row
  (`AssignsTable`, `TestsTable`). `TypeOK` needs the companion `Counted`, that `resent`
  counts some of what `resends` counts.
* `EntryFound` (`EntryPresent`, which no run checks): `EntryInv` says which hook has still to create the
  entry, with the set `UpToCreate` of the statements up to `proc_create`; and that only hooks of
  segments sent get there. Every statement but `proc_create` and the return keeps a hook on its
  side of `UpToCreate` (`StatementMoves`).
* `UnloadClean` (`CleanUnload`): `UnloadInv` extends it to all stages of
  unloading: an entry, and a hook that may create one, imply `late`.
* `NothingInvented` (`NeverOvercounts`): hooks race on `last_sequence` and on the load and store of
  `total_collision`. `CountInv` charges every hook on its way to the counter to a
  retransmission that is not counted yet (`Charged`): either it is one, or `last_sequence` will be below
  its number when it gets to the comparison (`Below`). `TcpInv` says what the environment grants:
  segments in order, one sender per connection, connections that do not overlap.
* `ConnectedIsUp` (`ConnectedTracksTcp`): with hooks in turn, `FlowInv` gives the value of all five
  flags at every statement of each kind of segment (`OfSyn`, `OfAck`, `OfSynAck`, `OfOpen`, `OfFin`).
* `NothingMissed` (`CountsEveryResend`): `TallyInv` says of every hook that it has a new segment to pass
  (`Fresh`), an old one to count (`Again`) or is done (`Done`), with the counter
  equal to the retransmissions, or one behind, modulo the width of the `unsigned int`.

**`Hw1_proofs`**, about `DeadProcessList`, for any number of nodes, deaths and calls and any first buffer, and for
one processor: on two, `dead_two_cpus` finds the list broken.

* `NoFreedNodeReached`, `InOrder`, `NoOtherLoss` (`PointersSound`, `ReportedOnceInOrder`,
  `NoLossUnlessRaced`). `ListInv` says that there is a set `L` of allocated nodes through which the
  list runs in the order of deaths (`Chain`) and whose end is where the head's `prev` points, with two
  exceptions a death between two steps of a delete loop makes (`TailInv`); what the death has
  done (`DeathInv`); what the registers of the loops point to (`LoopInv`); that what
  was reported, the buffer and the list follow each other (`Ascending`, `BehindInv`); and
  where every death is (`LossInv`). `WalkIsChain` shows that a walk comes to `L` and
  nothing else: the record of a node that is not come to and is least would have a predecessor.

About `ProcessReport`, for any number of tasks and changes (its definitions have names of their own,
so that one module can extend both):

* `ListedOnce` (`ListedOnceUnlessRemapped`): `RowsInv` says how far each loop has come: no row is
  printed twice in a pass, a task printed as a user process keeps its mm or is remapped, a task
  passed by has its row or an excuse.
* `HeaderTrue` (`HeaderAgreesWithRows`): `Exact` relates the counters and the rows to the
  cardinalities of the sets of tasks passed so far.

**`CopyProcess_proofs`**, for any finite sets of tasks and objects, any sets of flags and
any limits.

* `LabelsUndo` (`UnwindsExactly`): `ForkInv` says that a child holds, at every stage, what the
  stages before have taken (`Growing`), from which the tables of labels give the rest.
* `NoneSurvives` (`NoSurvivor`) is inductive with `ForkInv`.
* `LimitsHold` (`LimitsUnlessOverlapped`): without overlap there is one call, and the counts
  are still those it has tested.
* `CountsAreExact` (`Consistent`): `CountInv` says of every object that its count is the number of tasks
  that hold it and of unshares that prepare it, and the same of groups and of the two
  numbers of tasks. One lemma (`CountKept`) covers all steps: one that changes a task and a
  call keeps the counts if it adds to them what the new task and call have and the old
  had not. `OwnInv`, that nobody else has the `signal_struct` a child was given
  for itself, is needed because undoing `copy_signal` clears the counts of its group.
* `RulesHold` (`SharingRules`): `FsInv` and `ThreadInv` are the rules, `CallsInv` what the
  flags of a call in progress say of who is alone in what. That nobody else has an object is what the
  tests `AloneInMemory` and others read off its count, which is right because
  the counts are exact. `FsInv` excepts a task `Moving`, between its new namespaces and its new fs.

**`MmLife_proofs`**, for any finite sets of tasks, readers, kernel threads and mms, any files and any
bounds, and for as many areas as there may be.

* `CountsAreExact` (`Consistent`): the counts are proved without their signs first (`Typed`); that they
  are naturals follows from what they count. `Shape` says which pointers are set at each point of a
  call. `PrivateInv`: nobody knows the mm a fork fills, which is why `FreePt` may set its
  users to zero. `LockInv`: a reader that has read a task's pointer under `task_lock` still
  finds it there, so the user it adds is never the first. With these, each of the four sets
  `UsersOf` adds up changes by the one element the step is about (`TasksChange` and its relatives, all
  from `CountStep`), and so does the count (`PutExact`, `GetExact`, `NewExact`).
* `NothingLeaks` (`ResourcesExact`): `DupInv` says that a fork holds `mmap_sem` of the mm it copies, that the
  area it has charged for is still the one it is at, and that the copy has no executable file until it takes
  one. The rest is counting: `NumberAppend`, `NumberTail` and `PairsStep` say how the number of areas of a
  kind changes when an area is linked, unmapped or its mm torn down.
* `AccessIsChecked` (`AccessChecked`): `GuardInv` says that exec and those who check exclude each other through
  `cred_guard_mutex`, `CredInv` that a task whose credentials are for all has memory for all
  except between the two halves of exec, `ReadInv` the same of what a reader has taken.

All steps are first replaced by what they do to the records (`NextSteps`); every part of the
invariant is proved over those.

**`TaskLife_proofs`**, for any number of forks, any cache and any writers.

* `ReferencesExact`, `VforkIsSafe`, `StacksOwned`, `FreedIsUnseen` (`Consistent`, `VforkSafe`,
  `StacksExclusive`, `HeldTasksExist`), from one invariant `I`: where the
  child of a call is (`CallInv`); the references by state (`UsageInv`), each callback
  queued once; `vfork_done` and the memory a child borrows (`VforkInv`); stacks named after
  tasks that were made (`StackInv`); parents that are running, and the order of callbacks while they
  have not crossed (`FamilyInv`), from which a dead record reads a parent that is not freed; and that what
  a section has found was reaped, if at all, during it (`SectionInv`), so that
  the callback waits for the section.

**`Collection_proofs`**, for any non-empty list of terminals, in which one may appear twice.

* `TypeCorrect` (`TypeOK`): a server has only connections of collectors that wait for it, each
  once (`Waits`, `QueueInv`).
* `RecordsAreOfOneRound` (`RecordOfOneRound`): counts, and answers to reqinfo on their way, are not older than
  its round (`FromInv`); what reqinfo has of a terminal it has asked is nothing or of this
  round (`RoundInv`).

**`DelayPath_proofs`**, for any non-empty sequence of terminals other than the hub, any set of
processors and any backlog.

* `TypeCorrect` (`TypeOK`): the steps are split into those of the programs and
  those of the kernel module (`NextSplits`), each of which leaves the other's variables alone
  (`ProgramStepKeeps`, `KernelStepKeeps`).
* `ListsSound` (`ListsFromDifferences`): `FilesInv` says that TrainedModel has a reading to subtract once
  `start` is set, and has subtracted one when it writes; and, for the next theorem, that the file
  of a terminal is what it was until its receiver has opened it, and empty ever after.
* `ReadsSound` (`ModuleReads`): `ModuleInv` says that the handle tells how far `exit_jp`
  has come, that a running probe keeps the module in memory, and that once the file was
  written to it stays so (`OverwrittenStays`); it rests on `FilesInv` for what the file
  of a terminal can hold.

What the proofs use of numbers beyond arithmetic is that a set of them has a least element, from the
well-foundedness of `<` on the naturals.

The proofs led to three changes of the models. The guards of `Entry` and `EntryWithoutFin` in
`TerminalModule` overlapped, so that `CASE` chose between them by an order nobody had written;
they are disjoint now. `Walk` in `DeadProcessList` was a recursive function, about which nothing can
be proved, and is the least closed set. `FinalMmput` in `MmLife` folded over the areas, so that
what it did to the counts was an induction over the data; it is stated by what it does, with
the number of areas of each kind, and `ModulesExact` counts the finished mms where it
subtracted the unfinished ones.

*Only model-checked*: the two properties that are violated; and liveness (`EventuallyPublished`,
`VforkReturns`, `RoundEnds`, `SenderEnds`), which is out of the prover's reach.

## 5. Findings

* `dead_two_cpus` — `hw1.c` 141 relies on the list being circular. Two deaths at once
  share the global `deadProcess` and the tail of the list with no lock.
* `delay_lost` — both receivers die with `TypeError` at the first message (`rx_delay.py` 15, which is to say
  "update delay", and `recv_delay.py` 15), after they have emptied the file: no delay that is
  sent is ever written, and the module then delays by an uninitialised variable (`file_ops.c` 73-80).

Seen in the code, and without a run of their own:

* `fork.c` 402-403 promises the information of every dead process. `print_mode_B` prints in
  one loop and deletes in another, so who dies in between is deleted unseen; the
  precondition `raced` of `NoLossUnlessRaced` and the set `dropped` name the ways.
* `hw1.c` 82 and 165: the proof of `NoOtherLoss` found a way to lose every later death, which TLC
  confirmed. If a task dies between the two stores of the `list_del` that takes the only record
  left, its record is put behind the head, and the second store then sets the head's `next` to the
  head: `next` is empty and `prev` points to the new record. All later records are appended behind that one,
  which no walk comes to, and no death is reported or freed any more; the head is
  the kernel's (`fork.c` 391), and loading the module again does not repair it. It is the second case of
  `TailInv`, and `raced` excuses it.
* `hw1.c` 320 takes state 128 for stopped; `TASK_STOPPED` is 132 (`sched.h` 246), which is none
  of the cases: a stopped task is counted nowhere (225), and its row has no state.
* `hw1.c` 142 says the deleting part is in the open function, it is in the show function
  (`DeadProcessList!Take`). `hw1.c` 315 looks for zombies in `task->state`, but `sched.h` 226 puts
  `EXIT_ZOMBIE` in `exit_state`, so the header always prints 0 zombies
  (`ProcessReport!Letter`, `Exit`). A row whose state is none of the five cases has no
  end of line.
* The dead record reads `tsk->parent->pid` (`fork.c` 415) when the task is freed. The parent may
  be freed by then: when the last reference to the child is held longer than the parent's
  (`crossed` in `TaskLife`), and when a vfork with `CLONE_PARENT` holds it. `PpidReadable` says
  there is no other way.
* A file that is missing when the module is loaded is a null pointer, over which the first
  probe, or else `rmmod`, stumbles.
* `reqinfo.py` and `printcoll.py` catch no error of the network and have no timeout: one
  terminal that is down ends the collection, one that is switched off while asked stops it.
* `signal.c` 46 calls `send_sig_info` after `rcu_read_unlock` (45): the task may exit, be reaped and be
  freed in between, and the call then works on freed memory. The model comes to such states
  (`TaskLife!SendSigInfo`); `HeldTasksExist` says only that inside the section the task exists.
* `printcoll.py` 35 prints its template without `.format`: what it computes in 32 is never on the screen.
* `server.py` 27 formats a string with `%d`, so the push server dies at its first message.

Known limits of the code that no document of the repository denies, and that the
preconditions of the properties state instead: races between CPUs lose airtime and
retransmissions (`overlap`); the counts of the terminal are not exact when connections
cross or are reset, or their handshake fails — with `pktrcv.py`, which drops a connection only
when it has accepted the next, the FIN of one arrives while the next is up — nor for passive opens and sequence
numbers that wrap; unloading may leave a timer or a `/proc` entry behind (`late`).

## 6. Plan

Done: the modules of section 2 and the theorems of section 4. What is left, in this order:

1. `CharDev`: the error paths of `simple_init`, and the buffer all openers share.
2. The nine loads of `tbi_proc_print`, composed with `HubTbi`, on an instance of their own.

## 7. Not modelled

The push design (`server.py`, `sender.py`): the server dies before it changes any state. The
network's weights and arithmetic and the cut of `mkdelay`, which are data. Formatting of the
`/proc` files except where counted above, and the reads of `/proc/tbi`, which change nothing.
The character device, an experiment; the probes, which only log; the traffic
generator and sink, except as the environment of 1.2; scripts, recorded results and superseded
variants. Of `fork.c`: caches and their constructors, boot options and sysctl, page
tables, uprobes, userfaultfd, huge pages, NUMA, ptrace, the idle task, kernel threads and variants
for other architectures; of `sched.h` the declarations nothing above uses. An io context
is assumed in `CopyProcess`.

What the rest of the kernel does (`exit.c`, `exec.c`, `seq_file`, `list.h`, timers, RCU, netfilter,
TCP) is modelled from how the code uses it, and marked external in `PROJECT.json`. Only
one of the two predictors is taken to run at a time, and only on the machine the module
runs on the file may be missing or hold a number at the start.
