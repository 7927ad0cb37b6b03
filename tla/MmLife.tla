------------------------------- MODULE MmLife -------------------------------
(***************************************************************************)
(* The life of an address space (dup_mm, mm_init, mmput, get_task_mm and   *)
(* their relatives in hw1/linux/kernel/fork.c).                            *)
(*                                                                         *)
(* An mm_struct has two counts.  mm_users counts its tasks and those who   *)
(* look at it through get_task_mm; when it reaches zero the memory is torn *)
(* down.  mm_count counts the users together as one, and kernel threads    *)
(* that run on it; when it reaches zero the mm_struct is freed.            *)
(*                                                                         *)
(* dup_mm copies one bit by bit and area by area, and any bit may fail.    *)
(* Meanwhile threads that share it map, unmap and exit, tasks exec, and    *)
(* readers of /proc take their memory or their executable file.            *)
(***************************************************************************)
EXTENDS Integers, Sequences, FiniteSets

CONSTANTS
  Tasks,      \* tasks, the unborn ones included
  First,      \* the tasks that run at the start, threads of one mm
  Readers,    \* those who look at the mm of others
  Kthreads,   \* kernel threads, which borrow the mm of the task they follow
  Mms,        \* mm_structs, the free ones included
  Files,      \* executable files and libraries
  None,       \* a null pointer
  MaxForks,   \* bound on the calls of dup_mm
  MaxExecs,   \* bound on the calls of exec
  MaxMaps,    \* bound on the areas mapped or unmapped later
  MaxReads    \* bound on what readers and kernel threads do

ASSUME SetsAssumption ==
  /\ IsFiniteSet(Tasks) /\ IsFiniteSet(Readers) /\ IsFiniteSet(Kthreads) /\ IsFiniteSet(Mms)
  /\ First # {} /\ First \subseteq Tasks /\ Files # {} /\ Mms # {}
  /\ None \notin Tasks \cup Readers \cup Mms \cup Files
ASSUME BoundsAssumption == {MaxForks, MaxExecs, MaxMaps, MaxReads} \subseteq Nat

VARIABLES
  mm,         \* the mm_structs
  task,       \* per task: its mm, and whom its credentials are for
  call,       \* per task: where it is in dup_mm or in exec
  reader,     \* per reader: what it looks at and what it holds
  kthread,    \* per kernel thread: the mm it borrows, and whether it uses it
  refs,       \* per file: references, denied writers, shared writable mappings
  committed,  \* vm_committed_as, in areas
  modules,    \* references to the module of the binary format
  task_lock,  \* per task: who holds alloc_lock
  guard,      \* per task: who holds cred_guard_mutex
  left        \* what may still be done (bounds the model)

vars == <<mm, task, call, reader, kthread, refs, committed, modules, task_lock,
          guard, left>>

-----------------------------------------------------------------------------

\* An area of memory: the file behind it, and the flags dup_mmap looks at.
AnyFile == CHOOSE f \in Files : TRUE
Text  == [file |-> AnyFile, deny |-> TRUE,  shared |-> FALSE, account |-> FALSE, copied |-> TRUE]
Heap  == [file |-> None,    deny |-> FALSE, shared |-> FALSE, account |-> TRUE,  copied |-> TRUE]
Shm   == [file |-> AnyFile, deny |-> FALSE, shared |-> TRUE,  account |-> FALSE, copied |-> TRUE]
Dma   == [file |-> AnyFile, deny |-> FALSE, shared |-> TRUE,  account |-> FALSE, copied |-> FALSE]
Areas == {Text, Heap, Shm, Dma}

FreeMm == [state |-> "free", users |-> 0, count |-> 0, exe |-> None, areas |-> <<>>,
           binfmt |-> FALSE, for |-> "all", sem |-> None]

\* mm_init, on the memory of another mm or on zeros: one user, one count, no area,
\* no executable file.  What it does not set stays.
MmInit(x) == [x EXCEPT !.state = "live", !.users = 1, !.count = 1, !.areas = <<>>,
                       !.sem = None, !.exe = None]

\* mm_alloc: mm_init on zeros.
MmAlloc == MmInit(FreeMm)

Unborn == [state |-> "unborn", mm |-> None, creds |-> "all"]
NoCall == [at |-> "user", mm |-> None, i |-> 1, charge |-> 0]
Idle   == [at |-> "idle", task |-> None, mm |-> None, file |-> None, access |-> FALSE]

FirstMm == CHOOSE m \in Mms : TRUE
Init ==
  /\ mm = [m \in Mms |-> IF m = FirstMm
             THEN [state |-> "live", users |-> Cardinality(First), count |-> 1,
                   exe |-> AnyFile, areas |-> <<Heap, Dma, Text>>, binfmt |-> TRUE,
                   for |-> "all", sem |-> None]
             ELSE FreeMm]
  /\ task = [t \in Tasks |-> IF t \in First
               THEN [state |-> "alive", mm |-> FirstMm, creds |-> "all"] ELSE Unborn]
  /\ call    = [t \in Tasks |-> NoCall]
  /\ reader  = [r \in Readers |-> Idle]
  /\ kthread = [k \in Kthreads |-> [mm |-> None, uses |-> FALSE]]
  /\ refs    = [f \in Files |-> IF f = AnyFile THEN [held |-> 3, denied |-> 1, writable |-> 1]
                                             ELSE [held |-> 0, denied |-> 0, writable |-> 0]]
  /\ committed = 1
  /\ modules   = 1
  /\ task_lock = [t \in Tasks |-> None]
  /\ guard     = [t \in Tasks |-> None]
  /\ left = [forks |-> MaxForks, execs |-> MaxExecs, maps |-> MaxMaps, reads |-> MaxReads]

At(t, point) == call[t].at = point
Alive(t)     == task[t].state = "alive"
FreeMms      == {m \in Mms : mm[m].state = "free"}
NewMm        == CHOOSE m \in FreeMms : TRUE
Goto(t, at)  == call' = [call EXCEPT ![t].at = at]
Spend(what)  == left[what] > 0 /\ left' = [left EXCEPT ![what] = @ - 1]

\* One step of a count up or down, for a null pointer none.
Got(r, f) == IF f = None THEN r ELSE [r EXCEPT ![f].held = @ + 1]
Put(r, f) == IF f = None THEN r ELSE [r EXCEPT ![f].held = @ - 1]
Mapped(r, a) ==
  IF a.file = None THEN r
  ELSE [r EXCEPT ![a.file].held = @ + 1,
                 ![a.file].denied = IF a.deny THEN @ + 1 ELSE @,
                 ![a.file].writable = IF a.shared THEN @ + 1 ELSE @]
Unmapped(r, a) ==
  IF a.file = None THEN r
  ELSE [r EXCEPT ![a.file].held = @ - 1,
                 ![a.file].denied = IF a.deny THEN @ - 1 ELSE @,
                 ![a.file].writable = IF a.shared THEN @ - 1 ELSE @]
Charge(a) == IF a.account THEN 1 ELSE 0

\* The areas that map a file, those that deny writing to it, those that share it,
\* and those accounted for; and how many of the areas s are among A.
Maps(f)   == {a \in Areas : a.file = f}
Denies(f) == {a \in Maps(f) : a.deny}
Writes(f) == {a \in Maps(f) : a.shared}
Accounted == {a \in Areas : a.account}
Number(s, A) == Cardinality({i \in DOMAIN s : s[i] \in A})

\* mmput and mmput_async: the last user leaves the memory to be torn down, by
\* itself or by a worker.
Mmput(m) == mm' = [mm EXCEPT ![m].users = @ - 1,
                             ![m].state = IF mm[m].users = 1 THEN "dying" ELSE @]
\* mmdrop: the last count frees the mm_struct.
Mmdropped(x) == IF x.count = 1 THEN FreeMm ELSE [x EXCEPT !.count = @ - 1]

Files_  == <<refs, committed, modules>>
Others  == <<reader, kthread, guard>>

(***************************************************************************)
(* dup_mm, called by copy_mm of task t.                                    *)
(***************************************************************************)

\* allocate_mm, memcpy and mm_init; without memory nothing has changed.
AllocMm(t) ==
  /\ Alive(t) /\ At(t, "user") /\ FreeMms # {}
  /\ Spend("forks")
  /\ mm' = [mm EXCEPT ![NewMm] = MmInit(mm[task[t].mm])]
  /\ call' = [call EXCEPT ![t] = [NoCall EXCEPT !.at = "mmap_sem", !.mm = NewMm]]
  /\ UNCHANGED <<task, Files_, Others, task_lock>>

\* down_write_killable, and the reference to the executable file.
BeginDupMmap(t) ==
  LET o == task[t].mm IN
  /\ At(t, "mmap_sem")
  /\ mm[o].sem = None
  /\ mm' = [mm EXCEPT ![o].sem = t, ![call[t].mm].exe = mm[o].exe]
  /\ refs' = Got(refs, mm[o].exe)
  /\ Goto(t, "area")
  /\ UNCHANGED <<task, committed, modules, Others, task_lock, left>>

\* A fatal signal while waiting for mmap_sem.
Interrupted(t) ==
  /\ At(t, "mmap_sem")
  /\ Goto(t, "undo")
  /\ UNCHANGED <<mm, task, Files_, Others, task_lock, left>>

\* The next area of the old mm, when there is one.
OldAreas(t) == mm[task[t].mm].areas
HasNext(t)  == At(t, "area") /\ call[t].i <= Len(OldAreas(t))
NextArea(t)    == OldAreas(t)[call[t].i]
Release(t, at) ==
  /\ mm' = [mm EXCEPT ![task[t].mm].sem = None]
  /\ Goto(t, at)

SkipArea(t) ==
  /\ HasNext(t) /\ ~NextArea(t).copied
  /\ call' = [call EXCEPT ![t].i = @ + 1]
  /\ UNCHANGED <<mm, task, Files_, Others, task_lock, left>>

\* security_vm_enough_memory_mm accounts for the copy.
ChargeArea(t) ==
  /\ HasNext(t) /\ NextArea(t).copied
  /\ committed' = committed + Charge(NextArea(t))
  /\ call' = [call EXCEPT ![t].at = "charged", ![t].charge = Charge(NextArea(t))]
  /\ UNCHANGED <<mm, task, refs, modules, Others, task_lock, left>>

\* There is no memory for the charge, or ksm_fork or khugepaged_fork failed.
ChargeFails(t) ==
  /\ At(t, "area")
  /\ call[t].i = 1 \/ (HasNext(t) /\ NextArea(t).copied /\ NextArea(t).account)
  /\ Release(t, "undo")
  /\ UNCHANGED <<task, Files_, Others, task_lock, left>>

\* The copy of the area, its policy or its anon_vma fails: fail_nomem.
Uncharged(t) == call[t].charge
CopyAreaFails(t) ==
  /\ At(t, "charged")
  /\ committed' = committed - Uncharged(t)
  /\ mm' = [mm EXCEPT ![task[t].mm].sem = None]
  /\ call' = [call EXCEPT ![t].at = "undo", ![t].charge = 0]
  /\ UNCHANGED <<task, refs, modules, Others, task_lock, left>>

\* The area takes its references, is linked, and its pages are copied; when
\* that fails it stays linked.
LinkArea(t) ==
  /\ At(t, "charged")
  /\ refs' = Mapped(refs, NextArea(t))
  /\ \/ /\ mm' = [mm EXCEPT ![call[t].mm].areas = Append(@, NextArea(t))]
        /\ call' = [call EXCEPT ![t].at = "area", ![t].i = @ + 1, ![t].charge = 0]
     \/ /\ mm' = [mm EXCEPT ![call[t].mm].areas = Append(@, NextArea(t)),
                           ![task[t].mm].sem = None]
        /\ call' = [call EXCEPT ![t].at = "undo", ![t].charge = 0]
  /\ UNCHANGED <<task, committed, modules, Others, task_lock, left>>

EndDupMmap(t) ==
  /\ At(t, "area") /\ ~HasNext(t)
  /\ Release(t, "binfmt")
  /\ UNCHANGED <<task, Files_, Others, task_lock, left>>

\* try_module_get succeeds: copy_mm gives the mm to the child.
FinishDupMm(t) ==
  /\ At(t, "binfmt")
  /\ modules' = IF mm[call[t].mm].binfmt THEN modules + 1 ELSE modules
  /\ \E c \in Tasks :
       /\ task[c].state = "unborn"
       /\ task' = [task EXCEPT ![c] = [state |-> "alive", mm |-> call[t].mm,
                                       creds |-> task[t].creds]]
  /\ call' = [call EXCEPT ![t] = NoCall]
  /\ UNCHANGED <<mm, refs, committed, Others, task_lock, left>>

\* free_pt: the module was not taken, so binfmt is cleared before mmput.
\* Mutant: it is not cleared.
StillOwned(x) == [x EXCEPT !.users = 0, !.state = "dying"]
Disowned(x) == [x EXCEPT !.binfmt = FALSE, !.users = 0, !.state = "dying"]
FreePt(t) ==
  /\ At(t, "undo") \/ (At(t, "binfmt") /\ mm[call[t].mm].binfmt)
  /\ mm' = [mm EXCEPT ![call[t].mm] = Disowned(@)]
  /\ call' = [call EXCEPT ![t] = NoCall]
  /\ UNCHANGED <<task, Files_, Others, task_lock, left>>

(***************************************************************************)
(* The end of an mm.                                                       *)
(***************************************************************************)

\* exit_mmap unmaps all areas.
ExitMmap(r, s) == [f \in Files |-> [held     |-> r[f].held     - Number(s, Maps(f)),
                                   denied   |-> r[f].denied   - Number(s, Denies(f)),
                                   writable |-> r[f].writable - Number(s, Writes(f))]]

\* __mmput: exit_mmap, set_mm_exe_file(NULL), module_put and mmdrop.
FinalMmput(m) ==
  LET x == mm[m] IN
  /\ x.state = "dying"
  /\ refs' = Put(ExitMmap(refs, x.areas), x.exe)
  /\ committed' = committed - Number(x.areas, Accounted)
  /\ modules' = IF x.binfmt THEN modules - 1 ELSE modules
  /\ mm' = [mm EXCEPT ![m] = Mmdropped([@ EXCEPT !.state = "torn", !.areas = <<>>,
                                               !.exe = None, !.binfmt = FALSE])]
  /\ UNCHANGED <<task, call, Others, task_lock, left>>

\* Mutant: alloc_lock is not waited for.
MayLockAlways(t) == TRUE
MayLock(t) == task_lock[t] = None
\* Mutant: cred_guard_mutex is not waited for.
MayGuardAlways(t) == TRUE
MayGuard(t) == guard[t] = None

(***************************************************************************)
(* What the tasks do meanwhile (kernel/exit.c, fs/exec.c, mm/mmap.c).      *)
(***************************************************************************)

\* exit_mm.
Exit(t) ==
  /\ Alive(t) /\ At(t, "user") /\ MayLock(t)
  /\ Mmput(task[t].mm)
  /\ task' = [task EXCEPT ![t].state = "dead", ![t].mm = None]
  /\ UNCHANGED <<call, Files_, Others, task_lock, left>>

\* mmap and munmap, by any task that shares the mm.
Map(t) ==
  LET m == task[t].mm IN
  /\ Alive(t) /\ At(t, "user") /\ mm[m].sem = None
  /\ Spend("maps")
  /\ \E a \in {Shm, Heap} :
       /\ mm' = [mm EXCEPT ![m].areas = Append(@, a)]
       /\ refs' = Mapped(refs, a)
       /\ committed' = committed + Charge(a)
  /\ UNCHANGED <<task, call, modules, Others, task_lock>>

Unmap(t) ==
  LET m == task[t].mm IN
  /\ Alive(t) /\ At(t, "user") /\ mm[m].sem = None
  /\ mm[m].areas # <<>>
  /\ Spend("maps")
  /\ mm' = [mm EXCEPT ![m].areas = Tail(@)]
  /\ refs' = Unmapped(refs, Head(mm[m].areas))
  /\ committed' = committed - Charge(Head(mm[m].areas))
  /\ UNCHANGED <<task, call, modules, Others, task_lock>>

\* exec: under cred_guard_mutex a new mm is filled, for everyone or, when the
\* program changes credentials, for its owner only; it replaces the old one, and
\* only then do the credentials change.
Exec(t) ==
  /\ Alive(t) /\ At(t, "user") /\ FreeMms # {} /\ MayGuard(t)
  /\ Spend("execs")
  /\ \E f \in Files, whom \in IF task[t].creds = "all" THEN {"all", "owner"} ELSE {"owner"} :
       /\ mm' = [mm EXCEPT ![NewMm] = [MmAlloc EXCEPT
                    !.exe = f, !.areas = <<Heap>>, !.binfmt = TRUE, !.for = whom]]
       /\ refs' = Got(refs, f)
  /\ committed' = committed + 1
  /\ modules'   = modules + 1
  /\ guard' = [guard EXCEPT ![t] = t]
  /\ call'  = [call EXCEPT ![t] = [NoCall EXCEPT !.at = "exec", !.mm = NewMm]]
  /\ UNCHANGED <<task, reader, kthread, task_lock>>

ExecFails(t) ==
  /\ At(t, "exec")
  /\ Mmput(call[t].mm)
  /\ call'  = [call EXCEPT ![t] = NoCall]
  /\ guard' = [guard EXCEPT ![t] = None]
  /\ UNCHANGED <<task, Files_, reader, kthread, task_lock, left>>

ExecMmap(t) ==
  /\ At(t, "exec") /\ MayLock(t)
  /\ Mmput(task[t].mm)
  /\ task' = [task EXCEPT ![t].mm = call[t].mm]
  /\ call' = [call EXCEPT ![t] = [NoCall EXCEPT !.at = "exec_creds"]]
  /\ UNCHANGED <<Files_, Others, task_lock, left>>

ExecCreds(t) ==
  /\ At(t, "exec_creds")
  /\ task'  = [task EXCEPT ![t].creds = mm[task[t].mm].for]
  /\ call'  = [call EXCEPT ![t] = NoCall]
  /\ guard' = [guard EXCEPT ![t] = None]
  /\ UNCHANGED <<mm, Files_, reader, kthread, task_lock, left>>

(***************************************************************************)
(* Readers: get_task_mm, mm_access and get_task_exe_file.                  *)
(***************************************************************************)

Reads(r, point) == reader[r].at = point

\* mm_access first takes cred_guard_mutex.
Look(r, t, access) ==
  /\ Reads(r, "idle") /\ task[t].state # "unborn"
  /\ Spend("reads")
  /\ access => MayGuard(t)
  /\ guard'  = IF access THEN [guard EXCEPT ![t] = r] ELSE guard
  /\ reader' = [reader EXCEPT ![r] = [Idle EXCEPT !.at = "lock", !.task = t, !.access = access]]
  /\ UNCHANGED <<mm, task, call, Files_, kthread, task_lock>>

\* get_task_mm: under task_lock the pointer is read,
ReadMm(r) ==
  LET t == reader[r].task IN
  /\ Reads(r, "lock") /\ MayLock(t)
  /\ task_lock' = [task_lock EXCEPT ![t] = r]
  /\ reader' = [reader EXCEPT ![r].at = "locked", ![r].mm = task[t].mm]
  /\ UNCHANGED <<mm, task, call, Files_, kthread, guard, left>>

\* and the user counted.
GetTaskMm(r) ==
  LET t == reader[r].task
      m == reader[r].mm
  IN
  /\ Reads(r, "locked")
  /\ task_lock' = [task_lock EXCEPT ![t] = None]
  /\ IF m = None
     THEN /\ reader' = [reader EXCEPT ![r] = Idle]
          /\ guard' = IF reader[r].access THEN [guard EXCEPT ![t] = None] ELSE guard
          /\ UNCHANGED mm
     ELSE /\ reader' = [reader EXCEPT ![r].at = IF reader[r].access THEN "check" ELSE "held"]
          /\ mm' = [mm EXCEPT ![m].users = @ + 1]
          /\ UNCHANGED guard
  /\ UNCHANGED <<task, call, Files_, kthread, left>>

\* mm_access: ptrace_may_access looks at the task's credentials; the mutex is
\* released either way.
MmAccess(r) ==
  LET t == reader[r].task IN
  /\ Reads(r, "check")
  /\ guard' = [guard EXCEPT ![t] = None]
  /\ IF task[t].creds = "all"
     THEN reader' = [reader EXCEPT ![r].at = "held"] /\ UNCHANGED mm
     ELSE reader' = [reader EXCEPT ![r] = Idle] /\ Mmput(reader[r].mm)
  /\ UNCHANGED <<task, call, Files_, kthread, task_lock, left>>

PutMm(r) ==
  /\ Reads(r, "held")
  /\ Mmput(reader[r].mm)
  /\ reader' = [reader EXCEPT ![r] = Idle]
  /\ UNCHANGED <<task, call, Files_, kthread, task_lock, guard, left>>

GetTaskExeFile(r, t) ==
  LET m == task[t].mm IN
  /\ Reads(r, "idle") /\ MayLock(t) /\ m # None /\ mm[m].exe # None
  /\ Spend("reads")
  /\ refs' = Got(refs, mm[m].exe)
  /\ reader' = [reader EXCEPT ![r] = [Idle EXCEPT !.at = "file", !.file = mm[m].exe]]
  /\ UNCHANGED <<mm, task, call, committed, modules, kthread, task_lock, guard>>

PutFile(r) ==
  /\ Reads(r, "file")
  /\ refs' = Put(refs, reader[r].file)
  /\ reader' = [reader EXCEPT ![r] = Idle]
  /\ UNCHANGED <<mm, task, call, committed, modules, kthread, task_lock, guard, left>>

(***************************************************************************)
(* Kernel threads: the scheduler, mmget_not_zero and mmdrop.               *)
(***************************************************************************)

Borrow(k, t) ==
  /\ kthread[k].mm = None /\ Alive(t)
  /\ Spend("reads")
  /\ mm' = [mm EXCEPT ![task[t].mm].count = @ + 1]
  /\ kthread' = [kthread EXCEPT ![k].mm = task[t].mm]
  /\ UNCHANGED <<task, call, reader, Files_, task_lock, guard>>

MmgetNotZero(m) == mm[m].users # 0

Use(k) ==
  LET m == kthread[k].mm IN
  /\ m # None /\ ~kthread[k].uses /\ MmgetNotZero(m)
  /\ Spend("reads")
  /\ mm' = [mm EXCEPT ![m].users = @ + 1]
  /\ kthread' = [kthread EXCEPT ![k].uses = TRUE]
  /\ UNCHANGED <<task, call, reader, Files_, task_lock, guard>>

MmputAsync(k) ==
  /\ kthread[k].uses
  /\ Mmput(kthread[k].mm)
  /\ kthread' = [kthread EXCEPT ![k].uses = FALSE]
  /\ UNCHANGED <<task, call, reader, Files_, task_lock, guard, left>>

Mmdrop(k) ==
  /\ kthread[k].mm # None /\ ~kthread[k].uses
  /\ mm' = [mm EXCEPT ![kthread[k].mm] = Mmdropped(@)]
  /\ kthread' = [kthread EXCEPT ![k].mm = None]
  /\ UNCHANGED <<task, call, reader, Files_, task_lock, guard, left>>

-----------------------------------------------------------------------------

DupMm(t) ==
  \/ AllocMm(t) \/ BeginDupMmap(t) \/ Interrupted(t) \/ SkipArea(t) \/ ChargeArea(t)
  \/ ChargeFails(t) \/ CopyAreaFails(t) \/ LinkArea(t) \/ EndDupMmap(t)
  \/ FinishDupMm(t) \/ FreePt(t)

Elsewhere(t) ==
  \/ Exit(t) \/ Map(t) \/ Unmap(t)
  \/ Exec(t) \/ ExecFails(t) \/ ExecMmap(t) \/ ExecCreds(t)

Reading(r) ==
  \/ \E t \in Tasks : GetTaskExeFile(r, t) \/ \E access \in BOOLEAN : Look(r, t, access)
  \/ ReadMm(r) \/ GetTaskMm(r) \/ MmAccess(r) \/ PutMm(r) \/ PutFile(r)

Borrowing(k) ==
  \/ \E t \in Tasks : Borrow(k, t)
  \/ Use(k) \/ MmputAsync(k) \/ Mmdrop(k)

Next ==
  \/ \E t \in Tasks : DupMm(t) \/ Elsewhere(t)
  \/ \E m \in Mms : FinalMmput(m)
  \/ \E r \in Readers : Reading(r)
  \/ \E k \in Kthreads : Borrowing(k)

Spec == Init /\ [][Next]_vars

-----------------------------------------------------------------------------
(***************************************************************************)
(* Properties.                                                             *)
(***************************************************************************)

\* The variables have their types.
TypeOK ==
  /\ mm \in [Mms -> [state : {"free", "live", "dying", "torn"}, users : Nat, count : Nat,
                     exe : Files \cup {None}, areas : Seq(Areas), binfmt : BOOLEAN,
                     for : {"all", "owner"}, sem : Tasks \cup {None}]]
  /\ task \in [Tasks -> [state : {"unborn", "alive", "dead"}, mm : Mms \cup {None},
                         creds : {"all", "owner"}]]
  /\ call \in [Tasks -> [at : {"user", "mmap_sem", "area", "charged", "binfmt", "undo",
                               "exec", "exec_creds"},
                         mm : Mms \cup {None}, i : Nat, charge : {0, 1}]]
  /\ reader \in [Readers -> [at : {"idle", "lock", "locked", "check", "held", "file"},
                             task : Tasks \cup {None}, mm : Mms \cup {None},
                             file : Files \cup {None}, access : BOOLEAN]]
  /\ kthread \in [Kthreads -> [mm : Mms \cup {None}, uses : BOOLEAN]]
  /\ refs \in [Files -> [held : Nat, denied : Nat, writable : Nat]]
  /\ {committed, modules} \subseteq Nat
  /\ task_lock \in [Tasks -> Readers \cup {None}]
  /\ guard \in [Tasks -> Tasks \cup Readers \cup {None}]
  /\ left \in [{"forks", "execs", "maps", "reads"} -> Nat]

\* mm_users counts the tasks, the calls that fill the mm, the readers and the
\* kernel threads that use it; mm_count counts them as one until the memory is
\* torn down, and every kernel thread that borrows the mm.
UsersOf(m) ==
  Cardinality({t \in Tasks : task[t].mm = m}) + Cardinality({t \in Tasks : call[t].mm = m})
  + Cardinality({r \in Readers : reader[r].mm = m /\ reader[r].at \in {"check", "held"}})
  + Cardinality({k \in Kthreads : kthread[k].mm = m /\ kthread[k].uses})
CountsExact ==
  \A m \in Mms :
    /\ mm[m].users = UsersOf(m)
    /\ mm[m].count = Cardinality({k \in Kthreads : kthread[k].mm = m})
                     + (IF mm[m].state \in {"live", "dying"} THEN 1 ELSE 0)

\* Memory is there for everyone who uses it, and once its last user is gone it
\* is not used again: whoever counts itself in finds another user, through
\* task_lock or through mmget_not_zero.
LiveWhileUsed == \A m \in Mms : mm[m].state = "live" <=> UsersOf(m) # 0

\* Whatever races with whatever, the variables have their types, the counts are
\* exact and the memory of a user is there.
Consistent == TypeOK /\ CountsExact /\ LiveWhileUsed

\* Every file is referenced once by each mm it is the executable of, by each
\* area that maps it and by each reader, its writers are denied once for each
\* text area and its shared mappings counted, wherever a dup_mm has failed.
Present == {m \in Mms : mm[m].state \in {"live", "dying"}}
AreasIn(A) == UNION {{m} \X {i \in DOMAIN mm[m].areas : mm[m].areas[i] \in A} : m \in Present}
FilesExact ==
  \A f \in Files :
    refs[f] = [held     |-> Cardinality({m \in Present : mm[m].exe = f})
                           + Cardinality(AreasIn(Maps(f)))
                           + Cardinality({r \in Readers : reader[r].file = f}),
               denied   |-> Cardinality(AreasIn(Denies(f))),
               writable |-> Cardinality(AreasIn(Writes(f)))]

\* The memory the kernel has promised is that of the accounted areas, plus what
\* a dup_mm has charged for the area it is copying.
CommittedExact == committed = Cardinality(AreasIn(Accounted))
                              + Cardinality({t \in Tasks : call[t].charge = 1})

\* The module of the binary format is held once by every mm, except by one that
\* dup_mm has not finished.
Unfinished == {call[t].mm : t \in {u \in Tasks : call[u].at \in
                 {"mmap_sem", "area", "charged", "binfmt", "undo"}}}
ModulesExact == modules = Cardinality({m \in Present \ Unfinished : mm[m].binfmt})

\* A fork that fails anywhere takes no file, no charge and no module with it, and
\* one that succeeds takes each once.
ResourcesExact == FilesExact /\ CommittedExact /\ ModulesExact

\* mm_access gives out no memory the credentials it checked did not belong to,
\* although exec changes the one before the other.
AccessChecked ==
  \A r \in Readers : reader[r].at = "held" /\ reader[r].access => mm[reader[r].mm].for = "all"

=============================================================================
