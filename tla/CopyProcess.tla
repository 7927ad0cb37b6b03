---------------------------- MODULE CopyProcess ----------------------------
(***************************************************************************)
(* How a task is made and taken apart (hw1/linux/kernel/fork.c).           *)
(*                                                                         *)
(* copy_process starts from a copy of the caller's task_struct, whose      *)
(* pointers lead to the caller's objects, and goes through a chain of      *)
(* stages: each shares one of these objects, counting the child in, or     *)
(* replaces it by a new one.  A stage that fails jumps into a chain of     *)
(* labels that has to give back exactly what the stages before it took.    *)
(* Several tasks are in copy_process, in unshare, or exit at the same      *)
(* time, and a signal to the process group may arrive at any point.        *)
(***************************************************************************)
EXTENDS Naturals, Sequences, FiniteSets

CONSTANTS
  Tasks,           \* the task_structs of the machine, free ones included
  FirstTask,       \* the task that runs at the start,
  SecondTask,      \* and one it has made before,
  SecondFlagSets,  \* with one of these sets of flags
  Objects,         \* the objects of each kind, free ones included
  NoObject,        \* a null pointer
  CloneFlagSets,   \* the flags clone is called with
  UnshareFlagSets, \* the flags unshare is called with
  MaxThreads,      \* max_threads
  NprocLimit,      \* RLIMIT_NPROC of the tasks' user, who has no capability
  MaxCalls         \* bound on the calls of clone and unshare

ASSUME TasksAssumption   ==
  IsFiniteSet(Tasks) /\ {FirstTask, SecondTask} \subseteq Tasks /\ FirstTask # SecondTask
ASSUME ObjectsAssumption ==
  IsFiniteSet(Objects) /\ NoObject \notin Objects /\ \E o, q \in Objects : o # q
ASSUME LimitsAssumption  ==
  {MaxThreads, NprocLimit, MaxCalls} \subseteq Nat /\ MaxThreads >= 2 /\ NprocLimit >= 2

CloneFlags == {"VM", "FS", "FILES", "SIGHAND", "THREAD", "NEWNS", "NEWUSER"}
ASSUME FlagsAssumption   ==
  CloneFlagSets \cup UnshareFlagSets \cup SecondFlagSets \subseteq SUBSET CloneFlags

VARIABLES
  task,       \* the task_structs
  refs,       \* the reference counts: count, users, sigcnt, mm_users
  group,      \* per signal_struct: nr_threads and live
  call,       \* per task: where it is in copy_process or in unshare
  nr_threads, \* threads of the machine
  processes,  \* threads of the user
  calls,      \* calls of clone and unshare (bounds the model)
  killed,     \* history: has the process group been sent SIGKILL
  overlapped  \* history: have two calls of copy_process overlapped

vars == <<task, refs, group, call, nr_threads, processes, calls, killed, overlapped>>

-----------------------------------------------------------------------------

\* What task_structs point to: user is the user namespace of the credentials,
\* ns the mount namespace of the nsproxy.
Kinds == {"user", "files", "fs", "sighand", "signal", "mm", "ns", "seccomp"}

\* What belongs to one task alone.
Own == {"task", "delayacct", "mempolicy", "perf", "audit", "semundo", "io",
        "thread", "pid", "threadgroup", "cgroup"}

\* Does a child made with flags f share its parent's object of kind k?
Shares(k, f) ==
  CASE k = "user"    -> "NEWUSER" \notin f
    [] k = "files"   -> "FILES" \in f
    [] k = "fs"      -> "FS" \in f
    [] k = "sighand" -> "SIGHAND" \in f
    [] k = "signal"  -> "THREAD" \in f
    [] k = "mm"      -> "VM" \in f
    [] k = "ns"      -> "NEWNS" \notin f
    [] OTHER         -> TRUE

\* The stages of copy_process in their order, and where each goes to when it
\* fails.
Stages == <<"creds", "limit", "mempolicy", "sched", "perf", "audit", "semundo",
            "files", "fs", "sighand", "signal", "mm", "ns", "io", "thread",
            "pid", "cgroup", "publish">>

Jumps ==
  [creds   |-> "bad_fork_free",     limit  |-> "cleanup_count",
   mempolicy |-> "cleanup_threadgroup_lock",
   sched   |-> "cleanup_policy",    perf   |-> "cleanup_policy",
   audit   |-> "cleanup_perf",      semundo |-> "cleanup_audit",
   files   |-> "cleanup_semundo",   fs     |-> "cleanup_files",
   sighand |-> "cleanup_fs",        signal |-> "cleanup_sighand",
   mm      |-> "cleanup_signal",    ns     |-> "cleanup_mm",
   io      |-> "cleanup_namespaces", thread |-> "cleanup_io",
   pid     |-> "cleanup_thread",    cgroup |-> "free_pid",
   publish |-> "cancel_cgroup"]
\* Mutant: the memory policy is not given back.
OnFailureNoPolicy == [Jumps EXCEPT !.sched = "cleanup_threadgroup_lock"]
OnFailure == Jumps

\* The labels in the order control falls through them, and what the code at
\* each gives back.
Labels == <<"cancel_cgroup", "free_pid", "cleanup_thread", "cleanup_io",
            "cleanup_namespaces", "cleanup_mm", "cleanup_signal",
            "cleanup_sighand", "cleanup_fs", "cleanup_files",
            "cleanup_semundo", "cleanup_audit", "cleanup_perf",
            "cleanup_policy", "cleanup_threadgroup_lock", "cleanup_count",
            "bad_fork_free">>

Releases ==
  [cancel_cgroup |-> {"cgroup"},     free_pid |-> {"threadgroup", "pid"},
   cleanup_thread |-> {"thread"},    cleanup_io |-> {"io"},
   cleanup_namespaces |-> {"ns"},    cleanup_mm |-> {"mm"},
   cleanup_signal |-> {"signal"},    cleanup_sighand |-> {"sighand"},
   cleanup_fs |-> {"fs"},            cleanup_files |-> {"files"},
   cleanup_semundo |-> {"semundo"},  cleanup_audit |-> {"audit"},
   cleanup_perf |-> {"perf"},        cleanup_policy |-> {"mempolicy"},
   cleanup_threadgroup_lock |-> {"delayacct"},
   cleanup_count |-> {"user"},       bad_fork_free |-> {"seccomp", "task"}]

StageNames == {Stages[i] : i \in DOMAIN Stages}
LabelNames == {Labels[i] : i \in DOMAIN Labels}
StageAt == [s \in StageNames |-> CHOOSE i \in DOMAIN Stages : Stages[i] = s]

\* All that is given back from a label on.
GivenBack == [l \in LabelNames |->
  UNION {Releases[Labels[i]] : i \in {j \in DOMAIN Labels :
            \E m \in 1 .. j : Labels[m] = l}}]

UnshareSteps == {"prepare", "switch", "install", "commit", "put"}

\* What the stages that only concern the child take: delayacct_tsk_init, mpol_dup,
\* sched_fork, perf_event_init_task, audit_alloc and copy_semundo; copy_io,
\* copy_thread_tls, alloc_pid with threadgroup_change_begin, cgroup_can_fork.
Gains ==
  [limit |-> {"delayacct"}, mempolicy |-> {"mempolicy"}, sched |-> {},
   perf |-> {"perf"}, audit |-> {"audit"}, semundo |-> {"semundo"}, io |-> {"io"},
   thread |-> {"thread"}, pid |-> {"pid", "threadgroup"}, cgroup |-> {"cgroup"}]

\* The flags copy_process accepts, of a task that is not init and whose children are in
\* its own pid namespace.
Acceptable(f) ==
  /\ ~({"NEWNS", "FS"} \subseteq f)
  /\ ~({"NEWUSER", "FS"} \subseteq f)
  /\ "THREAD" \in f => "SIGHAND" \in f
  /\ "SIGHAND" \in f => "VM" \in f
  /\ "THREAD" \in f => "NEWUSER" \notin f
\* So the second task's flags are, which it was made with.
ASSUME SecondFlagsAssumption == \A f \in SecondFlagSets : Acceptable(f)

NoPointers == [k \in Kinds |-> NoObject]
FreeTask   == [state |-> "free", ptr |-> NoPointers, held |-> {}, pending |-> FALSE,
               leader |-> FALSE]
InUserMode == [at |-> "user", child |-> FirstTask, flags |-> {}, new |-> NoPointers]

\* The two tasks as clone has left them: the first made the second, with flags f.
Started(f) ==
  LET first  == CHOOSE o \in Objects : TRUE
      second == CHOOSE o \in Objects \ {first} : TRUE
      Visible(ptr, leader) ==
        [state |-> "running", ptr |-> ptr, pending |-> FALSE, leader |-> leader,
         held |-> Kinds \cup (Own \ {"threadgroup", "cgroup"})]
  IN
  /\ task = [t \in Tasks |->
       CASE t = FirstTask  -> Visible([k \in Kinds |-> first], TRUE)
         [] t = SecondTask -> Visible([k \in Kinds |-> IF Shares(k, f) THEN first ELSE second],
                                      "THREAD" \notin f)
         [] OTHER          -> FreeTask]
  /\ refs = [k \in Kinds |-> [o \in Objects |->
       CASE o = first  -> IF Shares(k, f) THEN 2 ELSE 1
         [] o = second -> IF Shares(k, f) THEN 0 ELSE 1
         [] OTHER      -> 0]]
  /\ group = [o \in Objects |->
       LET n == refs["signal"][o] IN [nr_threads |-> n, live |-> n]]

Init ==
  /\ \E f \in SecondFlagSets : Started(f)
  /\ call  = [t \in Tasks |-> InUserMode]
  /\ nr_threads = 2
  /\ processes  = 2
  /\ calls      = 0
  /\ killed     = FALSE
  /\ overlapped = FALSE

At(t, point) == call[t].at = point
Running(t)   == task[t].state = "running"
Signal(t)    == task[t].ptr["signal"]
Forking      == {t \in Tasks : call[t].at \in StageNames}

\* Memory nobody holds; an object taken out of use but not yet freed is held.
Free(k) == {o \in Objects : refs[k][o] = 0 /\ \A t \in Tasks : call[t].new[k] # o}
Fresh(k) == CHOOSE o \in Free(k) : TRUE

-----------------------------------------------------------------------------

\* The stage s of t's copy_process is over, or has failed.
Child(t)  == call[t].child
Done(t)   == call' = [call EXCEPT ![t].at = Stages[StageAt[@] + 1]]
Holds(t, r) == task' = [task EXCEPT ![t].held = @ \cup r]

\* References taken and given back, as sets of pairs <<kind, object>>.
Counted(up, down) ==
  refs' = [k \in Kinds |-> [o \in Objects |->
             CASE <<k, o>> \in up   -> refs[k][o] + 1
               [] <<k, o>> \in down -> refs[k][o] - 1
               [] OTHER             -> refs[k][o]]]
Pointed(t, ks) == {<<k, task[t].ptr[k]>> : k \in ks}

Ghosts == <<calls, killed, overlapped>>

(***************************************************************************)
(* copy_process.                                                           *)
(***************************************************************************)

\* Mutant: the seccomp filter is not cleared.
DupTaskStructWithFilter(t) ==
  [task[t] EXCEPT !.state = "new", !.held = {"task"}, !.pending = FALSE, !.leader = FALSE]
\* dup_task_struct: the child is a copy of the caller, down to the pointers,
\* except for the seccomp filter, which it does not hold.
DupTaskStruct(t) ==
  [task[t] EXCEPT !.state = "new", !.ptr["seccomp"] = NoObject,
                  !.held = {"task"}, !.pending = FALSE, !.leader = FALSE]

\* Mutant: one process too many.
MayHaveTwoMore == processes <= NprocLimit
MayHaveAnother == processes < NprocLimit

\* Flags that are refused, a failure of dup_task_struct and a user over the
\* limit leave everything as it was.
Clone(t, f, p) ==
  /\ Running(t) /\ At(t, "user") /\ ~task[t].pending
  /\ calls < MaxCalls
  /\ Acceptable(f)
  /\ task[p].state = "free"
  /\ MayHaveAnother
  /\ task' = [task EXCEPT ![p] = DupTaskStruct(t)]
  /\ call' = [call EXCEPT ![t].at = Stages[1], ![t].child = p, ![t].flags = f]
  /\ calls' = calls + 1
  /\ overlapped' = (overlapped \/ Forking # {})
  /\ UNCHANGED <<refs, group, nr_threads, processes, killed>>

\* A stage shares the parent's object, or makes the child one of its own.
Copy(t, k) ==
  LET p == Child(t)
      shared == Shares(k, call[t].flags)
      o == IF shared THEN task[t].ptr[k] ELSE Fresh(k)
  IN /\ shared \/ Free(k) # {}
     /\ task' = [task EXCEPT ![p].ptr[k] = o, ![p].held = @ \cup {k}]
     /\ Counted({<<k, o>>}, {})
     /\ Done(t)

\* copy_creds, which also counts the user's processes.
CopyCreds(t) ==
  /\ At(t, "creds")
  /\ Copy(t, "user")
  /\ processes' = processes + 1
  /\ UNCHANGED <<group, nr_threads, Ghosts>>

\* They touch nothing shared: a run of them is one step.
Between == [r \in StageNames |-> [s \in StageNames |->
             {Stages[i] : i \in StageAt[r] .. StageAt[s] - 1}]]
Ahead == [r \in StageNames |-> {s \in StageNames :
             StageAt[r] <= StageAt[s] /\ Between[r][s] \subseteq DOMAIN Gains}]
Before(t, s) == UNION {Gains[r] : r \in Between[call[t].at][s]}

\* Before the first run max_threads is checked, too late when several tasks are
\* in copy_process.
LimitReached == nr_threads >= MaxThreads

Prepare(t) ==
  /\ call[t].at \in DOMAIN Gains
  /\ At(t, "limit") => ~LimitReached
  /\ \E s \in Ahead[call[t].at] \ DOMAIN Gains :
       /\ Holds(Child(t), Before(t, s))
       /\ call' = [call EXCEPT ![t].at = s]
  /\ UNCHANGED <<refs, group, nr_threads, processes, Ghosts>>

CopyFiles(t) ==
  /\ At(t, "files")
  /\ Copy(t, "files")
  /\ UNCHANGED <<group, nr_threads, processes, Ghosts>>

\* Refused with CLONE_FS while the threads that share fs are in exec: one of
\* the failures of a stage.
CopyFs(t) ==
  /\ At(t, "fs")
  /\ Copy(t, "fs")
  /\ UNCHANGED <<group, nr_threads, processes, Ghosts>>

CopySighand(t) ==
  /\ At(t, "sighand")
  /\ Copy(t, "sighand")
  /\ UNCHANGED <<group, nr_threads, processes, Ghosts>>

\* A thread joins the group only when it becomes visible.
CopySignal(t) ==
  /\ At(t, "signal")
  /\ IF "THREAD" \in call[t].flags
     THEN Done(t) /\ UNCHANGED <<task, refs, group>>
     ELSE /\ Copy(t, "signal")
          /\ group' = [group EXCEPT ![Fresh("signal")] = [nr_threads |-> 1, live |-> 1]]
  /\ UNCHANGED <<nr_threads, processes, Ghosts>>

CopyMm(t) ==
  /\ At(t, "mm")
  /\ Copy(t, "mm")
  /\ UNCHANGED <<group, nr_threads, processes, Ghosts>>

CopyNamespaces(t) ==
  /\ At(t, "ns")
  /\ Copy(t, "ns")
  /\ UNCHANGED <<group, nr_threads, processes, Ghosts>>

\* From a label on, everything is given back, through the child's pointers.
\* free_signal_struct is not called for a thread.
Given(t, label) ==
  GivenBack[label] \ (IF "THREAD" \in call[t].flags THEN {"signal"} ELSE {})

Unwind(t, label) ==
  LET p == Child(t)
      given == {k \in Given(t, label) \cap Kinds : task[p].ptr[k] # NoObject}
  IN
  /\ Counted({}, Pointed(p, given))
  /\ group' = IF "signal" \in given
              THEN [group EXCEPT ![Signal(p)] = [nr_threads |-> 0, live |-> 0]] ELSE group
  /\ processes' = IF "user" \in given THEN processes - 1 ELSE processes
  /\ task' = [task EXCEPT ![p] = FreeTask]
  /\ call' = [call EXCEPT ![t] = InUserMode]
  /\ UNCHANGED <<nr_threads, Ghosts>>

\* Can stage s fail?  It may run out of memory or be refused, unless it only
\* counts; the limit is tested, and a signal or a dying pid namespace stop the
\* child on the point of becoming visible.
CanFail(t, s) ==
  /\ s \in {"files", "sighand", "signal", "mm", "ns"} => ~Shares(s, call[t].flags)
  /\ s = "limit" => LimitReached

StageFails(t) ==
  call[t].at \in StageNames /\ \E s \in Ahead[call[t].at] :
    /\ At(t, "limit") /\ s # "limit" => ~LimitReached
    /\ CanFail(t, s)
    /\ Unwind(t, OnFailure[s])

\* recalc_sigpending and signal_pending.
\* Mutant: they are not asked.
SignalIgnored(t) == FALSE
SignalPending(t) == task[t].pending

\* The child takes the filter its parent has by now, and is one of its users.
CopySeccomp(x, t) ==
  [x EXCEPT !.ptr["seccomp"] = task[t].ptr["seccomp"], !.held = @ \cup {"seccomp"}]

\* Under tasklist_lock and siglock: copy_seccomp, and the child becomes visible,
\* unless a signal has arrived.
Publish(t) ==
  LET p == Child(t)
      thread == "THREAD" \in call[t].flags
  IN
  /\ At(t, "publish")
  /\ ~SignalPending(t)
  /\ Counted(Pointed(t, {"seccomp"}) \cup
             (IF thread THEN {<<"signal", Signal(t)>>} ELSE {}), {})
  /\ group' = IF thread THEN [group EXCEPT ![Signal(t)].nr_threads = @ + 1,
                                           ![Signal(t)].live = @ + 1]
                        ELSE group
  /\ task' = [task EXCEPT ![p] =
       [CopySeccomp(task[p], t) EXCEPT !.state = "running", !.leader = ~thread,
          !.held = (@ \cup {"signal"}) \ {"threadgroup", "cgroup"}]]
  /\ call' = [call EXCEPT ![t] = InUserMode]
  /\ nr_threads' = nr_threads + 1
  /\ UNCHANGED <<processes, Ghosts>>

(***************************************************************************)
(* What happens to a task afterwards (kernel/exit.c and kernel/signal.c).  *)
(***************************************************************************)

\* A signal that kills the process group: delivered under tasklist_lock to all
\* visible members.
KillGroup ==
  /\ ~killed
  /\ killed' = TRUE
  /\ task' = [t \in Tasks |-> [task[t] EXCEPT !.pending = @ \/ Running(t)]]
  /\ UNCHANGED <<refs, group, call, nr_threads, processes, calls, overlapped>>

\* do_exit drops what the task no longer needs as a zombie.
Exit(t) ==
  LET gone == {"mm", "files", "fs", "ns"} IN
  /\ Running(t) /\ At(t, "user")
  /\ Counted({}, Pointed(t, gone))
  /\ group' = [group EXCEPT ![Signal(t)].live = @ - 1]
  /\ task' = [task EXCEPT ![t] = [task[t] EXCEPT !.state = "zombie",
       !.ptr = [k \in Kinds |-> IF k \in gone THEN NoObject ELSE task[t].ptr[k]],
       !.held = @ \ (gone \cup {"semundo", "io", "thread"})]]
  /\ UNCHANGED <<call, nr_threads, processes, Ghosts>>

\* __cleanup_sighand: the last user frees the handlers.
CleanupSighand(t) == Counted({}, Pointed(t, {"sighand"}))

\* release_task: a leader waits until it is the last of its group.
Release(t) ==
  /\ task[t].state = "zombie"
  /\ task[t].leader => group[Signal(t)].nr_threads = 1
  /\ CleanupSighand(t)
  /\ group' = [group EXCEPT ![Signal(t)].nr_threads = @ - 1]
  /\ nr_threads' = nr_threads - 1
  /\ processes'  = processes - 1
  /\ task' = [task EXCEPT ![t].state = "dead", ![t].ptr["sighand"] = NoObject,
                          ![t].held = @ \ {"sighand", "pid"}]
  /\ UNCHANGED <<call, Ghosts>>

\* __put_task_struct: the last reference to the task_struct is gone.
PutTaskStruct(t) ==
  /\ task[t].state = "dead"
  /\ Counted({}, Pointed(t, {"user", "signal", "seccomp"}))
  /\ task' = [task EXCEPT ![t] = FreeTask]
  /\ UNCHANGED <<group, call, nr_threads, processes, Ghosts>>

(***************************************************************************)
(* unshare.                                                                *)
(***************************************************************************)

\* What unsharing one thing also unshares.
\* Mutant: a new namespace keeps the root and working directory of the old.
ClosureNoFs(f) ==
  f \cup (IF "VM" \in f THEN {"SIGHAND", "THREAD"} ELSE {})
    \cup (IF "NEWUSER" \in f THEN {"THREAD", "FS"} ELSE {})
Closure(f) ==
  LET vm      == IF "VM" \in f THEN {"SIGHAND", "THREAD"} ELSE {}
      sighand == IF "SIGHAND" \in f THEN {"THREAD"} ELSE {}
      user    == IF "NEWUSER" \in f THEN {"THREAD", "FS"} ELSE {}
      ns      == IF "NEWNS" \in f THEN {"FS"} ELSE {}
  IN f \cup vm \cup sighand \cup user \cup ns

AloneInGroup(t)   == group[Signal(t)].nr_threads = 1
AloneInMemory(t)  == \A u \in Tasks \ {t} : Running(u) => task[u].ptr["mm"] # task[t].ptr["mm"]
AloneInSighand(t) == refs["sighand"][task[t].ptr["sighand"]] <= 1

\* check_unshare_flags: unsharing these is not implemented, and allowed when
\* there is nothing to unshare.
CheckUnshareFlags(t, f) ==
  /\ {"THREAD", "SIGHAND", "VM"} \cap f # {} => AloneInGroup(t)
  /\ {"SIGHAND", "VM"} \cap f # {} => AloneInSighand(t)
  /\ "VM" \in f => AloneInMemory(t)

Elsewhere == <<group, nr_threads, processes, Ghosts>>

Unshare(t, f) ==
  /\ Running(t) /\ At(t, "user") /\ ~task[t].pending
  /\ calls < MaxCalls
  /\ CheckUnshareFlags(t, Closure(f))
  /\ calls' = calls + 1
  /\ call' = [call EXCEPT ![t].at = "prepare", ![t].flags = Closure(f)]
  /\ UNCHANGED <<task, refs, group, nr_threads, processes, killed, overlapped>>

\* unshare_files, by which exec gives a task its own file table: what unshare
\* does with CLONE_FILES, the steps for the other flags having nothing to do; an
\* exec that succeeds puts the old one.
UnshareFiles(t) ==
  /\ Running(t) /\ At(t, "user") /\ ~task[t].pending
  /\ calls < MaxCalls
  /\ calls' = calls + 1
  /\ call' = [call EXCEPT ![t].at = "prepare", ![t].flags = {"FILES"}]
  /\ UNCHANGED <<task, refs, group, nr_threads, processes, killed, overlapped>>

SharedBy(t, k) == refs[k][task[t].ptr[k]] > 1

\* unshare_fs and unshare_fd copy what is shared, without a lock; unshare_userns
\* and unshare_nsproxy_namespaces make what the flags ask for.
Wanted(t) == {k \in {"fs", "files", "user", "ns"} :
  CASE k = "fs"    -> "FS" \in call[t].flags /\ SharedBy(t, k)
    [] k = "files" -> "FILES" \in call[t].flags /\ SharedBy(t, k)
    [] k = "user"  -> "NEWUSER" \in call[t].flags
    [] k = "ns"    -> "NEWNS" \in call[t].flags}

PrepareNew(t) ==
  /\ At(t, "prepare")
  /\ \A k \in Wanted(t) : Free(k) # {}
  /\ call' = [call EXCEPT ![t] = IF Wanted(t) = {} THEN InUserMode ELSE
       [call[t] EXCEPT !.at = "switch",
                 !.new = [k \in Kinds |-> IF k \in Wanted(t) THEN Fresh(k) ELSE NoObject]]]
  /\ Counted({<<k, Fresh(k)>> : k \in Wanted(t)}, {})
  /\ UNCHANGED <<task, Elsewhere>>

\* One of them fails, and those made before it are given back.
PrepareFails(t) ==
  /\ At(t, "prepare") /\ Wanted(t) # {}
  /\ call' = [call EXCEPT ![t] = InUserMode]
  /\ UNCHANGED <<task, refs, Elsewhere>>

\* The caller takes the new object of kind k.
Takes(t, ks) ==
  LET new == {k \in ks : call[t].new[k] # NoObject} IN
  task' = [task EXCEPT ![t].ptr = [k \in Kinds |-> IF k \in new THEN call[t].new[k] ELSE @[k]]]

SwitchTaskNamespaces(t) ==
  /\ At(t, "switch")
  /\ Takes(t, {"ns"})
  /\ Counted({}, IF call[t].new["ns"] = NoObject THEN {} ELSE Pointed(t, {"ns"}))
  /\ call' = [call EXCEPT ![t].at = "install", ![t].new["ns"] = NoObject]
  /\ UNCHANGED Elsewhere

\* Under task_lock: the old fs is to be freed if this was its last user, the
\* old files are to be put.
Install(t) ==
  LET new == call[t].new
      old == task[t].ptr
      oldFs == IF new["fs"] = NoObject \/ SharedBy(t, "fs") THEN NoObject ELSE old["fs"]
      oldFd == IF new["files"] = NoObject THEN NoObject ELSE old["files"]
  IN
  /\ At(t, "install")
  /\ Takes(t, {"fs", "files"})
  /\ Counted({}, IF new["fs"] = NoObject THEN {} ELSE Pointed(t, {"fs"}))
  /\ call' = [call EXCEPT ![t].at = "commit", ![t].new["fs"] = oldFs,
                          ![t].new["files"] = oldFd]
  /\ UNCHANGED Elsewhere

CommitCreds(t) ==
  /\ At(t, "commit")
  /\ Takes(t, {"user"})
  /\ Counted({}, IF call[t].new["user"] = NoObject THEN {} ELSE Pointed(t, {"user"}))
  /\ call' = [call EXCEPT ![t].at = "put", ![t].new["user"] = NoObject]
  /\ UNCHANGED Elsewhere

\* The labels of unshare: the old files lose a reference, the old fs is freed.
PutOld(t) ==
  LET fd == call[t].new["files"] IN
  /\ At(t, "put")
  /\ Counted({}, IF fd = NoObject THEN {} ELSE {<<"files", fd>>})
  /\ call' = [call EXCEPT ![t] = InUserMode]
  /\ UNCHANGED <<task, Elsewhere>>

-----------------------------------------------------------------------------

CopySteps(t) ==
  \/ CopyCreds(t) \/ Prepare(t) \/ CopyFiles(t) \/ CopyFs(t)
  \/ CopySighand(t) \/ CopySignal(t) \/ CopyMm(t) \/ CopyNamespaces(t)
  \/ StageFails(t) \/ Publish(t)

UnshareSyscall(t) ==
  \/ PrepareNew(t) \/ PrepareFails(t) \/ SwitchTaskNamespaces(t) \/ Install(t)
  \/ CommitCreds(t) \/ PutOld(t)

Next ==
  \/ KillGroup
  \/ \E t \in Tasks :
       \/ \E f \in CloneFlagSets, p \in Tasks : Clone(t, f, p)
       \/ UnshareFiles(t) \/ \E f \in UnshareFlagSets : Unshare(t, f)
       \/ CopySteps(t) \/ UnshareSyscall(t)
       \/ Exit(t) \/ Release(t) \/ PutTaskStruct(t)

Spec == Init /\ [][Next]_vars

-----------------------------------------------------------------------------
(***************************************************************************)
(* Properties.                                                             *)
(***************************************************************************)

\* The variables have their types.
TypeOK ==
  /\ task \in [Tasks -> [state : {"free", "new", "running", "zombie", "dead"},
                         ptr : [Kinds -> Objects \cup {NoObject}],
                         held : SUBSET (Kinds \cup Own),
                         pending : BOOLEAN, leader : BOOLEAN]]
  /\ refs \in [Kinds -> [Objects -> Nat]]
  /\ group \in [Objects -> [nr_threads : Nat, live : Nat]]
  /\ call \in [Tasks -> [at : {"user"} \cup StageNames \cup UnshareSteps,
                         child : Tasks, flags : SUBSET CloneFlags,
                         new : [Kinds -> Objects \cup {NoObject}]]]
  /\ {nr_threads, processes, calls} \subseteq Nat
  /\ {killed, overlapped} \subseteq BOOLEAN

\* The reference counts are right at every moment: each object is counted once
\* for every task that took it and once for an unshare that prepares to
\* install it, and the threads of a group once in nr_threads, once in live
\* until they exit.  A stage too many undone, or one too few, frees an object
\* in use or leaks it.
Holders(k, o) == {t \in Tasks : k \in task[t].held /\ task[t].ptr[k] = o}
Preparing(k, o) == {t \in Tasks : call[t].new[k] = o /\ ~(k = "fs" /\ call[t].at \in {"commit", "put"})}
InGroup(o, states) ==
  {t \in Holders("signal", o) : task[t].state \in states}
CountsExact ==
  /\ \A k \in Kinds, o \in Objects :
       refs[k][o] = Cardinality(Holders(k, o)) + Cardinality(Preparing(k, o))
  /\ \A o \in Objects :
       /\ group[o].nr_threads = Cardinality(InGroup(o, {"new", "running", "zombie"}))
       /\ group[o].live = Cardinality(InGroup(o, {"new", "running"}))

\* What every stage, label and system call leaves behind is well typed and counted.
Consistent == TypeOK /\ CountsExact

\* Whatever stage of copy_process fails, the labels its failure jumps to give
\* back all the child has taken by then, and nothing else.
UnwindsExactly ==
  \A t \in Forking : \A s \in Ahead[call[t].at] :
    task[Child(t)].held \cup Before(t, s) = Given(t, OnFailure[s]) \ {"seccomp"}

\* The threads of a group share their signal handlers, their memory and their
\* user namespace: what delivering a signal, exec and ptrace rely on, and the
\* flags checks of clone and unshare are for.
ThreadsShare ==
  \A t, u \in {v \in Tasks : Running(v)} : Signal(t) = Signal(u) =>
    \A k \in {"sighand", "mm", "user"} : task[t].ptr[k] = task[u].ptr[k]

\* Tasks that share root and working directory live in the same mount
\* namespace and in the same user namespace, except while one of them is
\* inside unshare.
Leaving(t) == call[t].at \in {"install", "commit"}
FsSharesNamespace ==
  \A t, u \in {v \in Tasks : Running(v) /\ ~Leaving(v)} :
    task[t].ptr["fs"] = task[u].ptr["fs"] =>
      \A k \in {"ns", "user"} : task[t].ptr[k] = task[u].ptr[k]

\* unshare goes on with CLONE_THREAD, CLONE_SIGHAND or CLONE_VM only when there
\* is nothing to unshare, and this stays so until it returns.
UnshareMeansAlone ==
  \A t \in Tasks : call[t].at \in UnshareSteps =>
    /\ "THREAD"  \in call[t].flags => AloneInGroup(t)
    /\ "SIGHAND" \in call[t].flags => AloneInSighand(t)
    /\ "VM"      \in call[t].flags => AloneInMemory(t)

\* The rules on what tasks share, which the checks of the flags in clone and in
\* unshare enforce together: neither alone is enough.
SharingRules == ThreadsShare /\ FsSharesNamespace /\ UnshareMeansAlone

\* No child slips out of a signal to its process group by being made while
\* the signal is delivered.
NoSurvivor == killed => \A t \in Tasks : Running(t) => task[t].pending

\* The limits on threads and on a user's processes are exceeded only when calls
\* of copy_process have overlapped: the checks trigger too late, not never.
LimitsUnlessOverlapped ==
  ~overlapped => nr_threads <= MaxThreads /\ processes <= NprocLimit

=============================================================================
