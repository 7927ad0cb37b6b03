------------------------------ MODULE TaskLife ------------------------------
(***************************************************************************)
(* The life of a task_struct (hw1/linux/kernel/fork.c): made by            *)
(* dup_task_struct with two references, one for the scheduler and one for  *)
(* whoever reaps it, a third while a vfork waits for it, and handed to     *)
(* __put_task_struct, which writes the dead record of the homework, by     *)
(* whoever drops the last.                                                 *)
(*                                                                         *)
(* The parent of a vfork sleeps on a completion that lives in its own      *)
(* stack frame until the child releases the memory they share, or until a  *)
(* fatal signal; the signal module looks a task up by its pid and lets go  *)
(* of RCU before it uses it.  Tasks and frames are named by the number of  *)
(* the fork that made them, so that no name is used twice.                 *)
(***************************************************************************)
EXTENDS Integers, FiniteSets, SequencesExt

CONSTANTS
  MaxForks,     \* bound on the calls of fork
  CacheSlots,   \* NR_CACHED_STACKS
  Signallers,   \* writers of the signal module's file
  MaxSignals    \* bound on what each of them writes

ASSUME BoundsAssumption == {MaxForks, CacheSlots, MaxSignals} \subseteq Nat /\ MaxForks > 0

InitTask == 0   \* reaps the orphans and never exits
Shell    == 1   \* the other task that runs at the start
Tasks    == 0 .. MaxForks + 1
None     == MaxForks + 2   \* a null pointer

VARIABLES
  task,       \* per task: its state, references, parent, vfork_done and stack
  call,       \* per task: where it is in the kernel, and the child it made
  lock,       \* per task: who holds its alloc_lock
  done,       \* the completions that are complete, by the fork whose frame they are in
  cache,      \* cached_stacks of the CPU
  accounted,  \* NR_KERNEL_STACK_KB, in stacks
  callbacks,  \* the tasks whose delayed_put_task_struct is pending, oldest first
  records,    \* per task: the dead records written for it
  stale,      \* the tasks whose record took the ppid from a freed task_struct
  crossed,    \* whether a task's last reference was overtaken by a later callback
  signaller   \* per writer of the signal module's file: what it has found

vars == <<task, call, lock, done, cache, accounted, callbacks, records, stale, crossed,
          signaller>>

-----------------------------------------------------------------------------

Unborn == [state |-> "unborn", usage |-> 0, parent |-> None, vfork |-> None,
           stack |-> None, borrows |-> FALSE, switched |-> FALSE, grace |-> {},
           sibling |-> FALSE]
Runs(parent, stack) == [Unborn EXCEPT !.state = "running", !.usage = 2,
                                      !.parent = parent, !.stack = stack]
NoCall == [at |-> "user", child |-> None, vfork |-> FALSE, sibling |-> FALSE,
           frame |-> None, exec |-> FALSE]

Init ==
  /\ task = [t \in Tasks |-> IF t \in {InitTask, Shell} THEN Runs(InitTask, t) ELSE Unborn]
  /\ call      = [t \in Tasks |-> NoCall]
  /\ lock      = [t \in Tasks |-> None]
  /\ done      = {}
  /\ cache     = [i \in 1..CacheSlots |-> None]
  /\ accounted = 2
  /\ callbacks = <<>>
  /\ records   = [t \in Tasks |-> 0]
  /\ stale     = {}
  /\ crossed   = FALSE
  /\ signaller = [s \in Signallers |-> [at |-> "idle", task |-> None, left |-> MaxSignals]]

Is(t, states) == task[t].state \in states
At(t, point)  == call[t].at = point
Goto(t, at)   == call' = [call EXCEPT ![t].at = at]
Child(t)      == call[t].child
Unused        == {t \in Tasks : Is(t, {"unborn"})}
Newborn         == CHOOSE t \in Unused : \A u \in Unused : t <= u

\* The completion of fork c is in a frame that has not returned.
FrameLive(c) == \E t \in Tasks : Child(t) = c /\ call[t].vfork

Stacks == <<cache, accounted>>
Deaths == <<callbacks, records, stale, crossed, signaller>>

(***************************************************************************)
(* The stacks: alloc_thread_stack_node and free_thread_stack.              *)
(***************************************************************************)

Full  == {i \in DOMAIN cache : cache[i] # None}
Empty == DOMAIN cache \ Full
First(I) == CHOOSE i \in I : \A j \in I : i <= j

\* A cached stack leaves its slot.
\* Mutant: the slot is not cleared.
CacheKept == cache
CacheTaken == IF Full = {} THEN cache ELSE [cache EXCEPT ![First(Full)] = None]
StackFor(t) == IF Full = {} THEN t ELSE cache[First(Full)]

\* A stack goes to the first empty slot, or back to the system.
CacheGiven(stack) == IF Empty = {} THEN cache ELSE [cache EXCEPT ![First(Empty)] = stack]

AccountKernelStack(by) == accounted' = accounted + by

(***************************************************************************)
(* References.                                                             *)
(***************************************************************************)

\* put_task_struct: with the last reference __put_task_struct writes the record,
\* with the pid of the task's parent, and frees the task.
Dropped(x) == [x EXCEPT !.usage = @ - 1, !.state = IF x.usage = 1 THEN "freed" ELSE @]
Put(t, x) ==
  /\ task' = [task EXCEPT ![t] = Dropped(x)]
  /\ IF x.usage = 1
     THEN /\ records' = [records EXCEPT ![t] = @ + 1]
          /\ stale' = IF Is(x.parent, {"freed"}) THEN stale \cup {t} ELSE stale
     ELSE UNCHANGED <<records, stale>>

\* free_task, for a task that never ran: no record.
\* Mutant: the references are put instead.
FreedByPut(t) == records' = [records EXCEPT ![t] = @ + 1]
Freed(t) == UNCHANGED records

(***************************************************************************)
(* _do_fork.                                                               *)
(***************************************************************************)

\* The flags _do_fork is called with, of those that matter here: none by fork,
\* CLONE_VFORK by vfork, and whatever they are given by clone and kernel_thread.
Flags == {"VFORK", "PARENT"}
Entries == [fork |-> {{}}, vfork |-> {{"VFORK"}}, clone |-> SUBSET Flags,
            kernel_thread |-> SUBSET Flags]

\* What copy_process has set in the copy of a task by the time it returns.
Copied(t, vfork) ==
  [Unborn EXCEPT !.state = "new", !.usage = 2,
                 !.stack = StackFor(Newborn), !.borrows = vfork]

\* dup_task_struct and the rest of copy_process; a task that shares its memory
\* until it releases it is the child of a vfork.
Fork(t) ==
  /\ t # InitTask /\ Is(t, {"running"}) /\ At(t, "user") /\ Unused # {}
  /\ \E entry \in DOMAIN Entries : \E flags \in Entries[entry] :
       /\ task' = [task EXCEPT ![Newborn] = Copied(t, "VFORK" \in flags)]
       /\ call' = [call EXCEPT ![t] = [NoCall EXCEPT !.at = "copied", !.child = Newborn,
                       !.vfork = "VFORK" \in flags, !.sibling = "PARENT" \in flags]]
  /\ cache' = CacheTaken
  /\ AccountKernelStack(1)
  /\ UNCHANGED <<lock, done, Deaths>>

\* A stage of copy_process fails: bad_fork_free puts the stack and frees the task.
ForkFails(t) ==
  /\ At(t, "copied")
  /\ cache' = CacheGiven(task[Child(t)].stack)
  /\ AccountKernelStack(-1)
  /\ task' = [task EXCEPT ![Child(t)] = [@ EXCEPT !.state = "undone", !.usage = 0, !.stack = None,
                                                  !.borrows = FALSE, !.switched = TRUE]]
  /\ Freed(Child(t))
  /\ call' = [call EXCEPT ![t] = NoCall]
  /\ UNCHANGED <<lock, done, callbacks, stale, crossed, signaller>>

\* The child's vfork_done points to the frame, and the child is held.
Held(x) == [x EXCEPT !.usage = @ + 1]
\* Mutant: it does not point there when the child starts to run.
FrameNotSet(c) == None
Frame(c) == c

\* copy_process makes the child visible, as a child of the caller or, with
\* CLONE_PARENT, of the caller's parent; and it is woken up.
WakeUpNewTask(t) ==
  /\ At(t, "copied")
  /\ LET c == Child(t)
         x == [task[c] EXCEPT !.state = "running", !.sibling = call[t].sibling,
                              !.parent = IF call[t].sibling THEN task[t].parent ELSE t]
     IN task' = [task EXCEPT ![c] = IF call[t].vfork THEN Held([x EXCEPT !.vfork = Frame(c)]) ELSE x]
  /\ IF call[t].vfork THEN Goto(t, "wait") ELSE call' = [call EXCEPT ![t] = NoCall]
  /\ UNCHANGED <<lock, done, Stacks, Deaths>>

\* wait_for_completion_killable returns: the completion is complete,
Completed(t) ==
  /\ At(t, "wait") /\ Child(t) \in done
  /\ Goto(t, "put")
  /\ UNCHANGED <<task, lock, done, Stacks, Deaths>>

\* or a fatal signal came.
Killed(t) ==
  /\ At(t, "wait")
  /\ Goto(t, "killed")
  /\ UNCHANGED <<task, lock, done, Stacks, Deaths>>

\* Under task_lock the child forgets the frame.
\* Mutant: task_lock is not waited for.
MayLockAlways(t) == TRUE
MayLock(t) == lock[t] = None
ForgetFrame(t) ==
  /\ At(t, "killed") /\ MayLock(Child(t))
  /\ task' = [task EXCEPT ![Child(t)].vfork = None]
  /\ Goto(t, "put_killed")
  /\ UNCHANGED <<lock, done, Stacks, Deaths>>

\* put_task_struct(child), and _do_fork returns; the frame is gone.
PutChild(t) ==
  /\ call[t].at \in {"put", "put_killed"}
  /\ Put(Child(t), task[Child(t)])
  /\ call' = [call EXCEPT ![t] = NoCall]
  /\ done' = done \ {Child(t)}
  /\ UNCHANGED <<lock, Stacks, callbacks, crossed, signaller>>

(***************************************************************************)
(* mm_release, called by exec and by exit.                                 *)
(***************************************************************************)

\* The task no longer uses the memory; vfork_done is read without task_lock.
MmRelease(t) ==
  /\ t # InitTask /\ Is(t, {"running"}) /\ At(t, "user")
  /\ task' = [task EXCEPT ![t].borrows = FALSE]
  /\ \E exec \in BOOLEAN :
       call' = [call EXCEPT ![t] = [NoCall EXCEPT
                 !.exec = exec, !.frame = task[t].vfork,
                 !.at = IF task[t].vfork # None THEN "release"
                        ELSE IF exec THEN "user" ELSE "exit"]]
  /\ UNCHANGED <<lock, done, Stacks, Deaths>>

\* complete_vfork_done reads it again under task_lock, and clears it.
\* Mutant: the value read before task_lock is used.
ReadBeforeLock(t) == call[t].frame
ReadUnderLock(t) == task[t].vfork
LockVforkDone(t) ==
  /\ At(t, "release") /\ lock[t] = None
  /\ lock' = [lock EXCEPT ![t] = t]
  /\ call' = [call EXCEPT ![t].at = "locked", ![t].frame = ReadUnderLock(t)]
  /\ task' = [task EXCEPT ![t].vfork = None]
  /\ UNCHANGED <<done, Stacks, Deaths>>

CompleteVforkDone(t) ==
  /\ At(t, "locked")
  /\ lock' = [lock EXCEPT ![t] = None]
  /\ done' = IF call[t].frame = None THEN done ELSE done \cup {call[t].frame}
  /\ call' = [call EXCEPT ![t] = [NoCall EXCEPT !.at = IF call[t].exec THEN "user" ELSE "exit"]]
  /\ UNCHANGED <<task, Stacks, Deaths>>

(***************************************************************************)
(* The end of a task (kernel/exit.c, kernel/sched/core.c, RCU).            *)
(***************************************************************************)

\* The readers whose section a grace period that starts now must wait for.
\* Mutant: it waits for none.
NoSections == {}
Sections == {s \in Signallers : signaller[s].at = "section"}
Reaped(x) == [x EXCEPT !.state = "reaped", !.grace = Sections]

\* The children of a task that exits become children of init.
Children(t) == {c \in Tasks : task[c].parent = t /\ ~Is(c, {"unborn", "reaped", "freed", "undone"})}

\* exit_notify: the children are given to init, and the task waits to be reaped
\* or, when its parent ignores it, reaps itself.
ExitNotify(t) ==
  /\ At(t, "exit")
  /\ \E autoreap \in BOOLEAN :
       /\ task' = [c \in Tasks |->
            IF c = t THEN (IF autoreap THEN Reaped(task[t]) ELSE [task[t] EXCEPT !.state = "zombie"])
            ELSE IF c \in Children(t) THEN [task[c] EXCEPT !.parent = InitTask] ELSE task[c]]
       /\ callbacks' = IF autoreap THEN Append(callbacks, t) ELSE callbacks
  /\ call' = [call EXCEPT ![t] = [NoCall EXCEPT !.at = "gone"]]
  /\ UNCHANGED <<lock, done, Stacks, records, stale, crossed, signaller>>

\* release_task, by the parent: the task can no longer be found, and
\* delayed_put_task_struct is called after a grace period.
Reap(t) ==
  LET p == task[t].parent IN
  /\ Is(t, {"zombie"}) /\ Is(p, {"running"}) /\ At(p, "user")
  /\ task' = [task EXCEPT ![t] = Reaped(@)]
  /\ callbacks' = Append(callbacks, t)
  /\ UNCHANGED <<call, lock, done, Stacks, records, stale, crossed, signaller>>

\* delayed_put_task_struct; the callbacks of different CPUs may cross.
RcuPut(t) ==
  /\ task[t].grace = {}
  /\ Put(t, task[t])
  /\ \E i \in DOMAIN callbacks : callbacks[i] = t /\ callbacks' = RemoveAt(callbacks, i)
  /\ crossed' = (crossed \/ Head(callbacks) # t)
  /\ UNCHANGED <<call, lock, done, Stacks, signaller>>

\* finish_task_switch: the task is off its stack for good, and put.
SwitchOut(t) ==
  /\ Is(t, {"zombie", "reaped"}) /\ ~task[t].switched
  /\ Put(t, [task[t] EXCEPT !.switched = TRUE, !.stack = None])
  /\ cache' = CacheGiven(task[t].stack)
  /\ AccountKernelStack(-1)
  /\ crossed' = (crossed \/ task[t].usage = 1)
  /\ UNCHANGED <<call, lock, done, callbacks, signaller>>

(***************************************************************************)
(* write_pid of the signal module.                                         *)
(***************************************************************************)

Found(s) == signaller[s].task

FindTask(s, t) ==
  /\ signaller[s].at = "idle" /\ signaller[s].left > 0
  /\ Is(t, {"running", "zombie"})
  /\ signaller' = [signaller EXCEPT ![s].at = "section", ![s].task = t, ![s].left = @ - 1]
  /\ UNCHANGED <<task, call, lock, done, Stacks, callbacks, records, stale, crossed>>

RcuReadUnlock(s) ==
  /\ signaller[s].at = "section"
  /\ signaller' = [signaller EXCEPT ![s].at = "send"]
  /\ task' = [t \in Tasks |-> [task[t] EXCEPT !.grace = @ \ {s}]]
  /\ UNCHANGED <<call, lock, done, Stacks, callbacks, records, stale, crossed>>

\* send_sig_info uses the task, wherever it is by now, though it may have been freed:
\* what the call does to freed memory is left out.
SendSigInfo(s) ==
  /\ signaller[s].at = "send"
  /\ signaller' = [signaller EXCEPT ![s].at = "idle", ![s].task = None]
  /\ UNCHANGED <<task, call, lock, done, Stacks, callbacks, records, stale, crossed>>

-----------------------------------------------------------------------------

\* What goes on without anyone's decision: the kernel's own steps.
Kernel(t) ==
  \/ Completed(t) \/ ForgetFrame(t) \/ PutChild(t)
  \/ LockVforkDone(t) \/ CompleteVforkDone(t)

Next ==
  \/ \E t \in Tasks :
       \/ Fork(t) \/ ForkFails(t) \/ WakeUpNewTask(t) \/ Killed(t) \/ MmRelease(t)
       \/ ExitNotify(t) \/ Reap(t) \/ RcuPut(t) \/ SwitchOut(t)
       \/ Kernel(t)
  \/ \E s \in Signallers :
       \/ \E t \in Tasks : FindTask(s, t)
       \/ RcuReadUnlock(s) \/ SendSigInfo(s)

Spec == Init /\ [][Next]_vars /\ \A t \in Tasks : WF_vars(Kernel(t))

-----------------------------------------------------------------------------
(***************************************************************************)
(* Properties.                                                             *)
(***************************************************************************)

\* The variables have their types; in particular no count goes below zero.
TypeOK ==
  /\ task \in [Tasks -> [state : {"unborn", "new", "running", "zombie", "reaped",
                                   "freed", "undone"},
                         usage : 0..3, parent : Tasks \cup {None}, vfork : Tasks \cup {None},
                         stack : Tasks \cup {None}, borrows : BOOLEAN, switched : BOOLEAN,
                         grace : SUBSET Signallers, sibling : BOOLEAN]]
  /\ call \in [Tasks -> [at : {"user", "copied", "wait", "killed", "put", "put_killed",
                               "release", "locked", "exit", "gone"},
                         child : Tasks \cup {None}, vfork : BOOLEAN, sibling : BOOLEAN,
                         frame : Tasks \cup {None}, exec : BOOLEAN]]
  /\ lock \in [Tasks -> Tasks \cup {None}]
  /\ done \subseteq Tasks
  /\ cache \in [1..CacheSlots -> Tasks \cup {None}]
  /\ accounted \in Nat /\ callbacks \in Seq(Tasks)
  /\ records \in [Tasks -> Nat]
  /\ stale \subseteq Tasks /\ crossed \in BOOLEAN
  /\ signaller \in [Signallers -> [at : {"idle", "section", "send"},
                                   task : Tasks \cup {None}, left : 0..MaxSignals]]

\* The child of a vfork completes a completion only while the frame it lives in
\* has not returned: a parent that is killed waits for a child that is about to.
NoStrayCompletion ==
  \A t \in Tasks : At(t, "locked") /\ call[t].frame # None => FrameLive(call[t].frame)

\* A vfork that was not killed returns only when its child has let go of the
\* memory they share, whatever else that child has forked meanwhile.
ReturnsAfterRelease ==
  \A t \in Tasks : At(t, "put") => ~task[Child(t)].borrows

\* A vfork returns neither too early, nor before its child has stopped writing to
\* its frame, killed or not.
VforkSafe == NoStrayCompletion /\ ReturnsAfterRelease

\* A vfork that waits never looks at a freed child.
ChildHeld == \A t \in Tasks :
  call[t].at \in {"wait", "killed", "put", "put_killed"} => ~Is(Child(t), {"freed"})

\* A task is referenced by the scheduler until it is off its stack, for the one
\* who reaps it until a grace period later, and by the vfork that waits for it.
Referenced(t, held) == IF held THEN 1 ELSE 0
UsageExact ==
  \A t \in Tasks : ~Is(t, {"unborn", "undone"}) =>
    task[t].usage =
      Referenced(t, ~task[t].switched)
      + Referenced(t, Is(t, {"new", "running", "zombie"}) \/ Contains(callbacks, t))
      + Cardinality({u \in Tasks : Child(u) = t /\ call[u].vfork /\ ~At(u, "copied")})

\* Every task that ran leaves one dead record when it is freed, whoever drops
\* its last reference; one whose fork failed leaves none.
RecordsExact == \A t \in Tasks : records[t] = IF Is(t, {"freed"}) THEN 1 ELSE 0

\* The variables have their types, and references and records are exact.
Consistent == TypeOK /\ UsageExact /\ RecordsExact

\* The record takes the ppid from a parent that still exists, unless the
\* references of parent and child were dropped in another order than theirs, or
\* a vfork with CLONE_PARENT dropped the last one.
PpidReadable == \A t \in stale : crossed \/ task[t].sibling

\* No stack has two owners, one of which may be the cache, a task that is freed
\* has given its own back, and the statistics count the stacks in use.
Owners == {t \in Tasks : task[t].stack # None}
StacksExclusive ==
  /\ \A t \in Owners : ~Is(t, {"freed", "undone"}) /\ \A i \in DOMAIN cache : cache[i] # task[t].stack
  /\ \A t, u \in Owners : task[t].stack = task[u].stack => t = u
  /\ \A i, j \in Full : cache[i] = cache[j] => i = j
  /\ accounted = Cardinality(Owners)

\* What find_task_by_pid returned is there until the section ends, although the
\* task may be reaped and switched out meanwhile.  It says nothing of send_sig_info,
\* which comes after the section and may be handed a task that is freed by then.
FoundInSection == \A s \in Signallers : signaller[s].at = "section" => ~Is(Found(s), {"freed"})

\* A vfork that waits finds its child not yet freed, a record of a death the parent it
\* names, and the section of the signal module, though not the call after it, the task found.
HeldTasksExist == ChildHeld /\ PpidReadable /\ FoundInSection

\* The parent of a vfork returns to its program once its child has let go of
\* the memory.
VforkReturns ==
  \A t \in Tasks \ {InitTask} :
    (At(t, "wait") /\ ~task[Child(t)].borrows) ~> At(t, "user")

=============================================================================
