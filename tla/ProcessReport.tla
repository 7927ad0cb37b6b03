---------------------------- MODULE ProcessReport ----------------------------
(***************************************************************************)
(* Mode 'T' of /proc/hw1: print_mode_A of hw1/mod/hw1.c.  It walks the     *)
(* task list three times, to count the tasks by state, to list those with  *)
(* an address space and to list those without, with no lock: on the other  *)
(* CPUs tasks are forked, change state, exit and are reaped between any    *)
(* two of its steps.                                                       *)
(*                                                                         *)
(* Tasks are numbered in the order of the task list, which forks extend at *)
(* its end.  A reaped task keeps its link, so that a walk that stands on   *)
(* it goes on; its memory is taken to outlive the walk.  A show that       *)
(* seq_file runs again for a larger buffer is one more show.               *)
(***************************************************************************)
EXTENDS Integers, FiniteSets

CONSTANTS
  MaxTasks,    \* bound on the tasks ever forked
  MaxChanges,  \* bound on the changes of tasks during one show
  MaxShows     \* bound on the shows

ASSUME ReportBoundsAssumption == MaxTasks \in Nat /\ MaxChanges \in Nat /\ MaxShows \in Nat

\* include/linux/sched.h: values of task->state, and of tsk->exit_state.
TASK_RUNNING         == 0
TASK_INTERRUPTIBLE   == 1
TASK_UNINTERRUPTIBLE == 2
TASK_DEAD            == 64
TASK_STOPPED         == 128 + 4      \* TASK_WAKEKILL | __TASK_STOPPED
TASK_TRACED          == 128 + 8      \* TASK_WAKEKILL | __TASK_TRACED
EXIT_ZOMBIE          == 32

States == {TASK_RUNNING, TASK_INTERRUPTIBLE, TASK_UNINTERRUPTIBLE,
           TASK_STOPPED, TASK_TRACED, TASK_DEAD}
Tasks   == 1 .. MaxTasks
Letters == {"R", "S", "T", "Z"}
Passes  == {"count", "user", "kernel"}

VARIABLES
  tasks,    \* the task list: state, exit_state and mm of every task on it
  forked,   \* tasks forked so far
  pass,     \* the loop print_mode_A is in, or "idle" or "done"
  at,       \* the task its loop has come to; 0: none yet
  total,    \* total_num_of_process
  number,   \* num_of_..._process, by the letter of the state
  rows,     \* the rows printed: task, pass and the letter of the state
  changes,  \* history: changes of tasks since the show began, more than
            \* MaxChanges if there were any outside it (bounds the model)
  shows,    \* history: shows begun (bounds the model)
  born,     \* history: tasks on the list when the show began
  remapped  \* history: tasks that got or dropped their mm during the show

report     == <<pass, at, total, number, rows, shows, born>>
reportVars == <<tasks, forked, report, changes, remapped>>

ReportInit ==
  /\ tasks = [t \in {} |-> [state |-> TASK_RUNNING]]
  /\ forked = 0
  /\ pass = "idle" /\ at = 0
  /\ total = 0 /\ number = [l \in Letters |-> 0] /\ rows = {}
  /\ changes = 0 /\ shows = 0 /\ born = {} /\ remapped = {}

-----------------------------------------------------------------------------
(* The kernel: what tasks do meanwhile.                                    *)

Showing == pass \in Passes

Change(t, new) ==
  /\ Showing => changes < MaxChanges
  /\ changes' = IF Showing THEN changes + 1 ELSE MaxChanges + 1
  /\ tasks' = [u \in DOMAIN tasks \cup {t} |-> IF u = t THEN new ELSE tasks[u]]
  /\ remapped' = IF t \in DOMAIN tasks /\ tasks[t].mm # new.mm
                 THEN remapped \cup {t} ELSE remapped
  /\ UNCHANGED report

Fork ==
  /\ forked < MaxTasks
  /\ forked' = forked + 1
  /\ \E mm \in BOOLEAN :
       Change(forked', [state |-> TASK_RUNNING, exit_state |-> 0, mm |-> mm])

\* A running task waits, stops or is traced; any of these runs again.
Schedule(t) ==
  /\ tasks[t].exit_state = 0
  /\ \E s \in States \ {TASK_DEAD} :
       /\ (tasks[t].state = TASK_RUNNING) # (s = TASK_RUNNING)
       /\ Change(t, [tasks[t] EXCEPT !.state = s])
  /\ UNCHANGED forked

\* exit_mm; and a kernel thread that execs a user program gets an mm.
Remap(t) ==
  /\ tasks[t].state = TASK_RUNNING /\ tasks[t].exit_state = 0
  /\ Change(t, [tasks[t] EXCEPT !.mm = ~@])
  /\ UNCHANGED forked

\* exit_notify makes a zombie of a task without mm, do_task_dead ends it, its
\* parent takes it off the list.
Exit(t) ==
  /\ tasks[t].state = TASK_RUNNING /\ tasks[t].exit_state = 0 /\ ~tasks[t].mm
  /\ Change(t, [tasks[t] EXCEPT !.exit_state = EXIT_ZOMBIE])
  /\ UNCHANGED forked

Die(t) ==
  /\ tasks[t].state = TASK_RUNNING /\ tasks[t].exit_state = EXIT_ZOMBIE
  /\ Change(t, [tasks[t] EXCEPT !.state = TASK_DEAD])
  /\ UNCHANGED forked

Reap(t) ==
  /\ tasks[t].exit_state = EXIT_ZOMBIE
  /\ Showing => changes < MaxChanges
  /\ changes' = IF Showing THEN changes + 1 ELSE MaxChanges + 1
  /\ tasks' = [u \in DOMAIN tasks \ {t} |-> tasks[u]]
  /\ UNCHANGED <<forked, report, remapped>>

Kernel == Fork \/ \E t \in DOMAIN tasks : Schedule(t) \/ Remap(t) \/ Exit(t) \/ Die(t) \/ Reap(t)

-----------------------------------------------------------------------------
(* print_mode_A.                                                           *)

\* total_num_of_process starts at 0 in every call.
NoTotal == 0

Show ==
  /\ ~Showing
  /\ shows < MaxShows
  /\ shows' = shows + 1
  /\ pass' = "count" /\ at' = 0
  /\ total' = NoTotal /\ number' = [l \in Letters |-> 0] /\ rows' = {}
  /\ born' = DOMAIN tasks
  /\ changes' = 0 /\ remapped' = {}
  /\ UNCHANGED <<tasks, forked>>

\* The switch over task->state: its cases are 0, 1, 4, 32 and 128.
Letter(state) ==
  CASE state = 0 -> {"R"} [] state = 1 -> {"S"} [] state \in {4, 128} -> {"T"}
    [] state = 32 -> {"Z"} [] OTHER -> {}

\* Which tasks a listing pass prints.  Mutant: the second one does not test
\* mm.
PrintsAny(p, task)  == task.state # 64 /\ (p = "user" => task.mm)
Prints(p, task)     == task.state # 64 /\ task.mm = (p = "user")

\* for_each_process goes on to the task after at.
Ahead == {t \in DOMAIN tasks : t > at}
First(s) == CHOOSE t \in s : \A u \in s : t <= u

Come == /\ Showing
        /\ Ahead # {}
        /\ at' = First(Ahead)

\* The first loop counts the task.
Count ==
  /\ Come
  /\ pass = "count"
  /\ total' = total + 1
  /\ number' = [l \in Letters |->
                 number[l] + (IF l \in Letter(tasks[at'].state) THEN 1 ELSE 0)]
  /\ UNCHANGED <<tasks, forked, pass, rows, changes, shows, born, remapped>>

\* The second and the third print a row of it, or pass it over.  A row without
\* a letter has no end of line either.
Row ==
  /\ Come
  /\ pass \in {"user", "kernel"}
  /\ rows' = IF Prints(pass, tasks[at'])
             THEN rows \cup {[task |-> at', pass |-> pass, letter |-> Letter(tasks[at'].state)]}
             ELSE rows
  /\ UNCHANGED <<tasks, forked, pass, total, number, changes, shows, born, remapped>>

\* The first loop has come to the head of the list: the header is printed, with
\* total and number as they are, and the second begins.
Header ==
  /\ pass = "count" /\ Ahead = {}
  /\ at' = 0 /\ pass' = "user"
  /\ UNCHANGED <<tasks, forked, total, number, rows, changes, shows, born, remapped>>

\* The end of the second and of the third.
EndPass ==
  /\ pass \in {"user", "kernel"} /\ Ahead = {}
  /\ at' = 0 /\ pass' = IF pass = "user" THEN "kernel" ELSE "done"
  /\ UNCHANGED <<tasks, forked, total, number, rows, changes, shows, born, remapped>>

ReportNext == Kernel \/ Show \/ Count \/ Header \/ Row \/ EndPass

ReportSpec == ReportInit /\ [][ReportNext]_reportVars

-----------------------------------------------------------------------------

TaskType == [state : States, exit_state : {0, EXIT_ZOMBIE}, mm : BOOLEAN]

\* Every variable stays in its type; in particular the loops stay on the list.
ReportTypeOK ==
  /\ DOMAIN tasks \subseteq 1 .. forked /\ \A t \in DOMAIN tasks : tasks[t] \in TaskType
  /\ forked \in 0 .. MaxTasks
  /\ pass \in Passes \cup {"idle", "done"}
  /\ at \in 0 .. MaxTasks
  /\ total \in 0 .. MaxTasks /\ number \in [Letters -> 0 .. MaxTasks]
  /\ rows \subseteq [task : Tasks, pass : {"user", "kernel"}, letter : SUBSET Letters]
  /\ changes \in 0 .. MaxChanges + 1 /\ shows \in 0 .. MaxShows
  /\ born \subseteq Tasks /\ remapped \subseteq Tasks

HasRow(t) == \E r \in rows : r.task = t
RowsOf(l) == Cardinality({r \in rows : l \in r.letter})

\* A task is listed twice, as a user process and as a kernel thread, only if
\* its mm changed while the report was made.
ListedTwiceOnlyIfRemapped ==
  \A r, s \in rows : r # s /\ r.task = s.task => r.task \in remapped

\* A task that was there throughout the report and is not dead is missing
\* from it only if its mm changed while the report was made.
MissedOnlyIfRemapped ==
  pass = "done" =>
    \A t \in born \cap DOMAIN tasks :
      HasRow(t) \/ t \in remapped \/ tasks[t].state = TASK_DEAD

\* With every variable in its type, each task is in the report once, but for
\* those whose mm changed.
ListedOnceUnlessRemapped == ReportTypeOK /\ ListedTwiceOnlyIfRemapped /\ MissedOnlyIfRemapped

\* If no task changed during the report, its header agrees with its rows: the
\* running and sleeping tasks counted are those listed.
HeaderAgreesWithRows ==
  pass = "done" /\ changes = 0 =>
    /\ \A l \in Letters : number[l] = RowsOf(l)
    /\ total = Cardinality(born)

=============================================================================
