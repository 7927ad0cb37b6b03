------------------------- MODULE CopyProcess_proofs -------------------------
(***************************************************************************)
(* Theorems about CopyProcess, for any finite set of tasks and of objects: *)
(* the labels undo what the stages have done, no child escapes a signal to *)
(* its process group, the limits hold unless calls overlap, every          *)
(* reference count is exact at every moment, and the rules on what tasks   *)
(* may share hold.                                                         *)
(***************************************************************************)
EXTENDS CopyProcess, Integers, FiniteSetTheorems, TLAPS

Names == {"creds", "limit", "mempolicy", "sched", "perf", "audit", "semundo",
          "files", "fs", "sighand", "signal", "mm", "ns", "io", "thread",
          "pid", "cgroup", "publish"}

LEMMA StagesDomain == DOMAIN Stages = 1 .. 18
BY DEF Stages

LEMMA StageList ==
  /\ Stages[1] = "creds" /\ Stages[2] = "limit" /\ Stages[3] = "mempolicy"
  /\ Stages[4] = "sched" /\ Stages[5] = "perf" /\ Stages[6] = "audit"
  /\ Stages[7] = "semundo" /\ Stages[8] = "files" /\ Stages[9] = "fs"
  /\ Stages[10] = "sighand" /\ Stages[11] = "signal" /\ Stages[12] = "mm"
  /\ Stages[13] = "ns" /\ Stages[14] = "io" /\ Stages[15] = "thread"
  /\ Stages[16] = "pid" /\ Stages[17] = "cgroup" /\ Stages[18] = "publish"
BY DEF Stages

LEMMA StageNamesAre == StageNames = Names
BY StagesDomain, StageList DEF StageNames, Names

LEMMA StagesInjective == \A i, j \in 1 .. 18 : Stages[i] = Stages[j] => i = j
BY StageList

LEMMA StageAtInverse == \A i \in 1 .. 18 : StageAt[Stages[i]] = i
BY StagesInjective, StagesDomain DEF StageAt, StageNames

LEMMA StageNumbers ==
  /\ StageAt["creds"] = 1 /\ StageAt["limit"] = 2 /\ StageAt["mempolicy"] = 3
  /\ StageAt["sched"] = 4 /\ StageAt["perf"] = 5 /\ StageAt["audit"] = 6
  /\ StageAt["semundo"] = 7 /\ StageAt["files"] = 8 /\ StageAt["fs"] = 9
  /\ StageAt["sighand"] = 10 /\ StageAt["signal"] = 11 /\ StageAt["mm"] = 12
  /\ StageAt["ns"] = 13 /\ StageAt["io"] = 14 /\ StageAt["thread"] = 15
  /\ StageAt["pid"] = 16 /\ StageAt["cgroup"] = 17 /\ StageAt["publish"] = 18
BY StageList, StageAtInverse

LEMMA LabelsDomain == DOMAIN Labels = 1 .. 17
BY DEF Labels

LEMMA LabelList ==
  /\ Labels[1] = "cancel_cgroup" /\ Labels[2] = "free_pid" /\ Labels[3] = "cleanup_thread"
  /\ Labels[4] = "cleanup_io" /\ Labels[5] = "cleanup_namespaces" /\ Labels[6] = "cleanup_mm"
  /\ Labels[7] = "cleanup_signal" /\ Labels[8] = "cleanup_sighand" /\ Labels[9] = "cleanup_fs"
  /\ Labels[10] = "cleanup_files" /\ Labels[11] = "cleanup_semundo"
  /\ Labels[12] = "cleanup_audit" /\ Labels[13] = "cleanup_perf"
  /\ Labels[14] = "cleanup_policy" /\ Labels[15] = "cleanup_threadgroup_lock"
  /\ Labels[16] = "cleanup_count" /\ Labels[17] = "bad_fork_free"
BY DEF Labels

LEMMA LabelsInjective == \A i, j \in 1 .. 17 : Labels[i] = Labels[j] => i = j
BY LabelList

Resources == Kinds \cup Own

\* The stage that takes a resource of the child, 0 for dup_task_struct.
TakenAt == [task |-> 0, seccomp |-> 0, user |-> 1, delayacct |-> 2, mempolicy |-> 3, perf |-> 5,
            audit |-> 6, semundo |-> 7, files |-> 8, fs |-> 9, sighand |-> 10,
            signal |-> 11, mm |-> 12, ns |-> 13, io |-> 14, thread |-> 15,
            pid |-> 16, threadgroup |-> 16, cgroup |-> 17]

\* The label that gives it back.
GivenAt == [cgroup |-> 1, pid |-> 2, threadgroup |-> 2, thread |-> 3, io |-> 4,
            ns |-> 5, mm |-> 6, signal |-> 7, sighand |-> 8, fs |-> 9,
            files |-> 10, semundo |-> 11, audit |-> 12, perf |-> 13,
            mempolicy |-> 14, delayacct |-> 15, user |-> 16, task |-> 17,
            seccomp |-> 17]

LEMMA ReleasesRow ==
  \A i \in 1 .. 17 : Releases[Labels[i]] = {r \in Resources : GivenAt[r] = i}
BY LabelList DEF Releases, GivenAt, Resources, Kinds, Own

LEMMA GivenAtNat == \A r \in Resources : GivenAt[r] \in 1 .. 17 /\ TakenAt[r] \in 0 .. 17
BY DEF GivenAt, TakenAt, Resources, Kinds, Own

\* From a label on, what it and the labels after it release.
LEMMA GivenBackIs ==
  \A j \in 1 .. 17 : GivenBack[Labels[j]] = {r \in Resources : GivenAt[r] >= j}
<1> SUFFICES ASSUME NEW j \in 1 .. 17
             PROVE  GivenBack[Labels[j]] = {r \in Resources : GivenAt[r] >= j}
  OBVIOUS
<1>1. Labels[j] \in LabelNames
  BY LabelsDomain DEF LabelNames
<1>2. GivenBack[Labels[j]] = UNION {Releases[Labels[i]] : i \in
        {k \in 1 .. 17 : \E m \in 1 .. k : Labels[m] = Labels[j]}}
  BY <1>1, LabelsDomain DEF GivenBack
<1>3. \A k \in 1 .. 17 : (\E m \in 1 .. k : Labels[m] = Labels[j]) <=> k >= j
  BY LabelsInjective
<1>4. {k \in 1 .. 17 : \E m \in 1 .. k : Labels[m] = Labels[j]} = j .. 17
  BY <1>3
<1>5. GivenBack[Labels[j]] = UNION {Releases[Labels[i]] : i \in j .. 17}
  BY <1>2, <1>4
<1>6. ASSUME NEW r
      PROVE  r \in GivenBack[Labels[j]] <=> r \in Resources /\ GivenAt[r] >= j
  <2>1. r \in GivenBack[Labels[j]] <=> \E i \in j .. 17 : r \in Releases[Labels[i]]
    BY <1>5
  <2>2. \A i \in j .. 17 : r \in Releases[Labels[i]] <=> r \in Resources /\ GivenAt[r] = i
    BY ReleasesRow
  <2> QED  BY <2>1, <2>2, GivenAtNat
<1> QED  BY <1>6

\* Where each stage goes to when it fails.
LabelOf(i) == IF i = 1 THEN 17 ELSE IF i = 2 THEN 16 ELSE IF i = 3 THEN 15
              ELSE IF i \in {4, 5} THEN 14 ELSE 19 - i

LEMMA OnFailureRow ==
  \A i \in 1 .. 18 : OnFailure[Stages[i]] = Labels[LabelOf(i)] /\ LabelOf(i) \in 1 .. 17
BY StageList, LabelList DEF OnFailure, Jumps, LabelOf

LEMMA GainsDomain ==
  DOMAIN Gains = {"limit", "mempolicy", "sched", "perf", "audit", "semundo", "io",
                  "thread", "pid", "cgroup"}
BY DEF Gains

LEMMA GainsRow ==
  \A i \in (2 .. 7) \cup (14 .. 17) :
    Stages[i] \in DOMAIN Gains /\ Gains[Stages[i]] = {r \in Resources : TakenAt[r] = i}
BY GainsDomain, StageList DEF Gains, TakenAt, Resources, Kinds, Own

LEMMA GainsOnly ==
  \A i \in 1 .. 18 : Stages[i] \in DOMAIN Gains => i \in (2 .. 7) \cup (14 .. 17)
BY GainsDomain, StageList

\* The stages a run of them may end at.
LEMMA AheadIs ==
  \A i, j \in 1 .. 18 : Stages[j] \in Ahead[Stages[i]] <=>
    i <= j /\ \A k \in i .. j - 1 : k \in (2 .. 7) \cup (14 .. 17)
<1> SUFFICES ASSUME NEW i \in 1 .. 18, NEW j \in 1 .. 18
             PROVE  Stages[j] \in Ahead[Stages[i]] <=>
                      i <= j /\ \A k \in i .. j - 1 : k \in (2 .. 7) \cup (14 .. 17)
  OBVIOUS
<1>1. Stages[i] \in StageNames /\ Stages[j] \in StageNames
  BY StagesDomain DEF StageNames
<1>2. StageAt[Stages[i]] = i /\ StageAt[Stages[j]] = j
  BY StageAtInverse
<1>3. Between[Stages[i]][Stages[j]] = {Stages[k] : k \in i .. j - 1}
  BY <1>1, <1>2 DEF Between
<1>4. Stages[j] \in Ahead[Stages[i]] <=>
        i <= j /\ {Stages[k] : k \in i .. j - 1} \subseteq DOMAIN Gains
  BY <1>1, <1>2, <1>3 DEF Ahead
<1> QED  BY <1>4, GainsRow, GainsOnly

-----------------------------------------------------------------------------

Points == {"user", "creds", "limit", "files", "fs", "sighand", "signal", "mm", "ns",
           "io", "publish"} \cup UnshareSteps
States == {"free", "new", "running", "zombie", "dead"}
Ptr == [Kinds -> Objects \cup {NoObject}]
TaskType == [state : States, ptr : Ptr, held : SUBSET Resources,
             pending : BOOLEAN, leader : BOOLEAN]
CallType == [at : Points, child : Tasks, flags : SUBSET CloneFlags, new : Ptr]

Typed ==
  /\ task \in [Tasks -> TaskType]
  /\ refs \in [Kinds -> [Objects -> Int]]
  /\ group \in [Objects -> [nr_threads : Int, live : Int]]
  /\ call \in [Tasks -> CallType]
  /\ nr_threads \in Int /\ processes \in Int /\ calls \in Nat
  /\ killed \in BOOLEAN /\ overlapped \in BOOLEAN

LEMMA CountedType ==
  ASSUME Typed, NEW up, NEW down, Counted(up, down)
  PROVE  refs' \in [Kinds -> [Objects -> Int]]
BY DEF Typed, Counted

LEMMA FreshType ==
  ASSUME NEW k \in Kinds, Free(k) # {}
  PROVE  Fresh(k) \in Objects /\ Fresh(k) \in Free(k)
BY DEF Fresh, Free

LEMMA NextStage ==
  /\ Stages[StageAt["creds"] + 1] = "limit"
  /\ Stages[StageAt["files"] + 1] = "fs"
  /\ Stages[StageAt["fs"] + 1] = "sighand"
  /\ Stages[StageAt["sighand"] + 1] = "signal"
  /\ Stages[StageAt["signal"] + 1] = "mm"
  /\ Stages[StageAt["mm"] + 1] = "ns"
  /\ Stages[StageAt["ns"] + 1] = "io"
BY StageNumbers, StageList

Copied == {"creds", "files", "fs", "sighand", "signal", "mm", "ns"}


(* What the actions do to the tasks and to the calls.                      *)

\* Task p becomes x; the call of task t becomes y.
TaskBecomes(p, x) == p \in Tasks /\ x \in TaskType /\ task' = [task EXCEPT ![p] = x]
CallBecomes(t, y) == y \in CallType /\ call' = [call EXCEPT ![t] = y]

\* The fields of x that differ from those of task p.
Same(x, p, fields) ==
  /\ "state" \in fields => x.state = task[p].state
  /\ "ptr" \in fields => x.ptr = task[p].ptr
  /\ "held" \in fields => x.held = task[p].held
  /\ "pending" \in fields => x.pending = task[p].pending
  /\ "leader" \in fields => x.leader = task[p].leader

\* The call goes on at another point, all else being equal.
Onward(y, t, at) ==
  /\ y.at = at /\ y.child = call[t].child /\ y.flags = call[t].flags
  /\ y.new = call[t].new

LEMMA Members ==
  ASSUME Typed, NEW t \in Tasks
  PROVE  /\ task[t] \in TaskType /\ call[t] \in CallType
         /\ task[t].state \in States /\ task[t].ptr \in Ptr
         /\ task[t].held \in SUBSET Resources
         /\ task[t].pending \in BOOLEAN /\ task[t].leader \in BOOLEAN
         /\ call[t].at \in Points /\ call[t].child \in Tasks /\ Child(t) \in Tasks
         /\ call[t].flags \in SUBSET CloneFlags /\ call[t].new \in Ptr
BY DEF Typed, TaskType, CallType, Child

LEMMA GotoEffect ==
  ASSUME Typed, NEW t \in Tasks, NEW s \in Points, call' = [call EXCEPT ![t].at = s]
  PROVE  \E y : CallBecomes(t, y) /\ Onward(y, t, s)
<1> DEFINE y == [call[t] EXCEPT !.at = s]
<1>1. y \in CallType /\ Onward(y, t, s)
  BY Members DEF CallType, Onward
<1> QED  BY <1>1 DEF CallBecomes

LEMMA DoneEffect ==
  ASSUME Typed, NEW t \in Tasks, call[t].at \in Copied, Done(t)
  PROVE  \E y : /\ CallBecomes(t, y) /\ y.at \in Names \cap Points
                /\ StageAt[y.at] = StageAt[call[t].at] + 1 /\ Onward(y, t, y.at)
<1> DEFINE s == Stages[StageAt[call[t].at] + 1]
<1>1. s \in Names \cap Points /\ StageAt[s] = StageAt[call[t].at] + 1
  BY NextStage, StageNumbers DEF Copied, Points, Names
<1>2. call' = [call EXCEPT ![t].at = s]
  BY DEF Done
<1> HIDE DEF s
<1>3. PICK y : CallBecomes(t, y) /\ Onward(y, t, s)
  BY <1>1, <1>2, GotoEffect
<1> QED  BY <1>1, <1>3 DEF Onward

CopyDone(t, k, x, y, o) ==
  /\ TaskBecomes(Child(t), x) /\ Same(x, Child(t), {"state", "pending", "leader"})
  /\ x.ptr = [task[Child(t)].ptr EXCEPT ![k] = o]
  /\ x.held = task[Child(t)].held \cup {k}
  /\ CallBecomes(t, y) /\ y.at \in Names \cap Points
  /\ StageAt[y.at] = StageAt[call[t].at] + 1 /\ Onward(y, t, y.at)
  /\ o \in Objects \cup {NoObject}
  /\ IF Shares(k, call[t].flags) THEN o = task[t].ptr[k]
     ELSE o = Fresh(k) /\ o \in Free(k) /\ o \in Objects
  /\ Counted({<<k, o>>}, {})

LEMMA CopyEffect ==
  ASSUME Typed, NEW t \in Tasks, NEW k \in Kinds, call[t].at \in Copied, Copy(t, k)
  PROVE  \E x, y, o : CopyDone(t, k, x, y, o)
<1> DEFINE p == Child(t)
           o == IF Shares(k, call[t].flags) THEN task[t].ptr[k] ELSE Fresh(k)
           x == [task[p] EXCEPT !.ptr = [task[p].ptr EXCEPT ![k] = o],
                                !.held = task[p].held \cup {k}]
<1>1. /\ o \in Objects \cup {NoObject} /\ Counted({<<k, o>>}, {})
      /\ IF Shares(k, call[t].flags) THEN o = task[t].ptr[k]
         ELSE o = Fresh(k) /\ o \in Free(k) /\ o \in Objects
  <2>1. task[t].ptr[k] \in Objects \cup {NoObject}
    BY Members DEF Ptr
  <2> QED  BY <2>1, FreshType DEF Copy
<1>2. /\ x \in TaskType /\ Same(x, p, {"state", "pending", "leader"})
      /\ x.ptr = [task[p].ptr EXCEPT ![k] = o] /\ x.held = task[p].held \cup {k}
  <2> HIDE DEF o, p
  <2>1. p \in Tasks
    BY Members DEF p
  <2>2. [task[p].ptr EXCEPT ![k] = o] \in Ptr
    BY <1>1, <2>1, Members DEF Ptr
  <2>3. task[p].held \cup {k} \in SUBSET Resources
    BY <2>1, Members DEF Resources
  <2>4. task[p] \in TaskType
    BY <2>1, Members
  <2>5. x \in TaskType
    BY <2>2, <2>3, <2>4 DEF TaskType
  <2>6. /\ x.state = task[p].state /\ x.pending = task[p].pending
        /\ x.leader = task[p].leader
        /\ x.ptr = [task[p].ptr EXCEPT ![k] = o] /\ x.held = task[p].held \cup {k}
    BY <2>4 DEF TaskType
  <2> QED  BY <2>5, <2>6 DEF Same
<1>3. TaskBecomes(p, x)
  <2>1. task' = [task EXCEPT ![p] = x]
    BY DEF Copy
  <2> QED  BY <1>2, <2>1, Members DEF TaskBecomes
<1>4. PICK y : /\ CallBecomes(t, y) /\ y.at \in Names \cap Points
               /\ StageAt[y.at] = StageAt[call[t].at] + 1 /\ Onward(y, t, y.at)
  BY DoneEffect DEF Copy
<1>5. CopyDone(t, k, x, y, o)
  <2> HIDE DEF x, o
  <2> QED  BY <1>1, <1>2, <1>3, <1>4 DEF CopyDone
<1> QED  BY <1>5

LEMMA NoPointersType == NoPointers \in Ptr /\ \A k \in Kinds : NoPointers[k] = NoObject
BY DEF NoPointers, Ptr

LEMMA FreeTaskType ==
  /\ FreeTask \in TaskType /\ FreeTask.state = "free" /\ FreeTask.held = {}
  /\ FreeTask.ptr = NoPointers /\ FreeTask.pending = FALSE /\ FreeTask.leader = FALSE
BY NoPointersType DEF FreeTask, TaskType, States

LEMMA InUserModeType ==
  /\ InUserMode \in CallType /\ InUserMode.at = "user" /\ InUserMode.flags = {}
  /\ InUserMode.new = NoPointers
BY NoPointersType, TasksAssumption DEF InUserMode, CallType, Points

CloneDone(t, f, p, x, y) ==
  /\ TaskBecomes(p, x)
  /\ x.state = "new" /\ x.ptr = [task[t].ptr EXCEPT !["seccomp"] = NoObject]
  /\ x.held = {"task"} /\ x.pending = FALSE /\ x.leader = FALSE
  /\ CallBecomes(t, y)
  /\ y.at = "creds" /\ y.child = p /\ y.flags = f /\ y.new = call[t].new

LEMMA FlagsAreFlags ==
  CloneFlagSets \cup UnshareFlagSets \cup SecondFlagSets \subseteq SUBSET CloneFlags
BY FlagsAssumption

LEMMA CloneEffect ==
  ASSUME Typed, NEW t \in Tasks, NEW f \in CloneFlagSets, NEW p \in Tasks, Clone(t, f, p)
  PROVE  \E x, y : CloneDone(t, f, p, x, y)
<1> DEFINE ptr == [task[t].ptr EXCEPT !["seccomp"] = NoObject]
           x == DupTaskStruct(t)
           y == [call[t] EXCEPT !.at = "creds", !.child = p, !.flags = f]
<1>1. ptr \in Ptr
  BY Members DEF Ptr
<1>2. x = [task[t] EXCEPT !.state = "new", !.ptr = ptr, !.held = {"task"},
                          !.pending = FALSE, !.leader = FALSE]
  BY DEF DupTaskStruct
<1>3. /\ x \in TaskType /\ x.state = "new" /\ x.ptr = ptr
      /\ x.held = {"task"} /\ x.pending = FALSE /\ x.leader = FALSE
  <2> HIDE DEF x, ptr
  <2>1. {"task"} \in SUBSET Resources /\ "new" \in States
    BY DEF Resources, Own, States
  <2>2. task[t] \in TaskType
    BY Members
  <2> QED  BY <1>1, <1>2, <2>1, <2>2 DEF TaskType
<1>4. task' = [task EXCEPT ![p] = x]
  BY DEF Clone
<1>5. y \in CallType /\ y.at = "creds" /\ y.child = p /\ y.flags = f /\ y.new = call[t].new
  <2>1. call[t] \in CallType /\ f \in SUBSET CloneFlags /\ "creds" \in Points
    BY Members, FlagsAreFlags DEF Points
  <2> QED  BY <2>1 DEF CallType
<1>6. call' = [call EXCEPT ![t] = y]
  BY StageList DEF Clone
<1>7. CloneDone(t, f, p, x, y)
  <2> HIDE DEF x, y
  <2> QED  BY <1>3, <1>4, <1>5, <1>6 DEF CloneDone, TaskBecomes, CallBecomes
<1> QED  BY <1>7

\* The child has the resources of the stages it has gone through.
PrepareDone(t, x, y) ==
  /\ TaskBecomes(Child(t), x) /\ Same(x, Child(t), {"state", "ptr", "pending", "leader"})
  /\ x.held = task[Child(t)].held \cup Before(t, y.at)
  /\ y.at \in Ahead[call[t].at]
  /\ CallBecomes(t, y) /\ Onward(y, t, y.at)
  /\ \/ call[t].at = "limit" /\ y.at = "files"
     \/ call[t].at = "io" /\ y.at = "publish"

LEMMA AheadOf ==
  ASSUME NEW a \in {"limit", "io"}, NEW s \in Ahead[a] \ DOMAIN Gains
  PROVE  (a = "limit" /\ s = "files") \/ (a = "io" /\ s = "publish")
<1>1. s \in StageNames /\ a \in StageNames
  BY StageNamesAre DEF Ahead, Names
<1>2. PICK j \in 1 .. 18 : s = Stages[j]
  BY <1>1, StagesDomain DEF StageNames
<1>3. j \notin (2 .. 7) \cup (14 .. 17)
  BY <1>2, GainsRow
<1>4. CASE a = "limit"
  <2>1. 2 <= j /\ \A k \in 2 .. j - 1 : k \in (2 .. 7) \cup (14 .. 17)
    BY <1>2, <1>4, AheadIs, StageList
  <2>2. j = 8
    <3>1. ~(j > 8)
      BY <2>1
    <3> QED  BY <1>3, <2>1, <3>1
  <2> QED  BY <1>2, <1>4, <2>2, StageList
<1>5. CASE a = "io"
  <2>1. 14 <= j /\ \A k \in 14 .. j - 1 : k \in (2 .. 7) \cup (14 .. 17)
    BY <1>2, <1>5, AheadIs, StageList
  <2>2. j = 18
    BY <1>3, <2>1
  <2> QED  BY <1>2, <1>5, <2>2, StageList
<1> QED  BY <1>4, <1>5

LEMMA BeforeType ==
  ASSUME Typed, NEW t \in Tasks, call[t].at \in StageNames, NEW s \in Ahead[call[t].at]
  PROVE  Before(t, s) = {r \in Resources : StageAt[call[t].at] <= TakenAt[r]
                                             /\ TakenAt[r] < StageAt[s]
                                             /\ TakenAt[r] \in (2 .. 7) \cup (14 .. 17)}
<1>1. s \in StageNames
  BY DEF Ahead
<1>2. PICK i \in 1 .. 18 : call[t].at = Stages[i]
  BY StagesDomain DEF StageNames
<1>3. PICK j \in 1 .. 18 : s = Stages[j]
  BY <1>1, StagesDomain DEF StageNames
<1>4. StageAt[call[t].at] = i /\ StageAt[s] = j
  BY <1>2, <1>3, StageAtInverse
<1>5. i <= j /\ \A k \in i .. j - 1 : k \in (2 .. 7) \cup (14 .. 17)
  BY <1>2, <1>3, AheadIs
<1>6. Between[call[t].at][s] = {Stages[k] : k \in i .. j - 1}
  BY <1>1, <1>2, <1>4, StagesDomain DEF Between, StageNames
<1>7. Before(t, s) = UNION {Gains[Stages[k]] : k \in i .. j - 1}
  BY <1>6 DEF Before
<1>8. ASSUME NEW r
      PROVE  r \in Before(t, s) <=> r \in Resources /\ TakenAt[r] \in i .. j - 1
  <2>1. r \in Before(t, s) <=> \E k \in i .. j - 1 : r \in Gains[Stages[k]]
    BY <1>7
  <2>2. \A k \in i .. j - 1 : r \in Gains[Stages[k]] <=> r \in Resources /\ TakenAt[r] = k
    BY <1>5, GainsRow
  <2> QED  BY <2>1, <2>2, GivenAtNat
<1> QED  BY <1>4, <1>5, <1>8, GivenAtNat

LEMMA PrepareEffect ==
  ASSUME Typed, NEW t \in Tasks, Prepare(t)
  PROVE  \E x, y : PrepareDone(t, x, y)
<1>1. call[t].at \in {"limit", "io"}
  BY Members, GainsDomain DEF Prepare, Points, UnshareSteps
<1>2. PICK s \in Ahead[call[t].at] \ DOMAIN Gains :
        /\ Holds(Child(t), Before(t, s))
        /\ call' = [call EXCEPT ![t].at = s]
  BY DEF Prepare
<1>3. (call[t].at = "limit" /\ s = "files") \/ (call[t].at = "io" /\ s = "publish")
  BY <1>1, AheadOf
<1>4. s \in Points
  BY <1>3 DEF Points
<1>5. PICK y : CallBecomes(t, y) /\ Onward(y, t, s)
  BY <1>2, <1>4, GotoEffect
<1> DEFINE p == Child(t)
           x == [task[p] EXCEPT !.held = task[p].held \cup Before(t, s)]
<1>6. /\ x \in TaskType /\ Same(x, p, {"state", "ptr", "pending", "leader"})
      /\ x.held = task[p].held \cup Before(t, s)
  <2>1. Before(t, s) \in SUBSET Resources
    BY <1>1, BeforeType, StageNamesAre DEF Names
  <2>2. task[p] \in TaskType
    BY Members
  <2> HIDE DEF p
  <2> QED  BY <2>1, <2>2 DEF TaskType, Same
<1>7. task' = [task EXCEPT ![p] = x]
  BY <1>2 DEF Holds
<1>8. PrepareDone(t, x, y)
  <2> HIDE DEF x
  <2>1. TaskBecomes(p, x)
    BY <1>6, <1>7, Members DEF TaskBecomes
  <2> QED  BY <1>2, <1>3, <1>5, <1>6, <2>1 DEF PrepareDone, Onward
<1> QED  BY <1>8

LEMMA UnwindEffect ==
  ASSUME Typed, NEW t \in Tasks, NEW label, Unwind(t, label)
  PROVE  TaskBecomes(Child(t), FreeTask) /\ CallBecomes(t, InUserMode)
BY Members, FreeTaskType, InUserModeType DEF Unwind, TaskBecomes, CallBecomes

Thread(t) == "THREAD" \in call[t].flags

PublishDone(t, x) ==
  /\ TaskBecomes(Child(t), x) /\ Same(x, Child(t), {"pending"})
  /\ x.state = "running" /\ x.leader = ~Thread(t)
  /\ x.ptr = [task[Child(t)].ptr EXCEPT !["seccomp"] = task[t].ptr["seccomp"]]
  /\ x.held = (task[Child(t)].held \cup {"seccomp", "signal"}) \ {"threadgroup", "cgroup"}
  /\ CallBecomes(t, InUserMode)

LEMMA PublishEffect ==
  ASSUME Typed, NEW t \in Tasks, Publish(t)
  PROVE  \E x : PublishDone(t, x)
<1> DEFINE p == Child(t)
           ptr == [task[p].ptr EXCEPT !["seccomp"] = task[t].ptr["seccomp"]]
           held == (task[p].held \cup {"seccomp", "signal"}) \ {"threadgroup", "cgroup"}
           c == CopySeccomp(task[p], t)
           x == [c EXCEPT !.state = "running", !.leader = ~Thread(t),
                          !.held = (@ \cup {"signal"}) \ {"threadgroup", "cgroup"}]
<1>1. task[p] \in TaskType /\ task[p].ptr \in Ptr /\ task[p].held \in SUBSET Resources
      /\ task[t].ptr \in Ptr
  BY Members
<1>2. ptr \in Ptr
  <2>1. "seccomp" \in Kinds
    BY DEF Kinds
  <2> QED  BY <1>1, <2>1 DEF Ptr
<1>3. held \in SUBSET Resources /\ "running" \in States
  BY <1>1 DEF Resources, Own, Kinds, States
<1>4. c = [task[p] EXCEPT !.ptr = ptr, !.held = task[p].held \cup {"seccomp"}]
  BY DEF CopySeccomp
<1>5. /\ c.held = task[p].held \cup {"seccomp"} /\ c.ptr = ptr
      /\ c.pending = task[p].pending
      /\ c \in [state : States, ptr : Ptr, held : {c.held}, pending : BOOLEAN, leader : BOOLEAN]
  <2> HIDE DEF ptr, c
  <2> QED  BY <1>1, <1>2, <1>4 DEF TaskType
<1>6. (c.held \cup {"signal"}) \ {"threadgroup", "cgroup"} = held
  BY <1>5
<1>7. /\ x \in TaskType /\ x.state = "running" /\ x.leader = ~Thread(t) /\ x.ptr = ptr
      /\ x.held = held /\ x.pending = task[p].pending
  <2>1. (~Thread(t)) \in BOOLEAN
    BY DEF Thread
  <2>2. x = [c EXCEPT !.state = "running", !.leader = ~Thread(t), !.held = held]
    <3> HIDE DEF c, held
    <3> QED  BY <1>5, <1>6
  <2> HIDE DEF ptr, c, held, x
  <2> QED  BY <1>2, <1>3, <1>5, <2>1, <2>2 DEF TaskType
<1>8. task' = [task EXCEPT ![p] = x] /\ call' = [call EXCEPT ![t] = InUserMode]
  <2>1. task' = [task EXCEPT ![p] =
          [c EXCEPT !.state = "running", !.leader = ~Thread(t),
             !.held = (@ \cup {"signal"}) \ {"threadgroup", "cgroup"}]]
    BY DEF Publish, Thread
  <2>2. call' = [call EXCEPT ![t] = InUserMode]
    BY DEF Publish
  <2>3. task' = [task EXCEPT ![p] = x]
    BY <2>1
  <2> QED  BY <2>2, <2>3
<1>9. PublishDone(t, x)
  <2> HIDE DEF x
  <2> QED  BY <1>7, <1>8, InUserModeType, Members DEF PublishDone, TaskBecomes, CallBecomes, Same
<1> QED  BY <1>9

Dropped == {"mm", "files", "fs", "ns"}

ExitDone(t, x) ==
  /\ TaskBecomes(t, x) /\ Same(x, t, {"pending", "leader"}) /\ x.state = "zombie"
  /\ x.ptr = [k \in Kinds |-> IF k \in Dropped THEN NoObject ELSE task[t].ptr[k]]
  /\ x.held = task[t].held \ (Dropped \cup {"semundo", "io", "thread"})
  /\ UNCHANGED call

LEMMA ExitEffect ==
  ASSUME Typed, NEW t \in Tasks, Exit(t)
  PROVE  \E x : ExitDone(t, x)
<1> DEFINE ptr == [k \in Kinds |-> IF k \in Dropped THEN NoObject ELSE task[t].ptr[k]]
           held == task[t].held \ (Dropped \cup {"semundo", "io", "thread"})
           x == [task[t] EXCEPT !.state = "zombie", !.ptr = ptr, !.held = held]
<1>1. task[t] \in TaskType /\ task[t].ptr \in Ptr /\ task[t].held \in SUBSET Resources
  BY Members
<1>2. ptr \in Ptr /\ held \in SUBSET Resources /\ "zombie" \in States
  BY <1>1 DEF Ptr, States
<1>3. task' = [task EXCEPT ![t] = x] /\ UNCHANGED call
  <2>1. task' = [task EXCEPT ![t] = [task[t] EXCEPT !.state = "zombie", !.ptr = ptr,
                   !.held = @ \ (Dropped \cup {"semundo", "io", "thread"})]]
    BY DEF Exit, Dropped
  <2>2. UNCHANGED call
    BY DEF Exit
  <2> HIDE DEF ptr
  <2>3. task' = [task EXCEPT ![t] = x]
    BY <1>1, <2>1 DEF TaskType
  <2> QED  BY <2>2, <2>3
<1>4. /\ x \in TaskType /\ x.state = "zombie" /\ x.ptr = ptr /\ x.held = held
      /\ x.pending = task[t].pending /\ x.leader = task[t].leader
  <2> HIDE DEF ptr, held
  <2> QED  BY <1>1, <1>2 DEF TaskType
<1>5. ExitDone(t, x)
  <2> HIDE DEF x
  <2> QED  BY <1>3, <1>4 DEF ExitDone, TaskBecomes, Same
<1> QED  BY <1>5

ReleaseDone(t, x) ==
  /\ TaskBecomes(t, x) /\ Same(x, t, {"pending", "leader"}) /\ x.state = "dead"
  /\ x.ptr = [task[t].ptr EXCEPT !["sighand"] = NoObject]
  /\ x.held = task[t].held \ {"sighand", "pid"}
  /\ UNCHANGED call

LEMMA ReleaseEffect ==
  ASSUME Typed, NEW t \in Tasks, Release(t)
  PROVE  \E x : ReleaseDone(t, x)
<1> DEFINE ptr == [task[t].ptr EXCEPT !["sighand"] = NoObject]
           held == task[t].held \ {"sighand", "pid"}
           x == [task[t] EXCEPT !.state = "dead", !.ptr = ptr, !.held = held]
<1>1. task[t] \in TaskType /\ task[t].ptr \in Ptr /\ task[t].held \in SUBSET Resources
  BY Members
<1>2. ptr \in Ptr /\ held \in SUBSET Resources /\ "dead" \in States
  BY <1>1 DEF Ptr, States
<1>3. task' = [task EXCEPT ![t] = x] /\ UNCHANGED call
  <2>1. task' = [task EXCEPT ![t].state = "dead", ![t].ptr["sighand"] = NoObject,
                             ![t].held = @ \ {"sighand", "pid"}]
    BY DEF Release
  <2>2. UNCHANGED call
    BY DEF Release
  <2>3. task' = [task EXCEPT ![t] = x]
    BY <2>1
  <2> QED  BY <2>2, <2>3
<1>4. /\ x \in TaskType /\ x.state = "dead" /\ x.ptr = ptr /\ x.held = held
      /\ x.pending = task[t].pending /\ x.leader = task[t].leader
  <2> HIDE DEF ptr, held
  <2> QED  BY <1>1, <1>2 DEF TaskType
<1>5. ReleaseDone(t, x)
  <2> HIDE DEF x
  <2> QED  BY <1>3, <1>4 DEF ReleaseDone, TaskBecomes, Same
<1> QED  BY <1>5

LEMMA PutEffect ==
  ASSUME Typed, NEW t \in Tasks, PutTaskStruct(t)
  PROVE  TaskBecomes(t, FreeTask) /\ UNCHANGED call
BY FreeTaskType DEF PutTaskStruct, TaskBecomes

KillDone ==
  /\ task' \in [Tasks -> TaskType]
  /\ \A t \in Tasks : Same(task'[t], t, {"state", "ptr", "held", "leader"})
                      /\ task'[t].pending = (task[t].pending \/ Running(t))
  /\ UNCHANGED call

LEMMA KillEffect ==
  ASSUME Typed, KillGroup
  PROVE  KillDone
<1>1. ASSUME NEW t \in Tasks
      PROVE  /\ task'[t] \in TaskType
             /\ Same(task'[t], t, {"state", "ptr", "held", "leader"})
             /\ task'[t].pending = (task[t].pending \/ Running(t))
  <2> DEFINE b == task[t].pending \/ Running(t)
             x == [task[t] EXCEPT !.pending = b]
  <2>1. task[t] \in TaskType /\ b \in BOOLEAN
    BY Members DEF Running
  <2>2. task'[t] = x
    BY DEF KillGroup
  <2>3. x \in TaskType /\ x.state = task[t].state /\ x.ptr = task[t].ptr
        /\ x.held = task[t].held /\ x.leader = task[t].leader /\ x.pending = b
    <3> HIDE DEF b
    <3> QED  BY <2>1 DEF TaskType
  <2> QED  BY <2>2, <2>3 DEF Same
<1>2. task' = [t \in Tasks |-> task'[t]]
  BY DEF KillGroup
<1> QED  BY <1>1, <1>2 DEF KillDone, KillGroup


\* unshare begins, or goes on.
StepsOnward(t, y, at, new) ==
  /\ CallBecomes(t, y) /\ y.at = at /\ y.child = call[t].child /\ y.new = new

LEMMA ClosureType ==
  ASSUME NEW f \in UnshareFlagSets
  PROVE  Closure(f) \in SUBSET CloneFlags
<1>1. f \in SUBSET CloneFlags
  BY FlagsAreFlags
<1>2. Closure(f) \subseteq f \cup {"SIGHAND", "THREAD", "FS"}
  BY DEF Closure
<1> QED  BY <1>1, <1>2 DEF CloneFlags

LEMMA BeginEffect ==
  ASSUME Typed, NEW t \in Tasks, NEW f \in SUBSET CloneFlags,
         call' = [call EXCEPT ![t].at = "prepare", ![t].flags = f]
  PROVE  \E y : StepsOnward(t, y, "prepare", call[t].new) /\ y.flags = f
<1> DEFINE y == [call[t] EXCEPT !.at = "prepare", !.flags = f]
<1>1. call[t] \in CallType /\ "prepare" \in Points
  BY Members DEF Points, UnshareSteps
<1>2. y \in CallType /\ y.at = "prepare" /\ y.flags = f /\ y.child = call[t].child
      /\ y.new = call[t].new
  BY <1>1 DEF CallType
<1>3. call' = [call EXCEPT ![t] = y]
  OBVIOUS
<1> QED  BY <1>2, <1>3 DEF StepsOnward, CallBecomes

LEMMA UnshareEffect ==
  ASSUME Typed, NEW t \in Tasks, NEW f \in UnshareFlagSets, Unshare(t, f)
  PROVE  /\ \E y : StepsOnward(t, y, "prepare", call[t].new) /\ y.flags = Closure(f)
         /\ UNCHANGED task
<1>1. call' = [call EXCEPT ![t].at = "prepare", ![t].flags = Closure(f)] /\ UNCHANGED task
  BY DEF Unshare
<1> QED  BY <1>1, ClosureType, BeginEffect

LEMMA UnshareFilesEffect ==
  ASSUME Typed, NEW t \in Tasks, UnshareFiles(t)
  PROVE  /\ \E y : StepsOnward(t, y, "prepare", call[t].new) /\ y.flags = {"FILES"}
         /\ UNCHANGED task
<1>1. /\ call' = [call EXCEPT ![t].at = "prepare", ![t].flags = {"FILES"}]
      /\ UNCHANGED task
  BY DEF UnshareFiles
<1>2. {"FILES"} \in SUBSET CloneFlags
  BY DEF CloneFlags
<1> QED  BY <1>1, <1>2, BeginEffect

Prepared(t) == [k \in Kinds |-> IF k \in Wanted(t) THEN Fresh(k) ELSE NoObject]

LEMMA WantedKinds == \A t \in Tasks : Wanted(t) \subseteq {"fs", "files", "user", "ns"}
BY DEF Wanted

LEMMA PreparedType ==
  ASSUME NEW t \in Tasks, \A k \in Wanted(t) : Free(k) # {}
  PROVE  Prepared(t) \in Ptr
<1>1. Wanted(t) \subseteq Kinds
  BY WantedKinds DEF Kinds
<1> QED  BY <1>1, FreshType DEF Prepared, Ptr

LEMMA PrepareNewEffect ==
  ASSUME Typed, NEW t \in Tasks, PrepareNew(t)
  PROVE  /\ UNCHANGED task
         /\ IF Wanted(t) = {} THEN CallBecomes(t, InUserMode)
            ELSE \E y : StepsOnward(t, y, "switch", Prepared(t)) /\ y.flags = call[t].flags
<1>1. UNCHANGED task /\ \A k \in Wanted(t) : Free(k) # {}
  BY DEF PrepareNew
<1>2. CASE Wanted(t) = {}
  <2>1. call' = [call EXCEPT ![t] = InUserMode]
    BY <1>2 DEF PrepareNew
  <2> QED  BY <1>1, <1>2, <2>1, InUserModeType DEF CallBecomes
<1>3. CASE Wanted(t) # {}
  <2> DEFINE y == [call[t] EXCEPT !.at = "switch", !.new = Prepared(t)]
  <2>1. call' = [call EXCEPT ![t] = y]
    BY <1>3 DEF PrepareNew, Prepared
  <2>2. call[t] \in CallType /\ "switch" \in Points /\ Prepared(t) \in Ptr
    BY <1>1, Members, PreparedType DEF Points, UnshareSteps
  <2>3. y \in CallType /\ y.at = "switch" /\ y.flags = call[t].flags
        /\ y.child = call[t].child /\ y.new = Prepared(t)
    BY <2>2 DEF CallType
  <2> HIDE DEF y
  <2>4. StepsOnward(t, y, "switch", Prepared(t)) /\ y.flags = call[t].flags
    BY <2>1, <2>3 DEF StepsOnward, CallBecomes
  <2> QED  BY <1>1, <1>3, <2>4
<1> QED  BY <1>2, <1>3

LEMMA ReturnEffect ==
  ASSUME Typed, NEW t \in Tasks, PrepareFails(t) \/ PutOld(t)
  PROVE  UNCHANGED task /\ CallBecomes(t, InUserMode)
BY InUserModeType DEF PrepareFails, PutOld, CallBecomes

\* The task's pointers of the kinds ks lead to the new objects.
Taken(t, ks) ==
  [k \in Kinds |-> IF k \in ks /\ call[t].new[k] # NoObject THEN call[t].new[k]
                   ELSE task[t].ptr[k]]
TakesDone(t, ks, x) ==
  /\ TaskBecomes(t, x) /\ Same(x, t, {"state", "held", "pending", "leader"})
  /\ x.ptr = Taken(t, ks)

LEMMA TakesEffect ==
  ASSUME Typed, NEW t \in Tasks, NEW ks, Takes(t, ks)
  PROVE  \E x : TakesDone(t, ks, x)
<1> DEFINE new == {k \in ks : call[t].new[k] # NoObject}
           ptr == [k \in Kinds |-> IF k \in new THEN call[t].new[k] ELSE task[t].ptr[k]]
           x == [task[t] EXCEPT !.ptr = ptr]
<1>1. task' = [task EXCEPT ![t] = x]
  BY DEF Takes
<1>2. ptr = Taken(t, ks)
  BY DEF Taken
<1>3. task[t] \in TaskType /\ Taken(t, ks) \in Ptr
  BY Members DEF Ptr, Taken
<1> HIDE DEF ptr
<1>4. /\ x \in TaskType /\ x.ptr = ptr /\ x.state = task[t].state /\ x.held = task[t].held
      /\ x.pending = task[t].pending /\ x.leader = task[t].leader
  BY <1>2, <1>3 DEF TaskType
<1> HIDE DEF x
<1>5. TakesDone(t, ks, x)
  BY <1>1, <1>2, <1>4 DEF TakesDone, TaskBecomes, Same
<1> QED  BY <1>5

SwitchDone(t, x, y) ==
  /\ TakesDone(t, {"ns"}, x)
  /\ StepsOnward(t, y, "install", [call[t].new EXCEPT !["ns"] = NoObject])
  /\ y.flags = call[t].flags

CommitDone(t, x, y) ==
  /\ TakesDone(t, {"user"}, x)
  /\ StepsOnward(t, y, "put", [call[t].new EXCEPT !["user"] = NoObject])
  /\ y.flags = call[t].flags

LEMMA ClearEffect ==
  ASSUME Typed, NEW t \in Tasks, NEW s \in Points, NEW k \in Kinds,
         call' = [call EXCEPT ![t].at = s, ![t].new[k] = NoObject]
  PROVE  \E y : /\ StepsOnward(t, y, s, [call[t].new EXCEPT ![k] = NoObject])
                /\ y.flags = call[t].flags
<1> DEFINE new == [call[t].new EXCEPT ![k] = NoObject]
           y == [call[t] EXCEPT !.at = s, !.new = new]
<1>1. call[t] \in CallType /\ new \in Ptr
  BY Members DEF Ptr
<1>2. call' = [call EXCEPT ![t] = y]
  BY <1>1 DEF CallType
<1> HIDE DEF new
<1>3. y \in CallType /\ y.at = s /\ y.flags = call[t].flags
        /\ y.child = call[t].child /\ y.new = new
  BY <1>1 DEF CallType
<1> HIDE DEF y
<1>4. StepsOnward(t, y, s, new) /\ y.flags = call[t].flags
  BY <1>2, <1>3 DEF StepsOnward, CallBecomes
<1> QED  BY <1>4 DEF new

LEMMA SwitchEffect ==
  ASSUME Typed, NEW t \in Tasks, SwitchTaskNamespaces(t)
  PROVE  \E x, y : SwitchDone(t, x, y)
<1>1. /\ Takes(t, {"ns"})
      /\ call' = [call EXCEPT ![t].at = "install", ![t].new["ns"] = NoObject]
  BY DEF SwitchTaskNamespaces
<1>2. "ns" \in Kinds /\ "install" \in Points
  BY DEF Kinds, Points, UnshareSteps
<1> QED  BY <1>1, <1>2, TakesEffect, ClearEffect DEF SwitchDone

LEMMA CommitEffect ==
  ASSUME Typed, NEW t \in Tasks, CommitCreds(t)
  PROVE  \E x, y : CommitDone(t, x, y)
<1>1. /\ Takes(t, {"user"})
      /\ call' = [call EXCEPT ![t].at = "put", ![t].new["user"] = NoObject]
  BY DEF CommitCreds
<1>2. "user" \in Kinds /\ "put" \in Points
  BY DEF Kinds, Points, UnshareSteps
<1> QED  BY <1>1, <1>2, TakesEffect, ClearEffect DEF CommitDone

OldFs(t) == IF call[t].new["fs"] = NoObject \/ SharedBy(t, "fs") THEN NoObject
            ELSE task[t].ptr["fs"]
OldFd(t) == IF call[t].new["files"] = NoObject THEN NoObject ELSE task[t].ptr["files"]

InstallDone(t, x, y) ==
  /\ TakesDone(t, {"fs", "files"}, x)
  /\ StepsOnward(t, y, "commit",
                 [call[t].new EXCEPT !["fs"] = OldFs(t), !["files"] = OldFd(t)])
  /\ y.flags = call[t].flags

LEMMA InstallEffect ==
  ASSUME Typed, NEW t \in Tasks, Install(t)
  PROVE  \E x, y : InstallDone(t, x, y)
<1>1. PICK x : TakesDone(t, {"fs", "files"}, x)
  BY TakesEffect DEF Install
<1> DEFINE new == [call[t].new EXCEPT !["fs"] = OldFs(t), !["files"] = OldFd(t)]
           y == [call[t] EXCEPT !.at = "commit", !.new = new]
<1>2. call[t] \in CallType /\ new \in Ptr /\ "commit" \in Points
  <2>1. {"fs", "files"} \subseteq Kinds
    BY DEF Kinds
  <2>2. {OldFs(t), OldFd(t)} \subseteq Objects \cup {NoObject}
    BY <2>1, Members DEF OldFs, OldFd, Ptr
  <2> QED  BY <2>1, <2>2, Members DEF Ptr, Points, UnshareSteps
<1>3. call' = [call EXCEPT ![t].at = "commit", ![t].new["fs"] = OldFs(t),
                           ![t].new["files"] = OldFd(t)]
  BY DEF Install, OldFs, OldFd
<1>4. call' = [call EXCEPT ![t] = y]
  BY <1>2, <1>3 DEF CallType
<1> HIDE DEF new
<1>5. y \in CallType /\ y.at = "commit" /\ y.flags = call[t].flags
        /\ y.child = call[t].child /\ y.new = new
  BY <1>2 DEF CallType
<1> HIDE DEF y
<1>6. StepsOnward(t, y, "commit", new) /\ y.flags = call[t].flags
  BY <1>4, <1>5 DEF StepsOnward, CallBecomes
<1> QED  BY <1>1, <1>6 DEF InstallDone, new


-----------------------------------------------------------------------------
(* The variables have their types.  That no count is negative is a matter  *)
(* of the counts being exact.                                              *)

LEMMA TaskBecomesType ==
  ASSUME Typed, NEW p, NEW x, TaskBecomes(p, x)
  PROVE  /\ task' \in [Tasks -> TaskType]
         /\ \A u \in Tasks : task'[u] = IF u = p THEN x ELSE task[u]
BY DEF Typed, TaskBecomes

LEMMA CallBecomesType ==
  ASSUME Typed, NEW t \in Tasks, NEW y, CallBecomes(t, y)
  PROVE  /\ call' \in [Tasks -> CallType]
         /\ \A u \in Tasks : call'[u] = IF u = t THEN y ELSE call[u]
BY DEF Typed, CallBecomes

GroupRecord == [nr_threads : Int, live : Int]

LEMMA GroupSet ==
  ASSUME Typed, NEW o, NEW n \in Int, NEW l \in Int
  PROVE  [group EXCEPT ![o] = [nr_threads |-> n, live |-> l]] \in [Objects -> GroupRecord]
<1> DEFINE g == [nr_threads |-> n, live |-> l]
<1>1. g \in GroupRecord
  BY DEF GroupRecord
<1>2. group \in [Objects -> GroupRecord]
  BY DEF Typed, GroupRecord
<1> HIDE DEF g
<1>3. [group EXCEPT ![o] = g] \in [Objects -> GroupRecord]
  BY <1>1, <1>2
<1> QED  BY <1>3 DEF g

\* The group of o gets a more threads and b more live threads.
GroupDone(o, a, b) ==
  /\ group' \in [Objects -> GroupRecord]
  /\ \A q \in Objects :
       /\ group'[q].nr_threads = IF q = o THEN group[q].nr_threads + a ELSE group[q].nr_threads
       /\ group'[q].live = IF q = o THEN group[q].live + b ELSE group[q].live

LEMMA GroupAdd ==
  ASSUME Typed, NEW o, NEW g, group' = [group EXCEPT ![o] = g],
         NEW a \in {-1, 0, 1}, NEW b \in {-1, 0, 1},
         o \in Objects => /\ g \in GroupRecord
                          /\ g.nr_threads = group[o].nr_threads + a
                          /\ g.live = group[o].live + b
  PROVE  GroupDone(o, a, b)
<1>1. group \in [Objects -> GroupRecord]
  BY DEF Typed, GroupRecord
<1> QED  BY <1>1 DEF GroupDone

LEMMA GroupMember ==
  ASSUME Typed, NEW o \in Objects
  PROVE  group[o] \in GroupRecord /\ group[o].nr_threads \in Int /\ group[o].live \in Int
BY DEF Typed, GroupRecord

LEMMA OneLessLive ==
  ASSUME Typed, NEW o, group' = [group EXCEPT ![o].live = @ - 1]
  PROVE  GroupDone(o, 0, -1)
<1> DEFINE g == [group[o] EXCEPT !.live = @ - 1]
<1>1. o \in Objects => /\ g \in GroupRecord
                       /\ g.nr_threads = group[o].nr_threads + 0
                       /\ g.live = group[o].live + -1
  BY GroupMember DEF GroupRecord
<1>2. group' = [group EXCEPT ![o] = g]
  OBVIOUS
<1> HIDE DEF g
<1> QED  BY <1>1, <1>2, GroupAdd

LEMMA OneLessThread ==
  ASSUME Typed, NEW o, group' = [group EXCEPT ![o].nr_threads = @ - 1]
  PROVE  GroupDone(o, -1, 0)
<1> DEFINE g == [group[o] EXCEPT !.nr_threads = @ - 1]
<1>1. o \in Objects => /\ g \in GroupRecord
                       /\ g.nr_threads = group[o].nr_threads + -1
                       /\ g.live = group[o].live + 0
  BY GroupMember DEF GroupRecord
<1>2. group' = [group EXCEPT ![o] = g]
  OBVIOUS
<1> HIDE DEF g
<1> QED  BY <1>1, <1>2, GroupAdd

LEMMA OneMoreThread ==
  ASSUME Typed, NEW o,
         group' = [group EXCEPT ![o].nr_threads = @ + 1, ![o].live = @ + 1]
  PROVE  GroupDone(o, 1, 1)
<1>1. group \in [Objects -> GroupRecord]
  BY DEF Typed, GroupRecord
<1>2. CASE o \notin Objects
  BY <1>1, <1>2 DEF GroupDone
<1>3. CASE o \in Objects
  <2> DEFINE g == [group[o] EXCEPT !.nr_threads = @ + 1, !.live = @ + 1]
  <2> DEFINE h == [group[o] EXCEPT !.nr_threads = group[o].nr_threads + 1]
  <2>3. h \in GroupRecord /\ h.nr_threads = group[o].nr_threads + 1 /\ h.live = group[o].live
    BY <1>3, GroupMember DEF GroupRecord
  <2>4. g = [h EXCEPT !.live = group[o].live + 1]
    BY <1>3, GroupMember DEF GroupRecord
  <2>1. /\ g \in GroupRecord
        /\ g.nr_threads = group[o].nr_threads + 1
        /\ g.live = group[o].live + 1
    <3> HIDE DEF g, h
    <3> QED  BY <1>3, <2>3, <2>4, GroupMember DEF GroupRecord
  <2>2. group' = [group EXCEPT ![o] = g]
    BY <1>1, <1>3 DEF GroupRecord
  <2> HIDE DEF g
  <2> QED  BY <2>1, <2>2, GroupAdd
<1> QED  BY <1>2, <1>3

LEMMA CopyStepsType ==
  ASSUME Typed, NEW t \in Tasks, CopySteps(t)
  PROVE  Typed'
<1>1. ASSUME NEW k \in Kinds, call[t].at \in Copied, Copy(t, k)
      PROVE  /\ task' \in [Tasks -> TaskType] /\ call' \in [Tasks -> CallType]
             /\ refs' \in [Kinds -> [Objects -> Int]]
  <2>1. PICK x, y, o : CopyDone(t, k, x, y, o)
    BY <1>1, CopyEffect
  <2> QED  BY <2>1, TaskBecomesType, CallBecomesType, CountedType DEF CopyDone
<1>2. CASE CopyCreds(t)
  <2>1. At(t, "creds") /\ Copy(t, "user") /\ "user" \in Kinds /\ "creds" \in Copied
    BY <1>2 DEF CopyCreds, Kinds, Copied
  <2> QED  BY <1>1, <1>2, <2>1 DEF CopyCreds, At, Ghosts, Typed
<1>3. CASE Prepare(t)
  <2>1. PICK x, y : PrepareDone(t, x, y)
    BY <1>3, PrepareEffect
  <2> QED  BY <1>3, <2>1, TaskBecomesType, CallBecomesType DEF Prepare, PrepareDone, Ghosts, Typed
<1>4. CASE CopyFiles(t)
  <2>1. At(t, "files") /\ Copy(t, "files") /\ "files" \in Kinds /\ "files" \in Copied
    BY <1>4 DEF CopyFiles, Kinds, Copied
  <2> QED  BY <1>1, <1>4, <2>1 DEF CopyFiles, At, Ghosts, Typed
<1>5. CASE CopyFs(t)
  <2>1. At(t, "fs") /\ Copy(t, "fs") /\ "fs" \in Kinds /\ "fs" \in Copied
    BY <1>5 DEF CopyFs, Kinds, Copied
  <2> QED  BY <1>1, <1>5, <2>1 DEF CopyFs, At, Ghosts, Typed
<1>6. CASE CopySighand(t)
  <2>1. At(t, "sighand") /\ Copy(t, "sighand") /\ "sighand" \in Kinds /\ "sighand" \in Copied
    BY <1>6 DEF CopySighand, Kinds, Copied
  <2> QED  BY <1>1, <1>6, <2>1 DEF CopySighand, At, Ghosts, Typed
<1>7. CASE CopySignal(t)
  <2>1. At(t, "signal") /\ "signal" \in Kinds /\ "signal" \in Copied
    BY <1>7 DEF CopySignal, Kinds, Copied
  <2>2. CASE Thread(t)
    <3>1. Done(t) /\ UNCHANGED <<task, refs, group, nr_threads, processes, Ghosts>>
      BY <1>7, <2>2 DEF CopySignal, Thread
    <3>2. call' \in [Tasks -> CallType]
      BY <2>1, <3>1, DoneEffect, CallBecomesType DEF At
    <3> QED  BY <3>1, <3>2 DEF Typed, Ghosts
  <2>3. CASE ~Thread(t)
    <3>1. /\ Copy(t, "signal") /\ UNCHANGED <<nr_threads, processes, Ghosts>>
          /\ group' = [group EXCEPT ![Fresh("signal")] = [nr_threads |-> 1, live |-> 1]]
      BY <1>7, <2>3 DEF CopySignal, Thread
    <3>2. group' \in [Objects -> [nr_threads : Int, live : Int]]
      BY <3>1, GroupSet DEF GroupRecord
    <3>3. /\ task' \in [Tasks -> TaskType] /\ call' \in [Tasks -> CallType]
          /\ refs' \in [Kinds -> [Objects -> Int]]
      BY <1>1, <2>1, <3>1 DEF At
    <3> QED  BY <3>1, <3>2, <3>3 DEF Typed, Ghosts
  <2> QED  BY <2>2, <2>3
<1>8. CASE CopyMm(t)
  <2>1. At(t, "mm") /\ Copy(t, "mm") /\ "mm" \in Kinds /\ "mm" \in Copied
    BY <1>8 DEF CopyMm, Kinds, Copied
  <2> QED  BY <1>1, <1>8, <2>1 DEF CopyMm, At, Ghosts, Typed
<1>9. CASE CopyNamespaces(t)
  <2>1. At(t, "ns") /\ Copy(t, "ns") /\ "ns" \in Kinds /\ "ns" \in Copied
    BY <1>9 DEF CopyNamespaces, Kinds, Copied
  <2> QED  BY <1>1, <1>9, <2>1 DEF CopyNamespaces, At, Ghosts, Typed
<1>10. CASE StageFails(t)
  <2>1. PICK label : Unwind(t, label)
    BY <1>10 DEF StageFails
  <2>2. task' \in [Tasks -> TaskType] /\ call' \in [Tasks -> CallType]
    BY <2>1, UnwindEffect, TaskBecomesType, CallBecomesType
  <2>3. refs' \in [Kinds -> [Objects -> Int]]
    BY <2>1, CountedType DEF Unwind
  <2>4. group' \in [Objects -> [nr_threads : Int, live : Int]]
    <3>1. group' = group \/
          group' = [group EXCEPT ![Signal(Child(t))] = [nr_threads |-> 0, live |-> 0]]
      BY <2>1 DEF Unwind
    <3>2. [group EXCEPT ![Signal(Child(t))] = [nr_threads |-> 0, live |-> 0]]
            \in [Objects -> [nr_threads : Int, live : Int]]
      BY GroupSet DEF GroupRecord
    <3> QED  BY <3>1, <3>2 DEF Typed
  <2>5. processes' \in Int /\ UNCHANGED <<nr_threads, Ghosts>>
    BY <2>1 DEF Unwind, Typed
  <2> QED  BY <2>2, <2>3, <2>4, <2>5 DEF Typed, Ghosts
<1>11. CASE Publish(t)
  <2>1. PICK x : PublishDone(t, x)
    BY <1>11, PublishEffect
  <2>2. task' \in [Tasks -> TaskType] /\ call' \in [Tasks -> CallType]
    BY <2>1, TaskBecomesType, CallBecomesType DEF PublishDone
  <2>3. refs' \in [Kinds -> [Objects -> Int]]
    BY <1>11, CountedType DEF Publish
  <2>4. group' \in [Objects -> [nr_threads : Int, live : Int]]
    <3>1. group' = group \/ group' = [group EXCEPT ![Signal(t)].nr_threads = @ + 1,
                                                   ![Signal(t)].live = @ + 1]
      BY <1>11 DEF Publish
    <3> QED  BY <3>1, OneMoreThread DEF Typed, GroupDone, GroupRecord
  <2>5. nr_threads' \in Int /\ UNCHANGED <<processes, Ghosts>>
    BY <1>11 DEF Publish, Typed
  <2> QED  BY <2>2, <2>3, <2>4, <2>5 DEF Typed, Ghosts
<1> QED  BY <1>2, <1>3, <1>4, <1>5, <1>6, <1>7, <1>8, <1>9, <1>10, <1>11 DEF CopySteps

LEMMA UnshareStepsType ==
  ASSUME Typed, NEW t \in Tasks,
         \/ UnshareFiles(t) \/ \E f \in UnshareFlagSets : Unshare(t, f)
         \/ UnshareSyscall(t)
  PROVE  Typed'
<1>1. CASE UnshareFiles(t)
  <2>1. UNCHANGED task /\ call' \in [Tasks -> CallType]
    BY <1>1, UnshareFilesEffect, CallBecomesType DEF StepsOnward
  <2>2. calls' = calls + 1 /\ UNCHANGED <<refs, group, nr_threads, processes, killed, overlapped>>
    BY <1>1 DEF UnshareFiles
  <2> QED  BY <2>1, <2>2 DEF Typed
<1>2. CASE \E f \in UnshareFlagSets : Unshare(t, f)
  <2>1. PICK f \in UnshareFlagSets : Unshare(t, f)
    BY <1>2
  <2>2. UNCHANGED task /\ call' \in [Tasks -> CallType]
    BY <2>1, UnshareEffect, CallBecomesType DEF StepsOnward
  <2>3. calls' = calls + 1 /\ UNCHANGED <<refs, group, nr_threads, processes, killed, overlapped>>
    BY <2>1 DEF Unshare
  <2> QED  BY <2>2, <2>3 DEF Typed
<1>3. CASE PrepareNew(t)
  <2>1. UNCHANGED task /\ call' \in [Tasks -> CallType]
    BY <1>3, PrepareNewEffect, CallBecomesType DEF StepsOnward
  <2>2. refs' \in [Kinds -> [Objects -> Int]]
    BY <1>3, CountedType DEF PrepareNew
  <2> QED  BY <1>3, <2>1, <2>2 DEF PrepareNew, Typed, Elsewhere, Ghosts
<1>4. CASE PrepareFails(t)
  <2>1. UNCHANGED task /\ call' \in [Tasks -> CallType]
    BY <1>4, ReturnEffect, CallBecomesType
  <2> QED  BY <1>4, <2>1 DEF PrepareFails, Typed, Elsewhere, Ghosts
<1>5. CASE SwitchTaskNamespaces(t)
  <2>1. PICK x, y : SwitchDone(t, x, y)
    BY <1>5, SwitchEffect
  <2>2. task' \in [Tasks -> TaskType] /\ call' \in [Tasks -> CallType]
    BY <2>1, TaskBecomesType, CallBecomesType DEF SwitchDone, TakesDone, StepsOnward
  <2>3. refs' \in [Kinds -> [Objects -> Int]]
    BY <1>5, CountedType DEF SwitchTaskNamespaces
  <2> QED  BY <1>5, <2>2, <2>3 DEF SwitchTaskNamespaces, Typed, Elsewhere, Ghosts
<1>6. CASE Install(t)
  <2>1. PICK x, y : InstallDone(t, x, y)
    BY <1>6, InstallEffect
  <2>2. task' \in [Tasks -> TaskType] /\ call' \in [Tasks -> CallType]
    BY <2>1, TaskBecomesType, CallBecomesType DEF InstallDone, TakesDone, StepsOnward
  <2>3. refs' \in [Kinds -> [Objects -> Int]]
    BY <1>6, CountedType DEF Install
  <2> QED  BY <1>6, <2>2, <2>3 DEF Install, Typed, Elsewhere, Ghosts
<1>7. CASE CommitCreds(t)
  <2>1. PICK x, y : CommitDone(t, x, y)
    BY <1>7, CommitEffect
  <2>2. task' \in [Tasks -> TaskType] /\ call' \in [Tasks -> CallType]
    BY <2>1, TaskBecomesType, CallBecomesType DEF CommitDone, TakesDone, StepsOnward
  <2>3. refs' \in [Kinds -> [Objects -> Int]]
    BY <1>7, CountedType DEF CommitCreds
  <2> QED  BY <1>7, <2>2, <2>3 DEF CommitCreds, Typed, Elsewhere, Ghosts
<1>8. CASE PutOld(t)
  <2>1. UNCHANGED task /\ call' \in [Tasks -> CallType]
    BY <1>8, ReturnEffect, CallBecomesType
  <2>2. refs' \in [Kinds -> [Objects -> Int]]
    BY <1>8, CountedType DEF PutOld
  <2> QED  BY <1>8, <2>1, <2>2 DEF PutOld, Typed, Elsewhere, Ghosts
<1> QED  BY <1>1, <1>2, <1>3, <1>4, <1>5, <1>6, <1>7, <1>8 DEF UnshareSyscall

LEMMA TypedStep ==
  ASSUME Typed, [Next]_vars
  PROVE  Typed'
<1>1. CASE KillGroup
  BY <1>1, KillEffect DEF KillDone, KillGroup, Typed
<1>2. ASSUME NEW t \in Tasks, NEW f \in CloneFlagSets, NEW p \in Tasks, Clone(t, f, p)
      PROVE  Typed'
  <2>1. PICK x, y : CloneDone(t, f, p, x, y)
    BY <1>2, CloneEffect
  <2>2. task' \in [Tasks -> TaskType] /\ call' \in [Tasks -> CallType]
    BY <2>1, TaskBecomesType, CallBecomesType DEF CloneDone
  <2>3. overlapped' \in BOOLEAN /\ calls' \in Nat
        /\ UNCHANGED <<refs, group, nr_threads, processes, killed>>
    BY <1>2 DEF Clone, Typed
  <2> QED  BY <2>2, <2>3 DEF Typed
<1>3. ASSUME NEW t \in Tasks, Exit(t)
      PROVE  Typed'
  <2>1. task' \in [Tasks -> TaskType] /\ UNCHANGED call
    BY <1>3, ExitEffect, TaskBecomesType DEF ExitDone
  <2>2. refs' \in [Kinds -> [Objects -> Int]]
    BY <1>3, CountedType DEF Exit
  <2>3. group' \in [Objects -> [nr_threads : Int, live : Int]]
    BY <1>3, OneLessLive DEF Exit, GroupDone, GroupRecord
  <2> QED  BY <1>3, <2>1, <2>2, <2>3 DEF Exit, Typed, Ghosts
<1>4. ASSUME NEW t \in Tasks, Release(t)
      PROVE  Typed'
  <2>1. task' \in [Tasks -> TaskType] /\ UNCHANGED call
    BY <1>4, ReleaseEffect, TaskBecomesType DEF ReleaseDone
  <2>2. refs' \in [Kinds -> [Objects -> Int]]
    BY <1>4, CountedType DEF Release, CleanupSighand
  <2>3. group' \in [Objects -> [nr_threads : Int, live : Int]]
    BY <1>4, OneLessThread DEF Release, GroupDone, GroupRecord
  <2> QED  BY <1>4, <2>1, <2>2, <2>3 DEF Release, Typed, Ghosts
<1>5. ASSUME NEW t \in Tasks, PutTaskStruct(t)
      PROVE  Typed'
  <2>1. task' \in [Tasks -> TaskType] /\ UNCHANGED call
    BY <1>5, PutEffect, TaskBecomesType
  <2>2. refs' \in [Kinds -> [Objects -> Int]]
    BY <1>5, CountedType DEF PutTaskStruct
  <2> QED  BY <1>5, <2>1, <2>2 DEF PutTaskStruct, Typed, Ghosts
<1>6. CASE UNCHANGED vars
  BY <1>6 DEF vars, Typed
<1> QED
  BY <1>1, <1>2, <1>3, <1>4, <1>5, <1>6, CopyStepsType, UnshareStepsType DEF Next

-----------------------------------------------------------------------------
(* The initial state.                                                      *)

First  == CHOOSE o \in Objects : TRUE
Second == CHOOSE o \in Objects \ {First} : TRUE
VisibleTask(ptr, leader) ==
  [state |-> "running", ptr |-> ptr, pending |-> FALSE, leader |-> leader,
   held |-> Kinds \cup (Own \ {"threadgroup", "cgroup"})]
FirstPtr == [k \in Kinds |-> First]
SecondPtr(f) == [k \in Kinds |-> IF Shares(k, f) THEN First ELSE Second]

LEMMA FirstSecond == First \in Objects /\ Second \in Objects /\ First # Second
<1>1. PICK o, q \in Objects : o # q
  BY ObjectsAssumption
<1>2. First \in Objects
  BY <1>1 DEF First
<1>3. \E r \in Objects : r # First
  BY <1>1
<1>4. \E r : r \in Objects \ {First}
  BY <1>3
<1>5. Second \in Objects \ {First}
  BY <1>4 DEF Second
<1> QED  BY <1>2, <1>5

LEMMA VisibleType ==
  ASSUME NEW ptr \in Ptr, NEW leader \in BOOLEAN
  PROVE  LET x == VisibleTask(ptr, leader)
         IN /\ x \in TaskType /\ x.state = "running" /\ x.ptr = ptr /\ x.leader = leader
            /\ x.pending = FALSE /\ x.held = Kinds \cup (Own \ {"threadgroup", "cgroup"})
BY DEF VisibleTask, TaskType, States, Resources

LEMMA StartedIs ==
  ASSUME NEW f \in SecondFlagSets, Started(f)
  PROVE  /\ task = [t \in Tasks |->
              CASE t = FirstTask  -> VisibleTask(FirstPtr, TRUE)
                [] t = SecondTask -> VisibleTask(SecondPtr(f), "THREAD" \notin f)
                [] OTHER          -> FreeTask]
         /\ refs = [k \in Kinds |-> [o \in Objects |->
              CASE o = First  -> IF Shares(k, f) THEN 2 ELSE 1
                [] o = Second -> IF Shares(k, f) THEN 0 ELSE 1
                [] OTHER      -> 0]]
         /\ group = [o \in Objects |->
              [nr_threads |-> refs["signal"][o], live |-> refs["signal"][o]]]
BY DEF Started, First, Second, VisibleTask, FirstPtr, SecondPtr

LEMMA StartedTasks ==
  ASSUME NEW f \in SecondFlagSets, Started(f)
  PROVE  /\ task \in [Tasks -> TaskType]
         /\ task[FirstTask] = VisibleTask(FirstPtr, TRUE)
         /\ task[SecondTask] = VisibleTask(SecondPtr(f), "THREAD" \notin f)
         /\ \A t \in Tasks \ {FirstTask, SecondTask} : task[t] = FreeTask
<1>1. FirstPtr \in Ptr /\ SecondPtr(f) \in Ptr
  BY FirstSecond DEF FirstPtr, SecondPtr, Ptr
<1>2. VisibleTask(FirstPtr, TRUE) \in TaskType
  BY <1>1, VisibleType
<1>3. VisibleTask(SecondPtr(f), "THREAD" \notin f) \in TaskType
  BY <1>1, VisibleType
<1>4. FirstTask \in Tasks /\ SecondTask \in Tasks /\ FirstTask # SecondTask
  BY TasksAssumption
<1>5. task = [t \in Tasks |->
              CASE t = FirstTask  -> VisibleTask(FirstPtr, TRUE)
                [] t = SecondTask -> VisibleTask(SecondPtr(f), "THREAD" \notin f)
                [] OTHER          -> FreeTask]
  BY StartedIs
<1>6. /\ task[FirstTask] = VisibleTask(FirstPtr, TRUE)
      /\ task[SecondTask] = VisibleTask(SecondPtr(f), "THREAD" \notin f)
      /\ \A t \in Tasks \ {FirstTask, SecondTask} : task[t] = FreeTask
      /\ task = [t \in Tasks |-> task[t]]
  BY <1>4, <1>5, Zenon
<1>7. \A t \in Tasks : task[t] \in TaskType
  BY <1>2, <1>3, <1>6, FreeTaskType
<1> QED  BY <1>6, <1>7

LEMMA StartedRefs ==
  ASSUME NEW f \in SecondFlagSets, Started(f), NEW k \in Kinds, NEW o \in Objects
  PROVE  /\ refs[k][o] \in Nat
         /\ o = First  => refs[k][o] = IF Shares(k, f) THEN 2 ELSE 1
         /\ o = Second => refs[k][o] = IF Shares(k, f) THEN 0 ELSE 1
         /\ o \notin {First, Second} => refs[k][o] = 0
<1>1. refs[k][o] = CASE o = First  -> IF Shares(k, f) THEN 2 ELSE 1
                     [] o = Second -> IF Shares(k, f) THEN 0 ELSE 1
                     [] OTHER      -> 0
  <2>1. refs = [k_1 \in Kinds |-> [o_1 \in Objects |->
              CASE o_1 = First  -> IF Shares(k_1, f) THEN 2 ELSE 1
                [] o_1 = Second -> IF Shares(k_1, f) THEN 0 ELSE 1
                [] OTHER      -> 0]]
    BY StartedIs
  <2> QED  BY <2>1, Zenon
<1>2. First # Second
  BY FirstSecond
<1>3. CASE o = First
  BY <1>1, <1>2, <1>3
<1>4. CASE o = Second
  BY <1>1, <1>2, <1>4
<1>5. CASE o \notin {First, Second}
  BY <1>1, <1>5
<1> QED  BY <1>3, <1>4, <1>5

LEMMA InitTyped == Init => Typed
<1> SUFFICES ASSUME Init PROVE Typed
  OBVIOUS
<1>1. PICK f \in SecondFlagSets : Started(f)
  BY DEF Init
<1>2. task \in [Tasks -> TaskType]
  BY <1>1, StartedTasks
<1>3. refs \in [Kinds -> [Objects -> Int]]
  <2>1. \A k \in Kinds, o \in Objects : refs[k][o] \in Int
    BY <1>1, StartedRefs
  <2>2. refs = [k \in Kinds |-> [o \in Objects |-> refs[k][o]]]
    BY <1>1, StartedIs
  <2> QED  BY <2>1, <2>2
<1>4. group \in [Objects -> [nr_threads : Int, live : Int]]
  <2>1. "signal" \in Kinds
    BY DEF Kinds
  <2>2. group = [o \in Objects |-> [nr_threads |-> refs["signal"][o],
                                    live |-> refs["signal"][o]]]
    BY <1>1, StartedIs
  <2>3. \A o \in Objects : refs["signal"][o] \in Int
    BY <1>3, <2>1
  <2> QED  BY <2>2, <2>3
<1>5. call \in [Tasks -> CallType]
  BY InUserModeType DEF Init
<1>6. nr_threads \in Int /\ processes \in Int /\ calls \in Nat
      /\ killed \in BOOLEAN /\ overlapped \in BOOLEAN
  <2>1. nr_threads = 2 /\ processes = 2 /\ calls = 0 /\ killed = FALSE /\ overlapped = FALSE
    BY Zenon DEF Init
  <2>2. nr_threads \in Int /\ processes \in Int /\ calls \in Nat
    BY <2>1
  <2>3. killed \in BOOLEAN /\ overlapped \in BOOLEAN
    BY <2>1, Zenon
  <2> QED  BY <2>2, <2>3
<1> QED  BY <1>2, <1>3, <1>4, <1>5, <1>6 DEF Typed

-----------------------------------------------------------------------------
(* Who is in copy_process, with which child, and what the child holds.     *)

Busy == \A t \in Tasks : call[t].at # "user" => Running(t)
OwnChild == \A t, u \in Forking : Child(t) = Child(u) => t = u
\* What a child holds on entry to the stage its parent is at.
Growth(at, f) ==
  {r \in Resources \ {"seccomp"} : TakenAt[r] < StageAt[at] /\ ~("THREAD" \in f /\ r = "signal")}
Growing == \A t \in Forking :
  task[Child(t)].state = "new" /\ task[Child(t)].held = Growth(call[t].at, call[t].flags)
ForkInv == Busy /\ OwnChild /\ Growing

LEMMA PointNames ==
  /\ "user" \notin StageNames /\ UnshareSteps \cap StageNames = {}
  /\ Points = {"user"} \cup UnshareSteps \cup (Points \cap StageNames)
  /\ Copied \subseteq StageNames /\ "limit" \in StageNames /\ "io" \in StageNames
  /\ "publish" \in StageNames
BY StageNamesAre DEF Names, UnshareSteps, Points, Copied

\* A step of t that changes the state and the resources of one task p only.
LEMMA ForkKept ==
  ASSUME Typed, ForkInv, NEW t \in Tasks, NEW p \in Tasks,
         \A u \in Tasks \ {t} : call'[u] = call[u],
         \A u \in Tasks \ {p} : task'[u].state = task[u].state /\ task'[u].held = task[u].held,
         p = t \/ ~Running(p),
         \A u \in Forking \ {t} : Child(u) # p,
         call'[t].at # "user" => task'[t].state = "running",
         call'[t].at \in StageNames =>
           /\ call'[t].child = p /\ task'[p].state = "new"
           /\ task'[p].held = Growth(call'[t].at, call'[t].flags)
  PROVE  ForkInv'
<1>1. Forking' \ {t} = Forking \ {t}
  BY DEF Forking
<1>2. Busy'
  <2> SUFFICES ASSUME NEW u \in Tasks, call'[u].at # "user" PROVE task'[u].state = "running"
    BY DEF Busy, Running
  <2>1. CASE u = t
    BY <2>1
  <2>2. CASE u # t
    <3>1. task[u].state = "running"
      BY <2>2 DEF ForkInv, Busy, Running
    <3>2. u # p
      BY <2>2, <3>1 DEF Running
    <3> QED  BY <3>1, <3>2
  <2> QED  BY <2>1, <2>2
<1>3. \A u \in Forking' \ {t} : Child(u)' = Child(u) /\ Child(u) # p /\ Child(u) \in Tasks
  BY <1>1, Members DEF Child, Forking
<1>4. t \in Forking' => Child(t)' = p
  BY DEF Forking, Child
<1>5. OwnChild'
  <2> SUFFICES ASSUME NEW u \in Forking', NEW v \in Forking', Child(u)' = Child(v)'
               PROVE  u = v
    BY DEF OwnChild
  <2>1. CASE u = t \/ v = t
    BY <1>3, <1>4, <2>1
  <2>2. CASE u # t /\ v # t
    BY <1>1, <1>3, <2>2 DEF ForkInv, OwnChild
  <2> QED  BY <2>1, <2>2
<1>6. Growing'
  <2> SUFFICES ASSUME NEW u \in Forking'
               PROVE  /\ task'[Child(u)'].state = "new"
                      /\ task'[Child(u)'].held = Growth(call'[u].at, call'[u].flags)
    BY DEF Growing, Growth
  <2>1. CASE u = t
    BY <1>4, <2>1 DEF Forking
  <2>2. CASE u # t
    <3>1. /\ task[Child(u)].state = "new"
          /\ task[Child(u)].held = Growth(call[u].at, call[u].flags)
      BY <1>1, <2>2 DEF ForkInv, Growing
    <3>2. call'[u] = call[u]
      BY <2>2 DEF Forking
    <3> QED  BY <1>3, <2>2, <3>1, <3>2
  <2> QED  BY <2>1, <2>2
<1> QED  BY <1>2, <1>5, <1>6 DEF ForkInv

LEMMA InitFork == Init => ForkInv
<1> SUFFICES ASSUME Init PROVE ForkInv
  OBVIOUS
<1>1. \A t \in Tasks : call[t].at = "user"
  BY InUserModeType DEF Init
<1>2. Forking = {}
  BY <1>1, PointNames DEF Forking
<1> QED  BY <1>1, <1>2 DEF ForkInv, Busy, OwnChild, Growing

LEMMA TakenByCopy ==
  \A r \in Resources :
    /\ TakenAt[r] = 1 <=> r = "user"
    /\ TakenAt[r] = 8 <=> r = "files"
    /\ TakenAt[r] = 9 <=> r = "fs"
    /\ TakenAt[r] = 10 <=> r = "sighand"
    /\ TakenAt[r] = 11 <=> r = "signal"
    /\ TakenAt[r] = 12 <=> r = "mm"
    /\ TakenAt[r] = 13 <=> r = "ns"
BY DEF TakenAt, Resources, Kinds, Own

\* The stages that copy and what they copy.
CopyAt == {<<"creds", "user">>, <<"files", "files">>, <<"fs", "fs">>, <<"sighand", "sighand">>,
           <<"signal", "signal">>, <<"mm", "mm">>, <<"ns", "ns">>}

LEMMA GrowthByCopy ==
  ASSUME NEW a, NEW k, <<a, k>> \in CopyAt, NEW s \in Names, NEW f,
         StageAt[s] = StageAt[a] + 1
  PROVE  /\ ~("THREAD" \in f /\ k = "signal") => Growth(s, f) = Growth(a, f) \cup {k}
         /\ "THREAD" \in f /\ k = "signal" => Growth(s, f) = Growth(a, f)
         /\ k \in Kinds /\ a \in Copied
<1>1. k \in Resources \ {"seccomp"} /\ k \in Kinds /\ a \in Copied
  BY DEF CopyAt, Resources, Kinds, Copied
<1>2. \A r \in Resources : TakenAt[r] = StageAt[a] <=> r = k
  BY TakenByCopy, StageNumbers DEF CopyAt
<1>3. StageAt[a] \in Int
  BY StageNumbers DEF CopyAt
<1>4. \A r \in Resources : TakenAt[r] < StageAt[s] <=> TakenAt[r] < StageAt[a] \/ r = k
  BY <1>2, <1>3, GivenAtNat
<1> QED  BY <1>1, <1>4 DEF Growth

\* A child that is being made is not running and belongs to one task only.
LEMMA ChildApart ==
  ASSUME Typed, ForkInv, NEW t \in Forking
  PROVE  /\ t \in Tasks /\ Child(t) \in Tasks /\ task[Child(t)].state = "new"
         /\ ~Running(Child(t)) /\ Child(t) # t
         /\ \A u \in Forking \ {t} : Child(u) # Child(t)
         /\ Running(t) /\ call[t].at # "user"
<1>1. t \in Tasks /\ call[t].at # "user"
  BY PointNames DEF Forking
<1> QED  BY <1>1, Members DEF ForkInv, Busy, OwnChild, Growing, Running, Forking

LEMMA ForkCopy ==
  ASSUME Typed, ForkInv, NEW t \in Tasks, NEW k, <<call[t].at, k>> \in CopyAt, Copy(t, k),
         ~(Thread(t) /\ k = "signal")
  PROVE  ForkInv'
<1>1. call[t].at \in Copied /\ k \in Kinds
  BY DEF CopyAt, Copied, Kinds
<1>2. t \in Forking
  BY <1>1, PointNames DEF Forking
<1>3. PICK x, y, o : CopyDone(t, k, x, y, o)
  BY <1>1, CopyEffect
<1>4. /\ \A u \in Tasks : task'[u] = IF u = Child(t) THEN x ELSE task[u]
      /\ \A u \in Tasks : call'[u] = IF u = t THEN y ELSE call[u]
  BY <1>3, TaskBecomesType, CallBecomesType DEF CopyDone
<1>5. x.state = "new" /\ x.held = Growth(call[t].at, call[t].flags) \cup {k}
  BY <1>2, <1>3 DEF CopyDone, Same, ForkInv, Growing
<1>6. y.at \in Names /\ StageAt[y.at] = StageAt[call[t].at] + 1
      /\ y.flags = call[t].flags /\ y.child = Child(t)
  BY <1>3 DEF CopyDone, Onward, Child
<1>7. x.held = Growth(y.at, y.flags)
  BY <1>5, <1>6, GrowthByCopy DEF Thread
<1> QED  BY <1>2, <1>4, <1>5, <1>6, <1>7, ChildApart, ForkKept DEF Running

LEMMA ForkCopySteps ==
  ASSUME Typed, ForkInv, NEW t \in Tasks, CopySteps(t)
  PROVE  ForkInv'
<1>1. CASE CopyCreds(t)
  BY <1>1, ForkCopy DEF CopyCreds, At, CopyAt
<1>2. CASE CopyFiles(t)
  BY <1>2, ForkCopy DEF CopyFiles, At, CopyAt
<1>3. CASE CopyFs(t)
  BY <1>3, ForkCopy DEF CopyFs, At, CopyAt
<1>4. CASE CopySighand(t)
  BY <1>4, ForkCopy DEF CopySighand, At, CopyAt
<1>5. CASE CopyMm(t)
  BY <1>5, ForkCopy DEF CopyMm, At, CopyAt
<1>6. CASE CopyNamespaces(t)
  BY <1>6, ForkCopy DEF CopyNamespaces, At, CopyAt
<1>7. CASE CopySignal(t)
  <2>1. <<call[t].at, "signal">> \in CopyAt /\ call[t].at \in Copied /\ t \in Forking
    BY <1>7, PointNames DEF CopySignal, At, CopyAt, Copied, Forking
  <2>2. CASE ~Thread(t)
    BY <1>7, <2>1, <2>2, ForkCopy DEF CopySignal, Thread
  <2>3. CASE Thread(t)
    <3>1. Done(t) /\ UNCHANGED task
      BY <1>7, <2>3 DEF CopySignal, Thread
    <3>2. PICK y : /\ CallBecomes(t, y) /\ y.at \in Names \cap Points
                   /\ StageAt[y.at] = StageAt[call[t].at] + 1 /\ Onward(y, t, y.at)
      BY <2>1, <3>1, DoneEffect
    <3>3. \A u \in Tasks : call'[u] = IF u = t THEN y ELSE call[u]
      BY <3>2, CallBecomesType
    <3>4. y.flags = call[t].flags /\ y.child = Child(t)
      BY <3>2 DEF Onward, Child
    <3>5. task[Child(t)].held = Growth(y.at, y.flags)
      BY <2>1, <2>3, <3>2, <3>4, GrowthByCopy DEF ForkInv, Growing, Thread
    <3> QED  BY <2>1, <3>1, <3>3, <3>4, <3>5, ChildApart, ForkKept DEF Running
  <2> QED  BY <2>2, <2>3
<1>8. CASE Prepare(t)
  <2>1. PICK x, y : PrepareDone(t, x, y)
    BY <1>8, PrepareEffect
  <2>2. /\ \A u \in Tasks : task'[u] = IF u = Child(t) THEN x ELSE task[u]
        /\ \A u \in Tasks : call'[u] = IF u = t THEN y ELSE call[u]
    BY <2>1, TaskBecomesType, CallBecomesType DEF PrepareDone
  <2>3. t \in Forking /\ call[t].at \in StageNames
    BY <2>1, PointNames DEF PrepareDone, Forking
  <2>4. x.state = "new"
        /\ x.held = Growth(call[t].at, call[t].flags) \cup Before(t, y.at)
    BY <2>1, <2>3 DEF PrepareDone, Same, ForkInv, Growing
  <2>5. y.flags = call[t].flags /\ y.child = Child(t)
    BY <2>1 DEF PrepareDone, Onward, Child
  <2>6. x.held = Growth(y.at, y.flags)
    <3>1. Before(t, y.at) = {r \in Resources : StageAt[call[t].at] <= TakenAt[r]
                                             /\ TakenAt[r] < StageAt[y.at]
                                             /\ TakenAt[r] \in (2 .. 7) \cup (14 .. 17)}
      BY <2>1, <2>3, BeforeType DEF PrepareDone
    <3>2. \/ StageAt[call[t].at] = 2 /\ StageAt[y.at] = 8
          \/ StageAt[call[t].at] = 14 /\ StageAt[y.at] = 18
      BY <2>1, StageNumbers DEF PrepareDone
    <3>3. TakenAt["signal"] = 11 /\ TakenAt["seccomp"] = 0
      BY DEF TakenAt
    <3> QED  BY <2>4, <2>5, <3>1, <3>2, <3>3, GivenAtNat DEF Growth
  <2> QED  BY <2>2, <2>3, <2>4, <2>5, <2>6, ChildApart, ForkKept DEF Running
<1>9. CASE StageFails(t)
  <2>1. PICK label : Unwind(t, label)
    BY <1>9 DEF StageFails
  <2>2. t \in Forking
    BY <1>9 DEF StageFails, Forking
  <2>3. /\ \A u \in Tasks : task'[u] = IF u = Child(t) THEN FreeTask ELSE task[u]
        /\ \A u \in Tasks : call'[u] = IF u = t THEN InUserMode ELSE call[u]
    BY <2>1, UnwindEffect, TaskBecomesType, CallBecomesType
  <2> QED  BY <2>2, <2>3, ChildApart, ForkKept, InUserModeType, PointNames
<1>10. CASE Publish(t)
  <2>1. PICK x : PublishDone(t, x)
    BY <1>10, PublishEffect
  <2>2. t \in Forking
    BY <1>10, PointNames DEF Publish, At, Forking
  <2>3. /\ \A u \in Tasks : task'[u] = IF u = Child(t) THEN x ELSE task[u]
        /\ \A u \in Tasks : call'[u] = IF u = t THEN InUserMode ELSE call[u]
    BY <2>1, TaskBecomesType, CallBecomesType DEF PublishDone
  <2> QED  BY <2>2, <2>3, ChildApart, ForkKept, InUserModeType, PointNames
<1> QED  BY <1>1, <1>2, <1>3, <1>4, <1>5, <1>6, <1>7, <1>8, <1>9, <1>10 DEF CopySteps

\* A step of t outside copy_process.
LEMMA ForkElsewhere ==
  ASSUME Typed, ForkInv, NEW t \in Tasks, t \notin Forking, task[t].state # "new",
         \A u \in Tasks \ {t} : call'[u] = call[u] /\ task'[u] = task[u],
         call'[t].at \notin StageNames, call'[t].at # "user" => task'[t].state = "running"
  PROVE  ForkInv'
<1>1. \A u \in Forking \ {t} : Child(u) # t
  BY ChildApart
<1> QED  BY <1>1, ForkKept

LEMMA ForkUnshareSteps ==
  ASSUME Typed, ForkInv, NEW t \in Tasks,
         \/ UnshareFiles(t) \/ \E f \in UnshareFlagSets : Unshare(t, f)
         \/ UnshareSyscall(t)
  PROVE  ForkInv'
<1>1. Running(t) /\ t \notin Forking
  <2>1. CASE UnshareSyscall(t)
    <3>1. call[t].at \in UnshareSteps
      BY <2>1 DEF UnshareSyscall, UnshareSteps, At, PrepareNew, PrepareFails,
                  SwitchTaskNamespaces, Install, CommitCreds, PutOld
    <3> QED  BY <3>1, PointNames DEF ForkInv, Busy, Forking, UnshareSteps
  <2>2. CASE UnshareFiles(t) \/ \E f \in UnshareFlagSets : Unshare(t, f)
    BY <2>2, PointNames DEF UnshareFiles, Unshare, At, Forking
  <2> QED  BY <2>1, <2>2
<1>2. ASSUME NEW y, CallBecomes(t, y), y.at \in {"user"} \cup UnshareSteps,
             \/ UNCHANGED task \/ \E x, ks : TakesDone(t, ks, x)
      PROVE  ForkInv'
  <2>1. \A u \in Tasks : call'[u] = IF u = t THEN y ELSE call[u]
    BY <1>2, CallBecomesType
  <2>2. /\ task'[t].state = "running"
        /\ \A u \in Tasks \ {t} : task'[u] = task[u]
    <3>1. CASE UNCHANGED task
      BY <1>1, <3>1 DEF Running
    <3>2. ASSUME NEW x, NEW ks, TakesDone(t, ks, x)
          PROVE  task'[t].state = "running" /\ \A u \in Tasks \ {t} : task'[u] = task[u]
      BY <1>1, <3>2, TaskBecomesType DEF TakesDone, Same, Running
    <3> QED  BY <1>2, <3>1, <3>2
  <2> QED  BY <1>1, <1>2, <2>1, <2>2, ForkElsewhere, PointNames DEF Running
<1>3. "prepare" \in UnshareSteps /\ "switch" \in UnshareSteps /\ "install" \in UnshareSteps
      /\ "commit" \in UnshareSteps /\ "put" \in UnshareSteps
  BY DEF UnshareSteps
<1>4. CASE UnshareFiles(t)
  BY <1>2, <1>3, <1>4, UnshareFilesEffect DEF StepsOnward
<1>5. CASE \E f \in UnshareFlagSets : Unshare(t, f)
  BY <1>2, <1>3, <1>5, UnshareEffect DEF StepsOnward
<1>6. CASE PrepareNew(t)
  BY <1>2, <1>3, <1>6, PrepareNewEffect, InUserModeType DEF StepsOnward
<1>7. CASE PrepareFails(t) \/ PutOld(t)
  BY <1>2, <1>7, ReturnEffect, InUserModeType
<1>8. CASE SwitchTaskNamespaces(t)
  BY <1>2, <1>3, <1>8, SwitchEffect DEF SwitchDone, StepsOnward
<1>9. CASE Install(t)
  BY <1>2, <1>3, <1>9, InstallEffect DEF InstallDone, StepsOnward
<1>10. CASE CommitCreds(t)
  BY <1>2, <1>3, <1>10, CommitEffect DEF CommitDone, StepsOnward
<1> QED  BY <1>4, <1>5, <1>6, <1>7, <1>8, <1>9, <1>10 DEF UnshareSyscall

LEMMA ForkStep ==
  ASSUME Typed, ForkInv, [Next]_vars
  PROVE  ForkInv'
<1>1. CASE KillGroup
  <2>1. KillDone
    BY <1>1, KillEffect
  <2>2. UNCHANGED call /\ Forking' = Forking /\ \A u \in Tasks : Child(u)' = Child(u)
    BY <2>1 DEF KillDone, Forking, Child
  <2>3. \A u \in Tasks : task'[u].state = task[u].state /\ task'[u].held = task[u].held
    BY <2>1 DEF KillDone, Same
  <2>4. OwnChild'
    BY <2>2 DEF ForkInv, OwnChild, Forking
  <2>6. Busy'
    BY <2>2, <2>3 DEF ForkInv, Busy, Running
  <2>5. Growing'
    BY <2>2, <2>3, ChildApart DEF ForkInv, Growing, Growth
  <2> QED  BY <2>4, <2>5, <2>6 DEF ForkInv
<1>2. ASSUME NEW t \in Tasks, NEW f \in CloneFlagSets, NEW p \in Tasks, Clone(t, f, p)
      PROVE  ForkInv'
  <2>1. PICK x, y : CloneDone(t, f, p, x, y)
    BY <1>2, CloneEffect
  <2>2. /\ \A u \in Tasks : task'[u] = IF u = p THEN x ELSE task[u]
        /\ \A u \in Tasks : call'[u] = IF u = t THEN y ELSE call[u]
    BY <2>1, TaskBecomesType, CallBecomesType DEF CloneDone
  <2>3. Running(t) /\ task[p].state = "free" /\ p # t
    BY <1>2 DEF Clone, Running
  <2>4. \A u \in Forking \ {t} : Child(u) # p
    BY <2>3, ChildApart
  <2>5. x.held = Growth(y.at, y.flags)
    <3>1. StageAt[y.at] = 1 /\ x.held = {"task"}
      BY <2>1, StageNumbers DEF CloneDone
    <3>2. \A r \in Resources : TakenAt[r] < 1 <=> r \in {"task", "seccomp"}
      BY DEF TakenAt, Resources, Kinds, Own
    <3>3. "task" \in Resources
      BY DEF Resources, Own
    <3> QED  BY <3>1, <3>2, <3>3 DEF Growth
  <2> QED  BY <2>1, <2>2, <2>3, <2>4, <2>5, ForkKept DEF CloneDone, Running
<1>3. ASSUME NEW t \in Tasks, Exit(t)
      PROVE  ForkInv'
  <2>1. PICK x : ExitDone(t, x)
    BY <1>3, ExitEffect
  <2>2. call[t].at = "user" /\ task[t].state = "running"
    BY <1>3 DEF Exit, At, Running
  <2> QED  BY <2>1, <2>2, TaskBecomesType, ForkElsewhere, PointNames DEF ExitDone, Forking
<1>4. ASSUME NEW t \in Tasks, Release(t)
      PROVE  ForkInv'
  <2>1. PICK x : ReleaseDone(t, x)
    BY <1>4, ReleaseEffect
  <2>2. call[t].at = "user" /\ task[t].state = "zombie"
    BY <1>4 DEF Release, ForkInv, Busy, Running
  <2> QED  BY <2>1, <2>2, TaskBecomesType, ForkElsewhere, PointNames DEF ReleaseDone, Forking
<1>5. ASSUME NEW t \in Tasks, PutTaskStruct(t)
      PROVE  ForkInv'
  <2>1. TaskBecomes(t, FreeTask) /\ UNCHANGED call
    BY <1>5, PutEffect
  <2>2. call[t].at = "user" /\ task[t].state = "dead"
    BY <1>5 DEF PutTaskStruct, ForkInv, Busy, Running
  <2> QED  BY <2>1, <2>2, TaskBecomesType, ForkElsewhere, PointNames DEF Forking
<1>6. CASE UNCHANGED vars
  BY <1>6 DEF vars, ForkInv, Busy, OwnChild, Growing, Growth, Forking, Child, Running
<1> QED
  BY <1>1, <1>2, <1>3, <1>4, <1>5, <1>6, ForkCopySteps, ForkUnshareSteps DEF Next

LEMMA ForkAlways == Spec => [](Typed /\ ForkInv)
<1>1. Init => Typed /\ ForkInv
  BY InitTyped, InitFork
<1>2. Typed /\ ForkInv /\ [Next]_vars => (Typed /\ ForkInv)'
  BY TypedStep, ForkStep
<1> QED  BY <1>1, <1>2, PTL DEF Spec

-----------------------------------------------------------------------------
(* Unwinding.                                                              *)

\* The stages have taken what the labels after their failure give back.
LEMMA TakenAreGiven ==
  \A j \in 1 .. 18, r \in Resources : TakenAt[r] < j <=> GivenAt[r] >= LabelOf(j)
  <1> SUFFICES ASSUME NEW j \in 1 .. 18, NEW r \in Resources \ {"seccomp"}
               PROVE  TakenAt[r] < j <=> GivenAt[r] >= LabelOf(j)
    BY DEF TakenAt, GivenAt, LabelOf
  <1> QED  BY DEF TakenAt, GivenAt, LabelOf, Resources, Kinds, Own

LEMMA UnwindsIfGrowing ==
  ASSUME Typed, ForkInv
  PROVE  UnwindsExactly
<1> SUFFICES ASSUME NEW t \in Forking, NEW s \in Ahead[call[t].at]
             PROVE  task[Child(t)].held \cup Before(t, s) = Given(t, OnFailure[s]) \ {"seccomp"}
  BY DEF UnwindsExactly
<1>1. t \in Tasks /\ call[t].at \in StageNames /\ s \in StageNames
  BY DEF Forking, Ahead
<1>2. PICK i \in 1 .. 18 : call[t].at = Stages[i]
  BY <1>1, StagesDomain DEF StageNames
<1>3. PICK j \in 1 .. 18 : s = Stages[j]
  BY <1>1, StagesDomain DEF StageNames
<1>4. i <= j /\ \A k \in i .. j - 1 : k \in (2 .. 7) \cup (14 .. 17)
  BY <1>2, <1>3, AheadIs
<1>5. task[Child(t)].held = {r \in Resources \ {"seccomp"} :
                               TakenAt[r] < i /\ ~(Thread(t) /\ r = "signal")}
  BY <1>2, StageAtInverse DEF ForkInv, Growing, Growth, Thread
<1>6. Before(t, s) = {r \in Resources : i <= TakenAt[r] /\ TakenAt[r] < j
                                          /\ TakenAt[r] \in (2 .. 7) \cup (14 .. 17)}
  BY <1>1, <1>2, <1>3, StageAtInverse, BeforeType
<1>7. Given(t, OnFailure[s]) = {r \in Resources : GivenAt[r] >= LabelOf(j)}
                                 \ (IF Thread(t) THEN {"signal"} ELSE {})
  BY <1>3, OnFailureRow, GivenBackIs DEF Given, Thread
<1>8. ASSUME NEW r
      PROVE  r \in task[Child(t)].held \cup Before(t, s)
               <=> r \in Given(t, OnFailure[s]) \ {"seccomp"}
  <2>1. TakenAt["signal"] = 11 /\ TakenAt["seccomp"] = 0
    BY DEF TakenAt
  <2>2. r \in task[Child(t)].held \cup Before(t, s) <=>
          r \in Resources \ {"seccomp"} /\ TakenAt[r] < j /\ ~(Thread(t) /\ r = "signal")
    BY <1>4, <1>5, <1>6, <2>1, GivenAtNat
  <2> QED  BY <1>7, <2>2, TakenAreGiven
<1> QED  BY <1>8

\* Whatever stage of copy_process fails, the labels its failure jumps to give
\* back all that the child has taken by then and nothing else: for any number of
\* tasks in copy_process at the same time and any flags.
THEOREM LabelsUndo == Spec => []UnwindsExactly
<1>1. Typed /\ ForkInv => UnwindsExactly
  BY UnwindsIfGrowing
<1> QED  BY <1>1, ForkAlways, PTL

-----------------------------------------------------------------------------
(* Signals and limits.                                                     *)

LEMMA SurvivorStep ==
  ASSUME Typed, ForkInv, NoSurvivor, [Next]_vars
  PROVE  NoSurvivor'
<1>1. CASE KillGroup
  BY <1>1, KillEffect DEF KillDone, Same, NoSurvivor, Running
<1>2. ASSUME UNCHANGED killed,
             \A t \in Tasks : task'[t].state = "running" =>
               \/ task[t].state = "running" /\ task'[t].pending = task[t].pending
               \/ ~killed
      PROVE  NoSurvivor'
  BY <1>2 DEF NoSurvivor, Running
<1>3. ASSUME NEW p \in Tasks, NEW x, TaskBecomes(p, x), UNCHANGED killed,
             x.state = "running" => \/ Running(p) /\ x.pending = task[p].pending
                                    \/ ~killed
      PROVE  NoSurvivor'
  <2>1. \A u \in Tasks : task'[u] = IF u = p THEN x ELSE task[u]
    BY <1>3, TaskBecomesType
  <2> QED  BY <1>2, <1>3, <2>1 DEF Running
<1>4. ASSUME UNCHANGED <<task, killed>>
      PROVE  NoSurvivor'
  BY <1>4 DEF NoSurvivor, Running
<1>5. ASSUME NEW t \in Tasks, NEW f \in CloneFlagSets, NEW p \in Tasks, Clone(t, f, p)
      PROVE  NoSurvivor'
  <2>1. UNCHANGED killed
    BY <1>5 DEF Clone
  <2>2. PICK x, y : CloneDone(t, f, p, x, y)
    BY <1>5, CloneEffect
  <2>3. TaskBecomes(p, x) /\ x.state = "new"
    BY <2>2 DEF CloneDone
  <2> QED  BY <1>3, <2>1, <2>3
<1>6. ASSUME NEW t \in Tasks, CopySteps(t)
      PROVE  NoSurvivor'
  <2>1. ASSUME NEW k \in Kinds, call[t].at \in Copied, Copy(t, k), UNCHANGED killed
        PROVE  NoSurvivor'
    <3>1. PICK x, y, o : CopyDone(t, k, x, y, o)
      BY <2>1, CopyEffect
    <3>2. t \in Forking
      BY <2>1, PointNames DEF Forking
    <3> QED  BY <1>3, <2>1, <3>1, <3>2, ChildApart DEF CopyDone, Same, Running
  <2>2. {"creds", "files", "fs", "sighand", "signal", "mm", "ns"} \subseteq Copied
        /\ {"user", "files", "fs", "sighand", "signal", "mm", "ns"} \subseteq Kinds
    BY DEF Copied, Kinds
  <2>3. CASE CopyCreds(t)
    BY <2>1, <2>2, <2>3 DEF CopyCreds, At, Ghosts
  <2>4. CASE CopyFiles(t)
    BY <2>1, <2>2, <2>4 DEF CopyFiles, At, Ghosts
  <2>5. CASE CopyFs(t)
    BY <2>1, <2>2, <2>5 DEF CopyFs, At, Ghosts
  <2>6. CASE CopySighand(t)
    BY <2>1, <2>2, <2>6 DEF CopySighand, At, Ghosts
  <2>7. CASE CopyMm(t)
    BY <2>1, <2>2, <2>7 DEF CopyMm, At, Ghosts
  <2>8. CASE CopyNamespaces(t)
    BY <2>1, <2>2, <2>8 DEF CopyNamespaces, At, Ghosts
  <2>9. CASE CopySignal(t)
    BY <1>4, <2>1, <2>2, <2>9 DEF CopySignal, At, Ghosts
  <2>10. CASE Prepare(t)
    <3>1. PICK x, y : PrepareDone(t, x, y)
      BY <2>10, PrepareEffect
    <3>2. t \in Forking /\ UNCHANGED killed
      BY <2>10, <3>1, PointNames DEF Prepare, PrepareDone, Forking, Ghosts
    <3> QED  BY <1>3, <3>1, <3>2, ChildApart DEF PrepareDone, Same, Running
  <2>11. CASE StageFails(t)
    <3>1. PICK label : Unwind(t, label)
      BY <2>11 DEF StageFails
    <3>2. UNCHANGED killed /\ FreeTask.state # "running" /\ Child(t) \in Tasks
      BY <3>1, FreeTaskType, Members DEF Unwind, Ghosts
    <3> QED  BY <1>3, <3>1, <3>2, UnwindEffect
  <2>12. CASE Publish(t)
    <3>1. PICK x : PublishDone(t, x)
      BY <2>12, PublishEffect
    <3>2. t \in Forking /\ UNCHANGED killed /\ ~task[t].pending
      BY <2>12, PointNames DEF Publish, At, Forking, Ghosts, SignalPending
    <3>3. ~killed
      BY <3>2, ChildApart DEF NoSurvivor
    <3> QED  BY <1>3, <3>1, <3>2, <3>3, Members DEF PublishDone
  <2> QED  BY <1>6, <2>3, <2>4, <2>5, <2>6, <2>7, <2>8, <2>9, <2>10, <2>11, <2>12 DEF CopySteps
<1>7. ASSUME NEW t \in Tasks,
             \/ UnshareFiles(t) \/ \E f \in UnshareFlagSets : Unshare(t, f)
             \/ UnshareSyscall(t)
      PROVE  NoSurvivor'
  <2>1. ASSUME NEW x, NEW ks, TakesDone(t, ks, x), UNCHANGED killed
        PROVE  NoSurvivor'
    BY <1>3, <2>1 DEF TakesDone, Same, Running
  <2>2. CASE UnshareFiles(t) \/ \E f \in UnshareFlagSets : Unshare(t, f)
    BY <1>4, <2>2 DEF UnshareFiles, Unshare
  <2>3. CASE PrepareNew(t) \/ PrepareFails(t) \/ PutOld(t)
    BY <1>4, <2>3 DEF PrepareNew, PrepareFails, PutOld, Elsewhere, Ghosts
  <2>4. CASE SwitchTaskNamespaces(t)
    BY <2>1, <2>4, SwitchEffect DEF SwitchDone, SwitchTaskNamespaces, Elsewhere, Ghosts
  <2>5. CASE Install(t)
    BY <2>1, <2>5, InstallEffect DEF InstallDone, Install, Elsewhere, Ghosts
  <2>6. CASE CommitCreds(t)
    BY <2>1, <2>6, CommitEffect DEF CommitDone, CommitCreds, Elsewhere, Ghosts
  <2> QED  BY <1>7, <2>2, <2>3, <2>4, <2>5, <2>6 DEF UnshareSyscall
<1>8. ASSUME NEW t \in Tasks, Exit(t)
      PROVE  NoSurvivor'
  BY <1>3, <1>8, ExitEffect DEF ExitDone, Exit, Ghosts
<1>9. ASSUME NEW t \in Tasks, Release(t)
      PROVE  NoSurvivor'
  BY <1>3, <1>9, ReleaseEffect DEF ReleaseDone, Release, Ghosts
<1>10. ASSUME NEW t \in Tasks, PutTaskStruct(t)
      PROVE  NoSurvivor'
  BY <1>3, <1>10, PutEffect, FreeTaskType DEF PutTaskStruct, Ghosts
<1>11. CASE UNCHANGED vars
  BY <1>4, <1>11 DEF vars
<1> QED  BY <1>1, <1>5, <1>6, <1>7, <1>8, <1>9, <1>10, <1>11 DEF Next

\* A signal that kills the process group leaves no member without it: copy_process
\* asks for pending signals under the lock it is delivered under.
THEOREM NoneSurvives == Spec => []NoSurvivor
<1>1. Init => NoSurvivor
  BY Zenon DEF Init, NoSurvivor
<1>2. (Typed /\ ForkInv) /\ NoSurvivor /\ [Next]_vars => NoSurvivor'
  BY SurvivorStep
<1> QED  BY <1>1, <1>2, ForkAlways, PTL DEF Spec

\* As long as calls have not overlapped there is one at most, and it has checked
\* the limit that its next count comes up to.
Alone ==
  ~overlapped =>
    /\ \A t, u \in Forking : t = u
    /\ nr_threads <= MaxThreads /\ processes <= NprocLimit
    /\ \A t \in Forking :
         /\ call[t].at = "creds" => processes < NprocLimit
         /\ call[t].at \notin {"creds", "limit"} => nr_threads < MaxThreads

LEMMA LimitsType == MaxThreads \in Nat /\ NprocLimit \in Nat /\ MaxThreads >= 2 /\ NprocLimit >= 2
BY LimitsAssumption

\* A step that begins no call and counts no more than the call has checked.
LEMMA AloneKept ==
  ASSUME Typed, Alone, UNCHANGED overlapped, Forking' \subseteq Forking,
         NEW t \in Tasks, \A u \in Tasks \ {t} : call'[u] = call[u],
         nr_threads' \in Int, processes' \in Int,
         nr_threads' <= nr_threads \/ (t \in Forking /\ nr_threads' <= MaxThreads),
         processes' <= processes \/ (t \in Forking /\ processes' <= NprocLimit),
         t \in Forking' =>
           /\ call'[t].at # "creds"
           /\ call'[t].at \notin {"creds", "limit"} => nr_threads' < MaxThreads \/ overlapped
  PROVE  Alone'
<1> SUFFICES ASSUME ~overlapped PROVE Alone'
  BY DEF Alone
<1>1. /\ \A u, v \in Forking : u = v
      /\ nr_threads <= MaxThreads /\ processes <= NprocLimit
      /\ \A u \in Forking :
         /\ call[u].at = "creds" => processes < NprocLimit
         /\ call[u].at \notin {"creds", "limit"} => nr_threads < MaxThreads
  BY DEF Alone
<1>2. nr_threads \in Int /\ processes \in Int /\ MaxThreads \in Int /\ NprocLimit \in Int
  BY LimitsType DEF Typed
<1>3. \A u, v \in Forking' : u = v
  BY <1>1
<1>4. nr_threads' <= MaxThreads /\ processes' <= NprocLimit
  BY <1>1, <1>2
<1>5. ASSUME NEW u \in Forking'
      PROVE  /\ call'[u].at = "creds" => processes' < NprocLimit
             /\ call'[u].at \notin {"creds", "limit"} => nr_threads' < MaxThreads
  <2>1. CASE u = t
    BY <2>1, <1>5
  <2>2. CASE u # t
    <3>1. t \notin Forking /\ u \in Forking
      BY <1>1, <1>5, <2>2
    <3>2. call'[u] = call[u] /\ nr_threads' <= nr_threads /\ processes' <= processes
      BY <2>2, <3>1 DEF Forking
    <3>3. CASE call[u].at = "creds"
      BY <1>1, <1>2, <3>1, <3>2, <3>3
    <3>4. CASE call[u].at # "creds"
      BY <1>1, <1>2, <3>1, <3>2, <3>4
    <3> QED  BY <3>3, <3>4
  <2> QED  BY <2>1, <2>2
<1> QED  BY <1>3, <1>4, <1>5 DEF Alone

LEMMA AloneCopySteps ==
  ASSUME Typed, ForkInv, Alone, NEW t \in Tasks, CopySteps(t)
  PROVE  Alone'
<1>1. nr_threads \in Int /\ processes \in Int /\ MaxThreads \in Int /\ NprocLimit \in Int
  BY LimitsType DEF Typed
<1>2. t \in Forking
  <2>1. call[t].at \in StageNames
    BY StageNamesAre, GainsDomain
       DEF Names, CopySteps, CopyCreds, CopyFiles, CopyFs, CopySighand, CopySignal, CopyMm,
           CopyNamespaces, Prepare, StageFails, Publish, At
  <2> QED  BY <2>1 DEF Forking
<1>3. ASSUME NEW y, CallBecomes(t, y)
      PROVE  /\ \A u \in Tasks \ {t} : call'[u] = call[u]
             /\ Forking' \subseteq Forking
             /\ call'[t] = y
  BY <1>2, <1>3, CallBecomesType DEF Forking
<1>4. ASSUME NEW y, CallBecomes(t, y), y.at \notin {"creds", "limit"},
             call[t].at \notin {"creds", "limit"},
             UNCHANGED <<nr_threads, processes, overlapped>>
      PROVE  Alone'
  <2>1. nr_threads' < MaxThreads \/ overlapped
    BY <1>2, <1>4 DEF Alone
  <2> QED  BY <1>1, <1>3, <1>4, <2>1, AloneKept
<1>5. ASSUME NEW k \in Kinds, call[t].at \in Copied \ {"creds"}, Copy(t, k),
             UNCHANGED <<nr_threads, processes, overlapped>>
      PROVE  Alone'
  <2>1. PICK x, y, o : CopyDone(t, k, x, y, o)
    BY <1>5, CopyEffect
  <2>2. StageAt[y.at] > 2 /\ call[t].at \notin {"creds", "limit"}
    BY <1>5, <2>1, StageNumbers DEF CopyDone, Copied
  <2> QED  BY <1>4, <1>5, <2>1, <2>2, StageNumbers DEF CopyDone
<1>6. {"files", "fs", "sighand", "signal", "mm", "ns"} \subseteq Copied \ {"creds"}
      /\ {"files", "fs", "sighand", "signal", "mm", "ns"} \subseteq Kinds
  BY DEF Copied, Kinds
<1>7. CASE CopyCreds(t)
  <2>1. Copy(t, "user") /\ "user" \in Kinds /\ call[t].at = "creds" /\ "creds" \in Copied
        /\ processes' = processes + 1 /\ UNCHANGED <<nr_threads, overlapped>>
    BY <1>7 DEF CopyCreds, At, Kinds, Copied, Ghosts
  <2>2. PICK x, y, o : CopyDone(t, "user", x, y, o)
    BY <2>1, CopyEffect
  <2>3. y.at = "limit"
    <3>1. y.at \in Names /\ StageAt[y.at] = 2
      BY <2>1, <2>2, StageNumbers DEF CopyDone
    <3> QED  BY <3>1, StageNumbers DEF Names
  <2>4. CallBecomes(t, y)
    BY <2>2 DEF CopyDone
  <2>5. overlapped \/ processes < NprocLimit
    BY <1>2, <2>1 DEF Alone
  <2>6. CASE overlapped
    BY <2>1, <2>6 DEF Alone
  <2>7. CASE processes < NprocLimit
    BY <1>1, <1>2, <1>3, <2>1, <2>3, <2>4, <2>7, AloneKept
  <2> QED  BY <2>5, <2>6, <2>7
<1>8. CASE Prepare(t)
  <2>1. PICK x, y : PrepareDone(t, x, y)
    BY <1>8, PrepareEffect
  <2>2. CallBecomes(t, y) /\ y.at \notin {"creds", "limit"}
        /\ UNCHANGED <<nr_threads, processes, overlapped>>
    BY <1>8, <2>1 DEF PrepareDone, Prepare, Ghosts
  <2>3. nr_threads < MaxThreads \/ overlapped
    <3>1. CASE call[t].at = "limit"
      BY <1>1, <1>8, <3>1 DEF Prepare, At, LimitReached
    <3>2. CASE call[t].at = "io"
      BY <1>2, <3>2 DEF Alone
    <3> QED  BY <2>1, <3>1, <3>2 DEF PrepareDone
  <2> QED  BY <1>1, <1>3, <2>2, <2>3, AloneKept
<1>9. CASE CopyFiles(t)
  BY <1>5, <1>6, <1>9 DEF CopyFiles, At, Ghosts
<1>10. CASE CopyFs(t)
  BY <1>5, <1>6, <1>10 DEF CopyFs, At, Ghosts
<1>11. CASE CopySighand(t)
  BY <1>5, <1>6, <1>11 DEF CopySighand, At, Ghosts
<1>12. CASE CopySignal(t)
  <2>1. UNCHANGED <<nr_threads, processes, overlapped>> /\ call[t].at = "signal"
        /\ "signal" \in Copied
    BY <1>12, <1>6 DEF CopySignal, At, Ghosts
  <2>2. CASE Thread(t)
    <3>1. Done(t)
      BY <1>12, <2>2 DEF CopySignal, Thread
    <3>2. PICK y : CallBecomes(t, y) /\ StageAt[y.at] = StageAt[call[t].at] + 1
      BY <2>1, <3>1, DoneEffect
    <3>3. y.at \notin {"creds", "limit"}
      BY <2>1, <3>2, StageNumbers
    <3> QED  BY <1>4, <2>1, <3>2, <3>3
  <2>3. CASE ~Thread(t)
    BY <1>5, <1>6, <1>12, <2>1, <2>3 DEF CopySignal, Thread
  <2> QED  BY <2>2, <2>3
<1>13. CASE CopyMm(t)
  BY <1>5, <1>6, <1>13 DEF CopyMm, At, Ghosts
<1>14. CASE CopyNamespaces(t)
  BY <1>5, <1>6, <1>14 DEF CopyNamespaces, At, Ghosts
<1>15. CASE StageFails(t)
  <2>1. PICK label : Unwind(t, label)
    BY <1>15 DEF StageFails
  <2>2. /\ processes' \in {processes, processes - 1} /\ UNCHANGED <<nr_threads, overlapped>>
    BY <2>1 DEF Unwind, Ghosts
  <2> QED  BY <1>1, <1>3, <2>1, <2>2, UnwindEffect, InUserModeType, PointNames, AloneKept
           DEF Forking
<1>16. CASE Publish(t)
  <2>1. CallBecomes(t, InUserMode)
    BY <1>16, PublishEffect DEF PublishDone
  <2>2. call[t].at = "publish" /\ nr_threads' = nr_threads + 1
        /\ UNCHANGED <<processes, overlapped>>
    BY <1>16 DEF Publish, At, Ghosts
  <2>3. nr_threads < MaxThreads \/ overlapped
    BY <1>2, <2>2 DEF Alone
  <2>4. t \notin Forking'
    BY <1>3, <2>1, InUserModeType, PointNames DEF Forking
  <2>5. CASE overlapped
    BY <2>2, <2>5 DEF Alone
  <2>6. CASE nr_threads < MaxThreads
    BY <1>1, <1>2, <1>3, <2>1, <2>2, <2>4, <2>6, AloneKept
  <2> QED  BY <2>3, <2>5, <2>6
<1> QED  BY <1>7, <1>8, <1>9, <1>10, <1>11, <1>12, <1>13, <1>14, <1>15, <1>16 DEF CopySteps

LEMMA AloneStep ==
  ASSUME Typed, ForkInv, Alone, [Next]_vars
  PROVE  Alone'
<1>1. nr_threads \in Int /\ processes \in Int /\ MaxThreads \in Int /\ NprocLimit \in Int
  BY LimitsType DEF Typed
<1>2. ASSUME UNCHANGED <<call, overlapped>>, nr_threads' \in {nr_threads, nr_threads - 1},
             processes' \in {processes, processes - 1}
      PROVE  Alone'
  <2>1. Forking' = Forking
    BY <1>2 DEF Forking
  <2>2. nr_threads' <= nr_threads /\ processes' <= processes
    BY <1>1, <1>2
  <2> SUFFICES ASSUME ~overlapped PROVE Alone'
    BY <1>2 DEF Alone
  <2>3. nr_threads' <= MaxThreads /\ processes' <= NprocLimit
    BY <1>1, <1>2, <2>2 DEF Alone
  <2>4. \A t \in Forking : /\ call[t].at = "creds" => processes' < NprocLimit
                           /\ call[t].at \notin {"creds", "limit"} => nr_threads' < MaxThreads
    BY <1>1, <1>2, <2>2 DEF Alone
  <2>5. \A t, u \in Forking : t = u
    BY DEF Alone
  <2> QED  BY <1>2, <2>1, <2>3, <2>4, <2>5 DEF Alone
<1>3. CASE KillGroup
  BY <1>2, <1>3 DEF KillGroup
<1>4. ASSUME NEW t \in Tasks, NEW f \in CloneFlagSets, NEW p \in Tasks, Clone(t, f, p)
      PROVE  Alone'
  <2>1. PICK x, y : CloneDone(t, f, p, x, y)
    BY <1>4, CloneEffect
  <2>2. \A u \in Tasks : call'[u] = IF u = t THEN y ELSE call[u]
    BY <2>1, CallBecomesType DEF CloneDone
  <2>3. overlapped' = (overlapped \/ Forking # {}) /\ UNCHANGED <<nr_threads, processes>>
        /\ processes < NprocLimit
    BY <1>4 DEF Clone, MayHaveAnother
  <2>4. CASE overlapped'
    BY <2>4 DEF Alone
  <2>5. CASE ~overlapped'
    <3>1. Forking = {} /\ ~overlapped
      BY <2>3, <2>5
    <3>2. Forking' \subseteq {t} /\ call'[t].at = "creds"
      BY <2>1, <2>2, <3>1 DEF Forking, CloneDone
    <3>3. nr_threads <= MaxThreads /\ processes <= NprocLimit
      BY <3>1 DEF Alone
    <3> QED  BY <2>3, <3>2, <3>3 DEF Alone
  <2> QED  BY <2>4, <2>5
<1>5. ASSUME NEW t \in Tasks,
             \/ UnshareFiles(t) \/ \E f \in UnshareFlagSets : Unshare(t, f)
             \/ UnshareSyscall(t)
      PROVE  Alone'
  <2>1. ASSUME NEW y, CallBecomes(t, y), y.at \in {"user"} \cup UnshareSteps
        PROVE  t \notin Forking' /\ Forking' \subseteq Forking
               /\ \A u \in Tasks \ {t} : call'[u] = call[u]
    BY <2>1, CallBecomesType, PointNames DEF Forking
  <2>2. "prepare" \in UnshareSteps /\ "switch" \in UnshareSteps /\ "install" \in UnshareSteps
        /\ "commit" \in UnshareSteps /\ "put" \in UnshareSteps
    BY DEF UnshareSteps
  <2>3. UNCHANGED <<nr_threads, processes, overlapped>>
    BY <1>5 DEF UnshareFiles, Unshare, UnshareSyscall, PrepareNew, PrepareFails,
                SwitchTaskNamespaces, Install, CommitCreds, PutOld, Elsewhere, Ghosts
  <2>4. ASSUME NEW y, CallBecomes(t, y), y.at \in {"user"} \cup UnshareSteps
        PROVE  Alone'
    BY <1>1, <2>1, <2>3, <2>4, AloneKept
  <2>5. CASE UnshareFiles(t)
    BY <2>2, <2>4, <2>5, UnshareFilesEffect DEF StepsOnward
  <2>6. CASE \E f \in UnshareFlagSets : Unshare(t, f)
    BY <2>2, <2>4, <2>6, UnshareEffect DEF StepsOnward
  <2>7. CASE PrepareNew(t)
    BY <2>2, <2>4, <2>7, PrepareNewEffect, InUserModeType DEF StepsOnward
  <2>8. CASE PrepareFails(t) \/ PutOld(t)
    BY <2>4, <2>8, ReturnEffect, InUserModeType
  <2>9. CASE SwitchTaskNamespaces(t)
    BY <2>2, <2>4, <2>9, SwitchEffect DEF SwitchDone, StepsOnward
  <2>10. CASE Install(t)
    BY <2>2, <2>4, <2>10, InstallEffect DEF InstallDone, StepsOnward
  <2>11. CASE CommitCreds(t)
    BY <2>2, <2>4, <2>11, CommitEffect DEF CommitDone, StepsOnward
  <2> QED  BY <1>5, <2>5, <2>6, <2>7, <2>8, <2>9, <2>10, <2>11 DEF UnshareSyscall
<1>6. ASSUME NEW t \in Tasks, Exit(t) \/ Release(t) \/ PutTaskStruct(t)
      PROVE  Alone'
  <2>1. nr_threads' \in {nr_threads, nr_threads - 1} /\ processes' \in {processes, processes - 1}
        /\ UNCHANGED <<call, overlapped>>
    BY <1>6 DEF Exit, Release, PutTaskStruct, Ghosts
  <2> QED  BY <1>2, <2>1
<1>7. CASE UNCHANGED vars
  BY <1>2, <1>7 DEF vars
<1> QED  BY <1>3, <1>4, <1>5, <1>6, <1>7, AloneCopySteps DEF Next

\* The limits on threads and on a user's processes, each checked some stages before
\* the child is counted, hold as long as no two calls have overlapped.
THEOREM LimitsHold == Spec => []LimitsUnlessOverlapped
<1>1. Init => Alone
  <2> SUFFICES ASSUME Init PROVE Alone
    OBVIOUS
  <2>1. \A t \in Tasks : call[t].at = "user"
    BY InUserModeType DEF Init
  <2>2. Forking = {}
    BY <2>1, PointNames DEF Forking
  <2>3. nr_threads = 2 /\ processes = 2
    BY Zenon DEF Init
  <2> QED  BY <2>2, <2>3, LimitsType DEF Alone
<1>2. (Typed /\ ForkInv) /\ Alone /\ [Next]_vars => Alone'
  BY AloneStep
<1>3. Alone => LimitsUnlessOverlapped
  BY DEF Alone, LimitsUnlessOverlapped
<1> QED  BY <1>1, <1>2, <1>3, ForkAlways, PTL DEF Spec

-----------------------------------------------------------------------------
(***************************************************************************)
(* The counts are exact.  A step changes one task, p, to x, and one call,  *)
(* that of t, to y; what it adds to a count is what x and y have of the    *)
(* object and p and t had not.                                             *)
(***************************************************************************)

Bit(b) == IF b THEN 1 ELSE 0

\* x has, y prepares, x is in the group of object o.
HasObj(x, k, o)  == k \in x.held /\ x.ptr[k] = o
PrepObj(y, k, o) == y.new[k] = o /\ ~(k = "fs" /\ y.at \in {"commit", "put"})
InGrp(x, o, states) == HasObj(x, "signal", o) /\ x.state \in states

Threads == {"new", "running", "zombie"}
Living  == {"new", "running"}
Public  == {"running", "zombie"}
Process(x) == "user" \in x.held /\ x.state # "dead"

\* What a task holds in each of its states, and that it is there.
TaskShape(x) ==
  /\ x.state = "free" => x.held = {}
  /\ x.state = "new" => x.ptr["seccomp"] = NoObject /\ "seccomp" \notin x.held
  /\ x.state = "running" => Kinds \subseteq x.held
  /\ x.state = "zombie" => x.held \cap Kinds = {"user", "sighand", "signal", "seccomp"}
  /\ x.state = "dead" => x.held \cap Kinds = {"user", "signal", "seccomp"}
  /\ \A k \in Kinds : k \in x.held => x.ptr[k] # NoObject

\* What a call has prepared in each of its points.
CallShape(y) ==
  /\ y.at \notin {"switch", "install", "commit", "put"} => y.new = NoPointers
  /\ \A k \in Kinds : y.new[k] # NoObject =>
       /\ k \in {"fs", "files", "user", "ns"}
       /\ k = "ns" => y.at = "switch"
       /\ k = "user" => y.at # "put"

Shape == \A t \in Tasks : TaskShape(task[t]) /\ CallShape(call[t])

RefsExact ==
  \A k \in Kinds, o \in Objects :
    refs[k][o] = Cardinality(Holders(k, o)) + Cardinality(Preparing(k, o))
GroupExact ==
  \A o \in Objects :
    /\ group[o].nr_threads = Cardinality(InGroup(o, Threads))
    /\ group[o].live = Cardinality(InGroup(o, Living))
NumbersExact ==
  /\ nr_threads = Cardinality({t \in Tasks : task[t].state \in Public})
  /\ processes = Cardinality({t \in Tasks : Process(task[t])})

\* The child of t has its parent's object of a kind it shares, and of another kind one that
\* nobody else has.
OwnFor(t) ==
  \A k \in Kinds \ {"seccomp"} :
    IF Shares(k, call[t].flags) THEN task[Child(t)].ptr[k] = task[t].ptr[k]
    ELSE k \in task[Child(t)].held =>
           \A o \in Objects : o = task[Child(t)].ptr[k] =>
             /\ \A u \in Tasks : HasObj(task[u], k, o) => u = Child(t)
             /\ \A u \in Tasks : ~PrepObj(call[u], k, o)
OwnInv == \A t \in Forking : OwnFor(t)

CountInv == Shape /\ RefsExact /\ GroupExact /\ NumbersExact /\ OwnInv

LEMMA BitType == \A b \in BOOLEAN : Bit(b) \in {0, 1}
BY DEF Bit

LEMMA SubsetsFinite ==
  ASSUME NEW S \in SUBSET Tasks
  PROVE  IsFiniteSet(S) /\ Cardinality(S) \in Nat
<1>1. IsFiniteSet(S)
  BY TasksAssumption, FS_Subset
<1> QED  BY <1>1, FS_CardinalityType

\* Two sets that differ in p only.
LEMMA CardChange ==
  ASSUME NEW S \in SUBSET Tasks, NEW T \in SUBSET Tasks, NEW p, S \ {p} = T \ {p}
  PROVE  Cardinality(T) = Cardinality(S) + Bit(p \in T) - Bit(p \in S)
<1>1. \A U \in SUBSET Tasks : IsFiniteSet(U) /\ Cardinality(U) \in Nat
  BY SubsetsFinite
<1>2. \A U \in SUBSET Tasks :
        Cardinality(U \ {p}) = IF p \in U THEN Cardinality(U) - 1 ELSE Cardinality(U)
  BY <1>1, FS_RemoveElement
<1>3. Cardinality(S \ {p}) = Cardinality(T \ {p})
  OBVIOUS
<1>4. Cardinality(S) \in Nat /\ Cardinality(T) \in Nat
  BY <1>1
<1> QED  BY <1>2, <1>3, <1>4 DEF Bit

LEMMA EmptyCard ==
  ASSUME NEW S \in SUBSET Tasks
  PROVE  /\ Cardinality(S) = 0 <=> S = {}
         /\ \A p \in S : Cardinality(S) = 1 <=> S = {p}
<1>1. Cardinality(S) = 0 <=> S = {}
  BY SubsetsFinite, FS_EmptySet
<1>2. ASSUME NEW p \in S PROVE Cardinality(S) = 1 <=> S = {p}
  <2>1. Cardinality(S \ {p}) = Cardinality(S) - 1
    BY SubsetsFinite, FS_RemoveElement
  <2>2. Cardinality(S \ {p}) = 0 <=> S \ {p} = {}
    BY SubsetsFinite, FS_EmptySet
  <2>3. Cardinality(S) \in Nat
    BY SubsetsFinite
  <2> QED  BY <2>1, <2>2, <2>3
<1> QED  BY <1>1, <1>2

LEMMA HoldersAre ==
  /\ \A k, o : Holders(k, o) = {t \in Tasks : HasObj(task[t], k, o)}
  /\ \A k, o : Preparing(k, o) = {t \in Tasks : PrepObj(call[t], k, o)}
  /\ \A o, s : InGroup(o, s) = {t \in Tasks : InGrp(task[t], o, s)}
BY DEF Holders, Preparing, InGroup, HasObj, PrepObj, InGrp

\* The set of tasks with a certain record, when task p becomes x.
Moves(p, x, t, y) == TaskBecomes(p, x) /\ t \in Tasks /\ CallBecomes(t, y)

LEMMA MovesTo ==
  ASSUME Typed, NEW p, NEW x, NEW t, NEW y, Moves(p, x, t, y)
  PROVE  /\ p \in Tasks /\ t \in Tasks
         /\ \A u \in Tasks : task'[u] = IF u = p THEN x ELSE task[u]
         /\ \A u \in Tasks : call'[u] = IF u = t THEN y ELSE call[u]
         /\ task'[p] = x /\ call'[t] = y
BY TaskBecomesType, CallBecomesType DEF Moves, TaskBecomes

\* What the counts change by is what the step gives and takes.
RefsNet(p, x, t, y) == \A k \in Kinds, o \in Objects :
  refs'[k][o] = refs[k][o] + Bit(HasObj(x, k, o)) - Bit(HasObj(task[p], k, o))
                           + Bit(PrepObj(y, k, o)) - Bit(PrepObj(call[t], k, o))
GroupNet(p, x) == \A o \in Objects :
  /\ group'[o].nr_threads = group[o].nr_threads
       + Bit(InGrp(x, o, Threads)) - Bit(InGrp(task[p], o, Threads))
  /\ group'[o].live = group[o].live
       + Bit(InGrp(x, o, Living)) - Bit(InGrp(task[p], o, Living))
NumbersNet(p, x) ==
  /\ nr_threads' = nr_threads + Bit(x.state \in Public) - Bit(task[p].state \in Public)
  /\ processes' = processes + Bit(Process(x)) - Bit(Process(task[p]))

LEMMA RefsKept ==
  ASSUME Typed, RefsExact, NEW p, NEW x, NEW t, NEW y, Moves(p, x, t, y),
         RefsNet(p, x, t, y)
  PROVE  RefsExact'
<1> SUFFICES ASSUME NEW k \in Kinds, NEW o \in Objects
             PROVE  refs'[k][o] = Cardinality(Holders(k, o)') + Cardinality(Preparing(k, o)')
  BY DEF RefsExact
<1> DEFINE H == {u \in Tasks : HasObj(task[u], k, o)}
           J == {u \in Tasks : HasObj(task'[u], k, o)}
           P == {u \in Tasks : PrepObj(call[u], k, o)}
           Q == {u \in Tasks : PrepObj(call'[u], k, o)}
<1>1. Holders(k, o) = H /\ Holders(k, o)' = J /\ Preparing(k, o) = P /\ Preparing(k, o)' = Q
  BY HoldersAre DEF Holders, Preparing, HasObj, PrepObj
<1>2. /\ p \in Tasks /\ t \in Tasks
      /\ \A u \in Tasks : task'[u] = IF u = p THEN x ELSE task[u]
      /\ \A u \in Tasks : call'[u] = IF u = t THEN y ELSE call[u]
  BY MovesTo
<1>3. H \ {p} = J \ {p} /\ P \ {t} = Q \ {t}
  BY <1>2
<1>4. /\ p \in J <=> HasObj(x, k, o)
      /\ p \in H <=> HasObj(task[p], k, o)
      /\ t \in Q <=> PrepObj(y, k, o)
      /\ t \in P <=> PrepObj(call[t], k, o)
  BY <1>2
<1>5. H \in SUBSET Tasks /\ J \in SUBSET Tasks /\ P \in SUBSET Tasks /\ Q \in SUBSET Tasks
  OBVIOUS
<1> HIDE DEF H, J, P, Q
<1>6. Cardinality(J) = Cardinality(H) + Bit(p \in J) - Bit(p \in H)
  BY <1>3, <1>5, CardChange
<1>7. Cardinality(Q) = Cardinality(P) + Bit(t \in Q) - Bit(t \in P)
  BY <1>3, <1>5, CardChange
<1>8. Cardinality(H) \in Nat /\ Cardinality(P) \in Nat
  BY <1>5, SubsetsFinite
<1>9. refs[k][o] = Cardinality(H) + Cardinality(P)
  BY <1>1 DEF RefsExact
<1>10. refs'[k][o] = refs[k][o] + Bit(HasObj(x, k, o)) - Bit(HasObj(task[p], k, o))
                                + Bit(PrepObj(y, k, o)) - Bit(PrepObj(call[t], k, o))
  BY DEF RefsNet
<1> QED  BY <1>1, <1>4, <1>6, <1>7, <1>8, <1>9, <1>10 DEF Bit

LEMMA GroupKept ==
  ASSUME Typed, GroupExact, NEW p, NEW x, NEW t, NEW y, Moves(p, x, t, y), GroupNet(p, x)
  PROVE  GroupExact'
<1> SUFFICES ASSUME NEW o \in Objects
             PROVE  /\ group'[o].nr_threads = Cardinality(InGroup(o, Threads)')
                    /\ group'[o].live = Cardinality(InGroup(o, Living)')
  BY DEF GroupExact
<1>1. /\ p \in Tasks
      /\ \A u \in Tasks : task'[u] = IF u = p THEN x ELSE task[u]
  BY MovesTo
<1>2. ASSUME NEW s
      PROVE  /\ Cardinality(InGroup(o, s)') = Cardinality(InGroup(o, s))
                   + Bit(InGrp(x, o, s)) - Bit(InGrp(task[p], o, s))
             /\ Cardinality(InGroup(o, s)) \in Nat
  <2> DEFINE H == {u \in Tasks : InGrp(task[u], o, s)}
             J == {u \in Tasks : InGrp(task'[u], o, s)}
  <2>1. InGroup(o, s) = H /\ InGroup(o, s)' = J
    BY HoldersAre DEF InGroup, Holders, InGrp, HasObj
  <2>2. H \ {p} = J \ {p}
    BY <1>1
  <2>3. (p \in J <=> InGrp(x, o, s)) /\ (p \in H <=> InGrp(task[p], o, s))
    BY <1>1
  <2>4. H \in SUBSET Tasks /\ J \in SUBSET Tasks
    OBVIOUS
  <2> HIDE DEF H, J
  <2>5. Cardinality(J) = Cardinality(H) + Bit(p \in J) - Bit(p \in H)
    BY <2>2, <2>4, CardChange
  <2> QED  BY <2>1, <2>3, <2>4, <2>5, SubsetsFinite DEF Bit
<1>3. /\ group[o].nr_threads = Cardinality(InGroup(o, Threads))
      /\ group[o].live = Cardinality(InGroup(o, Living))
  BY DEF GroupExact
<1> QED  BY <1>2, <1>3 DEF Bit, GroupNet

LEMMA NumbersKept ==
  ASSUME Typed, NumbersExact, NEW p, NEW x, NEW t, NEW y, Moves(p, x, t, y),
         NumbersNet(p, x)
  PROVE  NumbersExact'
<1>1. /\ p \in Tasks
      /\ \A u \in Tasks : task'[u] = IF u = p THEN x ELSE task[u]
  BY MovesTo
<1>2. nr_threads' = Cardinality({u \in Tasks : task'[u].state \in Public})
  <2> DEFINE H == {u \in Tasks : task[u].state \in Public}
             J == {u \in Tasks : task'[u].state \in Public}
  <2>1. H \ {p} = J \ {p}
    BY <1>1
  <2>2. (p \in J <=> x.state \in Public) /\ (p \in H <=> task[p].state \in Public)
    BY <1>1
  <2>3. H \in SUBSET Tasks /\ J \in SUBSET Tasks
    OBVIOUS
  <2>4. nr_threads = Cardinality(H)
    BY DEF NumbersExact
  <2> HIDE DEF H, J
  <2>5. Cardinality(J) = Cardinality(H) + Bit(p \in J) - Bit(p \in H)
    BY <2>1, <2>3, CardChange
  <2>6. nr_threads' = Cardinality(J)
    BY <2>2, <2>4, <2>5, <2>3, SubsetsFinite DEF Bit, NumbersNet
  <2> QED  BY <2>6 DEF J
<1>3. processes' = Cardinality({u \in Tasks : Process(task'[u])})
  <2> DEFINE H == {u \in Tasks : Process(task[u])}
             J == {u \in Tasks : Process(task'[u])}
  <2>1. H \ {p} = J \ {p}
    BY <1>1
  <2>2. (p \in J <=> Process(x)) /\ (p \in H <=> Process(task[p]))
    BY <1>1
  <2>3. H \in SUBSET Tasks /\ J \in SUBSET Tasks
    OBVIOUS
  <2>4. processes = Cardinality(H)
    BY DEF NumbersExact
  <2> HIDE DEF H, J
  <2>5. Cardinality(J) = Cardinality(H) + Bit(p \in J) - Bit(p \in H)
    BY <2>1, <2>3, CardChange
  <2>6. processes' = Cardinality(J)
    BY <2>2, <2>4, <2>5, <2>3, SubsetsFinite DEF Bit, NumbersNet
  <2> QED  BY <2>6 DEF J
<1> QED  BY <1>2, <1>3 DEF NumbersExact, Process

\* Where a step of t may take an object from: t itself, which runs, its call, or it is new.
Legit(t, k, o) ==
  \/ Running(t) /\ HasObj(task[t], k, o)
  \/ PrepObj(call[t], k, o)
  \/ o \in Free(k)

LEMMA FreeIsUnheld ==
  ASSUME RefsExact, NEW k \in Kinds, NEW o \in Free(k)
  PROVE  \A u \in Tasks : ~HasObj(task[u], k, o) /\ ~PrepObj(call[u], k, o)
<1>1. o \in Objects /\ refs[k][o] = 0
  BY DEF Free
<1>2. Holders(k, o) \in SUBSET Tasks /\ Preparing(k, o) \in SUBSET Tasks
  BY HoldersAre
<1>3. Cardinality(Holders(k, o)) \in Nat /\ Cardinality(Preparing(k, o)) \in Nat
  BY <1>2, SubsetsFinite
<1>4. Cardinality(Holders(k, o)) = 0 /\ Cardinality(Preparing(k, o)) = 0
  BY <1>1, <1>3 DEF RefsExact
<1>5. Holders(k, o) = {} /\ Preparing(k, o) = {}
  BY <1>2, <1>4, EmptyCard
<1> QED  BY <1>5, HoldersAre

-----------------------------------------------------------------------------
(* What a step that changes one task and one call has to show.             *)

\* What somebody has after a step of t that he had not before comes from there, and the
\* step leaves the calls of the others and those that run alone.
Sources(t) ==
  /\ \A k \in Kinds, o \in Objects : \A u \in Tasks :
       /\ HasObj(task'[u], k, o) => HasObj(task[u], k, o) \/ Legit(t, k, o)
       /\ PrepObj(call'[u], k, o) => PrepObj(call[u], k, o) \/ Legit(t, k, o)
       /\ k = "signal" /\ InGrp(task'[u], o, Threads) =>
            InGrp(task[u], o, Threads) \/ Legit(t, "signal", o)
  /\ \A u \in Tasks \ {t} : call'[u] = call[u] /\ (Running(u) => task'[u] = task[u])

\* The same of x and y.
LegitMove(p, x, t, y) == \A k \in Kinds, o \in Objects :
  /\ HasObj(x, k, o) => HasObj(task[p], k, o) \/ Legit(t, k, o)
  /\ PrepObj(y, k, o) => PrepObj(call[t], k, o) \/ Legit(t, k, o)

LEMMA OwnKept ==
  ASSUME Typed, ForkInv, RefsExact, OwnInv, NEW p, NEW x, NEW t, NEW y, Moves(p, x, t, y),
         LegitMove(p, x, t, y), NEW u \in Forking, u # t, u # p, Child(u) # p
  PROVE  OwnFor(u)'
<1>1. /\ \A v \in Tasks : task'[v] = IF v = p THEN x ELSE task[v]
      /\ \A v \in Tasks : call'[v] = IF v = t THEN y ELSE call[v]
      /\ p \in Tasks /\ t \in Tasks
  BY MovesTo
<1>2. /\ u \in Tasks /\ Child(u) \in Tasks /\ ~Running(Child(u))
  BY ChildApart
<1>3. call'[u] = call[u] /\ task'[u] = task[u] /\ Child(u)' = Child(u)
      /\ task'[Child(u)] = task[Child(u)]
  BY <1>1, <1>2 DEF Child
<1> DEFINE c == call[u].child
<1>4. c \in Tasks /\ ~Running(c) /\ c # p /\ task'[c] = task[c] /\ call'[u].child = c
  BY <1>2, <1>3 DEF Child
<1> SUFFICES ASSUME NEW k \in Kinds \ {"seccomp"}
             PROVE  IF Shares(k, call[u].flags) THEN task[c].ptr[k] = task[u].ptr[k]
                    ELSE k \in task[c].held =>
                           \A o \in Objects : o = task[c].ptr[k] =>
                             /\ \A v \in Tasks : HasObj(task'[v], k, o) => v = c
                             /\ \A v \in Tasks : ~PrepObj(call'[v], k, o)
  BY <1>3, <1>4 DEF OwnFor, Child, HasObj, PrepObj
<1>5. IF Shares(k, call[u].flags) THEN task[c].ptr[k] = task[u].ptr[k]
      ELSE k \in task[c].held =>
             \A o \in Objects : o = task[c].ptr[k] =>
               /\ \A v \in Tasks : HasObj(task[v], k, o) => v = c
               /\ \A v \in Tasks : ~PrepObj(call[v], k, o)
  BY DEF OwnInv, OwnFor, Child
<1>6. CASE Shares(k, call[u].flags)
  BY <1>5, <1>6
<1>7. CASE ~Shares(k, call[u].flags)
  <2> SUFFICES ASSUME k \in task[c].held, NEW o \in Objects, o = task[c].ptr[k]
               PROVE  /\ \A v \in Tasks : HasObj(task'[v], k, o) => v = c
                      /\ \A v \in Tasks : ~PrepObj(call'[v], k, o)
    BY <1>7
  <2>1. /\ \A v \in Tasks : HasObj(task[v], k, o) => v = c
        /\ \A v \in Tasks : ~PrepObj(call[v], k, o)
    BY <1>5, <1>7
  <2>2. HasObj(task[c], k, o)
    BY DEF HasObj
  <2>3. ~Legit(t, k, o)
    <3>1. ~(Running(t) /\ HasObj(task[t], k, o))
      BY <1>1, <1>4, <2>1
    <3>2. o \notin Free(k)
      BY <1>4, <2>2, FreeIsUnheld
    <3> QED  BY <1>1, <2>1, <3>1, <3>2 DEF Legit
  <2>4. ~HasObj(x, k, o) /\ ~PrepObj(y, k, o)
    BY <1>1, <1>4, <2>1, <2>3 DEF LegitMove
  <2> QED  BY <1>1, <2>1, <2>4
<1> QED  BY <1>6, <1>7

LEMMA CountKept ==
  ASSUME Typed, ForkInv, CountInv, NEW p, NEW x, NEW t, NEW y, Moves(p, x, t, y),
         TaskShape(x), CallShape(y), RefsNet(p, x, t, y), GroupNet(p, x), NumbersNet(p, x),
         LegitMove(p, x, t, y), p = t \/ ~Running(p),
         task[p].state # "dead" \/ x.state \notin Threads,
         \A u \in Forking \ {t} : Child(u) # p,
         t \in Forking' => OwnFor(t)'
  PROVE  CountInv' /\ Sources(t)
<1>1. /\ \A v \in Tasks : task'[v] = IF v = p THEN x ELSE task[v]
      /\ \A v \in Tasks : call'[v] = IF v = t THEN y ELSE call[v]
  BY MovesTo
<1>2. Shape'
  BY <1>1 DEF CountInv, Shape, TaskShape, CallShape
<1>3. RefsExact' /\ GroupExact' /\ NumbersExact'
  BY RefsKept, GroupKept, NumbersKept DEF CountInv
<1>4. OwnInv'
  <2> SUFFICES ASSUME NEW u \in Forking' PROVE OwnFor(u)'
    BY DEF OwnInv
  <2>1. CASE u = t
    BY <2>1
  <2>2. CASE u # t
    <3>1. u \in Forking
      BY <1>1, <2>2 DEF Forking
    <3>2. u # p /\ Child(u) # p
      BY <2>2, <3>1, ChildApart
    <3> QED  BY <2>2, <3>1, <3>2, OwnKept DEF CountInv
  <2> QED  BY <2>1, <2>2
<1>5. Sources(t)
  <2> SUFFICES ASSUME NEW k \in Kinds, NEW o \in Objects, NEW u \in Tasks
               PROVE  /\ HasObj(task'[u], k, o) => HasObj(task[u], k, o) \/ Legit(t, k, o)
                      /\ PrepObj(call'[u], k, o) => PrepObj(call[u], k, o) \/ Legit(t, k, o)
                      /\ k = "signal" /\ InGrp(task'[u], o, Threads) =>
                           InGrp(task[u], o, Threads) \/ Legit(t, "signal", o)
    BY <1>1 DEF Sources
  <2>1. /\ HasObj(task'[u], k, o) => HasObj(task[u], k, o) \/ Legit(t, k, o)
        /\ PrepObj(call'[u], k, o) => PrepObj(call[u], k, o) \/ Legit(t, k, o)
    BY <1>1 DEF LegitMove
  <2>2. ASSUME HasObj(task[u], k, o), task'[u].state \in Threads
        PROVE  task[u].state \in Threads
    <3>1. task[u].state # "free" /\ task[u].state \in States
      BY <2>2, Members DEF CountInv, Shape, TaskShape, HasObj
    <3>2. task[u].state # "dead"
      BY <1>1, <2>2 DEF Threads
    <3> QED  BY <3>1, <3>2 DEF States, Threads
  <2> QED  BY <2>1, <2>2 DEF InGrp
<1> QED  BY <1>2, <1>3, <1>4, <1>5 DEF CountInv

LEMMA CountedIs ==
  ASSUME Typed, NEW k \in Kinds, NEW o \in Objects
  PROVE  /\ \A up : Counted(up, {}) => refs'[k][o] = refs[k][o] + Bit(<<k, o>> \in up)
         /\ \A down : Counted({}, down) => refs'[k][o] = refs[k][o] - Bit(<<k, o>> \in down)
         /\ refs[k][o] \in Int
<1>1. refs[k][o] \in Int
  BY DEF Typed
<1>2. ASSUME NEW up, Counted(up, {})
      PROVE  refs'[k][o] = refs[k][o] + Bit(<<k, o>> \in up)
  BY <1>1, <1>2 DEF Counted, Bit
<1>3. ASSUME NEW down, Counted({}, down)
      PROVE  refs'[k][o] = refs[k][o] - Bit(<<k, o>> \in down)
  BY <1>1, <1>3 DEF Counted, Bit
<1> QED  BY <1>1, <1>2, <1>3

LEMMA NotObject == NoObject \notin Objects
BY ObjectsAssumption

LEMMA NoPrep ==
  ASSUME NEW y, y.new = NoPointers
  PROVE  \A k \in Kinds, o \in Objects : ~PrepObj(y, k, o)
BY NoPointersType, NotObject DEF PrepObj

LEMMA RunningHas ==
  ASSUME Typed, Shape, NEW t \in Tasks, Running(t)
  PROVE  /\ \A k \in Kinds : k \in task[t].held /\ task[t].ptr[k] \in Objects
         /\ \A k \in Kinds : HasObj(task[t], k, task[t].ptr[k])
         /\ \A k \in Kinds : Legit(t, k, task[t].ptr[k])
<1>1. Kinds \subseteq task[t].held
  BY DEF Shape, TaskShape, Running
<1>2. \A k \in Kinds : task[t].ptr[k] \in Objects
  BY <1>1, Members DEF Shape, TaskShape, Ptr
<1>3. \A k \in Kinds : HasObj(task[t], k, task[t].ptr[k])
  BY <1>1 DEF HasObj
<1> QED  BY <1>1, <1>2, <1>3 DEF Legit

LEMMA NothingNew ==
  ASSUME Shape, NEW t \in Tasks, call[t].at \notin {"switch", "install", "commit", "put"}
  PROVE  call[t].new = NoPointers
BY DEF Shape, CallShape

LEMMA UserCallShape == CallShape(InUserMode)
BY InUserModeType, NoPointersType DEF CallShape

LEMMA FreeTaskShape == TaskShape(FreeTask)
BY FreeTaskType DEF TaskShape

\* Steps that leave the task, or the call, as it is.
LEMMA Stays ==
  ASSUME Typed, NEW t \in Tasks
  PROVE  /\ UNCHANGED task => TaskBecomes(t, task[t])
         /\ UNCHANGED call => CallBecomes(t, call[t])
<1>1. task = [task EXCEPT ![t] = task[t]] /\ call = [call EXCEPT ![t] = call[t]]
  BY DEF Typed
<1> QED  BY <1>1, Members DEF TaskBecomes, CallBecomes

\* A step that does not count.
LEMMA NoChange ==
  ASSUME Typed, NEW p \in Tasks, NEW x,
         \A k \in Kinds : k \in x.held <=> k \in task[p].held,
         x.ptr = task[p].ptr \/ x.held \cap Kinds = {},
         x.state = task[p].state \/ x.held \cap Kinds = {}
  PROVE  /\ \A k \in Kinds : \A o : HasObj(x, k, o) <=> HasObj(task[p], k, o)
         /\ \A o, s : InGrp(x, o, s) <=> InGrp(task[p], o, s)
         /\ Process(x) <=> Process(task[p])
<1>1. "signal" \in Kinds /\ "user" \in Kinds
  BY DEF Kinds
<1> QED  BY <1>1 DEF HasObj, InGrp, Process

LEMMA SameRefs ==
  ASSUME Typed, UNCHANGED refs, NEW p, NEW x, NEW t, NEW y,
         \A k \in Kinds, o \in Objects : HasObj(x, k, o) <=> HasObj(task[p], k, o),
         \A k \in Kinds, o \in Objects : PrepObj(y, k, o) <=> PrepObj(call[t], k, o)
  PROVE  RefsNet(p, x, t, y)
<1> SUFFICES ASSUME NEW k \in Kinds, NEW o \in Objects
             PROVE  refs'[k][o] = refs[k][o] + Bit(HasObj(x, k, o)) - Bit(HasObj(task[p], k, o))
                                + Bit(PrepObj(y, k, o)) - Bit(PrepObj(call[t], k, o))
  BY DEF RefsNet
<1>1. refs'[k][o] = refs[k][o] /\ refs[k][o] \in Int
  BY CountedIs
<1>2. HasObj(x, k, o) <=> HasObj(task[p], k, o)
  OBVIOUS
<1>3. PrepObj(y, k, o) <=> PrepObj(call[t], k, o)
  OBVIOUS
<1> HIDE DEF HasObj, PrepObj
<1> QED  BY <1>1, <1>2, <1>3 DEF Bit

LEMMA SameGroup ==
  ASSUME Typed, UNCHANGED group, NEW p, NEW x,
         \A o, s : InGrp(x, o, s) <=> InGrp(task[p], o, s)
  PROVE  GroupNet(p, x)
<1> SUFFICES ASSUME NEW o \in Objects
             PROVE  /\ group'[o].nr_threads = group[o].nr_threads
                       + Bit(InGrp(x, o, Threads)) - Bit(InGrp(task[p], o, Threads))
                    /\ group'[o].live = group[o].live
                       + Bit(InGrp(x, o, Living)) - Bit(InGrp(task[p], o, Living))
  BY DEF GroupNet
<1>1. group[o].nr_threads \in Int /\ group[o].live \in Int /\ group'[o] = group[o]
  BY GroupMember
<1>2. InGrp(x, o, Threads) <=> InGrp(task[p], o, Threads)
  OBVIOUS
<1>3. InGrp(x, o, Living) <=> InGrp(task[p], o, Living)
  OBVIOUS
<1> QED  BY <1>1, <1>2, <1>3 DEF Bit

-----------------------------------------------------------------------------
(* The steps of copy_process.                                              *)

LEMMA CloneCounts ==
  ASSUME Typed, ForkInv, CountInv, NEW t \in Tasks, NEW f \in CloneFlagSets, NEW p \in Tasks,
         Clone(t, f, p)
  PROVE  CountInv' /\ Sources(t)
<1>1. PICK x, y : CloneDone(t, f, p, x, y)
  BY CloneEffect
<1>2. Running(t) /\ call[t].at = "user" /\ task[p].state = "free" /\ p # t
      /\ UNCHANGED <<refs, group, nr_threads, processes>>
  BY DEF Clone, At, Running
<1>3. Moves(p, x, t, y)
  BY <1>1 DEF CloneDone, Moves
<1>4. task[p].held = {} /\ x.held = {"task"} /\ x.held \cap Kinds = {}
  <2>1. task[p].held = {}
    BY <1>2 DEF CountInv, Shape, TaskShape
  <2> QED  BY <1>1, <2>1 DEF CloneDone, Kinds
<1>5. call[t].new = NoPointers /\ y.new = NoPointers /\ y.at = "creds"
  BY <1>1, <1>2, NothingNew DEF CloneDone, CountInv
<1>6. \A k \in Kinds, o \in Objects :
        ~HasObj(x, k, o) /\ ~HasObj(task[p], k, o) /\ ~PrepObj(y, k, o) /\ ~PrepObj(call[t], k, o)
  BY <1>4, <1>5, NoPrep DEF HasObj
<1>7. TaskShape(x)
  <2>1. x.ptr["seccomp"] = NoObject
    BY <1>1, Members DEF CloneDone, Ptr, Kinds
  <2>2. x.state = "new" /\ "seccomp" \in Kinds
    BY <1>1 DEF CloneDone, Kinds
  <2> QED  BY <1>4, <2>1, <2>2 DEF TaskShape
<1>8. CallShape(y)
  BY <1>5, NoPointersType DEF CallShape
<1>9. RefsNet(p, x, t, y)
  BY <1>2, <1>6, SameRefs
<1>10. GroupNet(p, x)
  <2>1. "signal" \in Kinds
    BY DEF Kinds
  <2>2. \A o, s : ~InGrp(x, o, s) /\ ~InGrp(task[p], o, s)
    BY <1>4, <2>1 DEF InGrp, HasObj
  <2> QED  BY <1>2, <2>2, SameGroup
<1>11. NumbersNet(p, x)
  <2>1. ~Process(x) /\ ~Process(task[p]) /\ x.state \notin Public /\ task[p].state \notin Public
    BY <1>1, <1>2, <1>4 DEF Process, Public, CloneDone
  <2> QED  BY <1>2, <2>1 DEF NumbersNet, Bit, Typed
<1>12. LegitMove(p, x, t, y)
  BY <1>6 DEF LegitMove
<1>13. ~Running(p) /\ \A u \in Forking \ {t} : Child(u) # p
  BY <1>2, ChildApart DEF Running
<1>14. OwnFor(t)'
  <2>1. task'[p] = x /\ task'[t] = task[t] /\ call'[t] = y /\ y.child = p
    BY <1>1, <1>2, <1>3, MovesTo DEF CloneDone
  <2>2. \A k \in Kinds \ {"seccomp"} : x.ptr[k] = task[t].ptr[k] /\ k \notin x.held
    BY <1>1, <1>4, Members DEF CloneDone, Ptr
  <2> QED  BY <2>1, <2>2 DEF OwnFor, Child
<1> QED  BY <1>2, <1>3, <1>7, <1>8, <1>9, <1>10, <1>11, <1>12, <1>13, <1>14, CountKept

\* Which kinds the child holds while its parent is at a stage.
LEMMA GrowthHas ==
  ASSUME Typed, ForkInv, NEW t \in Forking, NEW k \in Kinds
  PROVE  k \in task[Child(t)].held <=>
           k # "seccomp" /\ TakenAt[k] < StageAt[call[t].at] /\ ~(Thread(t) /\ k = "signal")
BY DEF ForkInv, Growing, Growth, Thread, Resources

\* A stage has not been through before.
LEMMA NotYet ==
  ASSUME Typed, ForkInv, NEW t \in Tasks, NEW k, <<call[t].at, k>> \in CopyAt
  PROVE  /\ t \in Forking /\ k \in Kinds \ {"seccomp"} /\ k \notin task[Child(t)].held
         /\ call[t].at \in Copied
<1>1. t \in Forking /\ k \in Kinds \ {"seccomp"} /\ call[t].at \in Copied
  BY PointNames DEF CopyAt, Kinds, Copied, Forking
<1>2. TakenAt[k] = StageAt[call[t].at] /\ TakenAt[k] \in Int
  BY StageNumbers DEF CopyAt, TakenAt
<1> QED  BY <1>1, <1>2, GrowthHas

\* The groups change by the child's joining one of its own, or not at all.
CopiesGroup(t, k, o) ==
  IF k = "signal"
  THEN group' = [group EXCEPT ![o] = [nr_threads |-> 1, live |-> 1]]
  ELSE UNCHANGED group

LEMMA CopyCounts ==
  ASSUME Typed, ForkInv, CountInv, NEW t \in Tasks, NEW k, <<call[t].at, k>> \in CopyAt,
         Copy(t, k), ~(Thread(t) /\ k = "signal"), CopiesGroup(t, k, Fresh("signal")),
         UNCHANGED nr_threads, processes' = processes + (IF k = "user" THEN 1 ELSE 0)
  PROVE  CountInv' /\ Sources(t)
<1>1. t \in Forking /\ k \in Kinds \ {"seccomp"} /\ k \notin task[Child(t)].held
      /\ call[t].at \in Copied
  BY NotYet
<1>2. PICK x, y, o : CopyDone(t, k, x, y, o)
  BY <1>1, CopyEffect
<1>3. PICK p : p = Child(t)
  OBVIOUS
<1>4. p \in Tasks /\ task[p].state = "new" /\ ~Running(p) /\ p # t /\ Running(t)
      /\ \A u \in Forking \ {t} : Child(u) # p
  BY <1>1, <1>3, ChildApart
<1>5. Moves(p, x, t, y)
  BY <1>2, <1>3 DEF CopyDone, Moves
<1>6. /\ x.state = "new" /\ x.held = task[p].held \cup {k}
      /\ x.ptr = [task[p].ptr EXCEPT ![k] = o] /\ task[p].ptr \in Ptr
      /\ Counted({<<k, o>>}, {})
  BY <1>2, <1>3, <1>4, Members DEF CopyDone, Same
<1>7. /\ x.ptr[k] = o /\ \A j \in Kinds \ {k} : x.ptr[j] = task[p].ptr[j]
  BY <1>1, <1>6 DEF Ptr
<1>8. /\ o \in Objects /\ Legit(t, k, o)
      /\ IF Shares(k, call[t].flags) THEN o = task[t].ptr[k] ELSE o = Fresh(k) /\ o \in Free(k)
  <2>1. CASE Shares(k, call[t].flags)
    BY <1>1, <1>2, <1>4, <2>1, RunningHas DEF CopyDone, CountInv
  <2>2. CASE ~Shares(k, call[t].flags)
    BY <1>2, <2>2 DEF CopyDone, Legit
  <2> QED  BY <2>1, <2>2
<1>9. call[t].new = NoPointers /\ y.new = NoPointers
      /\ y.at \notin {"switch", "install", "commit", "put"}
  <2>1. call[t].at \notin {"switch", "install", "commit", "put"}
    BY <1>1 DEF Copied
  <2>2. y.at \notin {"switch", "install", "commit", "put"} /\ y.new = call[t].new
    BY <1>2 DEF CopyDone, Onward, Names
  <2> QED  BY <2>1, <2>2, NothingNew DEF CountInv
<1>10. \A j \in Kinds, q \in Objects : ~PrepObj(y, j, q) /\ ~PrepObj(call[t], j, q)
  BY <1>9, NoPrep
<1>11. \A j \in Kinds : \A q : HasObj(x, j, q) <=> HasObj(task[p], j, q) \/ (j = k /\ q = o)
  BY <1>1, <1>3, <1>6, <1>7 DEF HasObj
<1>12. \A q : ~HasObj(task[p], k, q)
  BY <1>1, <1>3 DEF HasObj
<1>13. TaskShape(x)
  <2>1. TaskShape(task[p])
    BY <1>4 DEF CountInv, Shape
  <2>2. x.ptr["seccomp"] = NoObject /\ "seccomp" \notin x.held
    BY <1>1, <1>4, <1>6, <1>7, <2>1 DEF TaskShape, Kinds
  <2>3. \A j \in Kinds : j \in x.held => x.ptr[j] # NoObject
    BY <1>6, <1>7, <1>8, <2>1, NotObject DEF TaskShape
  <2> QED  BY <1>6, <2>2, <2>3 DEF TaskShape
<1>14. CallShape(y)
  BY <1>9, NoPointersType DEF CallShape
<1>15. RefsNet(p, x, t, y)
  <2> SUFFICES ASSUME NEW j \in Kinds, NEW q \in Objects
               PROVE  refs'[j][q] = refs[j][q] + Bit(HasObj(x, j, q)) - Bit(HasObj(task[p], j, q))
                                  + Bit(PrepObj(y, j, q)) - Bit(PrepObj(call[t], j, q))
    BY DEF RefsNet
  <2>1. refs'[j][q] = refs[j][q] + Bit(<<j, q>> \in {<<k, o>>}) /\ refs[j][q] \in Int
    BY <1>6, CountedIs
  <2>2. <<j, q>> \in {<<k, o>>} <=> j = k /\ q = o
    OBVIOUS
  <2>3. CASE j = k /\ q = o
    BY <1>10, <1>11, <1>12, <2>1, <2>2, <2>3 DEF Bit
  <2>4. CASE ~(j = k /\ q = o)
    BY <1>10, <1>11, <2>1, <2>2, <2>4 DEF Bit
  <2> QED  BY <2>3, <2>4
<1>16. GroupNet(p, x)
  <2>1. CASE k # "signal"
    <3>1. \A q, s : InGrp(x, q, s) <=> InGrp(task[p], q, s)
      BY <1>4, <1>6, <1>11, <2>1 DEF InGrp, Kinds
    <3>2. UNCHANGED group
      BY <2>1 DEF CopiesGroup
    <3> QED  BY <3>1, <3>2, SameGroup
  <2>2. CASE k = "signal"
    <3>1. ~Shares(k, call[t].flags)
      BY <2>2 DEF Shares, Thread
    <3>2. o = Fresh("signal") /\ o \in Free("signal")
      BY <1>8, <2>2, <3>1
    <3>3. group' = [group EXCEPT ![o] = [nr_threads |-> 1, live |-> 1]]
      BY <2>2, <3>2 DEF CopiesGroup
    <3>4. group[o].nr_threads = 0 /\ group[o].live = 0
      <4>1. \A u \in Tasks : ~HasObj(task[u], "signal", o)
        BY <1>1, <2>2, <3>2, FreeIsUnheld DEF CountInv
      <4>2. InGroup(o, Threads) = {} /\ InGroup(o, Living) = {}
        BY <4>1, HoldersAre DEF InGrp
      <4> QED  BY <1>8, <4>2, EmptyCard DEF CountInv, GroupExact
    <3>5. GroupDone(o, 1, 1)
      <4> DEFINE g == [nr_threads |-> 1, live |-> 1]
      <4>1. g \in GroupRecord /\ g.nr_threads = group[o].nr_threads + 1
            /\ g.live = group[o].live + 1
        BY <3>4 DEF GroupRecord
      <4> HIDE DEF g
      <4>2. group' = [group EXCEPT ![o] = g]
        BY <3>3 DEF g
      <4> QED  BY <4>1, <4>2, GroupAdd
    <3>6. \A q : InGrp(x, q, Threads) <=> q = o
      BY <1>6, <1>11, <1>12, <2>2 DEF InGrp, Threads, Kinds
    <3>7. \A q : InGrp(x, q, Living) <=> q = o
      BY <1>6, <1>11, <1>12, <2>2 DEF InGrp, Living, Kinds
    <3>8. \A q, s : ~InGrp(task[p], q, s)
      BY <1>12, <2>2 DEF InGrp
    <3> QED  BY <3>5, <3>6, <3>7, <3>8, GroupMember DEF GroupNet, GroupDone, Bit
  <2> QED  BY <2>1, <2>2
<1>17. NumbersNet(p, x)
  <2>1. x.state \notin Public /\ task[p].state \notin Public
    BY <1>4, <1>6 DEF Public
  <2>2. k = "user" => Process(x) /\ ~Process(task[p])
    BY <1>1, <1>3, <1>6 DEF Process
  <2>3. k # "user" => (Process(x) <=> Process(task[p]))
    BY <1>4, <1>6 DEF Process
  <2> QED  BY <2>1, <2>2, <2>3 DEF NumbersNet, Bit, Typed
<1>18. LegitMove(p, x, t, y)
  BY <1>8, <1>10, <1>11 DEF LegitMove
<1>19. OwnFor(t)'
  <2>1. /\ task'[p] = x /\ task'[t] = task[t] /\ call'[t] = y /\ y.child = p
        /\ y.flags = call[t].flags
        /\ \A u \in Tasks : task'[u] = IF u = p THEN x ELSE task[u]
        /\ \A u \in Tasks : call'[u] = IF u = t THEN y ELSE call[u]
    BY <1>2, <1>3, <1>4, <1>5, MovesTo DEF CopyDone, Onward, Child
  <2> SUFFICES ASSUME NEW j \in Kinds \ {"seccomp"}
               PROVE  IF Shares(j, y.flags) THEN x.ptr[j] = task[t].ptr[j]
                      ELSE j \in x.held => \A q \in Objects : q = x.ptr[j] =>
                             /\ \A u \in Tasks : HasObj(task'[u], j, q) => u = p
                             /\ \A u \in Tasks : ~PrepObj(call'[u], j, q)
    BY <2>1 DEF OwnFor, Child, HasObj, PrepObj
  <2>2. IF Shares(j, call[t].flags) THEN task[p].ptr[j] = task[t].ptr[j]
        ELSE j \in task[p].held => \A q \in Objects : q = task[p].ptr[j] =>
               /\ \A u \in Tasks : HasObj(task[u], j, q) => u = p
               /\ \A u \in Tasks : ~PrepObj(call[u], j, q)
    BY <1>1, <1>3 DEF CountInv, OwnInv, OwnFor
  <2>3. CASE j # k
    BY <1>6, <1>7, <1>10, <2>1, <2>2, <2>3
  <2>4. CASE j = k
    <3>1. CASE Shares(k, call[t].flags)
      BY <1>7, <1>8, <2>1, <2>4, <3>1
    <3>2. CASE ~Shares(k, call[t].flags)
      <4>1. o \in Free(k)
        BY <1>8, <3>2
      <4>2. \A u \in Tasks : ~HasObj(task[u], k, o) /\ ~PrepObj(call[u], k, o)
        BY <1>1, <4>1, FreeIsUnheld DEF CountInv
      <4> QED  BY <1>7, <1>8, <1>10, <2>1, <2>4, <3>2, <4>2
    <3> QED  BY <3>1, <3>2
  <2> QED  BY <2>3, <2>4
<1> QED  BY <1>4, <1>5, <1>13, <1>14, <1>15, <1>16, <1>17, <1>18, <1>19, CountKept

\* A step of copy_process that counts nothing: the child gets nothing that is counted, and
\* the call goes on.
LEMMA QuietCounts ==
  ASSUME Typed, ForkInv, CountInv, NEW t \in Forking, NEW x, NEW y, TaskBecomes(Child(t), x),
         CallBecomes(t, y), Same(x, Child(t), {"state", "ptr", "pending", "leader"}),
         \A k \in Kinds : k \in x.held <=> k \in task[Child(t)].held,
         Onward(y, t, y.at), y.at \in StageNames,
         UNCHANGED <<refs, group, nr_threads, processes>>
  PROVE  CountInv' /\ Sources(t)
<1>1. PICK p : p = Child(t)
  OBVIOUS
<1>2. p \in Tasks /\ task[p].state = "new" /\ ~Running(p) /\ p # t /\ Running(t)
      /\ \A u \in Forking \ {t} : Child(u) # p /\ t \in Tasks
  BY <1>1, ChildApart
<1>3. t \in Tasks /\ Moves(p, x, t, y)
  BY <1>1 DEF Moves, Forking
<1>4. x.state = task[p].state /\ x.ptr = task[p].ptr /\ \A k \in Kinds : k \in x.held <=> k \in task[p].held
  BY <1>1 DEF Same
<1>5. call[t].new = NoPointers /\ y.new = NoPointers
      /\ y.at \notin {"switch", "install", "commit", "put"}
  <2>1. call[t].at \notin {"switch", "install", "commit", "put"}
        /\ y.at \notin {"switch", "install", "commit", "put"}
    BY StageNamesAre DEF Forking, Names
  <2> QED  BY <1>3, <2>1, NothingNew DEF CountInv, Onward
<1>6. \A k \in Kinds, o \in Objects : ~PrepObj(y, k, o) /\ ~PrepObj(call[t], k, o)
  BY <1>5, NoPrep
<1>7. /\ \A k \in Kinds : \A o : HasObj(x, k, o) <=> HasObj(task[p], k, o)
      /\ \A o, s : InGrp(x, o, s) <=> InGrp(task[p], o, s)
      /\ Process(x) <=> Process(task[p])
  BY <1>2, <1>4, NoChange
<1>8. TaskShape(x)
  <2>1. TaskShape(task[p])
    BY <1>2 DEF CountInv, Shape
  <2>2. "seccomp" \in Kinds
    BY DEF Kinds
  <2> QED  BY <1>2, <1>4, <2>1, <2>2 DEF TaskShape
<1>9. CallShape(y)
  BY <1>5, NoPointersType DEF CallShape
<1>10. RefsNet(p, x, t, y)
  BY <1>6, <1>7, SameRefs
<1>11. GroupNet(p, x)
  BY <1>7, SameGroup
<1>12. NumbersNet(p, x)
  BY <1>4, <1>7 DEF NumbersNet, Bit, Typed
<1>13. LegitMove(p, x, t, y)
  BY <1>6, <1>7 DEF LegitMove
<1>14. OwnFor(t)'
  <2>1. /\ task'[p] = x /\ task'[t] = task[t] /\ call'[t] = y /\ y.child = p
        /\ y.flags = call[t].flags
        /\ \A u \in Tasks : task'[u] = IF u = p THEN x ELSE task[u]
        /\ \A u \in Tasks : call'[u] = IF u = t THEN y ELSE call[u]
    BY <1>1, <1>2, <1>3, MovesTo DEF Onward, Child
  <2>2. OwnFor(t)
    BY DEF CountInv, OwnInv
  <2>3. \A k \in Kinds : \A o : \A u \in Tasks : HasObj(task'[u], k, o) <=> HasObj(task[u], k, o)
    BY <1>7, <2>1
  <2>4. \A k \in Kinds, o \in Objects : \A u \in Tasks : PrepObj(call'[u], k, o) => PrepObj(call[u], k, o)
    BY <1>6, <2>1
  <2> SUFFICES ASSUME NEW j \in Kinds \ {"seccomp"}
               PROVE  IF Shares(j, y.flags) THEN x.ptr[j] = task[t].ptr[j]
                      ELSE j \in x.held => \A q \in Objects : q = x.ptr[j] =>
                             /\ \A u \in Tasks : HasObj(task'[u], j, q) => u = p
                             /\ \A u \in Tasks : ~PrepObj(call'[u], j, q)
    BY <2>1 DEF OwnFor, Child, HasObj, PrepObj
  <2> QED  BY <1>1, <1>4, <2>1, <2>2, <2>3, <2>4 DEF OwnFor
<1> QED  BY <1>2, <1>3, <1>8, <1>9, <1>10, <1>11, <1>12, <1>13, <1>14, CountKept

LEMMA OwnIsNotKind ==
  /\ \A r \in Kinds : TakenAt[r] \notin (2 .. 7) \cup (14 .. 17)
  /\ TakenAt["seccomp"] = 0 /\ TakenAt["signal"] = 11 /\ TakenAt["user"] = 1
BY DEF TakenAt, Kinds

LEMMA BeforeIsOwn ==
  ASSUME Typed, NEW t \in Forking, NEW s \in Ahead[call[t].at]
  PROVE  \A k \in Kinds : k \notin Before(t, s)
BY BeforeType, OwnIsNotKind DEF Forking

LEMMA PrepareCounts ==
  ASSUME Typed, ForkInv, CountInv, NEW t \in Tasks, Prepare(t)
  PROVE  CountInv' /\ Sources(t)
<1>1. PICK x, y : PrepareDone(t, x, y)
  BY PrepareEffect
<1>2. t \in Forking
  BY <1>1, PointNames DEF PrepareDone, Forking
<1>3. y.at \in Ahead[call[t].at] /\ y.at \in StageNames
  BY <1>1, <1>2 DEF PrepareDone, Ahead, Forking
<1>4. \A k \in Kinds : k \in x.held <=> k \in task[Child(t)].held
  BY <1>1, <1>2, <1>3, BeforeIsOwn DEF PrepareDone
<1>5. UNCHANGED <<refs, group, nr_threads, processes>>
  BY DEF Prepare
<1> QED  BY <1>1, <1>2, <1>3, <1>4, <1>5, QuietCounts DEF PrepareDone

LEMMA ThreadSignalCounts ==
  ASSUME Typed, ForkInv, CountInv, NEW t \in Tasks, CopySignal(t), Thread(t)
  PROVE  CountInv' /\ Sources(t)
<1>1. call[t].at = "signal" /\ "signal" \in Copied /\ Done(t)
      /\ UNCHANGED <<task, refs, group, nr_threads, processes>>
  BY DEF CopySignal, At, Thread, Copied
<1>2. t \in Forking
  BY <1>1, PointNames DEF Forking
<1>3. PICK y : /\ CallBecomes(t, y) /\ y.at \in Names \cap Points
               /\ StageAt[y.at] = StageAt[call[t].at] + 1 /\ Onward(y, t, y.at)
  BY <1>1, DoneEffect
<1>4. y.at \in StageNames
  BY <1>3, StageNamesAre
<1>5. TaskBecomes(Child(t), task[Child(t)])
  BY <1>1, Members, Stays
<1>6. Same(task[Child(t)], Child(t), {"state", "ptr", "pending", "leader"})
  BY DEF Same
<1> QED  BY <1>1, <1>2, <1>3, <1>4, <1>5, <1>6, QuietCounts

\* What is given back of the child's pointers is what it holds.
GivenKinds(t, label) == {k \in Given(t, label) \cap Kinds : task[Child(t)].ptr[k] # NoObject}

LEMMA GivenHeld ==
  ASSUME Typed, ForkInv, Shape, NEW t \in Forking, NEW s \in Ahead[call[t].at]
  PROVE  /\ GivenKinds(t, OnFailure[s]) = task[Child(t)].held \cap Kinds
         /\ \A k \in Kinds, o \in Objects :
              <<k, o>> \in Pointed(Child(t), GivenKinds(t, OnFailure[s]))
                <=> HasObj(task[Child(t)], k, o)
<1>1. PICK p : p = Child(t)
  OBVIOUS
<1>2. p \in Tasks /\ task[p].state = "new" /\ TaskShape(task[p])
  BY <1>1, ChildApart DEF Shape
<1>3. task[p].held \cup Before(t, s) = Given(t, OnFailure[s]) \ {"seccomp"}
  BY <1>1, UnwindsIfGrowing DEF UnwindsExactly
<1>4. \A k \in Kinds : k \in GivenKinds(t, OnFailure[s]) <=> k \in task[p].held
  <2> SUFFICES ASSUME NEW k \in Kinds
               PROVE  k \in GivenKinds(t, OnFailure[s]) <=> k \in task[p].held
    OBVIOUS
  <2>1. k \in GivenKinds(t, OnFailure[s]) <=>
          k \in Given(t, OnFailure[s]) /\ task[p].ptr[k] # NoObject
    BY <1>1 DEF GivenKinds
  <2>2. CASE k = "seccomp"
    BY <1>2, <2>1, <2>2 DEF TaskShape
  <2>3. CASE k # "seccomp"
    <3>1. k \notin Before(t, s)
      BY BeforeIsOwn
    <3>2. k \in Given(t, OnFailure[s]) <=> k \in task[p].held
      BY <1>3, <2>3, <3>1
    <3>3. k \in task[p].held => task[p].ptr[k] # NoObject
      BY <1>2 DEF TaskShape
    <3> QED  BY <2>1, <3>2, <3>3
  <2> QED  BY <2>2, <2>3
<1>5. GivenKinds(t, OnFailure[s]) = task[p].held \cap Kinds
  BY <1>4 DEF GivenKinds
<1>6. \A k \in Kinds, o \in Objects :
        <<k, o>> \in Pointed(p, GivenKinds(t, OnFailure[s])) <=> HasObj(task[p], k, o)
  <2> SUFFICES ASSUME NEW k \in Kinds, NEW o \in Objects
               PROVE  <<k, o>> \in Pointed(p, GivenKinds(t, OnFailure[s])) <=> HasObj(task[p], k, o)
    OBVIOUS
  <2> QED  BY <1>5 DEF Pointed, HasObj
<1> QED  BY <1>1, <1>5, <1>6

\* A child with a signal_struct of its own is the only one in the group.
LEMMA OnlyChild ==
  ASSUME Typed, ForkInv, CountInv, NEW t \in Forking, "signal" \in task[Child(t)].held
  PROVE  /\ Signal(Child(t)) \in Objects
         /\ group[Signal(Child(t))].nr_threads = 1 /\ group[Signal(Child(t))].live = 1
<1>1. PICK p : p = Child(t)
  OBVIOUS
<1>2. p \in Tasks /\ task[p].state = "new" /\ TaskShape(task[p])
  BY <1>1, ChildApart DEF CountInv, Shape
<1>3. "signal" \in Kinds \ {"seccomp"}
  BY DEF Kinds
<1>4. task[p].ptr["signal"] \in Objects
  BY <1>1, <1>2, <1>3, Members DEF TaskShape, Ptr
<1>5. PICK o \in Objects : o = task[p].ptr["signal"]
  BY <1>4
<1>6. ~Shares("signal", call[t].flags)
  <2>1. ~Thread(t)
    BY <1>3, GrowthHas
  <2> QED  BY <2>1 DEF Shares, Thread
<1>7. \A u \in Tasks : HasObj(task[u], "signal", o) => u = p
  BY <1>1, <1>3, <1>5, <1>6 DEF CountInv, OwnInv, OwnFor
<1>8. HasObj(task[p], "signal", o)
  BY <1>1, <1>5 DEF HasObj
<1>9. InGroup(o, Threads) = {p} /\ InGroup(o, Living) = {p}
  BY <1>2, <1>7, <1>8, HoldersAre DEF InGrp, Threads, Living
<1>10. Cardinality({p}) = 1
  BY <1>2, EmptyCard
<1> QED  BY <1>1, <1>5, <1>9, <1>10 DEF CountInv, GroupExact, Signal

LEMMA UnwindCounts ==
  ASSUME Typed, ForkInv, CountInv, NEW t \in Tasks, StageFails(t)
  PROVE  CountInv' /\ Sources(t)
<1>1. PICK s \in Ahead[call[t].at] : Unwind(t, OnFailure[s])
  BY DEF StageFails
<1>2. t \in Forking
  BY DEF StageFails, Forking
<1>3. PICK p : p = Child(t)
  OBVIOUS
<1>4. p \in Tasks /\ task[p].state = "new" /\ ~Running(p) /\ p # t /\ Running(t)
      /\ \A u \in Forking \ {t} : Child(u) # p
  BY <1>2, <1>3, ChildApart
<1>5. Moves(p, FreeTask, t, InUserMode)
  BY <1>1, <1>3, UnwindEffect DEF Moves
<1> DEFINE given == GivenKinds(t, OnFailure[s])
<1>6. /\ given = task[p].held \cap Kinds
      /\ \A k \in Kinds, o \in Objects : <<k, o>> \in Pointed(p, given) <=> HasObj(task[p], k, o)
  BY <1>2, <1>3, GivenHeld DEF CountInv
<1>7. /\ Counted({}, Pointed(p, given)) /\ UNCHANGED nr_threads
      /\ group' = IF "signal" \in given
              THEN [group EXCEPT ![Signal(p)] = [nr_threads |-> 0, live |-> 0]] ELSE group
      /\ processes' = IF "user" \in given THEN processes - 1 ELSE processes
  BY <1>1, <1>3 DEF Unwind, GivenKinds, Child
<1> HIDE DEF given
<1>8. \A k \in Kinds, o \in Objects : ~PrepObj(InUserMode, k, o) /\ ~PrepObj(call[t], k, o)
  <2>1. call[t].at \notin {"switch", "install", "commit", "put"}
    BY <1>2, StageNamesAre DEF Forking, Names
  <2>2. call[t].new = NoPointers
    BY <2>1, NothingNew DEF CountInv
  <2> QED  BY <2>2, NoPrep, InUserModeType
<1>9. \A k, o : ~HasObj(FreeTask, k, o)
  BY FreeTaskType DEF HasObj
<1>10. RefsNet(p, FreeTask, t, InUserMode)
  <2> SUFFICES ASSUME NEW j \in Kinds, NEW q \in Objects
               PROVE  refs'[j][q] = refs[j][q]
                        + Bit(HasObj(FreeTask, j, q)) - Bit(HasObj(task[p], j, q))
                        + Bit(PrepObj(InUserMode, j, q)) - Bit(PrepObj(call[t], j, q))
    BY DEF RefsNet
  <2>1. refs'[j][q] = refs[j][q] - Bit(<<j, q>> \in Pointed(p, given)) /\ refs[j][q] \in Int
    BY <1>7, CountedIs
  <2>2. <<j, q>> \in Pointed(p, given) <=> HasObj(task[p], j, q)
    BY <1>6
  <2> QED  BY <1>8, <1>9, <2>1, <2>2 DEF Bit
<1>11. GroupNet(p, FreeTask)
  <2>0. "signal" \in Kinds
    BY DEF Kinds
  <2>1. CASE "signal" \notin given
    <3>1. \A o, q : ~InGrp(FreeTask, o, q) /\ ~InGrp(task[p], o, q)
      BY <1>6, <1>9, <2>0, <2>1 DEF InGrp, HasObj
    <3> QED  BY <1>7, <2>1, <3>1, SameGroup
  <2>2. CASE "signal" \in given
    <3>1. "signal" \in task[p].held
      BY <1>6, <2>2
    <3>2. /\ Signal(p) \in Objects
          /\ group[Signal(p)].nr_threads = 1 /\ group[Signal(p)].live = 1
      BY <1>2, <1>3, <3>1, OnlyChild
    <3>3. PICK g \in Objects : g = Signal(p)
      BY <3>2
    <3>4. GroupDone(g, -1, -1)
      <4> DEFINE h == [nr_threads |-> 0, live |-> 0]
      <4>1. h \in GroupRecord /\ h.nr_threads = group[g].nr_threads + -1
            /\ h.live = group[g].live + -1
        BY <3>2, <3>3 DEF GroupRecord
      <4> HIDE DEF h
      <4>2. group' = [group EXCEPT ![g] = h]
        BY <1>7, <2>2, <3>3 DEF h
      <4> QED  BY <4>1, <4>2, GroupAdd
    <3>5. \A o \in Objects : InGrp(task[p], o, Threads) <=> o = g
      BY <1>4, <3>1, <3>3 DEF InGrp, HasObj, Signal, Threads
    <3>6. \A o \in Objects : InGrp(task[p], o, Living) <=> o = g
      BY <1>4, <3>1, <3>3 DEF InGrp, HasObj, Signal, Living
    <3>7. \A o, q : ~InGrp(FreeTask, o, q)
      BY <1>9 DEF InGrp
    <3> QED  BY <3>4, <3>5, <3>6, <3>7, GroupMember DEF GroupNet, GroupDone, Bit
  <2> QED  BY <2>1, <2>2
<1>12. NumbersNet(p, FreeTask)
  <2>1. "user" \in Kinds
    BY DEF Kinds
  <2>2. FreeTask.state \notin Public /\ task[p].state \notin Public /\ ~Process(FreeTask)
    BY <1>4, FreeTaskType DEF Public, Process
  <2>3. Process(task[p]) <=> "user" \in given
    BY <1>4, <1>6, <2>1 DEF Process
  <2>4. nr_threads \in Int /\ processes \in Int
    BY DEF Typed
  <2> QED  BY <1>7, <2>2, <2>3, <2>4 DEF NumbersNet, Bit
<1>13. LegitMove(p, FreeTask, t, InUserMode)
  BY <1>8, <1>9 DEF LegitMove
<1>14. t \notin Forking'
  BY <1>5, MovesTo, InUserModeType, PointNames DEF Forking
<1> QED
  BY <1>4, <1>5, <1>10, <1>11, <1>12, <1>13, <1>14, FreeTaskShape, UserCallShape, CountKept

LEMMA PublishCounts ==
  ASSUME Typed, ForkInv, CountInv, NEW t \in Tasks, Publish(t)
  PROVE  CountInv' /\ Sources(t)
<1>1. PICK x : PublishDone(t, x)
  BY PublishEffect
<1>2. t \in Forking /\ call[t].at = "publish"
  BY PointNames DEF Publish, At, Forking
<1>3. PICK p : p = Child(t)
  OBVIOUS
<1>4. p \in Tasks /\ task[p].state = "new" /\ ~Running(p) /\ p # t /\ Running(t)
      /\ \A u \in Forking \ {t} : Child(u) # p
  BY <1>2, <1>3, ChildApart
<1>5. Moves(p, x, t, InUserMode)
  BY <1>1, <1>3 DEF PublishDone, Moves
<1> DEFINE thread == {k \in {"signal"} : Thread(t)}
           up == Pointed(t, {"seccomp"} \cup thread)
<1>6. /\ Counted(up, {})
      /\ group' = IF Thread(t) THEN [group EXCEPT ![Signal(t)].nr_threads = @ + 1,
                                           ![Signal(t)].live = @ + 1]
                        ELSE group
      /\ nr_threads' = nr_threads + 1 /\ UNCHANGED processes
  <2>1. up = Pointed(t, {"seccomp"}) \cup
             (IF Thread(t) THEN {<<"signal", Signal(t)>>} ELSE {})
    BY DEF Pointed, Signal
  <2> QED  BY <2>1 DEF Publish, Thread
<1>7. \A k \in Kinds : k \in task[p].held <=> k # "seccomp" /\ ~(Thread(t) /\ k = "signal")
  <2>1. StageAt["publish"] = 18 /\ \A k \in Kinds : TakenAt[k] < 18
    BY StageNumbers, GivenAtNat DEF Resources
  <2> QED  BY <1>2, <1>3, <2>1, GrowthHas
<1>8. /\ \A k \in Kinds : task[t].ptr[k] \in Objects /\ k \in task[t].held
      /\ \A k \in Kinds : Legit(t, k, task[t].ptr[k])
  BY <1>4, RunningHas DEF CountInv
<1>9. /\ x.state = "running" /\ x.ptr["seccomp"] = task[t].ptr["seccomp"]
      /\ \A k \in Kinds \ {"seccomp"} : x.ptr[k] = task[p].ptr[k]
      /\ \A k \in Kinds : k \in x.held
  <2>1. "seccomp" \in Kinds /\ task[p].ptr \in Ptr
    BY <1>4, Members DEF Kinds
  <2>2. x.state = "running" /\ x.ptr = [task[p].ptr EXCEPT !["seccomp"] = task[t].ptr["seccomp"]]
        /\ x.held = (task[p].held \cup {"seccomp", "signal"}) \ {"threadgroup", "cgroup"}
    BY <1>1, <1>3 DEF PublishDone
  <2>3. \A k \in Kinds : k \notin {"threadgroup", "cgroup"}
    BY DEF Kinds
  <2> QED  BY <1>7, <2>1, <2>2, <2>3 DEF Ptr
<1>10. Thread(t) => x.ptr["signal"] = task[t].ptr["signal"]
  <2>1. "signal" \in Kinds \ {"seccomp"}
    BY DEF Kinds
  <2>2. Thread(t) => Shares("signal", call[t].flags)
    BY DEF Shares, Thread
  <2> QED  BY <1>2, <1>3, <1>9, <2>1, <2>2 DEF CountInv, OwnInv, OwnFor
<1>11. \A k \in Kinds, o \in Objects :
         /\ HasObj(x, k, o) <=> HasObj(task[p], k, o) \/ <<k, o>> \in up
         /\ ~(HasObj(task[p], k, o) /\ <<k, o>> \in up)
  <2> SUFFICES ASSUME NEW k \in Kinds, NEW o \in Objects
               PROVE  /\ HasObj(x, k, o) <=> HasObj(task[p], k, o) \/ <<k, o>> \in up
                      /\ ~(HasObj(task[p], k, o) /\ <<k, o>> \in up)
    OBVIOUS
  <2>1. <<k, o>> \in up <=> (k = "seccomp" \/ (k = "signal" /\ Thread(t))) /\ o = task[t].ptr[k]
    BY DEF Pointed
  <2>2. CASE k = "seccomp"
    BY <1>7, <1>9, <2>1, <2>2 DEF HasObj
  <2>3. CASE k = "signal" /\ Thread(t)
    BY <1>7, <1>9, <1>10, <2>1, <2>3 DEF HasObj
  <2>4. CASE k # "seccomp" /\ ~(k = "signal" /\ Thread(t))
    BY <1>7, <1>9, <2>1, <2>4 DEF HasObj
  <2> QED  BY <2>2, <2>3, <2>4
<1>12. \A k \in Kinds, o \in Objects : <<k, o>> \in up => o = task[t].ptr[k]
  BY DEF Pointed
<1> HIDE DEF up
<1>13. \A k \in Kinds, o \in Objects : ~PrepObj(InUserMode, k, o) /\ ~PrepObj(call[t], k, o)
  <2>1. call[t].new = NoPointers
    BY <1>2, NothingNew DEF CountInv
  <2> QED  BY <2>1, NoPrep, InUserModeType
<1>14. RefsNet(p, x, t, InUserMode)
  <2> SUFFICES ASSUME NEW j \in Kinds, NEW q \in Objects
               PROVE  refs'[j][q] = refs[j][q]
                        + Bit(HasObj(x, j, q)) - Bit(HasObj(task[p], j, q))
                        + Bit(PrepObj(InUserMode, j, q)) - Bit(PrepObj(call[t], j, q))
    BY DEF RefsNet
  <2>1. refs'[j][q] = refs[j][q] + Bit(<<j, q>> \in up) /\ refs[j][q] \in Int
    BY <1>6, CountedIs
  <2> QED  BY <1>11, <1>13, <2>1 DEF Bit
<1>15. GroupNet(p, x)
  <2>0. "signal" \in Kinds /\ "signal" # "seccomp"
    BY DEF Kinds
  <2>1. CASE ~Thread(t)
    <3>1. HasObj(x, "signal", x.ptr["signal"]) /\ HasObj(task[p], "signal", x.ptr["signal"])
          /\ task[p].ptr["signal"] = x.ptr["signal"]
      BY <1>7, <1>9, <2>0, <2>1 DEF HasObj
    <3>2. \A o : InGrp(x, o, Threads) <=> InGrp(task[p], o, Threads)
      BY <1>4, <1>9, <3>1 DEF InGrp, HasObj, Threads
    <3>3. \A o : InGrp(x, o, Living) <=> InGrp(task[p], o, Living)
      BY <1>4, <1>9, <3>1 DEF InGrp, HasObj, Living
    <3> QED  BY <1>6, <2>1, <3>2, <3>3, GroupMember DEF GroupNet, Bit
  <2>2. CASE Thread(t)
    <3>1. PICK g \in Objects : g = Signal(t)
      BY <1>8, <2>0 DEF Signal
    <3>2. GroupDone(g, 1, 1)
      BY <1>6, <2>2, <3>1, OneMoreThread
    <3>3. \A o : ~HasObj(task[p], "signal", o)
      BY <1>7, <2>0, <2>2 DEF HasObj
    <3>4. \A o : HasObj(x, "signal", o) <=> o = g
      BY <1>9, <1>10, <2>0, <2>2, <3>1 DEF HasObj, Signal
    <3>5. \A o : InGrp(x, o, Threads) <=> o = g
      BY <1>9, <3>4 DEF InGrp, Threads
    <3>6. \A o : InGrp(x, o, Living) <=> o = g
      BY <1>9, <3>4 DEF InGrp, Living
    <3>7. \A o, s : ~InGrp(task[p], o, s)
      BY <3>3 DEF InGrp
    <3> QED  BY <3>2, <3>5, <3>6, <3>7, GroupMember DEF GroupNet, GroupDone, Bit
  <2> QED  BY <2>1, <2>2
<1>16. NumbersNet(p, x)
  <2>1. "user" \in Kinds /\ "user" # "seccomp" /\ "user" # "signal"
    BY DEF Kinds
  <2>2. x.state \in Public /\ task[p].state \notin Public /\ Process(x) /\ Process(task[p])
    BY <1>4, <1>7, <1>9, <2>1 DEF Public, Process
  <2>3. nr_threads \in Int /\ processes \in Int
    BY DEF Typed
  <2> QED  BY <1>6, <2>2, <2>3 DEF NumbersNet, Bit
<1>17. TaskShape(x)
  <2>1. TaskShape(task[p])
    BY <1>4 DEF CountInv, Shape
  <2>2. \A k \in Kinds : x.ptr[k] # NoObject
    BY <1>7, <1>8, <1>9, <1>10, <2>1, NotObject DEF TaskShape
  <2> QED  BY <1>9, <2>2 DEF TaskShape
<1>18. LegitMove(p, x, t, InUserMode)
  BY <1>8, <1>11, <1>12, <1>13 DEF LegitMove
<1>19. t \notin Forking'
  BY <1>5, MovesTo, InUserModeType, PointNames DEF Forking
<1> QED
  BY <1>4, <1>5, <1>14, <1>15, <1>16, <1>17, <1>18, <1>19, UserCallShape, CountKept

-----------------------------------------------------------------------------
(* What happens to a task afterwards.                                      *)

\* A step of t outside copy_process.
LEMMA CountElsewhere ==
  ASSUME Typed, ForkInv, CountInv, NEW t \in Tasks, t \notin Forking, task[t].state # "new",
         NEW x, NEW y, Moves(t, x, t, y), TaskShape(x), CallShape(y), y.at \notin StageNames,
         RefsNet(t, x, t, y), GroupNet(t, x), NumbersNet(t, x), LegitMove(t, x, t, y),
         task[t].state # "dead" \/ x.state \notin Threads
  PROVE  CountInv' /\ Sources(t)
<1>1. \A u \in Forking \ {t} : Child(u) # t
  BY ChildApart
<1>2. t \notin Forking'
  BY MovesTo DEF Forking
<1> QED  BY <1>1, <1>2, CountKept

\* A task drops the objects of kinds ks, and the call stays as it is.
LEMMA DropCounts ==
  ASSUME Typed, NEW t \in Tasks, NEW x, NEW ks \in SUBSET Kinds, Counted({}, Pointed(t, ks)),
         \A k \in ks : k \in task[t].held,
         \A k \in Kinds : k \in x.held <=> k \in task[t].held /\ k \notin ks,
         \A k \in Kinds \ ks : k \in x.held => x.ptr[k] = task[t].ptr[k]
  PROVE  /\ RefsNet(t, x, t, call[t])
         /\ LegitMove(t, x, t, call[t])
<1>1. \A k \in Kinds, o \in Objects :
        HasObj(x, k, o) <=> HasObj(task[t], k, o) /\ k \notin ks
  BY DEF HasObj
<1>2. RefsNet(t, x, t, call[t])
  <2> SUFFICES ASSUME NEW j \in Kinds, NEW q \in Objects
               PROVE  refs'[j][q] = refs[j][q]
                        + Bit(HasObj(x, j, q)) - Bit(HasObj(task[t], j, q))
                        + Bit(PrepObj(call[t], j, q)) - Bit(PrepObj(call[t], j, q))
    BY DEF RefsNet
  <2>1. refs'[j][q] = refs[j][q] - Bit(<<j, q>> \in Pointed(t, ks)) /\ refs[j][q] \in Int
    BY CountedIs
  <2>2. <<j, q>> \in Pointed(t, ks) <=> j \in ks /\ HasObj(task[t], j, q)
    BY DEF Pointed, HasObj
  <2>3. HasObj(x, j, q) <=> HasObj(task[t], j, q) /\ j \notin ks
    BY <1>1
  <2> QED  BY <2>1, <2>2, <2>3 DEF Bit
<1> QED  BY <1>1, <1>2 DEF LegitMove

LEMMA ExitCounts ==
  ASSUME Typed, ForkInv, CountInv, NEW t \in Tasks, Exit(t)
  PROVE  CountInv' /\ Sources(t)
<1>1. PICK x : ExitDone(t, x)
  BY ExitEffect
<1>2. Running(t) /\ task[t].state = "running" /\ call[t].at = "user" /\ t \notin Forking
      /\ call[t].at \notin StageNames
  BY PointNames DEF Exit, At, Forking, Running
<1>3. /\ Counted({}, Pointed(t, Dropped)) /\ UNCHANGED <<nr_threads, processes>>
      /\ group' = [group EXCEPT ![Signal(t)].live = @ - 1]
  BY DEF Exit, Dropped
<1>4. Moves(t, x, t, call[t])
  BY <1>1, Stays DEF ExitDone, Moves
<1>5. /\ TaskShape(task[t]) /\ CallShape(call[t])
      /\ \A k \in Kinds : k \in task[t].held /\ task[t].ptr[k] \in Objects
  BY <1>2, RunningHas DEF CountInv, Shape
<1>6. /\ x.state = "zombie"
      /\ \A k \in Kinds : x.ptr[k] = IF k \in Dropped THEN NoObject ELSE task[t].ptr[k]
      /\ \A k \in Kinds : k \in x.held <=> k \in task[t].held /\ k \notin Dropped
  <2>1. \A k \in Kinds : k \notin {"semundo", "io", "thread"}
    BY DEF Kinds
  <2> QED  BY <1>1, <2>1 DEF ExitDone
<1>7. Dropped \in SUBSET Kinds /\ "signal" \in Kinds \ Dropped /\ "user" \in Kinds \ Dropped
      /\ Kinds \ Dropped = {"user", "sighand", "signal", "seccomp"}
  BY DEF Dropped, Kinds
<1>8. RefsNet(t, x, t, call[t]) /\ LegitMove(t, x, t, call[t])
  BY <1>3, <1>5, <1>6, <1>7, DropCounts
<1>9. TaskShape(x)
  <2>1. x.held \cap Kinds = {"user", "sighand", "signal", "seccomp"}
    BY <1>5, <1>6, <1>7
  <2>2. \A k \in Kinds : k \in x.held => x.ptr[k] # NoObject
    BY <1>5, <1>6, NotObject
  <2> QED  BY <1>6, <2>1, <2>2 DEF TaskShape
<1>10. GroupNet(t, x)
  <2>1. PICK g \in Objects : g = task[t].ptr["signal"]
    BY <1>5, <1>7
  <2>2. GroupDone(g, 0, -1)
    BY <1>3, <2>1, OneLessLive DEF Signal
  <2>3. \A o : (HasObj(x, "signal", o) <=> o = g) /\ (HasObj(task[t], "signal", o) <=> o = g)
    BY <1>5, <1>6, <1>7, <2>1 DEF HasObj
  <2>4. \A o : (InGrp(x, o, Threads) <=> o = g) /\ (InGrp(task[t], o, Threads) <=> o = g)
    BY <1>2, <1>6, <2>3 DEF InGrp, Threads
  <2>5. \A o : ~InGrp(x, o, Living) /\ (InGrp(task[t], o, Living) <=> o = g)
    BY <1>2, <1>6, <2>3 DEF InGrp, Living
  <2> QED  BY <2>2, <2>4, <2>5, GroupMember DEF GroupNet, GroupDone, Bit
<1>11. NumbersNet(t, x)
  <2>1. x.state \in Public /\ task[t].state \in Public /\ Process(x) /\ Process(task[t])
    BY <1>2, <1>5, <1>6, <1>7 DEF Public, Process
  <2>2. nr_threads \in Int /\ processes \in Int
    BY DEF Typed
  <2> QED  BY <1>3, <2>1, <2>2 DEF NumbersNet, Bit
<1> QED  BY <1>2, <1>4, <1>5, <1>8, <1>9, <1>10, <1>11, CountElsewhere

LEMMA ReleaseCounts ==
  ASSUME Typed, ForkInv, CountInv, NEW t \in Tasks, Release(t)
  PROVE  CountInv' /\ Sources(t)
<1>1. PICK x : ReleaseDone(t, x)
  BY ReleaseEffect
<1>2. task[t].state = "zombie" /\ ~Running(t) /\ t \notin Forking /\ call[t].at \notin StageNames
  BY ChildApart, PointNames DEF Release, Forking, ForkInv, Busy, Running
<1>3. /\ Counted({}, Pointed(t, {"sighand"}))
      /\ nr_threads' = nr_threads - 1 /\ processes' = processes - 1
      /\ group' = [group EXCEPT ![Signal(t)].nr_threads = @ - 1]
  BY DEF Release, CleanupSighand
<1>4. Moves(t, x, t, call[t])
  BY <1>1, Stays DEF ReleaseDone, Moves
<1>5. TaskShape(task[t]) /\ CallShape(call[t])
  BY DEF CountInv, Shape
<1>6. \A k \in Kinds : k \in task[t].held <=> k \in {"user", "sighand", "signal", "seccomp"}
  BY <1>2, <1>5 DEF TaskShape
<1>7. /\ x.state = "dead"
      /\ \A k \in Kinds \ {"sighand"} : x.ptr[k] = task[t].ptr[k]
      /\ \A k \in Kinds : k \in x.held <=> k \in task[t].held /\ k \notin {"sighand"}
  <2>1. "pid" \notin Kinds
    BY DEF Kinds
  <2> QED  BY <1>1, <2>1, Members DEF ReleaseDone, Ptr
<1>8. {"sighand"} \in SUBSET Kinds /\ {"user", "signal", "seccomp"} \subseteq Kinds
  BY DEF Kinds
<1>9. RefsNet(t, x, t, call[t]) /\ LegitMove(t, x, t, call[t])
  BY <1>3, <1>6, <1>7, <1>8, DropCounts
<1>10. TaskShape(x)
  <2>1. x.held \cap Kinds = {"user", "signal", "seccomp"}
    BY <1>6, <1>7, <1>8
  <2>2. \A k \in Kinds : k \in x.held => x.ptr[k] # NoObject
    BY <1>5, <1>6, <1>7 DEF TaskShape
  <2> QED  BY <1>7, <2>1, <2>2 DEF TaskShape
<1>11. GroupNet(t, x)
  <2>1. task[t].ptr["signal"] \in Objects
    BY <1>5, <1>6, <1>8, Members DEF TaskShape, Ptr
  <2>2. PICK g \in Objects : g = task[t].ptr["signal"]
    BY <2>1
  <2>3. GroupDone(g, -1, 0)
    BY <1>3, <2>2, OneLessThread DEF Signal
  <2>4. \A o : HasObj(task[t], "signal", o) <=> o = g
    BY <1>6, <1>8, <2>2 DEF HasObj
  <2>5. \A o : ~InGrp(x, o, Threads) /\ (InGrp(task[t], o, Threads) <=> o = g)
    BY <1>2, <1>7, <2>4 DEF InGrp, Threads
  <2>6. \A o : ~InGrp(x, o, Living) /\ ~InGrp(task[t], o, Living)
    BY <1>2, <1>7, <2>4 DEF InGrp, Living
  <2> QED  BY <2>3, <2>5, <2>6, GroupMember DEF GroupNet, GroupDone, Bit
<1>12. NumbersNet(t, x)
  <2>1. x.state \notin Public /\ task[t].state \in Public /\ ~Process(x) /\ Process(task[t])
    BY <1>2, <1>6, <1>7, <1>8 DEF Public, Process
  <2>2. nr_threads \in Int /\ processes \in Int
    BY DEF Typed
  <2> QED  BY <1>3, <2>1, <2>2 DEF NumbersNet, Bit
<1> QED  BY <1>2, <1>4, <1>5, <1>9, <1>10, <1>11, <1>12, CountElsewhere

LEMMA PutCounts ==
  ASSUME Typed, ForkInv, CountInv, NEW t \in Tasks, PutTaskStruct(t)
  PROVE  CountInv' /\ Sources(t)
<1>1. TaskBecomes(t, FreeTask) /\ UNCHANGED call
  BY PutEffect
<1>2. task[t].state = "dead" /\ ~Running(t) /\ t \notin Forking /\ call[t].at \notin StageNames
  BY ChildApart, PointNames DEF PutTaskStruct, Forking, ForkInv, Busy, Running
<1> DEFINE ks == {"user", "signal", "seccomp"}
<1>3. Counted({}, Pointed(t, ks)) /\ UNCHANGED <<nr_threads, processes, group>>
  BY DEF PutTaskStruct
<1>4. Moves(t, FreeTask, t, call[t])
  BY <1>1, Stays DEF Moves
<1>5. TaskShape(task[t]) /\ CallShape(call[t])
  BY DEF CountInv, Shape
<1>6. \A k \in Kinds : k \in task[t].held <=> k \in ks
  BY <1>2, <1>5 DEF TaskShape
<1>7. ks \in SUBSET Kinds
  BY DEF Kinds
<1>8. FreeTask.held = {} /\ FreeTask.state = "free"
  BY FreeTaskType
<1>9. RefsNet(t, FreeTask, t, call[t]) /\ LegitMove(t, FreeTask, t, call[t])
  <2>1. \A k \in ks : k \in task[t].held
    BY <1>6, <1>7
  <2>2. \A k \in Kinds : k \in FreeTask.held <=> k \in task[t].held /\ k \notin ks
    BY <1>6, <1>8
  <2>3. \A k \in Kinds \ ks : k \in FreeTask.held => FreeTask.ptr[k] = task[t].ptr[k]
    BY <1>8
  <2> HIDE DEF ks
  <2> QED  BY <1>3, <1>7, <2>1, <2>2, <2>3, DropCounts
<1>10. GroupNet(t, FreeTask)
  <2>1. \A o : ~InGrp(FreeTask, o, Threads) /\ ~InGrp(task[t], o, Threads)
    BY <1>2, <1>8 DEF InGrp, Threads
  <2>2. \A o : ~InGrp(FreeTask, o, Living) /\ ~InGrp(task[t], o, Living)
    BY <1>2, <1>8 DEF InGrp, Living
  <2> QED  BY <1>3, <2>1, <2>2, GroupMember DEF GroupNet, Bit
<1>11. NumbersNet(t, FreeTask)
  <2>1. FreeTask.state \notin Public /\ task[t].state \notin Public
        /\ ~Process(FreeTask) /\ ~Process(task[t])
    BY <1>2, <1>8 DEF Public, Process
  <2>2. nr_threads \in Int /\ processes \in Int
    BY DEF Typed
  <2> QED  BY <1>3, <2>1, <2>2 DEF NumbersNet, Bit
<1> QED  BY <1>2, <1>4, <1>5, <1>9, <1>8, <1>10, <1>11, FreeTaskShape, CountElsewhere DEF Threads

\* A signal changes nothing that is counted.
LEMMA KillCounts ==
  ASSUME Typed, CountInv, KillGroup
  PROVE  CountInv'
<1>1. KillDone
  BY KillEffect
<1>2. UNCHANGED <<call, refs, group, nr_threads, processes>>
  BY DEF KillGroup
<1>3. \A u \in Tasks : task'[u].state = task[u].state /\ task'[u].ptr = task[u].ptr
                       /\ task'[u].held = task[u].held
  BY <1>1 DEF KillDone, Same
<1>4. Shape'
  BY <1>2, <1>3 DEF CountInv, Shape, TaskShape, CallShape
<1>5. \A k, o : Holders(k, o)' = Holders(k, o) /\ Preparing(k, o)' = Preparing(k, o)
  BY <1>2, <1>3 DEF Holders, Preparing
<1>6. \A o, s : InGroup(o, s)' = InGroup(o, s)
  BY <1>3, <1>5 DEF InGroup, Holders
<1>7. RefsExact' /\ GroupExact'
  BY <1>2, <1>5, <1>6 DEF CountInv, RefsExact, GroupExact
<1>8. NumbersExact'
  <2>1. {u \in Tasks : task'[u].state \in Public} = {u \in Tasks : task[u].state \in Public}
    BY <1>3
  <2>2. {u \in Tasks : Process(task'[u])} = {u \in Tasks : Process(task[u])}
    BY <1>3 DEF Process
  <2> QED  BY <1>2, <2>1, <2>2 DEF CountInv, NumbersExact, Process
<1>9. OwnInv'
  <2> SUFFICES ASSUME NEW u \in Forking' PROVE OwnFor(u)'
    BY DEF OwnInv
  <2>1. u \in Forking /\ u \in Tasks /\ call[u].child \in Tasks
    BY <1>2, Members DEF Forking
  <2>2. OwnFor(u)
    BY <2>1 DEF CountInv, OwnInv
  <2> QED  BY <1>2, <1>3, <2>1, <2>2 DEF OwnFor, Child, HasObj, PrepObj
<1> QED  BY <1>4, <1>7, <1>8, <1>9 DEF CountInv

-----------------------------------------------------------------------------
(* The steps of unshare.                                                   *)

\* Who is in unshare.
LEMMA UnsharerRuns ==
  ASSUME Typed, ForkInv, NEW t \in Tasks, call[t].at \in UnshareSteps
  PROVE  /\ Running(t) /\ t \notin Forking /\ task[t].state = "running"
         /\ task[t].state # "new"
<1>1. call[t].at # "user" /\ call[t].at \notin StageNames
  BY PointNames DEF UnshareSteps
<1> QED  BY <1>1 DEF ForkInv, Busy, Running, Forking

LEMMA UnsharePoints ==
  {"prepare", "switch", "install", "commit", "put"} = UnshareSteps
BY DEF UnshareSteps

\* Steps that change only the call.
LEMMA CallCounts ==
  ASSUME Typed, ForkInv, CountInv, NEW t \in Tasks, Running(t), t \notin Forking,
         NEW y, CallBecomes(t, y), y.at \notin StageNames, CallShape(y),
         UNCHANGED <<task, group, nr_threads, processes>>,
         RefsNet(t, task[t], t, y),
         \A k \in Kinds, o \in Objects : PrepObj(y, k, o) => PrepObj(call[t], k, o) \/ Legit(t, k, o)
  PROVE  CountInv' /\ Sources(t)
<1>1. Moves(t, task[t], t, y)
  BY Stays DEF Moves
<1>2. task[t].state # "new" /\ task[t].state # "dead" /\ TaskShape(task[t])
  BY DEF Running, CountInv, Shape
<1>3. GroupNet(t, task[t])
  BY SameGroup
<1>4. NumbersNet(t, task[t])
  BY DEF NumbersNet, Typed, Bit
<1>5. LegitMove(t, task[t], t, y)
  BY DEF LegitMove
<1> QED  BY <1>1, <1>2, <1>3, <1>4, <1>5, CountElsewhere

LEMMA BeginCounts ==
  ASSUME Typed, ForkInv, CountInv, NEW t \in Tasks,
         UnshareFiles(t) \/ \E f \in UnshareFlagSets : Unshare(t, f)
  PROVE  CountInv' /\ Sources(t)
<1>1. Running(t) /\ call[t].at = "user" /\ t \notin Forking
      /\ UNCHANGED <<task, refs, group, nr_threads, processes>>
  BY PointNames DEF UnshareFiles, Unshare, At, Forking
<1>2. PICK y : StepsOnward(t, y, "prepare", call[t].new)
  BY UnshareFilesEffect, UnshareEffect
<1>3. call[t].new = NoPointers
  BY <1>1, NothingNew DEF CountInv
<1>4. CallBecomes(t, y) /\ y.at = "prepare" /\ y.new = NoPointers
  BY <1>2, <1>3 DEF StepsOnward
<1>5. \A k \in Kinds, o \in Objects : ~PrepObj(y, k, o) /\ ~PrepObj(call[t], k, o)
  BY <1>3, <1>4, NoPrep
<1>6. y.at \notin StageNames /\ CallShape(y)
  BY <1>4, PointNames, UnsharePoints, NoPointersType DEF CallShape
<1>7. RefsNet(t, task[t], t, y)
  BY <1>1, <1>5, SameRefs
<1> QED  BY <1>1, <1>4, <1>5, <1>6, <1>7, CallCounts

LEMMA PrepareNewCounts ==
  ASSUME Typed, ForkInv, CountInv, NEW t \in Tasks, PrepareNew(t)
  PROVE  CountInv' /\ Sources(t)
<1>1. call[t].at = "prepare" /\ \A k \in Wanted(t) : Free(k) # {}
  BY DEF PrepareNew, At
<1>2. Running(t) /\ t \notin Forking
  BY <1>1, UnsharePoints, UnsharerRuns
<1>3. /\ Counted({<<k, Fresh(k)>> : k \in Wanted(t)}, {})
      /\ UNCHANGED <<task, group, nr_threads, processes>>
  BY DEF PrepareNew, Elsewhere
<1>4. Wanted(t) \subseteq {"fs", "files", "user", "ns"} /\ Wanted(t) \subseteq Kinds
  BY WantedKinds DEF Kinds
<1>5. \A k \in Wanted(t) : Fresh(k) \in Objects /\ Fresh(k) \in Free(k)
  BY <1>1, <1>4, FreshType
<1>6. call[t].new = NoPointers
  BY <1>1, NothingNew DEF CountInv
<1>7. PICK y : /\ CallBecomes(t, y) /\ y.at \in {"user", "switch"}
               /\ y.new = Prepared(t) /\ (y.at = "user" => y.new = NoPointers)
  <2>1. CASE Wanted(t) = {}
    <3>1. Prepared(t) = NoPointers
      BY <2>1 DEF Prepared, NoPointers
    <3> QED  BY <2>1, <3>1, PrepareNewEffect, InUserModeType
  <2>2. CASE Wanted(t) # {}
    BY <2>2, PrepareNewEffect DEF StepsOnward
  <2> QED  BY <2>1, <2>2
<1>8. \A k \in Kinds : y.new[k] = IF k \in Wanted(t) THEN Fresh(k) ELSE NoObject
  BY <1>7 DEF Prepared
<1>9. \A k \in Kinds, o \in Objects : /\ PrepObj(y, k, o) <=> k \in Wanted(t) /\ o = Fresh(k)
                                      /\ ~PrepObj(call[t], k, o)
  BY <1>6, <1>7, <1>8, NoPrep, NotObject DEF PrepObj
<1>10. y.at \notin StageNames /\ CallShape(y)
  BY <1>4, <1>7, <1>8, PointNames, UnsharePoints, NoPointersType DEF CallShape
<1>11. RefsNet(t, task[t], t, y)
  <2> SUFFICES ASSUME NEW j \in Kinds, NEW q \in Objects
               PROVE  refs'[j][q] = refs[j][q]
                        + Bit(HasObj(task[t], j, q)) - Bit(HasObj(task[t], j, q))
                        + Bit(PrepObj(y, j, q)) - Bit(PrepObj(call[t], j, q))
    BY DEF RefsNet
  <2>1. refs'[j][q] = refs[j][q] + Bit(<<j, q>> \in {<<k, Fresh(k)>> : k \in Wanted(t)})
        /\ refs[j][q] \in Int
    BY <1>3, CountedIs
  <2>2. <<j, q>> \in {<<k, Fresh(k)>> : k \in Wanted(t)} <=> PrepObj(y, j, q)
    BY <1>9
  <2>3. ~PrepObj(call[t], j, q)
    BY <1>9
  <2> QED  BY <2>1, <2>2, <2>3 DEF Bit
<1>12. \A k \in Kinds, o \in Objects : PrepObj(y, k, o) => Legit(t, k, o)
  BY <1>5, <1>9 DEF Legit
<1> QED  BY <1>2, <1>3, <1>7, <1>10, <1>11, <1>12, CallCounts

LEMMA PrepareFailsCounts ==
  ASSUME Typed, ForkInv, CountInv, NEW t \in Tasks, PrepareFails(t)
  PROVE  CountInv' /\ Sources(t)
<1>1. call[t].at = "prepare" /\ UNCHANGED <<task, refs, group, nr_threads, processes>>
  BY DEF PrepareFails, At, Elsewhere
<1>2. Running(t) /\ t \notin Forking
  BY <1>1, UnsharePoints, UnsharerRuns
<1>3. CallBecomes(t, InUserMode)
  BY ReturnEffect
<1>4. call[t].new = NoPointers
  BY <1>1, NothingNew DEF CountInv
<1>5. \A k \in Kinds, o \in Objects : ~PrepObj(InUserMode, k, o) /\ ~PrepObj(call[t], k, o)
  BY <1>4, NoPrep, InUserModeType
<1>6. RefsNet(t, task[t], t, InUserMode)
  BY <1>1, <1>5, SameRefs
<1> QED  BY <1>1, <1>2, <1>3, <1>5, <1>6, InUserModeType, PointNames, UserCallShape, CallCounts

LEMMA PutOldCounts ==
  ASSUME Typed, ForkInv, CountInv, NEW t \in Tasks, PutOld(t)
  PROVE  CountInv' /\ Sources(t)
<1> DEFINE fd == call[t].new["files"]
           down == IF fd = NoObject THEN {} ELSE {<<"files", fd>>}
<1>1. call[t].at = "put" /\ UNCHANGED <<task, group, nr_threads, processes>>
      /\ Counted({}, down)
  BY DEF PutOld, At, Elsewhere
<1>2. Running(t) /\ t \notin Forking
  BY <1>1, UnsharePoints, UnsharerRuns
<1>3. CallBecomes(t, InUserMode)
  BY ReturnEffect
<1>4. CallShape(call[t])
  BY DEF CountInv, Shape
<1>5. \A k \in Kinds, o \in Objects : /\ ~PrepObj(InUserMode, k, o)
                                      /\ PrepObj(call[t], k, o) <=> <<k, o>> \in down
  <2> SUFFICES ASSUME NEW k \in Kinds, NEW o \in Objects
               PROVE  PrepObj(call[t], k, o) <=> <<k, o>> \in down
    BY NoPrep, InUserModeType
  <2>1. CASE k = "files"
    BY <1>1, <2>1, NotObject DEF PrepObj
  <2>2. CASE k # "files"
    <3>1. <<k, o>> \notin down
      BY <2>2
    <3>2. ~PrepObj(call[t], k, o)
      BY <1>1, <1>4, <2>2, NotObject DEF CallShape, PrepObj
    <3> QED  BY <3>1, <3>2
  <2> QED  BY <2>1, <2>2
<1> HIDE DEF down
<1>6. RefsNet(t, task[t], t, InUserMode)
  <2> SUFFICES ASSUME NEW j \in Kinds, NEW q \in Objects
               PROVE  refs'[j][q] = refs[j][q]
                        + Bit(HasObj(task[t], j, q)) - Bit(HasObj(task[t], j, q))
                        + Bit(PrepObj(InUserMode, j, q)) - Bit(PrepObj(call[t], j, q))
    BY DEF RefsNet
  <2>1. refs'[j][q] = refs[j][q] - Bit(<<j, q>> \in down) /\ refs[j][q] \in Int
    BY <1>1, CountedIs
  <2> QED  BY <1>5, <2>1 DEF Bit
<1> QED  BY <1>1, <1>2, <1>3, <1>5, <1>6, InUserModeType, PointNames, UserCallShape, CallCounts

\* The caller takes the new object of kind k, if there is one, and lets go of its own.
Swapped(t, k) == IF call[t].new[k] = NoObject THEN {} ELSE Pointed(t, {k})

\* A step in which the caller takes new objects.
LEMMA TakeCounts ==
  ASSUME Typed, ForkInv, CountInv, NEW t \in Tasks, call[t].at \in UnshareSteps, NEW ks,
         NEW x, NEW y, TakesDone(t, ks, x), CallBecomes(t, y), y.at \in UnshareSteps,
         CallShape(y), UNCHANGED <<group, nr_threads, processes>>,
         ks \subseteq {"ns", "fs", "files", "user"}, RefsNet(t, x, t, y),
         \A k \in ks : call[t].new[k] # NoObject => PrepObj(call[t], k, call[t].new[k]),
         \A k \in Kinds, o \in Objects : PrepObj(y, k, o) => PrepObj(call[t], k, o) \/ Legit(t, k, o)
  PROVE  CountInv' /\ Sources(t)
<1>1. Running(t) /\ task[t].state = "running" /\ t \notin Forking
  BY UnsharerRuns
<1>2. Moves(t, x, t, y)
  BY DEF TakesDone, Moves
<1>3. x.state = "running" /\ x.held = task[t].held
      /\ \A k \in Kinds : x.ptr[k] = IF k \in ks /\ call[t].new[k] # NoObject
                                     THEN call[t].new[k] ELSE task[t].ptr[k]
  BY <1>1 DEF TakesDone, Same, Taken
<1>4. /\ \A k \in Kinds : k \in task[t].held /\ task[t].ptr[k] \in Objects
      /\ \A k \in Kinds : HasObj(task[t], k, task[t].ptr[k])
  BY <1>1, RunningHas DEF CountInv
<1>5. TaskShape(x)
  BY <1>3, <1>4, NotObject DEF TaskShape
<1>6. GroupNet(t, x)
  <2>1. "signal" \in Kinds /\ "signal" \notin ks
    BY DEF Kinds
  <2>2. \A o, s : InGrp(x, o, s) <=> InGrp(task[t], o, s)
    BY <1>1, <1>3, <2>1 DEF InGrp, HasObj
  <2> QED  BY <2>2, SameGroup
<1>7. NumbersNet(t, x)
  <2>1. x.state = task[t].state /\ (Process(x) <=> Process(task[t]))
    BY <1>1, <1>3 DEF Process
  <2> QED  BY <2>1 DEF NumbersNet, Bit, Typed
<1>8. LegitMove(t, x, t, y)
  <2> SUFFICES ASSUME NEW k \in Kinds, NEW o \in Objects, HasObj(x, k, o)
               PROVE  HasObj(task[t], k, o) \/ Legit(t, k, o)
    BY DEF LegitMove
  <2>1. CASE k \in ks /\ call[t].new[k] # NoObject
    BY <1>3, <2>1 DEF HasObj, Legit
  <2>2. CASE ~(k \in ks /\ call[t].new[k] # NoObject)
    BY <1>3, <2>2 DEF HasObj
  <2> QED  BY <2>1, <2>2
<1>9. y.at \notin StageNames /\ task[t].state # "new"
  BY <1>1, PointNames
<1> QED  BY <1>1, <1>2, <1>5, <1>6, <1>7, <1>8, <1>9, CountElsewhere

\* The one new object is taken, and the old one let go.
LEMMA SwapCounts ==
  ASSUME Typed, ForkInv, CountInv, NEW t \in Tasks, NEW s \in UnshareSteps, NEW x, NEW y,
         NEW k \in {"ns", "user"}, TakesDone(t, {k}, x),
         StepsOnward(t, y, s, [call[t].new EXCEPT ![k] = NoObject]),
         \/ call[t].at = "switch" /\ k = "ns" /\ s = "install"
         \/ call[t].at = "commit" /\ k = "user" /\ s = "put",
         Counted({}, Swapped(t, k)), UNCHANGED <<group, nr_threads, processes>>
  PROVE  CountInv' /\ Sources(t)
<1>1. Running(t) /\ call[t].at \in UnshareSteps
  BY UnsharePoints, UnsharerRuns
<1>2. CallShape(call[t]) /\ call[t].new \in Ptr
  BY Members DEF CountInv, Shape
<1>3. k \in Kinds
  BY DEF Kinds
<1>4. /\ CallBecomes(t, y) /\ y.at = s /\ y.new[k] = NoObject
      /\ \A j \in Kinds \ {k} : y.new[j] = call[t].new[j]
  BY <1>2, <1>3 DEF StepsOnward, Ptr
<1>5. \A j \in Kinds, o \in Objects : PrepObj(y, j, o) <=> PrepObj(call[t], j, o) /\ j # k
  <2> SUFFICES ASSUME NEW j \in Kinds, NEW o \in Objects
               PROVE  PrepObj(y, j, o) <=> PrepObj(call[t], j, o) /\ j # k
    OBVIOUS
  <2>1. CASE j = k
    BY <1>4, <2>1, NotObject DEF PrepObj
  <2>2. CASE j # k
    BY <1>4, <2>2 DEF PrepObj
  <2> QED  BY <2>1, <2>2
<1>6. \A o \in Objects : PrepObj(call[t], k, o) <=> call[t].new[k] = o
  BY DEF PrepObj
<1>7. CallShape(y)
  <2>1. \A j \in Kinds : y.new[j] # NoObject => call[t].new[j] # NoObject /\ j # k
    BY <1>4
  <2> QED  BY <1>2, <1>4, <2>1, UnsharePoints DEF CallShape
<1>8. /\ \A j \in Kinds : j \in task[t].held /\ task[t].ptr[j] \in Objects
  BY <1>1, RunningHas DEF CountInv
<1>9. x.held = task[t].held
      /\ \A j \in Kinds : x.ptr[j] = IF j = k /\ call[t].new[j] # NoObject
                                     THEN call[t].new[j] ELSE task[t].ptr[j]
  BY DEF TakesDone, Same, Taken
<1>10. RefsNet(t, x, t, y)
  <2> SUFFICES ASSUME NEW j \in Kinds, NEW q \in Objects
               PROVE  refs'[j][q] = refs[j][q] + Bit(HasObj(x, j, q)) - Bit(HasObj(task[t], j, q))
                        + Bit(PrepObj(y, j, q)) - Bit(PrepObj(call[t], j, q))
    BY DEF RefsNet
  <2>1. refs'[j][q] = refs[j][q] - Bit(<<j, q>> \in Swapped(t, k)) /\ refs[j][q] \in Int
    BY CountedIs
  <2>2. CASE j # k
    <3>1. <<j, q>> \notin Swapped(t, k)
      BY <2>2 DEF Swapped, Pointed
    <3>2. HasObj(x, j, q) <=> HasObj(task[t], j, q)
      BY <1>9, <2>2 DEF HasObj
    <3>3. PrepObj(y, j, q) <=> PrepObj(call[t], j, q)
      BY <1>5, <2>2
    <3> QED  BY <2>1, <3>1, <3>2, <3>3 DEF Bit
  <2>3. CASE j = k /\ call[t].new[k] = NoObject
    <3>1. <<j, q>> \notin Swapped(t, k)
      BY <2>3 DEF Swapped
    <3>2. HasObj(x, j, q) <=> HasObj(task[t], j, q)
      BY <1>9, <2>3 DEF HasObj
    <3>3. ~PrepObj(y, j, q) /\ ~PrepObj(call[t], j, q)
      BY <1>5, <1>6, <2>3, NotObject
    <3> QED  BY <2>1, <3>1, <3>2, <3>3 DEF Bit
  <2>4. CASE j = k /\ call[t].new[k] # NoObject
    <3>1. <<j, q>> \in Swapped(t, k) <=> q = task[t].ptr[k]
      BY <2>4 DEF Swapped, Pointed
    <3>2. HasObj(task[t], j, q) <=> q = task[t].ptr[k]
      BY <1>8, <2>4 DEF HasObj
    <3>3. HasObj(x, j, q) <=> q = call[t].new[k]
      BY <1>8, <1>9, <2>4 DEF HasObj
    <3>4. ~PrepObj(y, j, q) /\ (PrepObj(call[t], j, q) <=> q = call[t].new[k])
      BY <1>5, <1>6, <2>4
    <3> QED  BY <2>1, <3>1, <3>2, <3>3, <3>4 DEF Bit
  <2> QED  BY <2>2, <2>3, <2>4
<1>11. call[t].new[k] # NoObject => PrepObj(call[t], k, call[t].new[k])
  BY DEF PrepObj
<1> QED  BY <1>1, <1>4, <1>5, <1>7, <1>10, <1>11, TakeCounts

LEMMA InstallCounts ==
  ASSUME Typed, ForkInv, CountInv, NEW t \in Tasks, Install(t)
  PROVE  CountInv' /\ Sources(t)
<1>1. PICK x, y : InstallDone(t, x, y)
  BY InstallEffect
<1>2. call[t].at = "install" /\ Counted({}, Swapped(t, "fs"))
      /\ UNCHANGED <<group, nr_threads, processes>>
  BY DEF Install, At, Elsewhere, Swapped
<1>3. Running(t) /\ call[t].at \in UnshareSteps
  BY <1>2, UnsharePoints, UnsharerRuns
<1>4. CallShape(call[t]) /\ call[t].new \in Ptr
  BY Members DEF CountInv, Shape
<1>5. /\ TakesDone(t, {"fs", "files"}, x) /\ CallBecomes(t, y) /\ y.at = "commit"
      /\ y.new["fs"] = OldFs(t) /\ y.new["files"] = OldFd(t)
      /\ \A j \in Kinds \ {"fs", "files"} : y.new[j] = call[t].new[j]
  <2>1. "fs" \in Kinds /\ "files" \in Kinds
    BY DEF Kinds
  <2> QED  BY <1>1, <1>4, <2>1 DEF InstallDone, StepsOnward, Ptr
<1>6. /\ \A j \in Kinds : j \in task[t].held /\ task[t].ptr[j] \in Objects
      /\ \A j \in Kinds : Legit(t, j, task[t].ptr[j])
  BY <1>3, RunningHas DEF CountInv
<1>7. x.held = task[t].held
      /\ \A j \in Kinds : x.ptr[j] = IF j \in {"fs", "files"} /\ call[t].new[j] # NoObject
                                     THEN call[t].new[j] ELSE task[t].ptr[j]
  BY <1>5 DEF TakesDone, Same, Taken
<1>8. \A j \in Kinds, o \in Objects :
        /\ PrepObj(call[t], j, o) <=> call[t].new[j] = o
        /\ PrepObj(y, j, o) <=> j # "fs" /\ y.new[j] = o
  BY <1>2, <1>5 DEF PrepObj
<1>9. CallShape(y)
  <2>1. \A j \in Kinds : y.new[j] # NoObject => j \in {"fs", "files"} \/ call[t].new[j] # NoObject
    BY <1>5
  <2> QED  BY <1>2, <1>4, <1>5, <2>1 DEF CallShape
<1>10. RefsNet(t, x, t, y)
  <2> SUFFICES ASSUME NEW j \in Kinds, NEW q \in Objects
               PROVE  refs'[j][q] = refs[j][q] + Bit(HasObj(x, j, q)) - Bit(HasObj(task[t], j, q))
                        + Bit(PrepObj(y, j, q)) - Bit(PrepObj(call[t], j, q))
    BY DEF RefsNet
  <2>1. refs'[j][q] = refs[j][q] - Bit(<<j, q>> \in Swapped(t, "fs")) /\ refs[j][q] \in Int
    BY <1>2, CountedIs
  <2>2. HasObj(task[t], j, q) <=> q = task[t].ptr[j]
    BY <1>6 DEF HasObj
  <2>3. HasObj(x, j, q) <=> q = x.ptr[j]
    BY <1>6, <1>7 DEF HasObj
  <2>4. CASE j \notin {"fs", "files"}
    <3>1. <<j, q>> \notin Swapped(t, "fs")
      BY <2>4 DEF Swapped, Pointed
    <3>2. x.ptr[j] = task[t].ptr[j] /\ (PrepObj(y, j, q) <=> PrepObj(call[t], j, q))
      BY <1>5, <1>7, <1>8, <2>4
    <3> QED  BY <2>1, <2>2, <2>3, <3>1, <3>2 DEF Bit
  <2>5. CASE j = "fs" /\ call[t].new["fs"] = NoObject
    <3>1. <<j, q>> \notin Swapped(t, "fs")
      BY <2>5 DEF Swapped
    <3>2. x.ptr[j] = task[t].ptr[j] /\ ~PrepObj(y, j, q) /\ ~PrepObj(call[t], j, q)
      BY <1>7, <1>8, <2>5, NotObject
    <3> QED  BY <2>1, <2>2, <2>3, <3>1, <3>2 DEF Bit
  <2>6. CASE j = "fs" /\ call[t].new["fs"] # NoObject
    <3>1. <<j, q>> \in Swapped(t, "fs") <=> q = task[t].ptr[j]
      BY <2>6 DEF Swapped, Pointed
    <3>2. x.ptr[j] = call[t].new[j] /\ ~PrepObj(y, j, q)
          /\ (PrepObj(call[t], j, q) <=> q = call[t].new[j])
      BY <1>7, <1>8, <2>6
    <3> QED  BY <2>1, <2>2, <2>3, <3>1, <3>2 DEF Bit
  <2>7. CASE j = "files" /\ call[t].new["files"] = NoObject
    <3>1. <<j, q>> \notin Swapped(t, "fs")
      BY <2>7 DEF Swapped, Pointed
    <3>2. x.ptr[j] = task[t].ptr[j] /\ ~PrepObj(y, j, q) /\ ~PrepObj(call[t], j, q)
      BY <1>5, <1>7, <1>8, <2>7, NotObject DEF OldFd
    <3> QED  BY <2>1, <2>2, <2>3, <3>1, <3>2 DEF Bit
  <2>8. CASE j = "files" /\ call[t].new["files"] # NoObject
    <3>1. <<j, q>> \notin Swapped(t, "fs")
      BY <2>8 DEF Swapped, Pointed
    <3>2. x.ptr[j] = call[t].new[j] /\ (PrepObj(y, j, q) <=> q = task[t].ptr[j])
          /\ (PrepObj(call[t], j, q) <=> q = call[t].new[j])
      BY <1>5, <1>7, <1>8, <2>8 DEF OldFd
    <3> QED  BY <2>1, <2>2, <2>3, <3>1, <3>2 DEF Bit
  <2> QED  BY <2>4, <2>5, <2>6, <2>7, <2>8
<1>11. \A k \in {"fs", "files"} : call[t].new[k] # NoObject => PrepObj(call[t], k, call[t].new[k])
  BY <1>2 DEF PrepObj
<1>12. \A k \in Kinds, o \in Objects : PrepObj(y, k, o) => PrepObj(call[t], k, o) \/ Legit(t, k, o)
  BY <1>5, <1>6, <1>8, NotObject DEF OldFd
<1>13. y.at \in UnshareSteps
  BY <1>5, UnsharePoints
<1> QED  BY <1>2, <1>3, <1>5, <1>9, <1>10, <1>11, <1>12, <1>13, TakeCounts

LEMMA UnshareCounts ==
  ASSUME Typed, ForkInv, CountInv, NEW t \in Tasks, UnshareSyscall(t)
  PROVE  CountInv' /\ Sources(t)
<1>1. CASE SwitchTaskNamespaces(t)
  <2>1. PICK x, y : SwitchDone(t, x, y)
    BY <1>1, SwitchEffect
  <2>2. call[t].at = "switch" /\ Counted({}, Swapped(t, "ns"))
        /\ UNCHANGED <<group, nr_threads, processes>>
    BY <1>1 DEF SwitchTaskNamespaces, At, Elsewhere, Swapped
  <2>3. TakesDone(t, {"ns"}, x)
        /\ StepsOnward(t, y, "install", [call[t].new EXCEPT !["ns"] = NoObject])
    BY <2>1 DEF SwitchDone
  <2>4. "install" \in UnshareSteps
    BY UnsharePoints
  <2> QED  BY <2>2, <2>3, <2>4, SwapCounts
<1>2. CASE CommitCreds(t)
  <2>1. PICK x, y : CommitDone(t, x, y)
    BY <1>2, CommitEffect
  <2>2. call[t].at = "commit" /\ Counted({}, Swapped(t, "user"))
        /\ UNCHANGED <<group, nr_threads, processes>>
    BY <1>2 DEF CommitCreds, At, Elsewhere, Swapped
  <2>3. TakesDone(t, {"user"}, x)
        /\ StepsOnward(t, y, "put", [call[t].new EXCEPT !["user"] = NoObject])
    BY <2>1 DEF CommitDone
  <2>4. "put" \in UnshareSteps
    BY UnsharePoints
  <2> QED  BY <2>2, <2>3, <2>4, SwapCounts
<1> QED  BY <1>1, <1>2, PrepareNewCounts, PrepareFailsCounts, InstallCounts, PutOldCounts
         DEF UnshareSyscall

-----------------------------------------------------------------------------
(* Every step, the initial state, and the theorem.                         *)

LEMMA CopyStepsCounts ==
  ASSUME Typed, ForkInv, CountInv, NEW t \in Tasks, CopySteps(t)
  PROVE  CountInv' /\ Sources(t)
<1>1. ASSUME NEW k, <<call[t].at, k>> \in CopyAt, Copy(t, k), k # "signal",
             UNCHANGED <<group, nr_threads>>,
             processes' = processes + (IF k = "user" THEN 1 ELSE 0)
      PROVE  CountInv' /\ Sources(t)
  BY <1>1, CopyCounts DEF CopiesGroup
<1>2. ASSUME NEW k, <<call[t].at, k>> \in CopyAt, Copy(t, k), k \notin {"signal", "user"},
             UNCHANGED <<group, nr_threads, processes>>
      PROVE  CountInv' /\ Sources(t)
  <2>1. processes' = processes + (IF k = "user" THEN 1 ELSE 0)
    BY <1>2 DEF Typed
  <2> QED  BY <1>1, <1>2, <2>1
<1>3. CASE CopyCreds(t)
  <2>1. /\ <<call[t].at, "user">> \in CopyAt /\ Copy(t, "user")
        /\ UNCHANGED <<group, nr_threads>>
        /\ processes' = processes + 1
    BY <1>3 DEF CopyCreds, At, CopyAt
  <2> QED  BY <1>1, <2>1
<1>4. CASE CopyFiles(t)
  BY <1>2, <1>4 DEF CopyFiles, At, CopyAt
<1>5. CASE CopyFs(t)
  BY <1>2, <1>5 DEF CopyFs, At, CopyAt
<1>6. CASE CopySighand(t)
  BY <1>2, <1>6 DEF CopySighand, At, CopyAt
<1>7. CASE CopyMm(t)
  BY <1>2, <1>7 DEF CopyMm, At, CopyAt
<1>8. CASE CopyNamespaces(t)
  BY <1>2, <1>8 DEF CopyNamespaces, At, CopyAt
<1>9. CASE CopySignal(t)
  <2>1. CASE Thread(t)
    BY <1>9, <2>1, ThreadSignalCounts
  <2>2. CASE ~Thread(t)
    <3>1. /\ <<call[t].at, "signal">> \in CopyAt /\ Copy(t, "signal")
          /\ group' = [group EXCEPT ![Fresh("signal")] = [nr_threads |-> 1, live |-> 1]]
          /\ UNCHANGED <<nr_threads, processes>>
      BY <1>9, <2>2 DEF CopySignal, At, CopyAt, Thread
    <3>2. CopiesGroup(t, "signal", Fresh("signal"))
      BY <3>1 DEF CopiesGroup
    <3>3. processes' = processes + (IF "signal" = "user" THEN 1 ELSE 0)
      BY <3>1 DEF Typed
    <3> QED  BY <2>2, <3>1, <3>2, <3>3, CopyCounts
  <2> QED  BY <2>1, <2>2
<1> QED  BY <1>3, <1>4, <1>5, <1>6, <1>7, <1>8, <1>9, PrepareCounts, UnwindCounts, PublishCounts
         DEF CopySteps

LEMMA CountStep ==
  ASSUME Typed, ForkInv, CountInv, [Next]_vars
  PROVE  CountInv'
<1>1. CASE UNCHANGED vars
  <2>1. UNCHANGED <<task, call, refs, group, nr_threads, processes>>
    BY <1>1 DEF vars
  <2>2. Shape' /\ NumbersExact'
    BY <2>1 DEF CountInv, Shape, NumbersExact, TaskShape, CallShape, Process
  <2>4. /\ \A k, o : Holders(k, o)' = Holders(k, o) /\ Preparing(k, o)' = Preparing(k, o)
        /\ \A o, s : InGroup(o, s)' = InGroup(o, s)
    BY <2>1 DEF Holders, Preparing, InGroup
  <2>5. RefsExact' /\ GroupExact'
    BY <2>1, <2>4 DEF CountInv, RefsExact, GroupExact
  <2>3. OwnInv'
    BY <2>1 DEF CountInv, OwnInv, OwnFor, Forking, Child, HasObj, PrepObj
  <2> QED  BY <2>2, <2>3, <2>5 DEF CountInv
<1> QED
  BY <1>1, KillCounts, CloneCounts, BeginCounts, CopyStepsCounts, UnshareCounts, ExitCounts,
     ReleaseCounts, PutCounts DEF Next

LEMMA StartedHolders ==
  ASSUME NEW f \in SecondFlagSets, Started(f), NEW k \in Kinds, NEW o \in Objects
  PROVE  Holders(k, o) = {t \in {FirstTask, SecondTask} :
           o = IF t = FirstTask \/ Shares(k, f) THEN First ELSE Second}
<1>1. /\ FirstTask \in Tasks /\ SecondTask \in Tasks /\ FirstTask # SecondTask
  BY TasksAssumption
<1>2. /\ task[FirstTask] = VisibleTask(FirstPtr, TRUE)
      /\ task[SecondTask] = VisibleTask(SecondPtr(f), "THREAD" \notin f)
      /\ \A t \in Tasks \ {FirstTask, SecondTask} : task[t] = FreeTask
  BY StartedTasks
<1>3. FirstPtr \in Ptr /\ SecondPtr(f) \in Ptr
  BY FirstSecond DEF FirstPtr, SecondPtr, Ptr
<1>4. /\ k \in task[FirstTask].held /\ task[FirstTask].ptr[k] = First
      /\ k \in task[SecondTask].held
      /\ task[SecondTask].ptr[k] = IF Shares(k, f) THEN First ELSE Second
  <2>1. task[FirstTask].ptr = FirstPtr /\ task[SecondTask].ptr = SecondPtr(f)
        /\ k \in task[FirstTask].held /\ k \in task[SecondTask].held
    BY <1>2, <1>3, VisibleType
  <2> QED  BY <2>1 DEF FirstPtr, SecondPtr
<1>5. \A t \in Tasks \ {FirstTask, SecondTask} : k \notin task[t].held
  BY <1>2, FreeTaskType
<1> QED  BY <1>1, <1>4, <1>5 DEF Holders

LEMMA InitCount == Init => CountInv
<1> SUFFICES ASSUME Init PROVE CountInv
  OBVIOUS
<1>1. PICK f \in SecondFlagSets : Started(f)
  BY DEF Init
<1>2. Typed
  BY InitTyped
<1>3. /\ FirstTask \in Tasks /\ SecondTask \in Tasks /\ FirstTask # SecondTask
      /\ {FirstTask, SecondTask} \in SUBSET Tasks
      /\ Cardinality({FirstTask, SecondTask}) = 2
      /\ Cardinality({FirstTask}) = 1 /\ Cardinality({SecondTask}) = 1
      /\ Cardinality({}) = 0
  <2>1. FirstTask \in Tasks /\ SecondTask \in Tasks /\ FirstTask # SecondTask
    BY TasksAssumption
  <2>2. {FirstTask, SecondTask} \ {FirstTask} = {SecondTask}
        /\ {SecondTask} \ {FirstTask} = {SecondTask}
    BY <2>1
  <2>3. {FirstTask, SecondTask} \in SUBSET Tasks /\ {FirstTask} \in SUBSET Tasks
        /\ {SecondTask} \in SUBSET Tasks
    BY <2>1
  <2>4. Cardinality({FirstTask}) = 1 /\ Cardinality({SecondTask}) = 1
    BY <2>3, EmptyCard
  <2>5. Cardinality({FirstTask, SecondTask} \ {FirstTask}) = Cardinality({FirstTask, SecondTask}) - 1
    BY <2>3, SubsetsFinite, FS_RemoveElement
  <2>6. Cardinality({FirstTask, SecondTask}) \in Nat
    BY <2>3, SubsetsFinite
  <2>7. Cardinality({FirstTask, SecondTask}) = 2
    BY <2>2, <2>4, <2>5, <2>6
  <2> QED  BY <2>1, <2>3, <2>4, <2>7, FS_EmptySet
<1>4. \A t \in Tasks : call[t] = InUserMode
  BY DEF Init
<1>5. /\ \A t \in {FirstTask, SecondTask} : task[t].state = "running"
      /\ \A t \in {FirstTask, SecondTask} : Kinds \subseteq task[t].held
      /\ \A t \in {FirstTask, SecondTask}, k \in Kinds : task[t].ptr[k] # NoObject
      /\ \A t \in Tasks \ {FirstTask, SecondTask} : task[t] = FreeTask
  <2>1. /\ task[FirstTask] = VisibleTask(FirstPtr, TRUE)
        /\ task[SecondTask] = VisibleTask(SecondPtr(f), "THREAD" \notin f)
        /\ \A t \in Tasks \ {FirstTask, SecondTask} : task[t] = FreeTask
    BY <1>1, StartedTasks
  <2>2. FirstPtr \in Ptr /\ SecondPtr(f) \in Ptr
    BY FirstSecond DEF FirstPtr, SecondPtr, Ptr
  <2>3. \A k \in Kinds : FirstPtr[k] # NoObject /\ SecondPtr(f)[k] # NoObject
    BY FirstSecond, NotObject DEF FirstPtr, SecondPtr
  <2>4. /\ VisibleTask(FirstPtr, TRUE).state = "running"
        /\ VisibleTask(FirstPtr, TRUE).ptr = FirstPtr
        /\ Kinds \subseteq VisibleTask(FirstPtr, TRUE).held
    BY <2>2, VisibleType
  <2>5. /\ VisibleTask(SecondPtr(f), "THREAD" \notin f).state = "running"
        /\ VisibleTask(SecondPtr(f), "THREAD" \notin f).ptr = SecondPtr(f)
        /\ Kinds \subseteq VisibleTask(SecondPtr(f), "THREAD" \notin f).held
    BY <2>2, VisibleType
  <2> QED  BY <2>1, <2>3, <2>4, <2>5
<1>6. Shape
  <2>1. ASSUME NEW t \in Tasks PROVE TaskShape(task[t])
    <3>1. CASE t \in {FirstTask, SecondTask}
      BY <1>5, <3>1 DEF TaskShape
    <3>2. CASE t \notin {FirstTask, SecondTask}
      BY <1>5, <3>2, FreeTaskShape
    <3> QED  BY <3>1, <3>2
  <2> QED  BY <1>4, <2>1, UserCallShape DEF Shape
<1>7. \A k \in Kinds, o \in Objects : Preparing(k, o) = {}
  BY <1>4, NoPrep, InUserModeType, HoldersAre
<1>8. ASSUME NEW k \in Kinds, NEW o \in Objects
      PROVE  refs[k][o] = Cardinality(Holders(k, o))
  <2>1. Holders(k, o) = {t \in {FirstTask, SecondTask} :
           o = IF t = FirstTask \/ Shares(k, f) THEN First ELSE Second}
    BY <1>1, StartedHolders
  <2>2. First # Second
    BY FirstSecond
  <2>3. /\ o = First  => refs[k][o] = IF Shares(k, f) THEN 2 ELSE 1
        /\ o = Second => refs[k][o] = IF Shares(k, f) THEN 0 ELSE 1
        /\ o \notin {First, Second} => refs[k][o] = 0
    BY <1>1, StartedRefs
  <2>4. CASE o = First /\ Shares(k, f)
    <3>1. Holders(k, o) = {FirstTask, SecondTask}
      BY <2>1, <2>4
    <3> QED  BY <1>3, <2>3, <2>4, <3>1
  <2>5. CASE o = First /\ ~Shares(k, f)
    <3>1. Holders(k, o) = {FirstTask}
      BY <1>3, <2>1, <2>2, <2>5
    <3> QED  BY <1>3, <2>3, <2>5, <3>1
  <2>6. CASE o = Second /\ ~Shares(k, f)
    <3>1. Holders(k, o) = {SecondTask}
      BY <1>3, <2>1, <2>2, <2>6
    <3> QED  BY <1>3, <2>3, <2>6, <3>1
  <2>7. CASE (o = Second /\ Shares(k, f)) \/ o \notin {First, Second}
    <3>1. Holders(k, o) = {}
      BY <2>1, <2>2, <2>7
    <3> QED  BY <1>3, <2>3, <2>7, <3>1
  <2> QED  BY <2>4, <2>5, <2>6, <2>7
<1>9. RefsExact
  <2> SUFFICES ASSUME NEW k \in Kinds, NEW o \in Objects
               PROVE  refs[k][o] = Cardinality(Holders(k, o)) + Cardinality(Preparing(k, o))
    BY DEF RefsExact
  <2>1. refs[k][o] = Cardinality(Holders(k, o)) /\ refs[k][o] \in Int
    BY <1>2, <1>8, CountedIs
  <2>2. Cardinality(Preparing(k, o)) = 0
    BY <1>3, <1>7
  <2> QED  BY <2>1, <2>2
<1>10. GroupExact
  <2> SUFFICES ASSUME NEW o \in Objects
               PROVE  /\ group[o].nr_threads = Cardinality(InGroup(o, Threads))
                      /\ group[o].live = Cardinality(InGroup(o, Living))
    BY DEF GroupExact
  <2>1. "signal" \in Kinds
    BY DEF Kinds
  <2>2. \A t \in Tasks : HasObj(task[t], "signal", o) => task[t].state = "running"
    BY <1>5, FreeTaskType DEF HasObj
  <2>3. InGroup(o, Threads) = Holders("signal", o) /\ InGroup(o, Living) = Holders("signal", o)
    BY <2>2, HoldersAre DEF InGrp, Threads, Living
  <2>4. group = [q \in Objects |-> [nr_threads |-> refs["signal"][q], live |-> refs["signal"][q]]]
    BY <1>1, StartedIs
  <2> QED  BY <1>8, <2>1, <2>3, <2>4
<1>11. NumbersExact
  <2>1. {t \in Tasks : task[t].state \in Public} = {FirstTask, SecondTask}
    BY <1>3, <1>5, FreeTaskType DEF Public
  <2>2. {t \in Tasks : Process(task[t])} = {FirstTask, SecondTask}
    <3>1. "user" \in Kinds
      BY DEF Kinds
    <3> QED  BY <1>3, <1>5, <3>1, FreeTaskType DEF Process
  <2>3. nr_threads = 2 /\ processes = 2
    BY Zenon DEF Init
  <2> QED  BY <1>3, <2>1, <2>2, <2>3 DEF NumbersExact
<1>12. OwnInv
  <2>1. Forking = {}
    BY <1>4, InUserModeType, PointNames DEF Forking
  <2> QED  BY <2>1 DEF OwnInv
<1> QED  BY <1>6, <1>9, <1>10, <1>11, <1>12 DEF CountInv

LEMMA CountAlways == Spec => [](Typed /\ ForkInv /\ CountInv)
<1>1. Init => CountInv
  BY InitCount
<1>2. (Typed /\ ForkInv) /\ CountInv /\ [Next]_vars => CountInv'
  BY CountStep
<1> QED  BY <1>1, <1>2, ForkAlways, PTL DEF Spec

LEMMA CountsType ==
  ASSUME Typed, CountInv
  PROVE  TypeOK
<1>1. \A S \in SUBSET Tasks : Cardinality(S) \in Nat
  BY SubsetsFinite
<1>2. refs \in [Kinds -> [Objects -> Nat]]
  <2>1. ASSUME NEW k \in Kinds, NEW o \in Objects PROVE refs[k][o] \in Nat
    <3>1. Holders(k, o) \in SUBSET Tasks /\ Preparing(k, o) \in SUBSET Tasks
      BY HoldersAre
    <3>2. Cardinality(Holders(k, o)) \in Nat /\ Cardinality(Preparing(k, o)) \in Nat
      BY <1>1, <3>1
    <3> QED  BY <3>2 DEF CountInv, RefsExact
  <2>2. refs = [k \in Kinds |-> [o \in Objects |-> refs[k][o]]]
    BY DEF Typed
  <2> QED  BY <2>1, <2>2
<1>3. group \in [Objects -> [nr_threads : Nat, live : Nat]]
  <2>1. ASSUME NEW o \in Objects PROVE group[o] \in [nr_threads : Nat, live : Nat]
    <3>1. InGroup(o, Threads) \in SUBSET Tasks /\ InGroup(o, Living) \in SUBSET Tasks
      BY HoldersAre
    <3>2. group[o].nr_threads \in Nat /\ group[o].live \in Nat
      BY <1>1, <3>1 DEF CountInv, GroupExact
    <3>3. group[o] \in [nr_threads : Int, live : Int]
      BY DEF Typed
    <3> QED  BY <3>2, <3>3
  <2> QED  BY <2>1 DEF Typed
<1>4. nr_threads \in Nat /\ processes \in Nat /\ calls \in Nat
  <2>1. {t \in Tasks : task[t].state \in Public} \in SUBSET Tasks
        /\ {t \in Tasks : Process(task[t])} \in SUBSET Tasks
    OBVIOUS
  <2>2. nr_threads \in Nat /\ processes \in Nat
    BY <1>1, <2>1 DEF CountInv, NumbersExact
  <2> QED  BY <2>2 DEF Typed
<1>5. task \in [Tasks -> [state : {"free", "new", "running", "zombie", "dead"},
                         ptr : [Kinds -> Objects \cup {NoObject}],
                         held : SUBSET (Kinds \cup Own),
                         pending : BOOLEAN, leader : BOOLEAN]]
  BY DEF Typed, TaskType, States, Ptr, Resources
<1>6. call \in [Tasks -> [at : {"user"} \cup StageNames \cup UnshareSteps,
                         child : Tasks, flags : SUBSET CloneFlags,
                         new : [Kinds -> Objects \cup {NoObject}]]]
  <2>1. Points \subseteq {"user"} \cup StageNames \cup UnshareSteps
    BY PointNames
  <2>2. call \in [Tasks -> [at : Points, child : Tasks, flags : SUBSET CloneFlags,
                            new : [Kinds -> Objects \cup {NoObject}]]]
    BY DEF Typed, CallType, Ptr
  <2> QED  BY <2>1, <2>2
<1>7. killed \in BOOLEAN /\ overlapped \in BOOLEAN
  BY DEF Typed
<1> QED  BY <1>2, <1>3, <1>4, <1>5, <1>6, <1>7 DEF TypeOK

\* Every object is counted once for each task that holds it and for each unshare that has
\* prepared it, and the threads of a group and those alive are those that are counted:
\* after every stage, every label and every step of unshare, exit and release, for any
\* number of tasks, objects and overlapping calls, and whatever the flags.
THEOREM CountsAreExact == Spec => []Consistent
<1>1. Typed /\ ForkInv /\ CountInv => Consistent
  <2> SUFFICES ASSUME Typed, CountInv PROVE Consistent
    OBVIOUS
  <2>1. CountsExact
    BY DEF CountInv, RefsExact, GroupExact, Threads, Living, CountsExact
  <2> QED  BY <2>1, CountsType DEF Consistent
<1> QED  BY <1>1, CountAlways, PTL

-----------------------------------------------------------------------------
(* What tasks share.                                                       *)

\* Nobody but t has, or prepares, its object of kind k; the one it has prepared; nobody
\* else is in its group.
SoleHas(t, k) == \A u \in Tasks :
  /\ HasObj(task[u], k, task[t].ptr[k]) => u = t
  /\ ~PrepObj(call[u], k, task[t].ptr[k])
SolePrep(t, k) == \A u \in Tasks :
  /\ ~HasObj(task[u], k, call[t].new[k])
  /\ PrepObj(call[u], k, call[t].new[k]) => u = t
GroupAlone(t) == \A u \in Tasks : InGrp(task[u], Signal(t), Threads) => u = t

\* The flags of a call in copy_process, and of one in unshare: a namespace is only made
\* with a file system of one's own, a user namespace only by a single thread, and nothing
\* has been prepared without its flag.
CallFlags(y) ==
  /\ y.at \in StageNames => Acceptable(y.flags)
  /\ y.at \in UnshareSteps =>
       /\ "NEWNS" \in y.flags \/ "NEWUSER" \in y.flags => "FS" \in y.flags
       /\ "NEWUSER" \in y.flags => "THREAD" \in y.flags
  /\ y.at \in {"switch", "install", "commit"} =>
       /\ y.new["ns"] # NoObject => "NEWNS" \in y.flags
       /\ y.new["user"] # NoObject => "NEWUSER" \in y.flags
       /\ y.new["fs"] # NoObject => "FS" \in y.flags

\* With CLONE_FS, nobody shares the file system the task has, or is about to take.
FsApart(t) ==
  call[t].at \in {"switch", "install", "commit"} /\ "FS" \in call[t].flags =>
    IF call[t].at = "commit" \/ call[t].new["fs"] = NoObject
    THEN SoleHas(t, "fs") ELSE SolePrep(t, "fs")

\* What unshare has found to be the task's alone stays so.
AloneFor(t) ==
  call[t].at \in UnshareSteps =>
    /\ "THREAD" \in call[t].flags => GroupAlone(t)
    /\ "SIGHAND" \in call[t].flags => SoleHas(t, "sighand")
MemAlone(t) ==
  call[t].at \in UnshareSteps /\ "VM" \in call[t].flags => AloneInMemory(t)

\* Between its new namespaces and its new file system a task has mismatched ones.
Moving(t) == call[t].at = "install" /\ call[t].new["fs"] # NoObject
FsInv ==
  \A t, u \in Tasks :
    Running(t) /\ Running(u) /\ ~Moving(t) /\ ~Moving(u) /\ task[t].ptr["fs"] = task[u].ptr["fs"]
      => \A k \in {"ns", "user"} : task[t].ptr[k] = task[u].ptr[k]
ThreadInv ==
  \A t, u \in Tasks :
    Running(t) /\ Running(u) /\ Signal(t) = Signal(u)
      => \A k \in {"sighand", "mm", "user"} : task[t].ptr[k] = task[u].ptr[k]

CallsInv == \A t \in Tasks : CallFlags(call[t]) /\ FsApart(t) /\ AloneFor(t) /\ MemAlone(t)
ShareInv == CallsInv /\ FsInv /\ ThreadInv

LEMMA KindNames ==
  {"user", "files", "fs", "sighand", "signal", "mm", "ns", "seccomp"} = Kinds
BY DEF Kinds

\* A step of another task does not reach what is u's alone.
LEMMA NotLegit ==
  ASSUME Typed, CountInv, NEW t \in Tasks, NEW k \in Kinds, NEW u \in Tasks \ {t},
         Running(u), SoleHas(u, k)
  PROVE  ~Legit(t, k, task[u].ptr[k]) /\ task[u].ptr[k] \in Objects
<1> DEFINE o == task[u].ptr[k]
<1>1. HasObj(task[u], k, o) /\ o \in Objects
  BY RunningHas DEF CountInv
<1>2. o \notin Free(k)
  BY <1>1, FreeIsUnheld DEF CountInv
<1> QED  BY <1>1, <1>2 DEF Legit, SoleHas

LEMMA SoleHasKept ==
  ASSUME Typed, CountInv, NEW t \in Tasks, Sources(t), NEW k \in Kinds, NEW u \in Tasks \ {t},
         Running(u), SoleHas(u, k)
  PROVE  SoleHas(u, k)'
<1>1. ~Legit(t, k, task[u].ptr[k]) /\ task[u].ptr[k] \in Objects
  BY NotLegit
<1>2. task'[u] = task[u]
  BY DEF Sources
<1> SUFFICES ASSUME NEW v \in Tasks
             PROVE  /\ HasObj(task'[v], k, task[u].ptr[k]) => v = u
                    /\ ~PrepObj(call'[v], k, task[u].ptr[k])
  BY <1>2 DEF SoleHas, HasObj, PrepObj
<1>3. /\ HasObj(task'[v], k, task[u].ptr[k]) => HasObj(task[v], k, task[u].ptr[k])
      /\ PrepObj(call'[v], k, task[u].ptr[k]) => PrepObj(call[v], k, task[u].ptr[k])
  BY <1>1 DEF Sources
<1> QED  BY <1>3 DEF SoleHas

LEMMA SolePrepKept ==
  ASSUME Typed, CountInv, NEW t \in Tasks, Sources(t), NEW k \in Kinds, NEW u \in Tasks \ {t},
         call[u].at \notin {"commit", "put"}, call[u].new[k] # NoObject, SolePrep(u, k)
  PROVE  SolePrep(u, k)'
<1> DEFINE o == call[u].new[k]
<1>1. PrepObj(call[u], k, o) /\ o \in Objects
  BY Members DEF PrepObj, Ptr
<1>2. ~Legit(t, k, o)
  <2>1. o \notin Free(k)
    BY <1>1, FreeIsUnheld DEF CountInv
  <2> QED  BY <2>1 DEF Legit, SolePrep
<1>3. call'[u] = call[u]
  BY DEF Sources
<1> SUFFICES ASSUME NEW v \in Tasks
             PROVE  ~HasObj(task'[v], k, o) /\ (PrepObj(call'[v], k, o) => v = u)
  BY <1>3 DEF SolePrep, HasObj, PrepObj
<1>4. /\ HasObj(task'[v], k, o) => HasObj(task[v], k, o)
      /\ PrepObj(call'[v], k, o) => PrepObj(call[v], k, o)
  BY <1>1, <1>2 DEF Sources
<1> QED  BY <1>4 DEF SolePrep

LEMMA GroupAloneKept ==
  ASSUME Typed, CountInv, NEW t \in Tasks, Sources(t), NEW u \in Tasks \ {t},
         Running(u), GroupAlone(u)
  PROVE  GroupAlone(u)'
<1> DEFINE o == task[u].ptr["signal"]
<1>1. "signal" \in Kinds
  BY KindNames
<1>2. HasObj(task[u], "signal", o) /\ o \in Objects
  BY <1>1, RunningHas DEF CountInv
<1>3. ~Legit(t, "signal", o)
  <2>1. o \notin Free("signal")
    BY <1>1, <1>2, FreeIsUnheld DEF CountInv
  <2>2. ~PrepObj(call[t], "signal", o)
    <3>1. call[t].new["signal"] # NoObject => "signal" \in {"fs", "files", "user", "ns"}
      BY <1>1 DEF CountInv, Shape, CallShape
    <3> QED  BY <1>2, <3>1, NotObject DEF PrepObj
  <2>3. ~(Running(t) /\ HasObj(task[t], "signal", o))
    BY DEF GroupAlone, InGrp, Running, Threads, Signal
  <2> QED  BY <2>1, <2>2, <2>3 DEF Legit
<1>4. task'[u] = task[u]
  BY DEF Sources
<1> SUFFICES ASSUME NEW v \in Tasks, InGrp(task'[v], o, Threads)
             PROVE  v = u
  BY <1>4 DEF GroupAlone, InGrp, HasObj, Signal
<1>5. InGrp(task[v], o, Threads)
  BY <1>1, <1>2, <1>3 DEF Sources
<1> QED  BY <1>5 DEF GroupAlone, Signal

\* So what holds of the calls of the others holds after the step.
LEMMA OthersKept ==
  ASSUME Typed, ForkInv, CountInv, CallsInv, NEW t \in Tasks, Sources(t), NEW u \in Tasks \ {t}
  PROVE  CallFlags(call[u])' /\ FsApart(u)' /\ AloneFor(u)'
<1>1. call'[u] = call[u] /\ (Running(u) => task'[u] = task[u])
  BY DEF Sources
<1>2. CallFlags(call[u])'
  BY <1>1 DEF CallsInv, CallFlags, Acceptable
<1>3. "fs" \in Kinds /\ "sighand" \in Kinds
  BY KindNames
<1>4. FsApart(u)'
  <2> SUFFICES ASSUME call[u].at \in {"switch", "install", "commit"}, "FS" \in call[u].flags
               PROVE  IF call[u].at = "commit" \/ call[u].new["fs"] = NoObject
                      THEN SoleHas(u, "fs")' ELSE SolePrep(u, "fs")'
    BY <1>1 DEF FsApart
  <2>1. Running(u)
    BY UnsharerRuns, UnsharePoints
  <2>2. IF call[u].at = "commit" \/ call[u].new["fs"] = NoObject
        THEN SoleHas(u, "fs") ELSE SolePrep(u, "fs")
    BY DEF CallsInv, FsApart
  <2>3. CASE call[u].at = "commit" \/ call[u].new["fs"] = NoObject
    BY <1>3, <2>1, <2>2, <2>3, SoleHasKept
  <2>4. CASE ~(call[u].at = "commit" \/ call[u].new["fs"] = NoObject)
    BY <1>3, <2>2, <2>4, SolePrepKept
  <2> QED  BY <2>3, <2>4
<1>5. AloneFor(u)'
  <2> SUFFICES ASSUME call[u].at \in UnshareSteps
               PROVE  /\ "THREAD" \in call[u].flags => GroupAlone(u)'
                      /\ "SIGHAND" \in call[u].flags => SoleHas(u, "sighand")'
    BY <1>1 DEF AloneFor
  <2>1. Running(u)
    BY UnsharerRuns
  <2>2. /\ "THREAD" \in call[u].flags => GroupAlone(u)
        /\ "SIGHAND" \in call[u].flags => SoleHas(u, "sighand")
    BY DEF CallsInv, AloneFor
  <2> QED  BY <1>3, <2>1, <2>2, SoleHasKept, GroupAloneKept
<1> QED  BY <1>2, <1>4, <1>5

\* A step after which no more tasks run and those that do have what they had.
Quiet == \A u \in Tasks : Running(u)' => Running(u) /\ task'[u].ptr = task[u].ptr

LEMMA QuietKept ==
  ASSUME Typed, ForkInv, ShareInv, NEW t \in Tasks, Sources(t), Quiet, Moving(t) => Moving(t)'
  PROVE  FsInv' /\ ThreadInv' /\ \A u \in Tasks \ {t} : MemAlone(u)'
<1>1. \A u \in Tasks : Running(u)' => Running(u) /\ task'[u].ptr = task[u].ptr
  BY DEF Quiet
<1>2. \A u \in Tasks \ {t} : call'[u] = call[u]
  BY DEF Sources
<1>3. FsInv'
  <2> SUFFICES ASSUME NEW u \in Tasks, NEW v \in Tasks, Running(u)', Running(v)',
                      ~Moving(u)', ~Moving(v)', task'[u].ptr["fs"] = task'[v].ptr["fs"],
                      NEW k \in {"ns", "user"}
               PROVE  task'[u].ptr[k] = task'[v].ptr[k]
    BY DEF FsInv
  <2>1. ~Moving(u) /\ ~Moving(v)
    BY <1>2 DEF Moving
  <2> QED  BY <1>1, <2>1 DEF ShareInv, FsInv
<1>4. ThreadInv'
  <2> SUFFICES ASSUME NEW u \in Tasks, NEW v \in Tasks, Running(u)', Running(v)',
                      task'[u].ptr["signal"] = task'[v].ptr["signal"],
                      NEW k \in {"sighand", "mm", "user"}
               PROVE  task'[u].ptr[k] = task'[v].ptr[k]
    BY DEF ThreadInv, Signal
  <2> QED  BY <1>1 DEF ShareInv, ThreadInv, Signal
<1>5. ASSUME NEW u \in Tasks \ {t} PROVE MemAlone(u)'
  <2> SUFFICES ASSUME call[u].at \in UnshareSteps, "VM" \in call[u].flags,
                      NEW v \in Tasks \ {u}, Running(v)'
               PROVE  task'[v].ptr["mm"] # task'[u].ptr["mm"]
    BY <1>2 DEF MemAlone, AloneInMemory, Running
  <2>1. Running(u) /\ task'[u] = task[u]
    BY UnsharerRuns DEF Sources
  <2>2. task[v].ptr["mm"] # task[u].ptr["mm"] /\ task'[v].ptr = task[v].ptr
    BY <1>1 DEF ShareInv, CallsInv, MemAlone, AloneInMemory
  <2> QED  BY <2>1, <2>2
<1> QED  BY <1>3, <1>4, <1>5

\* A quiet step after which the task is not in unshare.
LEMMA OutsideKept ==
  ASSUME Typed, ForkInv, CountInv, ShareInv, NEW t \in Tasks, Sources(t), Quiet,
         call[t].at # "install", call'[t].at \notin UnshareSteps, CallFlags(call'[t])
  PROVE  ShareInv'
<1>1. ~Moving(t)
  BY DEF Moving
<1>2. FsInv' /\ ThreadInv' /\ \A u \in Tasks \ {t} : MemAlone(u)'
  BY <1>1, QuietKept
<1>3. \A u \in Tasks \ {t} : CallFlags(call[u])' /\ FsApart(u)' /\ AloneFor(u)'
  BY OthersKept DEF ShareInv
<1>4. FsApart(t)' /\ AloneFor(t)' /\ MemAlone(t)'
  BY UnsharePoints DEF FsApart, AloneFor, MemAlone
<1>5. CallFlags(call[t])'
  BY DEF CallFlags, Acceptable
<1> QED  BY <1>2, <1>3, <1>4, <1>5 DEF ShareInv, CallsInv

LEMMA UserFlags == CallFlags(InUserMode)
BY InUserModeType, PointNames, UnsharePoints DEF CallFlags

\* Whoever calls clone, goes on to the next stage or gives up, exits or is released.
LEMMA CloneShares ==
  ASSUME Typed, ForkInv, CountInv, ShareInv, NEW t \in Tasks, NEW f \in CloneFlagSets,
         NEW p \in Tasks, Clone(t, f, p)
  PROVE  ShareInv'
<1>1. PICK x, y : CloneDone(t, f, p, x, y)
  BY CloneEffect
<1>2. call[t].at = "user" /\ Acceptable(f)
  BY DEF Clone, At
<1>3. Sources(t)
  BY CloneCounts
<1>4. \A u \in Tasks : task'[u] = IF u = p THEN x ELSE task[u]
  BY <1>1, TaskBecomesType DEF CloneDone
<1>5. call'[t] = y /\ y.at = "creds" /\ y.flags = f
  BY <1>1, CallBecomesType DEF CloneDone
<1>6. x.state = "new"
  BY <1>1 DEF CloneDone
<1>7. Quiet
  BY <1>4, <1>6 DEF Quiet, Running
<1>8. y.at \notin UnshareSteps /\ CallFlags(y)
  BY <1>2, <1>5, UnsharePoints DEF CallFlags
<1> QED  BY <1>2, <1>3, <1>5, <1>7, <1>8, OutsideKept

LEMMA ReapShares ==
  ASSUME Typed, ForkInv, CountInv, ShareInv, NEW t \in Tasks,
         Exit(t) \/ Release(t) \/ PutTaskStruct(t)
  PROVE  ShareInv'
<1>1. Sources(t)
  BY ExitCounts, ReleaseCounts, PutCounts
<1>2. UNCHANGED call /\ \E x : TaskBecomes(t, x) /\ x.state # "running"
  BY ExitEffect, ReleaseEffect, PutEffect, FreeTaskType DEF ExitDone, ReleaseDone
<1>3. call[t].at = "user"
  BY DEF Exit, Release, PutTaskStruct, At, ForkInv, Busy, Running
<1>4. Quiet
  BY <1>2, TaskBecomesType DEF Quiet, Running
<1>5. CallFlags(call'[t])
  BY <1>2 DEF ShareInv, CallsInv
<1>6. call'[t].at \notin UnshareSteps
  BY <1>2, <1>3, UnsharePoints
<1> QED  BY <1>1, <1>3, <1>4, <1>5, <1>6, OutsideKept

\* A stage passed or failed: the child is not visible, and the flags are what they were.
StageDone(t, x, y) ==
  /\ UNCHANGED task \/ (TaskBecomes(Child(t), x) /\ x.state # "running")
  /\ CallBecomes(t, y)
  /\ y = InUserMode \/ (y.at \in StageNames /\ y.flags = call[t].flags)

LEMMA StageEffect ==
  ASSUME Typed, ForkInv, NEW t \in Tasks, CopySteps(t), ~Publish(t)
  PROVE  t \in Forking /\ \E x, y : StageDone(t, x, y)
<1>1. ASSUME NEW k, <<call[t].at, k>> \in CopyAt, Copy(t, k)
      PROVE  t \in Forking /\ \E x, y : StageDone(t, x, y)
  <2>1. call[t].at \in Copied /\ k \in Kinds
    BY <1>1 DEF CopyAt, Copied, Kinds
  <2>2. PICK x, y, o : CopyDone(t, k, x, y, o)
    BY <1>1, <2>1, CopyEffect
  <2>3. t \in Forking
    BY <2>1, PointNames DEF Forking
  <2>4. x.state # "running"
    BY <2>2, <2>3, ChildApart DEF CopyDone, Same
  <2>5. y.at \in StageNames /\ y.flags = call[t].flags
    BY <2>2, StageNamesAre DEF CopyDone, Onward
  <2> QED  BY <2>2, <2>3, <2>4, <2>5 DEF StageDone, CopyDone
<1>2. CASE CopyCreds(t)
  BY <1>1, <1>2 DEF CopyCreds, At, CopyAt
<1>3. CASE CopyFiles(t)
  BY <1>1, <1>3 DEF CopyFiles, At, CopyAt
<1>4. CASE CopyFs(t)
  BY <1>1, <1>4 DEF CopyFs, At, CopyAt
<1>5. CASE CopySighand(t)
  BY <1>1, <1>5 DEF CopySighand, At, CopyAt
<1>6. CASE CopyMm(t)
  BY <1>1, <1>6 DEF CopyMm, At, CopyAt
<1>7. CASE CopyNamespaces(t)
  BY <1>1, <1>7 DEF CopyNamespaces, At, CopyAt
<1>8. CASE CopySignal(t)
  <2>1. <<call[t].at, "signal">> \in CopyAt /\ call[t].at \in Copied /\ t \in Forking
    BY <1>8, PointNames DEF CopySignal, At, CopyAt, Copied, Forking
  <2>2. CASE ~Thread(t)
    BY <1>1, <1>8, <2>1, <2>2 DEF CopySignal, Thread
  <2>3. CASE Thread(t)
    <3>1. Done(t) /\ UNCHANGED task
      BY <1>8, <2>3 DEF CopySignal, Thread
    <3>2. PICK y : /\ CallBecomes(t, y) /\ y.at \in Names \cap Points
                   /\ StageAt[y.at] = StageAt[call[t].at] + 1 /\ Onward(y, t, y.at)
      BY <2>1, <3>1, DoneEffect
    <3>3. y.at \in StageNames /\ y.flags = call[t].flags
      BY <3>2, StageNamesAre DEF Onward
    <3>4. StageDone(t, FreeTask, y)
      BY <3>1, <3>2, <3>3 DEF StageDone
    <3> QED  BY <2>1, <3>4
  <2> QED  BY <2>2, <2>3
<1>9. CASE Prepare(t)
  <2>1. PICK x, y : PrepareDone(t, x, y)
    BY <1>9, PrepareEffect
  <2>2. t \in Forking
    BY <2>1, PointNames DEF PrepareDone, Forking
  <2>3. x.state # "running"
    BY <2>1, <2>2, ChildApart DEF PrepareDone, Same
  <2>4. y.at \in StageNames /\ y.flags = call[t].flags
    <3>1. y.at \in {"files", "publish"}
      BY <2>1 DEF PrepareDone
    <3>2. "files" \in StageNames /\ "publish" \in StageNames
      BY StageNamesAre DEF Names
    <3> QED  BY <2>1, <3>1, <3>2 DEF PrepareDone, Onward
  <2>5. StageDone(t, x, y)
    BY <2>1, <2>3, <2>4 DEF StageDone, PrepareDone
  <2> QED  BY <2>2, <2>5
<1>10. CASE StageFails(t)
  <2>1. PICK label : Unwind(t, label)
    BY <1>10 DEF StageFails
  <2>2. t \in Forking
    BY <1>10 DEF StageFails, Forking
  <2>3. StageDone(t, FreeTask, InUserMode)
    BY <2>1, UnwindEffect, FreeTaskType DEF StageDone
  <2> QED  BY <2>2, <2>3
<1> QED  BY <1>2, <1>3, <1>4, <1>5, <1>6, <1>7, <1>8, <1>9, <1>10 DEF CopySteps

LEMMA StageShares ==
  ASSUME Typed, ForkInv, CountInv, ShareInv, NEW t \in Tasks, CopySteps(t), ~Publish(t)
  PROVE  ShareInv'
<1>1. Sources(t)
  BY CopyStepsCounts
<1>2. PICK x, y : StageDone(t, x, y)
  BY StageEffect
<1>3. call[t].at \in StageNames /\ call[t].at \notin UnshareSteps
  BY StageEffect, PointNames DEF Forking
<1>4. Quiet
  BY <1>2, TaskBecomesType DEF StageDone, Quiet, Running
<1>5. call'[t] = y
  BY <1>2, CallBecomesType DEF StageDone
<1>6. CallFlags(y) /\ y.at \notin UnshareSteps
  <2>1. CallFlags(call[t])
    BY DEF ShareInv, CallsInv
  <2>2. CASE y = InUserMode
    BY <2>2, UserFlags, InUserModeType, UnsharePoints
  <2>3. CASE y.at \in StageNames /\ y.flags = call[t].flags
    <3>1. y.at \notin UnshareSteps
      BY <2>3, PointNames
    <3> QED  BY <1>3, <2>1, <2>3, <3>1, UnsharePoints DEF CallFlags
  <2> QED  BY <1>2, <2>2, <2>3 DEF StageDone
<1>7. call[t].at # "install"
  BY <1>3, UnsharePoints
<1> QED  BY <1>1, <1>4, <1>5, <1>6, <1>7, OutsideKept

\* The child becomes visible: an object it shares is its parent's, and what the flags let
\* it share is what they have to; any other it has for itself.
LEMMA PublishShares ==
  ASSUME Typed, ForkInv, CountInv, ShareInv, NEW t \in Tasks, Publish(t)
  PROVE  ShareInv'
<1> DEFINE f == call[t].flags
<1>1. PICK x : PublishDone(t, x)
  BY PublishEffect
<1>2. t \in Forking /\ call[t].at = "publish" /\ call[t].at \in StageNames
  BY PointNames DEF Publish, At, Forking
<1>3. PICK p \in Tasks : p = Child(t)
  BY Members
<1>4. task[p].state = "new" /\ ~Running(p) /\ p # t /\ Running(t) /\ call[p].at = "user"
  <2>1. task[p].state = "new" /\ ~Running(p) /\ p # t /\ Running(t)
    BY <1>2, <1>3, ChildApart
  <2> QED  BY <2>1 DEF ForkInv, Busy
<1>5. Sources(t)
  BY PublishCounts
<1>6. /\ \A u \in Tasks : task'[u] = IF u = p THEN x ELSE task[u]
      /\ \A u \in Tasks : call'[u] = IF u = t THEN InUserMode ELSE call[u]
  BY <1>1, <1>3, TaskBecomesType, CallBecomesType DEF PublishDone
<1>7. Acceptable(f)
  BY <1>2 DEF ShareInv, CallsInv, CallFlags
<1>8. ASSUME NEW k \in Kinds \ {"seccomp"}
      PROVE  IF Shares(k, f) THEN x.ptr[k] = task[t].ptr[k]
             ELSE \A u \in Tasks \ {p} : Running(u) => task[u].ptr[k] # x.ptr[k]
  <2>1. x.ptr[k] = task[p].ptr[k]
    BY <1>1, <1>3, Members DEF PublishDone, Ptr
  <2>2. IF Shares(k, f) THEN task[p].ptr[k] = task[t].ptr[k]
        ELSE k \in task[p].held =>
               \A o \in Objects : o = task[p].ptr[k] =>
                 \A u \in Tasks : HasObj(task[u], k, o) => u = p
    BY <1>2, <1>3 DEF CountInv, OwnInv, OwnFor
  <2>3. CASE Shares(k, f)
    BY <2>1, <2>2, <2>3
  <2>4. CASE ~Shares(k, f)
    <3>1. k \in task[p].held
      <4>1. TakenAt[k] < 18 /\ StageAt[call[t].at] = 18
        BY <1>2, GivenAtNat, StageNumbers DEF Resources
      <4>2. ~(Thread(t) /\ k = "signal")
        BY <2>4 DEF Shares, Thread
      <4> QED  BY <1>2, <1>3, <4>1, <4>2, GrowthHas
    <3> SUFFICES ASSUME NEW u \in Tasks \ {p}, Running(u), task[u].ptr[k] = x.ptr[k]
                 PROVE  FALSE
      BY <2>4
    <3>2. HasObj(task[u], k, task[u].ptr[k]) /\ task[u].ptr[k] \in Objects
      BY RunningHas DEF CountInv
    <3> QED  BY <2>1, <2>2, <2>4, <3>1, <3>2
  <2> QED  BY <2>3, <2>4
<1>9. \A k \in {"user", "fs", "sighand", "signal", "mm", "ns"} : k \in Kinds \ {"seccomp"}
  BY KindNames
<1>10. \A u \in Tasks : Running(u)' <=> Running(u) \/ u = p
  BY <1>1, <1>6 DEF Running, PublishDone
<1>11. ASSUME NEW v \in Tasks \ {p}, Running(v), task[v].ptr["signal"] = x.ptr["signal"],
              NEW k \in {"sighand", "mm", "user"}
       PROVE  task[v].ptr[k] = x.ptr[k]
  <2>1. Shares("signal", f)
    BY <1>8, <1>9, <1>11
  <2>2. "THREAD" \in f
    BY <2>1 DEF Shares
  <2>3. Shares(k, f)
    BY <1>7, <2>2 DEF Acceptable, Shares
  <2>4. x.ptr["signal"] = task[t].ptr["signal"] /\ x.ptr[k] = task[t].ptr[k]
    BY <1>8, <1>9, <2>1, <2>3
  <2> QED  BY <1>4, <1>11, <2>4 DEF ShareInv, ThreadInv, Signal
<1>12. ThreadInv'
  <2> SUFFICES ASSUME NEW u \in Tasks, NEW v \in Tasks, Running(u)', Running(v)',
                      task'[u].ptr["signal"] = task'[v].ptr["signal"],
                      NEW k \in {"sighand", "mm", "user"}
               PROVE  task'[u].ptr[k] = task'[v].ptr[k]
    BY DEF ThreadInv, Signal
  <2>1. CASE u # p /\ v # p
    BY <1>6, <1>10, <2>1 DEF ShareInv, ThreadInv, Signal
  <2>2. CASE u = p \/ v = p
    BY <1>6, <1>10, <1>11, <2>2
  <2> QED  BY <2>1, <2>2
<1>13. ~Moving(t)
  BY <1>2 DEF Moving
<1>14. ASSUME NEW v \in Tasks \ {p}, Running(v), ~Moving(v), task[v].ptr["fs"] = x.ptr["fs"],
              NEW k \in {"ns", "user"}
       PROVE  task[v].ptr[k] = x.ptr[k]
  <2>1. Shares("fs", f)
    BY <1>8, <1>9, <1>14
  <2>2. "FS" \in f
    BY <2>1 DEF Shares
  <2>3. Shares(k, f)
    BY <1>7, <2>2 DEF Acceptable, Shares
  <2>4. x.ptr["fs"] = task[t].ptr["fs"] /\ x.ptr[k] = task[t].ptr[k]
    BY <1>8, <1>9, <2>1, <2>3
  <2> QED  BY <1>4, <1>13, <1>14, <2>4 DEF ShareInv, FsInv
<1>15. FsInv'
  <2> SUFFICES ASSUME NEW u \in Tasks, NEW v \in Tasks, Running(u)', Running(v)',
                      ~Moving(u)', ~Moving(v)', task'[u].ptr["fs"] = task'[v].ptr["fs"],
                      NEW k \in {"ns", "user"}
               PROVE  task'[u].ptr[k] = task'[v].ptr[k]
    BY DEF FsInv
  <2>1. ~Moving(u) /\ ~Moving(v)
    BY <1>6, <1>13 DEF Moving
  <2>2. CASE u # p /\ v # p
    BY <1>6, <1>10, <2>1, <2>2 DEF ShareInv, FsInv
  <2>3. CASE u = p \/ v = p
    BY <1>6, <1>10, <1>14, <2>1, <2>3
  <2> QED  BY <2>2, <2>3
<1>16. ASSUME NEW u \in Tasks \ {t} PROVE MemAlone(u)'
  <2> SUFFICES ASSUME call[u].at \in UnshareSteps, "VM" \in call[u].flags,
                      NEW v \in Tasks \ {u}, Running(v)'
               PROVE  task'[v].ptr["mm"] # task'[u].ptr["mm"]
    BY <1>6 DEF MemAlone, AloneInMemory, Running
  <2>1. Running(u) /\ u # p /\ task'[u] = task[u]
    BY <1>4, <1>6, UnsharerRuns
  <2>2. \A w \in Tasks \ {u} : Running(w) => task[w].ptr["mm"] # task[u].ptr["mm"]
    BY DEF ShareInv, CallsInv, MemAlone, AloneInMemory
  <2>3. CASE v # p
    BY <1>6, <1>10, <2>1, <2>2, <2>3
  <2>4. CASE v = p
    BY <1>4, <1>6, <1>8, <1>9, <2>1, <2>2, <2>4
  <2> QED  BY <2>3, <2>4
<1>17. \A u \in Tasks \ {t} : CallFlags(call[u])' /\ FsApart(u)' /\ AloneFor(u)'
  BY <1>5, OthersKept DEF ShareInv
<1>18. CallFlags(call[t])' /\ FsApart(t)' /\ AloneFor(t)' /\ MemAlone(t)'
  <2>1. call'[t] = InUserMode /\ InUserMode.at \notin UnshareSteps
    BY <1>6, InUserModeType, UnsharePoints
  <2>2. CallFlags(call'[t])
    BY <2>1, UserFlags
  <2> QED  BY <2>1, <2>2, UnsharePoints DEF FsApart, AloneFor, MemAlone, CallFlags, Acceptable
<1> QED  BY <1>12, <1>15, <1>16, <1>17, <1>18 DEF ShareInv, CallsInv

\* What unshare tests tells who else has the object.
LEMMA GroupAloneIs ==
  ASSUME Typed, CountInv, NEW t \in Tasks, Running(t)
  PROVE  AloneInGroup(t) <=> GroupAlone(t)
<1> DEFINE o == Signal(t)
           S == InGroup(o, Threads)
<1>1. "signal" \in Kinds
  BY KindNames
<1>2. HasObj(task[t], "signal", o) /\ o \in Objects
  BY <1>1, RunningHas DEF CountInv, Signal
<1>3. S \in SUBSET Tasks /\ \A u \in Tasks : u \in S <=> InGrp(task[u], o, Threads)
  BY HoldersAre
<1>4. t \in S
  BY <1>2, <1>3 DEF InGrp, Running, Threads
<1>5. group[o].nr_threads = Cardinality(S)
  BY <1>2 DEF CountInv, GroupExact
<1> HIDE DEF S
<1>6. Cardinality(S) = 1 <=> S = {t}
  BY <1>3, <1>4, EmptyCard
<1>7. S = {t} <=> \A u \in Tasks : InGrp(task[u], o, Threads) => u = t
  BY <1>3, <1>4
<1> QED  BY <1>5, <1>6, <1>7 DEF AloneInGroup, GroupAlone

LEMMA SoleIs ==
  ASSUME Typed, CountInv, NEW t \in Tasks, Running(t), NEW k \in Kinds
  PROVE  refs[k][task[t].ptr[k]] <= 1 <=> SoleHas(t, k)
<1> DEFINE o == task[t].ptr[k]
           H == Holders(k, o)
           P == Preparing(k, o)
<1>1. HasObj(task[t], k, o) /\ o \in Objects
  BY RunningHas DEF CountInv
<1>2. /\ H \in SUBSET Tasks /\ \A u \in Tasks : u \in H <=> HasObj(task[u], k, o)
      /\ P \in SUBSET Tasks /\ \A u \in Tasks : u \in P <=> PrepObj(call[u], k, o)
  BY HoldersAre
<1>3. refs[k][o] = Cardinality(H) + Cardinality(P)
  BY <1>1 DEF CountInv, RefsExact
<1>4. t \in H
  BY <1>1, <1>2
<1> HIDE DEF H, P
<1>5. Cardinality(H) = 1 <=> H = {t}
  BY <1>2, <1>4, EmptyCard
<1>6. Cardinality(H) # 0
  BY <1>2, <1>4, EmptyCard
<1>7. Cardinality(P) = 0 <=> P = {}
  BY <1>2, EmptyCard
<1>8. Cardinality(H) \in Nat /\ Cardinality(P) \in Nat
  BY <1>2, SubsetsFinite
<1>9. refs[k][o] <= 1 <=> H = {t} /\ P = {}
  BY <1>3, <1>5, <1>6, <1>7, <1>8
<1>10. H = {t} /\ P = {} <=> SoleHas(t, k)
  BY <1>2, <1>4 DEF SoleHas
<1> QED  BY <1>9, <1>10

\* unshare is called.
LEMMA BeginShares ==
  ASSUME Typed, ForkInv, CountInv, ShareInv, NEW t \in Tasks,
         UnshareFiles(t) \/ \E f \in UnshareFlagSets : Unshare(t, f)
  PROVE  ShareInv'
<1>1. PICK f, y : /\ StepsOnward(t, y, "prepare", call[t].new) /\ y.flags = Closure(f)
                  /\ CheckUnshareFlags(t, Closure(f))
  <2>1. CASE UnshareFiles(t)
    <3>1. Closure({"FILES"}) = {"FILES"}
      BY DEF Closure
    <3>2. CheckUnshareFlags(t, {"FILES"})
      BY DEF CheckUnshareFlags
    <3> QED  BY <2>1, <3>1, <3>2, UnshareFilesEffect
  <2>2. CASE \E f \in UnshareFlagSets : Unshare(t, f)
    BY <2>2, UnshareEffect DEF Unshare
  <2> QED  BY <2>1, <2>2
<1>2. Sources(t) /\ UNCHANGED task /\ Running(t) /\ call[t].at = "user"
  BY BeginCounts DEF Unshare, UnshareFiles, At
<1>3. /\ \A u \in Tasks : call'[u] = IF u = t THEN y ELSE call[u]
      /\ y.at = "prepare" /\ y.new = call[t].new /\ y.flags = Closure(f)
  BY <1>1, CallBecomesType DEF StepsOnward
<1>4. FsInv' /\ ThreadInv' /\ \A u \in Tasks \ {t} : MemAlone(u)'
  <2>1. Quiet /\ ~Moving(t)
    BY <1>2 DEF Quiet, Moving, Running
  <2> QED  BY <1>2, <2>1, QuietKept
<1>5. \A u \in Tasks \ {t} : CallFlags(call[u])' /\ FsApart(u)' /\ AloneFor(u)'
  BY <1>2, OthersKept DEF ShareInv
<1>6. CallFlags(call[t])'
  <2>1. /\ "NEWNS" \in y.flags \/ "NEWUSER" \in y.flags => "FS" \in y.flags
        /\ "NEWUSER" \in y.flags => "THREAD" \in y.flags
    BY <1>3 DEF Closure
  <2>2. y.at \notin StageNames
    BY <1>3, PointNames, UnsharePoints
  <2> QED  BY <1>3, <2>1, <2>2 DEF CallFlags, Acceptable
<1>7. FsApart(t)'
  BY <1>3 DEF FsApart
<1>8. AloneFor(t)'
  <2>1. "sighand" \in Kinds
    BY KindNames
  <2>2. ASSUME "THREAD" \in y.flags PROVE GroupAlone(t)'
    <3>1. GroupAlone(t)
      BY <1>1, <1>2, <1>3, <2>2, GroupAloneIs DEF CheckUnshareFlags
    <3> QED  BY <1>2, <3>1 DEF GroupAlone, Signal, InGrp, HasObj
  <2>3. ASSUME "SIGHAND" \in y.flags PROVE SoleHas(t, "sighand")'
    <3>1. SoleHas(t, "sighand")
      BY <1>1, <1>2, <1>3, <2>1, <2>3, SoleIs DEF CheckUnshareFlags, AloneInSighand
    <3>2. \A u \in Tasks : call'[u].new = call[u].new
      BY <1>3
    <3> QED  BY <1>2, <3>1, <3>2 DEF SoleHas, HasObj, PrepObj
  <2> QED  BY <1>3, <2>2, <2>3 DEF AloneFor
<1>9. MemAlone(t)'
  BY <1>1, <1>2, <1>3 DEF MemAlone, CheckUnshareFlags, AloneInMemory, Running
<1> QED  BY <1>4, <1>5, <1>6, <1>7, <1>8, <1>9 DEF ShareInv, CallsInv

\* unshare goes on: the task is still alone in what it was alone in.
LEMMA WithinKept ==
  ASSUME Typed, ForkInv, CountInv, CountInv', ShareInv, NEW t \in Tasks, Sources(t),
         call[t].at \in UnshareSteps, NEW x, TaskBecomes(t, x),
         x.state = task[t].state, x.held = task[t].held,
         \A k \in {"signal", "sighand", "mm"} : x.ptr[k] = task[t].ptr[k],
         x.ptr["user"] = task[t].ptr["user"] \/ GroupAlone(t),
         \A v \in Tasks \ {t} :
           Running(v) /\ ~Moving(v) /\ ~Moving(t)' /\ task[v].ptr["fs"] = x.ptr["fs"]
             => \A k \in {"ns", "user"} : task[v].ptr[k] = x.ptr[k],
         call'[t].flags = call[t].flags, CallFlags(call[t])', FsApart(t)'
  PROVE  ShareInv'
<1>1. /\ \A u \in Tasks : task'[u] = IF u = t THEN x ELSE task[u]
      /\ \A u \in Tasks \ {t} : call'[u] = call[u]
  BY TaskBecomesType DEF Sources
<1>2. Running(t) /\ \A u \in Tasks : Running(u)' <=> Running(u)
  BY <1>1, UnsharerRuns DEF Running
<1>3. /\ \A u \in Tasks : \A k \in {"signal", "sighand", "mm"} : task'[u].ptr[k] = task[u].ptr[k]
      /\ \A u \in Tasks : task'[u].held = task[u].held /\ task'[u].state = task[u].state
  BY <1>1
<1>4. FsInv'
  <2> SUFFICES ASSUME NEW u \in Tasks, NEW v \in Tasks, Running(u)', Running(v)',
                      ~Moving(u)', ~Moving(v)', task'[u].ptr["fs"] = task'[v].ptr["fs"],
                      NEW k \in {"ns", "user"}
               PROVE  task'[u].ptr[k] = task'[v].ptr[k]
    BY DEF FsInv
  <2>1. (u # t => ~Moving(u)) /\ (v # t => ~Moving(v))
    BY <1>1 DEF Moving
  <2>2. CASE u # t /\ v # t
    BY <1>1, <1>2, <2>1, <2>2 DEF ShareInv, FsInv
  <2>3. CASE u = t \/ v = t
    BY <1>1, <1>2, <2>1, <2>3
  <2> QED  BY <2>2, <2>3
<1>5. ThreadInv'
  <2> SUFFICES ASSUME NEW u \in Tasks, NEW v \in Tasks, Running(u)', Running(v)',
                      task'[u].ptr["signal"] = task'[v].ptr["signal"],
                      NEW k \in {"sighand", "mm", "user"}
               PROVE  task'[u].ptr[k] = task'[v].ptr[k]
    BY DEF ThreadInv, Signal
  <2>1. task[u].ptr["signal"] = task[v].ptr["signal"] /\ Running(u) /\ Running(v)
    BY <1>2, <1>3
  <2>2. task[u].ptr[k] = task[v].ptr[k]
    BY <2>1 DEF ShareInv, ThreadInv, Signal
  <2>3. CASE k # "user" \/ x.ptr["user"] = task[t].ptr["user"]
    BY <1>1, <1>3, <2>2, <2>3
  <2>4. CASE GroupAlone(t)
    <3>1. \A w \in {u, v} : InGrp(task[w], task[w].ptr["signal"], Threads)
      <4>1. "signal" \in Kinds
        BY KindNames
      <4> QED  BY <2>1, <4>1, RunningHas DEF CountInv, InGrp, Running, Threads
    <3>2. u = t \/ v = t => u = v
      BY <2>1, <2>4, <3>1 DEF GroupAlone, Signal
    <3> QED  BY <1>1, <2>2, <3>2
  <2> QED  BY <2>3, <2>4
<1>6. \A u \in Tasks \ {t} : CallFlags(call[u])' /\ FsApart(u)' /\ AloneFor(u)'
  BY OthersKept DEF ShareInv
<1>7. ASSUME NEW u \in Tasks PROVE MemAlone(u)'
  <2> SUFFICES ASSUME call'[u].at \in UnshareSteps, "VM" \in call'[u].flags,
                      NEW v \in Tasks \ {u}, Running(v)'
               PROVE  task'[v].ptr["mm"] # task'[u].ptr["mm"]
    BY DEF MemAlone, AloneInMemory, Running
  <2>1. call[u].at \in UnshareSteps /\ "VM" \in call[u].flags
    BY <1>1
  <2>2. task[v].ptr["mm"] # task[u].ptr["mm"]
    BY <1>2, <2>1 DEF ShareInv, CallsInv, MemAlone, AloneInMemory
  <2> QED  BY <1>3, <2>2
<1>8. AloneFor(t)'
  <2> SUFFICES ASSUME call'[t].at \in UnshareSteps
               PROVE  /\ "THREAD" \in call[t].flags => GroupAlone(t)'
                      /\ "SIGHAND" \in call[t].flags => SoleHas(t, "sighand")'
    BY DEF AloneFor
  <2>1. /\ "THREAD" \in call[t].flags => GroupAlone(t)
        /\ "SIGHAND" \in call[t].flags => SoleHas(t, "sighand")
    BY DEF ShareInv, CallsInv, AloneFor
  <2>2. GroupAlone(t) => GroupAlone(t)'
    BY <1>3 DEF GroupAlone, InGrp, HasObj, Signal
  <2>3. ASSUME SoleHas(t, "sighand") PROVE SoleHas(t, "sighand")'
    <3> DEFINE o == task[t].ptr["sighand"]
    <3>1. "sighand" \in Kinds
      BY KindNames
    <3>2. o \in Objects /\ o # NoObject
      BY <1>2, <3>1, RunningHas, NotObject DEF CountInv
    <3>3. \A v \in Tasks : call'[v].new["sighand"] = NoObject
      <4>1. \A v \in Tasks : CallShape(call[v])'
        BY DEF CountInv, Shape
      <4>2. ~("sighand" \in {"fs", "files", "user", "ns"})
        OBVIOUS
      <4> QED  BY <3>1, <4>1, <4>2 DEF CallShape
    <3>4. task'[t].ptr["sighand"] = o
      BY <1>3
    <3> SUFFICES ASSUME NEW v \in Tasks
                 PROVE  /\ HasObj(task'[v], "sighand", o) => v = t
                        /\ ~PrepObj(call'[v], "sighand", o)
      BY <3>4 DEF SoleHas, HasObj, PrepObj
    <3>5. HasObj(task'[v], "sighand", o) => HasObj(task[v], "sighand", o)
      BY <1>3 DEF HasObj
    <3> QED  BY <2>3, <3>2, <3>3, <3>5 DEF SoleHas, PrepObj
  <2> QED  BY <2>1, <2>2, <2>3
<1> QED  BY <1>4, <1>5, <1>6, <1>7, <1>8 DEF ShareInv, CallsInv

\* The new objects are made, or there is nothing to make.
LEMMA PrepareNewShares ==
  ASSUME Typed, ForkInv, CountInv, CountInv', ShareInv, NEW t \in Tasks, PrepareNew(t)
  PROVE  ShareInv'
<1>1. UNCHANGED task /\ call[t].at = "prepare" /\ Sources(t)
      /\ \A k \in Wanted(t) : Free(k) # {}
  BY PrepareNewCounts DEF PrepareNew, At
<1>2. call[t].at \in UnshareSteps /\ Running(t)
  BY <1>1, UnsharePoints, UnsharerRuns
<1>3. CASE Wanted(t) = {}
  <2>1. CallBecomes(t, InUserMode)
    BY <1>3, PrepareNewEffect
  <2>2. call'[t] = InUserMode
    BY <2>1, CallBecomesType
  <2>3. Quiet
    BY <1>1 DEF Quiet, Running
  <2>4. InUserMode.at \notin UnshareSteps
    BY InUserModeType, UnsharePoints
  <2> QED  BY <1>1, <2>2, <2>3, <2>4, UserFlags, OutsideKept
<1>4. CASE Wanted(t) # {}
  <2>1. PICK y : StepsOnward(t, y, "switch", Prepared(t)) /\ y.flags = call[t].flags
    BY <1>4, PrepareNewEffect
  <2>2. /\ \A u \in Tasks : call'[u] = IF u = t THEN y ELSE call[u]
        /\ y.at = "switch" /\ y.new = Prepared(t)
    BY <2>1, CallBecomesType DEF StepsOnward
  <2>3. \A k \in Kinds : y.new[k] = IF k \in Wanted(t) THEN Fresh(k) ELSE NoObject
    BY <2>2 DEF Prepared
  <2>4. {"fs", "files", "user", "ns"} \subseteq Kinds
    BY KindNames
  <2>5. CallFlags(call[t])'
    <3>1. /\ y.new["ns"] # NoObject => "ns" \in Wanted(t)
          /\ y.new["user"] # NoObject => "user" \in Wanted(t)
          /\ y.new["fs"] # NoObject => "fs" \in Wanted(t)
      BY <2>3, <2>4
    <3>2. /\ y.new["ns"] # NoObject => "NEWNS" \in y.flags
          /\ y.new["user"] # NoObject => "NEWUSER" \in y.flags
          /\ y.new["fs"] # NoObject => "FS" \in y.flags
      BY <2>1, <3>1 DEF Wanted
    <3>3. /\ "NEWNS" \in y.flags \/ "NEWUSER" \in y.flags => "FS" \in y.flags
          /\ "NEWUSER" \in y.flags => "THREAD" \in y.flags
      BY <1>2, <2>1 DEF ShareInv, CallsInv, CallFlags
    <3>4. y.at \notin StageNames
      BY <2>2, PointNames, UnsharePoints
    <3> QED  BY <2>2, <3>2, <3>3, <3>4 DEF CallFlags, Acceptable
  <2>6. FsApart(t)'
    <3> SUFFICES ASSUME "FS" \in call[t].flags
                 PROVE  IF y.new["fs"] = NoObject THEN SoleHas(t, "fs")' ELSE SolePrep(t, "fs")'
      BY <2>1, <2>2 DEF FsApart
    <3>1. y.new["fs"] = IF "fs" \in Wanted(t) THEN Fresh("fs") ELSE NoObject
      BY <2>3, <2>4
    <3>2. "fs" \in Wanted(t) <=> SharedBy(t, "fs")
      BY DEF Wanted
    <3>3. call[t].new = NoPointers
      BY <1>1, NothingNew DEF CountInv
    <3>4. CASE ~SharedBy(t, "fs")
      <4>1. refs["fs"][task[t].ptr["fs"]] <= 1
        <5>1. task[t].ptr["fs"] \in Objects
          BY <1>2, <2>4, RunningHas DEF CountInv
        <5>2. refs["fs"][task[t].ptr["fs"]] \in Int
          BY <2>4, <5>1, CountedIs
        <5> QED  BY <3>4, <5>2 DEF SharedBy
      <4>2. SoleHas(t, "fs") /\ y.new["fs"] = NoObject
        BY <1>2, <2>4, <3>1, <3>2, <3>4, <4>1, SoleIs
      <4>3. task[t].ptr["fs"] # NoObject
        BY <1>2, <2>4, RunningHas, NotObject DEF CountInv
      <4>4. SoleHas(t, "fs")'
        BY <1>1, <2>2, <4>2, <4>3 DEF SoleHas, HasObj, PrepObj
      <4> QED  BY <4>2, <4>4
    <3>5. CASE SharedBy(t, "fs")
      <4>1. y.new["fs"] = Fresh("fs") /\ Fresh("fs") \in Free("fs") /\ Fresh("fs") \in Objects
        BY <1>1, <2>4, <3>1, <3>2, <3>5, FreshType
      <4>2. \A u \in Tasks : ~HasObj(task[u], "fs", y.new["fs"])
                             /\ ~PrepObj(call[u], "fs", y.new["fs"])
        BY <2>4, <4>1, FreeIsUnheld DEF CountInv
      <4>3. SolePrep(t, "fs")'
        BY <1>1, <2>2, <4>2 DEF SolePrep, HasObj, PrepObj
      <4>4. y.new["fs"] # NoObject
        BY <4>1, NotObject
      <4> QED  BY <4>3, <4>4
    <3> QED  BY <3>4, <3>5
  <2>7. \A v \in Tasks \ {t} :
          Running(v) /\ ~Moving(v) /\ ~Moving(t)' /\ task[v].ptr["fs"] = task[t].ptr["fs"]
            => \A k \in {"ns", "user"} : task[v].ptr[k] = task[t].ptr[k]
    <3>1. ~Moving(t)
      BY <1>1 DEF Moving
    <3> QED  BY <1>2, <3>1 DEF ShareInv, FsInv
  <2>8. TaskBecomes(t, task[t]) /\ call'[t].flags = call[t].flags
    BY <1>1, <2>1, <2>2, Stays
  <2> QED  BY <1>1, <1>2, <2>5, <2>6, <2>7, <2>8, WithinKept
<1> QED  BY <1>3, <1>4

LEMMA ReturnShares ==
  ASSUME Typed, ForkInv, CountInv, ShareInv, NEW t \in Tasks, PrepareFails(t) \/ PutOld(t)
  PROVE  ShareInv'
<1>1. Sources(t)
  BY PrepareFailsCounts, PutOldCounts
<1>2. UNCHANGED task /\ call'[t] = InUserMode
  BY ReturnEffect, CallBecomesType
<1>3. Quiet
  BY <1>2 DEF Quiet, Running
<1>4. InUserMode.at \notin UnshareSteps /\ call[t].at # "install"
  BY InUserModeType, UnsharePoints DEF PrepareFails, PutOld, At
<1> QED  BY <1>1, <1>2, <1>3, <1>4, UserFlags, OutsideKept

\* The task takes its new mount namespace: nobody else uses the file system it has, or it
\* is moving to one of its own.
LEMMA SwitchShares ==
  ASSUME Typed, ForkInv, CountInv, CountInv', ShareInv, NEW t \in Tasks, Sources(t),
         SwitchTaskNamespaces(t)
  PROVE  ShareInv'
<1>1. PICK x, y : SwitchDone(t, x, y)
  BY SwitchEffect
<1>2. call[t].at = "switch" /\ call[t].at \in UnshareSteps /\ Running(t)
  BY UnsharePoints, UnsharerRuns DEF SwitchTaskNamespaces, At
<1>3. {"fs", "files", "user", "ns", "signal", "sighand", "mm"} \subseteq Kinds
  BY KindNames
<1>4. /\ TaskBecomes(t, x) /\ x.state = task[t].state /\ x.held = task[t].held
      /\ x.ptr = Taken(t, {"ns"})
      /\ CallBecomes(t, y) /\ y.at = "install" /\ y.flags = call[t].flags
      /\ y.new = [call[t].new EXCEPT !["ns"] = NoObject]
  BY <1>1 DEF SwitchDone, TakesDone, StepsOnward, Same
<1>5. /\ \A k \in Kinds \ {"ns"} : x.ptr[k] = task[t].ptr[k]
      /\ call[t].new["ns"] = NoObject => x.ptr["ns"] = task[t].ptr["ns"]
      /\ \A k \in Kinds : y.new[k] = IF k = "ns" THEN NoObject ELSE call[t].new[k]
  BY <1>3, <1>4, Members DEF Taken, Ptr
<1>6. /\ \A u \in Tasks : task'[u] = IF u = t THEN x ELSE task[u]
      /\ \A u \in Tasks : call'[u] = IF u = t THEN y ELSE call[u]
  BY <1>4, TaskBecomesType, CallBecomesType
<1>7. CallFlags(call[t]) /\ FsApart(t)
  BY DEF ShareInv, CallsInv
<1>8. CallFlags(call[t])'
  <2>1. y.at \notin StageNames /\ y.at \in UnshareSteps
    BY <1>4, PointNames, UnsharePoints
  <2>2. CallFlags(y)
    BY <1>2, <1>3, <1>4, <1>5, <1>7, <2>1 DEF CallFlags
  <2> QED  BY <1>6, <2>2 DEF CallFlags, Acceptable
<1>9. FsApart(t)'
  <2> SUFFICES ASSUME "FS" \in call[t].flags
               PROVE  IF call[t].new["fs"] = NoObject THEN SoleHas(t, "fs")' ELSE SolePrep(t, "fs")'
    BY <1>3, <1>4, <1>5, <1>6 DEF FsApart
  <2>1. \A u \in Tasks : task'[u].ptr["fs"] = task[u].ptr["fs"] /\ task'[u].held = task[u].held
    BY <1>3, <1>4, <1>5, <1>6
  <2>2. \A u \in Tasks : \A o : PrepObj(call'[u], "fs", o) <=> PrepObj(call[u], "fs", o)
    BY <1>2, <1>3, <1>4, <1>5, <1>6 DEF PrepObj
  <2>3. call'[t].new["fs"] = call[t].new["fs"]
    BY <1>3, <1>5, <1>6
  <2>4. CASE call[t].new["fs"] = NoObject
    <3>1. SoleHas(t, "fs")
      BY <1>2, <1>7, <2>4 DEF FsApart
    <3> QED  BY <2>1, <2>2, <2>4, <3>1 DEF SoleHas, HasObj
  <2>5. CASE call[t].new["fs"] # NoObject
    <3>1. SolePrep(t, "fs")
      BY <1>2, <1>7, <2>5 DEF FsApart
    <3> QED  BY <2>1, <2>2, <2>3, <2>5, <3>1 DEF SolePrep, HasObj
  <2> QED  BY <2>4, <2>5
<1>10. ASSUME NEW v \in Tasks \ {t}, Running(v), ~Moving(v), ~Moving(t)',
              task[v].ptr["fs"] = x.ptr["fs"]
       PROVE  \A k \in {"ns", "user"} : task[v].ptr[k] = x.ptr[k]
  <2>1. call[t].new["fs"] = NoObject
    BY <1>3, <1>4, <1>5, <1>6, <1>10 DEF Moving
  <2>2. CASE call[t].new["ns"] = NoObject
    <3>1. ~Moving(t) /\ task[v].ptr["fs"] = task[t].ptr["fs"]
      BY <1>2, <1>3, <1>5, <1>10 DEF Moving
    <3>2. \A k \in {"ns", "user"} : task[v].ptr[k] = task[t].ptr[k]
      BY <1>2, <1>10, <3>1 DEF ShareInv, FsInv
    <3> QED  BY <1>3, <1>5, <2>2, <3>2
  <2>3. CASE call[t].new["ns"] # NoObject
    <3>1. "FS" \in call[t].flags
      BY <1>2, <1>7, <2>3 DEF CallFlags
    <3>2. SoleHas(t, "fs")
      BY <1>2, <1>7, <2>1, <3>1 DEF FsApart
    <3>3. HasObj(task[v], "fs", task[t].ptr["fs"])
      BY <1>3, <1>5, <1>10, RunningHas DEF CountInv
    <3> QED  BY <3>2, <3>3 DEF SoleHas
  <2> QED  BY <2>2, <2>3
<1>11. call'[t].flags = call[t].flags /\ \A k \in {"signal", "sighand", "mm", "user"} :
         x.ptr[k] = task[t].ptr[k]
  BY <1>3, <1>4, <1>5, <1>6
<1> QED  BY <1>2, <1>4, <1>8, <1>9, <1>10, <1>11, WithinKept

\* It takes its new file system, which nobody else has.
LEMMA InstallShares ==
  ASSUME Typed, ForkInv, CountInv, CountInv', ShareInv, NEW t \in Tasks, Sources(t), Install(t)
  PROVE  ShareInv'
<1>1. PICK x, y : InstallDone(t, x, y)
  BY InstallEffect
<1>2. call[t].at = "install" /\ call[t].at \in UnshareSteps /\ Running(t)
  BY UnsharePoints, UnsharerRuns DEF Install, At
<1>3. {"fs", "files", "user", "ns", "signal", "sighand", "mm"} \subseteq Kinds
  BY KindNames
<1>4. /\ TaskBecomes(t, x) /\ x.state = task[t].state /\ x.held = task[t].held
      /\ x.ptr = Taken(t, {"fs", "files"})
      /\ CallBecomes(t, y) /\ y.at = "commit" /\ y.flags = call[t].flags
      /\ y.new = [call[t].new EXCEPT !["fs"] = OldFs(t), !["files"] = OldFd(t)]
  BY <1>1 DEF InstallDone, TakesDone, StepsOnward, Same
<1>5. /\ \A k \in Kinds \ {"fs", "files"} : x.ptr[k] = task[t].ptr[k]
      /\ x.ptr["fs"] = IF call[t].new["fs"] = NoObject THEN task[t].ptr["fs"]
                       ELSE call[t].new["fs"]
      /\ \A k \in Kinds \ {"fs", "files"} : y.new[k] = call[t].new[k]
      /\ y.new["fs"] = OldFs(t)
  BY <1>3, <1>4, Members DEF Taken, Ptr
<1>6. /\ \A u \in Tasks : task'[u] = IF u = t THEN x ELSE task[u]
      /\ \A u \in Tasks : call'[u] = IF u = t THEN y ELSE call[u]
  BY <1>4, TaskBecomesType, CallBecomesType
<1>7. CallFlags(call[t]) /\ FsApart(t)
  BY DEF ShareInv, CallsInv
<1>8. CallFlags(call[t])'
  <2>1. y.at \notin StageNames /\ y.at \in UnshareSteps
    BY <1>4, PointNames, UnsharePoints
  <2>2. y.new["fs"] # NoObject => call[t].new["fs"] # NoObject
    BY <1>5 DEF OldFs
  <2>3. y.new["ns"] = call[t].new["ns"] /\ y.new["user"] = call[t].new["user"]
    BY <1>3, <1>5
  <2>4. CallFlags(y)
    BY <1>2, <1>4, <1>7, <2>1, <2>2, <2>3 DEF CallFlags
  <2> QED  BY <1>6, <2>4 DEF CallFlags, Acceptable
<1>9. ASSUME "FS" \in call[t].flags
      PROVE  \A v \in Tasks : /\ HasObj(task'[v], "fs", x.ptr["fs"]) => v = t
                              /\ ~PrepObj(call'[v], "fs", x.ptr["fs"])
  <2> SUFFICES ASSUME NEW v \in Tasks \ {t}
               PROVE  ~HasObj(task[v], "fs", x.ptr["fs"]) /\ ~PrepObj(call[v], "fs", x.ptr["fs"])
    BY <1>4, <1>6 DEF PrepObj
  <2>1. CASE call[t].new["fs"] = NoObject
    <3>1. SoleHas(t, "fs")
      BY <1>2, <1>7, <1>9, <2>1 DEF FsApart
    <3> QED  BY <1>5, <2>1, <3>1 DEF SoleHas
  <2>2. CASE call[t].new["fs"] # NoObject
    <3>1. SolePrep(t, "fs")
      BY <1>2, <1>7, <1>9, <2>2 DEF FsApart
    <3> QED  BY <1>5, <2>2, <3>1 DEF SolePrep
  <2> QED  BY <2>1, <2>2
<1>10. FsApart(t)'
  BY <1>4, <1>6, <1>9 DEF FsApart, SoleHas, HasObj, PrepObj
<1>11. ASSUME NEW v \in Tasks \ {t}, Running(v), ~Moving(v), ~Moving(t)',
              task[v].ptr["fs"] = x.ptr["fs"]
       PROVE  \A k \in {"ns", "user"} : task[v].ptr[k] = x.ptr[k]
  <2>1. CASE call[t].new["fs"] = NoObject
    <3>1. ~Moving(t) /\ task[v].ptr["fs"] = task[t].ptr["fs"]
      BY <1>5, <1>11, <2>1 DEF Moving
    <3>2. \A k \in {"ns", "user"} : task[v].ptr[k] = task[t].ptr[k]
      BY <1>2, <1>11, <3>1 DEF ShareInv, FsInv
    <3> QED  BY <1>3, <1>5, <3>2
  <2>2. CASE call[t].new["fs"] # NoObject
    <3>1. "FS" \in call[t].flags
      BY <1>2, <1>7, <2>2 DEF CallFlags
    <3>2. HasObj(task'[v], "fs", x.ptr["fs"])
      BY <1>3, <1>6, <1>11, RunningHas DEF CountInv
    <3> QED  BY <1>9, <3>1, <3>2
  <2> QED  BY <2>1, <2>2
<1>12. call'[t].flags = call[t].flags /\ \A k \in {"signal", "sighand", "mm", "user"} :
         x.ptr[k] = task[t].ptr[k]
  BY <1>3, <1>4, <1>5, <1>6
<1> QED  BY <1>2, <1>4, <1>8, <1>10, <1>11, <1>12, WithinKept

\* It takes its new user namespace: it is a single thread, with a file system of its own.
LEMMA CommitShares ==
  ASSUME Typed, ForkInv, CountInv, CountInv', ShareInv, NEW t \in Tasks, Sources(t),
         CommitCreds(t)
  PROVE  ShareInv'
<1>1. PICK x, y : CommitDone(t, x, y)
  BY CommitEffect
<1>2. call[t].at = "commit" /\ call[t].at \in UnshareSteps /\ Running(t)
  BY UnsharePoints, UnsharerRuns DEF CommitCreds, At
<1>3. {"fs", "files", "user", "ns", "signal", "sighand", "mm"} \subseteq Kinds
  BY KindNames
<1>4. /\ TaskBecomes(t, x) /\ x.state = task[t].state /\ x.held = task[t].held
      /\ x.ptr = Taken(t, {"user"})
      /\ CallBecomes(t, y) /\ y.at = "put" /\ y.flags = call[t].flags
  BY <1>1 DEF CommitDone, TakesDone, StepsOnward, Same
<1>5. /\ \A k \in Kinds \ {"user"} : x.ptr[k] = task[t].ptr[k]
      /\ call[t].new["user"] = NoObject => x.ptr["user"] = task[t].ptr["user"]
  BY <1>3, <1>4 DEF Taken
<1>6. /\ \A u \in Tasks : task'[u] = IF u = t THEN x ELSE task[u]
      /\ \A u \in Tasks : call'[u] = IF u = t THEN y ELSE call[u]
  BY <1>4, TaskBecomesType, CallBecomesType
<1>7. CallFlags(call[t]) /\ FsApart(t) /\ AloneFor(t)
  BY DEF ShareInv, CallsInv
<1>8. CallFlags(call[t])'
  <2>1. y.at \notin StageNames /\ y.at \in UnshareSteps
    BY <1>4, PointNames, UnsharePoints
  <2>2. CallFlags(y)
    BY <1>2, <1>4, <1>7, <2>1 DEF CallFlags
  <2> QED  BY <1>6, <2>2 DEF CallFlags, Acceptable
<1>9. FsApart(t)'
  BY <1>4, <1>6 DEF FsApart
<1>10. ~Moving(t)
  BY <1>2 DEF Moving
<1>11. ASSUME NEW v \in Tasks \ {t}, Running(v), ~Moving(v), ~Moving(t)',
              task[v].ptr["fs"] = x.ptr["fs"]
       PROVE  \A k \in {"ns", "user"} : task[v].ptr[k] = x.ptr[k]
  <2>1. task[v].ptr["fs"] = task[t].ptr["fs"]
    BY <1>3, <1>5, <1>11
  <2>2. CASE call[t].new["user"] = NoObject
    <3>1. \A k \in {"ns", "user"} : task[v].ptr[k] = task[t].ptr[k]
      BY <1>2, <1>10, <1>11, <2>1 DEF ShareInv, FsInv
    <3> QED  BY <1>3, <1>5, <2>2, <3>1
  <2>3. CASE call[t].new["user"] # NoObject
    <3>1. "FS" \in call[t].flags
      BY <1>2, <1>7, <2>3 DEF CallFlags
    <3>2. SoleHas(t, "fs")
      BY <1>2, <1>7, <3>1 DEF FsApart
    <3>3. HasObj(task[v], "fs", task[t].ptr["fs"])
      BY <1>3, <1>11, <2>1, RunningHas DEF CountInv
    <3> QED  BY <3>2, <3>3 DEF SoleHas
  <2> QED  BY <2>2, <2>3
<1>12. x.ptr["user"] = task[t].ptr["user"] \/ GroupAlone(t)
  <2>1. call[t].new["user"] # NoObject => "THREAD" \in call[t].flags
    BY <1>2, <1>7 DEF CallFlags
  <2> QED  BY <1>2, <1>5, <1>7, <2>1 DEF AloneFor
<1>13. call'[t].flags = call[t].flags /\ \A k \in {"signal", "sighand", "mm"} :
         x.ptr[k] = task[t].ptr[k]
  BY <1>3, <1>4, <1>5, <1>6
<1> QED  BY <1>2, <1>4, <1>8, <1>9, <1>11, <1>12, <1>13, WithinKept

LEMMA ShareStep ==
  ASSUME Typed, ForkInv, CountInv, ShareInv, [Next]_vars
  PROVE  ShareInv'
<1>1. CASE KillGroup \/ UNCHANGED vars
  <2>1. /\ UNCHANGED call
        /\ \A u \in Tasks : task'[u].state = task[u].state /\ task'[u].ptr = task[u].ptr
                            /\ task'[u].held = task[u].held
    <3>1. CASE KillGroup
      BY <3>1, KillEffect DEF KillDone, Same
    <3>2. CASE UNCHANGED vars
      BY <3>2 DEF vars
    <3> QED  BY <1>1, <3>1, <3>2
  <2>2. FsInv' /\ ThreadInv'
    BY <2>1 DEF ShareInv, FsInv, ThreadInv, Moving, Running, Signal
  <2>3. ASSUME NEW u \in Tasks
        PROVE  /\ \A k : SoleHas(u, k) => SoleHas(u, k)'
               /\ \A k : SolePrep(u, k) => SolePrep(u, k)'
               /\ GroupAlone(u) => GroupAlone(u)'
               /\ AloneInMemory(u) => AloneInMemory(u)'
    BY <2>1 DEF SoleHas, SolePrep, GroupAlone, AloneInMemory, HasObj, PrepObj, InGrp, Signal,
                Running
  <2>4. ASSUME NEW u \in Tasks
        PROVE  CallFlags(call[u])' /\ FsApart(u)' /\ AloneFor(u)' /\ MemAlone(u)'
    <3>1. CallFlags(call[u]) /\ FsApart(u) /\ AloneFor(u) /\ MemAlone(u)
      BY DEF ShareInv, CallsInv
    <3>2. CallFlags(call[u])'
      BY <2>1, <3>1 DEF CallFlags, Acceptable
    <3>3. FsApart(u)' /\ AloneFor(u)' /\ MemAlone(u)'
      BY <2>1, <2>3, <3>1 DEF FsApart, AloneFor, MemAlone
    <3> QED  BY <3>2, <3>3
  <2> QED  BY <2>2, <2>4 DEF ShareInv, CallsInv
<1>2. ASSUME NEW t \in Tasks, UnshareSyscall(t)
      PROVE  ShareInv'
  <2>1. CountInv' /\ Sources(t)
    BY <1>2, UnshareCounts
  <2> QED  BY <1>2, <2>1, PrepareNewShares, ReturnShares, SwitchShares, InstallShares,
              CommitShares DEF UnshareSyscall
<1>3. ASSUME NEW t \in Tasks, CopySteps(t)
      PROVE  ShareInv'
  BY <1>3, StageShares, PublishShares
<1> QED  BY <1>1, <1>2, <1>3, CloneShares, BeginShares, ReapShares DEF Next

LEMMA InitShare == Init => ShareInv
<1> SUFFICES ASSUME Init PROVE ShareInv
  OBVIOUS
<1>1. PICK f \in SecondFlagSets : Started(f)
  BY DEF Init
<1>2. Acceptable(f)
  BY SecondFlagsAssumption
<1>3. \A t \in Tasks : call[t] = InUserMode
  BY DEF Init
<1>4. CallsInv
  <2>1. InUserMode.at \notin UnshareSteps
    BY InUserModeType, UnsharePoints
  <2> QED  BY <1>3, <2>1, UserFlags, UnsharePoints DEF CallsInv, FsApart, AloneFor, MemAlone
<1>5. \A t \in Tasks : Running(t) => t \in {FirstTask, SecondTask}
  BY <1>1, StartedTasks, FreeTaskType DEF Running
<1>6. FirstTask \in Tasks /\ SecondTask \in Tasks /\ FirstTask # SecondTask
  BY TasksAssumption
<1>7. \A k \in Kinds : /\ task[FirstTask].ptr[k] = First
                       /\ task[SecondTask].ptr[k] = IF Shares(k, f) THEN First ELSE Second
  <2>1. FirstPtr \in Ptr /\ SecondPtr(f) \in Ptr
    BY FirstSecond DEF FirstPtr, SecondPtr, Ptr
  <2>2. task[FirstTask].ptr = FirstPtr /\ task[SecondTask].ptr = SecondPtr(f)
    BY <1>1, <2>1, StartedTasks, VisibleType
  <2> QED  BY <2>2 DEF FirstPtr, SecondPtr
<1>8. First # Second
  BY FirstSecond
<1>9. {"fs", "files", "user", "ns", "signal", "sighand", "mm"} \subseteq Kinds
  BY KindNames
<1>10. FsInv
  <2>1. Shares("fs", f) => Shares("ns", f) /\ Shares("user", f)
    BY <1>2 DEF Acceptable, Shares
  <2>2. task[FirstTask].ptr["fs"] = task[SecondTask].ptr["fs"] =>
          \A k \in {"ns", "user"} : task[FirstTask].ptr[k] = task[SecondTask].ptr[k]
    BY <1>7, <1>8, <1>9, <2>1
  <2> QED  BY <1>5, <2>2 DEF FsInv
<1>11. ThreadInv
  <2>1. Shares("signal", f) => Shares("sighand", f) /\ Shares("mm", f) /\ Shares("user", f)
    BY <1>2 DEF Acceptable, Shares
  <2>2. task[FirstTask].ptr["signal"] = task[SecondTask].ptr["signal"] =>
          \A k \in {"sighand", "mm", "user"} : task[FirstTask].ptr[k] = task[SecondTask].ptr[k]
    BY <1>7, <1>8, <1>9, <2>1
  <2> QED  BY <1>5, <2>2 DEF ThreadInv, Signal
<1> QED  BY <1>4, <1>10, <1>11 DEF ShareInv

\* The threads of a group share their signal handlers, their memory and their user
\* namespace, tasks with one root and working directory are in the same mount and user
\* namespaces, and a task in unshare stays alone in what unshare has found it alone in: for
\* any number of tasks in clone, unshare and exit at the same time, with any flags.
THEOREM RulesHold == Spec => []SharingRules
<1>1. Init => ShareInv
  BY InitShare
<1>2. (Typed /\ ForkInv /\ CountInv) /\ ShareInv /\ [Next]_vars => ShareInv'
  BY ShareStep
<1>3. Typed /\ ForkInv /\ CountInv /\ ShareInv => SharingRules
  <2> SUFFICES ASSUME Typed, ForkInv, CountInv, ShareInv PROVE SharingRules
    OBVIOUS
  <2>1. ThreadsShare
    BY DEF ShareInv, ThreadInv, ThreadsShare
  <2>2. FsSharesNamespace
    <3>1. \A t \in Tasks : Moving(t) => Leaving(t)
      BY DEF Moving, Leaving
    <3> QED  BY <3>1 DEF ShareInv, FsInv, FsSharesNamespace
  <2>3. UnshareMeansAlone
    <3> SUFFICES ASSUME NEW t \in Tasks, call[t].at \in UnshareSteps
                 PROVE  /\ "THREAD"  \in call[t].flags => AloneInGroup(t)
                        /\ "SIGHAND" \in call[t].flags => AloneInSighand(t)
                        /\ "VM"      \in call[t].flags => AloneInMemory(t)
      BY DEF UnshareMeansAlone
    <3>1. Running(t) /\ "sighand" \in Kinds
      BY UnsharerRuns, KindNames
    <3>2. /\ "THREAD"  \in call[t].flags => GroupAlone(t)
          /\ "SIGHAND" \in call[t].flags => SoleHas(t, "sighand")
          /\ "VM"      \in call[t].flags => AloneInMemory(t)
      BY DEF ShareInv, CallsInv, AloneFor, MemAlone
    <3> QED  BY <3>1, <3>2, GroupAloneIs, SoleIs DEF AloneInSighand
  <2> QED  BY <2>1, <2>2, <2>3 DEF SharingRules
<1> QED  BY <1>1, <1>2, <1>3, CountAlways, PTL DEF Spec

=============================================================================
