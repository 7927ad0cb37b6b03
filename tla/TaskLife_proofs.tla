--------------------------- MODULE TaskLife_proofs ---------------------------
(***************************************************************************)
(* Theorems about TaskLife, for any number of forks, any cache of stacks   *)
(* and any writers of the signal module's file: references, dead records   *)
(* and stacks are exact, a vfork is safe, and nobody uses a freed task.    *)
(***************************************************************************)
EXTENDS TaskLife, FiniteSetTheorems, SequenceTheorems, WellFoundedInduction, TLAPS

-----------------------------------------------------------------------------
(* Names, least elements, sequences.                                       *)

LEMMA Numbers ==
  /\ Tasks \subseteq Nat /\ None \in Nat /\ None \notin Tasks
  /\ InitTask \in Tasks /\ Shell \in Tasks /\ InitTask # Shell
  /\ 1 .. CacheSlots \subseteq Nat
BY BoundsAssumption DEF Tasks, None, InitTask, Shell

LEMMA TasksFinite == IsFiniteSet(Tasks) /\ \A s \in SUBSET Tasks : IsFiniteSet(s)
<1>1. IsFiniteSet(Tasks)
  BY BoundsAssumption, FS_Interval DEF Tasks
<1> QED  BY <1>1, FS_Subset

\* A set of numbers has a least one, by the well-foundedness of < on Nat.
LEMMA Least ==
  ASSUME NEW S \in SUBSET Nat, S # {}
  PROVE  \E m \in S : \A n \in S : m <= n
<1> DEFINE R == {p \in Nat \X Nat : p[1] < p[2]}
<1>1. IsWellFoundedOn(R, Nat)
  BY NatLessThanWellFounded DEF OpToRel
<1>2. PICK m \in S : \A n \in S : ~(<<n, m>> \in R)
  <2> HIDE DEF R
  <2> QED  BY <1>1, WFMin
<1>3. \A n \in S : n \in Nat /\ m \in Nat /\ ~(n < m)
  BY <1>2
<1> QED  BY <1>3

LEMMA FirstIn ==
  ASSUME NEW S \in SUBSET Nat, S # {}
  PROVE  First(S) \in S
BY Least DEF First

\* What is left of a sequence when the element at position i is removed.
LEMMA RemoveDoes ==
  ASSUME NEW S, NEW s \in Seq(S), NEW i \in DOMAIN s
  PROVE  /\ RemoveAt(s, i) \in Seq(S)
         /\ Len(RemoveAt(s, i)) = Len(s) - 1
         /\ \A j \in 1 .. Len(s) - 1 : RemoveAt(s, i)[j] = IF j < i THEN s[j] ELSE s[j + 1]
<1> DEFINE front == SubSeq(s, 1, i - 1)
           back  == SubSeq(s, i + 1, Len(s))
<1>1. Len(s) \in Nat /\ DOMAIN s = 1 .. Len(s) /\ i \in 1 .. Len(s)
  OBVIOUS
<1>2. front \in Seq(S) /\ Len(front) = i - 1 /\ \A j \in 1 .. i - 1 : front[j] = s[j]
  BY <1>1
<1>3. back \in Seq(S) /\ Len(back) = Len(s) - i /\ \A j \in 1 .. Len(s) - i : back[j] = s[i + j]
  BY <1>1
<1>4. RemoveAt(s, i) = front \o back
  BY DEF RemoveAt
<1> HIDE DEF front, back
<1>5. front \o back \in Seq(S) /\ Len(front \o back) = Len(s) - 1
  <2>1. front \o back \in Seq(S) /\ Len(front \o back) = Len(front) + Len(back)
    BY <1>2, <1>3, ConcatProperties, Zenon
  <2> QED  BY <1>1, <1>2, <1>3, <2>1
<1>6. ASSUME NEW j \in 1 .. Len(s) - 1
      PROVE  (front \o back)[j] = IF j < i THEN s[j] ELSE s[j + 1]
  <2>1. CASE j < i
    BY <1>1, <1>2, <1>3, <2>1
  <2>2. CASE ~(j < i)
    <3>1. (front \o back)[j] = back[j - Len(front)]
      BY <1>1, <1>2, <1>3, <2>2
    <3>2. j - Len(front) \in 1 .. Len(s) - i /\ i + (j - Len(front)) = j + 1
      BY <1>1, <1>2, <2>2
    <3> QED  BY <1>3, <2>2, <3>1, <3>2
  <2> QED  BY <2>1, <2>2
<1> QED  BY <1>4, <1>5, <1>6

-----------------------------------------------------------------------------
(* What the actions do to the records of tasks and calls.                  *)

States == {"unborn", "new", "running", "zombie", "reaped", "freed", "undone"}
Points == {"user", "copied", "wait", "killed", "put", "put_killed", "release", "locked",
           "exit", "gone"}
TaskType == [state : States, usage : 0 .. 3, parent : Tasks \cup {None},
             vfork : Tasks \cup {None}, stack : Tasks \cup {None}, borrows : BOOLEAN,
             switched : BOOLEAN, grace : SUBSET Signallers, sibling : BOOLEAN]
CallType == [at : Points, child : Tasks \cup {None}, vfork : BOOLEAN, sibling : BOOLEAN,
             frame : Tasks \cup {None}, exec : BOOLEAN]

TaskIs(c, x) == c \in Tasks /\ x \in TaskType /\ task' = [task EXCEPT ![c] = x]
CallIs(t, y) == t \in Tasks /\ y \in CallType /\ call' = [call EXCEPT ![t] = y]

LEMMA Members ==
  ASSUME TypeOK
  PROVE  /\ task \in [Tasks -> TaskType] /\ call \in [Tasks -> CallType]
         /\ \A t \in Tasks : task[t] \in TaskType /\ call[t] \in CallType
         /\ DOMAIN cache = 1 .. CacheSlots
         /\ \A i \in DOMAIN cache : cache[i] \in Tasks \cup {None}
BY DEF TypeOK, TaskType, CallType, States, Points

\* Records stay in their types when fields are set to values of theirs.
LEMMA SetTask ==
  ASSUME NEW x \in TaskType, NEW st \in States, NEW u \in 0 .. 3, NEW k \in Tasks \cup {None},
         NEW b \in BOOLEAN, NEW w \in BOOLEAN
  PROVE  /\ [x EXCEPT !.state = st, !.usage = u, !.stack = k, !.borrows = b] \in TaskType
         /\ [x EXCEPT !.state = st, !.usage = u, !.stack = k, !.borrows = b, !.switched = w] \in TaskType
BY DEF TaskType

LEMMA SetCall ==
  ASSUME NEW y \in CallType, NEW a \in Points, NEW c \in Tasks \cup {None}, NEW v \in BOOLEAN,
         NEW l \in BOOLEAN
  PROVE  [y EXCEPT !.at = a, !.child = c, !.vfork = v, !.sibling = l] \in CallType
BY DEF CallType

LEMMA UnbornType == Unborn \in TaskType
BY Numbers DEF Unborn, TaskType, States

LEMMA NoCallType == NoCall \in CallType
BY Numbers DEF NoCall, CallType, Points

\* A task that is unborn is found, and the cache gives it a stack or has none to give.
LEMMA NewbornDoes == Unused # {} => Newborn \in Tasks /\ Is(Newborn, {"unborn"})
<1> SUFFICES ASSUME Unused # {} PROVE Newborn \in Tasks /\ Is(Newborn, {"unborn"})
  OBVIOUS
<1>1. Unused \in SUBSET Nat /\ Unused \subseteq Tasks
  BY Numbers DEF Unused
<1>2. Newborn \in Unused
  BY <1>1, Least DEF Newborn
<1> QED  BY <1>2 DEF Unused

LEMMA TakeDoes ==
  ASSUME TypeOK, NEW c \in Tasks
  PROVE  \/ Full = {} /\ CacheTaken = cache /\ StackFor(c) = c
         \/ \E i \in Full : CacheTaken = [cache EXCEPT ![i] = None] /\ StackFor(c) = cache[i]
<1>1. Full \in SUBSET Nat
  BY Members, Numbers DEF Full
<1> QED  BY <1>1, FirstIn DEF CacheTaken, StackFor

LEMMA GiveDoes ==
  ASSUME TypeOK, NEW k
  PROVE  \/ Empty = {} /\ CacheGiven(k) = cache
         \/ \E i \in Empty : CacheGiven(k) = [cache EXCEPT ![i] = k]
<1>1. Empty \in SUBSET Nat
  BY Members, Numbers DEF Empty
<1> QED  BY <1>1, FirstIn DEF CacheGiven

ForkDoes(t, c, x, y) ==
  /\ t # InitTask /\ Is(t, {"running"}) /\ At(t, "user") /\ c # t /\ Is(c, {"unborn"})
  /\ TaskIs(c, x)
  /\ x.state = "new" /\ x.usage = 2 /\ x.parent = None /\ x.vfork = None
  /\ x.stack = StackFor(c) /\ x.switched = FALSE /\ x.grace = {} /\ x.sibling = FALSE
  /\ CallIs(t, y)
  /\ y.at = "copied" /\ y.child = c /\ y.frame = None
  /\ cache' = CacheTaken /\ accounted' = accounted + 1
  /\ UNCHANGED <<lock, done, callbacks, records, stale, crossed, signaller>>

LEMMA ForkEffect ==
  ASSUME TypeOK, NEW t \in Tasks, Fork(t)
  PROVE  \E c, x, y : ForkDoes(t, c, x, y)
<1>1. PICK vfork \in BOOLEAN, sibling \in BOOLEAN :
        /\ task' = [task EXCEPT ![Newborn] = Copied(t, vfork)]
        /\ call' = [call EXCEPT ![t] = [NoCall EXCEPT !.at = "copied", !.child = Newborn,
                                         !.vfork = vfork, !.sibling = sibling]]
  <2>1. PICK flags :
          /\ task' = [task EXCEPT ![Newborn] = Copied(t, "VFORK" \in flags)]
          /\ call' = [call EXCEPT ![t] = [NoCall EXCEPT !.at = "copied", !.child = Newborn,
                        !.vfork = "VFORK" \in flags, !.sibling = "PARENT" \in flags]]
    BY DEF Fork
  <2>2. ("VFORK" \in flags) \in BOOLEAN /\ ("PARENT" \in flags) \in BOOLEAN
    OBVIOUS
  <2> QED  BY <2>1, <2>2, Zenon
<1> DEFINE c == Newborn
           x == Copied(t, vfork)
           y == [NoCall EXCEPT !.at = "copied", !.child = Newborn,
                               !.vfork = vfork, !.sibling = sibling]
<1>2. /\ t # InitTask /\ Is(t, {"running"}) /\ At(t, "user") /\ Unused # {}
      /\ cache' = CacheTaken /\ accounted' = accounted + 1
      /\ UNCHANGED <<lock, done, callbacks, records, stale, crossed, signaller>>
  BY DEF Fork, AccountKernelStack, Deaths
<1>3. c \in Tasks /\ Is(c, {"unborn"}) /\ c # t
  BY <1>2, NewbornDoes DEF Is
<1>4. StackFor(c) \in Tasks \cup {None}
  BY <1>3, TakeDoes, Members DEF Full
<1>5. /\ x.state = "new" /\ x.usage = 2 /\ x.parent = None /\ x.vfork = None
      /\ x.stack = StackFor(c) /\ x.switched = FALSE /\ x.grace = {} /\ x.sibling = FALSE
  BY DEF Copied, Unborn
<1>6. x \in TaskType
  <2>1. "new" \in States /\ 2 \in 0 .. 3
    BY DEF States
  <2> QED  BY <1>4, <2>1, UnbornType, SetTask DEF Copied
<1>7. y \in CallType /\ y.at = "copied" /\ y.child = c /\ y.frame = None
  <2>1. "copied" \in Points /\ c \in Tasks \cup {None}
    BY <1>3 DEF Points
  <2>2. y \in CallType
    BY <2>1, NoCallType, SetCall
  <2> QED  BY <2>2 DEF NoCall
<1> HIDE DEF c, x, y
<1>8. ForkDoes(t, c, x, y)
  BY <1>1, <1>2, <1>3, <1>5, <1>6, <1>7 DEF ForkDoes, TaskIs, CallIs, c, x, y
<1> QED  BY <1>8

ForkFailsDoes(t, c, x) ==
  /\ At(t, "copied") /\ c = Child(t)
  /\ TaskIs(c, x)
  /\ x.state = "undone" /\ x.usage = 0 /\ x.stack = None /\ x.borrows = FALSE /\ x.switched = TRUE
  /\ x.vfork = task[c].vfork /\ x.parent = task[c].parent /\ x.sibling = task[c].sibling
  /\ CallIs(t, NoCall)
  /\ cache' = CacheGiven(task[c].stack) /\ accounted' = accounted - 1
  /\ UNCHANGED <<lock, done, callbacks, records, stale, crossed, signaller>>

LEMMA ForkFailsEffect ==
  ASSUME TypeOK, NEW t \in Tasks, Child(t) \in Tasks, ForkFails(t)
  PROVE  \E x : ForkFailsDoes(t, Child(t), x)
<1> DEFINE c == Child(t)
           x == [task[c] EXCEPT !.state = "undone", !.usage = 0, !.stack = None,
                                !.borrows = FALSE, !.switched = TRUE]
<1>1. task[c] \in TaskType
  BY Members
<1>2. /\ x \in TaskType
      /\ x.state = "undone" /\ x.usage = 0 /\ x.stack = None /\ x.borrows = FALSE /\ x.switched = TRUE
      /\ x.vfork = task[c].vfork /\ x.parent = task[c].parent /\ x.sibling = task[c].sibling
  <2>1. "undone" \in States /\ 0 \in 0 .. 3 /\ None \in Tasks \cup {None}
        /\ TRUE \in BOOLEAN /\ FALSE \in BOOLEAN
    BY DEF States
  <2>2. x \in TaskType
    BY <1>1, <2>1, SetTask
  <2> QED  BY <1>1, <2>2 DEF TaskType
<1>3. /\ At(t, "copied") /\ task' = [task EXCEPT ![c] = x] /\ call' = [call EXCEPT ![t] = NoCall]
      /\ cache' = CacheGiven(task[c].stack) /\ accounted' = accounted - 1
      /\ UNCHANGED <<lock, done, callbacks, records, stale, crossed, signaller>>
  BY DEF ForkFails, AccountKernelStack, Freed
<1> HIDE DEF x
<1>4. ForkFailsDoes(t, c, x)
  BY <1>2, <1>3, NoCallType DEF ForkFailsDoes, TaskIs, CallIs
<1> QED  BY <1>4

WakeDoes(t, c, x, y) ==
  /\ At(t, "copied") /\ c = Child(t)
  /\ TaskIs(c, x)
  /\ x.state = "running" /\ x.sibling = call[t].sibling
  /\ x.parent = IF call[t].sibling THEN task[t].parent ELSE t
  /\ x.usage = IF call[t].vfork THEN task[c].usage + 1 ELSE task[c].usage
  /\ x.vfork = IF call[t].vfork THEN c ELSE task[c].vfork
  /\ x.stack = task[c].stack /\ x.borrows = task[c].borrows /\ x.switched = task[c].switched
  /\ CallIs(t, y)
  /\ IF call[t].vfork
     THEN y.at = "wait" /\ y.child = c /\ y.vfork = TRUE /\ y.frame = call[t].frame
     ELSE y = NoCall
  /\ UNCHANGED <<lock, done, cache, accounted, callbacks, records, stale, crossed, signaller>>

LEMMA WakeEffect ==
  ASSUME TypeOK, NEW t \in Tasks, Child(t) \in Tasks, task[Child(t)].usage = 2, WakeUpNewTask(t)
  PROVE  \E x, y : WakeDoes(t, Child(t), x, y)
<1> DEFINE c == Child(t)
           r == [task[c] EXCEPT !.state = "running", !.sibling = call[t].sibling,
                                !.parent = IF call[t].sibling THEN task[t].parent ELSE t]
           x == IF call[t].vfork THEN Held([r EXCEPT !.vfork = Frame(c)]) ELSE r
           y == IF call[t].vfork THEN [call[t] EXCEPT !.at = "wait"] ELSE NoCall
<1>1. task[c] \in TaskType /\ call[t] \in CallType /\ task[t] \in TaskType
  BY Members
<1>2. /\ r \in TaskType /\ r.state = "running" /\ r.sibling = call[t].sibling
      /\ r.parent = (IF call[t].sibling THEN task[t].parent ELSE t)
      /\ r.usage = task[c].usage /\ r.vfork = task[c].vfork /\ r.stack = task[c].stack
      /\ r.borrows = task[c].borrows /\ r.switched = task[c].switched
  BY <1>1 DEF TaskType, CallType, States
<1>3. /\ At(t, "copied") /\ task' = [task EXCEPT ![c] = x] /\ call' = [call EXCEPT ![t] = y]
      /\ UNCHANGED <<lock, done, cache, accounted, callbacks, records, stale, crossed, signaller>>
  BY DEF WakeUpNewTask, Goto, Stacks, Deaths
<1> HIDE DEF r
<1>4. /\ x \in TaskType /\ x.state = "running" /\ x.sibling = call[t].sibling
      /\ x.parent = (IF call[t].sibling THEN task[t].parent ELSE t)
      /\ x.usage = (IF call[t].vfork THEN task[c].usage + 1 ELSE task[c].usage)
      /\ x.vfork = (IF call[t].vfork THEN c ELSE task[c].vfork)
      /\ x.stack = task[c].stack /\ x.borrows = task[c].borrows /\ x.switched = task[c].switched
  <2>1. CASE call[t].vfork
    <3>1. r.usage + 1 \in 0 .. 3 /\ Frame(c) \in Tasks \cup {None}
      BY <1>2 DEF Frame
    <3>2. x = [r EXCEPT !.vfork = Frame(c), !.usage = r.usage + 1]
      BY <1>2, <2>1 DEF Held, TaskType
    <3>3. x \in TaskType
      BY <1>2, <3>1, <3>2 DEF TaskType
    <3>4. /\ x.state = r.state /\ x.sibling = r.sibling /\ x.parent = r.parent
          /\ x.usage = r.usage + 1 /\ x.vfork = c
          /\ x.stack = r.stack /\ x.borrows = r.borrows /\ x.switched = r.switched
      BY <1>2, <3>2 DEF TaskType, Frame
    <3> QED  BY <1>2, <2>1, <3>3, <3>4
  <2>2. CASE ~call[t].vfork
    BY <1>2, <2>2
  <2> QED  BY <2>1, <2>2
<1>5. /\ y \in CallType
      /\ IF call[t].vfork
         THEN y.at = "wait" /\ y.child = c /\ y.vfork = TRUE /\ y.frame = call[t].frame
         ELSE y = NoCall
  <2>1. CASE call[t].vfork
    BY <1>1, <2>1 DEF CallType, Points, Child
  <2>2. CASE ~call[t].vfork
    BY <2>2, NoCallType
  <2> QED  BY <2>1, <2>2
<1> HIDE DEF x, y
<1>6. WakeDoes(t, c, x, y)
  BY <1>3, <1>4, <1>5 DEF WakeDoes, TaskIs, CallIs
<1> QED  BY <1>6

\* put_task_struct on a task that is held: the last reference frees it.
PutDoes(t, x, z) ==
  /\ TaskIs(t, z)
  /\ z.usage = x.usage - 1 /\ z.state = IF x.usage = 1 THEN "freed" ELSE x.state
  /\ z.parent = x.parent /\ z.vfork = x.vfork /\ z.stack = x.stack /\ z.borrows = x.borrows
  /\ z.switched = x.switched /\ z.grace = x.grace /\ z.sibling = x.sibling
  /\ records' = IF x.usage = 1 THEN [records EXCEPT ![t] = records[t] + 1] ELSE records
  /\ stale' = IF x.usage = 1 /\ Is(x.parent, {"freed"}) THEN stale \cup {t} ELSE stale

LEMMA PutEffect ==
  ASSUME TypeOK, NEW t \in Tasks, NEW x \in TaskType, x.usage >= 1, Put(t, x)
  PROVE  \E z : PutDoes(t, x, z)
<1> DEFINE z == [x EXCEPT !.usage = x.usage - 1, !.state = IF x.usage = 1 THEN "freed" ELSE x.state]
<1>1. x.usage \in 0 .. 3 /\ x.state \in States
  BY DEF TaskType
<1>2. x.usage - 1 \in 0 .. 3 /\ (IF x.usage = 1 THEN "freed" ELSE x.state) \in States
  BY <1>1 DEF States
<1>3. Dropped(x) = z
  BY DEF Dropped, TaskType
<1>4. z \in TaskType
  BY <1>2 DEF TaskType
<1>5. /\ z.usage = x.usage - 1 /\ z.state = (IF x.usage = 1 THEN "freed" ELSE x.state)
      /\ z.parent = x.parent /\ z.vfork = x.vfork /\ z.stack = x.stack /\ z.borrows = x.borrows
      /\ z.switched = x.switched /\ z.grace = x.grace /\ z.sibling = x.sibling
  BY <1>2 DEF TaskType
<1>6. task' = [task EXCEPT ![t] = z]
  BY <1>3 DEF Put
<1>7. /\ records' = IF x.usage = 1 THEN [records EXCEPT ![t] = records[t] + 1] ELSE records
      /\ stale' = IF x.usage = 1 /\ Is(x.parent, {"freed"}) THEN stale \cup {t} ELSE stale
  BY DEF Put
<1> HIDE DEF z
<1>8. PutDoes(t, x, z)
  BY <1>4, <1>5, <1>6, <1>7 DEF PutDoes, TaskIs
<1> QED  BY <1>8

\* The call goes on to another point.
GoesTo(t, a, y) ==
  /\ CallIs(t, y)
  /\ y.at = a /\ y.child = Child(t) /\ y.vfork = call[t].vfork /\ y.frame = call[t].frame
  /\ y.exec = call[t].exec

LEMMA GotoEffect ==
  ASSUME TypeOK, NEW t \in Tasks, NEW a \in Points, Goto(t, a)
  PROVE  \E y : GoesTo(t, a, y)
<1> DEFINE y == [call[t] EXCEPT !.at = a]
<1>1. y \in CallType /\ y.at = a /\ y.child = Child(t) /\ y.vfork = call[t].vfork
      /\ y.frame = call[t].frame /\ y.exec = call[t].exec
  BY Members DEF CallType, Child
<1>2. call' = [call EXCEPT ![t] = y]
  BY Members DEF Goto
<1> HIDE DEF y
<1>3. GoesTo(t, a, y)
  BY <1>1, <1>2 DEF GoesTo, CallIs
<1> QED  BY <1>3

ForgetDoes(t, c, x, y) ==
  /\ At(t, "killed") /\ c = Child(t) /\ lock[c] = None
  /\ TaskIs(c, x)
  /\ x.vfork = None
  /\ x.state = task[c].state /\ x.usage = task[c].usage /\ x.parent = task[c].parent
  /\ x.stack = task[c].stack /\ x.borrows = task[c].borrows /\ x.switched = task[c].switched
  /\ x.grace = task[c].grace /\ x.sibling = task[c].sibling
  /\ GoesTo(t, "put_killed", y)
  /\ UNCHANGED <<lock, done, cache, accounted, callbacks, records, stale, crossed, signaller>>

LEMMA ForgetEffect ==
  ASSUME TypeOK, NEW t \in Tasks, Child(t) \in Tasks, ForgetFrame(t)
  PROVE  \E x, y : ForgetDoes(t, Child(t), x, y)
<1> DEFINE c == Child(t)
           x == [task[c] EXCEPT !.vfork = None]
<1>1. /\ x \in TaskType /\ x.vfork = None
      /\ x.state = task[c].state /\ x.usage = task[c].usage /\ x.parent = task[c].parent
      /\ x.stack = task[c].stack /\ x.borrows = task[c].borrows /\ x.switched = task[c].switched
      /\ x.grace = task[c].grace /\ x.sibling = task[c].sibling
  BY Members DEF TaskType
<1>2. /\ At(t, "killed") /\ lock[c] = None /\ Goto(t, "put_killed")
      /\ task' = [task EXCEPT ![c] = x]
      /\ UNCHANGED <<lock, done, cache, accounted, callbacks, records, stale, crossed, signaller>>
  BY Members DEF ForgetFrame, MayLock, Stacks, Deaths
<1>3. PICK y : GoesTo(t, "put_killed", y)
  BY <1>2, GotoEffect DEF Points
<1> HIDE DEF x
<1>4. ForgetDoes(t, c, x, y)
  BY <1>1, <1>2, <1>3 DEF ForgetDoes, TaskIs
<1> QED  BY <1>4

PutChildDoes(t, c, z) ==
  /\ call[t].at \in {"put", "put_killed"} /\ c = Child(t)
  /\ PutDoes(c, task[c], z)
  /\ CallIs(t, NoCall)
  /\ done' = done \ {c}
  /\ UNCHANGED <<lock, cache, accounted, callbacks, crossed, signaller>>

LEMMA PutChildEffect ==
  ASSUME TypeOK, NEW t \in Tasks, Child(t) \in Tasks, task[Child(t)].usage >= 1, PutChild(t)
  PROVE  \E z : PutChildDoes(t, Child(t), z)
<1>1. Put(Child(t), task[Child(t)]) /\ task[Child(t)] \in TaskType
  BY Members DEF PutChild
<1>2. PICK z : PutDoes(Child(t), task[Child(t)], z)
  BY <1>1, PutEffect
<1>3. PutChildDoes(t, Child(t), z)
  BY <1>2, NoCallType DEF PutChild, PutChildDoes, CallIs, Stacks
<1> QED  BY <1>3

ReleaseDoes(t, x, y) ==
  /\ t # InitTask /\ Is(t, {"running"}) /\ At(t, "user")
  /\ TaskIs(t, x)
  /\ x.borrows = FALSE
  /\ x.vfork = task[t].vfork
  /\ x.state = task[t].state /\ x.usage = task[t].usage /\ x.parent = task[t].parent
  /\ x.stack = task[t].stack /\ x.switched = task[t].switched
  /\ x.grace = task[t].grace /\ x.sibling = task[t].sibling
  /\ CallIs(t, y)
  /\ y.at \in (IF task[t].vfork # None THEN {"release"} ELSE {"user", "exit"})
  /\ y.child = None /\ y.vfork = FALSE
  /\ UNCHANGED <<lock, done, cache, accounted, callbacks, records, stale, crossed, signaller>>

LEMMA ReleaseEffect ==
  ASSUME TypeOK, NEW t \in Tasks, MmRelease(t)
  PROVE  \E x, y : ReleaseDoes(t, x, y)
<1> DEFINE x == [task[t] EXCEPT !.borrows = FALSE]
           a(e) == IF task[t].vfork # None THEN "release" ELSE IF e THEN "user" ELSE "exit"
           y(e) == [NoCall EXCEPT !.exec = e, !.frame = task[t].vfork, !.at = a(e)]
<1>0. task[t] \in TaskType /\ FALSE \in BOOLEAN
  BY Members
<1>1. /\ x \in TaskType /\ x.borrows = FALSE /\ x.vfork = task[t].vfork
      /\ x.state = task[t].state /\ x.usage = task[t].usage /\ x.parent = task[t].parent
      /\ x.stack = task[t].stack /\ x.switched = task[t].switched
      /\ x.grace = task[t].grace /\ x.sibling = task[t].sibling
  <2>1. \A b \in BOOLEAN : [task[t] EXCEPT !.borrows = b] \in TaskType
    BY <1>0 DEF TaskType
  <2>2. x \in TaskType
    BY <1>0, <2>1
  <2> QED  BY <1>0, <2>2 DEF TaskType
<1>2. PICK e \in BOOLEAN :
        /\ t # InitTask /\ Is(t, {"running"}) /\ At(t, "user")
        /\ task' = [task EXCEPT ![t] = x] /\ call' = [call EXCEPT ![t] = y(e)]
        /\ UNCHANGED <<lock, done, cache, accounted, callbacks, records, stale, crossed, signaller>>
  BY Members DEF MmRelease, Stacks, Deaths
<1>3. /\ y(e) \in CallType /\ y(e).at = a(e) /\ y(e).child = None /\ y(e).vfork = FALSE
  <2>1. a(e) \in Points /\ task[t].vfork \in Tasks \cup {None}
    BY <1>0 DEF TaskType, Points
  <2>2. \A p \in Points, f \in Tasks \cup {None}, n \in CallType :
          [n EXCEPT !.exec = e, !.frame = f, !.at = p] \in CallType
    BY <1>2 DEF CallType
  <2>3. y(e) \in CallType
    BY <2>1, <2>2, NoCallType
  <2> QED  BY <2>3 DEF NoCall
<1> HIDE DEF x, y
<1>4. ReleaseDoes(t, x, y(e))
  BY <1>1, <1>2, <1>3 DEF ReleaseDoes, TaskIs, CallIs
<1> QED  BY <1>4

LockDoes(t, x, y) ==
  /\ At(t, "release") /\ lock[t] = None
  /\ lock' = [lock EXCEPT ![t] = t]
  /\ TaskIs(t, x)
  /\ x.vfork = None
  /\ x.state = task[t].state /\ x.usage = task[t].usage /\ x.parent = task[t].parent
  /\ x.stack = task[t].stack /\ x.borrows = task[t].borrows /\ x.switched = task[t].switched
  /\ x.grace = task[t].grace /\ x.sibling = task[t].sibling
  /\ CallIs(t, y)
  /\ y.at = "locked" /\ y.child = Child(t) /\ y.vfork = call[t].vfork /\ y.frame = task[t].vfork
  /\ UNCHANGED <<done, cache, accounted, callbacks, records, stale, crossed, signaller>>

LEMMA LockEffect ==
  ASSUME TypeOK, NEW t \in Tasks, LockVforkDone(t)
  PROVE  \E x, y : LockDoes(t, x, y)
<1> DEFINE x == [task[t] EXCEPT !.vfork = None]
           y == [call[t] EXCEPT !.at = "locked", !.frame = task[t].vfork]
<1>1. /\ x \in TaskType /\ x.vfork = None
      /\ x.state = task[t].state /\ x.usage = task[t].usage /\ x.parent = task[t].parent
      /\ x.stack = task[t].stack /\ x.borrows = task[t].borrows /\ x.switched = task[t].switched
      /\ x.grace = task[t].grace /\ x.sibling = task[t].sibling
  BY Members DEF TaskType
<1>2. /\ y \in CallType /\ y.at = "locked" /\ y.child = Child(t) /\ y.vfork = call[t].vfork
      /\ y.frame = task[t].vfork
  BY Members DEF TaskType, CallType, Points, Child
<1>3. /\ At(t, "release") /\ lock[t] = None /\ lock' = [lock EXCEPT ![t] = t]
      /\ task' = [task EXCEPT ![t] = x] /\ call' = [call EXCEPT ![t] = y]
      /\ UNCHANGED <<done, cache, accounted, callbacks, records, stale, crossed, signaller>>
  BY Members DEF LockVforkDone, ReadUnderLock, Stacks, Deaths
<1> HIDE DEF x, y
<1>4. LockDoes(t, x, y)
  BY <1>1, <1>2, <1>3 DEF LockDoes, TaskIs, CallIs
<1> QED  BY <1>4

CompleteDoes(t, y) ==
  /\ At(t, "locked")
  /\ lock' = [lock EXCEPT ![t] = None]
  /\ done' = IF call[t].frame = None THEN done ELSE done \cup {call[t].frame}
  /\ CallIs(t, y)
  /\ y.at \in {"user", "exit"} /\ y.child = None /\ y.vfork = FALSE
  /\ UNCHANGED <<task, cache, accounted, callbacks, records, stale, crossed, signaller>>

LEMMA CompleteEffect ==
  ASSUME TypeOK, NEW t \in Tasks, CompleteVforkDone(t)
  PROVE  \E y : CompleteDoes(t, y)
<1> DEFINE a == IF call[t].exec THEN "user" ELSE "exit"
           y == [NoCall EXCEPT !.at = a]
<1>1. y \in CallType /\ y.at = a /\ y.child = None /\ y.vfork = FALSE
  <2>1. a \in Points
    BY DEF Points
  <2>2. \A p \in Points, n \in CallType : [n EXCEPT !.at = p] \in CallType
    BY DEF CallType
  <2>3. y \in CallType
    BY <2>1, <2>2, NoCallType
  <2> QED  BY <2>3 DEF NoCall
<1>2. /\ At(t, "locked") /\ lock' = [lock EXCEPT ![t] = None]
      /\ done' = (IF call[t].frame = None THEN done ELSE done \cup {call[t].frame})
      /\ call' = [call EXCEPT ![t] = y]
      /\ UNCHANGED <<task, cache, accounted, callbacks, records, stale, crossed, signaller>>
  BY DEF CompleteVforkDone, Stacks, Deaths
<1> HIDE DEF y
<1>3. CompleteDoes(t, y)
  BY <1>1, <1>2 DEF CompleteDoes, CallIs
<1> QED  BY <1>3

ExitDoes(t, auto, x, y) ==
  /\ At(t, "exit")
  /\ x \in TaskType
  /\ x.state = (IF auto THEN "reaped" ELSE "zombie")
  /\ x.grace = (IF auto THEN Sections ELSE task[t].grace)
  /\ x.usage = task[t].usage /\ x.parent = task[t].parent /\ x.vfork = task[t].vfork
  /\ x.stack = task[t].stack /\ x.borrows = task[t].borrows /\ x.switched = task[t].switched
  /\ x.sibling = task[t].sibling
  /\ task' \in [Tasks -> TaskType] /\ task'[t] = x
  /\ \A c \in Tasks \ {t} :
       /\ task'[c].parent = IF c \in Children(t) THEN InitTask ELSE task[c].parent
       /\ task'[c].state = task[c].state /\ task'[c].usage = task[c].usage
       /\ task'[c].vfork = task[c].vfork /\ task'[c].stack = task[c].stack
       /\ task'[c].borrows = task[c].borrows /\ task'[c].switched = task[c].switched
       /\ task'[c].grace = task[c].grace /\ task'[c].sibling = task[c].sibling
       /\ c \notin Children(t) => task'[c] = task[c]
  /\ callbacks' = IF auto THEN Append(callbacks, t) ELSE callbacks
  /\ CallIs(t, y)
  /\ y.at = "gone" /\ y.child = None /\ y.vfork = FALSE
  /\ UNCHANGED <<lock, done, cache, accounted, records, stale, crossed, signaller>>

LEMMA ReapedDoes ==
  ASSUME NEW x \in TaskType
  PROVE  /\ Reaped(x) \in TaskType
         /\ Reaped(x).state = "reaped" /\ Reaped(x).grace = Sections
         /\ Reaped(x).usage = x.usage /\ Reaped(x).parent = x.parent /\ Reaped(x).vfork = x.vfork
         /\ Reaped(x).stack = x.stack /\ Reaped(x).borrows = x.borrows
         /\ Reaped(x).switched = x.switched /\ Reaped(x).sibling = x.sibling
<1>1. Sections \in SUBSET Signallers /\ "reaped" \in States
  BY DEF Sections, States
<1> HIDE DEF Sections
<1> QED  BY <1>1 DEF Reaped, TaskType

LEMMA ExitEffect ==
  ASSUME TypeOK, NEW t \in Tasks, ExitNotify(t)
  PROVE  \E auto \in BOOLEAN : \E x, y : ExitDoes(t, auto, x, y)
<1> DEFINE x(auto) == IF auto THEN Reaped(task[t]) ELSE [task[t] EXCEPT !.state = "zombie"]
           y == [NoCall EXCEPT !.at = "gone"]
<1>1. PICK auto \in BOOLEAN :
        /\ task' = [c \in Tasks |->
             IF c = t THEN x(auto)
             ELSE IF c \in Children(t) THEN [task[c] EXCEPT !.parent = InitTask] ELSE task[c]]
        /\ callbacks' = IF auto THEN Append(callbacks, t) ELSE callbacks
  BY DEF ExitNotify
<1>2. task[t] \in TaskType /\ \A c \in Tasks : task[c] \in TaskType
  BY Members
<1>3. /\ x(auto) \in TaskType
      /\ x(auto).state = (IF auto THEN "reaped" ELSE "zombie")
      /\ x(auto).grace = (IF auto THEN Sections ELSE task[t].grace)
      /\ x(auto).usage = task[t].usage /\ x(auto).parent = task[t].parent
      /\ x(auto).vfork = task[t].vfork /\ x(auto).stack = task[t].stack
      /\ x(auto).borrows = task[t].borrows /\ x(auto).switched = task[t].switched
      /\ x(auto).sibling = task[t].sibling
  <2>1. CASE auto
    BY <1>2, <2>1, ReapedDoes
  <2>2. CASE ~auto
    <3>1. "zombie" \in States
      BY DEF States
    <3> QED  BY <1>2, <2>2, <3>1 DEF TaskType
  <2> QED  BY <2>1, <2>2
<1> HIDE DEF x
<1>4. ASSUME NEW c \in Tasks \ {t}
      PROVE  /\ task'[c] \in TaskType
             /\ task'[c].parent = IF c \in Children(t) THEN InitTask ELSE task[c].parent
             /\ task'[c].state = task[c].state /\ task'[c].usage = task[c].usage
             /\ task'[c].vfork = task[c].vfork /\ task'[c].stack = task[c].stack
             /\ task'[c].borrows = task[c].borrows /\ task'[c].switched = task[c].switched
             /\ task'[c].grace = task[c].grace /\ task'[c].sibling = task[c].sibling
             /\ c \notin Children(t) => task'[c] = task[c]
  <2>1. CASE c \in Children(t)
    <3>1. task'[c] = [task[c] EXCEPT !.parent = InitTask]
      BY <1>1, <2>1
    <3> QED  BY <1>2, <2>1, <3>1, Numbers DEF TaskType
  <2>2. CASE c \notin Children(t)
    BY <1>1, <1>2, <2>2
  <2> QED  BY <2>1, <2>2
<1>5. task' \in [Tasks -> TaskType] /\ task'[t] = x(auto)
  BY <1>1, <1>3, <1>4
<1>6. y \in CallType /\ y.at = "gone" /\ y.child = None /\ y.vfork = FALSE
  <2>1. \A p \in Points, n \in CallType : [n EXCEPT !.at = p] \in CallType
    BY DEF CallType
  <2>2. y \in CallType
    BY <2>1, NoCallType DEF Points
  <2> QED  BY <2>2 DEF NoCall
<1>7. /\ At(t, "exit") /\ call' = [call EXCEPT ![t] = y]
      /\ UNCHANGED <<lock, done, cache, accounted, records, stale, crossed, signaller>>
  BY DEF ExitNotify, Stacks
<1> HIDE DEF y
<1>8. ExitDoes(t, auto, x(auto), y)
  BY <1>1, <1>3, <1>4, <1>5, <1>6, <1>7 DEF ExitDoes, CallIs
<1> QED  BY <1>8

ReapDoes(t, x) ==
  /\ Is(t, {"zombie"}) /\ Is(task[t].parent, {"running"})
  /\ TaskIs(t, x)
  /\ x.state = "reaped" /\ x.grace = Sections
  /\ x.usage = task[t].usage /\ x.parent = task[t].parent /\ x.vfork = task[t].vfork
  /\ x.stack = task[t].stack /\ x.borrows = task[t].borrows
  /\ x.switched = task[t].switched /\ x.sibling = task[t].sibling
  /\ callbacks' = Append(callbacks, t)
  /\ UNCHANGED <<call, lock, done, cache, accounted, records, stale, crossed, signaller>>

LEMMA ReapEffect ==
  ASSUME TypeOK, NEW t \in Tasks, Reap(t)
  PROVE  \E x : ReapDoes(t, x)
<1>1. task[t] \in TaskType /\ task' = [task EXCEPT ![t] = Reaped(task[t])]
  BY Members DEF Reap
<1>2. ReapDoes(t, Reaped(task[t]))
  BY <1>1, ReapedDoes DEF Reap, ReapDoes, TaskIs, Stacks
<1> QED  BY <1>2

RcuDoes(t, i, z) ==
  /\ task[t].grace = {}
  /\ i \in DOMAIN callbacks /\ callbacks[i] = t /\ callbacks' = RemoveAt(callbacks, i)
  /\ PutDoes(t, task[t], z)
  /\ crossed' = (crossed \/ callbacks[1] # t)
  /\ UNCHANGED <<call, lock, done, cache, accounted, signaller>>

LEMMA RcuEffect ==
  ASSUME TypeOK, NEW t \in Tasks, task[t].usage >= 1, RcuPut(t)
  PROVE  \E i, z : RcuDoes(t, i, z)
<1>1. PICK i \in DOMAIN callbacks : callbacks[i] = t /\ callbacks' = RemoveAt(callbacks, i)
  BY DEF RcuPut
<1>2. callbacks \in Seq(Tasks) /\ callbacks # <<>>
  BY <1>1 DEF TypeOK
<1>3. PICK z : PutDoes(t, task[t], z)
  BY Members, PutEffect DEF RcuPut
<1>4. RcuDoes(t, i, z)
  BY <1>1, <1>2, <1>3 DEF RcuDoes, RcuPut, Stacks
<1> QED  BY <1>4

SwitchDoes(t, z) ==
  /\ Is(t, {"zombie", "reaped"}) /\ ~task[t].switched
  /\ TaskIs(t, z)
  /\ z.switched = TRUE /\ z.stack = None
  /\ z.usage = task[t].usage - 1
  /\ z.state = IF task[t].usage = 1 THEN "freed" ELSE task[t].state
  /\ z.parent = task[t].parent /\ z.vfork = task[t].vfork /\ z.borrows = task[t].borrows
  /\ z.grace = task[t].grace /\ z.sibling = task[t].sibling
  /\ records' = IF task[t].usage = 1 THEN [records EXCEPT ![t] = records[t] + 1] ELSE records
  /\ stale' = IF task[t].usage = 1 /\ Is(task[t].parent, {"freed"}) THEN stale \cup {t} ELSE stale
  /\ cache' = CacheGiven(task[t].stack) /\ accounted' = accounted - 1
  /\ crossed' = (crossed \/ task[t].usage = 1)
  /\ UNCHANGED <<call, lock, done, callbacks, signaller>>

LEMMA SwitchEffect ==
  ASSUME TypeOK, NEW t \in Tasks, task[t].usage >= 1, SwitchOut(t)
  PROVE  \E z : SwitchDoes(t, z)
<1> DEFINE x == [task[t] EXCEPT !.switched = TRUE, !.stack = None]
<1>1. task[t] \in TaskType
  BY Members
<1>2. x \in TaskType
  <2>1. \A b \in BOOLEAN : [task[t] EXCEPT !.switched = b, !.stack = None] \in TaskType
    BY <1>1 DEF TaskType
  <2> QED  BY <2>1
<1>3. /\ x.switched = TRUE /\ x.stack = None /\ x.usage = task[t].usage /\ x.state = task[t].state
      /\ x.parent = task[t].parent /\ x.vfork = task[t].vfork /\ x.borrows = task[t].borrows
      /\ x.grace = task[t].grace /\ x.sibling = task[t].sibling
  BY <1>1 DEF TaskType
<1>4. Put(t, x)
  BY DEF SwitchOut
<1> HIDE DEF x
<1>5. PICK z : PutDoes(t, x, z)
  BY <1>2, <1>3, <1>4, PutEffect
<1>6. /\ Is(t, {"zombie", "reaped"}) /\ ~task[t].switched
      /\ cache' = CacheGiven(task[t].stack) /\ accounted' = accounted - 1
      /\ crossed' = (crossed \/ task[t].usage = 1)
      /\ UNCHANGED <<call, lock, done, callbacks, signaller>>
  BY DEF SwitchOut, AccountKernelStack
<1>7. SwitchDoes(t, z)
  BY <1>3, <1>5, <1>6 DEF SwitchDoes, PutDoes
<1> QED  BY <1>7

\* The steps of the tasks and those of the signal module's writers.
SignalStep ==
  \E s \in Signallers : (\E t \in Tasks : FindTask(s, t)) \/ RcuReadUnlock(s) \/ SendSigInfo(s)

LEMMA NextCases ==
  ASSUME [Next]_vars
  PROVE  \/ \E t \in Tasks :
              \/ Fork(t) \/ ForkFails(t) \/ WakeUpNewTask(t)
              \/ Completed(t) \/ Killed(t) \/ ForgetFrame(t) \/ PutChild(t)
              \/ MmRelease(t) \/ LockVforkDone(t) \/ CompleteVforkDone(t)
              \/ ExitNotify(t) \/ Reap(t) \/ RcuPut(t) \/ SwitchOut(t)
         \/ SignalStep
         \/ UNCHANGED vars
BY DEF Next, Kernel, SignalStep

-----------------------------------------------------------------------------
(* The invariant.                                                          *)

Waits(u) == call[u].at \in {"wait", "killed", "put", "put_killed"}
Ended == {"zombie", "reaped", "freed"}

\* Where a task stands in the kernel tells its state and that of the child it makes or
\* waits for, and nobody else has that child.
OneCall(t) ==
  /\ At(t, "gone") <=> Is(t, Ended)
  /\ ~At(t, "user") /\ ~At(t, "gone") => Is(t, {"running"})
  /\ At(t, "copied") => Child(t) \in Tasks /\ Is(Child(t), {"new"})
  /\ Waits(t) => /\ Child(t) \in Tasks /\ call[t].vfork
                 /\ Is(Child(t), {"running", "zombie", "reaped"})
  /\ ~At(t, "copied") /\ ~Waits(t) => Child(t) = None /\ ~call[t].vfork
CallInv ==
  /\ Is(InitTask, {"running"}) /\ At(InitTask, "user")
  /\ \A t \in Tasks : OneCall(t)
  /\ \A t, u \in Tasks : Child(t) = Child(u) /\ Child(t) # None => t = u

\* References are exact, and a task is freed with the last.
Awaited(t) == \E u \in Tasks : Child(u) = t /\ Waits(u)
OneCount(t) ==
  /\ ~Is(t, {"unborn", "undone"}) =>
       task[t].usage = Referenced(t, ~task[t].switched)
                       + Referenced(t, Is(t, {"new", "running", "zombie"}) \/ Contains(callbacks, t))
                       + Referenced(t, Awaited(t))
  /\ Is(t, {"unborn"}) => task[t] = Unborn
  /\ Is(t, {"new"}) => task[t].usage = 2 /\ ~task[t].switched
  /\ Is(t, {"freed", "unborn", "undone"}) <=> task[t].usage = 0
  /\ task[t].switched => Is(t, {"zombie", "reaped", "freed", "undone"})
  /\ Contains(callbacks, t) => Is(t, {"reaped"})
Once == \A i, j \in DOMAIN callbacks : callbacks[i] = callbacks[j] => i = j
UsageInv == Once /\ \A t \in Tasks : OneCount(t)

\* A task's vfork_done leads to a frame that is waited in, and once it is complete, or
\* about to be, the task has let go of the memory.
WaitedFor(t) == \E u \in Tasks : Child(u) = t /\ call[u].at \in {"wait", "killed"}
OneVfork(t) ==
  /\ lock[t] = IF At(t, "locked") THEN t ELSE None
  /\ task[t].vfork # None =>
       task[t].vfork = t /\ t \notin done /\ ~At(t, "locked") /\ WaitedFor(t)
  /\ At(t, "locked") /\ call[t].frame # None =>
       call[t].frame = t /\ t \notin done /\ WaitedFor(t)
  /\ call[t].at \in {"release", "locked", "exit", "gone"} \/ t \in done => ~task[t].borrows
  /\ t \in done => Awaited(t)
  /\ At(t, "put") => ~task[Child(t)].borrows
VforkInv == \A t \in Tasks : OneVfork(t)

\* Stacks are named after tasks that were made.
StackInv ==
  /\ StacksExclusive
  /\ \A t \in Tasks : task[t].stack # None <=>
                        ~task[t].switched /\ ~Is(t, {"unborn", "freed", "undone"})
  /\ \A t \in Owners : ~Is(task[t].stack, {"unborn"})
  /\ \A i \in Full : ~Is(cache[i], {"unborn"})

\* The parent of a task that lives is running, and another task, and the child of a vfork
\* without CLONE_PARENT keeps its parent; while callbacks have kept their order, a task's
\* callback comes before that of its parent.
ParentInv ==
  /\ \A t \in Tasks : Is(t, {"running", "zombie"}) =>
       task[t].parent \in Tasks /\ Is(task[t].parent, {"running"})
  /\ \A t \in Tasks \ {InitTask} : task[t].parent # t
WaiterInv == \A t \in Tasks : Waits(t) /\ ~task[Child(t)].sibling => task[Child(t)].parent = t
Before(a, b) == \E i, j \in DOMAIN callbacks : i < j /\ callbacks[i] = a /\ callbacks[j] = b
OrderInv ==
  ~crossed => \A t \in Tasks : Contains(callbacks, t) =>
    /\ task[t].parent \in Tasks
    /\ Is(task[t].parent, {"running", "zombie"}) \/ Before(t, task[t].parent)
StaleInv == PpidReadable /\ \A t \in stale : Is(t, {"freed"})
FamilyInv == ParentInv /\ WaiterInv /\ OrderInv /\ StaleInv

\* What a section has found was reaped, if at all, during the section.
SectionInv ==
  \A s \in Signallers : signaller[s].at = "section" =>
    /\ Found(s) \in Tasks
    /\ \/ Is(Found(s), {"running", "zombie"})
       \/ Is(Found(s), {"reaped"}) /\ Contains(callbacks, Found(s)) /\ s \in task[Found(s)].grace

I == TypeOK /\ CallInv /\ UsageInv /\ RecordsExact /\ VforkInv /\ StackInv /\ FamilyInv /\ SectionInv

\* The variables with their types.
SignallerType == [at : {"idle", "section", "send"}, task : Tasks \cup {None}, left : 0 .. MaxSignals]

LEMMA Types ==
  ASSUME TypeOK
  PROVE  /\ task \in [Tasks -> TaskType] /\ call \in [Tasks -> CallType]
         /\ lock \in [Tasks -> Tasks \cup {None}]
         /\ done \subseteq Tasks
         /\ cache \in [1 .. CacheSlots -> Tasks \cup {None}]
         /\ accounted \in Nat /\ callbacks \in Seq(Tasks)
         /\ records \in [Tasks -> Nat]
         /\ stale \subseteq Tasks /\ crossed \in BOOLEAN
         /\ signaller \in [Signallers -> SignallerType]
BY DEF TypeOK, TaskType, CallType, States, Points, SignallerType

LEMMA TypesAgain ==
  ASSUME task' \in [Tasks -> TaskType], call' \in [Tasks -> CallType],
         lock' \in [Tasks -> Tasks \cup {None}],
         done' \subseteq Tasks,
         cache' \in [1 .. CacheSlots -> Tasks \cup {None}],
         accounted' \in Nat, callbacks' \in Seq(Tasks),
         records' \in [Tasks -> Nat],
         stale' \subseteq Tasks, crossed' \in BOOLEAN,
         signaller' \in [Signallers -> SignallerType]
  PROVE  TypeOK'
BY DEF TypeOK, TaskType, CallType, States, Points, SignallerType

\* The writers change a task's grace at most.
SignalDoes ==
  /\ task' \in [Tasks -> TaskType]
  /\ \A t \in Tasks :
       /\ task'[t].state = task[t].state /\ task'[t].usage = task[t].usage
       /\ task'[t].parent = task[t].parent /\ task'[t].vfork = task[t].vfork
       /\ task'[t].stack = task[t].stack /\ task'[t].borrows = task[t].borrows
       /\ task'[t].switched = task[t].switched /\ task'[t].sibling = task[t].sibling
       /\ task[t].grace = {} => task'[t] = task[t]
  /\ UNCHANGED <<call, lock, done, cache, accounted, callbacks, records, stale, crossed>>

LEMMA SignalEffect ==
  ASSUME TypeOK, SignalStep
  PROVE  SignalDoes
<1>1. CASE UNCHANGED <<task, call, lock, done, cache, accounted, callbacks, records, stale, crossed>>
  BY <1>1, Members DEF SignalDoes
<1>2. ASSUME NEW s \in Signallers, RcuReadUnlock(s) PROVE SignalDoes
  <2>1. task' = [t \in Tasks |-> [task[t] EXCEPT !.grace = @ \ {s}]]
    BY <1>2 DEF RcuReadUnlock
  <2>2. ASSUME NEW t \in Tasks
        PROVE  /\ task'[t] \in TaskType
               /\ task'[t].state = task[t].state /\ task'[t].usage = task[t].usage
               /\ task'[t].parent = task[t].parent /\ task'[t].vfork = task[t].vfork
               /\ task'[t].stack = task[t].stack /\ task'[t].borrows = task[t].borrows
               /\ task'[t].switched = task[t].switched /\ task'[t].sibling = task[t].sibling
               /\ task[t].grace = {} => task'[t] = task[t]
    <3> DEFINE g == task[t].grace \ {s}
    <3>1. task[t] \in TaskType /\ g \in SUBSET Signallers /\ task'[t] = [task[t] EXCEPT !.grace = g]
          /\ (task[t].grace = {} => g = task[t].grace)
      BY <2>1, Members DEF TaskType
    <3> HIDE DEF g
    <3> QED  BY <3>1 DEF TaskType
  <2>3. task' \in [Tasks -> TaskType]
    BY <2>1, <2>2
  <2> QED  BY <1>2, <2>2, <2>3 DEF SignalDoes, RcuReadUnlock, Stacks
<1> QED  BY <1>1, <1>2 DEF SignalStep, FindTask, SendSigInfo, Stacks

\* What a step may do, in a state the invariant allows.
LEMMA StepDoes ==
  ASSUME TypeOK, CallInv, UsageInv, [Next]_vars
  PROVE  \/ \E t \in Tasks :
              \/ \E c, x, y : ForkDoes(t, c, x, y)
              \/ \E x : ForkFailsDoes(t, Child(t), x)
              \/ \E x, y : WakeDoes(t, Child(t), x, y)
              \/ \E x, y : ForgetDoes(t, Child(t), x, y)
              \/ \E z : PutChildDoes(t, Child(t), z)
              \/ \E x, y : ReleaseDoes(t, x, y)
              \/ \E x, y : LockDoes(t, x, y)
              \/ \E y : CompleteDoes(t, y)
              \/ \E auto \in BOOLEAN : \E x, y : ExitDoes(t, auto, x, y)
              \/ \E x : ReapDoes(t, x)
              \/ \E i, z : RcuDoes(t, i, z)
              \/ \E z : SwitchDoes(t, z)
              \/ \E y : /\ \/ At(t, "wait") /\ Child(t) \in done /\ GoesTo(t, "put", y)
                           \/ At(t, "wait") /\ GoesTo(t, "killed", y)
                        /\ UNCHANGED <<task, lock, done, cache, accounted, callbacks, records,
                                       stale, crossed, signaller>>
         \/ SignalStep
         \/ UNCHANGED vars
<1>1. ASSUME NEW t \in Tasks, At(t, "copied") \/ Waits(t) PROVE Child(t) \in Tasks
  BY <1>1 DEF CallInv, OneCall
<1>2. ASSUME NEW t \in Tasks, At(t, "copied") PROVE task[Child(t)].usage = 2
  BY <1>1, <1>2 DEF CallInv, OneCall, UsageInv, OneCount
<1>3. ASSUME NEW t \in Tasks, Is(t, {"new", "running", "zombie", "reaped"}) PROVE task[t].usage >= 1
  <2>1. task[t].usage # 0 /\ task[t].usage \in 0 .. 3
    BY <1>3, Members DEF UsageInv, OneCount, Is, TaskType
  <2> QED  BY <2>1
<1>4. ASSUME NEW t \in Tasks, Waits(t) PROVE task[Child(t)].usage >= 1
  BY <1>1, <1>3, <1>4 DEF CallInv, OneCall, Is
<1>5. ASSUME NEW t \in Tasks, RcuPut(t) PROVE task[t].usage >= 1
  <2>1. callbacks \in Seq(Tasks) /\ \E i \in DOMAIN callbacks : callbacks[i] = t
    BY <1>5 DEF RcuPut, TypeOK
  <2>2. Contains(callbacks, t)
    BY <2>1 DEF Contains
  <2> QED  BY <1>3, <2>2 DEF UsageInv, OneCount, Is
<1>6. ASSUME NEW t \in Tasks, Completed(t) \/ Killed(t)
      PROVE  \E y : /\ \/ At(t, "wait") /\ Child(t) \in done /\ GoesTo(t, "put", y)
                       \/ At(t, "wait") /\ GoesTo(t, "killed", y)
                    /\ UNCHANGED <<task, lock, done, cache, accounted, callbacks, records,
                                   stale, crossed, signaller>>
  BY <1>6, GotoEffect DEF Completed, Killed, Stacks, Deaths, Points
<1>7. ASSUME NEW t \in Tasks, Fork(t) PROVE \E c, x, y : ForkDoes(t, c, x, y)
  BY <1>7, ForkEffect
<1>8. ASSUME NEW t \in Tasks, ForkFails(t) PROVE \E x : ForkFailsDoes(t, Child(t), x)
  BY <1>1, <1>8, ForkFailsEffect DEF ForkFails
<1>9. ASSUME NEW t \in Tasks, WakeUpNewTask(t) PROVE \E x, y : WakeDoes(t, Child(t), x, y)
  BY <1>1, <1>2, <1>9, WakeEffect DEF WakeUpNewTask
<1>10. ASSUME NEW t \in Tasks, ForgetFrame(t) PROVE \E x, y : ForgetDoes(t, Child(t), x, y)
  BY <1>1, <1>10, ForgetEffect DEF ForgetFrame, Waits, At
<1>11. ASSUME NEW t \in Tasks, PutChild(t) PROVE \E z : PutChildDoes(t, Child(t), z)
  BY <1>1, <1>4, <1>11, PutChildEffect DEF PutChild, Waits
<1>12. ASSUME NEW t \in Tasks, MmRelease(t) PROVE \E x, y : ReleaseDoes(t, x, y)
  BY <1>12, ReleaseEffect
<1>13. ASSUME NEW t \in Tasks, LockVforkDone(t) PROVE \E x, y : LockDoes(t, x, y)
  BY <1>13, LockEffect
<1>14. ASSUME NEW t \in Tasks, CompleteVforkDone(t) PROVE \E y : CompleteDoes(t, y)
  BY <1>14, CompleteEffect
<1>15. ASSUME NEW t \in Tasks, ExitNotify(t)
       PROVE  \E auto \in BOOLEAN : \E x, y : ExitDoes(t, auto, x, y)
  BY <1>15, ExitEffect
<1>16. ASSUME NEW t \in Tasks, Reap(t) PROVE \E x : ReapDoes(t, x)
  BY <1>16, ReapEffect
<1>17. ASSUME NEW t \in Tasks, RcuPut(t) PROVE \E i, z : RcuDoes(t, i, z)
  BY <1>5, <1>17, RcuEffect
<1>18. ASSUME NEW t \in Tasks, SwitchOut(t) PROVE \E z : SwitchDoes(t, z)
  BY <1>3, <1>18, SwitchEffect DEF SwitchOut, Is
<1> QED  BY <1>6, <1>7, <1>8, <1>9, <1>10, <1>11, <1>12, <1>13, <1>14, <1>15, <1>16, <1>17, <1>18, NextCases

LEMMA Enlist ==
  ASSUME TypeOK, NEW t \in Tasks, callbacks' = Append(callbacks, t)
  PROVE  /\ callbacks' \in Seq(Tasks) /\ Len(callbacks') = Len(callbacks) + 1
         /\ DOMAIN callbacks' = 1 .. Len(callbacks) + 1
         /\ \A i \in 1 .. Len(callbacks) : callbacks'[i] = callbacks[i]
         /\ callbacks'[Len(callbacks) + 1] = t
         /\ \A u : Contains(callbacks, u)' <=> Contains(callbacks, u) \/ u = t
<1>1. callbacks \in Seq(Tasks) /\ Len(callbacks) \in Nat
  BY DEF TypeOK
<1>2. /\ callbacks' \in Seq(Tasks) /\ Len(callbacks') = Len(callbacks) + 1
      /\ DOMAIN callbacks' = 1 .. Len(callbacks) + 1
      /\ \A i \in 1 .. Len(callbacks) : callbacks'[i] = callbacks[i]
      /\ callbacks'[Len(callbacks) + 1] = t
  BY <1>1
<1>3. \A u : Contains(callbacks, u)' <=> Contains(callbacks, u) \/ u = t
  BY <1>1, <1>2 DEF Contains
<1> QED  BY <1>2, <1>3

LEMMA Strike ==
  ASSUME TypeOK, Once, NEW i \in DOMAIN callbacks, callbacks' = RemoveAt(callbacks, i)
  PROVE  /\ callbacks' \in Seq(Tasks) /\ Len(callbacks') = Len(callbacks) - 1
         /\ DOMAIN callbacks' = 1 .. Len(callbacks) - 1
         /\ \A j \in 1 .. Len(callbacks) - 1 :
              callbacks'[j] = IF j < i THEN callbacks[j] ELSE callbacks[j + 1]
         /\ \A u : Contains(callbacks, u)' <=> Contains(callbacks, u) /\ u # callbacks[i]
<1>1. callbacks \in Seq(Tasks) /\ Len(callbacks) \in Nat /\ DOMAIN callbacks = 1 .. Len(callbacks)
  BY DEF TypeOK
<1>2. /\ callbacks' \in Seq(Tasks) /\ Len(callbacks') = Len(callbacks) - 1
      /\ \A j \in 1 .. Len(callbacks) - 1 :
              callbacks'[j] = IF j < i THEN callbacks[j] ELSE callbacks[j + 1]
  BY <1>1, RemoveDoes
<1>3. DOMAIN callbacks' = 1 .. Len(callbacks) - 1
  BY <1>2
<1>4. ASSUME NEW u PROVE Contains(callbacks, u)' <=> Contains(callbacks, u) /\ u # callbacks[i]
  <2>1. ASSUME NEW j \in 1 .. Len(callbacks), callbacks[j] = u, u # callbacks[i]
        PROVE  Contains(callbacks, u)'
    <3>1. CASE j < i
      <4>1. j \in 1 .. Len(callbacks) - 1 /\ callbacks'[j] = u
        BY <1>1, <1>2, <2>1, <3>1
      <4> QED  BY <1>2, <4>1 DEF Contains
    <3>2. CASE j > i
      <4>1. j - 1 \in 1 .. Len(callbacks) - 1 /\ callbacks'[j - 1] = u
        BY <1>1, <1>2, <2>1, <3>2
      <4> QED  BY <1>2, <4>1 DEF Contains
    <3> QED  BY <1>1, <2>1, <3>1, <3>2
  <2>2. ASSUME NEW j \in 1 .. Len(callbacks) - 1, callbacks'[j] = u
        PROVE  Contains(callbacks, u) /\ u # callbacks[i]
    <3>1. CASE j < i
      BY <1>1, <1>2, <2>2, <3>1 DEF Once, Contains
    <3>2. CASE ~(j < i)
      <4>1. callbacks[j + 1] = u /\ j + 1 \in 1 .. Len(callbacks) /\ j + 1 # i
        BY <1>1, <1>2, <2>2, <3>2
      <4> QED  BY <1>1, <4>1 DEF Once, Contains
    <3> QED  BY <3>1, <3>2
  <2> QED  BY <1>2, <2>1, <2>2 DEF Contains
<1> QED  BY <1>2, <1>3, <1>4

LEMMA SomeOwner ==
  ASSUME TypeOK, StackInv, NEW t \in Tasks, task[t].stack # None
  PROVE  accounted - 1 \in Nat
<1>1. t \in Owners /\ IsFiniteSet(Owners)
  BY TasksFinite DEF Owners
<1>2. Cardinality(Owners \ {t}) = Cardinality(Owners) - 1 /\ Cardinality(Owners \ {t}) \in Nat
  BY <1>1, FS_RemoveElement, FS_CardinalityType
<1> QED  BY <1>2 DEF StackInv, StacksExclusive

-----------------------------------------------------------------------------

LEMMA TypeStep == I /\ [Next]_vars => TypeOK'
<1> SUFFICES ASSUME I, [Next]_vars PROVE TypeOK'
  OBVIOUS
<1>1. /\ TypeOK /\ CallInv /\ UsageInv /\ StackInv /\ None \in Tasks \cup {None}
      /\ \A t \in Tasks : task[t] \in TaskType
      /\ task \in [Tasks -> TaskType] /\ call \in [Tasks -> CallType]
      /\ lock \in [Tasks -> Tasks \cup {None}]
      /\ done \subseteq Tasks
      /\ cache \in [1 .. CacheSlots -> Tasks \cup {None}]
      /\ accounted \in Nat /\ callbacks \in Seq(Tasks)
      /\ records \in [Tasks -> Nat]
      /\ stale \subseteq Tasks /\ crossed \in BOOLEAN
      /\ signaller \in [Signallers -> SignallerType]
  BY Types, Members DEF I
<1>2. ASSUME NEW t \in Tasks, NEW c, NEW x, NEW y, ForkDoes(t, c, x, y) PROVE TypeOK'
  <2>1. CacheTaken \in [1 .. CacheSlots -> Tasks \cup {None}]
    BY <1>1, <1>2, TakeDoes DEF ForkDoes, TaskIs
  <2> QED  BY <1>1, <1>2, <2>1, TypesAgain DEF ForkDoes, TaskIs, CallIs
<1>3. ASSUME NEW t \in Tasks, NEW x, ForkFailsDoes(t, Child(t), x) PROVE TypeOK'
  <2>1. task[Child(t)].stack \in Tasks /\ Child(t) \in Tasks
    <3>1. Child(t) \in Tasks /\ Is(Child(t), {"new"})
      BY <1>1, <1>3 DEF CallInv, OneCall, ForkFailsDoes
    <3>2. task[Child(t)].stack # None
      BY <1>1, <3>1 DEF StackInv, UsageInv, OneCount, Is
    <3> QED  BY <1>1, <3>1, <3>2 DEF TaskType
  <2>2. CacheGiven(task[Child(t)].stack) \in [1 .. CacheSlots -> Tasks \cup {None}]
    BY <1>1, <2>1, GiveDoes
  <2>3. accounted - 1 \in Nat
    BY <1>1, <2>1, SomeOwner, Numbers
  <2> QED  BY <1>1, <1>3, <2>2, <2>3, TypesAgain DEF ForkFailsDoes, TaskIs, CallIs
<1>4. ASSUME NEW t \in Tasks, NEW x, NEW y,
             \/ WakeDoes(t, Child(t), x, y) \/ ForgetDoes(t, Child(t), x, y)
             \/ ReleaseDoes(t, x, y) \/ LockDoes(t, x, y)
      PROVE  TypeOK'
  <2>1. CASE WakeDoes(t, Child(t), x, y)
    BY <1>1, <2>1, TypesAgain DEF WakeDoes, TaskIs, CallIs
  <2>2. CASE ForgetDoes(t, Child(t), x, y)
    BY <1>1, <2>2, TypesAgain DEF ForgetDoes, GoesTo, TaskIs, CallIs
  <2>3. CASE ReleaseDoes(t, x, y)
    BY <1>1, <2>3, TypesAgain DEF ReleaseDoes, TaskIs, CallIs
  <2>4. CASE LockDoes(t, x, y)
    BY <1>1, <2>4, TypesAgain DEF LockDoes, TaskIs, CallIs
  <2> QED  BY <1>4, <2>1, <2>2, <2>3, <2>4
<1>5. ASSUME NEW t \in Tasks, NEW c \in Tasks, NEW x, NEW z, PutDoes(c, x, z)
      PROVE  /\ task' \in [Tasks -> TaskType] /\ records' \in [Tasks -> Nat] /\ stale' \subseteq Tasks
  BY <1>1, <1>5 DEF PutDoes, TaskIs
<1>6. ASSUME NEW t \in Tasks, NEW z, PutChildDoes(t, Child(t), z) PROVE TypeOK'
  <2>1. Child(t) \in Tasks
    BY <1>6 DEF PutChildDoes, PutDoes, TaskIs
  <2> QED  BY <1>1, <1>5, <1>6, <2>1, TypesAgain DEF PutChildDoes, CallIs
<1>7. ASSUME NEW t \in Tasks, NEW y, CompleteDoes(t, y) PROVE TypeOK'
  <2>1. call[t].frame \in Tasks \cup {None}
    BY <1>1, Members DEF CallType
  <2> QED  BY <1>1, <1>7, <2>1, TypesAgain DEF CompleteDoes, CallIs
<1>8. ASSUME NEW t \in Tasks, NEW auto \in BOOLEAN, NEW x, NEW y, ExitDoes(t, auto, x, y) PROVE TypeOK'
  <2>1. callbacks' \in Seq(Tasks)
    BY <1>1, <1>8, Enlist DEF ExitDoes
  <2> QED  BY <1>1, <1>8, <2>1, TypesAgain DEF ExitDoes, CallIs
<1>9. ASSUME NEW t \in Tasks, NEW x, ReapDoes(t, x) PROVE TypeOK'
  <2>1. callbacks' \in Seq(Tasks)
    BY <1>1, <1>9, Enlist DEF ReapDoes
  <2> QED  BY <1>1, <1>9, <2>1, TypesAgain DEF ReapDoes, TaskIs
<1>10. ASSUME NEW t \in Tasks, NEW i, NEW z, RcuDoes(t, i, z) PROVE TypeOK'
  <2>1. callbacks' \in Seq(Tasks)
    BY <1>1, <1>10, Strike DEF RcuDoes, UsageInv
  <2>2. crossed' \in BOOLEAN
    BY <1>10 DEF RcuDoes
  <2> QED  BY <1>1, <1>5, <1>10, <2>1, <2>2, TypesAgain DEF RcuDoes
<1>11. ASSUME NEW t \in Tasks, NEW z, SwitchDoes(t, z) PROVE TypeOK'
  <2>1. task[t].stack \in Tasks
    <3>1. task[t].stack # None
      BY <1>1, <1>11 DEF StackInv, SwitchDoes, Is
    <3> QED  BY <1>1, <3>1 DEF TaskType
  <2>2. CacheGiven(task[t].stack) \in [1 .. CacheSlots -> Tasks \cup {None}]
    BY <1>1, <2>1, GiveDoes
  <2>3. accounted - 1 \in Nat
    BY <1>1, <2>1, SomeOwner, Numbers
  <2>4. crossed' \in BOOLEAN
    BY <1>11 DEF SwitchDoes
  <2> QED  BY <1>1, <1>11, <2>2, <2>3, <2>4, TypesAgain DEF SwitchDoes, TaskIs
<1>12. ASSUME NEW t \in Tasks, NEW y, NEW a, GoesTo(t, a, y),
              UNCHANGED <<task, lock, done, cache, accounted, callbacks, records, stale, crossed, signaller>>
       PROVE  TypeOK'
  BY <1>1, <1>12, TypesAgain DEF GoesTo, CallIs
<1>13. CASE SignalStep
  <2>1. SignalDoes
    BY <1>1, <1>13, SignalEffect
  <2>2. signaller' \in [Signallers -> SignallerType]
    <3>1. ASSUME NEW s \in Signallers, NEW t \in Tasks, FindTask(s, t)
          PROVE  signaller' \in [Signallers -> SignallerType]
      <4> DEFINE v == [signaller[s] EXCEPT !.at = "section", !.task = t,
                                           !.left = signaller[s].left - 1]
      <4>1. signaller[s] \in SignallerType /\ signaller[s].left > 0
        BY <1>1, <3>1 DEF FindTask
      <4>2. signaller[s].left - 1 \in 0 .. MaxSignals
        BY <4>1, BoundsAssumption DEF SignallerType
      <4>3. v \in SignallerType
        BY <4>1, <4>2 DEF SignallerType
      <4>4. signaller' = [signaller EXCEPT ![s] = v]
        BY <1>1, <3>1 DEF FindTask
      <4> HIDE DEF v
      <4> QED  BY <1>1, <4>3, <4>4
    <3>2. ASSUME NEW s \in Signallers, RcuReadUnlock(s) \/ SendSigInfo(s)
          PROVE  signaller' \in [Signallers -> SignallerType]
      <4>1. signaller[s] \in SignallerType
        BY <1>1
      <4>2. PICK v \in SignallerType : signaller' = [signaller EXCEPT ![s] = v]
        <5>1. CASE RcuReadUnlock(s)
          <6>1. [signaller[s] EXCEPT !.at = "send"] \in SignallerType
            BY <4>1 DEF SignallerType
          <6> QED  BY <1>1, <5>1, <6>1 DEF RcuReadUnlock
        <5>2. CASE SendSigInfo(s)
          <6>1. [signaller[s] EXCEPT !.at = "idle", !.task = None] \in SignallerType
            BY <1>1, <4>1 DEF SignallerType
          <6>2. signaller' = [signaller EXCEPT ![s] = [signaller[s] EXCEPT !.at = "idle", !.task = None]]
            BY <1>1, <5>2 DEF SendSigInfo
          <6> QED  BY <6>1, <6>2
        <5> QED  BY <3>2, <5>1, <5>2
      <4> QED  BY <1>1, <4>2
    <3> QED  BY <1>13, <3>1, <3>2 DEF SignalStep
  <2> QED  BY <1>1, <2>1, <2>2, TypesAgain DEF SignalDoes
<1>14. CASE UNCHANGED vars
  BY <1>1, <1>14, TypesAgain DEF vars
<1> QED  BY <1>1, <1>2, <1>3, <1>4, <1>6, <1>7, <1>8, <1>9, <1>10, <1>11, <1>12, <1>13, <1>14, StepDoes

\* Who else holds a task whose last reference is dropped: nobody.
LEMMA LastReference ==
  ASSUME TypeOK, UsageInv, NEW c \in Tasks, task[c].usage = 1, ~Is(c, {"unborn", "undone"})
  PROVE  /\ ~task[c].switched => ~Is(c, {"new", "running", "zombie"}) /\ ~Contains(callbacks, c) /\ ~Awaited(c)
         /\ Is(c, {"new", "running", "zombie"}) \/ Contains(callbacks, c) => task[c].switched /\ ~Awaited(c)
         /\ Awaited(c) => /\ task[c].switched /\ ~Contains(callbacks, c)
                          /\ ~Is(c, {"new", "running", "zombie"})
BY DEF UsageInv, OneCount, Referenced

LEMMA CallStep == I /\ [Next]_vars => CallInv'
<1> SUFFICES ASSUME I, [Next]_vars PROVE CallInv'
  OBVIOUS
<1>1. /\ TypeOK /\ CallInv /\ UsageInv /\ None \notin Tasks
      /\ task \in [Tasks -> TaskType] /\ call \in [Tasks -> CallType]
      /\ InitTask \in Tasks
  BY Types, Numbers DEF I
<1> USE DEF CallInv, OneCall, Waits, Is, At, Child, Ended
<1>2. ASSUME NEW t \in Tasks, NEW c, NEW x, NEW y, ForkDoes(t, c, x, y) PROVE CallInv'
  <2>1. \A u \in Tasks : Child(u) # c
    BY <1>1, <1>2 DEF ForkDoes, TaskIs
  <2> QED  BY <1>1, <1>2, <2>1 DEF ForkDoes, TaskIs, CallIs
<1>3. ASSUME NEW t \in Tasks, NEW x, ForkFailsDoes(t, Child(t), x) PROVE CallInv'
  BY <1>1, <1>3 DEF ForkFailsDoes, TaskIs, CallIs, NoCall
<1>4. ASSUME NEW t \in Tasks, NEW x, NEW y, WakeDoes(t, Child(t), x, y) PROVE CallInv'
  <2>1. CASE call[t].vfork
    BY <1>1, <1>4, <2>1 DEF WakeDoes, TaskIs, CallIs
  <2>2. CASE ~call[t].vfork
    BY <1>1, <1>4, <2>2 DEF WakeDoes, TaskIs, CallIs, NoCall
  <2> QED  BY <2>1, <2>2
<1>5. ASSUME NEW t \in Tasks, NEW x, NEW y, ForgetDoes(t, Child(t), x, y) PROVE CallInv'
  BY <1>1, <1>5 DEF ForgetDoes, GoesTo, TaskIs, CallIs
<1>6. ASSUME NEW t \in Tasks, NEW z, PutChildDoes(t, Child(t), z) PROVE CallInv'
  <2>1. Child(t) \in Tasks /\ Awaited(Child(t)) /\ \A u \in Tasks : Child(u) = Child(t) => u = t
    BY <1>1, <1>6 DEF PutChildDoes, Awaited
  <2>2. task[Child(t)].usage = 1 => Is(Child(t), {"reaped"})
    BY <1>1, <1>6, <2>1, LastReference DEF PutChildDoes
  <2> QED  BY <1>1, <1>6, <2>1, <2>2 DEF PutChildDoes, PutDoes, TaskIs, CallIs, NoCall
<1>7. ASSUME NEW t \in Tasks, NEW x, NEW y, ReleaseDoes(t, x, y) PROVE CallInv'
  BY <1>1, <1>7 DEF ReleaseDoes, TaskIs, CallIs
<1>8. ASSUME NEW t \in Tasks, NEW x, NEW y, LockDoes(t, x, y) PROVE CallInv'
  BY <1>1, <1>8 DEF LockDoes, TaskIs, CallIs
<1>9. ASSUME NEW t \in Tasks, NEW y, CompleteDoes(t, y) PROVE CallInv'
  BY <1>1, <1>9 DEF CompleteDoes, CallIs
<1>10. ASSUME NEW t \in Tasks, NEW auto \in BOOLEAN, NEW x, NEW y, ExitDoes(t, auto, x, y) PROVE CallInv'
  <2>1. \A u \in Tasks \ {t} : task'[u].state = task[u].state
    BY <1>10 DEF ExitDoes
  <2>2. t # InitTask /\ task[t].state = "running" /\ task'[t].state \in {"zombie", "reaped"}
    BY <1>1, <1>10 DEF ExitDoes
  <2>3. call' = [call EXCEPT ![t] = y] /\ y.at = "gone" /\ y.child = None /\ y.vfork = FALSE
        /\ call[t].at = "exit"
    BY <1>10 DEF ExitDoes, CallIs
  <2> QED  BY <1>1, <2>1, <2>2, <2>3
<1>11. ASSUME NEW t \in Tasks, NEW x, ReapDoes(t, x) PROVE CallInv'
  BY <1>1, <1>11 DEF ReapDoes, TaskIs
<1>12. ASSUME NEW t \in Tasks, NEW i, NEW z, RcuDoes(t, i, z) PROVE CallInv'
  <2>1. Contains(callbacks, t) /\ Is(t, {"reaped"})
    <3>1. Contains(callbacks, t)
      BY <1>1, <1>12 DEF RcuDoes, Contains, TypeOK
    <3> QED  BY <1>1, <3>1 DEF UsageInv, OneCount
  <2>2. task[t].usage = 1 => \A u \in Tasks : Waits(u) => Child(u) # t
    BY <1>1, <2>1, LastReference DEF Awaited
  <2> QED  BY <1>1, <1>12, <2>1, <2>2 DEF RcuDoes, PutDoes, TaskIs
<1>13. ASSUME NEW t \in Tasks, NEW z, SwitchDoes(t, z) PROVE CallInv'
  <2>1. task[t].usage = 1 => \A u \in Tasks : Waits(u) => Child(u) # t
    BY <1>1, <1>13, LastReference DEF Awaited, SwitchDoes
  <2> QED  BY <1>1, <1>13, <2>1 DEF SwitchDoes, TaskIs
<1>14. ASSUME NEW t \in Tasks, NEW y, NEW a \in {"put", "killed"}, At(t, "wait"), GoesTo(t, a, y),
              UNCHANGED <<task, lock, done, cache, accounted, callbacks, records, stale, crossed, signaller>>
       PROVE  CallInv'
  BY <1>1, <1>14 DEF GoesTo, CallIs
<1>15. CASE SignalStep
  <2>1. SignalDoes
    BY <1>1, <1>15, SignalEffect
  <2> QED  BY <1>1, <2>1 DEF SignalDoes
<1>16. CASE UNCHANGED vars
  BY <1>1, <1>16 DEF vars
<1> QED
  <2> HIDE DEF CallInv, OneCall, Waits, Is, At, Child, Ended
  <2> QED  BY <1>1, <1>2, <1>3, <1>4, <1>5, <1>6, <1>7, <1>8, <1>9, <1>10, <1>11, <1>12, <1>13, <1>14,
              <1>15, <1>16, StepDoes

\* The invariant speaks of a step's effect on records, callbacks and waiting alone.
LEMMA CountKept ==
  ASSUME NEW u \in Tasks, OneCount(u),
         task'[u].state = task[u].state, task'[u].usage = task[u].usage,
         task'[u].switched = task[u].switched,
         Is(u, {"unborn"}) => task'[u] = task[u],
         Contains(callbacks, u)' <=> Contains(callbacks, u),
         Awaited(u)' <=> Awaited(u)
  PROVE  OneCount(u)'
BY DEF OneCount, Is, Referenced

LEMMA UsageStep == I /\ [Next]_vars => UsageInv'
<1> SUFFICES ASSUME I, [Next]_vars PROVE UsageInv'
  OBVIOUS
<1>1. /\ TypeOK /\ CallInv /\ UsageInv /\ None \notin Tasks
      /\ task \in [Tasks -> TaskType] /\ call \in [Tasks -> CallType]
      /\ \A u \in Tasks : OneCount(u)
      /\ Once
  BY Types, Numbers DEF I, UsageInv
<1>a. callbacks' = callbacks => Once' /\ \A u : Contains(callbacks, u)' <=> Contains(callbacks, u)
  BY <1>1 DEF Once, Contains
<1>b. ASSUME NEW t \in Tasks, NEW y, CallIs(t, y), ~Waits(t), y.at \notin {"wait", "killed", "put", "put_killed"}
      PROVE  \A u \in Tasks : Awaited(u)' <=> Awaited(u)
  BY <1>1, <1>b DEF Awaited, Waits, CallIs, Child
<1>c. ASSUME NEW u \in Tasks, call' = call PROVE Awaited(u)' <=> Awaited(u)
  BY <1>c DEF Awaited, Waits, Child
<1>2. ASSUME NEW t \in Tasks, NEW c, NEW x, NEW y, ForkDoes(t, c, x, y) PROVE UsageInv'
  <2>1. \A u \in Tasks : Awaited(u)' <=> Awaited(u)
    BY <1>1, <1>2, <1>b DEF ForkDoes, Waits, At
  <2>2. c \in Tasks /\ ~Awaited(c)
    BY <1>1, <1>2 DEF ForkDoes, TaskIs, Awaited, CallInv, OneCall, Is
  <2>3. OneCount(c)'
    <3>1. task'[c] = x /\ x.state = "new" /\ x.usage = 2 /\ x.switched = FALSE /\ ~Contains(callbacks, c)
      BY <1>1, <1>2 DEF ForkDoes, TaskIs, OneCount, Is
    <3> QED  BY <1>2, <1>a, <2>1, <2>2, <3>1 DEF OneCount, Is, Referenced, ForkDoes
  <2>4. ASSUME NEW u \in Tasks, u # c PROVE OneCount(u)'
    <3>1. task'[u] = task[u]
      BY <1>1, <1>2, <2>4 DEF ForkDoes, TaskIs
    <3> QED  BY <1>1, <1>2, <1>a, <2>1, <3>1, CountKept DEF ForkDoes
  <2> QED  BY <1>2, <1>a, <2>3, <2>4 DEF UsageInv, ForkDoes
<1>3. ASSUME NEW t \in Tasks, NEW c, NEW x, ForkFailsDoes(t, c, x) PROVE UsageInv'
  <2>1. \A u \in Tasks : Awaited(u)' <=> Awaited(u)
    BY <1>1, <1>3, <1>b DEF ForkFailsDoes, Waits, At, NoCall
  <2>2. c \in Tasks /\ Is(c, {"new"}) /\ ~Contains(callbacks, c)
    BY <1>1, <1>3 DEF ForkFailsDoes, TaskIs, CallInv, OneCall, OneCount, Is
  <2>3. OneCount(c)'
    BY <1>1, <1>3, <1>a, <2>1, <2>2 DEF OneCount, Is, Referenced, ForkFailsDoes, TaskIs
  <2>4. ASSUME NEW u \in Tasks, u # c PROVE OneCount(u)'
    <3>1. task'[u] = task[u]
      BY <1>1, <1>3, <2>4 DEF ForkFailsDoes, TaskIs
    <3> QED  BY <1>1, <1>3, <1>a, <2>1, <3>1, CountKept DEF ForkFailsDoes
  <2> QED  BY <1>3, <1>a, <2>3, <2>4 DEF UsageInv, ForkFailsDoes
<1>4. ASSUME NEW t \in Tasks, NEW c, NEW x, NEW y, WakeDoes(t, c, x, y) PROVE UsageInv'
  <2>1. c \in Tasks /\ Is(c, {"new"}) /\ ~Contains(callbacks, c) /\ ~Awaited(c)
    BY <1>1, <1>4 DEF WakeDoes, TaskIs, CallInv, OneCall, OneCount, Is, Awaited
  <2>2. ASSUME NEW u \in Tasks
        PROVE  Awaited(u)' <=> Awaited(u) \/ (u = c /\ call[t].vfork)
    <3>1. CASE call[t].vfork
      <4>1. call' = [call EXCEPT ![t] = y] /\ y.at = "wait" /\ y.child = c /\ call[t].at = "copied"
        BY <1>4, <3>1 DEF WakeDoes, CallIs, At
      <4> QED  BY <1>1, <3>1, <4>1 DEF Awaited, Waits, Child
    <3>2. CASE ~call[t].vfork
      <4>1. Awaited(u)' <=> Awaited(u)
        BY <1>1, <1>4, <1>b, <3>2 DEF WakeDoes, Waits, At, NoCall
      <4> QED  BY <3>2, <4>1
    <3> QED  BY <3>1, <3>2
  <2>3. OneCount(c)'
    <3>1. /\ task'[c] = x /\ x.state = "running" /\ x.switched = FALSE
          /\ x.usage = IF call[t].vfork THEN 3 ELSE 2
      BY <1>1, <1>4, <2>1 DEF WakeDoes, TaskIs, OneCount, Is
    <3>2. ~Contains(callbacks, c)'
      BY <1>4, <1>a, <2>1 DEF WakeDoes
    <3>3. CASE call[t].vfork
      BY <2>1, <2>2, <3>1, <3>2, <3>3 DEF OneCount, Is, Referenced
    <3>4. CASE ~call[t].vfork
      BY <2>1, <2>2, <3>1, <3>2, <3>4 DEF OneCount, Is, Referenced
    <3> QED  BY <3>3, <3>4
  <2>4. ASSUME NEW u \in Tasks, u # c PROVE OneCount(u)'
    <3>1. task'[u] = task[u]
      BY <1>1, <1>4, <2>4 DEF WakeDoes, TaskIs
    <3> QED  BY <1>1, <1>4, <1>a, <2>2, <2>4, <3>1, CountKept DEF WakeDoes
  <2> QED  BY <1>4, <1>a, <2>3, <2>4 DEF UsageInv, WakeDoes
<1>5. ASSUME NEW t \in Tasks, NEW x, NEW y, ForgetDoes(t, Child(t), x, y) PROVE UsageInv'
  <2>1. ASSUME NEW u \in Tasks PROVE Awaited(u)' <=> Awaited(u)
    BY <1>1, <1>5 DEF ForgetDoes, GoesTo, CallIs, Awaited, Waits, Child, At
  <2>2. ASSUME NEW u \in Tasks PROVE OneCount(u)'
    <3>1. /\ task'[u].state = task[u].state /\ task'[u].usage = task[u].usage
          /\ task'[u].switched = task[u].switched
      BY <1>1, <1>5 DEF ForgetDoes, TaskIs
    <3>2. Is(u, {"unborn"}) => task'[u] = task[u]
      BY <1>1, <1>5 DEF ForgetDoes, TaskIs, CallInv, OneCall, Is, Waits, At
    <3> QED  BY <1>1, <1>5, <1>a, <2>1, <3>1, <3>2, CountKept DEF ForgetDoes
  <2> QED  BY <1>5, <1>a, <2>2 DEF UsageInv, ForgetDoes
<1>6. ASSUME NEW t \in Tasks, NEW c, NEW z, PutChildDoes(t, c, z) PROVE UsageInv'
  <2>1. c \in Tasks /\ Awaited(c) /\ \A u \in Tasks : Child(u) = c => u = t
    BY <1>1, <1>6 DEF PutChildDoes, Awaited, CallInv, OneCall, Waits
  <2>2. ASSUME NEW u \in Tasks PROVE Awaited(u)' <=> Awaited(u) /\ u # c
    BY <1>1, <1>6, <2>1 DEF PutChildDoes, CallIs, NoCall, Awaited, Waits, Child
  <2>3. OneCount(c)'
    <3>1. Is(c, {"running", "zombie", "reaped"})
      BY <1>1, <1>6 DEF PutChildDoes, CallInv, OneCall, Waits
    <3>2. task'[c] = z /\ z.usage = task[c].usage - 1 /\ z.switched = task[c].switched
          /\ z.state = IF task[c].usage = 1 THEN "freed" ELSE task[c].state
      BY <1>1, <1>6 DEF PutChildDoes, PutDoes, TaskIs
    <3>3. Contains(callbacks, c)' <=> Contains(callbacks, c)
      BY <1>6, <1>a DEF PutChildDoes
    <3>4. ~Awaited(c)'
      BY <2>1, <2>2
    <3> QED  BY <1>1, <2>1, <3>1, <3>2, <3>3, <3>4 DEF OneCount, Is, Referenced
  <2>4. ASSUME NEW u \in Tasks, u # c PROVE OneCount(u)'
    <3>1. task'[u] = task[u]
      BY <1>1, <1>6, <2>4 DEF PutChildDoes, PutDoes, TaskIs
    <3> QED  BY <1>1, <1>6, <1>a, <2>2, <2>4, <3>1, CountKept DEF PutChildDoes
  <2> QED  BY <1>6, <1>a, <2>3, <2>4 DEF UsageInv, PutChildDoes
<1>7. ASSUME NEW t \in Tasks, NEW x, NEW y, ReleaseDoes(t, x, y) \/ LockDoes(t, x, y) PROVE UsageInv'
  <2>1. ASSUME NEW u \in Tasks PROVE Awaited(u)' <=> Awaited(u)
    <3>1. CallIs(t, y) /\ ~Waits(t) /\ y.at \notin {"wait", "killed", "put", "put_killed"}
      BY <1>7 DEF ReleaseDoes, LockDoes, Waits, At
    <3> QED  BY <1>b, <3>1
  <2>2. ASSUME NEW u \in Tasks PROVE OneCount(u)'
    <3>1. /\ task'[u].state = task[u].state /\ task'[u].usage = task[u].usage
          /\ task'[u].switched = task[u].switched
      BY <1>1, <1>7 DEF ReleaseDoes, LockDoes, TaskIs
    <3>2. Is(u, {"unborn"}) => task'[u] = task[u]
      BY <1>1, <1>7 DEF ReleaseDoes, LockDoes, TaskIs, CallInv, OneCall, Is, At
    <3> QED  BY <1>1, <1>7, <1>a, <2>1, <3>1, <3>2, CountKept DEF ReleaseDoes, LockDoes
  <2> QED  BY <1>7, <1>a, <2>2 DEF UsageInv, ReleaseDoes, LockDoes
<1>8. ASSUME NEW t \in Tasks, NEW y, CompleteDoes(t, y) PROVE UsageInv'
  <2>1. ASSUME NEW u \in Tasks PROVE Awaited(u)' <=> Awaited(u)
    BY <1>b, <1>8 DEF CompleteDoes, Waits, At
  <2> QED  BY <1>1, <1>8, <1>a, <2>1, CountKept DEF UsageInv, CompleteDoes
<1>9. ASSUME NEW t \in Tasks, callbacks' = Append(callbacks, t), ~Contains(callbacks, t)
      PROVE  Once' /\ \A u : Contains(callbacks, u)' <=> Contains(callbacks, u) \/ u = t
  <2>1. /\ DOMAIN callbacks' = 1 .. Len(callbacks) + 1 /\ DOMAIN callbacks = 1 .. Len(callbacks)
        /\ \A i \in 1 .. Len(callbacks) : callbacks'[i] = callbacks[i] /\ callbacks[i] # t
        /\ callbacks'[Len(callbacks) + 1] = t /\ Len(callbacks) \in Nat
        /\ \A u : Contains(callbacks, u)' <=> Contains(callbacks, u) \/ u = t
    BY <1>1, <1>9, Enlist DEF Contains, TypeOK
  <2>2. ASSUME NEW i \in 1 .. Len(callbacks) + 1, NEW j \in 1 .. Len(callbacks) + 1,
               callbacks'[i] = callbacks'[j]
        PROVE  i = j
    <3>1. CASE i = Len(callbacks) + 1 \/ j = Len(callbacks) + 1
      <4>1. \A k \in 1 .. Len(callbacks) + 1 : k # Len(callbacks) + 1 => callbacks'[k] # t
        BY <2>1
      <4> QED  BY <2>1, <2>2, <3>1, <4>1
    <3>2. CASE i # Len(callbacks) + 1 /\ j # Len(callbacks) + 1
      <4>1. i \in 1 .. Len(callbacks) /\ j \in 1 .. Len(callbacks)
        BY <2>1, <3>2
      <4> QED  BY <1>1, <2>1, <2>2, <4>1 DEF Once
    <3> QED  BY <3>1, <3>2
  <2> QED  BY <2>1, <2>2 DEF Once
<1>10. ASSUME NEW t \in Tasks, NEW auto \in BOOLEAN, NEW x, NEW y, ExitDoes(t, auto, x, y) PROVE UsageInv'
  <2>1. ASSUME NEW u \in Tasks PROVE Awaited(u)' <=> Awaited(u)
    BY <1>b, <1>10 DEF ExitDoes, Waits, At
  <2>2. Is(t, {"running"}) /\ ~Contains(callbacks, t)
    BY <1>1, <1>10 DEF ExitDoes, CallInv, OneCall, At, OneCount, Is
  <2>3. Once' /\ \A u : Contains(callbacks, u)' <=> Contains(callbacks, u) \/ (auto /\ u = t)
    BY <1>9, <1>10, <1>a, <2>2 DEF ExitDoes
  <2>4. OneCount(t)'
    <3>1. /\ task'[t].state = (IF auto THEN "reaped" ELSE "zombie")
          /\ task'[t].usage = task[t].usage /\ task'[t].switched = task[t].switched
      BY <1>10 DEF ExitDoes
    <3> QED  BY <1>1, <2>1, <2>2, <2>3, <3>1 DEF OneCount, Is, Referenced
  <2>5. ASSUME NEW u \in Tasks, u # t PROVE OneCount(u)'
    <3>1. /\ task'[u].state = task[u].state /\ task'[u].usage = task[u].usage
          /\ task'[u].switched = task[u].switched
      BY <1>10, <2>5 DEF ExitDoes
    <3>2. Is(u, {"unborn"}) => task'[u] = task[u]
      BY <1>10, <2>5 DEF ExitDoes, Is, Children
    <3> QED  BY <1>1, <2>1, <2>3, <2>5, <3>1, <3>2, CountKept
  <2> QED  BY <2>3, <2>4, <2>5 DEF UsageInv
<1>11. ASSUME NEW t \in Tasks, NEW x, ReapDoes(t, x) PROVE UsageInv'
  <2>1. Is(t, {"zombie"}) /\ ~Contains(callbacks, t)
    BY <1>1, <1>11 DEF ReapDoes, OneCount, Is
  <2>2. Once' /\ \A u : Contains(callbacks, u)' <=> Contains(callbacks, u) \/ u = t
    BY <1>9, <1>11, <2>1 DEF ReapDoes
  <2>3. OneCount(t)'
    <3>1. /\ task'[t].state = "reaped"
          /\ task'[t].usage = task[t].usage /\ task'[t].switched = task[t].switched
      BY <1>1, <1>11 DEF ReapDoes, TaskIs
    <3>2. Awaited(t)' <=> Awaited(t)
      BY <1>11, <1>c DEF ReapDoes
    <3> QED  BY <1>1, <2>1, <2>2, <3>1, <3>2 DEF OneCount, Is, Referenced
  <2>4. ASSUME NEW u \in Tasks, u # t PROVE OneCount(u)'
    <3>1. task'[u] = task[u]
      BY <1>1, <1>11, <2>4 DEF ReapDoes, TaskIs
    <3> QED  BY <1>1, <1>11, <1>c, <2>2, <2>4, <3>1, CountKept DEF ReapDoes
  <2> QED  BY <2>2, <2>3, <2>4 DEF UsageInv
<1>12. ASSUME NEW t \in Tasks, NEW i, NEW z, RcuDoes(t, i, z) PROVE UsageInv'
  <2>1. Contains(callbacks, t) /\ Is(t, {"reaped"})
    <3>1. Contains(callbacks, t)
      BY <1>1, <1>12 DEF RcuDoes, Contains, TypeOK
    <3> QED  BY <1>1, <3>1 DEF OneCount
  <2>2. \A u : Contains(callbacks, u)' <=> Contains(callbacks, u) /\ u # t
    BY <1>1, <1>12, Strike DEF RcuDoes
  <2>3. Once'
    <3>1. /\ DOMAIN callbacks' = 1 .. Len(callbacks) - 1 /\ DOMAIN callbacks = 1 .. Len(callbacks)
          /\ Len(callbacks) \in Nat /\ i \in 1 .. Len(callbacks)
          /\ \A j \in 1 .. Len(callbacks) - 1 :
               callbacks'[j] = IF j < i THEN callbacks[j] ELSE callbacks[j + 1]
      <4>1. i \in DOMAIN callbacks /\ callbacks' = RemoveAt(callbacks, i) /\ callbacks \in Seq(Tasks)
        BY <1>1, <1>12 DEF RcuDoes, TypeOK
      <4>2. DOMAIN callbacks = 1 .. Len(callbacks) /\ Len(callbacks) \in Nat
        BY <4>1
      <4> QED  BY <1>1, <4>1, <4>2, Strike
    <3> DEFINE p(j) == IF j < i THEN j ELSE j + 1
    <3>2. \A j \in 1 .. Len(callbacks) - 1 : p(j) \in DOMAIN callbacks
      BY <3>1
    <3>3. \A j, k \in 1 .. Len(callbacks) - 1 : p(j) = p(k) => j = k
      BY <3>1
    <3>4. \A j \in 1 .. Len(callbacks) - 1 : callbacks'[j] = callbacks[p(j)]
      BY <3>1
    <3> HIDE DEF p
    <3> QED  BY <1>1, <3>1, <3>2, <3>3, <3>4 DEF Once
  <2>4. OneCount(t)'
    <3>1. task'[t] = z /\ z.usage = task[t].usage - 1 /\ z.switched = task[t].switched
          /\ z.state = IF task[t].usage = 1 THEN "freed" ELSE task[t].state
      BY <1>1, <1>12 DEF RcuDoes, PutDoes, TaskIs
    <3>2. Awaited(t)' <=> Awaited(t)
      BY <1>12, <1>c DEF RcuDoes
    <3> QED  BY <1>1, <2>1, <2>2, <3>1, <3>2 DEF OneCount, Is, Referenced
  <2>5. ASSUME NEW u \in Tasks, u # t PROVE OneCount(u)'
    <3>1. task'[u] = task[u]
      BY <1>1, <1>12, <2>5 DEF RcuDoes, PutDoes, TaskIs
    <3> QED  BY <1>1, <1>12, <1>c, <2>2, <2>5, <3>1, CountKept DEF RcuDoes
  <2> QED  BY <2>3, <2>4, <2>5 DEF UsageInv
<1>13. ASSUME NEW t \in Tasks, NEW z, SwitchDoes(t, z) PROVE UsageInv'
  <2>1. OneCount(t)'
    <3>1. task'[t] = z /\ z.usage = task[t].usage - 1 /\ z.switched = TRUE /\ ~task[t].switched
          /\ Is(t, {"zombie", "reaped"})
          /\ z.state = IF task[t].usage = 1 THEN "freed" ELSE task[t].state
      BY <1>1, <1>13 DEF SwitchDoes, TaskIs
    <3>2. (Awaited(t)' <=> Awaited(t)) /\ (Contains(callbacks, t)' <=> Contains(callbacks, t))
      BY <1>13, <1>a, <1>c DEF SwitchDoes
    <3> QED  BY <1>1, <3>1, <3>2 DEF OneCount, Is, Referenced
  <2>2. ASSUME NEW u \in Tasks, u # t PROVE OneCount(u)'
    <3>1. task'[u] = task[u]
      BY <1>1, <1>13, <2>2 DEF SwitchDoes, TaskIs
    <3> QED  BY <1>1, <1>13, <1>a, <1>c, <2>2, <3>1, CountKept DEF SwitchDoes
  <2> QED  BY <1>13, <1>a, <2>1, <2>2 DEF UsageInv, SwitchDoes
<1>14. ASSUME NEW t \in Tasks, NEW y, NEW a \in {"put", "killed"}, At(t, "wait"), GoesTo(t, a, y),
              UNCHANGED <<task, lock, done, cache, accounted, callbacks, records, stale, crossed, signaller>>
       PROVE  UsageInv'
  <2>1. ASSUME NEW u \in Tasks PROVE Awaited(u)' <=> Awaited(u)
    BY <1>1, <1>14 DEF GoesTo, CallIs, Awaited, Waits, Child, At
  <2> QED  BY <1>1, <1>14, <1>a, <2>1, CountKept DEF UsageInv
<1>15. CASE SignalStep
  <2>1. SignalDoes
    BY <1>1, <1>15, SignalEffect
  <2>2. ASSUME NEW u \in Tasks PROVE OneCount(u)'
    <3>1. Is(u, {"unborn"}) => task'[u] = task[u]
      <4>1. Is(u, {"unborn"}) => task[u].grace = {}
        BY <1>1 DEF OneCount, Unborn
      <4> QED  BY <2>1, <4>1 DEF SignalDoes
    <3> QED  BY <1>1, <1>a, <1>c, <2>1, <3>1, CountKept DEF SignalDoes
  <2> QED  BY <1>a, <2>1, <2>2 DEF UsageInv, SignalDoes
<1>16. CASE UNCHANGED vars
  BY <1>1, <1>16, <1>a, <1>c, CountKept DEF vars, UsageInv
<1> QED
  BY <1>1, <1>2, <1>3, <1>4, <1>5, <1>6, <1>7, <1>8, <1>10, <1>11, <1>12, <1>13, <1>14, <1>15, <1>16, StepDoes

LEMMA RecordsStep == I /\ [Next]_vars => RecordsExact'
<1> SUFFICES ASSUME I, [Next]_vars PROVE RecordsExact'
  OBVIOUS
<1>1. /\ TypeOK /\ CallInv /\ UsageInv /\ RecordsExact
      /\ task \in [Tasks -> TaskType] /\ records \in [Tasks -> Nat]
      /\ \A u \in Tasks : OneCount(u)
  BY Types DEF I, UsageInv
<1> USE DEF RecordsExact, Is
<1>2. ASSUME NEW t \in Tasks, NEW c, NEW x, NEW y, ForkDoes(t, c, x, y) PROVE RecordsExact'
  BY <1>1, <1>2 DEF ForkDoes, TaskIs
<1>3. ASSUME NEW t \in Tasks, NEW c, NEW x, ForkFailsDoes(t, c, x) PROVE RecordsExact'
  BY <1>1, <1>3 DEF ForkFailsDoes, TaskIs, CallInv, OneCall
<1>4. ASSUME NEW t \in Tasks, NEW c, NEW x, NEW y, WakeDoes(t, c, x, y) PROVE RecordsExact'
  BY <1>1, <1>4 DEF WakeDoes, TaskIs, CallInv, OneCall
<1>5. ASSUME NEW t \in Tasks, NEW c, NEW x, NEW y, ForgetDoes(t, c, x, y) PROVE RecordsExact'
  BY <1>1, <1>5 DEF ForgetDoes, TaskIs
<1>6. ASSUME NEW c \in Tasks, NEW z, task[c].usage # 0, PutDoes(c, task[c], z) PROVE RecordsExact'
  BY <1>1, <1>6 DEF PutDoes, TaskIs, OneCount
<1>7. ASSUME NEW t \in Tasks, NEW c, NEW z, PutChildDoes(t, c, z) PROVE RecordsExact'
  <2>1. c \in Tasks /\ task[c].usage # 0
    BY <1>1, <1>7 DEF PutChildDoes, CallInv, OneCall, Waits, OneCount
  <2> QED  BY <1>6, <1>7, <2>1 DEF PutChildDoes
<1>8. ASSUME NEW t \in Tasks, NEW x, NEW y, ReleaseDoes(t, x, y) \/ LockDoes(t, x, y) PROVE RecordsExact'
  BY <1>1, <1>8 DEF ReleaseDoes, LockDoes, TaskIs
<1>9. ASSUME NEW t \in Tasks, NEW y, CompleteDoes(t, y) PROVE RecordsExact'
  BY <1>1, <1>9 DEF CompleteDoes
<1>10. ASSUME NEW t \in Tasks, NEW auto \in BOOLEAN, NEW x, NEW y, ExitDoes(t, auto, x, y) PROVE RecordsExact'
  <2>1. Is(t, {"running"})
    BY <1>1, <1>10 DEF ExitDoes, CallInv, OneCall, At
  <2>2. \A u \in Tasks \ {t} : task'[u].state = task[u].state
    BY <1>10 DEF ExitDoes
  <2> QED  BY <1>1, <1>10, <2>1, <2>2 DEF ExitDoes
<1>11. ASSUME NEW t \in Tasks, NEW x, ReapDoes(t, x) PROVE RecordsExact'
  BY <1>1, <1>11 DEF ReapDoes, TaskIs
<1>12. ASSUME NEW t \in Tasks, NEW i, NEW z, RcuDoes(t, i, z) PROVE RecordsExact'
  <2>1. Contains(callbacks, t)
    BY <1>1, <1>12 DEF RcuDoes, Contains, TypeOK
  <2>2. task[t].usage # 0
    BY <1>1, <2>1 DEF OneCount
  <2> QED  BY <1>6, <1>12, <2>2 DEF RcuDoes
<1>13. ASSUME NEW t \in Tasks, NEW z, SwitchDoes(t, z) PROVE RecordsExact'
  BY <1>1, <1>13 DEF SwitchDoes, TaskIs
<1>14. ASSUME NEW t \in Tasks, UNCHANGED <<task, lock, done, cache, accounted, callbacks, records,
                                            stale, crossed, signaller>>
       PROVE  RecordsExact'
  BY <1>1, <1>14
<1>15. CASE SignalStep
  BY <1>1, <1>15, SignalEffect DEF SignalDoes
<1>16. CASE UNCHANGED vars
  BY <1>1, <1>16 DEF vars
<1> HIDE DEF RecordsExact, Is
<1> QED
  BY <1>1, <1>2, <1>3, <1>4, <1>5, <1>7, <1>8, <1>9, <1>10, <1>11, <1>12, <1>13, <1>14, <1>15, <1>16, StepDoes

LEMMA VforkStep == I /\ [Next]_vars => VforkInv'
<1> SUFFICES ASSUME I, [Next]_vars PROVE VforkInv'
  OBVIOUS
<1>1. /\ TypeOK /\ CallInv /\ UsageInv /\ VforkInv /\ None \notin Tasks
      /\ task \in [Tasks -> TaskType] /\ call \in [Tasks -> CallType]
      /\ lock \in [Tasks -> Tasks \cup {None}] /\ done \subseteq Tasks
      /\ \A u \in Tasks : OneCount(u) /\ OneVfork(u) /\ OneCall(u)
      /\ \A t, u \in Tasks : Child(t) = Child(u) /\ Child(t) # None => t = u
  BY Types, Numbers DEF I, UsageInv, VforkInv, CallInv
\* A step that neither starts nor ends a wait, and the fields the invariant speaks of.
<1>a. ASSUME NEW t \in Tasks, NEW y, CallIs(t, y), ~Waits(t), y.at \notin {"wait", "killed", "put", "put_killed"}
      PROVE  \A u \in Tasks : (Awaited(u)' <=> Awaited(u)) /\ (WaitedFor(u)' <=> WaitedFor(u))
  BY <1>1, <1>a DEF Awaited, WaitedFor, Waits, CallIs, Child
<1>b. ASSUME UNCHANGED <<call, lock, done>>,
             \A u \in Tasks : task'[u].vfork = task[u].vfork /\ task'[u].borrows = task[u].borrows
      PROVE  VforkInv'
  <2>1. \A u \in Tasks : (Awaited(u)' <=> Awaited(u)) /\ (WaitedFor(u)' <=> WaitedFor(u))
    BY <1>b DEF Awaited, WaitedFor, Waits, Child
  <2>2. \A u \in Tasks : At(u, "put") => Child(u) \in Tasks
    BY <1>1 DEF OneCall, Waits, At
  <2> QED  BY <1>1, <1>b, <2>1, <2>2 DEF VforkInv, OneVfork, At, Child
<1> USE DEF At
<1>2. ASSUME NEW t \in Tasks, NEW c, NEW x, NEW y, ForkDoes(t, c, x, y) PROVE VforkInv'
  <2>1. \A u \in Tasks : (Awaited(u)' <=> Awaited(u)) /\ (WaitedFor(u)' <=> WaitedFor(u))
    BY <1>1, <1>2, <1>a DEF ForkDoes, Waits
  <2>2. /\ c \in Tasks /\ c # t /\ call[c].at = "user" /\ c \notin done
        /\ \A u \in Tasks : call[u].at = "put" => Child(u) \in Tasks /\ Child(u) # c
    BY <1>1, <1>2 DEF ForkDoes, TaskIs, OneCall, Is, Ended, OneVfork, Awaited, Waits
  <2>3. /\ \A u \in Tasks \ {c} : task'[u] = task[u]
        /\ task'[c].vfork = None
        /\ \A u \in Tasks \ {t} : call'[u] = call[u]
        /\ call[t].at = "user" /\ call'[t].at = "copied" /\ lock' = lock /\ done' = done
    BY <1>1, <1>2 DEF ForkDoes, TaskIs, CallIs
  <2>4. ASSUME NEW u \in Tasks PROVE OneVfork(u)'
    <3>1. CASE u = t
      BY <1>1, <2>1, <2>2, <2>3, <3>1 DEF OneVfork, Child
    <3>2. CASE u = c
      BY <1>1, <2>1, <2>2, <2>3, <3>2 DEF OneVfork, Child
    <3>3. CASE u # c /\ u # t
      BY <1>1, <2>1, <2>2, <2>3, <3>3 DEF OneVfork, Child
    <3> QED  BY <3>1, <3>2, <3>3
  <2> QED  BY <2>4 DEF VforkInv
<1>3. ASSUME NEW t \in Tasks, NEW c, NEW x, ForkFailsDoes(t, c, x) PROVE VforkInv'
  <2>1. \A u \in Tasks : (Awaited(u)' <=> Awaited(u)) /\ (WaitedFor(u)' <=> WaitedFor(u))
    BY <1>1, <1>3, <1>a DEF ForkFailsDoes, Waits, NoCall
  <2>2. ASSUME NEW u \in Tasks PROVE OneVfork(u)'
    <3>1. call[u].at = "put" => Child(u) \in Tasks /\ Child(u) # c
      BY <1>1, <1>3 DEF ForkFailsDoes, TaskIs, OneCall, Waits
    <3> QED  BY <1>1, <1>3, <2>1, <3>1 DEF ForkFailsDoes, TaskIs, CallIs, NoCall, OneVfork, Child
  <2> QED  BY <2>2 DEF VforkInv
<1>4. ASSUME NEW t \in Tasks, NEW c, NEW x, NEW y, WakeDoes(t, c, x, y) PROVE VforkInv'
  <2>1. /\ c \in Tasks /\ c # t /\ call[c].at = "user" /\ ~Awaited(c) /\ ~WaitedFor(c)
        /\ \A u \in Tasks : call[u].at = "put" => Child(u) \in Tasks /\ Child(u) # c
    BY <1>1, <1>4 DEF WakeDoes, TaskIs, OneCall, Is, Ended, Awaited, WaitedFor, Waits
  <2>2. ASSUME NEW u \in Tasks
        PROVE  /\ WaitedFor(u)' <=> WaitedFor(u) \/ (u = c /\ call[t].vfork)
               /\ Awaited(u)' <=> Awaited(u) \/ (u = c /\ call[t].vfork)
    <3>1. CASE call[t].vfork
      <4>1. call' = [call EXCEPT ![t] = y] /\ y.at = "wait" /\ y.child = c /\ call[t].at = "copied"
            /\ call[t].child = c
        BY <1>4, <3>1 DEF WakeDoes, CallIs, Child
      <4> QED  BY <1>1, <3>1, <4>1 DEF Awaited, WaitedFor, Waits, Child
    <3>2. CASE ~call[t].vfork
      <4>1. (Awaited(u)' <=> Awaited(u)) /\ (WaitedFor(u)' <=> WaitedFor(u))
        BY <1>1, <1>4, <1>a, <3>2 DEF WakeDoes, Waits, NoCall
      <4> QED  BY <3>2, <4>1
    <3> QED  BY <3>1, <3>2
  <2>3. c \notin done /\ (task[c].vfork # None => FALSE)
    BY <1>1, <2>1 DEF OneVfork
  <2>4. /\ \A u \in Tasks \ {c} : task'[u] = task[u]
        /\ task'[c].borrows = task[c].borrows
        /\ task'[c].vfork = IF call[t].vfork THEN c ELSE None
        /\ \A u \in Tasks \ {t} : call'[u] = call[u]
        /\ call[t].at = "copied" /\ call'[t].at \in {"wait", "user"} /\ lock' = lock /\ done' = done
    BY <1>1, <1>4, <2>3 DEF WakeDoes, TaskIs, CallIs, NoCall
  <2>5. ASSUME NEW u \in Tasks PROVE OneVfork(u)'
    <3>1. CASE u = t
      BY <1>1, <2>1, <2>2, <2>3, <2>4, <3>1 DEF OneVfork, Child
    <3>2. CASE u = c
      BY <1>1, <2>1, <2>2, <2>3, <2>4, <3>2 DEF OneVfork, Child
    <3>3. CASE u # c /\ u # t
      BY <1>1, <2>1, <2>2, <2>3, <2>4, <3>3 DEF OneVfork, Child
    <3> QED  BY <3>1, <3>2, <3>3
  <2> QED  BY <2>5 DEF VforkInv

<1>5. ASSUME NEW t \in Tasks, NEW c, NEW x, NEW y, ForgetDoes(t, c, x, y) PROVE VforkInv'
  <2>1. /\ c \in Tasks /\ call[c].at # "locked"
        /\ \A u \in Tasks : Child(u) = c => u = t
    BY <1>1, <1>5 DEF ForgetDoes, GoesTo, CallIs, TaskIs, OneVfork, OneCall, Waits, Child
  <2>2. /\ call' = [call EXCEPT ![t] = y] /\ call[t].at = "killed" /\ y.at = "put_killed"
        /\ y.child = c /\ call[t].child = c
    BY <1>5 DEF ForgetDoes, GoesTo, CallIs, Child
  <2>3. \A u \in Tasks : (Awaited(u)' <=> Awaited(u)) /\ (u # c => (WaitedFor(u)' <=> WaitedFor(u)))
    BY <1>1, <2>2 DEF Awaited, WaitedFor, Waits, Child
  <2>4. /\ \A u \in Tasks : task'[u].borrows = task[u].borrows
        /\ \A u \in Tasks \ {c} : task'[u].vfork = task[u].vfork
        /\ task'[c].vfork = None /\ lock' = lock /\ done' = done
        /\ \A u \in Tasks \ {t} : call'[u] = call[u]
    BY <1>1, <1>5, <2>2 DEF ForgetDoes, TaskIs
  <2>5. \A u \in Tasks : call[u].at = "put" => Child(u) \in Tasks
    BY <1>1 DEF OneCall, Waits
  <2>6. ASSUME NEW u \in Tasks PROVE OneVfork(u)'
    <3>1. CASE u = t
      BY <1>1, <2>1, <2>2, <2>3, <2>4, <3>1 DEF OneVfork, Child
    <3>2. CASE u = c
      BY <1>1, <2>1, <2>2, <2>3, <2>4, <2>5, <3>2 DEF OneVfork, Child
    <3>3. CASE u # c /\ u # t
      BY <1>1, <2>1, <2>2, <2>3, <2>4, <2>5, <3>3 DEF OneVfork, Child
    <3> QED  BY <3>1, <3>2, <3>3
  <2> QED  BY <2>6 DEF VforkInv
<1>6. ASSUME NEW t \in Tasks, NEW c, NEW z, PutChildDoes(t, c, z) PROVE VforkInv'
  <2>1. c \in Tasks /\ \A u \in Tasks : Child(u) = c => u = t
    BY <1>1, <1>6 DEF PutChildDoes, PutDoes, TaskIs
  <2>2. /\ call' = [call EXCEPT ![t] = NoCall] /\ call[t].at \in {"put", "put_killed"}
        /\ call[t].child = c
    BY <1>6 DEF PutChildDoes, CallIs, Child
  <2>3. /\ \A u \in Tasks \ {c} : (Awaited(u)' <=> Awaited(u)) /\ (WaitedFor(u)' <=> WaitedFor(u))
        /\ ~WaitedFor(c)
    BY <1>1, <2>1, <2>2 DEF Awaited, WaitedFor, Waits, Child, NoCall
  <2>4. /\ \A u \in Tasks : task'[u].borrows = task[u].borrows /\ task'[u].vfork = task[u].vfork
        /\ lock' = lock /\ done' = done \ {c}
        /\ \A u \in Tasks \ {t} : call'[u] = call[u]
        /\ call'[t].at = "user"
    BY <1>1, <1>6, <2>2 DEF PutChildDoes, PutDoes, TaskIs, NoCall
  <2>5. \A u \in Tasks : call[u].at = "put" => Child(u) \in Tasks
    BY <1>1 DEF OneCall, Waits
  <2>6. ASSUME NEW u \in Tasks PROVE OneVfork(u)'
    <3>1. CASE u = t
      BY <1>1, <2>1, <2>2, <2>3, <2>4, <3>1 DEF OneVfork, Child
    <3>2. CASE u # t
      BY <1>1, <2>1, <2>2, <2>3, <2>4, <2>5, <3>2 DEF OneVfork, Child
    <3> QED  BY <3>1, <3>2
  <2> QED  BY <2>6 DEF VforkInv
<1>7. ASSUME NEW t \in Tasks, NEW x, NEW y, ReleaseDoes(t, x, y) PROVE VforkInv'
  <2>1. \A u \in Tasks : (Awaited(u)' <=> Awaited(u)) /\ (WaitedFor(u)' <=> WaitedFor(u))
    BY <1>7, <1>a DEF ReleaseDoes, Waits
  <2>2. /\ \A u \in Tasks : task'[u].vfork = task[u].vfork
        /\ \A u \in Tasks \ {t} : task'[u].borrows = task[u].borrows
        /\ task'[t].borrows = FALSE
        /\ lock' = lock /\ done' = done
        /\ \A u \in Tasks \ {t} : call'[u] = call[u]
        /\ call[t].at = "user" /\ call'[t].at \in {"release", "user", "exit"}
    BY <1>1, <1>7 DEF ReleaseDoes, TaskIs, CallIs
  <2>3. \A u \in Tasks : call[u].at = "put" => Child(u) \in Tasks
    BY <1>1 DEF OneCall, Waits
  <2>4. ASSUME NEW u \in Tasks PROVE OneVfork(u)'
    <3>1. CASE u = t
      BY <1>1, <2>1, <2>2, <3>1 DEF OneVfork, Child
    <3>2. CASE u # t
      BY <1>1, <2>1, <2>2, <2>3, <3>2 DEF OneVfork, Child
    <3> QED  BY <3>1, <3>2
  <2> QED  BY <2>4 DEF VforkInv
<1>8. ASSUME NEW t \in Tasks, NEW x, NEW y, LockDoes(t, x, y) PROVE VforkInv'
  <2>1. \A u \in Tasks : (Awaited(u)' <=> Awaited(u)) /\ (WaitedFor(u)' <=> WaitedFor(u))
    BY <1>8, <1>a DEF LockDoes, Waits
  <2>2. /\ \A u \in Tasks : task'[u].borrows = task[u].borrows
        /\ \A u \in Tasks \ {t} : task'[u].vfork = task[u].vfork
        /\ task'[t].vfork = None /\ call'[t].frame = task[t].vfork
        /\ lock' = [lock EXCEPT ![t] = t] /\ done' = done
        /\ \A u \in Tasks \ {t} : call'[u] = call[u]
        /\ call[t].at = "release" /\ call'[t].at = "locked"
    BY <1>1, <1>8 DEF LockDoes, TaskIs, CallIs
  <2>3. \A u \in Tasks : call[u].at = "put" => Child(u) \in Tasks
    BY <1>1 DEF OneCall, Waits
  <2>4. ASSUME NEW u \in Tasks PROVE OneVfork(u)'
    <3>1. CASE u = t
      BY <1>1, <2>1, <2>2, <3>1 DEF OneVfork, Child
    <3>2. CASE u # t
      BY <1>1, <2>1, <2>2, <2>3, <3>2 DEF OneVfork, Child
    <3> QED  BY <3>1, <3>2
  <2> QED  BY <2>4 DEF VforkInv
<1>9. ASSUME NEW t \in Tasks, NEW y, CompleteDoes(t, y) PROVE VforkInv'
  <2>1. \A u \in Tasks : (Awaited(u)' <=> Awaited(u)) /\ (WaitedFor(u)' <=> WaitedFor(u))
    BY <1>9, <1>a DEF CompleteDoes, Waits
  <2>2. /\ task' = task
        /\ lock' = [lock EXCEPT ![t] = None]
        /\ done' = IF call[t].frame = None THEN done ELSE done \cup {t}
        /\ \A u \in Tasks \ {t} : call'[u] = call[u]
        /\ call[t].at = "locked" /\ call'[t].at \in {"user", "exit"}
    BY <1>1, <1>9 DEF CompleteDoes, CallIs, OneVfork
  <2>3. \A u \in Tasks : call[u].at = "put" => Child(u) \in Tasks
    BY <1>1 DEF OneCall, Waits
  <2>4. \A u \in Tasks : WaitedFor(u) => Awaited(u)
    BY DEF WaitedFor, Awaited, Waits
  <2>5. ASSUME NEW u \in Tasks PROVE OneVfork(u)'
    <3>1. CASE u = t
      BY <1>1, <2>1, <2>2, <2>4, <3>1 DEF OneVfork, Child
    <3>2. CASE u # t
      BY <1>1, <2>1, <2>2, <2>3, <3>2 DEF OneVfork, Child
    <3> QED  BY <3>1, <3>2
  <2> QED  BY <2>5 DEF VforkInv
<1>10. ASSUME NEW t \in Tasks, NEW auto \in BOOLEAN, NEW x, NEW y, ExitDoes(t, auto, x, y) PROVE VforkInv'
  <2>1. \A u \in Tasks : (Awaited(u)' <=> Awaited(u)) /\ (WaitedFor(u)' <=> WaitedFor(u))
    BY <1>10, <1>a DEF ExitDoes, Waits
  <2>2. ASSUME NEW u \in Tasks PROVE task'[u].vfork = task[u].vfork /\ task'[u].borrows = task[u].borrows
    BY <1>10 DEF ExitDoes
  <2>3. /\ lock' = lock /\ done' = done
        /\ \A u \in Tasks \ {t} : call'[u] = call[u]
        /\ call[t].at = "exit" /\ call'[t].at = "gone"
    BY <1>1, <1>10 DEF ExitDoes, CallIs
  <2>4. \A u \in Tasks : call[u].at = "put" => Child(u) \in Tasks
    BY <1>1 DEF OneCall, Waits
  <2>5. ASSUME NEW u \in Tasks PROVE OneVfork(u)'
    <3>1. CASE u = t
      BY <1>1, <2>1, <2>2, <2>3, <3>1 DEF OneVfork, Child
    <3>2. CASE u # t
      BY <1>1, <2>1, <2>2, <2>3, <2>4, <3>2 DEF OneVfork, Child
    <3> QED  BY <3>1, <3>2
  <2> QED  BY <2>5 DEF VforkInv
<1>11. ASSUME NEW t \in Tasks, NEW x, ReapDoes(t, x) PROVE VforkInv'
  <2>1. ASSUME NEW u \in Tasks PROVE task'[u].vfork = task[u].vfork /\ task'[u].borrows = task[u].borrows
    BY <1>1, <1>11 DEF ReapDoes, TaskIs
  <2> QED  BY <1>11, <1>b, <2>1 DEF ReapDoes
<1>12. ASSUME NEW t \in Tasks, NEW i, NEW z, RcuDoes(t, i, z) PROVE VforkInv'
  <2>1. ASSUME NEW u \in Tasks PROVE task'[u].vfork = task[u].vfork /\ task'[u].borrows = task[u].borrows
    BY <1>1, <1>12 DEF RcuDoes, PutDoes, TaskIs
  <2> QED  BY <1>12, <1>b, <2>1 DEF RcuDoes
<1>13. ASSUME NEW t \in Tasks, NEW z, SwitchDoes(t, z) PROVE VforkInv'
  <2>1. ASSUME NEW u \in Tasks PROVE task'[u].vfork = task[u].vfork /\ task'[u].borrows = task[u].borrows
    BY <1>1, <1>13 DEF SwitchDoes, TaskIs
  <2> QED  BY <1>13, <1>b, <2>1 DEF SwitchDoes
<1>14. ASSUME NEW t \in Tasks, NEW y, NEW a \in {"put", "killed"}, At(t, "wait"), GoesTo(t, a, y),
              a = "put" => Child(t) \in done,
              UNCHANGED <<task, lock, done, cache, accounted, callbacks, records, stale, crossed, signaller>>
       PROVE  VforkInv'
  <2>1. /\ call' = [call EXCEPT ![t] = y] /\ call[t].at = "wait" /\ y.at = a /\ y.child = call[t].child
        /\ call[t].child \in Tasks
    BY <1>1, <1>14 DEF GoesTo, CallIs, OneCall, Waits, Child
  <2>2. \A u \in Tasks : Awaited(u)' <=> Awaited(u)
    BY <1>1, <2>1 DEF Awaited, Waits, Child
  <2>3. \A u \in Tasks : u \notin done => (WaitedFor(u)' <=> WaitedFor(u))
    BY <1>1, <1>14, <2>1 DEF WaitedFor, Child
  <2>4. \A u \in Tasks : call[u].at = "put" => Child(u) \in Tasks
    BY <1>1 DEF OneCall, Waits
  <2>5. ASSUME NEW u \in Tasks PROVE OneVfork(u)'
    <3>1. CASE u = t
      BY <1>1, <1>14, <2>1, <2>2, <2>3, <3>1 DEF OneVfork, Child
    <3>2. CASE u # t
      BY <1>1, <1>14, <2>1, <2>2, <2>3, <2>4, <3>2 DEF OneVfork, Child
    <3> QED  BY <3>1, <3>2
  <2> QED  BY <2>5 DEF VforkInv
<1>15. CASE SignalStep
  BY <1>1, <1>15, <1>b, SignalEffect DEF SignalDoes
<1>16. CASE UNCHANGED vars
  BY <1>16, <1>b DEF vars
<1> HIDE DEF At
<1> QED
  BY <1>1, <1>2, <1>3, <1>4, <1>5, <1>6, <1>7, <1>8, <1>9, <1>10, <1>11, <1>12, <1>13, <1>14, <1>15, <1>16, StepDoes

LEMMA StackStep == I /\ [Next]_vars => StackInv'
<1> SUFFICES ASSUME I, [Next]_vars PROVE StackInv'
  OBVIOUS
<1>1. /\ TypeOK /\ CallInv /\ UsageInv /\ StackInv /\ None \notin Tasks
      /\ task \in [Tasks -> TaskType] /\ call \in [Tasks -> CallType]
      /\ cache \in [1 .. CacheSlots -> Tasks \cup {None}] /\ accounted \in Nat
      /\ \A u \in Tasks : OneCount(u) /\ OneCall(u)
  BY Types, Numbers DEF I, UsageInv, CallInv
<1>2. /\ \A u \in Tasks : task[u].stack # None =>
           /\ ~Is(u, {"freed", "undone"}) /\ \A i \in 1 .. CacheSlots : cache[i] # task[u].stack
           /\ task[u].stack \in Tasks /\ ~Is(task[u].stack, {"unborn"})
      /\ \A u, v \in Tasks : task[u].stack # None /\ task[u].stack = task[v].stack => u = v
      /\ \A i, j \in 1 .. CacheSlots : cache[i] # None /\ cache[i] = cache[j] => i = j
      /\ \A i \in 1 .. CacheSlots : cache[i] # None => cache[i] \in Tasks /\ ~Is(cache[i], {"unborn"})
      /\ accounted = Cardinality(Owners)
      /\ \A u \in Tasks : task[u].stack # None <=>
                            ~task[u].switched /\ ~Is(u, {"unborn", "freed", "undone"})
  <2>1. \A u \in Tasks : task[u].stack \in Tasks \cup {None}
    BY <1>1 DEF TaskType
  <2> QED  BY <1>1, <2>1 DEF StackInv, StacksExclusive, Owners, Full
\* The same about the next state gives the invariant there.
<1>3. ASSUME /\ \A u \in Tasks : task'[u].stack # None =>
                  /\ task'[u].state \notin {"freed", "undone"}
                  /\ \A i \in 1 .. CacheSlots : cache'[i] # task'[u].stack
                  /\ task'[task'[u].stack].state # "unborn"
             /\ \A u, v \in Tasks : task'[u].stack # None /\ task'[u].stack = task'[v].stack => u = v
             /\ \A i, j \in 1 .. CacheSlots : cache'[i] # None /\ cache'[i] = cache'[j] => i = j
             /\ \A i \in 1 .. CacheSlots : cache'[i] # None => task'[cache'[i]].state # "unborn"
             /\ accounted' = Cardinality(Owners')
             /\ \A u \in Tasks : task'[u].stack # None <=>
                  ~task'[u].switched /\ task'[u].state \notin {"unborn", "freed", "undone"}
      PROVE  StackInv'
  <2>1. TypeOK' /\ DOMAIN cache' = 1 .. CacheSlots
    <3>1. TypeOK'
      BY TypeStep
    <3> QED  BY <3>1 DEF TypeOK
  <2> QED  BY <1>3, <2>1 DEF StackInv, StacksExclusive, Owners, Full, Is
<1>4. IsFiniteSet(Owners) /\ Owners \in SUBSET Tasks
  BY TasksFinite DEF Owners
\* A step that moves no stack.
<1>5. ASSUME cache' = cache, accounted' = accounted,
             \A u \in Tasks :
               /\ task'[u].stack = task[u].stack /\ task'[u].switched = task[u].switched
               /\ task'[u].state = "unborn" <=> task[u].state = "unborn"
               /\ \/ task'[u].state \in {"freed", "undone"} <=> task[u].state \in {"freed", "undone"}
                  \/ task[u].switched
      PROVE  StackInv'
  <2>1. Owners' = Owners
    BY <1>5 DEF Owners
  <2> QED  BY <1>2, <1>3, <1>5, <2>1 DEF Is
\* A task returns its stack and keeps none.
<1>6. ASSUME NEW c \in Tasks, task[c].stack # None, NEW x, task' = [task EXCEPT ![c] = x],
             x.stack = None, x.switched, x.state # "unborn",
             cache' = CacheGiven(task[c].stack), accounted' = accounted - 1
      PROVE  StackInv'
  <2>1. /\ \A u \in Tasks \ {c} : task'[u] = task[u]
        /\ task'[c] = x
    BY <1>1, <1>6
  <2>2. Owners' = Owners \ {c} /\ c \in Owners
    BY <1>6, <2>1 DEF Owners
  <2>3. accounted' = Cardinality(Owners')
    BY <1>2, <1>4, <1>6, <2>2, FS_RemoveElement, FS_CardinalityType
  <2>4. /\ \A u \in Tasks : task'[u].stack # None =>
                  /\ task'[u].state \notin {"freed", "undone"}
                  /\ task'[task'[u].stack].state # "unborn"
        /\ \A u, v \in Tasks : task'[u].stack # None /\ task'[u].stack = task'[v].stack => u = v
        /\ \A u \in Tasks : task'[u].stack # None <=>
                  ~task'[u].switched /\ task'[u].state \notin {"unborn", "freed", "undone"}
    BY <1>2, <1>6, <2>1 DEF Is
  <2>5. CASE cache' = cache
    BY <1>2, <1>3, <1>6, <2>1, <2>3, <2>4, <2>5 DEF Is
  <2>6. ASSUME NEW i \in Empty, cache' = [cache EXCEPT ![i] = task[c].stack] PROVE StackInv'
    <3>1. i \in 1 .. CacheSlots /\ cache[i] = None
      BY <1>1, <2>6 DEF Empty, Full
    <3>2. /\ \A j \in 1 .. CacheSlots : j # i => cache'[j] = cache[j]
          /\ cache'[i] = task[c].stack
      BY <1>1, <2>6, <3>1
    <3>3. \A u \in Tasks \ {c} : task[u].stack # task[c].stack
      BY <1>2, <1>6
    <3>4. \A u \in Tasks : task'[u].stack # None => \A j \in 1 .. CacheSlots : cache'[j] # task'[u].stack
      BY <1>2, <1>6, <2>1, <3>1, <3>2, <3>3
    <3>5. \A j, k \in 1 .. CacheSlots : cache'[j] # None /\ cache'[j] = cache'[k] => j = k
      BY <1>2, <1>6, <3>1, <3>2
    <3>6. \A j \in 1 .. CacheSlots : cache'[j] # None => task'[cache'[j]].state # "unborn"
      BY <1>2, <1>6, <2>1, <3>1, <3>2 DEF Is
    <3> QED  BY <1>3, <2>3, <2>4, <3>4, <3>5, <3>6
  <2> QED  BY <1>1, <1>6, <2>5, <2>6, GiveDoes
<1> USE DEF Is, At
<1>7. ASSUME NEW t \in Tasks, NEW c, NEW x, NEW y, ForkDoes(t, c, x, y) PROVE StackInv'
  <2>1. /\ c \in Tasks /\ task[c].state = "unborn" /\ task[c].stack = None
        /\ \A u \in Tasks \ {c} : task'[u] = task[u]
        /\ task'[c] = x /\ x.state = "new" /\ x.stack = StackFor(c) /\ x.switched = FALSE
        /\ cache' = CacheTaken /\ accounted' = accounted + 1
    BY <1>1, <1>2, <1>7 DEF ForkDoes, TaskIs
  <2>2. CASE Full = {} /\ CacheTaken = cache /\ StackFor(c) = c
    <3>1. \A i \in 1 .. CacheSlots : cache[i] = None
      BY <1>1, <2>2 DEF Full
    <3>2. \A u \in Tasks : task[u].stack # c
      BY <1>1, <1>2, <2>1
    <3>3. Owners' = Owners \cup {c} /\ c \notin Owners
      BY <1>1, <2>1, <2>2 DEF Owners
    <3>4. accounted' = Cardinality(Owners')
      BY <1>2, <1>4, <2>1, <3>3, FS_AddElement, FS_CardinalityType
    <3> QED  BY <1>1, <1>2, <1>3, <2>1, <2>2, <3>1, <3>2, <3>4
  <2>3. ASSUME NEW i \in Full, CacheTaken = [cache EXCEPT ![i] = None], StackFor(c) = cache[i]
        PROVE  StackInv'
    <3>1. i \in 1 .. CacheSlots /\ cache[i] # None
      BY <1>1, <2>3 DEF Full
    <3>2. /\ \A j \in 1 .. CacheSlots : j # i => cache'[j] = cache[j] /\ cache[j] # cache[i]
          /\ cache'[i] = None
      BY <1>1, <1>2, <2>1, <2>3, <3>1
    <3>3. Owners' = Owners \cup {c} /\ c \notin Owners
      BY <1>1, <2>1, <2>3, <3>1 DEF Owners
    <3>4. accounted' = Cardinality(Owners')
      BY <1>2, <1>4, <2>1, <3>3, FS_AddElement, FS_CardinalityType
    <3>5. \A u \in Tasks : task[u].stack # cache[i]
      BY <1>2, <3>1
    <3>6. \A u \in Tasks : task'[u].stack # None => \A j \in 1 .. CacheSlots : cache'[j] # task'[u].stack
      BY <1>2, <2>1, <2>3, <3>1, <3>2
    <3>7. \A u, v \in Tasks : task'[u].stack # None /\ task'[u].stack = task'[v].stack => u = v
      BY <1>2, <2>1, <2>3, <3>1, <3>5
    <3>8. /\ \A u \in Tasks : task'[u].stack # None =>
                  /\ task'[u].state \notin {"freed", "undone"}
                  /\ task'[task'[u].stack].state # "unborn"
          /\ \A u \in Tasks : task'[u].stack # None <=>
                  ~task'[u].switched /\ task'[u].state \notin {"unborn", "freed", "undone"}
      BY <1>2, <2>1, <2>3, <3>1
    <3>9. /\ \A j, k \in 1 .. CacheSlots : cache'[j] # None /\ cache'[j] = cache'[k] => j = k
          /\ \A j \in 1 .. CacheSlots : cache'[j] # None => task'[cache'[j]].state # "unborn"
      BY <1>2, <2>1, <3>1, <3>2
    <3> QED  BY <1>3, <3>4, <3>6, <3>7, <3>8, <3>9
  <2> QED  BY <1>1, <2>1, <2>2, <2>3, TakeDoes
<1>8. ASSUME NEW t \in Tasks, NEW c, NEW x, ForkFailsDoes(t, c, x) PROVE StackInv'
  <2>1. c \in Tasks /\ task[c].state = "new"
    BY <1>1, <1>8 DEF ForkFailsDoes, OneCall
  <2>2. task[c].stack # None
    BY <1>1, <1>2, <2>1 DEF OneCount
  <2> QED  BY <1>6, <1>8, <2>1, <2>2 DEF ForkFailsDoes, TaskIs
<1>9. ASSUME NEW t \in Tasks, NEW c, NEW x, NEW y, WakeDoes(t, c, x, y) \/ ForgetDoes(t, c, x, y)
      PROVE  StackInv'
  <2>1. WakeDoes(t, c, x, y) => task[c].state = "new"
    BY <1>1 DEF WakeDoes, OneCall
  <2>2. /\ c \in Tasks /\ task' = [task EXCEPT ![c] = x] /\ cache' = cache /\ accounted' = accounted
        /\ x.stack = task[c].stack /\ x.switched = task[c].switched
        /\ x.state = IF WakeDoes(t, c, x, y) THEN "running" ELSE task[c].state
    BY <1>9 DEF WakeDoes, ForgetDoes, TaskIs
  <2> QED  BY <1>1, <1>5, <2>1, <2>2
\* The last reference to a task leaves when it is off its stack.
<1>10. ASSUME NEW c \in Tasks, NEW z, PutDoes(c, task[c], z), cache' = cache, accounted' = accounted,
              Awaited(c) \/ Contains(callbacks, c), ~Is(c, {"unborn", "undone"})
       PROVE  StackInv'
  <2>1. task[c].usage = 1 => task[c].switched
    BY <1>1, <1>10, LastReference
  <2> QED  BY <1>1, <1>5, <1>10, <2>1 DEF PutDoes, TaskIs
<1>11. ASSUME NEW t \in Tasks, NEW c, NEW z, PutChildDoes(t, c, z) PROVE StackInv'
  <2>1. c \in Tasks /\ Awaited(c) /\ ~Is(c, {"unborn", "undone"})
    BY <1>1, <1>11 DEF PutChildDoes, Awaited, OneCall, Waits
  <2> QED  BY <1>10, <1>11, <2>1 DEF PutChildDoes
<1>12. ASSUME NEW t \in Tasks, NEW x, NEW y, ReleaseDoes(t, x, y) \/ LockDoes(t, x, y) PROVE StackInv'
  BY <1>1, <1>5, <1>12 DEF ReleaseDoes, LockDoes, TaskIs
<1>13. ASSUME NEW t \in Tasks, NEW y, CompleteDoes(t, y) PROVE StackInv'
  BY <1>5, <1>13 DEF CompleteDoes
<1>14. ASSUME NEW t \in Tasks, NEW auto \in BOOLEAN, NEW x, NEW y, ExitDoes(t, auto, x, y) PROVE StackInv'
  <2>1. task[t].state = "running"
    BY <1>1, <1>14 DEF ExitDoes, OneCall
  <2>2. ASSUME NEW u \in Tasks
        PROVE  /\ task'[u].stack = task[u].stack /\ task'[u].switched = task[u].switched
               /\ task'[u].state = "unborn" <=> task[u].state = "unborn"
               /\ task'[u].state \in {"freed", "undone"} <=> task[u].state \in {"freed", "undone"}
    BY <1>14, <2>1 DEF ExitDoes
  <2> QED  BY <1>5, <1>14, <2>2 DEF ExitDoes
<1>15. ASSUME NEW t \in Tasks, NEW x, ReapDoes(t, x) PROVE StackInv'
  BY <1>1, <1>5, <1>15 DEF ReapDoes, TaskIs
<1>16. ASSUME NEW t \in Tasks, NEW i, NEW z, RcuDoes(t, i, z) PROVE StackInv'
  <2>1. Contains(callbacks, t)
    BY <1>1, <1>16 DEF RcuDoes, Contains, TypeOK
  <2>2. ~Is(t, {"unborn", "undone"})
    BY <1>1, <2>1 DEF OneCount
  <2> QED  BY <1>10, <1>16, <2>1, <2>2 DEF RcuDoes
<1>17. ASSUME NEW t \in Tasks, NEW z, SwitchDoes(t, z) PROVE StackInv'
  <2>1. task[t].stack # None
    BY <1>2, <1>17 DEF SwitchDoes
  <2>2. z.state # "unborn"
    BY <1>17 DEF SwitchDoes
  <2> QED  BY <1>6, <1>17, <2>1, <2>2 DEF SwitchDoes, TaskIs
<1>18. ASSUME NEW t \in Tasks,
              UNCHANGED <<task, lock, done, cache, accounted, callbacks, records, stale, crossed, signaller>>
       PROVE  StackInv'
  BY <1>5, <1>18
<1>19. CASE SignalStep
  BY <1>1, <1>5, <1>19, SignalEffect DEF SignalDoes
<1>20. CASE UNCHANGED vars
  BY <1>5, <1>20 DEF vars
<1> HIDE DEF Is, At
<1> QED
  BY <1>1, <1>7, <1>8, <1>9, <1>11, <1>12, <1>13, <1>14, <1>15, <1>16, <1>17, <1>18, <1>19, <1>20, StepDoes

LEMMA ParentStep == I /\ [Next]_vars => ParentInv'
<1> SUFFICES ASSUME I, [Next]_vars PROVE ParentInv'
  OBVIOUS
<1>1. /\ TypeOK /\ CallInv /\ UsageInv /\ ParentInv /\ None \notin Tasks /\ InitTask \in Tasks
      /\ task \in [Tasks -> TaskType] /\ call \in [Tasks -> CallType]
      /\ \A u \in Tasks : OneCount(u) /\ OneCall(u)
      /\ task[InitTask].state = "running" /\ call[InitTask].at = "user"
  BY Types, Numbers DEF I, UsageInv, CallInv, FamilyInv, Is, At
<1> USE DEF Is, At
\* Parents stay, and so do the states running and zombie.
<1>a. ASSUME \A u \in Tasks :
               /\ task'[u].parent = task[u].parent
               /\ task'[u].state \in {"running", "zombie"} => task[u].state \in {"running", "zombie"}
               /\ task[u].state = "running" => task'[u].state = "running"
      PROVE  ParentInv'
  BY <1>1, <1>a DEF ParentInv
<1>2. ASSUME NEW t \in Tasks, NEW c, NEW x, NEW y, ForkDoes(t, c, x, y) PROVE ParentInv'
  BY <1>1, <1>2 DEF ForkDoes, TaskIs, ParentInv
<1>3. ASSUME NEW t \in Tasks, NEW c, NEW x, ForkFailsDoes(t, c, x) PROVE ParentInv'
  <2>1. c \in Tasks /\ task[c].state = "new"
    BY <1>1, <1>3 DEF ForkFailsDoes, OneCall
  <2> QED  BY <1>1, <1>3, <1>a, <2>1 DEF ForkFailsDoes, TaskIs
<1>4. ASSUME NEW t \in Tasks, NEW c, NEW x, NEW y, WakeDoes(t, c, x, y) PROVE ParentInv'
  <2>1. c \in Tasks /\ task[c].state = "new" /\ task[t].state = "running"
    BY <1>1, <1>4 DEF WakeDoes, OneCall
  <2>2. task'[c].parent \in Tasks /\ task[task'[c].parent].state = "running" /\ task'[c].parent # c
    BY <1>1, <1>4, <2>1 DEF WakeDoes, TaskIs, ParentInv
  <2>3. task'[c].state = "running" /\ \A u \in Tasks \ {c} : task'[u] = task[u]
    BY <1>1, <1>4, <2>1 DEF WakeDoes, TaskIs
  <2> QED  BY <1>1, <2>1, <2>2, <2>3 DEF ParentInv
<1>5. ASSUME NEW t \in Tasks, NEW c, NEW x, NEW y, ForgetDoes(t, c, x, y) PROVE ParentInv'
  BY <1>1, <1>5, <1>a DEF ForgetDoes, TaskIs
<1>6. ASSUME NEW c \in Tasks, NEW z, PutDoes(c, task[c], z),
             Awaited(c) \/ Contains(callbacks, c), ~Is(c, {"unborn", "undone"})
      PROVE  ParentInv'
  <2>1. task[c].usage = 1 => task[c].state \notin {"new", "running", "zombie"}
    BY <1>1, <1>6, LastReference DEF OneCount
  <2> QED  BY <1>1, <1>6, <1>a, <2>1 DEF PutDoes, TaskIs
<1>7. ASSUME NEW t \in Tasks, NEW c, NEW z, PutChildDoes(t, c, z) PROVE ParentInv'
  <2>1. c \in Tasks /\ Awaited(c) /\ ~Is(c, {"unborn", "undone"})
    BY <1>1, <1>7 DEF PutChildDoes, Awaited, OneCall, Waits
  <2> QED  BY <1>6, <1>7, <2>1 DEF PutChildDoes
<1>8. ASSUME NEW t \in Tasks, NEW x, NEW y, ReleaseDoes(t, x, y) \/ LockDoes(t, x, y) PROVE ParentInv'
  BY <1>1, <1>8, <1>a DEF ReleaseDoes, LockDoes, TaskIs
<1>9. ASSUME task' = task PROVE ParentInv'
  BY <1>9, <1>a
<1>10. ASSUME NEW t \in Tasks, NEW auto \in BOOLEAN, NEW x, NEW y, ExitDoes(t, auto, x, y) PROVE ParentInv'
  <2>1. task[t].state = "running" /\ t # InitTask
    BY <1>1, <1>10 DEF ExitDoes, OneCall
  <2>2. /\ task'[t].state \in {"zombie", "reaped"} /\ task'[t].parent = task[t].parent
        /\ \A c \in Tasks \ {t} :
             /\ task'[c].state = task[c].state
             /\ task'[c].parent = IF c \in Children(t) THEN InitTask ELSE task[c].parent
    BY <1>10 DEF ExitDoes
  <2>3. ASSUME NEW u \in Tasks, task'[u].state \in {"running", "zombie"}
        PROVE  task'[u].parent \in Tasks /\ task'[task'[u].parent].state = "running"
    <3>1. CASE u = t
      BY <1>1, <2>1, <2>2, <2>3, <3>1 DEF ParentInv
    <3>2. CASE u # t /\ u \in Children(t)
      BY <1>1, <2>1, <2>2, <3>2
    <3>3. CASE u # t /\ u \notin Children(t)
      <4>1. task[u].parent # t
        BY <2>2, <2>3, <3>3 DEF Children
      <4> QED  BY <1>1, <2>1, <2>2, <2>3, <3>3, <4>1 DEF ParentInv
    <3> QED  BY <3>1, <3>2, <3>3
  <2>4. ASSUME NEW u \in Tasks \ {InitTask} PROVE task'[u].parent # u
    BY <1>1, <2>2, <2>4 DEF ParentInv
  <2> QED  BY <2>3, <2>4 DEF ParentInv
<1>11. ASSUME NEW t \in Tasks, NEW x, ReapDoes(t, x) PROVE ParentInv'
  BY <1>1, <1>11, <1>a DEF ReapDoes, TaskIs
<1>12. ASSUME NEW t \in Tasks, NEW i, NEW z, RcuDoes(t, i, z) PROVE ParentInv'
  <2>1. Contains(callbacks, t)
    BY <1>1, <1>12 DEF RcuDoes, Contains, TypeOK
  <2>2. ~Is(t, {"unborn", "undone"})
    BY <1>1, <2>1 DEF OneCount
  <2> QED  BY <1>6, <1>12, <2>1, <2>2 DEF RcuDoes
<1>13. ASSUME NEW t \in Tasks, NEW z, SwitchDoes(t, z) PROVE ParentInv'
  BY <1>1, <1>13, <1>a DEF SwitchDoes, TaskIs
<1>14. CASE SignalStep
  BY <1>1, <1>14, <1>a, SignalEffect DEF SignalDoes
<1> HIDE DEF Is, At
<1> QED
  BY <1>1, <1>2, <1>3, <1>4, <1>5, <1>7, <1>8, <1>9, <1>10, <1>11, <1>12, <1>13, <1>14, StepDoes
     DEF CompleteDoes, vars

LEMMA WaiterStep == I /\ [Next]_vars => WaiterInv'
<1> SUFFICES ASSUME I, [Next]_vars PROVE WaiterInv'
  OBVIOUS
<1>1. /\ TypeOK /\ CallInv /\ UsageInv /\ WaiterInv /\ None \notin Tasks
      /\ task \in [Tasks -> TaskType] /\ call \in [Tasks -> CallType]
      /\ \A u \in Tasks : OneCall(u)
      /\ \A t, u \in Tasks : Child(t) = Child(u) /\ Child(t) # None => t = u
  BY Types, Numbers DEF I, UsageInv, CallInv, FamilyInv
<1> USE DEF Is, At
\* Who waits has waited before, for a child whose parent stays.
<1>a. ASSUME \A u \in Tasks : Waits(u)' => Waits(u) /\ Child(u)' = Child(u),
             \A u \in Tasks : /\ task'[u].sibling = task[u].sibling
                              /\ task'[u].parent = task[u].parent
      PROVE  WaiterInv'
  <2>1. \A u \in Tasks : Waits(u) => Child(u) \in Tasks
    BY <1>1 DEF OneCall
  <2> QED  BY <1>1, <1>a, <2>1 DEF WaiterInv
<1>b. ASSUME NEW t \in Tasks, NEW y, CallIs(t, y), y.at \notin {"wait", "killed", "put", "put_killed"}
      PROVE  \A u \in Tasks : Waits(u)' => Waits(u) /\ Child(u)' = Child(u)
  BY <1>1, <1>b DEF CallIs, Waits, Child
<1>c. ASSUME call' = call PROVE \A u \in Tasks : Waits(u)' => Waits(u) /\ Child(u)' = Child(u)
  BY <1>c DEF Waits, Child
<1>2. ASSUME NEW t \in Tasks, NEW c, NEW x, NEW y, ForkDoes(t, c, x, y) PROVE WaiterInv'
  <2>1. \A u \in Tasks : Waits(u) => Child(u) \in Tasks /\ Child(u) # c
    BY <1>1, <1>2 DEF OneCall, ForkDoes
  <2>2. \A u \in Tasks \ {c} : task'[u] = task[u]
    BY <1>1, <1>2 DEF ForkDoes, TaskIs
  <2>3. \A u \in Tasks : Waits(u)' => Waits(u) /\ Child(u)' = Child(u)
    BY <1>2, <1>b DEF ForkDoes
  <2> QED  BY <1>1, <2>1, <2>2, <2>3 DEF WaiterInv
<1>3. ASSUME NEW t \in Tasks, NEW c, NEW x, ForkFailsDoes(t, c, x) PROVE WaiterInv'
  <2>1. \A u \in Tasks : Waits(u)' => Waits(u) /\ Child(u)' = Child(u)
    BY <1>3, <1>b DEF ForkFailsDoes, NoCall
  <2> QED  BY <1>1, <1>3, <1>a, <2>1 DEF ForkFailsDoes, TaskIs
<1>4. ASSUME NEW t \in Tasks, NEW c, NEW x, NEW y, WakeDoes(t, c, x, y) PROVE WaiterInv'
  <2>1. /\ c \in Tasks /\ call[t].at = "copied" /\ call[t].child = c
        /\ \A u \in Tasks : Waits(u) => u # t /\ Child(u) # c /\ Child(u) \in Tasks
    BY <1>1, <1>4 DEF WakeDoes, OneCall, Child, Waits
  <2>2. /\ \A u \in Tasks \ {c} : task'[u] = task[u]
        /\ task'[c].parent = IF task'[c].sibling THEN task[t].parent ELSE t
        /\ \A u \in Tasks \ {t} : call'[u] = call[u]
    BY <1>1, <1>4, <2>1 DEF WakeDoes, TaskIs, CallIs
  <2>3. Waits(t)' => Child(t)' = c
    <3>1. CASE call[t].vfork
      BY <1>1, <1>4, <3>1 DEF WakeDoes, CallIs, Child
    <3>2. CASE ~call[t].vfork
      BY <1>1, <1>4, <3>2 DEF WakeDoes, CallIs, NoCall, Waits
    <3> QED  BY <3>1, <3>2
  <2>4. ASSUME NEW u \in Tasks, Waits(u)', ~task'[call'[u].child].sibling
        PROVE  task'[call'[u].child].parent = u
    <3>1. CASE u = t
      BY <2>2, <2>3, <2>4, <3>1 DEF Child
    <3>2. CASE u # t
      BY <1>1, <2>1, <2>2, <2>4, <3>2 DEF WaiterInv, Waits, Child
    <3> QED  BY <3>1, <3>2
  <2> QED  BY <2>4 DEF WaiterInv, Child
<1>5. ASSUME NEW t \in Tasks, NEW y, NEW a \in {"put", "killed", "put_killed"}, Waits(t), GoesTo(t, a, y)
      PROVE  \A u \in Tasks : Waits(u)' => Waits(u) /\ Child(u)' = Child(u)
  BY <1>1, <1>5 DEF GoesTo, CallIs, Waits, Child
<1>6. ASSUME NEW t \in Tasks, NEW c, NEW x, NEW y, ForgetDoes(t, c, x, y) PROVE WaiterInv'
  <2>1. \A u \in Tasks : Waits(u)' => Waits(u) /\ Child(u)' = Child(u)
    BY <1>5, <1>6 DEF ForgetDoes, Waits
  <2> QED  BY <1>1, <1>6, <1>a, <2>1 DEF ForgetDoes, TaskIs
<1>7. ASSUME NEW t \in Tasks, NEW c, NEW z, PutChildDoes(t, c, z) PROVE WaiterInv'
  <2>1. \A u \in Tasks : Waits(u)' => Waits(u) /\ Child(u)' = Child(u)
    BY <1>7, <1>b DEF PutChildDoes, NoCall
  <2> QED  BY <1>1, <1>7, <1>a, <2>1 DEF PutChildDoes, PutDoes, TaskIs
<1>8. ASSUME NEW t \in Tasks, NEW x, NEW y, ReleaseDoes(t, x, y) \/ LockDoes(t, x, y) PROVE WaiterInv'
  <2>1. \A u \in Tasks : Waits(u)' => Waits(u) /\ Child(u)' = Child(u)
    <3>1. CallIs(t, y) /\ y.at \notin {"wait", "killed", "put", "put_killed"}
      BY <1>8 DEF ReleaseDoes, LockDoes
    <3> QED  BY <3>1, <1>b
  <2> QED  BY <1>1, <1>8, <1>a, <2>1 DEF ReleaseDoes, LockDoes, TaskIs
<1>9. ASSUME NEW t \in Tasks, NEW y, CompleteDoes(t, y) PROVE WaiterInv'
  <2>1. \A u \in Tasks : Waits(u)' => Waits(u) /\ Child(u)' = Child(u)
    BY <1>9, <1>b DEF CompleteDoes
  <2> QED  BY <1>9, <1>a, <2>1 DEF CompleteDoes
<1>10. ASSUME NEW t \in Tasks, NEW auto \in BOOLEAN, NEW x, NEW y, ExitDoes(t, auto, x, y) PROVE WaiterInv'
  <2>1. \A u \in Tasks : Waits(u)' => Waits(u) /\ Child(u)' = Child(u)
    BY <1>10, <1>b DEF ExitDoes
  <2>2. \A u \in Tasks :
          /\ task'[u].sibling = task[u].sibling
          /\ task'[u].parent = task[u].parent \/ task[u].parent = t
    BY <1>10 DEF ExitDoes, Children
  <2>3. \A u \in Tasks : Waits(u) => Child(u) \in Tasks /\ u # t
    BY <1>1, <1>10 DEF OneCall, Waits, ExitDoes
  <2> QED  BY <1>1, <2>1, <2>2, <2>3 DEF WaiterInv
<1>11. ASSUME NEW t \in Tasks, NEW x, ReapDoes(t, x) PROVE WaiterInv'
  BY <1>1, <1>11, <1>a, <1>c DEF ReapDoes, TaskIs
<1>12. ASSUME NEW t \in Tasks, NEW i, NEW z, RcuDoes(t, i, z) PROVE WaiterInv'
  BY <1>1, <1>12, <1>a, <1>c DEF RcuDoes, PutDoes, TaskIs
<1>13. ASSUME NEW t \in Tasks, NEW z, SwitchDoes(t, z) PROVE WaiterInv'
  BY <1>1, <1>13, <1>a, <1>c DEF SwitchDoes, TaskIs
<1>14. ASSUME NEW t \in Tasks, NEW y, NEW a \in {"put", "killed"}, At(t, "wait"), GoesTo(t, a, y),
              UNCHANGED <<task, lock, done, cache, accounted, callbacks, records, stale, crossed, signaller>>
       PROVE  WaiterInv'
  <2>1. \A u \in Tasks : Waits(u)' => Waits(u) /\ Child(u)' = Child(u)
    BY <1>5, <1>14 DEF Waits
  <2> QED  BY <1>14, <1>a, <2>1
<1>15. CASE SignalStep
  BY <1>1, <1>15, <1>a, <1>c, SignalEffect DEF SignalDoes
<1>16. CASE UNCHANGED vars
  BY <1>16, <1>a, <1>c DEF vars
<1> HIDE DEF Is, At
<1> QED
  BY <1>1, <1>2, <1>3, <1>4, <1>6, <1>7, <1>8, <1>9, <1>10, <1>11, <1>12, <1>13, <1>14, <1>15, <1>16, StepDoes

LEMMA OrderStep == I /\ [Next]_vars => OrderInv'
<1> SUFFICES ASSUME I, [Next]_vars PROVE OrderInv'
  OBVIOUS
<1>1. /\ TypeOK /\ CallInv /\ UsageInv /\ ParentInv /\ OrderInv /\ None \notin Tasks /\ InitTask \in Tasks
      /\ task \in [Tasks -> TaskType] /\ call \in [Tasks -> CallType]
      /\ callbacks \in Seq(Tasks) /\ crossed \in BOOLEAN
      /\ \A u \in Tasks : OneCount(u) /\ OneCall(u)
      /\ task[InitTask].state = "running" /\ call[InitTask].at = "user"
  BY Types, Numbers DEF I, UsageInv, CallInv, FamilyInv, Is, At
<1> USE DEF Is, At
\* The callbacks stay, and nobody's parent ends.
<1>a. ASSUME callbacks' = callbacks, crossed' \/ crossed' = crossed,
             \A u \in Tasks :
               /\ Contains(callbacks, u) => task'[u].parent = task[u].parent
               /\ task[u].state \in {"running", "zombie"} => task'[u].state \in {"running", "zombie"} \/ crossed'
      PROVE  OrderInv'
  <2>1. ASSUME NEW u \in Tasks, Contains(callbacks, u), ~crossed'
        PROVE  /\ task'[u].parent \in Tasks
               /\ task'[task'[u].parent].state \in {"running", "zombie"} \/ Before(u, task'[u].parent)
    BY <1>1, <1>a, <2>1 DEF OrderInv
  <2> QED  BY <1>a, <2>1 DEF OrderInv, Before
\* A task whose parent runs is put at the end.
<1>b. ASSUME NEW t \in Tasks, callbacks' = Append(callbacks, t), crossed' = crossed,
             task[t].state \in {"running", "zombie"}, t # InitTask, task'[t].parent = task[t].parent,
             \A u \in Tasks \ {t} :
               /\ Contains(callbacks, u) => task'[u].parent = task[u].parent
               /\ task'[u].state = task[u].state
      PROVE  OrderInv'
  <2>1. /\ \A u : Contains(callbacks, u)' <=> Contains(callbacks, u) \/ u = t
        /\ DOMAIN callbacks' = 1 .. Len(callbacks) + 1 /\ DOMAIN callbacks = 1 .. Len(callbacks)
        /\ \A i \in 1 .. Len(callbacks) : callbacks'[i] = callbacks[i]
        /\ callbacks'[Len(callbacks) + 1] = t /\ Len(callbacks) \in Nat
    BY <1>1, <1>b, Enlist
  <2>2. ASSUME NEW u, NEW v, Before(u, v)
        PROVE  \E i, j \in DOMAIN callbacks' : i < j /\ callbacks'[i] = u /\ callbacks'[j] = v
    <3>1. PICK i \in 1 .. Len(callbacks) : \E j \in 1 .. Len(callbacks) :
            i < j /\ callbacks[i] = u /\ callbacks[j] = v
      BY <2>1, <2>2 DEF Before
    <3>2. PICK j \in 1 .. Len(callbacks) : i < j /\ callbacks[i] = u /\ callbacks[j] = v
      BY <3>1
    <3>3. i \in 1 .. Len(callbacks) + 1 /\ j \in 1 .. Len(callbacks) + 1
      BY <2>1
    <3> QED  BY <2>1, <3>2, <3>3
  <2>3. ASSUME NEW u \in Tasks, Contains(callbacks, u)
        PROVE  \E i, j \in DOMAIN callbacks' : i < j /\ callbacks'[i] = u /\ callbacks'[j] = t
    <3>1. PICK i \in 1 .. Len(callbacks) : callbacks[i] = u
      BY <2>1, <2>3 DEF Contains
    <3>2. i \in 1 .. Len(callbacks) + 1 /\ Len(callbacks) + 1 \in 1 .. Len(callbacks) + 1
          /\ i < Len(callbacks) + 1
      BY <2>1
    <3> QED  BY <2>1, <3>1, <3>2
  <2>4. ASSUME NEW u \in Tasks, Contains(callbacks, u)', ~crossed'
        PROVE  /\ task'[u].parent \in Tasks
               /\ \/ task'[task'[u].parent].state \in {"running", "zombie"}
                  \/ \E i, j \in DOMAIN callbacks' :
                       i < j /\ callbacks'[i] = u /\ callbacks'[j] = task'[u].parent
    <3>1. CASE u = t
      <4>1. task[t].parent \in Tasks \ {t} /\ task[task[t].parent].state = "running"
        BY <1>1, <1>b DEF ParentInv
      <4> QED  BY <1>b, <3>1, <4>1
    <3>2. CASE u # t
      <4>1. Contains(callbacks, u) /\ task'[u].parent = task[u].parent
        BY <1>b, <2>1, <2>4, <3>2
      <4>2. task[u].parent \in Tasks
            /\ (task[task[u].parent].state \in {"running", "zombie"} \/ Before(u, task[u].parent))
        BY <1>1, <1>b, <2>4, <4>1 DEF OrderInv
      <4>3. CASE task[u].parent = t
        BY <1>1, <2>3, <4>1, <4>3
      <4>4. CASE task[u].parent # t
        BY <1>b, <2>2, <4>1, <4>2, <4>4
      <4> QED  BY <4>3, <4>4
    <3> QED  BY <3>1, <3>2
  <2> QED  BY <2>4 DEF OrderInv, Before
<1>2. ASSUME NEW t \in Tasks, NEW c, NEW x, NEW y, ForkDoes(t, c, x, y) PROVE OrderInv'
  <2>1. ~Contains(callbacks, c) /\ c \in Tasks
    BY <1>1, <1>2 DEF ForkDoes, TaskIs, OneCount
  <2> QED  BY <1>1, <1>2, <1>a, <2>1 DEF ForkDoes, TaskIs
<1>3. ASSUME NEW t \in Tasks, NEW c, NEW x, ForkFailsDoes(t, c, x) PROVE OrderInv'
  <2>1. c \in Tasks /\ task[c].state = "new"
    BY <1>1, <1>3 DEF ForkFailsDoes, OneCall
  <2> QED  BY <1>1, <1>3, <1>a, <2>1 DEF ForkFailsDoes, TaskIs
<1>4. ASSUME NEW t \in Tasks, NEW c, NEW x, NEW y, WakeDoes(t, c, x, y) PROVE OrderInv'
  <2>1. c \in Tasks /\ task[c].state = "new"
    BY <1>1, <1>4 DEF WakeDoes, OneCall
  <2>2. ~Contains(callbacks, c)
    BY <1>1, <2>1 DEF OneCount
  <2> QED  BY <1>1, <1>4, <1>a, <2>1, <2>2 DEF WakeDoes, TaskIs
<1>5. ASSUME NEW t \in Tasks, NEW c, NEW x, NEW y, ForgetDoes(t, c, x, y) PROVE OrderInv'
  BY <1>1, <1>5, <1>a DEF ForgetDoes, TaskIs
<1>6. ASSUME NEW c \in Tasks, NEW z, PutDoes(c, task[c], z),
             Awaited(c) \/ Contains(callbacks, c), ~Is(c, {"unborn", "undone"})
      PROVE  \A u \in Tasks :
               /\ task'[u].parent = task[u].parent
               /\ task[u].state \in {"running", "zombie"} => task'[u].state = task[u].state
  <2>1. task[c].usage = 1 => task[c].state \notin {"new", "running", "zombie"}
    BY <1>1, <1>6, LastReference DEF OneCount
  <2> QED  BY <1>1, <1>6, <2>1 DEF PutDoes, TaskIs
<1>7. ASSUME NEW t \in Tasks, NEW c, NEW z, PutChildDoes(t, c, z) PROVE OrderInv'
  <2>1. c \in Tasks /\ Awaited(c) /\ ~Is(c, {"unborn", "undone"})
    BY <1>1, <1>7 DEF PutChildDoes, Awaited, OneCall, Waits
  <2>2. \A u \in Tasks :
               /\ task'[u].parent = task[u].parent
               /\ task[u].state \in {"running", "zombie"} => task'[u].state = task[u].state
    BY <1>6, <1>7, <2>1 DEF PutChildDoes
  <2> QED  BY <1>7, <1>a, <2>2 DEF PutChildDoes
<1>8. ASSUME NEW t \in Tasks, NEW x, NEW y, ReleaseDoes(t, x, y) \/ LockDoes(t, x, y) PROVE OrderInv'
  BY <1>1, <1>8, <1>a DEF ReleaseDoes, LockDoes, TaskIs
<1>9. ASSUME task' = task, callbacks' = callbacks, crossed' = crossed PROVE OrderInv'
  BY <1>9, <1>a
<1>10. ASSUME NEW t \in Tasks, NEW auto \in BOOLEAN, NEW x, NEW y, ExitDoes(t, auto, x, y) PROVE OrderInv'
  <2>1. task[t].state = "running" /\ t # InitTask /\ ~Contains(callbacks, t)
    BY <1>1, <1>10 DEF ExitDoes, OneCall, OneCount
  <2>2. ASSUME NEW u \in Tasks \ {t}
        PROVE  /\ task'[u].state = task[u].state
               /\ Contains(callbacks, u) => task'[u].parent = task[u].parent
    <3>1. Contains(callbacks, u) => u \notin Children(t)
      BY <1>1 DEF Children, OneCount
    <3> QED  BY <1>10, <3>1 DEF ExitDoes
  <2>3. task'[t].parent = task[t].parent /\ crossed' = crossed
        /\ task'[t].state = IF auto THEN "reaped" ELSE "zombie"
    BY <1>10 DEF ExitDoes
  <2>4. CASE auto
    <3>1. callbacks' = Append(callbacks, t)
      BY <1>10, <2>4 DEF ExitDoes
    <3> QED  BY <1>b, <2>1, <2>2, <2>3, <3>1
  <2>5. CASE ~auto
    <3>1. callbacks' = callbacks
      BY <1>10, <2>5 DEF ExitDoes
    <3> QED  BY <1>a, <2>1, <2>2, <2>3, <2>5, <3>1
  <2> QED  BY <2>4, <2>5
<1>11. ASSUME NEW t \in Tasks, NEW x, ReapDoes(t, x) PROVE OrderInv'
  BY <1>1, <1>11, <1>b DEF ReapDoes, TaskIs
<1>12. ASSUME NEW t \in Tasks, NEW i, NEW z, RcuDoes(t, i, z) PROVE OrderInv'
  <2>1. Contains(callbacks, t) /\ ~Is(t, {"unborn", "undone"}) /\ task[t].state = "reaped"
    <3>1. Contains(callbacks, t)
      BY <1>1, <1>12 DEF RcuDoes, Contains
    <3> QED  BY <1>1, <3>1 DEF OneCount
  <2>2. \A u \in Tasks :
               /\ task'[u].parent = task[u].parent
               /\ task[u].state \in {"running", "zombie"} => task'[u].state = task[u].state
    BY <1>6, <1>12, <2>1 DEF RcuDoes
  <2>3. ASSUME NEW u \in Tasks, Contains(callbacks, u)', ~crossed'
        PROVE  /\ task'[u].parent \in Tasks
               /\ \/ task'[task'[u].parent].state \in {"running", "zombie"}
                  \/ \E k, j \in DOMAIN callbacks' :
                       k < j /\ callbacks'[k] = u /\ callbacks'[j] = task'[u].parent
    <3>1. /\ DOMAIN callbacks' = 1 .. Len(callbacks) - 1 /\ DOMAIN callbacks = 1 .. Len(callbacks)
          /\ Len(callbacks) \in Nat /\ i \in 1 .. Len(callbacks)
          /\ \A j \in 1 .. Len(callbacks) - 1 :
               callbacks'[j] = IF j < i THEN callbacks[j] ELSE callbacks[j + 1]
          /\ Contains(callbacks, u) /\ u # t
      <4>1. i \in DOMAIN callbacks /\ callbacks' = RemoveAt(callbacks, i) /\ callbacks[i] = t
        BY <1>12 DEF RcuDoes
      <4>2. DOMAIN callbacks = 1 .. Len(callbacks) /\ Len(callbacks) \in Nat
        BY <1>1
      <4>3. Once
        BY <1>1 DEF UsageInv
      <4> QED  BY <1>1, <2>3, <4>1, <4>2, <4>3, Strike
    <3>2. callbacks[1] = t /\ ~crossed /\ i = 1
      <4>1. callbacks[1] = t /\ ~crossed /\ callbacks[i] = t
        BY <1>1, <1>12, <2>3 DEF RcuDoes
      <4>2. 1 \in DOMAIN callbacks /\ i \in DOMAIN callbacks
        BY <3>1
      <4> QED  BY <1>1, <4>1, <4>2 DEF UsageInv, Once
    <3>3. task[u].parent \in Tasks
          /\ (task[task[u].parent].state \in {"running", "zombie"} \/ Before(u, task[u].parent))
      BY <1>1, <3>1, <3>2 DEF OrderInv
    <3>4. CASE task[task[u].parent].state \in {"running", "zombie"}
      BY <2>2, <3>3, <3>4
    <3>5. CASE Before(u, task[u].parent)
      <4>1. PICK k \in 1 .. Len(callbacks) : \E j \in 1 .. Len(callbacks) :
              k < j /\ callbacks[k] = u /\ callbacks[j] = task[u].parent
        BY <3>1, <3>5 DEF Before
      <4>2. PICK j \in 1 .. Len(callbacks) : k < j /\ callbacks[k] = u /\ callbacks[j] = task[u].parent
        BY <4>1
      <4>3. k # 1 /\ k - 1 \in 1 .. Len(callbacks) - 1 /\ j - 1 \in 1 .. Len(callbacks) - 1 /\ k - 1 < j - 1
        BY <3>1, <3>2, <4>2
      <4>4. callbacks'[k - 1] = callbacks[k] /\ callbacks'[j - 1] = callbacks[j]
        BY <3>1, <3>2, <4>3
      <4> QED  BY <2>2, <3>1, <3>3, <4>2, <4>3, <4>4
    <3> QED  BY <3>3, <3>4, <3>5
  <2> QED  BY <2>3 DEF OrderInv, Before
<1>13. ASSUME NEW t \in Tasks, NEW z, SwitchDoes(t, z) PROVE OrderInv'
  <2>1. crossed' = (crossed \/ task[t].usage = 1) /\ callbacks' = callbacks
    BY <1>13 DEF SwitchDoes
  <2>2. /\ \A u \in Tasks \ {t} : task'[u] = task[u]
        /\ task'[t].parent = task[t].parent
        /\ task'[t].state = IF task[t].usage = 1 THEN "freed" ELSE task[t].state
    BY <1>1, <1>13 DEF SwitchDoes, TaskIs
  <2> QED  BY <1>1, <1>a, <2>1, <2>2
<1>14. CASE SignalStep
  BY <1>1, <1>14, <1>a, SignalEffect DEF SignalDoes
<1> HIDE DEF Is, At
<1> QED
  BY <1>1, <1>2, <1>3, <1>4, <1>5, <1>7, <1>8, <1>9, <1>10, <1>11, <1>12, <1>13, <1>14, StepDoes
     DEF CompleteDoes, vars

LEMMA StaleStep == I /\ [Next]_vars => StaleInv'
<1> SUFFICES ASSUME I, [Next]_vars PROVE StaleInv'
  OBVIOUS
<1>1. /\ TypeOK /\ CallInv /\ UsageInv /\ FamilyInv /\ None \notin Tasks
      /\ task \in [Tasks -> TaskType] /\ call \in [Tasks -> CallType]
      /\ stale \subseteq Tasks /\ crossed \in BOOLEAN
      /\ \A u \in Tasks : OneCount(u) /\ OneCall(u)
      /\ \A u \in stale : task[u].state = "freed" /\ (crossed \/ task[u].sibling)
  BY Types, Numbers DEF I, UsageInv, CallInv, FamilyInv, StaleInv, PpidReadable, Is
<1> USE DEF Is, At
\* No record is written, and no task that is freed changes.
<1>a. ASSUME stale' = stale, crossed' = crossed,
             \A u \in Tasks : task[u].state = "freed" =>
                                task'[u].state = "freed" /\ task'[u].sibling = task[u].sibling
      PROVE  StaleInv'
  BY <1>1, <1>a DEF StaleInv, PpidReadable
\* A record is written with the ppid of a parent that exists, or with an excuse.
<1>b. ASSUME NEW t \in Tasks, task[t].usage = 1 => task[t].state # "freed",
             stale' = (IF task[t].usage = 1 /\ Is(task[t].parent, {"freed"}) THEN stale \cup {t} ELSE stale),
             task[t].usage = 1 => task'[t].state = "freed",
             \A u \in Tasks : task'[u].sibling = task[u].sibling,
             \A u \in Tasks : task[u].state = "freed" => task'[u].state = "freed",
             crossed => crossed',
             task[t].usage = 1 /\ Is(task[t].parent, {"freed"}) => crossed' \/ task[t].sibling
      PROVE  StaleInv'
  BY <1>1, <1>b DEF StaleInv, PpidReadable
<1>2. ASSUME NEW t \in Tasks, NEW c, NEW x, NEW y, ForkDoes(t, c, x, y) PROVE StaleInv'
  BY <1>1, <1>2, <1>a DEF ForkDoes, TaskIs
<1>3. ASSUME NEW t \in Tasks, NEW c, NEW x, ForkFailsDoes(t, c, x) PROVE StaleInv'
  <2>1. c \in Tasks /\ task[c].state = "new"
    BY <1>1, <1>3 DEF ForkFailsDoes, OneCall
  <2> QED  BY <1>1, <1>3, <1>a, <2>1 DEF ForkFailsDoes, TaskIs
<1>4. ASSUME NEW t \in Tasks, NEW c, NEW x, NEW y, WakeDoes(t, c, x, y) PROVE StaleInv'
  <2>1. c \in Tasks /\ task[c].state = "new"
    BY <1>1, <1>4 DEF WakeDoes, OneCall
  <2> QED  BY <1>1, <1>4, <1>a, <2>1 DEF WakeDoes, TaskIs
<1>5. ASSUME NEW t \in Tasks, NEW c, NEW x, NEW y, ForgetDoes(t, c, x, y) PROVE StaleInv'
  BY <1>1, <1>5, <1>a DEF ForgetDoes, TaskIs
<1>6. ASSUME NEW t \in Tasks, NEW c, NEW z, PutChildDoes(t, c, z) PROVE StaleInv'
  <2>1. c \in Tasks /\ Waits(t) /\ Child(t) = c /\ task[c].state # "freed" /\ task[t].state = "running"
    BY <1>1, <1>6 DEF PutChildDoes, OneCall, Waits
  <2>2. ~task[c].sibling => task[c].parent = t
    BY <1>1, <2>1 DEF FamilyInv, WaiterInv
  <2>3. /\ \A u \in Tasks \ {c} : task'[u] = task[u]
        /\ task'[c].sibling = task[c].sibling
        /\ task'[c].state = IF task[c].usage = 1 THEN "freed" ELSE task[c].state
        /\ stale' = (IF task[c].usage = 1 /\ Is(task[c].parent, {"freed"}) THEN stale \cup {c} ELSE stale)
        /\ crossed' = crossed
    BY <1>1, <1>6, <2>1 DEF PutChildDoes, PutDoes, TaskIs
  <2> QED  BY <1>1, <1>b, <2>1, <2>2, <2>3
<1>7. ASSUME NEW t \in Tasks, NEW x, NEW y, ReleaseDoes(t, x, y) \/ LockDoes(t, x, y) PROVE StaleInv'
  BY <1>1, <1>7, <1>a DEF ReleaseDoes, LockDoes, TaskIs
<1>8. ASSUME task' = task, stale' = stale, crossed' = crossed PROVE StaleInv'
  BY <1>8, <1>a
<1>9. ASSUME NEW t \in Tasks, NEW auto \in BOOLEAN, NEW x, NEW y, ExitDoes(t, auto, x, y) PROVE StaleInv'
  <2>1. task[t].state = "running"
    BY <1>1, <1>9 DEF ExitDoes, OneCall
  <2>2. \A u \in Tasks \ {t} : task'[u].state = task[u].state /\ task'[u].sibling = task[u].sibling
    BY <1>9 DEF ExitDoes
  <2> QED  BY <1>9, <1>a, <2>1, <2>2 DEF ExitDoes
<1>10. ASSUME NEW t \in Tasks, NEW x, ReapDoes(t, x) PROVE StaleInv'
  BY <1>1, <1>10, <1>a DEF ReapDoes, TaskIs
<1>11. ASSUME NEW t \in Tasks, NEW i, NEW z, RcuDoes(t, i, z) PROVE StaleInv'
  <2>1. Contains(callbacks, t) /\ callbacks[i] = t /\ i \in DOMAIN callbacks /\ callbacks \in Seq(Tasks)
    BY <1>1, <1>11 DEF RcuDoes, Contains, TypeOK
  <2>2. task[t].state = "reaped"
    BY <1>1, <2>1 DEF OneCount
  <2>3. /\ \A u \in Tasks \ {t} : task'[u] = task[u]
        /\ task'[t].sibling = task[t].sibling
        /\ task'[t].state = IF task[t].usage = 1 THEN "freed" ELSE task[t].state
        /\ stale' = (IF task[t].usage = 1 /\ Is(task[t].parent, {"freed"}) THEN stale \cup {t} ELSE stale)
        /\ crossed' = (crossed \/ callbacks[1] # t)
    BY <1>1, <1>11 DEF RcuDoes, PutDoes, TaskIs
  <2>4. ASSUME task[task[t].parent].state = "freed" PROVE crossed'
    <3>1. SUFFICES ASSUME ~crossed PROVE FALSE
      BY <2>3
    <3>2. task[t].parent \in Tasks /\ Before(t, task[t].parent)
      BY <1>1, <2>1, <2>4, <3>1 DEF FamilyInv, OrderInv
    <3>3. Contains(callbacks, task[t].parent)
      BY <2>1, <3>2 DEF Before, Contains
    <3> QED  BY <1>1, <2>4, <3>2, <3>3 DEF OneCount
  <2>5. /\ crossed => crossed'
        /\ task[t].usage = 1 /\ Is(task[t].parent, {"freed"}) => crossed' \/ task[t].sibling
        /\ task[t].usage = 1 => task[t].state # "freed"
        /\ task[t].usage = 1 => task'[t].state = "freed"
    BY <2>2, <2>3, <2>4
  <2>6. /\ \A u \in Tasks : task'[u].sibling = task[u].sibling
        /\ \A u \in Tasks : task[u].state = "freed" => task'[u].state = "freed"
    BY <2>2, <2>3
  <2> QED  BY <1>b, <2>3, <2>5, <2>6
<1>12. ASSUME NEW t \in Tasks, NEW z, SwitchDoes(t, z) PROVE StaleInv'
  <2>1. /\ \A u \in Tasks \ {t} : task'[u] = task[u]
        /\ task'[t].sibling = task[t].sibling /\ task[t].state # "freed"
        /\ task'[t].state = IF task[t].usage = 1 THEN "freed" ELSE task[t].state
        /\ stale' = (IF task[t].usage = 1 /\ Is(task[t].parent, {"freed"}) THEN stale \cup {t} ELSE stale)
        /\ crossed' = (crossed \/ task[t].usage = 1)
    BY <1>1, <1>12 DEF SwitchDoes, TaskIs
  <2> QED  BY <1>1, <1>b, <2>1
<1>13. CASE SignalStep
  BY <1>1, <1>13, <1>a, SignalEffect DEF SignalDoes
<1> HIDE DEF Is, At
<1> QED
  BY <1>1, <1>2, <1>3, <1>4, <1>5, <1>6, <1>7, <1>8, <1>9, <1>10, <1>11, <1>12, <1>13, StepDoes
     DEF CompleteDoes, vars

LEMMA SectionStep == I /\ [Next]_vars => SectionInv'
<1> SUFFICES ASSUME I, [Next]_vars PROVE SectionInv'
  OBVIOUS
<1>1. /\ TypeOK /\ CallInv /\ UsageInv /\ SectionInv /\ None \notin Tasks
      /\ task \in [Tasks -> TaskType] /\ call \in [Tasks -> CallType]
      /\ signaller \in [Signallers -> SignallerType] /\ callbacks \in Seq(Tasks)
      /\ \A u \in Tasks : OneCount(u) /\ OneCall(u)
  BY Types, Numbers DEF I, UsageInv, CallInv
<1> USE DEF Is, At
\* A task that could be found still can, or a grace period that waits for every
\* section has begun; and that of a section waits on.
<1>a. ASSUME signaller' = signaller,
             \A u \in Tasks :
               /\ task[u].state \in {"running", "zombie"} =>
                    \/ task'[u].state \in {"running", "zombie"}
                    \/ task'[u].state = "reaped" /\ Contains(callbacks, u)' /\ task'[u].grace = Sections
               /\ task[u].state = "reaped" /\ Contains(callbacks, u) /\ task[u].grace # {} =>
                    /\ task'[u].state = "reaped" /\ Contains(callbacks, u)'
                    /\ task'[u].grace = task[u].grace
      PROVE  SectionInv'
  <2>1. ASSUME NEW s \in Signallers, signaller[s].at = "section"
        PROVE  \E u \in Tasks :
                 /\ u = signaller[s].task
                 /\ \/ task'[u].state \in {"running", "zombie"}
                    \/ task'[u].state = "reaped" /\ Contains(callbacks, u)' /\ s \in task'[u].grace
    <3>1. PICK u \in Tasks :
            /\ u = signaller[s].task
            /\ \/ task[u].state \in {"running", "zombie"}
               \/ task[u].state = "reaped" /\ Contains(callbacks, u) /\ s \in task[u].grace
      BY <1>1, <2>1 DEF SectionInv, Found
    <3>2. s \in Sections
      BY <2>1 DEF Sections
    <3> QED  BY <1>a, <3>1, <3>2
  <2> QED  BY <1>a, <2>1 DEF SectionInv, Found, Contains
<1>b. callbacks' = callbacks => \A u : Contains(callbacks, u)' <=> Contains(callbacks, u)
  BY DEF Contains
<1>c. ASSUME callbacks' = callbacks, signaller' = signaller,
             \A u \in Tasks : /\ task[u].state \in {"running", "zombie"} => task'[u].state \in {"running", "zombie"}
                              /\ task[u].state = "reaped" /\ Contains(callbacks, u) =>
                                   task'[u].state = "reaped" /\ task'[u].grace = task[u].grace
      PROVE  SectionInv'
  BY <1>a, <1>b, <1>c
<1>2. ASSUME NEW t \in Tasks, NEW c, NEW x, NEW y, ForkDoes(t, c, x, y) PROVE SectionInv'
  BY <1>1, <1>2, <1>c DEF ForkDoes, TaskIs
<1>3. ASSUME NEW t \in Tasks, NEW c, NEW x, ForkFailsDoes(t, c, x) PROVE SectionInv'
  <2>1. c \in Tasks /\ task[c].state = "new"
    BY <1>1, <1>3 DEF ForkFailsDoes, OneCall
  <2> QED  BY <1>1, <1>3, <1>c, <2>1 DEF ForkFailsDoes, TaskIs
<1>4. ASSUME NEW t \in Tasks, NEW c, NEW x, NEW y, WakeDoes(t, c, x, y) PROVE SectionInv'
  <2>1. c \in Tasks /\ task[c].state = "new"
    BY <1>1, <1>4 DEF WakeDoes, OneCall
  <2> QED  BY <1>1, <1>4, <1>c, <2>1 DEF WakeDoes, TaskIs
<1>5. ASSUME NEW t \in Tasks, NEW c, NEW x, NEW y, ForgetDoes(t, c, x, y) PROVE SectionInv'
  BY <1>1, <1>5, <1>c DEF ForgetDoes, TaskIs
<1>6. ASSUME NEW t \in Tasks, NEW c, NEW z, PutChildDoes(t, c, z) PROVE SectionInv'
  <2>1. c \in Tasks /\ Awaited(c) /\ ~Is(c, {"unborn", "undone"})
    BY <1>1, <1>6 DEF PutChildDoes, Awaited, OneCall, Waits
  <2>2. task[c].usage = 1 => task[c].state \notin {"running", "zombie"} /\ ~Contains(callbacks, c)
    BY <1>1, <2>1, LastReference
  <2> QED  BY <1>1, <1>6, <1>c, <2>1, <2>2 DEF PutChildDoes, PutDoes, TaskIs
<1>7. ASSUME NEW t \in Tasks, NEW x, NEW y, ReleaseDoes(t, x, y) \/ LockDoes(t, x, y) PROVE SectionInv'
  BY <1>1, <1>7, <1>c DEF ReleaseDoes, LockDoes, TaskIs
<1>8. ASSUME task' = task, callbacks' = callbacks, signaller' = signaller PROVE SectionInv'
  BY <1>8, <1>c
<1>9. ASSUME NEW t \in Tasks, callbacks' = Append(callbacks, t), signaller' = signaller,
             task[t].state \in {"running", "zombie"},
             task'[t].state = "reaped" /\ task'[t].grace = Sections,
             \A u \in Tasks \ {t} : task'[u].state = task[u].state /\ task'[u].grace = task[u].grace
      PROVE  SectionInv'
  <2>1. \A u : Contains(callbacks, u)' <=> Contains(callbacks, u) \/ u = t
    BY <1>1, <1>9, Enlist
  <2> QED  BY <1>9, <1>a, <2>1
<1>10. ASSUME NEW t \in Tasks, NEW auto \in BOOLEAN, NEW x, NEW y, ExitDoes(t, auto, x, y) PROVE SectionInv'
  <2>1. task[t].state = "running"
    BY <1>1, <1>10 DEF ExitDoes, OneCall
  <2>2. ASSUME NEW u \in Tasks \ {t}
        PROVE  task'[u].state = task[u].state /\ task'[u].grace = task[u].grace
    BY <1>10 DEF ExitDoes
  <2>3. CASE auto
    BY <1>9, <1>10, <2>1, <2>2, <2>3 DEF ExitDoes
  <2>4. CASE ~auto
    BY <1>c, <1>10, <2>1, <2>2, <2>4 DEF ExitDoes
  <2> QED  BY <2>3, <2>4
<1>11. ASSUME NEW t \in Tasks, NEW x, ReapDoes(t, x) PROVE SectionInv'
  <2>1. \A u \in Tasks \ {t} : task'[u] = task[u]
    BY <1>1, <1>11 DEF ReapDoes, TaskIs
  <2>2. task'[t] = x
    BY <1>1, <1>11 DEF ReapDoes, TaskIs
  <2> QED  BY <1>9, <1>11, <2>1, <2>2 DEF ReapDoes
<1>12. ASSUME NEW t \in Tasks, NEW i, NEW z, RcuDoes(t, i, z) PROVE SectionInv'
  <2>1. \A u : Contains(callbacks, u)' <=> Contains(callbacks, u) /\ u # t
    BY <1>1, <1>12, Strike DEF RcuDoes, UsageInv
  <2>2. Contains(callbacks, t)
    BY <1>1, <1>12 DEF RcuDoes, Contains
  <2>3. task[t].grace = {} /\ task[t].state = "reaped"
    BY <1>1, <1>12, <2>2 DEF RcuDoes, OneCount
  <2>4. signaller' = signaller /\ \A u \in Tasks \ {t} : task'[u] = task[u]
    BY <1>1, <1>12 DEF RcuDoes, PutDoes, TaskIs
  <2> QED  BY <1>a, <2>1, <2>3, <2>4
<1>13. ASSUME NEW t \in Tasks, NEW z, SwitchDoes(t, z) PROVE SectionInv'
  <2>1. task[t].usage = 1 => task[t].state \notin {"running", "zombie"} /\ ~Contains(callbacks, t)
    BY <1>1, <1>13, LastReference DEF SwitchDoes
  <2> QED  BY <1>1, <1>13, <1>c, <2>1 DEF SwitchDoes, TaskIs
<1>14. ASSUME NEW s \in Signallers, NEW t \in Tasks, FindTask(s, t) PROVE SectionInv'
  <2>1. task' = task /\ callbacks' = callbacks /\ task[t].state \in {"running", "zombie"}
    BY <1>14 DEF FindTask, Stacks
  <2>2. signaller'[s].task = t /\ \A r \in Signallers \ {s} : signaller'[r] = signaller[r]
    BY <1>1, <1>14 DEF FindTask, SignallerType
  <2> QED  BY <1>1, <2>1, <2>2 DEF SectionInv, Found, Contains
<1>15. ASSUME NEW s \in Signallers, RcuReadUnlock(s) PROVE SectionInv'
  <2>1. /\ callbacks' = callbacks
        /\ \A u \in Tasks : task'[u].state = task[u].state /\ task'[u].grace = task[u].grace \ {s}
    <3>1. callbacks' = callbacks /\ task' = [u \in Tasks |-> [task[u] EXCEPT !.grace = @ \ {s}]]
      BY <1>15 DEF RcuReadUnlock, Stacks
    <3>2. ASSUME NEW u \in Tasks
          PROVE  task'[u].state = task[u].state /\ task'[u].grace = task[u].grace \ {s}
      <4> DEFINE g == task[u].grace \ {s}
      <4>1. task[u] \in TaskType /\ task'[u] = [task[u] EXCEPT !.grace = g]
        BY <1>1, <3>1
      <4> HIDE DEF g
      <4>2. task'[u].state = task[u].state /\ task'[u].grace = g
        BY <4>1 DEF TaskType
      <4> QED  BY <4>2 DEF g
    <3> QED  BY <3>1, <3>2
  <2>2. signaller'[s].at = "send" /\ \A r \in Signallers \ {s} : signaller'[r] = signaller[r]
    BY <1>1, <1>15 DEF RcuReadUnlock, SignallerType
  <2> QED  BY <1>1, <2>1, <2>2 DEF SectionInv, Found, Contains
<1>16. ASSUME NEW s \in Signallers, SendSigInfo(s) PROVE SectionInv'
  <2>1. task' = task /\ callbacks' = callbacks
    BY <1>16 DEF SendSigInfo, Stacks
  <2>2. signaller'[s].at = "idle" /\ \A r \in Signallers \ {s} : signaller'[r] = signaller[r]
    BY <1>1, <1>16 DEF SendSigInfo, SignallerType
  <2> QED  BY <1>1, <2>1, <2>2 DEF SectionInv, Found, Contains
<1>17. CASE SignalStep
  BY <1>14, <1>15, <1>16, <1>17 DEF SignalStep
<1> HIDE DEF Is, At
<1> QED
  BY <1>1, <1>2, <1>3, <1>4, <1>5, <1>6, <1>7, <1>8, <1>10, <1>11, <1>12, <1>13, <1>17, StepDoes
     DEF CompleteDoes, vars

-----------------------------------------------------------------------------
(* The theorems.                                                           *)

LEMMA InitInv == Init => I
<1> SUFFICES ASSUME Init PROVE I
  OBVIOUS
<1> DEFINE first == {InitTask, Shell}
<1>1. /\ None \notin Tasks /\ InitTask \in Tasks /\ Shell \in Tasks /\ InitTask # Shell
      /\ 2 \in 0 .. 3 /\ 2 \in Nat /\ 0 \in Nat
  BY Numbers
<1>2. \A t \in first : /\ Runs(InitTask, t) \in TaskType
                       /\ Runs(InitTask, t).state = "running" /\ Runs(InitTask, t).usage = 2
                       /\ Runs(InitTask, t).parent = InitTask /\ Runs(InitTask, t).vfork = None
                       /\ Runs(InitTask, t).stack = t /\ Runs(InitTask, t).borrows = FALSE
                       /\ Runs(InitTask, t).switched = FALSE /\ Runs(InitTask, t).sibling = FALSE
  <2>1. Unborn \in TaskType /\ "running" \in States
    BY UnbornType DEF States
  <2> QED  BY <1>1, <2>1 DEF Runs, TaskType, Unborn
<1>3. /\ \A t \in Tasks : task[t] = IF t \in first THEN Runs(InitTask, t) ELSE Unborn
      /\ \A t \in Tasks : call[t] = NoCall /\ lock[t] = None /\ records[t] = 0
      /\ done = {} /\ cache = [i \in 1 .. CacheSlots |-> None] /\ accounted = 2 /\ callbacks = <<>>
      /\ stale = {} /\ crossed = FALSE
      /\ signaller = [s \in Signallers |-> [at |-> "idle", task |-> None, left |-> MaxSignals]]
  BY DEF Init
<1>4. TypeOK
  <2>1. task \in [Tasks -> TaskType]
    BY <1>2, <1>3, UnbornType DEF Init
  <2>2. call \in [Tasks -> CallType] /\ lock \in [Tasks -> Tasks \cup {None}] /\ records \in [Tasks -> Nat]
    BY <1>1, NoCallType DEF Init
  <2>3. signaller \in [Signallers -> SignallerType]
    BY <1>3, BoundsAssumption DEF SignallerType
  <2>4. cache \in [1 .. CacheSlots -> Tasks \cup {None}] /\ callbacks \in Seq(Tasks)
    BY <1>3
  <2> QED  BY <1>1, <1>3, <2>1, <2>2, <2>3, <2>4 DEF TypeOK, TaskType, CallType, States, Points, SignallerType
<1> USE DEF Is, At
<1>5. Unborn.state = "unborn" /\ Unborn.usage = 0 /\ Unborn.stack = None /\ Unborn.vfork = None
      /\ Unborn.parent = None /\ Unborn.switched = FALSE /\ Unborn.borrows = FALSE
  BY DEF Unborn
<1>6. NoCall.at = "user" /\ NoCall.child = None /\ NoCall.vfork = FALSE /\ NoCall.frame = None
  BY DEF NoCall
<1>7. CallInv
  BY <1>1, <1>2, <1>3, <1>5, <1>6 DEF CallInv, OneCall, Waits, Child, Ended
<1>8. UsageInv
  <2>1. \A t : ~Contains(callbacks, t)
    BY <1>3 DEF Contains
  <2>2. \A t \in Tasks : ~Awaited(t)
    BY <1>3, <1>6 DEF Awaited, Waits
  <2>3. ASSUME NEW t \in Tasks PROVE OneCount(t)
    <3>1. CASE t \in first
      BY <1>2, <1>3, <2>1, <2>2, <3>1 DEF OneCount, Referenced
    <3>2. CASE t \notin first
      BY <1>3, <1>5, <2>1, <2>2, <3>2 DEF OneCount, Referenced
    <3> QED  BY <3>1, <3>2
  <2>4. Once
    BY <1>3 DEF Once
  <2> QED  BY <2>3, <2>4 DEF UsageInv
<1>9. RecordsExact
  BY <1>2, <1>3, <1>5 DEF RecordsExact
<1>10. VforkInv
  BY <1>2, <1>3, <1>5, <1>6 DEF VforkInv, OneVfork
<1>11. StackInv
  <2>1. Owners = first
    <3>1. \A t \in Tasks : task[t].stack # None <=> t \in first
      BY <1>1, <1>2, <1>3, <1>5
    <3> QED  BY <1>1, <3>1 DEF Owners
  <2>2. Cardinality(Owners) = 2
    <3>1. {InitTask} \cup {Shell} = Owners
      BY <2>1
    <3>2. IsFiniteSet({InitTask}) /\ Cardinality({InitTask}) = 1
      BY FS_Singleton
    <3> QED  BY <1>1, <3>1, <3>2, FS_AddElement
  <2>3. \A t \in first : task[t].stack = t /\ task[t].state = "running" /\ task[t].switched = FALSE
    BY <1>1, <1>2, <1>3
  <2>4. \A i \in DOMAIN cache : cache[i] = None
    BY <1>3
  <2>5. StacksExclusive
    BY <1>1, <1>3, <2>1, <2>2, <2>3, <2>4 DEF StacksExclusive, Full
  <2>6. \A t \in Tasks : task[t].stack # None <=>
                        ~task[t].switched /\ ~Is(t, {"unborn", "freed", "undone"})
    BY <1>1, <1>2, <1>3, <1>5
  <2> QED  BY <1>1, <2>1, <2>3, <2>4, <2>5, <2>6 DEF StackInv, Full
<1>12. FamilyInv
  <2>1. ParentInv
    BY <1>1, <1>2, <1>3, <1>5 DEF ParentInv
  <2>2. WaiterInv
    BY <1>3, <1>6 DEF WaiterInv, Waits
  <2>3. OrderInv
    BY <1>3 DEF OrderInv, Contains
  <2> QED  BY <1>3, <2>1, <2>2, <2>3 DEF FamilyInv, StaleInv, PpidReadable
<1>13. SectionInv
  BY <1>3 DEF SectionInv
<1> QED  BY <1>4, <1>7, <1>8, <1>9, <1>10, <1>11, <1>12, <1>13 DEF I

\* In every reachable state the invariant holds.
THEOREM Invariant == Spec => []I
<1>1. I /\ [Next]_vars => I'
  BY TypeStep, CallStep, UsageStep, RecordsStep, VforkStep, StackStep, ParentStep, WaiterStep,
     OrderStep, StaleStep, SectionStep DEF I, FamilyInv
<1> QED  BY InitInv, <1>1, PTL DEF Spec

\* A set with at most one element is counted by asking whether it has any.
LEMMA AtMostOne ==
  ASSUME NEW S, \A a, b \in S : a = b
  PROVE  Cardinality(S) = IF S = {} THEN 0 ELSE 1
<1>1. CASE S = {}
  BY <1>1, FS_EmptySet
<1>2. CASE S # {}
  <2>1. PICK a \in S : S = {a}
    BY <1>2
  <2> QED  BY <1>2, <2>1, FS_Singleton
<1> QED  BY <1>1, <1>2

\* References are counted exactly: whenever a task exists, usage is one for the scheduler
\* that still runs on its stack, one for whoever reaps it until the grace period is over,
\* and one for a vfork that waits for it; and each freed task has written one record.
THEOREM ReferencesExact == Spec => []Consistent
<1>1. I => Consistent
  <2> SUFFICES ASSUME I PROVE Consistent
    OBVIOUS
  <2>1. TypeOK /\ RecordsExact /\ CallInv /\ UsageInv /\ None \notin Tasks
    BY Numbers DEF I
  <2>2. ASSUME NEW t \in Tasks
        PROVE  Cardinality({u \in Tasks : Child(u) = t /\ call[u].vfork /\ ~At(u, "copied")})
                 = Referenced(t, Awaited(t))
    <3> DEFINE S == {u \in Tasks : Child(u) = t /\ call[u].vfork /\ ~At(u, "copied")}
    <3>1. S = {u \in Tasks : Child(u) = t /\ Waits(u)}
      BY <2>1 DEF CallInv, OneCall, Waits, At
    <3>2. \A u, v \in S : u = v
      BY <2>1 DEF CallInv
    <3>3. S = {} <=> ~Awaited(t)
      BY <3>1 DEF Awaited
    <3> QED  BY <3>2, <3>3, AtMostOne DEF Referenced
  <2>3. UsageExact
    BY <2>1, <2>2 DEF UsageExact, UsageInv, OneCount
  <2> QED  BY <2>1, <2>3 DEF Consistent
<1> QED  BY Invariant, <1>1, PTL

\* A vfork returns neither before its child has let go of the memory, unless it was
\* killed, nor before the child has stopped writing to its frame.
THEOREM VforkIsSafe == Spec => []VforkSafe
<1>1. I => VforkSafe
  <2> SUFFICES ASSUME I PROVE VforkSafe
    OBVIOUS
  <2>1. VforkInv /\ CallInv
    BY DEF I
  <2>2. NoStrayCompletion
    <3>1. ASSUME NEW t \in Tasks, At(t, "locked"), call[t].frame # None
          PROVE  FrameLive(call[t].frame)
      <4>1. call[t].frame = t /\ WaitedFor(t)
        BY <2>1, <3>1 DEF VforkInv, OneVfork
      <4>2. PICK u \in Tasks : Child(u) = t /\ call[u].at \in {"wait", "killed"}
        BY <4>1 DEF WaitedFor
      <4>3. call[u].vfork
        BY <2>1, <4>2 DEF CallInv, OneCall, Waits
      <4> QED  BY <4>1, <4>2, <4>3 DEF FrameLive
    <3> QED  BY <3>1 DEF NoStrayCompletion
  <2>3. ReturnsAfterRelease
    BY <2>1 DEF VforkInv, OneVfork, ReturnsAfterRelease
  <2> QED  BY <2>2, <2>3 DEF VforkSafe
<1> QED  BY Invariant, <1>1, PTL

\* A stack has one owner, a task or a slot of the cache, a task that is freed has none,
\* and NR_KERNEL_STACK_KB counts the stacks in use.
THEOREM StacksOwned == Spec => []StacksExclusive
<1>1. I => StacksExclusive
  BY DEF I, StackInv
<1> QED  BY Invariant, <1>1, PTL

\* A waiting vfork, the writer of a dead record and a section of the signal module find
\* the task they look at not yet freed, the second unless callbacks have crossed or
\* CLONE_PARENT gave the child another parent than the one that waits.
THEOREM FreedIsUnseen == Spec => []HeldTasksExist
<1>1. I => HeldTasksExist
  <2> SUFFICES ASSUME I PROVE HeldTasksExist
    OBVIOUS
  <2>1. CallInv /\ FamilyInv /\ SectionInv
    BY DEF I
  <2>2. ChildHeld
    BY <2>1 DEF CallInv, OneCall, Waits, ChildHeld, Is
  <2>3. FoundInSection
    BY <2>1 DEF SectionInv, FoundInSection, Is
  <2> QED  BY <2>1, <2>2, <2>3 DEF HeldTasksExist, FamilyInv, StaleInv
<1> QED  BY Invariant, <1>1, PTL

=============================================================================
