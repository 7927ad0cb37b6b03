---------------------------- MODULE MmLife_proofs ----------------------------
(***************************************************************************)
(* Theorems about MmLife, for any finite sets of tasks, readers, kernel    *)
(* threads and mms, any files and any bounds: the counts of every mm are   *)
(* exact and its memory is there while it is used, no file, charge or      *)
(* module is lost or taken twice, and mm_access gives out no memory it may *)
(* not.                                                                    *)
(***************************************************************************)
EXTENDS MmLife, FiniteSetTheorems, SequenceTheorems, TLAPS

-----------------------------------------------------------------------------
(* The invariant.                                                          *)

MmType == [state : {"free", "live", "dying", "torn"}, users : Int, count : Int,
           exe : Files \cup {None}, areas : Seq(Areas), binfmt : BOOLEAN,
           for : {"all", "owner"}, sem : Tasks \cup {None}]
TaskType == [state : {"unborn", "alive", "dead"}, mm : Mms \cup {None}, creds : {"all", "owner"}]
ForkPoints == {"mmap_sem", "area", "charged", "binfmt", "undo"}
CallType == [at : ForkPoints \cup {"user", "exec", "exec_creds"},
             mm : Mms \cup {None}, i : Nat \ {0}, charge : {0, 1}]
ReaderType == [at : {"idle", "lock", "locked", "check", "held", "file"},
               task : Tasks \cup {None}, mm : Mms \cup {None},
               file : Files \cup {None}, access : BOOLEAN]
KthreadType == [mm : Mms \cup {None}, uses : BOOLEAN]

\* The types, but for the signs of the counts.
Typed ==
  /\ mm \in [Mms -> MmType]
  /\ task \in [Tasks -> TaskType]
  /\ call \in [Tasks -> CallType]
  /\ reader \in [Readers -> ReaderType]
  /\ kthread \in [Kthreads -> KthreadType]
  /\ refs \in [Files -> [held : Int, denied : Int, writable : Int]]
  /\ committed \in Int /\ modules \in Int
  /\ task_lock \in [Tasks -> Readers \cup {None}]
  /\ guard \in [Tasks -> Tasks \cup Readers \cup {None}]
  /\ left \in [{"forks", "execs", "maps", "reads"} -> Nat]

\* What a task, a reader and a kernel thread have at every point.
Forking(t) == call[t].at \in ForkPoints
Execing(t) == call[t].at \in {"exec", "exec_creds"}
TaskShape(t) ==
  /\ Alive(t) <=> task[t].mm # None
  /\ ~At(t, "user") => Alive(t)
  /\ At(t, "user") \/ At(t, "exec_creds") <=> call[t].mm = None
  /\ ~At(t, "charged") => call[t].charge = 0
ReaderShape(r) ==
  /\ Reads(r, "idle") \/ Reads(r, "lock") \/ Reads(r, "file") => reader[r].mm = None
  /\ Reads(r, "check") \/ Reads(r, "held") => reader[r].mm # None
  /\ Reads(r, "lock") \/ Reads(r, "locked") \/ Reads(r, "check") =>
       reader[r].task \in Tasks /\ task[reader[r].task].state # "unborn"
  /\ Reads(r, "file") <=> reader[r].file # None
  /\ Reads(r, "check") => reader[r].access
Shape ==
  /\ \A t \in Tasks : TaskShape(t)
  /\ \A r \in Readers : ReaderShape(r)
  /\ \A k \in Kthreads : kthread[k].uses => kthread[k].mm # None

\* Nobody else knows the mm that a dup_mm fills.
Private(t) ==
  LET m == call[t].mm IN
  /\ \A u \in Tasks : task[u].mm # m /\ (u # t => call[u].mm # m)
  /\ \A r \in Readers : reader[r].mm # m
  /\ \A k \in Kthreads : kthread[k].mm # m
PrivateInv == \A t \in Tasks : Forking(t) => Private(t)

\* Between reading the pointer and counting the user, a reader keeps the task from
\* dropping its mm.
LockInv ==
  \A r \in Readers : Reads(r, "locked") =>
    task_lock[reader[r].task] = r /\ reader[r].mm = task[reader[r].task].mm

\* cred_guard_mutex is held by exec or by one who checks.
Holds(r) == reader[r].access /\ (Reads(r, "lock") \/ Reads(r, "locked") \/ Reads(r, "check"))
GuardInv ==
  /\ \A t \in Tasks : Execing(t) => guard[t] = t
  /\ \A r \in Readers : Holds(r) => guard[reader[r].task] = r /\ ~Execing(reader[r].task)

\* The counts.
TasksOf(m)   == {t \in Tasks : task[t].mm = m}
CallsOf(m)   == {t \in Tasks : call[t].mm = m}
ReadersOf(m) == {r \in Readers : reader[r].mm = m /\ reader[r].at \in {"check", "held"}}
UsesOf(m)    == {k \in Kthreads : kthread[k].mm = m /\ kthread[k].uses}
BorrowsOf(m) == {k \in Kthreads : kthread[k].mm = m}

UsersInv ==
  /\ CountsExact
  /\ \A m \in Mms : /\ mm[m].state = "live" <=> mm[m].users # 0
                    /\ mm[m].state = "free" => mm[m].count = 0

\* A dup_mmap holds mmap_sem of the mm it copies, and has charged for the area it is at.
CopyInv(t) ==
  /\ At(t, "mmap_sem") => mm[call[t].mm].exe = None
  /\ At(t, "area") \/ At(t, "charged") => mm[task[t].mm].sem = t
  /\ At(t, "charged") => /\ call[t].i <= Len(OldAreas(t))
                         /\ call[t].charge = Charge(NextArea(t))
DupInv == \A t \in Tasks : CopyInv(t)

\* Whose memory it is: a task for all has memory for all, and so has what it makes; what
\* a reader has been allowed is for all.
ForAll(m) == mm[m].for = "all"
CredOf(t) ==
  task[t].creds = "all" =>
    /\ Alive(t) /\ ~At(t, "exec_creds") => ForAll(task[t].mm)
    /\ Forking(t) => ForAll(call[t].mm)
CredInv == \A t \in Tasks : CredOf(t)
ReadOf(r) ==
  /\ Reads(r, "check") /\ task[reader[r].task].creds = "all" => ForAll(reader[r].mm)
  /\ Reads(r, "held") /\ reader[r].access => ForAll(reader[r].mm)
ReadInv == \A r \in Readers : ReadOf(r)

Basic == Typed /\ Shape /\ PrivateInv /\ LockInv /\ GuardInv
Inv == Basic /\ UsersInv /\ DupInv /\ CredInv /\ ReadInv /\ ResourcesExact

-----------------------------------------------------------------------------
(* Counting.                                                               *)

One(b) == IF b THEN 1 ELSE 0

\* Of two subsets that differ in at most one element.
LEMMA CountStep ==
  ASSUME NEW S, IsFiniteSet(S), NEW A \in SUBSET S, NEW B \in SUBSET S, NEW x,
         \A y \in S : y # x => (y \in A <=> y \in B)
  PROVE  /\ Cardinality(A) \in Nat /\ Cardinality(B) \in Nat
         /\ Cardinality(B) = Cardinality(A) + One(x \in B) - One(x \in A)
<1>1. IsFiniteSet(A) /\ IsFiniteSet(B)
  BY FS_Subset
<1>2. A \ {x} = B \ {x}
  OBVIOUS
<1>3. Cardinality(A) \in Nat /\ Cardinality(B) \in Nat
  BY <1>1, FS_CardinalityType
<1>4. Cardinality(A \ {x}) = IF x \in A THEN Cardinality(A) - 1 ELSE Cardinality(A)
  BY <1>1, FS_RemoveElement
<1>5. Cardinality(B \ {x}) = IF x \in B THEN Cardinality(B) - 1 ELSE Cardinality(B)
  BY <1>1, FS_RemoveElement
<1>6. One(x \in A) = (IF x \in A THEN 1 ELSE 0) /\ One(x \in B) = (IF x \in B THEN 1 ELSE 0)
  BY DEF One
<1> QED  BY <1>2, <1>3, <1>4, <1>5, <1>6

\* The places where the areas s are among A.
Places(s, A) == {i \in DOMAIN s : s[i] \in A}

LEMMA PlacesFinite ==
  ASSUME NEW s \in Seq(Areas), NEW A
  PROVE  /\ IsFiniteSet(Places(s, A)) /\ Places(s, A) \subseteq Nat
         /\ Number(s, A) = Cardinality(Places(s, A)) /\ Number(s, A) \in Nat
<1>1. DOMAIN s = 1 .. Len(s) /\ Len(s) \in Nat
  BY LenProperties
<1>2. IsFiniteSet(1 .. Len(s))
  BY <1>1, FS_Interval
<1>3. Places(s, A) \in SUBSET (1 .. Len(s))
  BY <1>1 DEF Places
<1>4. IsFiniteSet(Places(s, A))
  BY <1>2, <1>3, FS_Subset
<1> QED  BY <1>1, <1>3, <1>4, FS_CardinalityType DEF Number, Places

LEMMA NumberEmpty == \A A : Number(<<>>, A) = 0
<1> SUFFICES ASSUME NEW A PROVE Number(<<>>, A) = 0
  OBVIOUS
<1>1. {i \in DOMAIN <<>> : <<>>[i] \in A} = {}
  OBVIOUS
<1> QED  BY <1>1, FS_EmptySet DEF Number

LEMMA NumberAppend ==
  ASSUME NEW s \in Seq(Areas), NEW a \in Areas, NEW A
  PROVE  Number(Append(s, a), A) = Number(s, A) + One(a \in A)
<1> DEFINE n == Len(s) + 1
           s2 == Append(s, a)
<1>1. s2 \in Seq(Areas) /\ DOMAIN s = 1 .. Len(s) /\ Len(s) \in Nat /\ DOMAIN s2 = 1 .. n
  BY LenProperties, AppendProperties
<1>2. (\A i \in 1 .. Len(s) : s2[i] = s[i]) /\ s2[n] = a
  BY AppendProperties
<1>3. Places(s2, A) = IF a \in A THEN Places(s, A) \cup {n} ELSE Places(s, A)
  <2> HIDE DEF s2
  <2> QED  BY <1>1, <1>2 DEF Places
<1>4. n \notin Places(s, A)
  BY <1>1 DEF Places
<1>5. IsFiniteSet(Places(s, A)) /\ Number(s, A) = Cardinality(Places(s, A))
      /\ Number(s2, A) = Cardinality(Places(s2, A)) /\ Number(s, A) \in Nat
  BY <1>1, PlacesFinite
<1> HIDE DEF s2, n
<1>6. Cardinality(Places(s, A) \cup {n}) = Cardinality(Places(s, A)) + 1
  BY <1>4, <1>5, FS_AddElement
<1> QED  BY <1>3, <1>5, <1>6 DEF One, s2

LEMMA NumberTail ==
  ASSUME NEW s \in Seq(Areas), s # <<>>, NEW A
  PROVE  Number(s, A) = Number(Tail(s), A) + One(Head(s) \in A)
<1> DEFINE r == Tail(s)
           P == Places(s, A) \ {1}
           f == [i \in Places(r, A) |-> i + 1]
<1>1. /\ r \in Seq(Areas) /\ DOMAIN s = 1 .. Len(s) /\ Len(s) \in Nat \ {0}
      /\ DOMAIN r = 1 .. (Len(s) - 1) /\ Head(s) = s[1]
      /\ \A i \in 1 .. (Len(s) - 1) : r[i] = s[i + 1]
  <2>1. r \in Seq(Areas) /\ Len(r) = Len(s) - 1 /\ \A i \in 1 .. Len(r) : r[i] = s[i + 1]
    BY HeadTailProperties
  <2>2. DOMAIN s = 1 .. Len(s) /\ Len(s) \in Nat \ {0}
    BY LenProperties, EmptySeq
  <2>3. DOMAIN r = 1 .. Len(r)
    BY <2>1, LenProperties
  <2>4. Head(s) = s[1]
    OBVIOUS
  <2> QED  BY <2>1, <2>2, <2>3, <2>4
<1>2. f \in Bijection(Places(r, A), P)
  <2> HIDE DEF r
  <2>1. \A i \in Places(r, A) : i \in Nat /\ i + 1 \in P
    BY <1>1 DEF Places
  <2>2. \A j \in P : j - 1 \in Places(r, A) /\ j \in Nat
    BY <1>1 DEF Places
  <2>3. f \in [Places(r, A) -> P]
    BY <2>1
  <2>4. \A j \in P : f[j - 1] = j
    BY <2>2
  <2>5. \A i, j \in Places(r, A) : f[i] = f[j] => i = j
    BY <2>1
  <2>6. f \in Injection(Places(r, A), P)
    BY <2>3, <2>5 DEF Injection, IsInjective
  <2>7. f \in Surjection(Places(r, A), P)
    BY <2>2, <2>3, <2>4 DEF Surjection
  <2> QED  BY <2>6, <2>7 DEF Bijection
<1> HIDE DEF r, f
<1>3. Cardinality(P) = Cardinality(Places(r, A))
  BY <1>1, <1>2, PlacesFinite, FS_Bijection DEF ExistsBijection
<1>4. Cardinality(P) = IF 1 \in Places(s, A) THEN Cardinality(Places(s, A)) - 1
                       ELSE Cardinality(Places(s, A))
  BY PlacesFinite, FS_RemoveElement
<1>5. 1 \in Places(s, A) <=> Head(s) \in A
  BY <1>1 DEF Places
<1>6. /\ Number(s, A) = Cardinality(Places(s, A)) /\ Number(s, A) \in Nat
      /\ Number(r, A) = Cardinality(Places(r, A)) /\ Number(r, A) \in Nat
  BY <1>1, PlacesFinite
<1> QED  BY <1>3, <1>4, <1>5, <1>6 DEF One, r

\* The areas among A of the mm m of M, and all of them.
IsPresent(x) == x.state \in {"live", "dying"}
Here(x, A)   == IF IsPresent(x) THEN Number(x.areas, A) ELSE 0
PairsOf(M, A) == UNION {{m} \X Places(M[m].areas, A) : m \in {n \in Mms : IsPresent(M[n])}}
Elsewhen(M, m, A) == {p \in PairsOf(M, A) : p[1] # m}

LEMMA PairsFinite ==
  ASSUME NEW M \in [Mms -> MmType], NEW A
  PROVE  IsFiniteSet(PairsOf(M, A))
<1> DEFINE D == {n \in Mms : IsPresent(M[n])}
           f == [m \in D |-> {m} \X Places(M[m].areas, A)]
           R == {{m} \X Places(M[m].areas, A) : m \in D}
<1>1. IsFiniteSet(D)
  BY SetsAssumption, FS_Subset
<1>2. f \in Surjection(D, R)
  BY DEF Surjection
<1>3. IsFiniteSet(R)
  <2> HIDE DEF D, f, R
  <2> QED  BY <1>1, <1>2, FS_Surjection
<1>4. \A T \in R : IsFiniteSet(T)
  <2> SUFFICES ASSUME NEW m \in D PROVE IsFiniteSet({m} \X Places(M[m].areas, A))
    OBVIOUS
  <2>1. M[m].areas \in Seq(Areas)
    BY DEF MmType
  <2>2. IsFiniteSet(Places(M[m].areas, A)) /\ IsFiniteSet({m})
    BY <2>1, PlacesFinite, FS_Singleton
  <2> QED  BY <2>2, FS_Product
<1> QED  BY <1>3, <1>4, FS_UNION DEF PairsOf

LEMMA PairsSplit ==
  ASSUME NEW M \in [Mms -> MmType], NEW A, NEW m \in Mms
  PROVE  /\ Cardinality(PairsOf(M, A)) = Cardinality(Elsewhen(M, m, A)) + Here(M[m], A)
         /\ Cardinality(PairsOf(M, A)) \in Nat /\ Cardinality(Elsewhen(M, m, A)) \in Nat
         /\ Here(M[m], A) \in Nat
<1> DEFINE E == Elsewhen(M, m, A)
           P == Places(M[m].areas, A)
           H == IF IsPresent(M[m]) THEN {m} \X P ELSE {}
<1>1. IsFiniteSet(PairsOf(M, A)) /\ E \in SUBSET PairsOf(M, A) /\ IsFiniteSet(E)
  BY PairsFinite, FS_Subset DEF Elsewhen
<1>2. PairsOf(M, A) = E \cup H
  BY DEF PairsOf, Elsewhen
<1>3. E \cap H = {}
  BY DEF Elsewhen
<1>4. M[m].areas \in Seq(Areas)
  BY DEF MmType
<1>5. IsFiniteSet(P) /\ Number(M[m].areas, A) = Cardinality(P) /\ Cardinality(P) \in Nat
  BY <1>4, PlacesFinite
<1>6. IsFiniteSet({m} \X P) /\ Cardinality({m} \X P) = 1 * Cardinality(P)
  <2> HIDE DEF P
  <2>1. IsFiniteSet({m}) /\ Cardinality({m}) = 1
    BY FS_Singleton
  <2> QED  BY <1>5, <2>1, FS_Product
<1>7. IsFiniteSet(H) /\ Cardinality(H) = Here(M[m], A) /\ Here(M[m], A) \in Nat
  BY <1>5, <1>6, FS_EmptySet DEF Here
<1>8. Cardinality(E \cup H) = Cardinality(E) + Cardinality(H) - Cardinality(E \cap H)
  BY <1>1, <1>7, FS_Union
<1>9. Cardinality({}) = 0 /\ Cardinality(E) \in Nat /\ Cardinality(PairsOf(M, A)) \in Nat
  BY <1>1, FS_EmptySet, FS_CardinalityType
<1> HIDE DEF E, H
<1>10. Cardinality(PairsOf(M, A)) = Cardinality(E) + Here(M[m], A)
  <2>1. Cardinality(E \cap H) = 0
    BY <1>3, <1>9
  <2>2. Cardinality(E \cup H) = Cardinality(E) + Here(M[m], A) - 0
    BY <1>7, <1>8, <2>1
  <2>3. Cardinality(E \cup H) = Cardinality(E) + Here(M[m], A)
    BY <1>7, <1>9, <2>2
  <2> QED  BY <1>2, <2>3
<1> QED  BY <1>7, <1>9, <1>10 DEF E

\* A change of one mm changes the count of areas by that of the mm.
LEMMA PairsStep ==
  ASSUME NEW M \in [Mms -> MmType], NEW N \in [Mms -> MmType], NEW A, NEW m \in Mms,
         \A n \in Mms : n # m => /\ IsPresent(M[n]) <=> IsPresent(N[n])
                                 /\ IsPresent(M[n]) => M[n].areas = N[n].areas
  PROVE  /\ Cardinality(PairsOf(N, A)) = Cardinality(PairsOf(M, A)) + Here(N[m], A) - Here(M[m], A)
         /\ Cardinality(PairsOf(M, A)) \in Nat /\ Cardinality(PairsOf(N, A)) \in Nat
         /\ Here(M[m], A) \in Nat /\ Here(N[m], A) \in Nat
<1>1. Elsewhen(M, m, A) = Elsewhen(N, m, A)
  BY DEF Elsewhen, PairsOf
<1> QED  BY <1>1, PairsSplit

-----------------------------------------------------------------------------
(* What the steps do.                                                      *)

MmIs(m, x)      == m \in Mms /\ x \in MmType /\ mm' = [mm EXCEPT ![m] = x]
TaskIs(t, x)    == t \in Tasks /\ x \in TaskType /\ task' = [task EXCEPT ![t] = x]
CallIs(t, x)    == t \in Tasks /\ x \in CallType /\ call' = [call EXCEPT ![t] = x]
ReaderIs(r, x)  == r \in Readers /\ x \in ReaderType /\ reader' = [reader EXCEPT ![r] = x]
KthreadIs(k, x) == k \in Kthreads /\ x \in KthreadType /\ kthread' = [kthread EXCEPT ![k] = x]

\* An mm has the life of another, and what it holds.
SameLife(x, z) == x.state = z.state /\ x.users = z.users /\ x.count = z.count
SameHold(x, z) == x.exe = z.exe /\ x.areas = z.areas /\ x.binfmt = z.binfmt
Rests(x, z)    == x.for = z.for /\ x.sem = z.sem

LEMMA AreaFacts ==
  /\ AnyFile \in Files /\ AnyFile # None
  /\ Text \in Areas /\ Heap \in Areas /\ Shm \in Areas /\ Dma \in Areas
  /\ \A a \in Areas : /\ a.file \in Files \cup {None} /\ a.deny \in BOOLEAN /\ a.shared \in BOOLEAN
                      /\ a.account \in BOOLEAN /\ Charge(a) \in {0, 1}
                      /\ (Charge(a) = 1 <=> a \in Accounted)
<1>1. AnyFile \in Files /\ AnyFile # None
  BY SetsAssumption DEF AnyFile
<1> QED  BY <1>1 DEF Areas, Text, Heap, Shm, Dma, Charge, Accounted

LEMMA FreeType ==
  /\ FreeMm \in MmType /\ NoCall \in CallType /\ Idle \in ReaderType /\ Unborn \in TaskType
  /\ FreeMm.state = "free" /\ FreeMm.users = 0 /\ FreeMm.count = 0 /\ FreeMm.for = "all"
  /\ FreeMm.exe = None /\ FreeMm.binfmt = FALSE /\ FreeMm.areas = <<>>
  /\ NoCall.at = "user" /\ NoCall.mm = None /\ NoCall.i = 1 /\ NoCall.charge = 0
  /\ Idle.at = "idle" /\ Idle.mm = None /\ Idle.file = None /\ Idle.access = FALSE
<1>1. <<>> \in Seq(Areas)
  BY EmptySeq
<1> QED  BY <1>1 DEF FreeMm, NoCall, Idle, Unborn, MmType, CallType, ReaderType, TaskType,
            ForkPoints

LEMMA PointersType ==
  ASSUME Typed
  PROVE  /\ \A t \in Tasks : /\ task[t] \in TaskType /\ call[t] \in CallType
                             /\ task[t].mm \in Mms \cup {None} /\ call[t].mm \in Mms \cup {None}
         /\ \A m \in Mms : mm[m] \in MmType /\ mm[m].areas \in Seq(Areas)
         /\ \A r \in Readers : reader[r] \in ReaderType /\ reader[r].mm \in Mms \cup {None}
         /\ \A k \in Kthreads : kthread[k] \in KthreadType /\ kthread[k].mm \in Mms \cup {None}
BY DEF Typed, MmType, TaskType, CallType, ReaderType, KthreadType

\* Who is where has an mm.
LEMMA HasMm ==
  ASSUME Typed, Shape, NEW t \in Tasks
  PROVE  /\ Alive(t) => task[t].mm \in Mms
         /\ Forking(t) \/ At(t, "exec") => task[t].mm \in Mms /\ call[t].mm \in Mms /\ Alive(t)
         /\ At(t, "exec_creds") => task[t].mm \in Mms /\ Alive(t) /\ call[t].mm = None
         /\ At(t, "user") => call[t].mm = None
<1>1. /\ task[t].mm \in Mms \cup {None} /\ call[t].mm \in Mms \cup {None}
  BY PointersType
<1> QED  BY <1>1 DEF Shape, TaskShape, Forking, ForkPoints, At

LEMMA InitType ==
  ASSUME NEW z \in MmType
  PROVE  LET x == MmInit(z) IN
         /\ x \in MmType /\ x.state = "live" /\ x.users = 1 /\ x.count = 1 /\ x.exe = None
         /\ x.areas = <<>> /\ x.binfmt = z.binfmt /\ x.for = z.for /\ x.sem = None
<1> DEFINE e == <<>>
<1>1. e \in Seq(Areas)
  BY EmptySeq
<1> HIDE DEF e
<1>2. MmInit(z) = [z EXCEPT !.state = "live", !.users = 1, !.count = 1, !.areas = e,
                            !.sem = None, !.exe = None]
  BY DEF MmInit, e
<1>3. MmInit(z) = [state |-> "live", users |-> 1, count |-> 1, exe |-> None, areas |-> e,
                   binfmt |-> z.binfmt, for |-> z.for, sem |-> None]
  BY <1>2 DEF MmType
<1>4. z.binfmt \in BOOLEAN /\ z.for \in {"all", "owner"}
  BY DEF MmType
<1> QED  BY <1>1, <1>3, <1>4 DEF MmType, e

AllocDone(t, m, x, y) ==
  /\ Alive(t) /\ At(t, "user") /\ mm[m].state = "free"
  /\ MmIs(m, x)
  /\ x.state = "live" /\ x.users = 1 /\ x.count = 1
  /\ x.exe = None /\ x.areas = <<>>
  /\ x.binfmt = mm[task[t].mm].binfmt /\ x.for = mm[task[t].mm].for
  /\ CallIs(t, y) /\ y.at = "mmap_sem" /\ y.mm = m /\ y.charge = 0
  /\ UNCHANGED <<task, reader, kthread, refs, committed, modules, guard, task_lock>>

LEMMA NewMmFree == FreeMms # {} => NewMm \in Mms /\ mm[NewMm].state = "free"
BY DEF FreeMms, NewMm

LEMMA AllocEffect ==
  ASSUME Typed, Shape, NEW t \in Tasks, AllocMm(t)
  PROVE  \E m, x, y : AllocDone(t, m, x, y)
<1> DEFINE x == MmInit(mm[task[t].mm])
           y == [NoCall EXCEPT !.at = "mmap_sem", !.mm = NewMm]
<1>1. NewMm \in Mms /\ mm[NewMm].state = "free" /\ Alive(t) /\ At(t, "user")
  BY NewMmFree DEF AllocMm
<1>2. task[t].mm \in Mms /\ mm[task[t].mm] \in MmType
  BY <1>1, HasMm, PointersType
<1>3. x \in MmType /\ x.state = "live" /\ x.users = 1 /\ x.count = 1 /\ x.exe = None /\ x.areas = <<>>
      /\ x.binfmt = mm[task[t].mm].binfmt /\ x.for = mm[task[t].mm].for
  BY <1>2, InitType
<1>4. y \in CallType /\ y.at = "mmap_sem" /\ y.mm = NewMm /\ y.charge = 0
  BY <1>1, FreeType DEF CallType, ForkPoints, NoCall
<1>5. MmIs(NewMm, x) /\ CallIs(t, y)
  BY <1>1, <1>3, <1>4 DEF MmIs, CallIs, AllocMm
<1> HIDE DEF x, y
<1> QED  BY <1>1, <1>3, <1>4, <1>5 DEF AllocDone, AllocMm, Files_, Others

BeginDone(t, y) ==
  LET o == task[t].mm
      c == call[t].mm
  IN
  /\ At(t, "mmap_sem") /\ mm[o].sem = None
  /\ mm' \in [Mms -> MmType]
  /\ \A n \in Mms : /\ SameLife(mm'[n], mm[n]) /\ mm'[n].for = mm[n].for
                    /\ mm'[n].areas = mm[n].areas /\ mm'[n].binfmt = mm[n].binfmt
                    /\ mm'[n].exe = (IF n = c THEN mm[o].exe ELSE mm[n].exe)
                    /\ mm'[n].sem = (IF n = o THEN t ELSE mm[n].sem)
  /\ CallIs(t, y) /\ y.at = "area" /\ y.mm = c /\ y.charge = call[t].charge
  /\ refs' = Got(refs, mm[o].exe)
  /\ UNCHANGED <<task, reader, kthread, committed, modules, guard, task_lock>>

LEMMA BeginEffect ==
  ASSUME Typed, Shape, NEW t \in Tasks, BeginDupMmap(t)
  PROVE  \E y : BeginDone(t, y)
<1> DEFINE o == task[t].mm
           c == call[t].mm
           y == [call[t] EXCEPT !.at = "area"]
<1>1. At(t, "mmap_sem") /\ mm[o].sem = None
  BY DEF BeginDupMmap
<1>2. o \in Mms /\ c \in Mms
  BY <1>1, HasMm DEF Forking, ForkPoints, At
<1>3. call[t] \in CallType /\ \A n \in Mms : mm[n] \in MmType
  BY PointersType
<1>4. y \in CallType /\ y.at = "area" /\ y.mm = c /\ y.charge = call[t].charge
  BY <1>3 DEF CallType, ForkPoints
<1>5. CallIs(t, y)
  BY <1>4 DEF CallIs, BeginDupMmap, Goto
<1>6. mm' = [mm EXCEPT ![o].sem = t, ![c].exe = mm[o].exe]
  BY DEF BeginDupMmap
<1>7. mm' \in [Mms -> MmType]
  <2> DEFINE e == mm[o].exe
             N == [mm EXCEPT ![o].sem = t]
  <2>1. e \in Files \cup {None} /\ mm \in [Mms -> MmType]
    BY <1>2, <1>3 DEF MmType, Typed
  <2>2. [mm[o] EXCEPT !.sem = t] \in MmType
    BY <1>2, <1>3 DEF MmType
  <2>3. N \in [Mms -> MmType]
    BY <1>2, <2>1, <2>2
  <2>4. [N[c] EXCEPT !.exe = e] \in MmType
    <3>1. N[c] \in MmType
      BY <1>2, <2>3
    <3> HIDE DEF N, e
    <3> QED  BY <2>1, <3>1 DEF MmType
  <2>5. mm' = [N EXCEPT ![c] = [N[c] EXCEPT !.exe = e]]
    BY <1>2, <1>6, <2>1
  <2> HIDE DEF N, e
  <2> QED  BY <1>2, <2>3, <2>4, <2>5
<1>8. \A n \in Mms : /\ SameLife(mm'[n], mm[n]) /\ mm'[n].for = mm[n].for
                     /\ mm'[n].areas = mm[n].areas /\ mm'[n].binfmt = mm[n].binfmt
                     /\ mm'[n].exe = (IF n = c THEN mm[o].exe ELSE mm[n].exe)
                     /\ mm'[n].sem = (IF n = o THEN t ELSE mm[n].sem)
  BY <1>2, <1>3, <1>6 DEF Typed, MmType, SameLife
<1>9. refs' = Got(refs, mm[o].exe)
      /\ UNCHANGED <<task, reader, kthread, committed, modules, guard, task_lock>>
  BY DEF BeginDupMmap, Others
<1> HIDE DEF y
<1> QED  BY <1>1, <1>4, <1>5, <1>7, <1>8, <1>9 DEF BeginDone

\* The steps of a dup_mm that does not end.
ForkMove(t, y) ==
  /\ CallIs(t, y) /\ Forking(t) /\ y.at \in ForkPoints
  /\ y.mm = call[t].mm /\ (y.at # "charged" => y.charge = 0)
Rest == UNCHANGED <<task, reader, kthread, guard, task_lock>>

PlainDone(t, y) ==
  /\ ForkMove(t, y) /\ y.at \in {"undo", "area", "charged"}
  /\ y.at # "undo" => At(t, "area")
  /\ y.at = "charged" => y.i <= Len(OldAreas(t)) /\ y.charge = Charge(OldAreas(t)[y.i])
  /\ committed' = committed + y.charge - call[t].charge
  /\ Rest /\ UNCHANGED <<mm, refs, modules>>

ReleaseDone(t, x, y) ==
  /\ ForkMove(t, y) /\ y.at \in {"undo", "binfmt"}
  /\ At(t, "area") \/ At(t, "charged")
  /\ MmIs(task[t].mm, x) /\ x.sem = None
  /\ LET z == mm[task[t].mm] IN SameLife(x, z) /\ SameHold(x, z) /\ x.for = z.for
  /\ committed' = committed + y.charge - call[t].charge
  /\ Rest /\ UNCHANGED <<refs, modules>>

LEMMA CallFacts ==
  ASSUME Typed, Shape, NEW t \in Tasks
  PROVE  /\ call[t] \in CallType /\ call[t].i \in Nat \ {0} /\ call[t].charge \in {0, 1}
         /\ call[t].mm \in Mms \cup {None}
         /\ ~At(t, "charged") => call[t].charge = 0
         /\ Forking(t) <=> call[t].at \in ForkPoints
<1>1. call[t] \in CallType
  BY PointersType
<1> QED  BY <1>1 DEF CallType, Shape, TaskShape, Forking

LEMMA InterruptedEffect ==
  ASSUME Typed, Shape, NEW t \in Tasks, Interrupted(t)
  PROVE  \E y : PlainDone(t, y)
<1> DEFINE y == [call[t] EXCEPT !.at = "undo"]
<1>1. At(t, "mmap_sem")
  BY DEF Interrupted
<1>2. y \in CallType /\ y.at = "undo" /\ y.charge = call[t].charge /\ y.mm = call[t].mm
  BY CallFacts DEF CallType, ForkPoints
<1>3. call[t].charge = 0 /\ Forking(t) /\ committed \in Int
  BY <1>1, CallFacts DEF At, Forking, ForkPoints, Typed
<1>4. call' = [call EXCEPT ![t] = y]
  BY DEF Interrupted, Goto
<1> HIDE DEF y
<1>5. ForkMove(t, y)
  BY <1>2, <1>3, <1>4 DEF ForkMove, CallIs, ForkPoints
<1> QED  BY <1>2, <1>3, <1>5 DEF PlainDone, Rest, Interrupted, Files_, Others

LEMMA SkipEffect ==
  ASSUME Typed, Shape, NEW t \in Tasks, SkipArea(t)
  PROVE  \E y : PlainDone(t, y)
<1> DEFINE y == [call[t] EXCEPT !.i = @ + 1]
<1>1. At(t, "area")
  BY DEF SkipArea, HasNext
<1>2. y \in CallType /\ y.at = call[t].at /\ y.charge = call[t].charge /\ y.mm = call[t].mm
  BY CallFacts DEF CallType, ForkPoints
<1>3. call[t].charge = 0 /\ Forking(t) /\ committed \in Int
  BY <1>1, CallFacts DEF At, Forking, ForkPoints, Typed
<1>4. call' = [call EXCEPT ![t] = y]
  BY DEF SkipArea
<1> HIDE DEF y
<1>5. ForkMove(t, y) /\ y.at = "area"
  BY <1>1, <1>2, <1>3, <1>4 DEF ForkMove, CallIs, ForkPoints, At
<1> QED  BY <1>1, <1>2, <1>3, <1>5 DEF PlainDone, Rest, SkipArea, Files_, Others

LEMMA ChargeEffect ==
  ASSUME Typed, Shape, NEW t \in Tasks, ChargeArea(t)
  PROVE  \E y : PlainDone(t, y)
<1> DEFINE c == Charge(NextArea(t))
           y == [call[t] EXCEPT !.at = "charged", !.charge = c]
<1>1. At(t, "area") /\ call[t].i <= Len(OldAreas(t))
  BY DEF ChargeArea, HasNext
<1>2. c \in {0, 1}
  BY DEF Charge
<1>3. /\ y \in CallType /\ y.at = "charged" /\ y.charge = c /\ y.mm = call[t].mm /\ y.i = call[t].i
  <2> HIDE DEF c
  <2> QED  BY <1>2, CallFacts DEF CallType, ForkPoints
<1>4. call[t].charge = 0 /\ Forking(t) /\ committed \in Int
  BY <1>1, CallFacts DEF At, Forking, ForkPoints, Typed
<1>5. call' = [call EXCEPT ![t] = y] /\ committed' = committed + c
  BY DEF ChargeArea
<1>6. Rest /\ UNCHANGED <<mm, refs, modules>>
  BY DEF ChargeArea, Rest, Others
<1>7. y.charge = Charge(OldAreas(t)[y.i])
  BY <1>3 DEF NextArea
<1> HIDE DEF c, y
<1>8. ForkMove(t, y)
  BY <1>3, <1>4, <1>5 DEF ForkMove, CallIs, ForkPoints
<1>9. committed' = committed + y.charge - call[t].charge
  BY <1>2, <1>3, <1>4, <1>5
<1> QED  BY <1>1, <1>3, <1>6, <1>7, <1>8, <1>9 DEF PlainDone

\* dup_mmap leaves: mmap_sem is released, and the charge given back.
LEMMA LeaveEffect ==
  ASSUME Typed, Shape, NEW t \in Tasks, NEW p \in {"undo", "binfmt"},
         At(t, "area") \/ At(t, "charged"),
         mm' = [mm EXCEPT ![task[t].mm].sem = None],
         call' = [call EXCEPT ![t] = [call[t] EXCEPT !.at = p, !.charge = 0]],
         committed' = committed - call[t].charge, Rest, UNCHANGED <<refs, modules>>
  PROVE  \E x, y : ReleaseDone(t, x, y)
<1> DEFINE o == task[t].mm
           x == [mm[o] EXCEPT !.sem = None]
           y == [call[t] EXCEPT !.at = p, !.charge = 0]
<1>1. Forking(t)
  BY DEF Forking, ForkPoints, At
<1>2. o \in Mms /\ mm[o] \in MmType
  BY <1>1, HasMm, PointersType
<1>3. /\ x \in MmType /\ x.sem = None
      /\ SameLife(x, mm[o]) /\ SameHold(x, mm[o]) /\ x.for = mm[o].for
  BY <1>2 DEF MmType, SameLife, SameHold
<1>4. y \in CallType /\ y.at = p /\ y.charge = 0 /\ y.mm = call[t].mm
  BY CallFacts DEF CallType, ForkPoints
<1>5. MmIs(o, x) /\ CallIs(t, y)
  BY <1>2, <1>3, <1>4 DEF MmIs, CallIs
<1>6. call[t].charge \in {0, 1} /\ committed \in Int
  BY CallFacts DEF Typed
<1> HIDE DEF x, y
<1>7. ForkMove(t, y)
  BY <1>1, <1>4, <1>5 DEF ForkMove, ForkPoints
<1>8. committed' = committed + y.charge - call[t].charge
  BY <1>4, <1>6
<1> QED  BY <1>3, <1>4, <1>5, <1>7, <1>8 DEF ReleaseDone

LEMMA ReleaseEffect ==
  ASSUME Typed, Shape, NEW t \in Tasks, ChargeFails(t) \/ CopyAreaFails(t) \/ EndDupMmap(t)
  PROVE  \E x, y : ReleaseDone(t, x, y)
<1>1. call[t].charge \in {0, 1} /\ committed \in Int /\ call[t] \in CallType /\ call \in [Tasks -> CallType]
  BY CallFacts DEF Typed
<1>2. ASSUME NEW p \in {"undo", "binfmt"}, At(t, "area"), Goto(t, p), UNCHANGED committed
      PROVE  /\ call' = [call EXCEPT ![t] = [call[t] EXCEPT !.at = p, !.charge = 0]]
             /\ committed' = committed - call[t].charge
  <2>1. call[t].charge = 0
    BY <1>2, CallFacts DEF At
  <2>2. [call[t] EXCEPT !.at = p] = [call[t] EXCEPT !.at = p, !.charge = 0]
    BY <1>1, <2>1 DEF CallType
  <2>3. call' = [call EXCEPT ![t] = [call[t] EXCEPT !.at = p]]
    BY <1>2 DEF Goto
  <2>4. call' = [call EXCEPT ![t] = [call[t] EXCEPT !.at = p, !.charge = 0]]
    BY <2>2, <2>3
  <2> QED  BY <1>1, <1>2, <2>1, <2>4
<1>3. CASE ChargeFails(t)
  <2>1. At(t, "area") /\ Goto(t, "undo") /\ UNCHANGED committed
        /\ mm' = [mm EXCEPT ![task[t].mm].sem = None] /\ Rest /\ UNCHANGED <<refs, modules>>
    BY <1>3 DEF ChargeFails, Release, Files_, Others, Rest
  <2> QED  BY <1>2, <2>1, LeaveEffect
<1>4. CASE EndDupMmap(t)
  <2>1. At(t, "area") /\ Goto(t, "binfmt") /\ UNCHANGED committed
        /\ mm' = [mm EXCEPT ![task[t].mm].sem = None] /\ Rest /\ UNCHANGED <<refs, modules>>
    BY <1>4 DEF EndDupMmap, Release, Files_, Others, Rest
  <2> QED  BY <1>2, <2>1, LeaveEffect
<1>5. CASE CopyAreaFails(t)
  <2>1. /\ At(t, "charged") /\ mm' = [mm EXCEPT ![task[t].mm].sem = None]
        /\ call' = [call EXCEPT ![t] = [call[t] EXCEPT !.at = "undo", !.charge = 0]]
        /\ committed' = committed - call[t].charge /\ Rest /\ UNCHANGED <<refs, modules>>
    BY <1>1, <1>5 DEF CopyAreaFails, Others, Rest, Uncharged
  <2> QED  BY <2>1, LeaveEffect
<1> QED  BY <1>3, <1>4, <1>5

-----------------------------------------------------------------------------
(* The references of the files.                                            *)

RefType  == [held : Int, denied : Int, writable : Int]
RefsType == [Files -> RefType]

LEMMA GotIs ==
  ASSUME NEW r \in RefsType, NEW f \in Files \cup {None}
  PROVE  /\ Got(r, f) \in RefsType
         /\ \A g \in Files : /\ Got(r, f)[g].held = r[g].held + One(g = f)
                             /\ Got(r, f)[g].denied = r[g].denied
                             /\ Got(r, f)[g].writable = r[g].writable
<1>1. \A g \in Files : One(g = f) = (IF g = f THEN 1 ELSE 0) /\ g # None
  BY SetsAssumption DEF One
<1> QED  BY <1>1 DEF Got, RefsType, RefType

LEMMA PutIs ==
  ASSUME NEW r \in RefsType, NEW f \in Files \cup {None}
  PROVE  /\ Put(r, f) \in RefsType
         /\ \A g \in Files : /\ Put(r, f)[g].held = r[g].held - One(g = f)
                             /\ Put(r, f)[g].denied = r[g].denied
                             /\ Put(r, f)[g].writable = r[g].writable
<1>1. \A g \in Files : One(g = f) = (IF g = f THEN 1 ELSE 0) /\ g # None
  BY SetsAssumption DEF One
<1> QED  BY <1>1 DEF Put, RefsType, RefType

\* Whether an area maps f, denies writing to it, and shares it.
LEMMA AreaOnes ==
  ASSUME NEW a \in Areas, NEW f \in Files
  PROVE  /\ One(a \in Maps(f)) = IF a.file = f THEN 1 ELSE 0
         /\ One(a \in Denies(f)) = IF a.file = f /\ a.deny THEN 1 ELSE 0
         /\ One(a \in Writes(f)) = IF a.file = f /\ a.shared THEN 1 ELSE 0
         /\ One(a \in Accounted) = Charge(a)
         /\ Charge(a) \in {0, 1}
<1>1. (a \in Maps(f) <=> a.file = f) /\ (a \in Denies(f) <=> a.file = f /\ a.deny)
      /\ (a \in Writes(f) <=> a.file = f /\ a.shared) /\ (a \in Accounted <=> a.account)
  BY DEF Maps, Denies, Writes, Accounted
<1>2. One(a \in Accounted) = Charge(a) /\ Charge(a) \in {0, 1}
  BY <1>1 DEF One, Charge
<1> QED  BY <1>1, <1>2 DEF One

LEMMA MappedIs ==
  ASSUME NEW r \in RefsType, NEW a \in Areas
  PROVE  /\ Mapped(r, a) \in RefsType
         /\ \A g \in Files : /\ Mapped(r, a)[g].held = r[g].held + One(a \in Maps(g))
                             /\ Mapped(r, a)[g].denied = r[g].denied + One(a \in Denies(g))
                             /\ Mapped(r, a)[g].writable = r[g].writable + One(a \in Writes(g))
<1> DEFINE f == a.file
           x == [r[f] EXCEPT !.held = @ + 1,
                             !.denied = IF a.deny THEN @ + 1 ELSE @,
                             !.writable = IF a.shared THEN @ + 1 ELSE @]
<1>1. f \in Files \cup {None} /\ \A g \in Files : g # None
  BY AreaFacts, SetsAssumption
<1>2. Mapped(r, a) = IF f = None THEN r ELSE [r EXCEPT ![f] = x]
  <2>1. CASE f = None
    BY <2>1 DEF Mapped
  <2>2. CASE f # None
    <3>1. f \in Files
      BY <1>1, <2>2
    <3> QED  BY <2>2, <3>1 DEF Mapped, RefsType
  <2> QED  BY <2>1, <2>2
<1>3. f \in Files => /\ x \in RefType /\ x.held = r[f].held + 1
                     /\ x.denied = IF a.deny THEN r[f].denied + 1 ELSE r[f].denied
                     /\ x.writable = IF a.shared THEN r[f].writable + 1 ELSE r[f].writable
  <2> SUFFICES ASSUME f \in Files
               PROVE  /\ x \in RefType /\ x.held = r[f].held + 1
                      /\ x.denied = IF a.deny THEN r[f].denied + 1 ELSE r[f].denied
                      /\ x.writable = IF a.shared THEN r[f].writable + 1 ELSE r[f].writable
    OBVIOUS
  <2> DEFINE z == r[f]
             d == IF a.deny THEN z.denied + 1 ELSE z.denied
             w == IF a.shared THEN z.writable + 1 ELSE z.writable
  <2>1. z \in RefType
    BY DEF RefsType
  <2>2. z.held + 1 \in Int /\ d \in Int /\ w \in Int
    <3> HIDE DEF z
    <3> QED  BY <2>1 DEF RefType
  <2> HIDE DEF z, d, w
  <2>3. LET y == [z EXCEPT !.held = @ + 1, !.denied = d, !.writable = w] IN
        y \in RefType /\ y.held = z.held + 1 /\ y.denied = d /\ y.writable = w
    BY <2>1, <2>2 DEF RefType
  <2> QED  BY <2>3 DEF z, d, w
<1> HIDE DEF x
<1>4. Mapped(r, a) \in RefsType
  BY <1>1, <1>2, <1>3 DEF RefsType
<1> SUFFICES ASSUME NEW g \in Files
             PROVE  /\ Mapped(r, a)[g].held = r[g].held + One(a \in Maps(g))
                    /\ Mapped(r, a)[g].denied = r[g].denied + One(a \in Denies(g))
                    /\ Mapped(r, a)[g].writable = r[g].writable + One(a \in Writes(g))
  BY <1>4
<1>5. r[g].held \in Int /\ r[g].denied \in Int /\ r[g].writable \in Int
  BY DEF RefsType, RefType
<1>6. Mapped(r, a)[g] = IF g = f THEN x ELSE r[g]
  BY <1>1, <1>2 DEF RefsType
<1> QED  BY <1>3, <1>5, <1>6, AreaOnes

LEMMA UnmappedIs ==
  ASSUME NEW r \in RefsType, NEW a \in Areas
  PROVE  /\ Unmapped(r, a) \in RefsType
         /\ \A g \in Files : /\ Unmapped(r, a)[g].held = r[g].held - One(a \in Maps(g))
                             /\ Unmapped(r, a)[g].denied = r[g].denied - One(a \in Denies(g))
                             /\ Unmapped(r, a)[g].writable = r[g].writable - One(a \in Writes(g))
<1> DEFINE f == a.file
           x == [r[f] EXCEPT !.held = @ - 1,
                             !.denied = IF a.deny THEN @ - 1 ELSE @,
                             !.writable = IF a.shared THEN @ - 1 ELSE @]
<1>1. f \in Files \cup {None} /\ \A g \in Files : g # None
  BY AreaFacts, SetsAssumption
<1>2. Unmapped(r, a) = IF f = None THEN r ELSE [r EXCEPT ![f] = x]
  <2>1. CASE f = None
    BY <2>1 DEF Unmapped
  <2>2. CASE f # None
    <3>1. f \in Files
      BY <1>1, <2>2
    <3> QED  BY <2>2, <3>1 DEF Unmapped, RefsType
  <2> QED  BY <2>1, <2>2
<1>3. f \in Files => /\ x \in RefType /\ x.held = r[f].held - 1
                     /\ x.denied = IF a.deny THEN r[f].denied - 1 ELSE r[f].denied
                     /\ x.writable = IF a.shared THEN r[f].writable - 1 ELSE r[f].writable
  <2> SUFFICES ASSUME f \in Files
               PROVE  /\ x \in RefType /\ x.held = r[f].held - 1
                      /\ x.denied = IF a.deny THEN r[f].denied - 1 ELSE r[f].denied
                      /\ x.writable = IF a.shared THEN r[f].writable - 1 ELSE r[f].writable
    OBVIOUS
  <2> DEFINE z == r[f]
             d == IF a.deny THEN z.denied - 1 ELSE z.denied
             w == IF a.shared THEN z.writable - 1 ELSE z.writable
  <2>1. z \in RefType
    BY DEF RefsType
  <2>2. z.held - 1 \in Int /\ d \in Int /\ w \in Int
    <3> HIDE DEF z
    <3> QED  BY <2>1 DEF RefType
  <2> HIDE DEF z, d, w
  <2>3. LET y == [z EXCEPT !.held = @ - 1, !.denied = d, !.writable = w] IN
        y \in RefType /\ y.held = z.held - 1 /\ y.denied = d /\ y.writable = w
    BY <2>1, <2>2 DEF RefType
  <2> QED  BY <2>3 DEF z, d, w
<1> HIDE DEF x
<1>4. Unmapped(r, a) \in RefsType
  BY <1>1, <1>2, <1>3 DEF RefsType
<1> SUFFICES ASSUME NEW g \in Files
             PROVE  /\ Unmapped(r, a)[g].held = r[g].held - One(a \in Maps(g))
                    /\ Unmapped(r, a)[g].denied = r[g].denied - One(a \in Denies(g))
                    /\ Unmapped(r, a)[g].writable = r[g].writable - One(a \in Writes(g))
  BY <1>4
<1>5. r[g].held \in Int /\ r[g].denied \in Int /\ r[g].writable \in Int
  BY DEF RefsType, RefType
<1>6. Unmapped(r, a)[g] = IF g = f THEN x ELSE r[g]
  BY <1>1, <1>2 DEF RefsType
<1> QED  BY <1>3, <1>5, <1>6, AreaOnes

LEMMA ExitIs ==
  ASSUME NEW r \in RefsType, NEW s \in Seq(Areas)
  PROVE  /\ ExitMmap(r, s) \in RefsType
         /\ \A g \in Files : /\ ExitMmap(r, s)[g].held = r[g].held - Number(s, Maps(g))
                             /\ ExitMmap(r, s)[g].denied = r[g].denied - Number(s, Denies(g))
                             /\ ExitMmap(r, s)[g].writable = r[g].writable - Number(s, Writes(g))
<1>1. \A A : Number(s, A) \in Int
  BY PlacesFinite
<1> QED  BY <1>1 DEF ExitMmap, RefsType, RefType

LEMMA RefsTyped == Typed => refs \in RefsType
BY DEF Typed, RefsType, RefType

-----------------------------------------------------------------------------
(* What the steps do, continued.                                           *)

LinkDone(t, a, y) ==
  LET o == task[t].mm
      c == call[t].mm
  IN
  /\ ForkMove(t, y) /\ y.at \in {"area", "undo"} /\ y.charge = 0
  /\ At(t, "charged") /\ a \in Areas
  /\ call[t].i <= Len(OldAreas(t)) => a = NextArea(t)
  /\ mm' \in [Mms -> MmType]
  /\ \A n \in Mms : /\ SameLife(mm'[n], mm[n]) /\ mm'[n].for = mm[n].for
                    /\ mm'[n].exe = mm[n].exe /\ mm'[n].binfmt = mm[n].binfmt
                    /\ mm'[n].areas = IF n = c THEN Append(mm[n].areas, a) ELSE mm[n].areas
                    /\ mm'[n].sem = IF y.at = "undo" /\ n = o THEN None ELSE mm[n].sem
  /\ refs' = Mapped(refs, a)
  /\ Rest /\ UNCHANGED <<committed, modules>>

LEMMA AreasAt ==
  ASSUME NEW s \in Seq(Areas), NEW i \in Nat \ {0}, i <= Len(s)
  PROVE  s[i] \in Areas
<1>1. Len(s) \in Nat /\ i \in 1 .. Len(s)
  BY LenProperties
<1> QED  BY <1>1, ElementOfSeq

LEMMA LinkEffect ==
  ASSUME Typed, Shape, DupInv, NEW t \in Tasks, LinkArea(t)
  PROVE  \E a, y : LinkDone(t, a, y)
<1> DEFINE o == task[t].mm
           c == call[t].mm
           a == NextArea(t)
           s == Append(mm[c].areas, a)
<1>1. At(t, "charged") /\ Forking(t)
  BY DEF LinkArea, Forking, ForkPoints, At
<1>2. /\ o \in Mms /\ c \in Mms /\ \A n \in Mms : mm[n] \in MmType /\ mm[n].areas \in Seq(Areas)
      /\ mm \in [Mms -> MmType] /\ call[t] \in CallType /\ call[t].i \in Nat \ {0}
      /\ call \in [Tasks -> CallType]
  BY <1>1, HasMm, PointersType, CallFacts DEF Typed
<1>3. a \in Areas
  BY <1>1, <1>2, AreasAt DEF DupInv, CopyInv, NextArea, OldAreas
<1>4. s \in Seq(Areas)
  BY <1>2, <1>3, AppendProperties
<1> DEFINE x == [mm[c] EXCEPT !.areas = s]
           N == [mm EXCEPT ![c] = x]
<1>5. /\ x \in MmType /\ SameLife(x, mm[c]) /\ x.for = mm[c].for /\ x.exe = mm[c].exe
      /\ x.binfmt = mm[c].binfmt /\ x.areas = s /\ x.sem = mm[c].sem
  <2>1. mm[c] \in MmType
    BY <1>2
  <2> HIDE DEF s
  <2> QED  BY <1>4, <2>1 DEF MmType, SameLife
<1>6. refs' = Mapped(refs, a) /\ Rest /\ UNCHANGED <<committed, modules>>
  BY DEF LinkArea, Others, Rest
<1>7. CASE /\ mm' = [mm EXCEPT ![c].areas = Append(@, a)]
           /\ call' = [call EXCEPT ![t].at = "area", ![t].i = @ + 1, ![t].charge = 0]
  <2> DEFINE y == [call[t] EXCEPT !.at = "area", !.i = @ + 1, !.charge = 0]
  <2>1. mm' = N
    BY <1>2, <1>7
  <2>2. y \in CallType /\ y.at = "area" /\ y.charge = 0 /\ y.mm = c
    <3> DEFINE j == call[t].i + 1
    <3>1. j \in Nat \ {0}
      BY <1>2
    <3> HIDE DEF j
    <3>2. LET z == [call[t] EXCEPT !.at = "area", !.i = j, !.charge = 0] IN
          z \in CallType /\ z.at = "area" /\ z.charge = 0 /\ z.mm = c
      BY <1>2, <3>1 DEF CallType, ForkPoints
    <3> QED  BY <3>2 DEF j
  <2>3. call' = [call EXCEPT ![t] = y]
    BY <1>2, <1>7
  <2> HIDE DEF x, y
  <2>4. ForkMove(t, y)
    BY <1>1, <2>2, <2>3 DEF ForkMove, CallIs, ForkPoints
  <2>5. mm' \in [Mms -> MmType]
    BY <1>2, <1>5, <2>1
  <2>6. \A n \in Mms : mm'[n] = IF n = c THEN x ELSE mm[n]
    BY <1>2, <2>1
  <2> HIDE DEF a, s
  <2>7. ASSUME NEW n \in Mms
        PROVE  /\ SameLife(mm'[n], mm[n]) /\ mm'[n].for = mm[n].for
               /\ mm'[n].exe = mm[n].exe /\ mm'[n].binfmt = mm[n].binfmt
               /\ mm'[n].areas = IF n = c THEN Append(mm[n].areas, a) ELSE mm[n].areas
               /\ mm'[n].sem = IF y.at = "undo" /\ n = o THEN None ELSE mm[n].sem
    <3>1. CASE n = c
      BY <1>5, <2>2, <2>6, <3>1 DEF SameLife, s
    <3>2. CASE n # c
      BY <2>2, <2>6, <3>2 DEF SameLife
    <3> QED  BY <3>1, <3>2
  <2>8. LinkDone(t, a, y)
    BY <1>1, <1>3, <1>6, <2>2, <2>4, <2>5, <2>7 DEF LinkDone, a
  <2> QED  BY <2>8
<1>8. CASE /\ mm' = [mm EXCEPT ![c].areas = Append(@, a), ![o].sem = None]
           /\ call' = [call EXCEPT ![t].at = "undo", ![t].charge = 0]
  <2> DEFINE y == [call[t] EXCEPT !.at = "undo", !.charge = 0]
             z == [N[o] EXCEPT !.sem = None]
  <2>1. mm' = [N EXCEPT ![o] = z]
    BY <1>2, <1>8
  <2>2. y \in CallType /\ y.at = "undo" /\ y.charge = 0 /\ y.mm = c
    BY <1>2 DEF CallType, ForkPoints
  <2>3. call' = [call EXCEPT ![t] = y]
    BY <1>2, <1>8
  <2> HIDE DEF x, y
  <2>4. ForkMove(t, y)
    BY <1>1, <2>2, <2>3 DEF ForkMove, CallIs, ForkPoints
  <2>5. N \in [Mms -> MmType] /\ \A n \in Mms : N[n] = IF n = c THEN x ELSE mm[n]
    BY <1>2, <1>5
  <2> HIDE DEF N
  <2>6. N[o] \in MmType
    BY <1>2, <2>5
  <2>7. /\ z \in MmType /\ SameLife(z, N[o]) /\ z.for = N[o].for /\ z.exe = N[o].exe
        /\ z.binfmt = N[o].binfmt /\ z.areas = N[o].areas /\ z.sem = None
    BY <2>6 DEF MmType, SameLife
  <2> HIDE DEF z
  <2>8. mm' \in [Mms -> MmType] /\ \A n \in Mms : mm'[n] = IF n = o THEN z ELSE N[n]
    BY <1>2, <2>1, <2>5, <2>7
  <2> HIDE DEF a, s
  <2>9. ASSUME NEW n \in Mms
        PROVE  /\ SameLife(mm'[n], mm[n]) /\ mm'[n].for = mm[n].for
               /\ mm'[n].exe = mm[n].exe /\ mm'[n].binfmt = mm[n].binfmt
               /\ mm'[n].areas = IF n = c THEN Append(mm[n].areas, a) ELSE mm[n].areas
               /\ mm'[n].sem = IF y.at = "undo" /\ n = o THEN None ELSE mm[n].sem
    <3>1. /\ SameLife(N[n], mm[n]) /\ N[n].for = mm[n].for
          /\ N[n].exe = mm[n].exe /\ N[n].binfmt = mm[n].binfmt
          /\ N[n].areas = IF n = c THEN Append(mm[n].areas, a) ELSE mm[n].areas
          /\ N[n].sem = mm[n].sem
      <4>1. CASE n = c
        BY <1>5, <2>5, <4>1 DEF SameLife, s
      <4>2. CASE n # c
        BY <2>5, <4>2 DEF SameLife
      <4> QED  BY <4>1, <4>2
    <3>2. CASE n = o
      BY <2>2, <2>7, <2>8, <3>1, <3>2 DEF SameLife
    <3>3. CASE n # o
      BY <2>2, <2>8, <3>1, <3>3 DEF SameLife
    <3> QED  BY <3>2, <3>3
  <2>10. LinkDone(t, a, y)
    BY <1>1, <1>3, <1>6, <2>2, <2>4, <2>8, <2>9 DEF LinkDone, a
  <2> QED  BY <2>10
<1> QED  BY <1>7, <1>8 DEF LinkArea

\* mmap and munmap.
AreasDone(t, x) ==
  LET m == task[t].mm
      z == mm[m]
  IN
  /\ Alive(t) /\ z.sem = None /\ MmIs(m, x)
  /\ SameLife(x, z) /\ x.exe = z.exe /\ x.binfmt = z.binfmt /\ Rests(x, z)
  /\ \/ \E a \in Areas : /\ x.areas = Append(z.areas, a)
                         /\ refs' = Mapped(refs, a) /\ committed' = committed + Charge(a)
     \/ /\ z.areas # <<>> /\ x.areas = Tail(z.areas)
        /\ refs' = Unmapped(refs, Head(z.areas))
        /\ committed' = committed - Charge(Head(z.areas))
  /\ Rest /\ UNCHANGED <<call, modules>>

LEMMA AreasEffect ==
  ASSUME Typed, Shape, NEW t \in Tasks, Map(t) \/ Unmap(t)
  PROVE  \E x : AreasDone(t, x)
<1> DEFINE m == task[t].mm
           z == mm[m]
<1>1. Alive(t) /\ z.sem = None /\ Rest /\ UNCHANGED <<call, modules>>
  BY DEF Map, Unmap, Others, Rest
<1>2. m \in Mms /\ z \in MmType /\ z.areas \in Seq(Areas) /\ mm \in [Mms -> MmType]
  BY <1>1, HasMm, PointersType DEF Typed
<1>3. ASSUME NEW s \in Seq(Areas)
      PROVE  LET x == [z EXCEPT !.areas = s] IN
             /\ x \in MmType /\ SameLife(x, z) /\ x.exe = z.exe /\ x.binfmt = z.binfmt
             /\ Rests(x, z) /\ x.areas = s
  BY <1>2 DEF MmType, SameLife, Rests
<1>4. CASE Map(t)
  <2>1. PICK a \in {Shm, Heap} : /\ mm' = [mm EXCEPT ![m].areas = Append(@, a)]
                                 /\ refs' = Mapped(refs, a) /\ committed' = committed + Charge(a)
    BY <1>4 DEF Map
  <2>2. a \in Areas
    BY AreaFacts
  <2>3. Append(z.areas, a) \in Seq(Areas)
    BY <1>2, <2>2, AppendProperties
  <2> DEFINE x == [z EXCEPT !.areas = Append(z.areas, a)]
  <2>4. mm' = [mm EXCEPT ![m] = x]
    BY <1>2, <2>1
  <2> HIDE DEF z
  <2>5. /\ x \in MmType /\ SameLife(x, z) /\ x.exe = z.exe /\ x.binfmt = z.binfmt
        /\ Rests(x, z) /\ x.areas = Append(z.areas, a)
    BY <1>3, <2>3
  <2> HIDE DEF x
  <2>6. AreasDone(t, x)
    BY <1>1, <1>2, <2>1, <2>2, <2>4, <2>5 DEF AreasDone, MmIs, z
  <2> QED  BY <2>6
<1>5. CASE Unmap(t)
  <2>1. /\ mm' = [mm EXCEPT ![m].areas = Tail(@)] /\ z.areas # <<>>
        /\ refs' = Unmapped(refs, Head(z.areas)) /\ committed' = committed - Charge(Head(z.areas))
    BY <1>5 DEF Unmap
  <2>3. Tail(z.areas) \in Seq(Areas)
    BY <1>2, <2>1, HeadTailProperties
  <2> DEFINE x == [z EXCEPT !.areas = Tail(z.areas)]
  <2>4. mm' = [mm EXCEPT ![m] = x]
    BY <1>2, <2>1
  <2> HIDE DEF z
  <2>5. /\ x \in MmType /\ SameLife(x, z) /\ x.exe = z.exe /\ x.binfmt = z.binfmt
        /\ Rests(x, z) /\ x.areas = Tail(z.areas)
    BY <1>3, <2>3
  <2> HIDE DEF x
  <2>6. AreasDone(t, x)
    BY <1>1, <1>2, <2>1, <2>4, <2>5 DEF AreasDone, MmIs, z
  <2> QED  BY <2>6
<1> QED  BY <1>4, <1>5

\* try_module_get succeeds.
FinishDone(t, c, z) ==
  /\ At(t, "binfmt") /\ task[c].state = "unborn"
  /\ TaskIs(c, z) /\ z.state = "alive" /\ z.mm = call[t].mm /\ z.creds = task[t].creds
  /\ CallIs(t, NoCall)
  /\ modules' = IF mm[call[t].mm].binfmt THEN modules + 1 ELSE modules
  /\ UNCHANGED <<mm, reader, kthread, refs, committed, guard, task_lock>>

LEMMA FinishEffect ==
  ASSUME Typed, Shape, NEW t \in Tasks, FinishDupMm(t)
  PROVE  \E c, z : FinishDone(t, c, z)
<1>1. PICK c \in Tasks : /\ task[c].state = "unborn"
                         /\ task' = [task EXCEPT ![c] = [state |-> "alive", mm |-> call[t].mm,
                                                         creds |-> task[t].creds]]
  BY DEF FinishDupMm
<1> DEFINE z == [state |-> "alive", mm |-> call[t].mm, creds |-> task[t].creds]
<1>2. z \in TaskType /\ z.state = "alive" /\ z.mm = call[t].mm /\ z.creds = task[t].creds
  <2>1. task[t].creds \in {"all", "owner"} /\ call[t].mm \in Mms \cup {None}
    BY PointersType DEF TaskType
  <2> QED  BY <2>1 DEF TaskType
<1>3. TaskIs(c, z)
  BY <1>1, <1>2 DEF TaskIs
<1>4. CallIs(t, NoCall)
  BY FreeType DEF CallIs, FinishDupMm
<1> HIDE DEF z
<1>5. FinishDone(t, c, z)
  BY <1>1, <1>2, <1>3, <1>4 DEF FinishDone, FinishDupMm, Others
<1> QED  BY <1>5

\* free_pt.
FreePtDone(t, x) ==
  LET m == call[t].mm IN
  /\ Forking(t) /\ call[t].charge = 0
  /\ MmIs(m, x) /\ x.state = "dying" /\ x.users = 0 /\ x.count = mm[m].count
  /\ x.exe = mm[m].exe /\ x.areas = mm[m].areas /\ x.binfmt = FALSE
  /\ x.for = mm[m].for /\ x.sem = mm[m].sem
  /\ CallIs(t, NoCall)
  /\ Rest /\ UNCHANGED <<refs, committed, modules>>

LEMMA DisownedType ==
  ASSUME NEW z \in MmType
  PROVE  LET x == Disowned(z) IN
         /\ x \in MmType /\ x.state = "dying" /\ x.users = 0 /\ x.count = z.count
         /\ x.exe = z.exe /\ x.areas = z.areas /\ x.binfmt = FALSE /\ x.for = z.for /\ x.sem = z.sem
<1> DEFINE b == FALSE
           u == 0
           s == "dying"
<1>1. b \in BOOLEAN /\ u \in Int /\ s \in {"free", "live", "dying", "torn"}
  OBVIOUS
<1>8. Disowned(z) = [z EXCEPT !.binfmt = b, !.users = u, !.state = s]
  BY DEF Disowned
<1> HIDE DEF b, u, s
<1> DEFINE y == [z EXCEPT !.users = u, !.state = s]
           x == [y EXCEPT !.binfmt = b]
<1>2. Disowned(z) = x
  BY <1>8 DEF MmType
<1>3. y \in MmType
  BY <1>1 DEF MmType
<1>4. y.state = s /\ y.users = u /\ y.count = z.count /\ y.exe = z.exe /\ y.areas = z.areas
      /\ y.for = z.for /\ y.sem = z.sem
  BY DEF MmType
<1> HIDE DEF y
<1>5. x \in MmType
  BY <1>1, <1>3 DEF MmType
<1>6. x.state = y.state /\ x.users = y.users /\ x.count = y.count /\ x.exe = y.exe
      /\ x.areas = y.areas /\ x.for = y.for /\ x.sem = y.sem
  BY <1>3 DEF MmType
<1>7. x.binfmt = b
  BY <1>3, Zenon DEF MmType
<1> HIDE DEF x
<1> QED  BY <1>2, <1>4, <1>5, <1>6, <1>7 DEF b, u, s

LEMMA FreePtEffect ==
  ASSUME Typed, Shape, NEW t \in Tasks, FreePt(t)
  PROVE  \E x : FreePtDone(t, x)
<1> DEFINE m == call[t].mm
           x == Disowned(mm[m])
<1>1. (At(t, "undo") \/ At(t, "binfmt")) /\ Forking(t)
  BY DEF FreePt, Forking, ForkPoints, At
<1>2. m \in Mms /\ mm[m] \in MmType /\ call[t].charge = 0
  BY <1>1, HasMm, PointersType, CallFacts DEF At
<1>3. /\ x \in MmType /\ x.state = "dying" /\ x.users = 0 /\ x.count = mm[m].count
      /\ x.exe = mm[m].exe /\ x.areas = mm[m].areas /\ x.binfmt = FALSE
      /\ x.for = mm[m].for /\ x.sem = mm[m].sem
  BY <1>2, DisownedType
<1>4. MmIs(m, x) /\ CallIs(t, NoCall) /\ Rest /\ UNCHANGED <<refs, committed, modules>>
  BY <1>2, <1>3, FreeType DEF MmIs, CallIs, FreePt, Rest, Files_, Others
<1> HIDE DEF x
<1> QED  BY <1>1, <1>2, <1>3, <1>4 DEF FreePtDone

\* One user more, and one less.
GetDone(m, x) ==
  /\ MmIs(m, x) /\ x.users = mm[m].users + 1 /\ x.state = mm[m].state
  /\ x.count = mm[m].count /\ SameHold(x, mm[m]) /\ Rests(x, mm[m])
PutDone(m, x) ==
  /\ MmIs(m, x) /\ x.users = mm[m].users - 1
  /\ x.state = IF mm[m].users = 1 THEN "dying" ELSE mm[m].state
  /\ x.count = mm[m].count /\ SameHold(x, mm[m]) /\ Rests(x, mm[m])

LEMMA GetEffect ==
  ASSUME Typed, NEW m \in Mms, mm' = [mm EXCEPT ![m].users = @ + 1]
  PROVE  \E x : GetDone(m, x)
<1> DEFINE u == mm[m].users + 1
           x == [mm[m] EXCEPT !.users = u]
<1>1. mm[m] \in MmType /\ u \in Int
  BY PointersType DEF MmType
<1>3. mm' = [mm EXCEPT ![m] = x]
  OBVIOUS
<1> HIDE DEF u
<1>2. /\ x \in MmType /\ x.users = u /\ x.state = mm[m].state
      /\ x.count = mm[m].count /\ SameHold(x, mm[m]) /\ Rests(x, mm[m])
  <2> DEFINE z == mm[m]
  <2>1. z \in MmType
    BY <1>1
  <2> HIDE DEF z
  <2>2. [z EXCEPT !.users = u] \in MmType
    BY <1>1, <2>1 DEF MmType
  <2>3. LET w == [z EXCEPT !.users = u] IN
        w.users = u /\ w.state = z.state /\ w.count = z.count /\ SameHold(w, z) /\ Rests(w, z)
    BY <2>1 DEF MmType, SameHold, Rests
  <2> QED  BY <2>2, <2>3 DEF z
<1> HIDE DEF x
<1> QED  BY <1>2, <1>3 DEF GetDone, MmIs, u

LEMMA PutEffect ==
  ASSUME Typed, NEW m \in Mms, Mmput(m)
  PROVE  \E x : PutDone(m, x)
<1> DEFINE s == IF mm[m].users = 1 THEN "dying" ELSE mm[m].state
           u == mm[m].users - 1
           z == mm[m]
           x == [z EXCEPT !.users = u, !.state = s]
<1>1. z \in MmType /\ s \in {"free", "live", "dying", "torn"} /\ u \in Int
  BY PointersType DEF MmType
<1>2. mm' = [mm EXCEPT ![m] = x]
  BY DEF Mmput, Typed
<1> HIDE DEF s, u, z
<1>3. x \in MmType
  BY <1>1 DEF MmType
<1>4. x.users = u /\ x.state = s /\ x.count = z.count /\ SameHold(x, z) /\ Rests(x, z)
  BY <1>1 DEF MmType, SameHold, Rests
<1> HIDE DEF x
<1> QED  BY <1>2, <1>3, <1>4 DEF PutDone, MmIs, s, u, z

\* __mmput.
FinalDone(m, x) ==
  LET z == mm[m] IN
  /\ z.state = "dying"
  /\ MmIs(m, x) /\ x.users = 0 /\ x.count = z.count - 1
  /\ x.state = "torn" \/ (x.state = "free" /\ x.count = 0)
  /\ refs' = Put(ExitMmap(refs, z.areas), z.exe)
  /\ committed' = committed - Number(z.areas, Accounted)
  /\ modules' = IF z.binfmt THEN modules - 1 ELSE modules
  /\ Rest /\ UNCHANGED call

LEMMA FinalEffect ==
  ASSUME Typed, UsersInv, NEW m \in Mms, FinalMmput(m)
  PROVE  \E x : FinalDone(m, x)
<1> DEFINE e == <<>>
           w == [mm[m] EXCEPT !.state = "torn", !.areas = e, !.exe = None, !.binfmt = FALSE]
           x == Mmdropped(w)
<1>1. mm[m] \in MmType /\ mm[m].state = "dying" /\ mm[m].users = 0
  BY PointersType DEF FinalMmput, UsersInv
<1>2. e \in Seq(Areas)
  BY EmptySeq
<1>3. mm' = [mm EXCEPT ![m] = x]
  BY DEF FinalMmput
<1> HIDE DEF e
<1>4. w \in MmType /\ w.state = "torn" /\ w.users = 0 /\ w.count = mm[m].count
  BY <1>1, <1>2 DEF MmType
<1> HIDE DEF w
<1>5. [w EXCEPT !.count = @ - 1] \in MmType /\ [w EXCEPT !.count = @ - 1].count = w.count - 1
      /\ [w EXCEPT !.count = @ - 1].users = w.users /\ [w EXCEPT !.count = @ - 1].state = w.state
  BY <1>4 DEF MmType
<1>6. x \in MmType /\ x.users = 0 /\ x.count = mm[m].count - 1
      /\ (x.state = "torn" \/ (x.state = "free" /\ x.count = 0))
  BY <1>4, <1>5, FreeType DEF Mmdropped
<1> HIDE DEF x
<1> QED  BY <1>1, <1>3, <1>6 DEF FinalDone, MmIs, FinalMmput, Rest, Others

Same == UNCHANGED <<refs, committed, modules>>

\* exit_mm.
ExitDone(t, x, z) ==
  /\ Alive(t) /\ At(t, "user") /\ task_lock[t] = None
  /\ PutDone(task[t].mm, x)
  /\ TaskIs(t, z) /\ z.state = "dead" /\ z.mm = None /\ z.creds = task[t].creds
  /\ UNCHANGED <<call, reader, kthread, guard, task_lock>> /\ Same

LEMMA ExitEffect ==
  ASSUME Typed, Shape, NEW t \in Tasks, Exit(t)
  PROVE  \E x, z : ExitDone(t, x, z)
<1> DEFINE z == [task[t] EXCEPT !.state = "dead", !.mm = None]
<1>1. task[t].mm \in Mms /\ task[t] \in TaskType /\ Alive(t) /\ At(t, "user") /\ task_lock[t] = None
  BY HasMm, PointersType DEF Exit, MayLock
<1>2. PICK x : PutDone(task[t].mm, x)
  BY <1>1, PutEffect DEF Exit
<1>3. z \in TaskType /\ z.state = "dead" /\ z.mm = None /\ z.creds = task[t].creds
  BY <1>1 DEF TaskType
<1>4. task' = [task EXCEPT ![t] = z]
  BY DEF Exit, Typed
<1> HIDE DEF z
<1>5. ExitDone(t, x, z)
  BY <1>1, <1>2, <1>3, <1>4 DEF ExitDone, TaskIs, Exit, Others, Same, Files_
<1> QED  BY <1>5

\* exec, up to the new mm.
ExecDone(t, m, f, x, y) ==
  /\ Alive(t) /\ At(t, "user") /\ mm[m].state = "free" /\ guard[t] = None /\ f \in Files
  /\ MmIs(m, x) /\ x.state = "live" /\ x.users = 1 /\ x.count = 1
  /\ x.exe = f /\ x.areas = <<Heap>> /\ x.binfmt = TRUE
  /\ CallIs(t, y) /\ y.at = "exec" /\ y.mm = m /\ y.charge = 0
  /\ refs' = Got(refs, f) /\ committed' = committed + 1 /\ modules' = modules + 1
  /\ guard' = [guard EXCEPT ![t] = t]
  /\ UNCHANGED <<task, reader, kthread, task_lock>>

LEMMA HeapAlone == <<Heap>> \in Seq(Areas)
BY AreaFacts

LEMMA ExecEffect ==
  ASSUME Typed, Shape, NEW t \in Tasks, Exec(t)
  PROVE  \E m, f, x, y : ExecDone(t, m, f, x, y)
<1>1. NewMm \in Mms /\ mm[NewMm].state = "free" /\ Alive(t) /\ At(t, "user") /\ guard[t] = None
  BY NewMmFree DEF Exec, MayGuard
<1>2. PICK f \in Files, whom \in {"all", "owner"} :
        /\ mm' = [mm EXCEPT ![NewMm] = [MmAlloc EXCEPT
                    !.exe = f, !.areas = <<Heap>>, !.binfmt = TRUE, !.for = whom]]
        /\ refs' = Got(refs, f)
  BY DEF Exec
<1> DEFINE h == <<Heap>>
           x == [MmAlloc EXCEPT !.exe = f, !.areas = h, !.binfmt = TRUE, !.for = whom]
           y == [NoCall EXCEPT !.at = "exec", !.mm = NewMm]
<1>3. mm' = [mm EXCEPT ![NewMm] = x] /\ h \in Seq(Areas)
  BY <1>2, HeapAlone
<1>4. MmAlloc \in MmType /\ MmAlloc.state = "live" /\ MmAlloc.users = 1 /\ MmAlloc.count = 1
  BY InitType, FreeType DEF MmAlloc
<1> HIDE DEF h
<1>5. /\ x \in MmType /\ x.state = "live" /\ x.users = 1 /\ x.count = 1
      /\ x.exe = f /\ x.areas = h /\ x.binfmt = TRUE
  BY <1>3, <1>4 DEF MmType
<1>6. y \in CallType /\ y.at = "exec" /\ y.mm = NewMm /\ y.charge = 0
  BY <1>1, FreeType DEF CallType, ForkPoints, NoCall
<1>7. MmIs(NewMm, x) /\ CallIs(t, y)
  BY <1>1, <1>3, <1>5, <1>6 DEF MmIs, CallIs, Exec
<1> HIDE DEF x, y
<1>8. ExecDone(t, NewMm, f, x, y)
  BY <1>1, <1>2, <1>5, <1>6, <1>7 DEF ExecDone, Exec, h
<1> QED  BY <1>8

ExecFailsDone(t, x) ==
  /\ At(t, "exec") /\ PutDone(call[t].mm, x)
  /\ CallIs(t, NoCall)
  /\ guard' = [guard EXCEPT ![t] = None]
  /\ UNCHANGED <<task, reader, kthread, task_lock>> /\ Same

LEMMA ExecFailsEffect ==
  ASSUME Typed, Shape, NEW t \in Tasks, ExecFails(t)
  PROVE  \E x : ExecFailsDone(t, x)
<1>1. At(t, "exec") /\ call[t].mm \in Mms
  BY HasMm DEF ExecFails
<1>2. PICK x : PutDone(call[t].mm, x)
  BY <1>1, PutEffect DEF ExecFails
<1>3. CallIs(t, NoCall)
  BY FreeType DEF CallIs, ExecFails
<1>4. ExecFailsDone(t, x)
  BY <1>1, <1>2, <1>3 DEF ExecFailsDone, ExecFails, Same, Files_
<1> QED  BY <1>4

\* exec_mmap.
ExecMmapDone(t, x, y, z) ==
  /\ At(t, "exec") /\ task_lock[t] = None
  /\ PutDone(task[t].mm, x)
  /\ TaskIs(t, z) /\ z.state = task[t].state /\ z.mm = call[t].mm /\ z.creds = task[t].creds
  /\ CallIs(t, y) /\ y.at = "exec_creds" /\ y.mm = None /\ y.charge = 0
  /\ UNCHANGED <<reader, kthread, guard, task_lock>> /\ Same

LEMMA ExecMmapEffect ==
  ASSUME Typed, Shape, NEW t \in Tasks, ExecMmap(t)
  PROVE  \E x, y, z : ExecMmapDone(t, x, y, z)
<1> DEFINE z == [task[t] EXCEPT !.mm = call[t].mm]
           y == [NoCall EXCEPT !.at = "exec_creds"]
<1>1. /\ At(t, "exec") /\ task_lock[t] = None /\ task[t].mm \in Mms /\ call[t].mm \in Mms
      /\ task[t] \in TaskType
  BY HasMm, PointersType DEF ExecMmap, MayLock
<1>2. PICK x : PutDone(task[t].mm, x)
  BY <1>1, PutEffect DEF ExecMmap
<1>3. z \in TaskType /\ z.state = task[t].state /\ z.mm = call[t].mm /\ z.creds = task[t].creds
  BY <1>1 DEF TaskType
<1>4. y \in CallType /\ y.at = "exec_creds" /\ y.mm = None /\ y.charge = 0
  BY FreeType DEF CallType, ForkPoints, NoCall
<1>5. TaskIs(t, z) /\ CallIs(t, y)
  BY <1>3, <1>4 DEF TaskIs, CallIs, ExecMmap
<1> HIDE DEF y, z
<1>6. ExecMmapDone(t, x, y, z)
  BY <1>1, <1>2, <1>3, <1>4, <1>5 DEF ExecMmapDone, ExecMmap, Others, Same, Files_
<1> QED  BY <1>6

\* The credentials change.
ExecCredsDone(t, z) ==
  /\ At(t, "exec_creds")
  /\ TaskIs(t, z) /\ z.state = task[t].state /\ z.mm = task[t].mm
  /\ z.creds = mm[task[t].mm].for
  /\ CallIs(t, NoCall)
  /\ guard' = [guard EXCEPT ![t] = None]
  /\ UNCHANGED <<mm, reader, kthread, task_lock>> /\ Same

LEMMA ExecCredsEffect ==
  ASSUME Typed, Shape, NEW t \in Tasks, ExecCreds(t)
  PROVE  \E z : ExecCredsDone(t, z)
<1> DEFINE c == mm[task[t].mm].for
           z == [task[t] EXCEPT !.creds = c]
<1>1. At(t, "exec_creds") /\ task[t].mm \in Mms /\ task[t] \in TaskType
  BY HasMm, PointersType DEF ExecCreds
<1>2. c \in {"all", "owner"}
  BY <1>1, PointersType DEF MmType
<1> HIDE DEF c
<1>3. z \in TaskType /\ z.state = task[t].state /\ z.mm = task[t].mm /\ z.creds = c
  BY <1>1, <1>2 DEF TaskType
<1>4. TaskIs(t, z) /\ CallIs(t, NoCall)
  BY <1>3, FreeType DEF TaskIs, CallIs, ExecCreds, c
<1> HIDE DEF z
<1>5. ExecCredsDone(t, z)
  BY <1>1, <1>3, <1>4 DEF ExecCredsDone, ExecCreds, Same, Files_, c
<1> QED  BY <1>5

\* A reader looks at a task.
LookDone(r, t, access, y) ==
  /\ Reads(r, "idle") /\ task[t].state # "unborn" /\ t \in Tasks /\ access \in BOOLEAN
  /\ ReaderIs(r, y) /\ y.at = "lock" /\ y.task = t /\ y.access = access
  /\ y.mm = None /\ y.file = None
  /\ access => guard[t] = None
  /\ guard' = IF access THEN [guard EXCEPT ![t] = r] ELSE guard
  /\ UNCHANGED <<mm, task, call, kthread, task_lock>> /\ Same

LEMMA ReaderFacts ==
  ASSUME Typed, Shape, NEW r \in Readers
  PROVE  /\ reader[r] \in ReaderType /\ reader[r].mm \in Mms \cup {None}
         /\ reader[r].file \in Files \cup {None}
         /\ Reads(r, "lock") \/ Reads(r, "locked") \/ Reads(r, "check") => reader[r].task \in Tasks
         /\ Reads(r, "check") \/ Reads(r, "held") => reader[r].mm \in Mms
         /\ Reads(r, "file") => reader[r].file \in Files
<1>1. reader[r] \in ReaderType
  BY PointersType
<1> QED  BY <1>1 DEF ReaderType, Shape, ReaderShape

LEMMA LookEffect ==
  ASSUME Typed, Shape, NEW r \in Readers, NEW t \in Tasks, NEW access \in BOOLEAN,
         Look(r, t, access)
  PROVE  \E y : LookDone(r, t, access, y)
<1> DEFINE y == [Idle EXCEPT !.at = "lock", !.task = t, !.access = access]
<1>1. Idle \in ReaderType /\ Idle.mm = None /\ Idle.file = None
  BY FreeType
<1>2. reader' = [reader EXCEPT ![r] = y]
  BY DEF Look
<1>3. y \in ReaderType /\ y.at = "lock" /\ y.task = t /\ y.access = access
      /\ y.mm = None /\ y.file = None
  BY <1>1 DEF ReaderType
<1> HIDE DEF y
<1>5. LookDone(r, t, access, y)
  BY <1>2, <1>3 DEF LookDone, ReaderIs, Look, MayGuard, Same, Files_
<1> QED  BY <1>5

\* get_task_mm.
ReadDone(r, y) ==
  LET t == reader[r].task IN
  /\ Reads(r, "lock") /\ t \in Tasks /\ task_lock[t] = None
  /\ ReaderIs(r, y) /\ y.at = "locked" /\ y.task = t /\ y.access = reader[r].access
  /\ y.mm = task[t].mm /\ y.file = reader[r].file
  /\ task_lock' = [task_lock EXCEPT ![t] = r]
  /\ UNCHANGED <<mm, task, call, kthread, guard>> /\ Same

LEMMA ReadEffect ==
  ASSUME Typed, Shape, NEW r \in Readers, ReadMm(r)
  PROVE  \E y : ReadDone(r, y)
<1> DEFINE t == reader[r].task
           m == task[t].mm
           y == [reader[r] EXCEPT !.at = "locked", !.mm = m]
<1>1. Reads(r, "lock") /\ t \in Tasks /\ reader[r] \in ReaderType
  BY ReaderFacts DEF ReadMm
<1>2. m \in Mms \cup {None}
  BY <1>1, PointersType
<1>3. reader' = [reader EXCEPT ![r] = y]
  BY DEF ReadMm, Typed
<1> HIDE DEF m
<1>4. /\ y \in ReaderType /\ y.at = "locked" /\ y.task = t /\ y.access = reader[r].access
      /\ y.mm = m /\ y.file = reader[r].file
  BY <1>1, <1>2 DEF ReaderType
<1> HIDE DEF y
<1>5. ReadDone(r, y)
  BY <1>1, <1>3, <1>4 DEF ReadDone, ReaderIs, ReadMm, MayLock, Same, Files_, m
<1> QED  BY <1>5

\* There is no mm.
NoneDone(r) ==
  LET t == reader[r].task IN
  /\ Reads(r, "locked") /\ t \in Tasks
  /\ ReaderIs(r, Idle)
  /\ task_lock' = [task_lock EXCEPT ![t] = None]
  /\ guard' = IF reader[r].access THEN [guard EXCEPT ![t] = None] ELSE guard
  /\ UNCHANGED <<mm, task, call, kthread>> /\ Same

\* There is one.
SomeDone(r, x, y) ==
  LET t == reader[r].task IN
  /\ Reads(r, "locked") /\ t \in Tasks
  /\ ReaderIs(r, y) /\ y.at = (IF reader[r].access THEN "check" ELSE "held")
  /\ y.task = t /\ y.access = reader[r].access /\ y.mm = reader[r].mm /\ y.file = reader[r].file
  /\ GetDone(reader[r].mm, x)
  /\ task_lock' = [task_lock EXCEPT ![t] = None]
  /\ UNCHANGED <<task, call, kthread, guard>> /\ Same

LEMMA GetTaskMmEffect ==
  ASSUME Typed, Shape, NEW r \in Readers, GetTaskMm(r)
  PROVE  NoneDone(r) \/ \E x, y : SomeDone(r, x, y)
<1> DEFINE t == reader[r].task
           p == IF reader[r].access THEN "check" ELSE "held"
           y == [reader[r] EXCEPT !.at = p]
<1>1. Reads(r, "locked") /\ t \in Tasks /\ reader[r] \in ReaderType /\ reader[r].mm \in Mms \cup {None}
  BY ReaderFacts DEF GetTaskMm
<1>2. task_lock' = [task_lock EXCEPT ![t] = None] /\ UNCHANGED <<task, call, kthread>> /\ Same
  BY DEF GetTaskMm, Same, Files_
<1>3. CASE reader[r].mm = None
  <2>1. NoneDone(r)
    BY <1>1, <1>2, <1>3, FreeType DEF NoneDone, ReaderIs, GetTaskMm
  <2> QED  BY <2>1
<1>4. CASE reader[r].mm # None
  <2>1. /\ reader' = [reader EXCEPT ![r] = y] /\ UNCHANGED guard
        /\ mm' = [mm EXCEPT ![reader[r].mm].users = @ + 1] /\ reader[r].mm \in Mms
    BY <1>1, <1>4 DEF GetTaskMm, Typed
  <2>2. PICK x : GetDone(reader[r].mm, x)
    BY <2>1, GetEffect
  <2>3. p \in {"check", "held"}
    OBVIOUS
  <2> HIDE DEF p
  <2>4. /\ y \in ReaderType /\ y.at = p
        /\ y.task = t /\ y.access = reader[r].access /\ y.mm = reader[r].mm /\ y.file = reader[r].file
    BY <1>1, <2>3 DEF ReaderType
  <2> HIDE DEF y
  <2>5. SomeDone(r, x, y)
    BY <1>1, <1>2, <2>1, <2>2, <2>4 DEF SomeDone, ReaderIs, p
  <2> QED  BY <2>5
<1> QED  BY <1>3, <1>4

\* mm_access allows it, and it does not.
AllowDone(r, y) ==
  LET t == reader[r].task IN
  /\ Reads(r, "check") /\ t \in Tasks /\ task[t].creds = "all"
  /\ ReaderIs(r, y) /\ y.at = "held"
  /\ y.task = t /\ y.access = reader[r].access /\ y.mm = reader[r].mm /\ y.file = reader[r].file
  /\ guard' = [guard EXCEPT ![t] = None]
  /\ UNCHANGED <<mm, task, call, kthread, task_lock>> /\ Same
DenyDone(r, x) ==
  LET t == reader[r].task IN
  /\ Reads(r, "check") /\ t \in Tasks
  /\ ReaderIs(r, Idle) /\ PutDone(reader[r].mm, x)
  /\ guard' = [guard EXCEPT ![t] = None]
  /\ UNCHANGED <<task, call, kthread, task_lock>> /\ Same

LEMMA AccessEffect ==
  ASSUME Typed, Shape, NEW r \in Readers, MmAccess(r)
  PROVE  (\E y : AllowDone(r, y)) \/ (\E x : DenyDone(r, x))
<1> DEFINE t == reader[r].task
           y == [reader[r] EXCEPT !.at = "held"]
<1>1. Reads(r, "check") /\ t \in Tasks /\ reader[r] \in ReaderType /\ reader[r].mm \in Mms
  BY ReaderFacts DEF MmAccess
<1>2. guard' = [guard EXCEPT ![t] = None] /\ UNCHANGED <<task, call, kthread, task_lock>> /\ Same
  BY DEF MmAccess, Same, Files_
<1>3. CASE task[t].creds = "all"
  <2>1. reader' = [reader EXCEPT ![r] = y] /\ UNCHANGED mm
    BY <1>3 DEF MmAccess, Typed
  <2>2. /\ y \in ReaderType /\ y.at = "held"
        /\ y.task = t /\ y.access = reader[r].access /\ y.mm = reader[r].mm /\ y.file = reader[r].file
    BY <1>1 DEF ReaderType
  <2> HIDE DEF y
  <2>3. AllowDone(r, y)
    BY <1>1, <1>2, <1>3, <2>1, <2>2 DEF AllowDone, ReaderIs
  <2> QED  BY <2>3
<1>4. CASE task[t].creds # "all"
  <2>1. reader' = [reader EXCEPT ![r] = Idle] /\ Mmput(reader[r].mm)
    BY <1>4 DEF MmAccess
  <2>2. PICK x : PutDone(reader[r].mm, x)
    BY <1>1, <2>1, PutEffect
  <2>3. DenyDone(r, x)
    BY <1>1, <1>2, <2>1, <2>2, FreeType DEF DenyDone, ReaderIs
  <2> QED  BY <2>3
<1> QED  BY <1>3, <1>4

PutMmDone(r, x) ==
  /\ Reads(r, "held") /\ ReaderIs(r, Idle) /\ PutDone(reader[r].mm, x)
  /\ UNCHANGED <<task, call, kthread, task_lock, guard>> /\ Same

LEMMA PutMmEffect ==
  ASSUME Typed, Shape, NEW r \in Readers, PutMm(r)
  PROVE  \E x : PutMmDone(r, x)
<1>1. Reads(r, "held") /\ reader[r].mm \in Mms
  BY ReaderFacts DEF PutMm
<1>2. PICK x : PutDone(reader[r].mm, x)
  BY <1>1, PutEffect DEF PutMm
<1>3. PutMmDone(r, x)
  BY <1>1, <1>2, FreeType DEF PutMmDone, ReaderIs, PutMm, Same, Files_
<1> QED  BY <1>3

\* The executable file is taken and put.
ExeDone(r, f, y) ==
  /\ Reads(r, "idle") /\ f \in Files /\ refs' = Got(refs, f)
  /\ ReaderIs(r, y) /\ y.at = "file" /\ y.file = f /\ y.mm = None /\ y.access = FALSE
  /\ UNCHANGED <<mm, task, call, committed, modules, kthread, task_lock, guard>>
PutFileDone(r) ==
  /\ Reads(r, "file") /\ refs' = Put(refs, reader[r].file)
  /\ ReaderIs(r, Idle)
  /\ UNCHANGED <<mm, task, call, committed, modules, kthread, task_lock, guard>>

LEMMA ExeEffect ==
  ASSUME Typed, Shape, NEW r \in Readers, NEW t \in Tasks, GetTaskExeFile(r, t)
  PROVE  \E f, y : ExeDone(r, f, y)
<1> DEFINE f == mm[task[t].mm].exe
           y == [Idle EXCEPT !.at = "file", !.file = f]
<1>1. task[t].mm \in Mms /\ f # None
  BY PointersType DEF GetTaskExeFile
<1>2. f \in Files
  BY <1>1, PointersType DEF MmType
<1>3. reader' = [reader EXCEPT ![r] = y] /\ refs' = Got(refs, f)
  BY DEF GetTaskExeFile
<1> HIDE DEF f
<1>4. Idle \in ReaderType /\ Idle.mm = None /\ Idle.access = FALSE
  BY FreeType
<1>5. y \in ReaderType /\ y.at = "file" /\ y.file = f /\ y.mm = Idle.mm /\ y.access = Idle.access
  BY <1>2, <1>4 DEF ReaderType
<1> HIDE DEF y
<1>7. ExeDone(r, f, y)
  BY <1>2, <1>3, <1>4, <1>5 DEF ExeDone, ReaderIs, GetTaskExeFile
<1> QED  BY <1>7

LEMMA PutFileEffect ==
  ASSUME Typed, Shape, NEW r \in Readers, PutFile(r)
  PROVE  PutFileDone(r)
BY FreeType DEF PutFile, PutFileDone, ReaderIs

\* Kernel threads.
BorrowDone(k, m, x, y) ==
  /\ kthread[k].mm = None /\ KthreadIs(k, y) /\ y.mm = m /\ y.uses = FALSE
  /\ \E t \in Tasks : m = task[t].mm
  /\ MmIs(m, x) /\ x.count = mm[m].count + 1 /\ x.users = mm[m].users /\ x.state = mm[m].state
  /\ SameHold(x, mm[m]) /\ Rests(x, mm[m])
  /\ UNCHANGED <<task, call, reader, task_lock, guard>> /\ Same

LEMMA KthreadFacts ==
  ASSUME Typed, Shape, NEW k \in Kthreads
  PROVE  /\ kthread[k] \in KthreadType /\ kthread[k].mm \in Mms \cup {None}
         /\ kthread[k].uses \in BOOLEAN /\ (kthread[k].uses => kthread[k].mm \in Mms)
<1>1. kthread[k] \in KthreadType
  BY PointersType
<1> QED  BY <1>1 DEF KthreadType, Shape

\* Another count.
LEMMA CountSet ==
  ASSUME NEW z \in MmType, NEW c \in Int
  PROVE  LET x == [z EXCEPT !.count = c] IN
         /\ x \in MmType /\ x.count = c /\ x.users = z.users /\ x.state = z.state
         /\ SameHold(x, z) /\ Rests(x, z)
<1>1. [z EXCEPT !.count = c] \in MmType
  BY DEF MmType
<1> QED  BY <1>1 DEF MmType, SameHold, Rests

LEMMA BorrowEffect ==
  ASSUME Typed, Shape, NEW k \in Kthreads, NEW t \in Tasks, Borrow(k, t)
  PROVE  \E m, x, y : BorrowDone(k, m, x, y)
<1> DEFINE m == task[t].mm
           c == mm[m].count + 1
           x == [mm[m] EXCEPT !.count = c]
           y == [kthread[k] EXCEPT !.mm = m]
<1>1. m \in Mms /\ kthread[k].mm = None
  BY HasMm DEF Borrow
<1>2. mm[m] \in MmType /\ c \in Int
  BY <1>1, PointersType DEF MmType
<1>3. kthread[k] \in KthreadType /\ kthread[k].uses = FALSE
  BY <1>1, KthreadFacts DEF Shape
<1>4. mm' = [mm EXCEPT ![m] = x] /\ kthread' = [kthread EXCEPT ![k] = y]
  BY DEF Borrow
<1>5. UNCHANGED <<task, call, reader, task_lock, guard>> /\ Same
  BY DEF Borrow, Same, Files_
<1> HIDE DEF c
<1>6. x \in MmType /\ x.count = c /\ x.users = mm[m].users /\ x.state = mm[m].state
      /\ SameHold(x, mm[m]) /\ Rests(x, mm[m])
  BY <1>2, CountSet
<1>7. y \in KthreadType /\ y.mm = m /\ y.uses = kthread[k].uses
  <2> HIDE DEF m
  <2> QED  BY <1>1, <1>3 DEF KthreadType
<1> HIDE DEF x, y
<1>8. BorrowDone(k, m, x, y)
  BY <1>1, <1>3, <1>4, <1>5, <1>6, <1>7 DEF BorrowDone, MmIs, KthreadIs, c
<1> QED  BY <1>8

UseDone(k, x, y) ==
  LET m == kthread[k].mm IN
  /\ kthread[k].uses = FALSE /\ KthreadIs(k, y) /\ y.mm = m /\ y.uses = TRUE
  /\ mm[m].users # 0 /\ GetDone(m, x)
  /\ UNCHANGED <<task, call, reader, task_lock, guard>> /\ Same
AsyncDone(k, x, y) ==
  LET m == kthread[k].mm IN
  /\ kthread[k].uses = TRUE /\ KthreadIs(k, y) /\ y.mm = m /\ y.uses = FALSE
  /\ PutDone(m, x)
  /\ UNCHANGED <<task, call, reader, task_lock, guard>> /\ Same

LEMMA KthreadSet ==
  ASSUME NEW z \in KthreadType
  PROVE  /\ \A b \in BOOLEAN : LET y == [z EXCEPT !.uses = b] IN
              y \in KthreadType /\ y.mm = z.mm /\ y.uses = b
         /\ \A m \in Mms \cup {None} : LET y == [z EXCEPT !.mm = m] IN
              y \in KthreadType /\ y.mm = m /\ y.uses = z.uses
BY DEF KthreadType

LEMMA UseEffect ==
  ASSUME Typed, Shape, NEW k \in Kthreads, Use(k)
  PROVE  \E x, y : UseDone(k, x, y)
<1> DEFINE m == kthread[k].mm
           y == [kthread[k] EXCEPT !.uses = TRUE]
<1>1. m \in Mms /\ kthread[k] \in KthreadType /\ kthread[k].uses = FALSE /\ mm[m].users # 0
  BY KthreadFacts DEF Use, MmgetNotZero
<1>2. PICK x : GetDone(m, x)
  BY <1>1, GetEffect DEF Use
<1>3. kthread' = [kthread EXCEPT ![k] = y] /\ UNCHANGED <<task, call, reader, task_lock, guard>> /\ Same
  BY DEF Use, Same, Files_
<1>4. y \in KthreadType /\ y.mm = m /\ y.uses = TRUE
  BY <1>1, KthreadSet
<1> HIDE DEF y
<1>5. UseDone(k, x, y)
  BY <1>1, <1>2, <1>3, <1>4 DEF UseDone, KthreadIs
<1> QED  BY <1>5

LEMMA AsyncEffect ==
  ASSUME Typed, Shape, NEW k \in Kthreads, MmputAsync(k)
  PROVE  \E x, y : AsyncDone(k, x, y)
<1> DEFINE m == kthread[k].mm
           y == [kthread[k] EXCEPT !.uses = FALSE]
<1>1. m \in Mms /\ kthread[k] \in KthreadType /\ kthread[k].uses = TRUE
  BY KthreadFacts DEF MmputAsync
<1>2. PICK x : PutDone(m, x)
  BY <1>1, PutEffect DEF MmputAsync
<1>3. kthread' = [kthread EXCEPT ![k] = y] /\ UNCHANGED <<task, call, reader, task_lock, guard>> /\ Same
  BY DEF MmputAsync, Same, Files_
<1>4. y \in KthreadType /\ y.mm = m /\ y.uses = FALSE
  BY <1>1, KthreadSet
<1> HIDE DEF y
<1>5. AsyncDone(k, x, y)
  BY <1>1, <1>2, <1>3, <1>4 DEF AsyncDone, KthreadIs
<1> QED  BY <1>5

\* mmdrop: an mm that is still counted as one has another count.
DropDone(k, x, y) ==
  LET m == kthread[k].mm IN
  /\ kthread[k].uses = FALSE /\ KthreadIs(k, y) /\ y.mm = None /\ y.uses = FALSE
  /\ MmIs(m, x) /\ x.count = mm[m].count - 1 /\ x.users = mm[m].users
  /\ \/ x.state = mm[m].state /\ SameHold(x, mm[m]) /\ Rests(x, mm[m])
     \/ x.state = "free" /\ x.count = 0 /\ ~IsPresent(mm[m])
  /\ UNCHANGED <<task, call, reader, task_lock, guard>> /\ Same

LEMMA DropEffect ==
  ASSUME Typed, Shape, UsersInv, NEW k \in Kthreads, Mmdrop(k)
  PROVE  \E x, y : DropDone(k, x, y)
<1> DEFINE m == kthread[k].mm
           x == Mmdropped(mm[m])
           y == [kthread[k] EXCEPT !.mm = None]
<1>1. m \in Mms /\ kthread[k] \in KthreadType /\ kthread[k].uses = FALSE
  BY KthreadFacts DEF Mmdrop
<1>2. mm[m] \in MmType /\ mm[m].count \in Int
  BY <1>1, PointersType DEF MmType
<1>3. mm' = [mm EXCEPT ![m] = x] /\ kthread' = [kthread EXCEPT ![k] = y]
      /\ UNCHANGED <<task, call, reader, task_lock, guard>> /\ Same
  BY DEF Mmdrop, Same, Files_
<1>4. y \in KthreadType /\ y.mm = None /\ y.uses = FALSE
  BY <1>1, KthreadSet
<1>5. CASE mm[m].count = 1
  <2>1. IsFiniteSet(BorrowsOf(m)) /\ Cardinality(BorrowsOf(m)) \in Nat /\ k \in BorrowsOf(m)
    BY SetsAssumption, FS_Subset, FS_CardinalityType DEF BorrowsOf
  <2>2. Cardinality(BorrowsOf(m)) # 0
    BY <2>1, FS_EmptySet
  <2>3. mm[m].count = Cardinality(BorrowsOf(m)) + (IF mm[m].state \in {"live", "dying"} THEN 1 ELSE 0)
    BY <1>1 DEF UsersInv, CountsExact, BorrowsOf
  <2>4. ~IsPresent(mm[m])
    BY <1>5, <2>1, <2>2, <2>3 DEF IsPresent
  <2>5. mm[m].users = 0 /\ x = FreeMm
    BY <1>1, <1>2, <1>5, <2>4 DEF UsersInv, IsPresent, Mmdropped, MmType
  <2> HIDE DEF x, y
  <2>6. DropDone(k, x, y)
    BY <1>1, <1>3, <1>4, <1>5, <2>4, <2>5, FreeType DEF DropDone, MmIs, KthreadIs
  <2> QED  BY <2>6
<1>6. CASE mm[m].count # 1
  <2> DEFINE c == mm[m].count - 1
  <2>1. x = [mm[m] EXCEPT !.count = c] /\ c \in Int
    BY <1>2, <1>6 DEF Mmdropped
  <2> HIDE DEF x, y, c
  <2>2. /\ x \in MmType /\ x.count = c /\ x.users = mm[m].users /\ x.state = mm[m].state
        /\ SameHold(x, mm[m]) /\ Rests(x, mm[m])
    BY <1>2, <2>1, CountSet
  <2>3. DropDone(k, x, y)
    BY <1>1, <1>3, <1>4, <2>2 DEF DropDone, MmIs, KthreadIs, c
  <2> QED  BY <2>3
<1> QED  BY <1>5, <1>6

-----------------------------------------------------------------------------
(* Every step does one of these things.                                    *)

AreasSteps(t) ==
  \/ \E y : PlainDone(t, y)
  \/ \E x, y : ReleaseDone(t, x, y)
  \/ \E y : BeginDone(t, y)
  \/ \E a, y : LinkDone(t, a, y)
  \/ \E x : AreasDone(t, x)
TaskSteps(t) ==
  \/ AreasSteps(t)
  \/ \E m, x, y : AllocDone(t, m, x, y)
  \/ \E c, z : FinishDone(t, c, z)
  \/ \E x : FreePtDone(t, x)
  \/ \E x, z : ExitDone(t, x, z)
  \/ \E m, f, x, y : ExecDone(t, m, f, x, y)
  \/ \E x : ExecFailsDone(t, x)
  \/ \E x, y, z : ExecMmapDone(t, x, y, z)
  \/ \E z : ExecCredsDone(t, z)
ReaderSteps(r) ==
  \/ \E t, access, y : LookDone(r, t, access, y)
  \/ \E y : ReadDone(r, y)
  \/ NoneDone(r)
  \/ \E x, y : SomeDone(r, x, y)
  \/ \E y : AllowDone(r, y)
  \/ \E x : DenyDone(r, x)
  \/ \E x : PutMmDone(r, x)
  \/ \E f, y : ExeDone(r, f, y)
  \/ PutFileDone(r)
KthreadSteps(k) ==
  \/ \E m, x, y : BorrowDone(k, m, x, y)
  \/ \E x, y : UseDone(k, x, y)
  \/ \E x, y : AsyncDone(k, x, y)
  \/ \E x, y : DropDone(k, x, y)
Steps ==
  \/ \E t \in Tasks : TaskSteps(t)
  \/ \E m, x : FinalDone(m, x)
  \/ \E r \in Readers : ReaderSteps(r)
  \/ \E k \in Kthreads : KthreadSteps(k)

LeftType == [{"forks", "execs", "maps", "reads"} -> Nat]

LEMMA NextSteps ==
  ASSUME Typed, Shape, UsersInv, DupInv, Next
  PROVE  Steps /\ left' \in LeftType
<1>1. ASSUME NEW what \in {"forks", "execs", "maps", "reads"}, Spend(what)
      PROVE  left' \in LeftType
  BY <1>1 DEF Spend, Typed, LeftType
<1>2. ASSUME left' = left
      PROVE  left' \in LeftType
  BY <1>2 DEF Typed, LeftType
<1>3. ASSUME NEW t \in Tasks, DupMm(t)
      PROVE  Steps /\ left' \in LeftType
  <2>1. CASE AllocMm(t)
    <3>1. \E m, x, y : AllocDone(t, m, x, y)
      BY <2>1, AllocEffect
    <3> QED  BY <1>1, <2>1, <3>1 DEF AllocMm, Steps, TaskSteps
  <2>2. CASE BeginDupMmap(t)
    BY <1>2, <2>2, BeginEffect DEF BeginDupMmap, Steps, TaskSteps, AreasSteps
  <2>3. CASE Interrupted(t)
    BY <1>2, <2>3, InterruptedEffect DEF Interrupted, Steps, TaskSteps, AreasSteps
  <2>4. CASE SkipArea(t)
    BY <1>2, <2>4, SkipEffect DEF SkipArea, Steps, TaskSteps, AreasSteps
  <2>5. CASE ChargeArea(t)
    BY <1>2, <2>5, ChargeEffect DEF ChargeArea, Steps, TaskSteps, AreasSteps
  <2>6. CASE ChargeFails(t)
    BY <1>2, <2>6, ReleaseEffect DEF ChargeFails, Steps, TaskSteps, AreasSteps
  <2>7. CASE CopyAreaFails(t)
    BY <1>2, <2>7, ReleaseEffect DEF CopyAreaFails, Steps, TaskSteps, AreasSteps
  <2>8. CASE LinkArea(t)
    BY <1>2, <2>8, LinkEffect DEF LinkArea, Steps, TaskSteps, AreasSteps
  <2>9. CASE EndDupMmap(t)
    BY <1>2, <2>9, ReleaseEffect DEF EndDupMmap, Steps, TaskSteps, AreasSteps
  <2>10. CASE FinishDupMm(t)
    <3>1. \E c, z : FinishDone(t, c, z)
      BY <2>10, FinishEffect
    <3> QED  BY <1>2, <2>10, <3>1 DEF FinishDupMm, Steps, TaskSteps
  <2>11. CASE FreePt(t)
    BY <1>2, <2>11, FreePtEffect DEF FreePt, Steps, TaskSteps
  <2> QED  BY <1>3, <2>1, <2>2, <2>3, <2>4, <2>5, <2>6, <2>7, <2>8, <2>9, <2>10, <2>11 DEF DupMm
<1>4. ASSUME NEW t \in Tasks, Elsewhere(t)
      PROVE  Steps /\ left' \in LeftType
  <2>1. CASE Exit(t)
    BY <1>2, <2>1, ExitEffect DEF Exit, Steps, TaskSteps
  <2>2. CASE Map(t)
    BY <1>1, <2>2, AreasEffect DEF Map, Steps, TaskSteps, AreasSteps
  <2>3. CASE Unmap(t)
    BY <1>1, <2>3, AreasEffect DEF Unmap, Steps, TaskSteps, AreasSteps
  <2>4. CASE Exec(t)
    <3>1. \E m, f, x, y : ExecDone(t, m, f, x, y)
      BY <2>4, ExecEffect
    <3>2. Spend("execs")
      BY <2>4 DEF Exec
    <3> QED  BY <1>1, <3>1, <3>2 DEF Steps, TaskSteps
  <2>5. CASE ExecFails(t)
    BY <1>2, <2>5, ExecFailsEffect DEF ExecFails, Steps, TaskSteps
  <2>6. CASE ExecMmap(t)
    BY <1>2, <2>6, ExecMmapEffect DEF ExecMmap, Steps, TaskSteps
  <2>7. CASE ExecCreds(t)
    BY <1>2, <2>7, ExecCredsEffect DEF ExecCreds, Steps, TaskSteps
  <2> QED  BY <1>4, <2>1, <2>2, <2>3, <2>4, <2>5, <2>6, <2>7 DEF Elsewhere
<1>5. ASSUME NEW m \in Mms, FinalMmput(m)
      PROVE  Steps /\ left' \in LeftType
  BY <1>2, <1>5, FinalEffect DEF FinalMmput, Steps
<1>6. ASSUME NEW r \in Readers, Reading(r)
      PROVE  Steps /\ left' \in LeftType
  <2>1. ASSUME NEW t \in Tasks, NEW access \in BOOLEAN, Look(r, t, access)
        PROVE  Steps /\ left' \in LeftType
    <3>1. \E y : LookDone(r, t, access, y)
      BY <2>1, LookEffect
    <3>2. ReaderSteps(r)
      BY <3>1 DEF ReaderSteps
    <3>3. Spend("reads")
      BY <2>1 DEF Look
    <3> QED  BY <1>1, <3>2, <3>3 DEF Steps
  <2>2. ASSUME NEW t \in Tasks, GetTaskExeFile(r, t)
        PROVE  Steps /\ left' \in LeftType
    <3>1. ReaderSteps(r)
      BY <2>2, ExeEffect DEF ReaderSteps
    <3>3. Spend("reads")
      BY <2>2 DEF GetTaskExeFile
    <3> QED  BY <1>1, <3>1, <3>3 DEF Steps
  <2>3. CASE ReadMm(r)
    BY <1>2, <2>3, ReadEffect DEF ReadMm, Steps, ReaderSteps
  <2>4. CASE GetTaskMm(r)
    BY <1>2, <2>4, GetTaskMmEffect DEF GetTaskMm, Steps, ReaderSteps
  <2>5. CASE MmAccess(r)
    BY <1>2, <2>5, AccessEffect DEF MmAccess, Steps, ReaderSteps
  <2>6. CASE PutMm(r)
    BY <1>2, <2>6, PutMmEffect DEF PutMm, Steps, ReaderSteps
  <2>7. CASE PutFile(r)
    BY <1>2, <2>7, PutFileEffect DEF PutFile, Steps, ReaderSteps
  <2> QED  BY <1>6, <2>1, <2>2, <2>3, <2>4, <2>5, <2>6, <2>7 DEF Reading
<1>7. ASSUME NEW k \in Kthreads, Borrowing(k)
      PROVE  Steps /\ left' \in LeftType
  <2>1. ASSUME NEW t \in Tasks, Borrow(k, t)
        PROVE  Steps /\ left' \in LeftType
    <3>1. \E m, x, y : BorrowDone(k, m, x, y)
      BY <2>1, BorrowEffect
    <3>2. Spend("reads")
      BY <2>1 DEF Borrow
    <3> QED  BY <1>1, <3>1, <3>2 DEF Steps, KthreadSteps
  <2>2. CASE Use(k)
    BY <1>1, <2>2, UseEffect DEF Use, Steps, KthreadSteps
  <2>3. CASE MmputAsync(k)
    BY <1>2, <2>3, AsyncEffect DEF MmputAsync, Steps, KthreadSteps
  <2>4. CASE Mmdrop(k)
    BY <1>2, <2>4, DropEffect DEF Mmdrop, Steps, KthreadSteps
  <2> QED  BY <1>7, <2>1, <2>2, <2>3, <2>4 DEF Borrowing
<1> QED  BY <1>3, <1>4, <1>5, <1>6, <1>7 DEF Next

-----------------------------------------------------------------------------
(* The types.                                                              *)

MmsType   == [Mms -> MmType]
GuardType == [Tasks -> Tasks \cup Readers \cup {None}]
LockType  == [Tasks -> Readers \cup {None}]
Structs ==
  /\ mm \in MmsType /\ task \in [Tasks -> TaskType] /\ call \in [Tasks -> CallType]
  /\ reader \in [Readers -> ReaderType] /\ kthread \in [Kthreads -> KthreadType]
  /\ task_lock \in LockType /\ guard \in GuardType
Totals == refs \in RefsType /\ committed \in Int /\ modules \in Int

LEMMA TypedParts == Typed <=> Structs /\ Totals /\ left \in LeftType
BY DEF Typed, Structs, Totals, LeftType, MmsType, GuardType, LockType, RefsType, RefType

LEMMA ChargeType == \A a \in Areas : Charge(a) \in {0, 1}
BY AreaFacts

LEMMA TypedTask ==
  ASSUME Typed, Shape, NEW t \in Tasks, TaskSteps(t)
  PROVE  Structs' /\ Totals'
<1>1. Structs /\ Totals
  BY TypedParts
<1>2. call[t].charge \in Int
  BY CallFacts
<1>3. \A y : CallIs(t, y) => y.charge \in Int
  BY DEF CallIs, CallType
<1>4. \A m \in Mms : mm[m].exe \in Files \cup {None} /\ mm[m].areas \in Seq(Areas)
  BY PointersType DEF MmType
<1>5. ASSUME NEW y, PlainDone(t, y) PROVE Structs' /\ Totals'
  BY <1>1, <1>2, <1>3, <1>5 DEF PlainDone, ForkMove, CallIs, Rest, Structs, Totals
<1>6. ASSUME NEW x, NEW y, ReleaseDone(t, x, y) PROVE Structs' /\ Totals'
  BY <1>1, <1>2, <1>3, <1>6 DEF ReleaseDone, ForkMove, CallIs, MmIs, Rest, Structs, Totals, MmsType
<1>7. ASSUME NEW y, BeginDone(t, y) PROVE Structs' /\ Totals'
  <2>1. task[t].mm \in Mms
    BY <1>7, HasMm DEF BeginDone, Forking, ForkPoints, At
  <2>2. refs' \in RefsType
    BY <1>1, <1>4, <1>7, <2>1, GotIs DEF BeginDone, Totals
  <2> QED  BY <1>1, <1>7, <2>2 DEF BeginDone, CallIs, Structs, Totals, MmsType
<1>8. ASSUME NEW a, NEW y, LinkDone(t, a, y) PROVE Structs' /\ Totals'
  <2>1. refs' \in RefsType
    BY <1>1, <1>8, MappedIs DEF LinkDone, Totals
  <2> QED  BY <1>1, <1>8, <2>1 DEF LinkDone, ForkMove, Rest, CallIs, Structs, Totals, MmsType
<1>9. ASSUME NEW x, AreasDone(t, x) PROVE Structs' /\ Totals'
  <2>1. Structs'
    BY <1>1, <1>9 DEF AreasDone, MmIs, Rest, Structs, MmsType
  <2>2. modules' \in Int
    BY <1>1, <1>9 DEF AreasDone, Totals
  <2>3. CASE \E a \in Areas : refs' = Mapped(refs, a) /\ committed' = committed + Charge(a)
    BY <1>1, <2>1, <2>2, <2>3, MappedIs, ChargeType DEF Totals
  <2>4. CASE /\ mm[task[t].mm].areas # <<>>
             /\ refs' = Unmapped(refs, Head(mm[task[t].mm].areas))
             /\ committed' = committed - Charge(Head(mm[task[t].mm].areas))
    <3>1. mm[task[t].mm].areas \in Seq(Areas)
      BY <1>4, <1>9 DEF AreasDone, MmIs
    <3>2. Head(mm[task[t].mm].areas) \in Areas
      BY <2>4, <3>1, HeadTailProperties
    <3> QED  BY <1>1, <2>1, <2>2, <2>4, <3>2, UnmappedIs, ChargeType DEF Totals
  <2> QED  BY <1>9, <2>3, <2>4 DEF AreasDone
<1>10. ASSUME NEW m, NEW x, NEW y, AllocDone(t, m, x, y) PROVE Structs' /\ Totals'
  BY <1>1, <1>10 DEF AllocDone, CallIs, MmIs, Structs, Totals, MmsType
<1>11. ASSUME NEW c, NEW z, FinishDone(t, c, z) PROVE Structs' /\ Totals'
  BY <1>1, <1>11 DEF FinishDone, CallIs, TaskIs, Structs, Totals
<1>12. ASSUME NEW x, FreePtDone(t, x) PROVE Structs' /\ Totals'
  BY <1>1, <1>12 DEF FreePtDone, CallIs, MmIs, Rest, Structs, Totals, MmsType
<1>13. ASSUME NEW x, NEW z, ExitDone(t, x, z) PROVE Structs' /\ Totals'
  BY <1>1, <1>13 DEF ExitDone, PutDone, TaskIs, MmIs, Same, Structs, Totals, MmsType
<1>14. ASSUME NEW m, NEW f, NEW x, NEW y, ExecDone(t, m, f, x, y) PROVE Structs' /\ Totals'
  <2>1. refs' \in RefsType
    BY <1>1, <1>14, GotIs DEF ExecDone, Totals
  <2> QED  BY <1>1, <1>14, <2>1 DEF ExecDone, CallIs, MmIs, Structs, Totals, MmsType, GuardType
<1>15. ASSUME NEW x, ExecFailsDone(t, x) PROVE Structs' /\ Totals'
  BY <1>1, <1>15 DEF ExecFailsDone, PutDone, CallIs, MmIs, Same, Structs, Totals, MmsType, GuardType
<1>16. ASSUME NEW x, NEW y, NEW z, ExecMmapDone(t, x, y, z) PROVE Structs' /\ Totals'
  BY <1>1, <1>16 DEF ExecMmapDone, PutDone, CallIs, TaskIs, MmIs, Same, Structs, Totals, MmsType
<1>17. ASSUME NEW z, ExecCredsDone(t, z) PROVE Structs' /\ Totals'
  BY <1>1, <1>17 DEF ExecCredsDone, CallIs, TaskIs, Same, Structs, Totals, GuardType
<1> QED  BY <1>5, <1>6, <1>7, <1>8, <1>9, <1>10, <1>11, <1>12, <1>13, <1>14, <1>15, <1>16, <1>17
         DEF TaskSteps, AreasSteps

LEMMA TypedReader ==
  ASSUME Typed, Shape, NEW r \in Readers, ReaderSteps(r)
  PROVE  Structs' /\ Totals'
<1>1. Structs /\ Totals
  BY TypedParts
<1>2. ASSUME NEW t, NEW access, NEW y, LookDone(r, t, access, y) PROVE Structs' /\ Totals'
  BY <1>1, <1>2 DEF LookDone, ReaderIs, Same, Structs, Totals, GuardType
<1>3. ASSUME NEW y, ReadDone(r, y) PROVE Structs' /\ Totals'
  BY <1>1, <1>3 DEF ReadDone, ReaderIs, Same, Structs, Totals, LockType
<1>4. CASE NoneDone(r)
  BY <1>1, <1>4 DEF NoneDone, ReaderIs, Same, Structs, Totals, GuardType, LockType
<1>5. ASSUME NEW x, NEW y, SomeDone(r, x, y) PROVE Structs' /\ Totals'
  BY <1>1, <1>5 DEF SomeDone, GetDone, MmIs, ReaderIs, Same, Structs, Totals, LockType, MmsType
<1>6. ASSUME NEW y, AllowDone(r, y) PROVE Structs' /\ Totals'
  BY <1>1, <1>6 DEF AllowDone, ReaderIs, Same, Structs, Totals, GuardType
<1>7. ASSUME NEW x, DenyDone(r, x) PROVE Structs' /\ Totals'
  BY <1>1, <1>7 DEF DenyDone, PutDone, MmIs, ReaderIs, Same, Structs, Totals, GuardType, MmsType
<1>8. ASSUME NEW x, PutMmDone(r, x) PROVE Structs' /\ Totals'
  BY <1>1, <1>8 DEF PutMmDone, PutDone, MmIs, ReaderIs, Same, Structs, Totals, MmsType
<1>9. ASSUME NEW f, NEW y, ExeDone(r, f, y) PROVE Structs' /\ Totals'
  BY <1>1, <1>9, GotIs DEF ExeDone, ReaderIs, Structs, Totals
<1>10. CASE PutFileDone(r)
  BY <1>1, <1>10, PutIs, ReaderFacts DEF PutFileDone, ReaderIs, Structs, Totals
<1> QED  BY <1>2, <1>3, <1>4, <1>5, <1>6, <1>7, <1>8, <1>9, <1>10 DEF ReaderSteps

LEMMA TypedStep ==
  ASSUME Typed, Shape, Steps, left' \in LeftType
  PROVE  Typed'
<1>1. Structs /\ Totals
  BY TypedParts
<1>2. ASSUME NEW m, NEW x, FinalDone(m, x) PROVE Structs' /\ Totals'
  <2>1. m \in Mms /\ mm[m] \in MmType
    BY <1>2, PointersType DEF FinalDone, MmIs
  <2>2. mm[m].areas \in Seq(Areas) /\ mm[m].exe \in Files \cup {None}
    BY <2>1 DEF MmType
  <2>3. ExitMmap(refs, mm[m].areas) \in RefsType /\ Number(mm[m].areas, Accounted) \in Int
    BY <1>1, <2>2, ExitIs, PlacesFinite DEF Totals
  <2>4. refs' \in RefsType /\ committed' \in Int /\ modules' \in Int
    BY <1>1, <1>2, <2>2, <2>3, PutIs DEF FinalDone, Totals
  <2> QED  BY <1>1, <1>2, <2>4 DEF FinalDone, MmIs, Rest, Structs, Totals, MmsType
<1>3. ASSUME NEW k \in Kthreads, KthreadSteps(k) PROVE Structs' /\ Totals'
  BY <1>1, <1>3 DEF KthreadSteps, BorrowDone, UseDone, AsyncDone, DropDone, GetDone, PutDone,
                    MmIs, KthreadIs, Same, Structs, Totals, MmsType
<1>4. Structs' /\ Totals'
  BY <1>2, <1>3, TypedTask, TypedReader DEF Steps
<1>5. Structs' /\ Totals' /\ left' \in LeftType => Typed'
  BY DEF Typed, Structs, Totals, LeftType, MmsType, GuardType, LockType, RefsType, RefType
<1> QED  BY <1>4, <1>5

-----------------------------------------------------------------------------
(* Who has an mm.                                                          *)

LEMMA UsersSum ==
  ASSUME NEW m
  PROVE  /\ IsFiniteSet(TasksOf(m)) /\ IsFiniteSet(CallsOf(m)) /\ IsFiniteSet(ReadersOf(m))
         /\ IsFiniteSet(UsesOf(m)) /\ IsFiniteSet(BorrowsOf(m))
         /\ Cardinality(TasksOf(m)) \in Nat /\ Cardinality(CallsOf(m)) \in Nat
         /\ Cardinality(ReadersOf(m)) \in Nat /\ Cardinality(UsesOf(m)) \in Nat
         /\ Cardinality(BorrowsOf(m)) \in Nat
         /\ UsersOf(m) = Cardinality(TasksOf(m)) + Cardinality(CallsOf(m))
                         + Cardinality(ReadersOf(m)) + Cardinality(UsesOf(m))
         /\ UsersOf(m) \in Nat
<1>1. /\ IsFiniteSet(TasksOf(m)) /\ IsFiniteSet(CallsOf(m)) /\ IsFiniteSet(ReadersOf(m))
      /\ IsFiniteSet(UsesOf(m)) /\ IsFiniteSet(BorrowsOf(m))
  <2>1. /\ TasksOf(m) \in SUBSET Tasks /\ CallsOf(m) \in SUBSET Tasks
        /\ ReadersOf(m) \in SUBSET Readers /\ UsesOf(m) \in SUBSET Kthreads
        /\ BorrowsOf(m) \in SUBSET Kthreads
    BY DEF TasksOf, CallsOf, ReadersOf, UsesOf, BorrowsOf
  <2> QED  BY <2>1, SetsAssumption, FS_Subset
<1>2. /\ Cardinality(TasksOf(m)) \in Nat /\ Cardinality(CallsOf(m)) \in Nat
      /\ Cardinality(ReadersOf(m)) \in Nat /\ Cardinality(UsesOf(m)) \in Nat
      /\ Cardinality(BorrowsOf(m)) \in Nat
  BY <1>1, FS_CardinalityType
<1>3. UsersOf(m) = Cardinality(TasksOf(m)) + Cardinality(CallsOf(m))
                   + Cardinality(ReadersOf(m)) + Cardinality(UsesOf(m))
  BY DEF UsersOf, TasksOf, CallsOf, ReadersOf, UsesOf
<1>4. UsersOf(m) \in Nat
  BY <1>2, <1>3
<1> QED  BY <1>1, <1>2, <1>3, <1>4

LEMMA NoMember ==
  ASSUME NEW S, IsFiniteSet(S), Cardinality(S) = 0
  PROVE  S = {}
BY FS_EmptySet

LEMMA NobodyCounted ==
  ASSUME UsersInv, NEW m \in Mms, mm[m].state # "live"
  PROVE  /\ TasksOf(m) = {} /\ CallsOf(m) = {} /\ ReadersOf(m) = {} /\ UsesOf(m) = {}
         /\ mm[m].state = "free" => BorrowsOf(m) = {}
<1>1. UsersOf(m) = 0
  BY DEF UsersInv, CountsExact
<1>2. /\ Cardinality(TasksOf(m)) = 0 /\ Cardinality(CallsOf(m)) = 0
      /\ Cardinality(ReadersOf(m)) = 0 /\ Cardinality(UsesOf(m)) = 0
  BY <1>1, UsersSum
<1>3. mm[m].state = "free" => Cardinality(BorrowsOf(m)) = 0
  <2>1. mm[m].count = Cardinality(BorrowsOf(m)) + (IF mm[m].state \in {"live", "dying"} THEN 1 ELSE 0)
    BY DEF UsersInv, CountsExact, BorrowsOf
  <2>2. mm[m].state = "free" => mm[m].count = 0
    BY DEF UsersInv
  <2> QED  BY <2>1, <2>2, UsersSum
<1> QED  BY <1>2, <1>3, UsersSum, NoMember

\* An mm that is not live is nobody's.
LEMMA NobodyHas ==
  ASSUME Typed, Shape, LockInv, UsersInv, NEW m \in Mms, mm[m].state # "live"
  PROVE  /\ \A t \in Tasks : task[t].mm # m /\ call[t].mm # m
         /\ \A r \in Readers : reader[r].mm # m
         /\ \A k \in Kthreads : kthread[k].mm = m => ~kthread[k].uses /\ mm[m].state # "free"
<1>1. \A t \in Tasks : task[t].mm # m /\ call[t].mm # m
  BY NobodyCounted DEF TasksOf, CallsOf
<1>2. ASSUME NEW r \in Readers, reader[r].mm = m
      PROVE  FALSE
  <2>1. reader[r].at \in {"idle", "lock", "locked", "check", "held", "file"} /\ m # None
    BY PointersType, SetsAssumption DEF ReaderType
  <2>2. CASE Reads(r, "check") \/ Reads(r, "held")
    BY <1>2, <2>2, NobodyCounted DEF ReadersOf, Reads
  <2>3. CASE Reads(r, "locked")
    <3>1. reader[r].task \in Tasks /\ reader[r].mm = task[reader[r].task].mm
      BY <2>3, ReaderFacts DEF LockInv
    <3> QED  BY <1>1, <1>2, <3>1
  <2>4. CASE Reads(r, "idle") \/ Reads(r, "lock") \/ Reads(r, "file")
    BY <1>2, <2>1, <2>4 DEF Shape, ReaderShape
  <2> QED  BY <2>1, <2>2, <2>3, <2>4 DEF Reads
<1>3. \A k \in Kthreads : kthread[k].mm = m => ~kthread[k].uses /\ mm[m].state # "free"
  BY NobodyCounted DEF UsesOf, BorrowsOf
<1> QED  BY <1>1, <1>2, <1>3

\* Who has an mm has a live one.
LEMMA HasLive ==
  ASSUME Typed, Shape, LockInv, UsersInv
  PROVE  /\ \A t \in Tasks : /\ task[t].mm \in Mms => mm[task[t].mm].state = "live"
                             /\ call[t].mm \in Mms => mm[call[t].mm].state = "live"
         /\ \A r \in Readers : reader[r].mm \in Mms => mm[reader[r].mm].state = "live"
         /\ \A k \in Kthreads : kthread[k].uses => mm[kthread[k].mm].state = "live"
<1>1. \A k \in Kthreads : kthread[k].uses => kthread[k].mm \in Mms
  BY KthreadFacts
<1> QED  BY <1>1, NobodyHas

-----------------------------------------------------------------------------
(* Steps within dup_mmap, mmap and munmap.                                 *)

Quiet ==
  /\ \A n \in Mms : SameLife(mm'[n], mm[n]) /\ mm'[n].for = mm[n].for
  /\ \A u \in Tasks : /\ call'[u].mm = call[u].mm
                      /\ \/ call'[u].at = call[u].at
                         \/ call[u].at \in ForkPoints /\ call'[u].at \in ForkPoints
                      /\ call'[u].at # "charged" => call'[u].charge = 0
  /\ Rest

LEMMA QuietStep ==
  ASSUME Typed, Shape, NEW t \in Tasks, AreasSteps(t)
  PROVE  Quiet
<1>1. \A u \in Tasks : ~At(u, "charged") => call[u].charge = 0
  BY DEF Shape, TaskShape
<1>2. Structs
  BY TypedParts
<1>3. ASSUME NEW y, CallIs(t, y), y.mm = call[t].mm, y.at # "charged" => y.charge = 0,
             call[t].at \in ForkPoints, y.at \in ForkPoints
      PROVE  \A u \in Tasks : /\ call'[u].mm = call[u].mm
                              /\ \/ call'[u].at = call[u].at
                                 \/ call[u].at \in ForkPoints /\ call'[u].at \in ForkPoints
                              /\ call'[u].at # "charged" => call'[u].charge = 0
  BY <1>1, <1>2, <1>3 DEF CallIs, Structs, At
<1>4. ASSUME NEW y, PlainDone(t, y) PROVE Quiet
  BY <1>3, <1>4 DEF PlainDone, ForkMove, Forking, Quiet, SameLife
<1>5. ASSUME NEW x, NEW y, ReleaseDone(t, x, y) PROVE Quiet
  <2>1. \A n \in Mms : SameLife(mm'[n], mm[n]) /\ mm'[n].for = mm[n].for
    BY <1>2, <1>5 DEF ReleaseDone, MmIs, Structs, MmsType, SameLife
  <2> QED  BY <1>3, <1>5, <2>1 DEF ReleaseDone, ForkMove, Forking, Quiet
<1>6. ASSUME NEW y, BeginDone(t, y) PROVE Quiet
  <2>1. call[t].charge = 0 /\ y.at = "area" /\ y.charge = 0 /\ call[t].at = "mmap_sem"
    BY <1>1, <1>6 DEF BeginDone, At
  <2>2. CallIs(t, y) /\ y.mm = call[t].mm
    BY <1>6 DEF BeginDone
  <2>3. \A n \in Mms : SameLife(mm'[n], mm[n]) /\ mm'[n].for = mm[n].for
    BY <1>6 DEF BeginDone
  <2>4. Rest
    BY <1>6 DEF BeginDone, Rest
  <2>5. call[t].at \in ForkPoints /\ y.at \in ForkPoints
    BY <2>1 DEF ForkPoints
  <2> QED  BY <1>3, <2>1, <2>2, <2>3, <2>4, <2>5 DEF Quiet
<1>7. ASSUME NEW a, NEW y, LinkDone(t, a, y) PROVE Quiet
  BY <1>3, <1>7 DEF LinkDone, ForkMove, Forking, Quiet
<1>8. ASSUME NEW x, AreasDone(t, x) PROVE Quiet
  <2>1. \A n \in Mms : SameLife(mm'[n], mm[n]) /\ mm'[n].for = mm[n].for
    BY <1>2, <1>8 DEF AreasDone, MmIs, Structs, MmsType, SameLife, Rests
  <2> QED  BY <1>1, <1>8, <2>1 DEF AreasDone, Quiet, At
<1> QED  BY <1>4, <1>5, <1>6, <1>7, <1>8 DEF AreasSteps

-----------------------------------------------------------------------------
(* Shapes, locks and privacy.                                              *)

LEMMA ShapeStep ==
  ASSUME Typed, Shape, LockInv, UsersInv, Steps
  PROVE  Shape'
<1>1. Structs /\ None \notin Mms /\ None \notin Files
  BY TypedParts, SetsAssumption
<1>2. \A u \in Tasks : TaskShape(u)
  BY DEF Shape
<1>3. \A q \in Readers : ReaderShape(q)
  BY DEF Shape
<1>4. \A q \in Kthreads : kthread[q].uses => kthread[q].mm # None
  BY DEF Shape
<1>5. \A u \in Tasks : Forking(u) => call[u].mm \in Mms /\ task[u].mm \in Mms
  BY HasMm
<1>6. /\ NoCall.at = "user" /\ NoCall.mm = None /\ NoCall.charge = 0
      /\ Idle.at = "idle" /\ Idle.mm = None /\ Idle.file = None /\ Idle.access = FALSE
  BY FreeType
<1>7. ASSUME Quiet PROVE Shape'
  BY <1>1, <1>2, <1>3, <1>4, <1>5, <1>6, <1>7 DEF Quiet, Rest, Structs, Shape, TaskShape,
     ReaderShape, Alive, At, Reads, Forking, ForkPoints
<1>8. ASSUME NEW t \in Tasks, NEW m, NEW x, NEW y, AllocDone(t, m, x, y) PROVE Shape'
  BY <1>1, <1>2, <1>3, <1>4, <1>5, <1>6, <1>8 DEF AllocDone, MmIs, CallIs, Structs, Shape,
     TaskShape, ReaderShape, Alive, At, Reads, Forking, ForkPoints
<1>9. ASSUME NEW t \in Tasks, NEW c, NEW z, FinishDone(t, c, z) PROVE Shape'
  BY <1>1, <1>2, <1>3, <1>4, <1>5, <1>6, <1>9 DEF FinishDone, TaskIs, CallIs, Structs, Shape,
     TaskShape, ReaderShape, Alive, At, Reads, Forking, ForkPoints
<1>10. ASSUME NEW t \in Tasks, NEW x, FreePtDone(t, x) PROVE Shape'
  BY <1>1, <1>2, <1>3, <1>4, <1>5, <1>6, <1>10 DEF FreePtDone, Rest, MmIs, CallIs, Structs, Shape,
     TaskShape, ReaderShape, Alive, At, Reads, Forking, ForkPoints
<1>11. ASSUME NEW t \in Tasks, NEW x, NEW z, ExitDone(t, x, z) PROVE Shape'
  BY <1>1, <1>2, <1>3, <1>4, <1>5, <1>6, <1>11 DEF ExitDone, PutDone, MmIs, TaskIs, Structs,
     Shape, TaskShape, ReaderShape, Alive, At, Reads, Forking, ForkPoints
<1>12. ASSUME NEW t \in Tasks, NEW m, NEW f, NEW x, NEW y, ExecDone(t, m, f, x, y) PROVE Shape'
  BY <1>1, <1>2, <1>3, <1>4, <1>5, <1>6, <1>12 DEF ExecDone, MmIs, CallIs, Structs, Shape,
     TaskShape, ReaderShape, Alive, At, Reads, Forking, ForkPoints
<1>13. ASSUME NEW t \in Tasks, NEW x, ExecFailsDone(t, x) PROVE Shape'
  BY <1>1, <1>2, <1>3, <1>4, <1>5, <1>6, <1>13 DEF ExecFailsDone, PutDone, MmIs, CallIs, Structs,
     Shape, TaskShape, ReaderShape, Alive, At, Reads, Forking, ForkPoints
<1>14. ASSUME NEW t \in Tasks, NEW x, NEW y, NEW z, ExecMmapDone(t, x, y, z) PROVE Shape'
  BY <1>1, <1>2, <1>3, <1>4, <1>5, <1>6, <1>14 DEF ExecMmapDone, PutDone, MmIs, CallIs, TaskIs,
     Structs, Shape, TaskShape, ReaderShape, Alive, At, Reads, Forking, ForkPoints
<1>15. ASSUME NEW t \in Tasks, NEW z, ExecCredsDone(t, z) PROVE Shape'
  BY <1>1, <1>2, <1>3, <1>4, <1>5, <1>6, <1>15 DEF ExecCredsDone, TaskIs, CallIs, Structs, Shape,
     TaskShape, ReaderShape, Alive, At, Reads, Forking, ForkPoints
<1>16. ASSUME NEW r \in Readers, NEW t, NEW access, NEW y, LookDone(r, t, access, y) PROVE Shape'
  BY <1>1, <1>2, <1>3, <1>4, <1>5, <1>6, <1>16 DEF LookDone, ReaderIs, Structs, Shape, TaskShape,
     ReaderShape, Alive, At, Reads, Forking, ForkPoints
<1>17. ASSUME NEW r \in Readers, NEW y, ReadDone(r, y) PROVE Shape'
  BY <1>1, <1>2, <1>3, <1>4, <1>5, <1>6, <1>17 DEF ReadDone, ReaderIs, Structs, Shape, TaskShape,
     ReaderShape, Alive, At, Reads, Forking, ForkPoints
<1>18. ASSUME NEW r \in Readers, NoneDone(r) PROVE Shape'
  BY <1>1, <1>2, <1>3, <1>4, <1>5, <1>6, <1>18 DEF NoneDone, ReaderIs, Structs, Shape, TaskShape,
     ReaderShape, Alive, At, Reads, Forking, ForkPoints
<1>19. ASSUME NEW r \in Readers, NEW x, NEW y, SomeDone(r, x, y) PROVE Shape'
  BY <1>1, <1>2, <1>3, <1>4, <1>5, <1>6, <1>19 DEF SomeDone, GetDone, MmIs, ReaderIs, Structs,
     Shape, TaskShape, ReaderShape, Alive, At, Reads, Forking, ForkPoints
<1>20. ASSUME NEW r \in Readers, NEW y, AllowDone(r, y) PROVE Shape'
  BY <1>1, <1>2, <1>3, <1>4, <1>5, <1>6, <1>20 DEF AllowDone, ReaderIs, Structs, Shape, TaskShape,
     ReaderShape, Alive, At, Reads, Forking, ForkPoints
<1>21. ASSUME NEW r \in Readers, NEW x, DenyDone(r, x) PROVE Shape'
  BY <1>1, <1>2, <1>3, <1>4, <1>5, <1>6, <1>21 DEF DenyDone, PutDone, MmIs, ReaderIs, Structs,
     Shape, TaskShape, ReaderShape, Alive, At, Reads, Forking, ForkPoints
<1>22. ASSUME NEW r \in Readers, NEW x, PutMmDone(r, x) PROVE Shape'
  BY <1>1, <1>2, <1>3, <1>4, <1>5, <1>6, <1>22 DEF PutMmDone, PutDone, MmIs, ReaderIs, Structs,
     Shape, TaskShape, ReaderShape, Alive, At, Reads, Forking, ForkPoints
<1>23. ASSUME NEW r \in Readers, NEW f, NEW y, ExeDone(r, f, y) PROVE Shape'
  BY <1>1, <1>2, <1>3, <1>4, <1>5, <1>6, <1>23 DEF ExeDone, ReaderIs, Structs, Shape, TaskShape,
     ReaderShape, Alive, At, Reads, Forking, ForkPoints
<1>24. ASSUME NEW r \in Readers, PutFileDone(r) PROVE Shape'
  BY <1>1, <1>2, <1>3, <1>4, <1>5, <1>6, <1>24 DEF PutFileDone, ReaderIs, Structs, Shape,
     TaskShape, ReaderShape, Alive, At, Reads, Forking, ForkPoints
<1>25. ASSUME NEW k \in Kthreads, NEW m, NEW x, NEW y, BorrowDone(k, m, x, y) PROVE Shape'
  BY <1>1, <1>2, <1>3, <1>4, <1>5, <1>6, <1>25 DEF BorrowDone, MmIs, KthreadIs, Structs, Shape,
     TaskShape, ReaderShape, Alive, At, Reads, Forking, ForkPoints
<1>26. ASSUME NEW k \in Kthreads, NEW x, NEW y, UseDone(k, x, y) PROVE Shape'
  BY <1>1, <1>2, <1>3, <1>4, <1>5, <1>6, <1>26 DEF UseDone, GetDone, MmIs, KthreadIs, Structs,
     Shape, TaskShape, ReaderShape, Alive, At, Reads, Forking, ForkPoints
<1>27. ASSUME NEW k \in Kthreads, NEW x, NEW y, AsyncDone(k, x, y) PROVE Shape'
  BY <1>1, <1>2, <1>3, <1>4, <1>5, <1>6, <1>27 DEF AsyncDone, PutDone, MmIs, KthreadIs, Structs,
     Shape, TaskShape, ReaderShape, Alive, At, Reads, Forking, ForkPoints
<1>28. ASSUME NEW k \in Kthreads, NEW x, NEW y, DropDone(k, x, y) PROVE Shape'
  BY <1>1, <1>2, <1>3, <1>4, <1>5, <1>6, <1>28 DEF DropDone, MmIs, KthreadIs, Structs, Shape,
     TaskShape, ReaderShape, Alive, At, Reads, Forking, ForkPoints
<1>29. ASSUME NEW m, NEW x, FinalDone(m, x) PROVE Shape'
  BY <1>1, <1>2, <1>3, <1>4, <1>5, <1>6, <1>29 DEF FinalDone, Rest, MmIs, Structs, Shape,
     TaskShape, ReaderShape, Alive, At, Reads, Forking, ForkPoints
<1>30. ASSUME NEW t \in Tasks, TaskSteps(t) PROVE Shape'
  <2>1. AreasSteps(t) => Shape'
    BY <1>7, QuietStep
  <2> QED  BY <1>30, <2>1, <1>8, <1>9, <1>10, <1>11, <1>12, <1>13, <1>14, <1>15 DEF TaskSteps
<1>31. ASSUME NEW r \in Readers, ReaderSteps(r) PROVE Shape'
  BY <1>31, <1>16, <1>17, <1>18, <1>19, <1>20, <1>21, <1>22, <1>23, <1>24 DEF ReaderSteps
<1>32. ASSUME NEW k \in Kthreads, KthreadSteps(k) PROVE Shape'
  BY <1>32, <1>25, <1>26, <1>27, <1>28 DEF KthreadSteps
<1> QED  BY <1>29, <1>30, <1>31, <1>32 DEF Steps

LEMMA PrivateStep ==
  ASSUME Basic, UsersInv, Steps
  PROVE  PrivateInv'
<1>1. Typed /\ Shape /\ LockInv
  BY DEF Basic
<1>2. Structs /\ None \notin Mms
  BY <1>1, TypedParts, SetsAssumption
<1>3. \A u \in Tasks : Forking(u) => Private(u)
  BY DEF Basic, PrivateInv
<1>4. /\ NoCall.at = "user" /\ NoCall.mm = None /\ NoCall.charge = 0
      /\ Idle.at = "idle" /\ Idle.mm = None /\ Idle.file = None /\ Idle.access = FALSE
  BY FreeType
<1>5. \A u \in Tasks : /\ Forking(u) => call[u].mm \in Mms /\ task[u].mm \in Mms /\ Alive(u)
                       /\ At(u, "exec") => call[u].mm \in Mms /\ task[u].mm \in Mms
                       /\ Alive(u) <=> task[u].mm \in Mms
                       /\ task[u].mm \in Mms \cup {None} /\ call[u].mm \in Mms \cup {None}
  <2> SUFFICES ASSUME NEW u \in Tasks
               PROVE  /\ Forking(u) => call[u].mm \in Mms /\ task[u].mm \in Mms /\ Alive(u)
                      /\ At(u, "exec") => call[u].mm \in Mms /\ task[u].mm \in Mms
                      /\ Alive(u) <=> task[u].mm \in Mms
                      /\ task[u].mm \in Mms \cup {None} /\ call[u].mm \in Mms \cup {None}
    OBVIOUS
  <2>1. Alive(u) <=> task[u].mm # None
    BY <1>1 DEF Shape, TaskShape
  <2> QED  BY <1>1, <1>2, <2>1, HasMm, PointersType
<1>6. \A n \in Mms : mm[n].state # "live" =>
        /\ \A u \in Tasks : task[u].mm # n /\ call[u].mm # n
        /\ \A q \in Readers : reader[q].mm # n
        /\ \A h \in Kthreads : kthread[h].mm = n => ~kthread[h].uses /\ mm[n].state # "free"
  BY <1>1, NobodyHas
<1>7. ASSUME Quiet PROVE PrivateInv'
  <2> SUFFICES ASSUME NEW v \in Tasks, Forking(v)' PROVE Private(v)'
    BY DEF PrivateInv
  <2>1. Forking(v) /\ call'[v].mm = call[v].mm
    BY <1>2, <1>4, <1>7 DEF Quiet, Rest, Structs, Forking, ForkPoints
  <2>2. Private(v)
    BY <1>3, <2>1
  <2>3. call[v].mm \in Mms
    BY <1>1, <2>1, HasMm
  <2> QED  BY <1>2, <1>3, <1>4, <1>5, <2>1, <2>2, <2>3, <1>7 DEF Quiet, Rest, Structs, Private,
              Forking, ForkPoints, At
<1>8. ASSUME NEW t \in Tasks, NEW m, NEW x, NEW y, AllocDone(t, m, x, y) PROVE PrivateInv'
  <2> SUFFICES ASSUME NEW v \in Tasks, Forking(v)' PROVE Private(v)'
    BY DEF PrivateInv
  <2>1. /\ m \in Mms /\ mm[m].state = "free" /\ UNCHANGED <<task, reader, kthread>>
        /\ call'[t].mm = m /\ \A u \in Tasks : u # t => call'[u] = call[u]
    BY <1>2, <1>8 DEF AllocDone, MmIs, CallIs, Structs
  <2>2. /\ \A u \in Tasks : task[u].mm # m /\ call[u].mm # m
        /\ \A q \in Readers : reader[q].mm # m
        /\ \A h \in Kthreads : kthread[h].mm # m
    BY <1>6, <2>1
  <2>3. CASE v = t
    BY <2>1, <2>2, <2>3 DEF Private
  <2>4. CASE v # t
    <3>1. Private(v) /\ call'[v].mm = call[v].mm
      BY <1>3, <2>1, <2>4 DEF Forking
    <3> QED  BY <2>1, <2>2, <2>4, <3>1 DEF Private
  <2> QED  BY <2>3, <2>4
<1>9. ASSUME NEW t \in Tasks, NEW c, NEW z, FinishDone(t, c, z) PROVE PrivateInv'
  <2> SUFFICES ASSUME NEW v \in Tasks, Forking(v)' PROVE Private(v)'
    BY DEF PrivateInv
  <2>1. Forking(v) /\ call'[v].mm = call[v].mm
    BY <1>2, <1>4, <1>9 DEF FinishDone, TaskIs, CallIs, Structs, Forking, ForkPoints
  <2>2. Private(v)
    BY <1>3, <2>1
  <2>3. call[v].mm \in Mms
    BY <1>1, <2>1, HasMm
  <2> QED  BY <1>2, <1>3, <1>4, <1>5, <2>1, <2>2, <2>3, <1>9 DEF FinishDone, TaskIs, CallIs,
              Structs, Private, Forking, ForkPoints, At
<1>10. ASSUME NEW t \in Tasks, NEW x, FreePtDone(t, x) PROVE PrivateInv'
  <2> SUFFICES ASSUME NEW v \in Tasks, Forking(v)' PROVE Private(v)'
    BY DEF PrivateInv
  <2>1. Forking(v) /\ call'[v].mm = call[v].mm
    BY <1>2, <1>4, <1>10 DEF FreePtDone, Rest, MmIs, CallIs, Structs, Forking, ForkPoints
  <2>2. Private(v)
    BY <1>3, <2>1
  <2>3. call[v].mm \in Mms
    BY <1>1, <2>1, HasMm
  <2> QED  BY <1>2, <1>3, <1>4, <1>5, <2>1, <2>2, <2>3, <1>10 DEF FreePtDone, Rest, MmIs, CallIs,
              Structs, Private, Forking, ForkPoints, At
<1>11. ASSUME NEW t \in Tasks, NEW x, NEW z, ExitDone(t, x, z) PROVE PrivateInv'
  <2> SUFFICES ASSUME NEW v \in Tasks, Forking(v)' PROVE Private(v)'
    BY DEF PrivateInv
  <2>1. Forking(v) /\ call'[v].mm = call[v].mm
    BY <1>2, <1>4, <1>11 DEF ExitDone, PutDone, MmIs, TaskIs, Structs, Forking, ForkPoints
  <2>2. Private(v)
    BY <1>3, <2>1
  <2>3. call[v].mm \in Mms
    BY <1>1, <2>1, HasMm
  <2> QED  BY <1>2, <1>3, <1>4, <1>5, <2>1, <2>2, <2>3, <1>11 DEF ExitDone, PutDone, MmIs, TaskIs,
              Structs, Private, Forking, ForkPoints, At
<1>12. ASSUME NEW t \in Tasks, NEW m, NEW f, NEW x, NEW y, ExecDone(t, m, f, x, y) PROVE PrivateInv'
  <2> SUFFICES ASSUME NEW v \in Tasks, Forking(v)' PROVE Private(v)'
    BY DEF PrivateInv
  <2>1. UNCHANGED <<task, reader, kthread>> /\ m \in Mms /\ mm[m].state = "free"
    BY <1>12 DEF ExecDone, MmIs
  <2>2. v # t /\ Forking(v) /\ \A u \in Tasks : u # t => call'[u] = call[u]
    BY <1>2, <1>12 DEF ExecDone, CallIs, Structs, Forking, ForkPoints
  <2>3. call'[t].mm = m
    BY <1>2, <1>12 DEF ExecDone, CallIs, Structs
  <2>4. Private(v) /\ call[v].mm # m
    BY <1>3, <1>6, <2>1, <2>2
  <2> QED  BY <2>1, <2>2, <2>3, <2>4 DEF Private
<1>13. ASSUME NEW t \in Tasks, NEW x, ExecFailsDone(t, x) PROVE PrivateInv'
  <2> SUFFICES ASSUME NEW v \in Tasks, Forking(v)' PROVE Private(v)'
    BY DEF PrivateInv
  <2>1. Forking(v) /\ call'[v].mm = call[v].mm
    BY <1>2, <1>4, <1>13 DEF ExecFailsDone, PutDone, MmIs, CallIs, Structs, Forking, ForkPoints
  <2>2. Private(v)
    BY <1>3, <2>1
  <2>3. call[v].mm \in Mms
    BY <1>1, <2>1, HasMm
  <2> QED  BY <1>2, <1>3, <1>4, <1>5, <2>1, <2>2, <2>3, <1>13 DEF ExecFailsDone, PutDone, MmIs,
              CallIs, Structs, Private, Forking, ForkPoints, At
<1>14. ASSUME NEW t \in Tasks, NEW x, NEW y, NEW z, ExecMmapDone(t, x, y, z) PROVE PrivateInv'
  <2> SUFFICES ASSUME NEW v \in Tasks, Forking(v)' PROVE Private(v)'
    BY DEF PrivateInv
  <2>1. Forking(v) /\ call'[v].mm = call[v].mm
    BY <1>2, <1>4, <1>14 DEF ExecMmapDone, PutDone, MmIs, CallIs, TaskIs, Structs, Forking,
       ForkPoints
  <2>2. Private(v)
    BY <1>3, <2>1
  <2>3. call[v].mm \in Mms
    BY <1>1, <2>1, HasMm
  <2> QED  BY <1>2, <1>3, <1>4, <1>5, <2>1, <2>2, <2>3, <1>14 DEF ExecMmapDone, PutDone, MmIs,
              CallIs, TaskIs, Structs, Private, Forking, ForkPoints, At
<1>15. ASSUME NEW t \in Tasks, NEW z, ExecCredsDone(t, z) PROVE PrivateInv'
  <2> SUFFICES ASSUME NEW v \in Tasks, Forking(v)' PROVE Private(v)'
    BY DEF PrivateInv
  <2>1. Forking(v) /\ call'[v].mm = call[v].mm
    BY <1>2, <1>4, <1>15 DEF ExecCredsDone, TaskIs, CallIs, Structs, Forking, ForkPoints
  <2>2. Private(v)
    BY <1>3, <2>1
  <2>3. call[v].mm \in Mms
    BY <1>1, <2>1, HasMm
  <2> QED  BY <1>2, <1>3, <1>4, <1>5, <2>1, <2>2, <2>3, <1>15 DEF ExecCredsDone, TaskIs, CallIs,
              Structs, Private, Forking, ForkPoints, At
<1>16. ASSUME NEW r \in Readers, NEW t, NEW access, NEW y, LookDone(r, t, access, y) PROVE PrivateInv'
  <2> SUFFICES ASSUME NEW v \in Tasks, Forking(v)' PROVE Private(v)'
    BY DEF PrivateInv
  <2>1. Forking(v) /\ call'[v].mm = call[v].mm
    BY <1>2, <1>4, <1>16 DEF LookDone, ReaderIs, Structs, Forking, ForkPoints
  <2>2. Private(v)
    BY <1>3, <2>1
  <2>3. call[v].mm \in Mms
    BY <1>1, <2>1, HasMm
  <2> QED  BY <1>2, <1>3, <1>4, <1>5, <2>1, <2>2, <2>3, <1>16 DEF LookDone, ReaderIs, Structs,
              Private, Forking, ForkPoints, At
<1>17. ASSUME NEW r \in Readers, NEW y, ReadDone(r, y) PROVE PrivateInv'
  <2> SUFFICES ASSUME NEW v \in Tasks, Forking(v)' PROVE Private(v)'
    BY DEF PrivateInv
  <2>1. Forking(v) /\ call'[v].mm = call[v].mm
    BY <1>2, <1>4, <1>17 DEF ReadDone, ReaderIs, Structs, Forking, ForkPoints
  <2>2. Private(v)
    BY <1>3, <2>1
  <2>3. call[v].mm \in Mms
    BY <1>1, <2>1, HasMm
  <2> QED  BY <1>2, <1>3, <1>4, <1>5, <2>1, <2>2, <2>3, <1>17 DEF ReadDone, ReaderIs, Structs,
              Private, Forking, ForkPoints, At
<1>18. ASSUME NEW r \in Readers, NoneDone(r) PROVE PrivateInv'
  <2> SUFFICES ASSUME NEW v \in Tasks, Forking(v)' PROVE Private(v)'
    BY DEF PrivateInv
  <2>1. Forking(v) /\ call'[v].mm = call[v].mm
    BY <1>2, <1>4, <1>18 DEF NoneDone, ReaderIs, Structs, Forking, ForkPoints
  <2>2. Private(v)
    BY <1>3, <2>1
  <2>3. call[v].mm \in Mms
    BY <1>1, <2>1, HasMm
  <2> QED  BY <1>2, <1>3, <1>4, <1>5, <2>1, <2>2, <2>3, <1>18 DEF NoneDone, ReaderIs, Structs,
              Private, Forking, ForkPoints, At
<1>19. ASSUME NEW r \in Readers, NEW x, NEW y, SomeDone(r, x, y) PROVE PrivateInv'
  <2> SUFFICES ASSUME NEW v \in Tasks, Forking(v)' PROVE Private(v)'
    BY DEF PrivateInv
  <2>1. Forking(v) /\ call'[v].mm = call[v].mm
    BY <1>2, <1>4, <1>19 DEF SomeDone, GetDone, MmIs, ReaderIs, Structs, Forking, ForkPoints
  <2>2. Private(v)
    BY <1>3, <2>1
  <2>3. call[v].mm \in Mms
    BY <1>1, <2>1, HasMm
  <2> QED  BY <1>2, <1>3, <1>4, <1>5, <2>1, <2>2, <2>3, <1>19 DEF SomeDone, GetDone, MmIs,
              ReaderIs, Structs, Private, Forking, ForkPoints, At
<1>20. ASSUME NEW r \in Readers, NEW y, AllowDone(r, y) PROVE PrivateInv'
  <2> SUFFICES ASSUME NEW v \in Tasks, Forking(v)' PROVE Private(v)'
    BY DEF PrivateInv
  <2>1. Forking(v) /\ call'[v].mm = call[v].mm
    BY <1>2, <1>4, <1>20 DEF AllowDone, ReaderIs, Structs, Forking, ForkPoints
  <2>2. Private(v)
    BY <1>3, <2>1
  <2>3. call[v].mm \in Mms
    BY <1>1, <2>1, HasMm
  <2> QED  BY <1>2, <1>3, <1>4, <1>5, <2>1, <2>2, <2>3, <1>20 DEF AllowDone, ReaderIs, Structs,
              Private, Forking, ForkPoints, At
<1>21. ASSUME NEW r \in Readers, NEW x, DenyDone(r, x) PROVE PrivateInv'
  <2> SUFFICES ASSUME NEW v \in Tasks, Forking(v)' PROVE Private(v)'
    BY DEF PrivateInv
  <2>1. Forking(v) /\ call'[v].mm = call[v].mm
    BY <1>2, <1>4, <1>21 DEF DenyDone, PutDone, MmIs, ReaderIs, Structs, Forking, ForkPoints
  <2>2. Private(v)
    BY <1>3, <2>1
  <2>3. call[v].mm \in Mms
    BY <1>1, <2>1, HasMm
  <2> QED  BY <1>2, <1>3, <1>4, <1>5, <2>1, <2>2, <2>3, <1>21 DEF DenyDone, PutDone, MmIs,
              ReaderIs, Structs, Private, Forking, ForkPoints, At
<1>22. ASSUME NEW r \in Readers, NEW x, PutMmDone(r, x) PROVE PrivateInv'
  <2> SUFFICES ASSUME NEW v \in Tasks, Forking(v)' PROVE Private(v)'
    BY DEF PrivateInv
  <2>1. Forking(v) /\ call'[v].mm = call[v].mm
    BY <1>2, <1>4, <1>22 DEF PutMmDone, PutDone, MmIs, ReaderIs, Structs, Forking, ForkPoints
  <2>2. Private(v)
    BY <1>3, <2>1
  <2>3. call[v].mm \in Mms
    BY <1>1, <2>1, HasMm
  <2> QED  BY <1>2, <1>3, <1>4, <1>5, <2>1, <2>2, <2>3, <1>22 DEF PutMmDone, PutDone, MmIs,
              ReaderIs, Structs, Private, Forking, ForkPoints, At
<1>23. ASSUME NEW r \in Readers, NEW f, NEW y, ExeDone(r, f, y) PROVE PrivateInv'
  <2> SUFFICES ASSUME NEW v \in Tasks, Forking(v)' PROVE Private(v)'
    BY DEF PrivateInv
  <2>1. Forking(v) /\ call'[v].mm = call[v].mm
    BY <1>2, <1>4, <1>23 DEF ExeDone, ReaderIs, Structs, Forking, ForkPoints
  <2>2. Private(v)
    BY <1>3, <2>1
  <2>3. call[v].mm \in Mms
    BY <1>1, <2>1, HasMm
  <2> QED  BY <1>2, <1>3, <1>4, <1>5, <2>1, <2>2, <2>3, <1>23 DEF ExeDone, ReaderIs, Structs,
              Private, Forking, ForkPoints, At
<1>24. ASSUME NEW r \in Readers, PutFileDone(r) PROVE PrivateInv'
  <2> SUFFICES ASSUME NEW v \in Tasks, Forking(v)' PROVE Private(v)'
    BY DEF PrivateInv
  <2>1. Forking(v) /\ call'[v].mm = call[v].mm
    BY <1>2, <1>4, <1>24 DEF PutFileDone, ReaderIs, Structs, Forking, ForkPoints
  <2>2. Private(v)
    BY <1>3, <2>1
  <2>3. call[v].mm \in Mms
    BY <1>1, <2>1, HasMm
  <2> QED  BY <1>2, <1>3, <1>4, <1>5, <2>1, <2>2, <2>3, <1>24 DEF PutFileDone, ReaderIs, Structs,
              Private, Forking, ForkPoints, At
<1>25. ASSUME NEW k \in Kthreads, NEW m, NEW x, NEW y, BorrowDone(k, m, x, y) PROVE PrivateInv'
  <2> SUFFICES ASSUME NEW v \in Tasks, Forking(v)' PROVE Private(v)'
    BY DEF PrivateInv
  <2>1. Forking(v) /\ call'[v].mm = call[v].mm
    BY <1>2, <1>4, <1>25 DEF BorrowDone, MmIs, KthreadIs, Structs, Forking, ForkPoints
  <2>2. Private(v)
    BY <1>3, <2>1
  <2>3. call[v].mm \in Mms
    BY <1>1, <2>1, HasMm
  <2> QED  BY <1>2, <1>3, <1>4, <1>5, <2>1, <2>2, <2>3, <1>25 DEF BorrowDone, MmIs, KthreadIs,
              Structs, Private, Forking, ForkPoints, At
<1>26. ASSUME NEW k \in Kthreads, NEW x, NEW y, UseDone(k, x, y) PROVE PrivateInv'
  <2> SUFFICES ASSUME NEW v \in Tasks, Forking(v)' PROVE Private(v)'
    BY DEF PrivateInv
  <2>1. Forking(v) /\ call'[v].mm = call[v].mm
    BY <1>2, <1>4, <1>26 DEF UseDone, GetDone, MmIs, KthreadIs, Structs, Forking, ForkPoints
  <2>2. Private(v)
    BY <1>3, <2>1
  <2>3. call[v].mm \in Mms
    BY <1>1, <2>1, HasMm
  <2> QED  BY <1>2, <1>3, <1>4, <1>5, <2>1, <2>2, <2>3, <1>26 DEF UseDone, GetDone, MmIs,
              KthreadIs, Structs, Private, Forking, ForkPoints, At
<1>27. ASSUME NEW k \in Kthreads, NEW x, NEW y, AsyncDone(k, x, y) PROVE PrivateInv'
  <2> SUFFICES ASSUME NEW v \in Tasks, Forking(v)' PROVE Private(v)'
    BY DEF PrivateInv
  <2>1. Forking(v) /\ call'[v].mm = call[v].mm
    BY <1>2, <1>4, <1>27 DEF AsyncDone, PutDone, MmIs, KthreadIs, Structs, Forking, ForkPoints
  <2>2. Private(v)
    BY <1>3, <2>1
  <2>3. call[v].mm \in Mms
    BY <1>1, <2>1, HasMm
  <2> QED  BY <1>2, <1>3, <1>4, <1>5, <2>1, <2>2, <2>3, <1>27 DEF AsyncDone, PutDone, MmIs,
              KthreadIs, Structs, Private, Forking, ForkPoints, At
<1>28. ASSUME NEW k \in Kthreads, NEW x, NEW y, DropDone(k, x, y) PROVE PrivateInv'
  <2> SUFFICES ASSUME NEW v \in Tasks, Forking(v)' PROVE Private(v)'
    BY DEF PrivateInv
  <2>1. Forking(v) /\ call'[v].mm = call[v].mm
    BY <1>2, <1>4, <1>28 DEF DropDone, MmIs, KthreadIs, Structs, Forking, ForkPoints
  <2>2. Private(v)
    BY <1>3, <2>1
  <2>3. call[v].mm \in Mms
    BY <1>1, <2>1, HasMm
  <2> QED  BY <1>2, <1>3, <1>4, <1>5, <2>1, <2>2, <2>3, <1>28 DEF DropDone, MmIs, KthreadIs,
              Structs, Private, Forking, ForkPoints, At
<1>29. ASSUME NEW m, NEW x, FinalDone(m, x) PROVE PrivateInv'
  <2> SUFFICES ASSUME NEW v \in Tasks, Forking(v)' PROVE Private(v)'
    BY DEF PrivateInv
  <2>1. Forking(v) /\ call'[v].mm = call[v].mm
    BY <1>2, <1>4, <1>29 DEF FinalDone, Rest, MmIs, Structs, Forking, ForkPoints
  <2>2. Private(v)
    BY <1>3, <2>1
  <2>3. call[v].mm \in Mms
    BY <1>1, <2>1, HasMm
  <2> QED  BY <1>2, <1>3, <1>4, <1>5, <2>1, <2>2, <2>3, <1>29 DEF FinalDone, Rest, MmIs, Structs,
              Private, Forking, ForkPoints, At
<1>30. ASSUME NEW t \in Tasks, TaskSteps(t) PROVE PrivateInv'
  <2>1. AreasSteps(t) => PrivateInv'
    BY <1>1, <1>7, QuietStep
  <2> QED  BY <1>30, <2>1, <1>8, <1>9, <1>10, <1>11, <1>12, <1>13, <1>14, <1>15 DEF TaskSteps
<1>31. ASSUME NEW r \in Readers, ReaderSteps(r) PROVE PrivateInv'
  BY <1>31, <1>16, <1>17, <1>18, <1>19, <1>20, <1>21, <1>22, <1>23, <1>24 DEF ReaderSteps
<1>32. ASSUME NEW k \in Kthreads, KthreadSteps(k) PROVE PrivateInv'
  BY <1>32, <1>25, <1>26, <1>27, <1>28 DEF KthreadSteps
<1> QED  BY <1>29, <1>30, <1>31, <1>32 DEF Steps

LEMMA LockStep ==
  ASSUME Basic, UsersInv, Steps
  PROVE  LockInv'
<1>1. Typed /\ Shape /\ LockInv
  BY DEF Basic
<1>2. Structs /\ None \notin Readers
  BY <1>1, TypedParts, SetsAssumption
<1>3. \A q \in Readers : Reads(q, "locked") =>
        reader[q].task \in Tasks /\ task[reader[q].task].state # "unborn"
  BY <1>1 DEF Shape, ReaderShape
<1>4. /\ NoCall.at = "user" /\ NoCall.mm = None /\ NoCall.charge = 0
      /\ Idle.at = "idle" /\ Idle.mm = None /\ Idle.file = None /\ Idle.access = FALSE
  BY FreeType
<1>5. ASSUME Quiet PROVE LockInv'
  BY <1>1, <1>2, <1>3, <1>4, <1>5 DEF Quiet, Rest, Structs, LockInv, Reads
<1>6. ASSUME NEW t \in Tasks, NEW m, NEW x, NEW y, AllocDone(t, m, x, y) PROVE LockInv'
  BY <1>1, <1>2, <1>3, <1>4, <1>6 DEF AllocDone, MmIs, CallIs, Structs, LockInv, Reads
<1>7. ASSUME NEW t \in Tasks, NEW c, NEW z, FinishDone(t, c, z) PROVE LockInv'
  BY <1>1, <1>2, <1>3, <1>4, <1>7 DEF FinishDone, TaskIs, CallIs, Structs, LockInv, Reads
<1>8. ASSUME NEW t \in Tasks, NEW x, FreePtDone(t, x) PROVE LockInv'
  BY <1>1, <1>2, <1>3, <1>4, <1>8 DEF FreePtDone, Rest, MmIs, CallIs, Structs, LockInv, Reads
<1>9. ASSUME NEW t \in Tasks, NEW x, NEW z, ExitDone(t, x, z) PROVE LockInv'
  BY <1>1, <1>2, <1>3, <1>4, <1>9 DEF ExitDone, PutDone, MmIs, TaskIs, Structs, LockInv, Reads
<1>10. ASSUME NEW t \in Tasks, NEW m, NEW f, NEW x, NEW y, ExecDone(t, m, f, x, y) PROVE LockInv'
  BY <1>1, <1>2, <1>3, <1>4, <1>10 DEF ExecDone, MmIs, CallIs, Structs, LockInv, Reads
<1>11. ASSUME NEW t \in Tasks, NEW x, ExecFailsDone(t, x) PROVE LockInv'
  BY <1>1, <1>2, <1>3, <1>4, <1>11 DEF ExecFailsDone, PutDone, MmIs, CallIs, Structs, LockInv, Reads
<1>12. ASSUME NEW t \in Tasks, NEW x, NEW y, NEW z, ExecMmapDone(t, x, y, z) PROVE LockInv'
  BY <1>1, <1>2, <1>3, <1>4, <1>12 DEF ExecMmapDone, PutDone, MmIs, CallIs, TaskIs, Structs,
     LockInv, Reads
<1>13. ASSUME NEW t \in Tasks, NEW z, ExecCredsDone(t, z) PROVE LockInv'
  BY <1>1, <1>2, <1>3, <1>4, <1>13 DEF ExecCredsDone, TaskIs, CallIs, Structs, LockInv, Reads
<1>14. ASSUME NEW r \in Readers, NEW t, NEW access, NEW y, LookDone(r, t, access, y) PROVE LockInv'
  BY <1>1, <1>2, <1>3, <1>4, <1>14 DEF LookDone, ReaderIs, Structs, LockInv, Reads
<1>15. ASSUME NEW r \in Readers, NEW y, ReadDone(r, y) PROVE LockInv'
  <2> DEFINE v == reader[r].task
  <2>1. v \in Tasks /\ task_lock[v] = None /\ task_lock' = [task_lock EXCEPT ![v] = r]
        /\ UNCHANGED task
    BY <1>15 DEF ReadDone
  <2>2. /\ reader' = [reader EXCEPT ![r] = y] /\ r \in DOMAIN reader
        /\ y.task = v /\ y.mm = task[v].mm
    BY <1>2, <1>15 DEF ReadDone, ReaderIs, Structs
  <2> HIDE DEF v
  <2>3. ASSUME NEW q \in Readers, Reads(q, "locked")'
        PROVE  task_lock'[reader'[q].task] = q /\ reader'[q].mm = task'[reader'[q].task].mm
    <3>1. CASE q = r
      BY <1>2, <2>1, <2>2, <3>1 DEF Structs, LockType
    <3>2. CASE q # r
      <4>1. reader'[q] = reader[q]
        BY <1>2, <2>2, <3>2 DEF Structs
      <4>2. Reads(q, "locked")
        BY <2>3, <4>1 DEF Reads
      <4>3. task_lock[reader[q].task] = q /\ reader[q].mm = task[reader[q].task].mm
            /\ reader[q].task \in Tasks
        BY <1>1, <1>3, <4>2 DEF LockInv
      <4>4. reader[q].task # v
        BY <1>2, <2>1, <4>3
      <4> QED  BY <1>2, <2>1, <4>1, <4>3, <4>4 DEF Structs, LockType
    <3> QED  BY <3>1, <3>2
  <2> QED  BY <2>3 DEF LockInv
<1>16. ASSUME NEW r \in Readers, NoneDone(r) PROVE LockInv'
  BY <1>1, <1>2, <1>3, <1>4, <1>16 DEF NoneDone, ReaderIs, Structs, LockInv, Reads
<1>17. ASSUME NEW r \in Readers, NEW x, NEW y, SomeDone(r, x, y) PROVE LockInv'
  BY <1>1, <1>2, <1>3, <1>4, <1>17 DEF SomeDone, GetDone, MmIs, ReaderIs, Structs, LockInv, Reads
<1>18. ASSUME NEW r \in Readers, NEW y, AllowDone(r, y) PROVE LockInv'
  BY <1>1, <1>2, <1>3, <1>4, <1>18 DEF AllowDone, ReaderIs, Structs, LockInv, Reads
<1>19. ASSUME NEW r \in Readers, NEW x, DenyDone(r, x) PROVE LockInv'
  BY <1>1, <1>2, <1>3, <1>4, <1>19 DEF DenyDone, PutDone, MmIs, ReaderIs, Structs, LockInv, Reads
<1>20. ASSUME NEW r \in Readers, NEW x, PutMmDone(r, x) PROVE LockInv'
  BY <1>1, <1>2, <1>3, <1>4, <1>20 DEF PutMmDone, PutDone, MmIs, ReaderIs, Structs, LockInv, Reads
<1>21. ASSUME NEW r \in Readers, NEW f, NEW y, ExeDone(r, f, y) PROVE LockInv'
  BY <1>1, <1>2, <1>3, <1>4, <1>21 DEF ExeDone, ReaderIs, Structs, LockInv, Reads
<1>22. ASSUME NEW r \in Readers, PutFileDone(r) PROVE LockInv'
  BY <1>1, <1>2, <1>3, <1>4, <1>22 DEF PutFileDone, ReaderIs, Structs, LockInv, Reads
<1>23. ASSUME NEW k \in Kthreads, NEW m, NEW x, NEW y, BorrowDone(k, m, x, y) PROVE LockInv'
  BY <1>1, <1>2, <1>3, <1>4, <1>23 DEF BorrowDone, MmIs, KthreadIs, Structs, LockInv, Reads
<1>24. ASSUME NEW k \in Kthreads, NEW x, NEW y, UseDone(k, x, y) PROVE LockInv'
  BY <1>1, <1>2, <1>3, <1>4, <1>24 DEF UseDone, GetDone, MmIs, KthreadIs, Structs, LockInv, Reads
<1>25. ASSUME NEW k \in Kthreads, NEW x, NEW y, AsyncDone(k, x, y) PROVE LockInv'
  BY <1>1, <1>2, <1>3, <1>4, <1>25 DEF AsyncDone, PutDone, MmIs, KthreadIs, Structs, LockInv, Reads
<1>26. ASSUME NEW k \in Kthreads, NEW x, NEW y, DropDone(k, x, y) PROVE LockInv'
  BY <1>1, <1>2, <1>3, <1>4, <1>26 DEF DropDone, MmIs, KthreadIs, Structs, LockInv, Reads
<1>27. ASSUME NEW m, NEW x, FinalDone(m, x) PROVE LockInv'
  BY <1>1, <1>2, <1>3, <1>4, <1>27 DEF FinalDone, Rest, MmIs, Structs, LockInv, Reads
<1>28. ASSUME NEW t \in Tasks, TaskSteps(t) PROVE LockInv'
  <2>1. AreasSteps(t) => LockInv'
    BY <1>1, <1>5, QuietStep
  <2> QED  BY <1>28, <2>1, <1>6, <1>7, <1>8, <1>9, <1>10, <1>11, <1>12, <1>13 DEF TaskSteps
<1>29. ASSUME NEW r \in Readers, ReaderSteps(r) PROVE LockInv'
  BY <1>29, <1>14, <1>15, <1>16, <1>17, <1>18, <1>19, <1>20, <1>21, <1>22 DEF ReaderSteps
<1>30. ASSUME NEW k \in Kthreads, KthreadSteps(k) PROVE LockInv'
  BY <1>30, <1>23, <1>24, <1>25, <1>26 DEF KthreadSteps
<1> QED  BY <1>27, <1>28, <1>29, <1>30 DEF Steps


LEMMA GuardStep ==
  ASSUME Basic, UsersInv, Steps
  PROVE  GuardInv'
<1>1. Typed /\ Shape
  BY DEF Basic
<1>2. Structs /\ None \notin Readers /\ None \notin Tasks
  BY <1>1, TypedParts, SetsAssumption
<1>3. \A q \in Readers : Holds(q) => reader[q].task \in Tasks
  BY <1>1 DEF Shape, ReaderShape, Holds
<1>4. GuardInv
  BY DEF Basic
<1>5. /\ NoCall.at = "user" /\ NoCall.mm = None /\ NoCall.charge = 0
      /\ Idle.at = "idle" /\ Idle.mm = None /\ Idle.file = None /\ Idle.access = FALSE
  BY FreeType
<1>6. ASSUME Quiet PROVE GuardInv'
  BY <1>1, <1>2, <1>3, <1>4, <1>5, <1>6 DEF Quiet, Rest, Structs, GuardInv, Holds, Execing, Reads,
     At, ForkPoints, Forking
<1>7. ASSUME NEW t \in Tasks, NEW m, NEW x, NEW y, AllocDone(t, m, x, y) PROVE GuardInv'
  BY <1>1, <1>2, <1>3, <1>4, <1>5, <1>7 DEF AllocDone, MmIs, CallIs, Structs, GuardInv, Holds,
     Execing, Reads, At, ForkPoints, Forking
<1>8. ASSUME NEW t \in Tasks, NEW c, NEW z, FinishDone(t, c, z) PROVE GuardInv'
  BY <1>1, <1>2, <1>3, <1>4, <1>5, <1>8 DEF FinishDone, TaskIs, CallIs, Structs, GuardInv, Holds,
     Execing, Reads, At, ForkPoints, Forking
<1>9. ASSUME NEW t \in Tasks, NEW x, FreePtDone(t, x) PROVE GuardInv'
  BY <1>1, <1>2, <1>3, <1>4, <1>5, <1>9 DEF FreePtDone, Rest, MmIs, CallIs, Structs, GuardInv,
     Holds, Execing, Reads, At, ForkPoints, Forking
<1>10. ASSUME NEW t \in Tasks, NEW x, NEW z, ExitDone(t, x, z) PROVE GuardInv'
  BY <1>1, <1>2, <1>3, <1>4, <1>5, <1>10 DEF ExitDone, PutDone, MmIs, TaskIs, Structs, GuardInv,
     Holds, Execing, Reads, At, ForkPoints, Forking
<1>11. ASSUME NEW t \in Tasks, NEW m, NEW f, NEW x, NEW y, ExecDone(t, m, f, x, y) PROVE GuardInv'
  <2>1. /\ t # None /\ guard[t] = None /\ UNCHANGED reader
        /\ \A u \in Tasks : /\ guard'[u] = IF u = t THEN t ELSE guard[u]
                            /\ u # t => call'[u] = call[u]
    BY <1>2, <1>11 DEF ExecDone, CallIs, Structs, GuardType
  <2>2. \A u \in Tasks : Execing(u)' => guard'[u] = u
    BY <1>4, <2>1 DEF GuardInv, Execing
  <2>3. ASSUME NEW q \in Readers, Holds(q)'
        PROVE  guard'[reader'[q].task] = q /\ ~Execing(reader[q].task)'
    <3>1. Holds(q) /\ reader'[q] = reader[q]
      BY <2>1, <2>3 DEF Holds, Reads
    <3>2. /\ reader[q].task \in Tasks /\ guard[reader[q].task] = q /\ ~Execing(reader[q].task)
          /\ q # None
      BY <1>2, <1>3, <1>4, <3>1 DEF GuardInv
    <3>3. reader[q].task # t
      BY <2>1, <3>2
    <3> QED  BY <2>1, <3>1, <3>2, <3>3 DEF Execing
  <2> QED  BY <2>2, <2>3 DEF GuardInv
<1>12. ASSUME NEW t \in Tasks, NEW x, ExecFailsDone(t, x) PROVE GuardInv'
  BY <1>1, <1>2, <1>3, <1>4, <1>5, <1>12 DEF ExecFailsDone, PutDone, MmIs, CallIs, Structs,
     GuardInv, Holds, Execing, Reads, At, ForkPoints, Forking
<1>13. ASSUME NEW t \in Tasks, NEW x, NEW y, NEW z, ExecMmapDone(t, x, y, z) PROVE GuardInv'
  BY <1>1, <1>2, <1>3, <1>4, <1>5, <1>13 DEF ExecMmapDone, PutDone, MmIs, CallIs, TaskIs, Structs,
     GuardInv, Holds, Execing, Reads, At, ForkPoints, Forking
<1>14. ASSUME NEW t \in Tasks, NEW z, ExecCredsDone(t, z) PROVE GuardInv'
  BY <1>1, <1>2, <1>3, <1>4, <1>5, <1>14 DEF ExecCredsDone, TaskIs, CallIs, Structs, GuardInv,
     Holds, Execing, Reads, At, ForkPoints, Forking
<1>15. ASSUME NEW r \in Readers, NEW t, NEW access, NEW y, LookDone(r, t, access, y) PROVE GuardInv'
  <2>1. /\ t \in Tasks /\ UNCHANGED call /\ (access => guard[t] = None)
        /\ y.at = "lock" /\ y.task = t /\ y.access = access
        /\ \A u \in Tasks : guard'[u] = IF access /\ u = t THEN r ELSE guard[u]
        /\ \A q \in Readers : reader'[q] = IF q = r THEN y ELSE reader[q]
    BY <1>2, <1>15 DEF LookDone, ReaderIs, Structs, GuardType
  <2>2. \A u \in Tasks : Execing(u)' => guard'[u] = u
    <3>1. \A u \in Tasks : Execing(u)' <=> Execing(u)
      BY <2>1 DEF Execing
    <3>2. access => ~Execing(t)
      BY <1>2, <1>4, <2>1 DEF GuardInv
    <3> QED  BY <1>4, <2>1, <3>1, <3>2 DEF GuardInv
  <2>3. ASSUME NEW q \in Readers, Holds(q)'
        PROVE  guard'[reader'[q].task] = q /\ ~Execing(reader[q].task)'
    <3>1. CASE q = r
      <4>1. access
        BY <2>1, <2>3, <3>1 DEF Holds
      <4>2. guard[t] = None /\ ~Execing(t)
        BY <1>2, <1>4, <2>1, <4>1 DEF GuardInv
      <4> QED  BY <2>1, <3>1, <4>1, <4>2 DEF Execing
    <3>2. CASE q # r
      <4>1. Holds(q) /\ reader'[q] = reader[q]
        BY <2>1, <2>3, <3>2 DEF Holds, Reads
      <4>2. /\ reader[q].task \in Tasks /\ guard[reader[q].task] = q /\ ~Execing(reader[q].task)
            /\ q # None
        BY <1>2, <1>3, <1>4, <4>1 DEF GuardInv
      <4> QED  BY <2>1, <4>1, <4>2 DEF Execing
    <3> QED  BY <3>1, <3>2
  <2> QED  BY <2>2, <2>3 DEF GuardInv
<1>16. ASSUME NEW r \in Readers, NEW y, ReadDone(r, y) PROVE GuardInv'
  BY <1>1, <1>2, <1>3, <1>4, <1>5, <1>16 DEF ReadDone, ReaderIs, Structs, GuardInv, Holds,
     Execing, Reads, At, ForkPoints, Forking
<1>17. ASSUME NEW r \in Readers, NoneDone(r) PROVE GuardInv'
  BY <1>1, <1>2, <1>3, <1>4, <1>5, <1>17 DEF NoneDone, ReaderIs, Structs, GuardInv, Holds,
     Execing, Reads, At, ForkPoints, Forking
<1>18. ASSUME NEW r \in Readers, NEW x, NEW y, SomeDone(r, x, y) PROVE GuardInv'
  BY <1>1, <1>2, <1>3, <1>4, <1>5, <1>18 DEF SomeDone, GetDone, MmIs, ReaderIs, Structs, GuardInv,
     Holds, Execing, Reads, At, ForkPoints, Forking
<1>19. ASSUME NEW r \in Readers, NEW y, AllowDone(r, y) PROVE GuardInv'
  <2>1. /\ reader[r].task \in Tasks /\ UNCHANGED call /\ Reads(r, "check")
        /\ \A u \in Tasks : guard'[u] = IF u = reader[r].task THEN None ELSE guard[u]
        /\ \A q \in Readers : reader'[q] = IF q = r THEN y ELSE reader[q]
    BY <1>2, <1>19 DEF AllowDone, ReaderIs, Structs, GuardType
  <2>2. \A u \in Tasks : Execing(u)' => guard'[u] = u
    <3>1. \A u \in Tasks : Execing(u)' <=> Execing(u)
      BY <2>1 DEF Execing
    <3>2. ~Execing(reader[r].task) /\ guard[reader[r].task] = r
      <4>1. Holds(r)
        BY <1>1, <2>1 DEF Shape, ReaderShape, Holds
      <4> QED  BY <1>4, <4>1 DEF GuardInv
    <3> QED  BY <1>4, <2>1, <3>1, <3>2 DEF GuardInv
  <2>3. ASSUME NEW q \in Readers, Holds(q)'
        PROVE  guard'[reader'[q].task] = q /\ ~Execing(reader[q].task)'
    <3>1. Holds(r)
      BY <1>1, <2>1 DEF Shape, ReaderShape, Holds
    <3>2. guard[reader[r].task] = r
      BY <1>4, <3>1 DEF GuardInv
    <3>3. q # r
      BY <1>5, <1>19, <2>1, <2>3 DEF Holds, Reads, AllowDone
    <3>4. Holds(q) /\ reader'[q] = reader[q]
      BY <2>1, <2>3, <3>3 DEF Holds, Reads
    <3>5. reader[q].task \in Tasks /\ guard[reader[q].task] = q /\ ~Execing(reader[q].task)
      BY <1>3, <1>4, <3>4 DEF GuardInv
    <3> QED  BY <2>1, <3>2, <3>3, <3>4, <3>5 DEF Execing
  <2> QED  BY <2>2, <2>3 DEF GuardInv
<1>20. ASSUME NEW r \in Readers, NEW x, DenyDone(r, x) PROVE GuardInv'
  <2>1. /\ reader[r].task \in Tasks /\ UNCHANGED call /\ Reads(r, "check")
        /\ \A u \in Tasks : guard'[u] = IF u = reader[r].task THEN None ELSE guard[u]
        /\ \A q \in Readers : reader'[q] = IF q = r THEN Idle ELSE reader[q]
    BY <1>2, <1>20 DEF DenyDone, PutDone, MmIs, ReaderIs, Structs, GuardType
  <2>2. \A u \in Tasks : Execing(u)' => guard'[u] = u
    <3>1. \A u \in Tasks : Execing(u)' <=> Execing(u)
      BY <2>1 DEF Execing
    <3>2. ~Execing(reader[r].task) /\ guard[reader[r].task] = r
      <4>1. Holds(r)
        BY <1>1, <2>1 DEF Shape, ReaderShape, Holds
      <4> QED  BY <1>4, <4>1 DEF GuardInv
    <3> QED  BY <1>4, <2>1, <3>1, <3>2 DEF GuardInv
  <2>3. ASSUME NEW q \in Readers, Holds(q)'
        PROVE  guard'[reader'[q].task] = q /\ ~Execing(reader[q].task)'
    <3>1. Holds(r)
      BY <1>1, <2>1 DEF Shape, ReaderShape, Holds
    <3>2. guard[reader[r].task] = r
      BY <1>4, <3>1 DEF GuardInv
    <3>3. q # r
      BY <1>5, <1>20, <2>1, <2>3 DEF Holds, Reads, AllowDone
    <3>4. Holds(q) /\ reader'[q] = reader[q]
      BY <2>1, <2>3, <3>3 DEF Holds, Reads
    <3>5. reader[q].task \in Tasks /\ guard[reader[q].task] = q /\ ~Execing(reader[q].task)
      BY <1>3, <1>4, <3>4 DEF GuardInv
    <3> QED  BY <2>1, <3>2, <3>3, <3>4, <3>5 DEF Execing
  <2> QED  BY <2>2, <2>3 DEF GuardInv
<1>21. ASSUME NEW r \in Readers, NEW x, PutMmDone(r, x) PROVE GuardInv'
  BY <1>1, <1>2, <1>3, <1>4, <1>5, <1>21 DEF PutMmDone, PutDone, MmIs, ReaderIs, Structs,
     GuardInv, Holds, Execing, Reads, At, ForkPoints, Forking
<1>22. ASSUME NEW r \in Readers, NEW f, NEW y, ExeDone(r, f, y) PROVE GuardInv'
  BY <1>1, <1>2, <1>3, <1>4, <1>5, <1>22 DEF ExeDone, ReaderIs, Structs, GuardInv, Holds, Execing,
     Reads, At, ForkPoints, Forking
<1>23. ASSUME NEW r \in Readers, PutFileDone(r) PROVE GuardInv'
  BY <1>1, <1>2, <1>3, <1>4, <1>5, <1>23 DEF PutFileDone, ReaderIs, Structs, GuardInv, Holds,
     Execing, Reads, At, ForkPoints, Forking
<1>24. ASSUME NEW k \in Kthreads, NEW m, NEW x, NEW y, BorrowDone(k, m, x, y) PROVE GuardInv'
  BY <1>1, <1>2, <1>3, <1>4, <1>5, <1>24 DEF BorrowDone, MmIs, KthreadIs, Structs, GuardInv,
     Holds, Execing, Reads, At, ForkPoints, Forking
<1>25. ASSUME NEW k \in Kthreads, NEW x, NEW y, UseDone(k, x, y) PROVE GuardInv'
  BY <1>1, <1>2, <1>3, <1>4, <1>5, <1>25 DEF UseDone, GetDone, MmIs, KthreadIs, Structs, GuardInv,
     Holds, Execing, Reads, At, ForkPoints, Forking
<1>26. ASSUME NEW k \in Kthreads, NEW x, NEW y, AsyncDone(k, x, y) PROVE GuardInv'
  BY <1>1, <1>2, <1>3, <1>4, <1>5, <1>26 DEF AsyncDone, PutDone, MmIs, KthreadIs, Structs,
     GuardInv, Holds, Execing, Reads, At, ForkPoints, Forking
<1>27. ASSUME NEW k \in Kthreads, NEW x, NEW y, DropDone(k, x, y) PROVE GuardInv'
  BY <1>1, <1>2, <1>3, <1>4, <1>5, <1>27 DEF DropDone, MmIs, KthreadIs, Structs, GuardInv, Holds,
     Execing, Reads, At, ForkPoints, Forking
<1>28. ASSUME NEW m, NEW x, FinalDone(m, x) PROVE GuardInv'
  BY <1>1, <1>2, <1>3, <1>4, <1>5, <1>28 DEF FinalDone, Rest, MmIs, Structs, GuardInv, Holds,
     Execing, Reads, At, ForkPoints, Forking
<1>29. ASSUME NEW t \in Tasks, TaskSteps(t) PROVE GuardInv'
  <2>1. AreasSteps(t) => GuardInv'
    BY <1>1, <1>6, QuietStep
  <2> QED  BY <1>29, <2>1, <1>7, <1>8, <1>9, <1>10, <1>11, <1>12, <1>13, <1>14 DEF TaskSteps
<1>30. ASSUME NEW r \in Readers, ReaderSteps(r) PROVE GuardInv'
  BY <1>30, <1>15, <1>16, <1>17, <1>18, <1>19, <1>20, <1>21, <1>22, <1>23 DEF ReaderSteps
<1>31. ASSUME NEW k \in Kthreads, KthreadSteps(k) PROVE GuardInv'
  BY <1>31, <1>24, <1>25, <1>26, <1>27 DEF KthreadSteps
<1> QED  BY <1>28, <1>29, <1>30, <1>31 DEF Steps

-----------------------------------------------------------------------------
(* Whose memory it is.                                                     *)

ForStays == \A n \in Mms : mm[n].state = "live" => mm'[n].for = mm[n].for

LEMMA ForStep ==
  ASSUME Basic, UsersInv, Steps
  PROVE  ForStays
<1>1. Typed /\ Shape /\ LockInv
  BY DEF Basic
<1>2. Structs
  BY <1>1, TypedParts
<1>3. ASSUME Quiet PROVE ForStays
  BY <1>1, <1>2, <1>3 DEF Quiet, Rest, Structs, MmsType, ForStays, SameHold, Rests, SameLife,
     IsPresent
<1>4. ASSUME NEW t \in Tasks, NEW m, NEW x, NEW y, AllocDone(t, m, x, y) PROVE ForStays
  BY <1>1, <1>2, <1>4 DEF AllocDone, MmIs, CallIs, Structs, MmsType, ForStays, SameHold, Rests,
     SameLife, IsPresent
<1>5. ASSUME NEW t \in Tasks, NEW c, NEW z, FinishDone(t, c, z) PROVE ForStays
  BY <1>1, <1>2, <1>5 DEF FinishDone, TaskIs, CallIs, Structs, MmsType, ForStays, SameHold, Rests,
     SameLife, IsPresent
<1>6. ASSUME NEW t \in Tasks, NEW x, FreePtDone(t, x) PROVE ForStays
  BY <1>1, <1>2, <1>6 DEF FreePtDone, Rest, MmIs, CallIs, Structs, MmsType, ForStays, SameHold,
     Rests, SameLife, IsPresent
<1>7. ASSUME NEW t \in Tasks, NEW x, NEW z, ExitDone(t, x, z) PROVE ForStays
  BY <1>1, <1>2, <1>7 DEF ExitDone, PutDone, MmIs, TaskIs, Structs, MmsType, ForStays, SameHold,
     Rests, SameLife, IsPresent
<1>8. ASSUME NEW t \in Tasks, NEW m, NEW f, NEW x, NEW y, ExecDone(t, m, f, x, y) PROVE ForStays
  BY <1>1, <1>2, <1>8 DEF ExecDone, MmIs, CallIs, Structs, MmsType, ForStays, SameHold, Rests,
     SameLife, IsPresent
<1>9. ASSUME NEW t \in Tasks, NEW x, ExecFailsDone(t, x) PROVE ForStays
  BY <1>1, <1>2, <1>9 DEF ExecFailsDone, PutDone, MmIs, CallIs, Structs, MmsType, ForStays,
     SameHold, Rests, SameLife, IsPresent
<1>10. ASSUME NEW t \in Tasks, NEW x, NEW y, NEW z, ExecMmapDone(t, x, y, z) PROVE ForStays
  BY <1>1, <1>2, <1>10 DEF ExecMmapDone, PutDone, MmIs, CallIs, TaskIs, Structs, MmsType,
     ForStays, SameHold, Rests, SameLife, IsPresent
<1>11. ASSUME NEW t \in Tasks, NEW z, ExecCredsDone(t, z) PROVE ForStays
  BY <1>1, <1>2, <1>11 DEF ExecCredsDone, TaskIs, CallIs, Structs, MmsType, ForStays, SameHold,
     Rests, SameLife, IsPresent
<1>12. ASSUME NEW r \in Readers, NEW t, NEW access, NEW y, LookDone(r, t, access, y) PROVE ForStays
  BY <1>1, <1>2, <1>12 DEF LookDone, ReaderIs, Structs, MmsType, ForStays, SameHold, Rests,
     SameLife, IsPresent
<1>13. ASSUME NEW r \in Readers, NEW y, ReadDone(r, y) PROVE ForStays
  BY <1>1, <1>2, <1>13 DEF ReadDone, ReaderIs, Structs, MmsType, ForStays, SameHold, Rests,
     SameLife, IsPresent
<1>14. ASSUME NEW r \in Readers, NoneDone(r) PROVE ForStays
  BY <1>1, <1>2, <1>14 DEF NoneDone, ReaderIs, Structs, MmsType, ForStays, SameHold, Rests,
     SameLife, IsPresent
<1>15. ASSUME NEW r \in Readers, NEW x, NEW y, SomeDone(r, x, y) PROVE ForStays
  BY <1>1, <1>2, <1>15 DEF SomeDone, GetDone, MmIs, ReaderIs, Structs, MmsType, ForStays,
     SameHold, Rests, SameLife, IsPresent
<1>16. ASSUME NEW r \in Readers, NEW y, AllowDone(r, y) PROVE ForStays
  BY <1>1, <1>2, <1>16 DEF AllowDone, ReaderIs, Structs, MmsType, ForStays, SameHold, Rests,
     SameLife, IsPresent
<1>17. ASSUME NEW r \in Readers, NEW x, DenyDone(r, x) PROVE ForStays
  BY <1>1, <1>2, <1>17 DEF DenyDone, PutDone, MmIs, ReaderIs, Structs, MmsType, ForStays,
     SameHold, Rests, SameLife, IsPresent
<1>18. ASSUME NEW r \in Readers, NEW x, PutMmDone(r, x) PROVE ForStays
  BY <1>1, <1>2, <1>18 DEF PutMmDone, PutDone, MmIs, ReaderIs, Structs, MmsType, ForStays,
     SameHold, Rests, SameLife, IsPresent
<1>19. ASSUME NEW r \in Readers, NEW f, NEW y, ExeDone(r, f, y) PROVE ForStays
  BY <1>1, <1>2, <1>19 DEF ExeDone, ReaderIs, Structs, MmsType, ForStays, SameHold, Rests,
     SameLife, IsPresent
<1>20. ASSUME NEW r \in Readers, PutFileDone(r) PROVE ForStays
  BY <1>1, <1>2, <1>20 DEF PutFileDone, ReaderIs, Structs, MmsType, ForStays, SameHold, Rests,
     SameLife, IsPresent
<1>21. ASSUME NEW k \in Kthreads, NEW m, NEW x, NEW y, BorrowDone(k, m, x, y) PROVE ForStays
  BY <1>1, <1>2, <1>21 DEF BorrowDone, MmIs, KthreadIs, Structs, MmsType, ForStays, SameHold,
     Rests, SameLife, IsPresent
<1>22. ASSUME NEW k \in Kthreads, NEW x, NEW y, UseDone(k, x, y) PROVE ForStays
  BY <1>1, <1>2, <1>22 DEF UseDone, GetDone, MmIs, KthreadIs, Structs, MmsType, ForStays,
     SameHold, Rests, SameLife, IsPresent
<1>23. ASSUME NEW k \in Kthreads, NEW x, NEW y, AsyncDone(k, x, y) PROVE ForStays
  BY <1>1, <1>2, <1>23 DEF AsyncDone, PutDone, MmIs, KthreadIs, Structs, MmsType, ForStays,
     SameHold, Rests, SameLife, IsPresent
<1>24. ASSUME NEW k \in Kthreads, NEW x, NEW y, DropDone(k, x, y) PROVE ForStays
  BY <1>1, <1>2, <1>24 DEF DropDone, MmIs, KthreadIs, Structs, MmsType, ForStays, SameHold, Rests,
     SameLife, IsPresent
<1>25. ASSUME NEW m, NEW x, FinalDone(m, x) PROVE ForStays
  BY <1>1, <1>2, <1>25 DEF FinalDone, Rest, MmIs, Structs, MmsType, ForStays, SameHold, Rests,
     SameLife, IsPresent
<1>26. ASSUME NEW t \in Tasks, TaskSteps(t) PROVE ForStays
  <2>1. AreasSteps(t) => ForStays
    BY <1>1, <1>3, QuietStep
  <2> QED  BY <1>26, <2>1, <1>4, <1>5, <1>6, <1>7, <1>8, <1>9, <1>10, <1>11 DEF TaskSteps
<1>27. ASSUME NEW r \in Readers, ReaderSteps(r) PROVE ForStays
  BY <1>27, <1>12, <1>13, <1>14, <1>15, <1>16, <1>17, <1>18, <1>19, <1>20 DEF ReaderSteps
<1>28. ASSUME NEW k \in Kthreads, KthreadSteps(k) PROVE ForStays
  BY <1>28, <1>21, <1>22, <1>23, <1>24 DEF KthreadSteps
<1> QED  BY <1>25, <1>26, <1>27, <1>28 DEF Steps


CredSame(u) ==
  /\ task'[u] = task[u]
  /\ Forking(u)' => Forking(u) /\ call'[u].mm = call[u].mm
  /\ At(u, "exec_creds") => call'[u].at = "exec_creds"

LEMMA CredFrame ==
  ASSUME Basic, UsersInv, CredInv, ForStays, \A u \in Tasks : CredSame(u) \/ CredOf(u)'
  PROVE  CredInv'
<1>1. Typed /\ Shape /\ LockInv
  BY DEF Basic
<1> SUFFICES ASSUME NEW u \in Tasks, CredSame(u) PROVE CredOf(u)'
  BY DEF CredInv
<1>2. CredOf(u)
  BY DEF CredInv
<1>3. /\ Alive(u) => task[u].mm \in Mms /\ mm[task[u].mm].state = "live"
      /\ Forking(u) => call[u].mm \in Mms /\ mm[call[u].mm].state = "live"
  BY <1>1, HasMm, HasLive
<1>4. /\ Alive(u) => mm'[task[u].mm].for = mm[task[u].mm].for
      /\ Forking(u) => mm'[call[u].mm].for = mm[call[u].mm].for
  BY <1>3 DEF ForStays
<1> QED  BY <1>2, <1>4 DEF CredSame, CredOf, ForAll, Alive, At, Forking

\* A task's credentials are looked at by those who hold its mutex.
ReadSame(q) ==
  /\ reader'[q] = reader[q]
  /\ Reads(q, "check") /\ task'[reader[q].task].creds = "all" => task[reader[q].task].creds = "all"

LEMMA ReadFrame ==
  ASSUME Basic, UsersInv, ReadInv, ForStays, \A q \in Readers : ReadSame(q) \/ ReadOf(q)'
  PROVE  ReadInv'
<1>1. Typed /\ Shape /\ LockInv
  BY DEF Basic
<1> SUFFICES ASSUME NEW q \in Readers, ReadSame(q) PROVE ReadOf(q)'
  BY DEF ReadInv
<1>2. ReadOf(q)
  BY DEF ReadInv
<1>3. Reads(q, "check") \/ Reads(q, "held") =>
        reader[q].mm \in Mms /\ mm[reader[q].mm].state = "live"
  BY <1>1, ReaderFacts, HasLive
<1>4. Reads(q, "check") \/ Reads(q, "held") => mm'[reader[q].mm].for = mm[reader[q].mm].for
  BY <1>3 DEF ForStays
<1> QED  BY <1>2, <1>4 DEF ReadSame, ReadOf, ForAll, Reads


LEMMA CredStep ==
  ASSUME Basic, UsersInv, CredInv, Steps
  PROVE  CredInv'
<1>1. Typed /\ Shape /\ LockInv
  BY DEF Basic
<1>2. Structs
  BY <1>1, TypedParts
<1>3. ForStays
  BY ForStep
<1>4. /\ NoCall.at = "user" /\ NoCall.mm = None /\ NoCall.charge = 0
      /\ Idle.at = "idle" /\ Idle.mm = None /\ Idle.file = None /\ Idle.access = FALSE
  BY FreeType
<1>5. \A u \in Tasks : Forking(u) => Alive(u)
  BY <1>1, HasMm
<1>6. ASSUME Quiet PROVE CredInv'
  <2>1. \A u \in Tasks : CredSame(u)
    BY <1>2, <1>4, <1>6 DEF Quiet, Rest, Structs, CredSame, Forking, ForkPoints, At
  <2> QED  BY <1>3, <2>1, CredFrame
<1>7. ASSUME NEW t \in Tasks, NEW m, NEW x, NEW y, AllocDone(t, m, x, y) PROVE CredInv'
  <2>1. \A u \in Tasks : u # t => CredSame(u)
    BY <1>2, <1>4, <1>7 DEF AllocDone, MmIs, CallIs, Structs, CredSame, Forking, ForkPoints, At
  <2>2. CredOf(t)'
    <3>1. /\ m \in Mms /\ mm[m].state = "free" /\ task'[t] = task[t] /\ call'[t].mm = m
          /\ mm'[m].for = mm[task[t].mm].for /\ Alive(t) /\ ~At(t, "exec_creds")
          /\ \A n \in Mms : n # m => mm'[n] = mm[n]
      BY <1>2, <1>7 DEF AllocDone, MmIs, CallIs, Structs, MmsType, At
    <3>2. task[t].mm \in Mms /\ task[t].mm # m
      BY <1>1, <3>1, HasMm, HasLive
    <3> QED  BY <3>1, <3>2 DEF CredInv, CredOf, ForAll
  <2> QED  BY <1>3, <2>1, <2>2, CredFrame
<1>8. ASSUME NEW t \in Tasks, NEW c, NEW z, FinishDone(t, c, z) PROVE CredInv'
  <2>1. \A u \in Tasks : u # c => CredSame(u)
    BY <1>2, <1>4, <1>8 DEF FinishDone, TaskIs, CallIs, Structs, CredSame, Forking, ForkPoints, At
  <2>2. CredOf(c)'
    <3>1. /\ c \in Tasks /\ task'[c].mm = call[t].mm /\ task'[c].creds = task[t].creds
          /\ UNCHANGED mm /\ Forking(t) /\ ~Alive(c) /\ c # t
          /\ \A u \in Tasks : call'[u] = IF u = t THEN NoCall ELSE call[u]
      BY <1>2, <1>5, <1>8 DEF FinishDone, TaskIs, CallIs, Structs, Forking, ForkPoints, At, Alive
    <3>2. call'[c] = call[c] /\ ~Forking(c)
      BY <1>5, <3>1
    <3> QED  BY <3>1, <3>2 DEF CredInv, CredOf, ForAll, Forking
  <2> QED  BY <1>3, <2>1, <2>2, CredFrame
<1>9. ASSUME NEW t \in Tasks, NEW x, FreePtDone(t, x) PROVE CredInv'
  <2>1. \A u \in Tasks : CredSame(u)
    BY <1>2, <1>4, <1>9 DEF FreePtDone, Rest, MmIs, CallIs, Structs, CredSame, Forking,
       ForkPoints, At
  <2> QED  BY <1>3, <2>1, CredFrame
<1>10. ASSUME NEW t \in Tasks, NEW x, NEW z, ExitDone(t, x, z) PROVE CredInv'
  <2>1. \A u \in Tasks : u # t => CredSame(u)
    BY <1>2, <1>4, <1>10 DEF ExitDone, PutDone, MmIs, TaskIs, Structs, CredSame, Forking,
       ForkPoints, At
  <2>2. CredOf(t)'
    BY <1>2, <1>10 DEF ExitDone, TaskIs, Structs, CredOf, Alive, Forking, ForkPoints, At
  <2> QED  BY <1>3, <2>1, <2>2, CredFrame
<1>11. ASSUME NEW t \in Tasks, NEW m, NEW f, NEW x, NEW y, ExecDone(t, m, f, x, y) PROVE CredInv'
  <2>1. \A u \in Tasks : CredSame(u)
    BY <1>2, <1>4, <1>11 DEF ExecDone, MmIs, CallIs, Structs, CredSame, Forking, ForkPoints, At
  <2> QED  BY <1>3, <2>1, CredFrame
<1>12. ASSUME NEW t \in Tasks, NEW x, ExecFailsDone(t, x) PROVE CredInv'
  <2>1. \A u \in Tasks : CredSame(u)
    BY <1>2, <1>4, <1>12 DEF ExecFailsDone, PutDone, MmIs, CallIs, Structs, CredSame, Forking,
       ForkPoints, At
  <2> QED  BY <1>3, <2>1, CredFrame
<1>13. ASSUME NEW t \in Tasks, NEW x, NEW y, NEW z, ExecMmapDone(t, x, y, z) PROVE CredInv'
  <2>1. \A u \in Tasks : u # t => CredSame(u)
    BY <1>2, <1>4, <1>13 DEF ExecMmapDone, PutDone, MmIs, CallIs, TaskIs, Structs, CredSame,
       Forking, ForkPoints, At
  <2>2. CredOf(t)'
    BY <1>2, <1>13 DEF ExecMmapDone, CallIs, Structs, CredOf, Forking, ForkPoints, At
  <2> QED  BY <1>3, <2>1, <2>2, CredFrame
<1>14. ASSUME NEW t \in Tasks, NEW z, ExecCredsDone(t, z) PROVE CredInv'
  <2>1. \A u \in Tasks : u # t => CredSame(u)
    BY <1>2, <1>4, <1>14 DEF ExecCredsDone, TaskIs, CallIs, Structs, CredSame, Forking,
       ForkPoints, At
  <2>2. CredOf(t)'
    BY <1>2, <1>4, <1>14 DEF ExecCredsDone, CallIs, TaskIs, Structs, CredOf, ForAll, Forking,
       ForkPoints
  <2> QED  BY <1>3, <2>1, <2>2, CredFrame
<1>15. ASSUME NEW r \in Readers, NEW t, NEW access, NEW y, LookDone(r, t, access, y) PROVE CredInv'
  <2>1. \A u \in Tasks : CredSame(u)
    BY <1>2, <1>4, <1>15 DEF LookDone, ReaderIs, Structs, CredSame, Forking, ForkPoints, At
  <2> QED  BY <1>3, <2>1, CredFrame
<1>16. ASSUME NEW r \in Readers, NEW y, ReadDone(r, y) PROVE CredInv'
  <2>1. \A u \in Tasks : CredSame(u)
    BY <1>2, <1>4, <1>16 DEF ReadDone, ReaderIs, Structs, CredSame, Forking, ForkPoints, At
  <2> QED  BY <1>3, <2>1, CredFrame
<1>17. ASSUME NEW r \in Readers, NoneDone(r) PROVE CredInv'
  <2>1. \A u \in Tasks : CredSame(u)
    BY <1>2, <1>4, <1>17 DEF NoneDone, ReaderIs, Structs, CredSame, Forking, ForkPoints, At
  <2> QED  BY <1>3, <2>1, CredFrame
<1>18. ASSUME NEW r \in Readers, NEW x, NEW y, SomeDone(r, x, y) PROVE CredInv'
  <2>1. \A u \in Tasks : CredSame(u)
    BY <1>2, <1>4, <1>18 DEF SomeDone, GetDone, MmIs, ReaderIs, Structs, CredSame, Forking,
       ForkPoints, At
  <2> QED  BY <1>3, <2>1, CredFrame
<1>19. ASSUME NEW r \in Readers, NEW y, AllowDone(r, y) PROVE CredInv'
  <2>1. \A u \in Tasks : CredSame(u)
    BY <1>2, <1>4, <1>19 DEF AllowDone, ReaderIs, Structs, CredSame, Forking, ForkPoints, At
  <2> QED  BY <1>3, <2>1, CredFrame
<1>20. ASSUME NEW r \in Readers, NEW x, DenyDone(r, x) PROVE CredInv'
  <2>1. \A u \in Tasks : CredSame(u)
    BY <1>2, <1>4, <1>20 DEF DenyDone, PutDone, MmIs, ReaderIs, Structs, CredSame, Forking,
       ForkPoints, At
  <2> QED  BY <1>3, <2>1, CredFrame
<1>21. ASSUME NEW r \in Readers, NEW x, PutMmDone(r, x) PROVE CredInv'
  <2>1. \A u \in Tasks : CredSame(u)
    BY <1>2, <1>4, <1>21 DEF PutMmDone, PutDone, MmIs, ReaderIs, Structs, CredSame, Forking,
       ForkPoints, At
  <2> QED  BY <1>3, <2>1, CredFrame
<1>22. ASSUME NEW r \in Readers, NEW f, NEW y, ExeDone(r, f, y) PROVE CredInv'
  <2>1. \A u \in Tasks : CredSame(u)
    BY <1>2, <1>4, <1>22 DEF ExeDone, ReaderIs, Structs, CredSame, Forking, ForkPoints, At
  <2> QED  BY <1>3, <2>1, CredFrame
<1>23. ASSUME NEW r \in Readers, PutFileDone(r) PROVE CredInv'
  <2>1. \A u \in Tasks : CredSame(u)
    BY <1>2, <1>4, <1>23 DEF PutFileDone, ReaderIs, Structs, CredSame, Forking, ForkPoints, At
  <2> QED  BY <1>3, <2>1, CredFrame
<1>24. ASSUME NEW k \in Kthreads, NEW m, NEW x, NEW y, BorrowDone(k, m, x, y) PROVE CredInv'
  <2>1. \A u \in Tasks : CredSame(u)
    BY <1>2, <1>4, <1>24 DEF BorrowDone, MmIs, KthreadIs, Structs, CredSame, Forking, ForkPoints, At
  <2> QED  BY <1>3, <2>1, CredFrame
<1>25. ASSUME NEW k \in Kthreads, NEW x, NEW y, UseDone(k, x, y) PROVE CredInv'
  <2>1. \A u \in Tasks : CredSame(u)
    BY <1>2, <1>4, <1>25 DEF UseDone, GetDone, MmIs, KthreadIs, Structs, CredSame, Forking,
       ForkPoints, At
  <2> QED  BY <1>3, <2>1, CredFrame
<1>26. ASSUME NEW k \in Kthreads, NEW x, NEW y, AsyncDone(k, x, y) PROVE CredInv'
  <2>1. \A u \in Tasks : CredSame(u)
    BY <1>2, <1>4, <1>26 DEF AsyncDone, PutDone, MmIs, KthreadIs, Structs, CredSame, Forking,
       ForkPoints, At
  <2> QED  BY <1>3, <2>1, CredFrame
<1>27. ASSUME NEW k \in Kthreads, NEW x, NEW y, DropDone(k, x, y) PROVE CredInv'
  <2>1. \A u \in Tasks : CredSame(u)
    BY <1>2, <1>4, <1>27 DEF DropDone, MmIs, KthreadIs, Structs, CredSame, Forking, ForkPoints, At
  <2> QED  BY <1>3, <2>1, CredFrame
<1>28. ASSUME NEW m, NEW x, FinalDone(m, x) PROVE CredInv'
  <2>1. \A u \in Tasks : CredSame(u)
    BY <1>2, <1>4, <1>28 DEF FinalDone, Rest, MmIs, Structs, CredSame, Forking, ForkPoints, At
  <2> QED  BY <1>3, <2>1, CredFrame
<1>29. ASSUME NEW t \in Tasks, TaskSteps(t) PROVE CredInv'
  <2>1. AreasSteps(t) => CredInv'
    BY <1>1, <1>6, QuietStep
  <2> QED  BY <1>29, <2>1, <1>7, <1>8, <1>9, <1>10, <1>11, <1>12, <1>13, <1>14 DEF TaskSteps
<1>30. ASSUME NEW r \in Readers, ReaderSteps(r) PROVE CredInv'
  BY <1>30, <1>15, <1>16, <1>17, <1>18, <1>19, <1>20, <1>21, <1>22, <1>23 DEF ReaderSteps
<1>31. ASSUME NEW k \in Kthreads, KthreadSteps(k) PROVE CredInv'
  BY <1>31, <1>24, <1>25, <1>26, <1>27 DEF KthreadSteps
<1> QED  BY <1>28, <1>29, <1>30, <1>31 DEF Steps


LEMMA ReadInvStep ==
  ASSUME Basic, UsersInv, CredInv, ReadInv, Steps
  PROVE  ReadInv'
<1>1. Typed /\ Shape /\ LockInv
  BY DEF Basic
<1>2. Structs
  BY <1>1, TypedParts
<1>3. ForStays
  BY ForStep
<1>4. /\ NoCall.at = "user" /\ NoCall.mm = None /\ NoCall.charge = 0
      /\ Idle.at = "idle" /\ Idle.mm = None /\ Idle.file = None /\ Idle.access = FALSE
  BY FreeType
<1>5. \A q \in Readers : Reads(q, "check") =>
        reader[q].access /\ reader[q].task \in Tasks /\ task[reader[q].task].state # "unborn"
  BY <1>1 DEF Shape, ReaderShape
<1>6. ASSUME Quiet PROVE ReadInv'
  <2>1. \A q \in Readers : ReadSame(q)
    BY <1>2, <1>6 DEF Quiet, Rest, Structs, ReadSame, Reads
  <2> QED  BY <1>3, <2>1, ReadFrame
<1>7. ASSUME NEW t \in Tasks, NEW m, NEW x, NEW y, AllocDone(t, m, x, y) PROVE ReadInv'
  <2>1. \A q \in Readers : ReadSame(q)
    BY <1>2, <1>7 DEF AllocDone, MmIs, CallIs, Structs, ReadSame, Reads
  <2> QED  BY <1>3, <2>1, ReadFrame
<1>8. ASSUME NEW t \in Tasks, NEW c, NEW z, FinishDone(t, c, z) PROVE ReadInv'
  <2>1. ASSUME NEW q \in Readers PROVE ReadSame(q)
    <3>1. UNCHANGED reader /\ task[c].state = "unborn" /\ \A u \in Tasks : u # c => task'[u] = task[u]
      BY <1>2, <1>8 DEF FinishDone, TaskIs, Structs
    <3>2. Reads(q, "check") => reader[q].task \in Tasks /\ reader[q].task # c
      BY <1>5, <3>1
    <3> QED  BY <3>1, <3>2 DEF ReadSame
  <2> QED  BY <1>3, <2>1, ReadFrame
<1>9. ASSUME NEW t \in Tasks, NEW x, FreePtDone(t, x) PROVE ReadInv'
  <2>1. \A q \in Readers : ReadSame(q)
    BY <1>2, <1>9 DEF FreePtDone, Rest, MmIs, CallIs, Structs, ReadSame, Reads
  <2> QED  BY <1>3, <2>1, ReadFrame
<1>10. ASSUME NEW t \in Tasks, NEW x, NEW z, ExitDone(t, x, z) PROVE ReadInv'
  <2>1. ASSUME NEW q \in Readers PROVE ReadSame(q)
    <3>1. UNCHANGED reader /\ \A u \in Tasks : task'[u].creds = task[u].creds
      BY <1>2, <1>10 DEF ExitDone, PutDone, MmIs, TaskIs, Structs, ExitDone
    <3>2. Reads(q, "check") => reader[q].task \in Tasks
      BY <1>5
    <3> QED  BY <3>1, <3>2 DEF ReadSame
  <2> QED  BY <1>3, <2>1, ReadFrame
<1>11. ASSUME NEW t \in Tasks, NEW m, NEW f, NEW x, NEW y, ExecDone(t, m, f, x, y) PROVE ReadInv'
  <2>1. \A q \in Readers : ReadSame(q)
    BY <1>2, <1>11 DEF ExecDone, MmIs, CallIs, Structs, ReadSame, Reads
  <2> QED  BY <1>3, <2>1, ReadFrame
<1>12. ASSUME NEW t \in Tasks, NEW x, ExecFailsDone(t, x) PROVE ReadInv'
  <2>1. \A q \in Readers : ReadSame(q)
    BY <1>2, <1>12 DEF ExecFailsDone, PutDone, MmIs, CallIs, Structs, ReadSame, Reads
  <2> QED  BY <1>3, <2>1, ReadFrame
<1>13. ASSUME NEW t \in Tasks, NEW x, NEW y, NEW z, ExecMmapDone(t, x, y, z) PROVE ReadInv'
  <2>1. ASSUME NEW q \in Readers PROVE ReadSame(q)
    <3>1. UNCHANGED reader /\ \A u \in Tasks : task'[u].creds = task[u].creds
      BY <1>2, <1>13 DEF ExecMmapDone, PutDone, MmIs, CallIs, TaskIs, Structs, ExecMmapDone
    <3>2. Reads(q, "check") => reader[q].task \in Tasks
      BY <1>5
    <3> QED  BY <3>1, <3>2 DEF ReadSame
  <2> QED  BY <1>3, <2>1, ReadFrame
<1>14. ASSUME NEW t \in Tasks, NEW z, ExecCredsDone(t, z) PROVE ReadInv'
  <2>1. ASSUME NEW q \in Readers PROVE ReadSame(q)
    <3>1. UNCHANGED reader /\ Execing(t) /\ \A u \in Tasks : u # t => task'[u] = task[u]
      BY <1>2, <1>14 DEF ExecCredsDone, TaskIs, Structs, Execing, At
    <3>2. Reads(q, "check") => reader[q].task \in Tasks /\ reader[q].task # t
      BY <1>5, <3>1 DEF Basic, GuardInv, Holds
    <3> QED  BY <3>1, <3>2 DEF ReadSame
  <2> QED  BY <1>3, <2>1, ReadFrame
<1>15. ASSUME NEW r \in Readers, NEW t, NEW access, NEW y, LookDone(r, t, access, y) PROVE ReadInv'
  <2>1. \A q \in Readers : q # r => ReadSame(q)
    BY <1>2, <1>15 DEF LookDone, ReaderIs, Structs, ReadSame, Reads
  <2>2. ReadOf(r)'
    BY <1>2, <1>4, <1>15 DEF LookDone, ReaderIs, Structs, ReadOf, Reads
  <2> QED  BY <1>3, <2>1, <2>2, ReadFrame
<1>16. ASSUME NEW r \in Readers, NEW y, ReadDone(r, y) PROVE ReadInv'
  <2>1. \A q \in Readers : q # r => ReadSame(q)
    BY <1>2, <1>16 DEF ReadDone, ReaderIs, Structs, ReadSame, Reads
  <2>2. ReadOf(r)'
    BY <1>2, <1>4, <1>16 DEF ReadDone, ReaderIs, Structs, ReadOf, Reads
  <2> QED  BY <1>3, <2>1, <2>2, ReadFrame
<1>17. ASSUME NEW r \in Readers, NoneDone(r) PROVE ReadInv'
  <2>1. \A q \in Readers : q # r => ReadSame(q)
    BY <1>2, <1>17 DEF NoneDone, ReaderIs, Structs, ReadSame, Reads
  <2>2. ReadOf(r)'
    BY <1>2, <1>4, <1>17 DEF NoneDone, ReaderIs, Structs, ReadOf, Reads
  <2> QED  BY <1>3, <2>1, <2>2, ReadFrame
<1>18. ASSUME NEW r \in Readers, NEW x, NEW y, SomeDone(r, x, y) PROVE ReadInv'
  <2>1. \A q \in Readers : q # r => ReadSame(q)
    BY <1>2, <1>18 DEF SomeDone, ReaderIs, Structs, ReadSame, Reads
  <2>2. ReadOf(r)'
    <3> DEFINE u == reader[r].task
               m == reader[r].mm
    <3>1. /\ Reads(r, "locked") /\ u \in Tasks /\ m \in Mms /\ UNCHANGED task
          /\ mm'[m].for = mm[m].for /\ reader'[r] = y /\ y.mm = m /\ y.task = u
          /\ y.access = reader[r].access
          /\ y.at = (IF reader[r].access THEN "check" ELSE "held")
      BY <1>2, <1>18 DEF SomeDone, GetDone, MmIs, ReaderIs, Structs, MmsType, Rests
    <3>2. m = task[u].mm
      BY <1>1, <3>1 DEF LockInv
    <3>3. Alive(u)
      BY <1>1, <3>1, <3>2, SetsAssumption DEF Shape, TaskShape
    <3>4. reader[r].access => ~Execing(u)
      BY <3>1 DEF Basic, GuardInv, Holds
    <3>5. reader[r].access /\ task[u].creds = "all" => ForAll(m)
      BY <3>1, <3>2, <3>3, <3>4 DEF CredInv, CredOf, Execing, At
    <3> HIDE DEF u, m
    <3> QED  BY <3>1, <3>5 DEF ReadOf, ForAll, Reads
  <2> QED  BY <1>3, <2>1, <2>2, ReadFrame
<1>19. ASSUME NEW r \in Readers, NEW y, AllowDone(r, y) PROVE ReadInv'
  <2>1. \A q \in Readers : q # r => ReadSame(q)
    BY <1>2, <1>19 DEF AllowDone, ReaderIs, Structs, ReadSame, Reads
  <2>2. ReadOf(r)'
    <3>1. /\ Reads(r, "check") /\ task[reader[r].task].creds = "all" /\ UNCHANGED mm
          /\ reader'[r] = y /\ y.at = "held" /\ y.mm = reader[r].mm
      BY <1>2, <1>19 DEF AllowDone, ReaderIs, Structs
    <3> QED  BY <3>1 DEF ReadInv, ReadOf, ForAll, Reads
  <2> QED  BY <1>3, <2>1, <2>2, ReadFrame
<1>20. ASSUME NEW r \in Readers, NEW x, DenyDone(r, x) PROVE ReadInv'
  <2>1. \A q \in Readers : q # r => ReadSame(q)
    BY <1>2, <1>20 DEF DenyDone, PutDone, MmIs, ReaderIs, Structs, ReadSame, Reads
  <2>2. ReadOf(r)'
    BY <1>2, <1>4, <1>20 DEF DenyDone, PutDone, MmIs, ReaderIs, Structs, ReadOf, Reads
  <2> QED  BY <1>3, <2>1, <2>2, ReadFrame
<1>21. ASSUME NEW r \in Readers, NEW x, PutMmDone(r, x) PROVE ReadInv'
  <2>1. \A q \in Readers : q # r => ReadSame(q)
    BY <1>2, <1>21 DEF PutMmDone, PutDone, MmIs, ReaderIs, Structs, ReadSame, Reads
  <2>2. ReadOf(r)'
    BY <1>2, <1>4, <1>21 DEF PutMmDone, PutDone, MmIs, ReaderIs, Structs, ReadOf, Reads
  <2> QED  BY <1>3, <2>1, <2>2, ReadFrame
<1>22. ASSUME NEW r \in Readers, NEW f, NEW y, ExeDone(r, f, y) PROVE ReadInv'
  <2>1. \A q \in Readers : q # r => ReadSame(q)
    BY <1>2, <1>22 DEF ExeDone, ReaderIs, Structs, ReadSame, Reads
  <2>2. ReadOf(r)'
    BY <1>2, <1>4, <1>22 DEF ExeDone, ReaderIs, Structs, ReadOf, Reads
  <2> QED  BY <1>3, <2>1, <2>2, ReadFrame
<1>23. ASSUME NEW r \in Readers, PutFileDone(r) PROVE ReadInv'
  <2>1. \A q \in Readers : q # r => ReadSame(q)
    BY <1>2, <1>23 DEF PutFileDone, ReaderIs, Structs, ReadSame, Reads
  <2>2. ReadOf(r)'
    BY <1>2, <1>4, <1>23 DEF PutFileDone, ReaderIs, Structs, ReadOf, Reads
  <2> QED  BY <1>3, <2>1, <2>2, ReadFrame
<1>24. ASSUME NEW k \in Kthreads, NEW m, NEW x, NEW y, BorrowDone(k, m, x, y) PROVE ReadInv'
  <2>1. \A q \in Readers : ReadSame(q)
    BY <1>2, <1>24 DEF BorrowDone, MmIs, KthreadIs, Structs, ReadSame, Reads
  <2> QED  BY <1>3, <2>1, ReadFrame
<1>25. ASSUME NEW k \in Kthreads, NEW x, NEW y, UseDone(k, x, y) PROVE ReadInv'
  <2>1. \A q \in Readers : ReadSame(q)
    BY <1>2, <1>25 DEF UseDone, GetDone, MmIs, KthreadIs, Structs, ReadSame, Reads
  <2> QED  BY <1>3, <2>1, ReadFrame
<1>26. ASSUME NEW k \in Kthreads, NEW x, NEW y, AsyncDone(k, x, y) PROVE ReadInv'
  <2>1. \A q \in Readers : ReadSame(q)
    BY <1>2, <1>26 DEF AsyncDone, PutDone, MmIs, KthreadIs, Structs, ReadSame, Reads
  <2> QED  BY <1>3, <2>1, ReadFrame
<1>27. ASSUME NEW k \in Kthreads, NEW x, NEW y, DropDone(k, x, y) PROVE ReadInv'
  <2>1. \A q \in Readers : ReadSame(q)
    BY <1>2, <1>27 DEF DropDone, MmIs, KthreadIs, Structs, ReadSame, Reads
  <2> QED  BY <1>3, <2>1, ReadFrame
<1>28. ASSUME NEW m, NEW x, FinalDone(m, x) PROVE ReadInv'
  <2>1. \A q \in Readers : ReadSame(q)
    BY <1>2, <1>28 DEF FinalDone, Rest, MmIs, Structs, ReadSame, Reads
  <2> QED  BY <1>3, <2>1, ReadFrame
<1>29. ASSUME NEW t \in Tasks, TaskSteps(t) PROVE ReadInv'
  <2>1. AreasSteps(t) => ReadInv'
    BY <1>1, <1>6, QuietStep
  <2> QED  BY <1>29, <2>1, <1>7, <1>8, <1>9, <1>10, <1>11, <1>12, <1>13, <1>14 DEF TaskSteps
<1>30. ASSUME NEW r \in Readers, ReaderSteps(r) PROVE ReadInv'
  BY <1>30, <1>15, <1>16, <1>17, <1>18, <1>19, <1>20, <1>21, <1>22, <1>23 DEF ReaderSteps
<1>31. ASSUME NEW k \in Kthreads, KthreadSteps(k) PROVE ReadInv'
  BY <1>31, <1>24, <1>25, <1>26, <1>27 DEF KthreadSteps
<1> QED  BY <1>28, <1>29, <1>30, <1>31 DEF Steps

-----------------------------------------------------------------------------
(* What a dup_mmap relies on.                                              *)

\* Only the steps of dup_mmap, mmap and munmap change an mm that is used.
HoldStays ==
  \A n \in Mms : mm[n].state = "live" =>
    mm'[n].exe = mm[n].exe /\ mm'[n].areas = mm[n].areas /\ mm'[n].sem = mm[n].sem

LEMMA HoldStep ==
  ASSUME Basic, UsersInv, \A u \in Tasks : ~AreasSteps(u), Steps
  PROVE  HoldStays
<1>1. Typed /\ Shape /\ LockInv
  BY DEF Basic
<1>2. Structs
  BY <1>1, TypedParts
<1>3. ASSUME NEW t \in Tasks, NEW m, NEW x, NEW y, AllocDone(t, m, x, y) PROVE HoldStays
  BY <1>1, <1>2, <1>3 DEF AllocDone, MmIs, CallIs, Structs, MmsType, HoldStays, SameHold, Rests,
     IsPresent
<1>4. ASSUME NEW t \in Tasks, NEW c, NEW z, FinishDone(t, c, z) PROVE HoldStays
  BY <1>1, <1>2, <1>4 DEF FinishDone, TaskIs, CallIs, Structs, MmsType, HoldStays, SameHold,
     Rests, IsPresent
<1>5. ASSUME NEW t \in Tasks, NEW x, FreePtDone(t, x) PROVE HoldStays
  BY <1>1, <1>2, <1>5 DEF FreePtDone, Rest, MmIs, CallIs, Structs, MmsType, HoldStays, SameHold,
     Rests, IsPresent
<1>6. ASSUME NEW t \in Tasks, NEW x, NEW z, ExitDone(t, x, z) PROVE HoldStays
  BY <1>1, <1>2, <1>6 DEF ExitDone, PutDone, MmIs, TaskIs, Structs, MmsType, HoldStays, SameHold,
     Rests, IsPresent
<1>7. ASSUME NEW t \in Tasks, NEW m, NEW f, NEW x, NEW y, ExecDone(t, m, f, x, y) PROVE HoldStays
  BY <1>1, <1>2, <1>7 DEF ExecDone, MmIs, CallIs, Structs, MmsType, HoldStays, SameHold, Rests,
     IsPresent
<1>8. ASSUME NEW t \in Tasks, NEW x, ExecFailsDone(t, x) PROVE HoldStays
  BY <1>1, <1>2, <1>8 DEF ExecFailsDone, PutDone, MmIs, CallIs, Structs, MmsType, HoldStays,
     SameHold, Rests, IsPresent
<1>9. ASSUME NEW t \in Tasks, NEW x, NEW y, NEW z, ExecMmapDone(t, x, y, z) PROVE HoldStays
  BY <1>1, <1>2, <1>9 DEF ExecMmapDone, PutDone, MmIs, CallIs, TaskIs, Structs, MmsType,
     HoldStays, SameHold, Rests, IsPresent
<1>10. ASSUME NEW t \in Tasks, NEW z, ExecCredsDone(t, z) PROVE HoldStays
  BY <1>1, <1>2, <1>10 DEF ExecCredsDone, TaskIs, CallIs, Structs, MmsType, HoldStays, SameHold,
     Rests, IsPresent
<1>11. ASSUME NEW r \in Readers, NEW t, NEW access, NEW y, LookDone(r, t, access, y) PROVE HoldStays
  BY <1>1, <1>2, <1>11 DEF LookDone, ReaderIs, Structs, MmsType, HoldStays, SameHold, Rests,
     IsPresent
<1>12. ASSUME NEW r \in Readers, NEW y, ReadDone(r, y) PROVE HoldStays
  BY <1>1, <1>2, <1>12 DEF ReadDone, ReaderIs, Structs, MmsType, HoldStays, SameHold, Rests,
     IsPresent
<1>13. ASSUME NEW r \in Readers, NoneDone(r) PROVE HoldStays
  BY <1>1, <1>2, <1>13 DEF NoneDone, ReaderIs, Structs, MmsType, HoldStays, SameHold, Rests,
     IsPresent
<1>14. ASSUME NEW r \in Readers, NEW x, NEW y, SomeDone(r, x, y) PROVE HoldStays
  BY <1>1, <1>2, <1>14 DEF SomeDone, GetDone, MmIs, ReaderIs, Structs, MmsType, HoldStays,
     SameHold, Rests, IsPresent
<1>15. ASSUME NEW r \in Readers, NEW y, AllowDone(r, y) PROVE HoldStays
  BY <1>1, <1>2, <1>15 DEF AllowDone, ReaderIs, Structs, MmsType, HoldStays, SameHold, Rests,
     IsPresent
<1>16. ASSUME NEW r \in Readers, NEW x, DenyDone(r, x) PROVE HoldStays
  BY <1>1, <1>2, <1>16 DEF DenyDone, PutDone, MmIs, ReaderIs, Structs, MmsType, HoldStays,
     SameHold, Rests, IsPresent
<1>17. ASSUME NEW r \in Readers, NEW x, PutMmDone(r, x) PROVE HoldStays
  BY <1>1, <1>2, <1>17 DEF PutMmDone, PutDone, MmIs, ReaderIs, Structs, MmsType, HoldStays,
     SameHold, Rests, IsPresent
<1>18. ASSUME NEW r \in Readers, NEW f, NEW y, ExeDone(r, f, y) PROVE HoldStays
  BY <1>1, <1>2, <1>18 DEF ExeDone, ReaderIs, Structs, MmsType, HoldStays, SameHold, Rests,
     IsPresent
<1>19. ASSUME NEW r \in Readers, PutFileDone(r) PROVE HoldStays
  BY <1>1, <1>2, <1>19 DEF PutFileDone, ReaderIs, Structs, MmsType, HoldStays, SameHold, Rests,
     IsPresent
<1>20. ASSUME NEW k \in Kthreads, NEW m, NEW x, NEW y, BorrowDone(k, m, x, y) PROVE HoldStays
  BY <1>1, <1>2, <1>20 DEF BorrowDone, MmIs, KthreadIs, Structs, MmsType, HoldStays, SameHold,
     Rests, IsPresent
<1>21. ASSUME NEW k \in Kthreads, NEW x, NEW y, UseDone(k, x, y) PROVE HoldStays
  BY <1>1, <1>2, <1>21 DEF UseDone, GetDone, MmIs, KthreadIs, Structs, MmsType, HoldStays,
     SameHold, Rests, IsPresent
<1>22. ASSUME NEW k \in Kthreads, NEW x, NEW y, AsyncDone(k, x, y) PROVE HoldStays
  BY <1>1, <1>2, <1>22 DEF AsyncDone, PutDone, MmIs, KthreadIs, Structs, MmsType, HoldStays,
     SameHold, Rests, IsPresent
<1>23. ASSUME NEW k \in Kthreads, NEW x, NEW y, DropDone(k, x, y) PROVE HoldStays
  BY <1>1, <1>2, <1>23 DEF DropDone, MmIs, KthreadIs, Structs, MmsType, HoldStays, SameHold,
     Rests, IsPresent
<1>24. ASSUME NEW m, NEW x, FinalDone(m, x) PROVE HoldStays
  BY <1>1, <1>2, <1>24 DEF FinalDone, Rest, MmIs, Structs, MmsType, HoldStays, SameHold, Rests,
     IsPresent
<1>25. ASSUME NEW t \in Tasks, TaskSteps(t) PROVE HoldStays
  BY <1>25, <1>3, <1>4, <1>5, <1>6, <1>7, <1>8, <1>9, <1>10 DEF TaskSteps
<1>26. ASSUME NEW r \in Readers, ReaderSteps(r) PROVE HoldStays
  BY <1>26, <1>11, <1>12, <1>13, <1>14, <1>15, <1>16, <1>17, <1>18, <1>19 DEF ReaderSteps
<1>27. ASSUME NEW k \in Kthreads, KthreadSteps(k) PROVE HoldStays
  BY <1>27, <1>20, <1>21, <1>22, <1>23 DEF KthreadSteps
<1> QED  BY <1>24, <1>25, <1>26, <1>27 DEF Steps


CopyPoints == {"mmap_sem", "area", "charged"}
CopySame(u) ==
  call'[u].at \in CopyPoints =>
    /\ call'[u] = call[u] /\ task'[u].mm = task[u].mm
    /\ At(u, "mmap_sem") => mm'[call[u].mm].exe = mm[call[u].mm].exe
    /\ At(u, "area") \/ At(u, "charged") =>
         mm'[task[u].mm].sem = mm[task[u].mm].sem /\ mm'[task[u].mm].areas = mm[task[u].mm].areas

LEMMA CopyFrame ==
  ASSUME DupInv, \A u \in Tasks : CopySame(u) \/ CopyInv(u)'
  PROVE  DupInv'
<1> SUFFICES ASSUME NEW u \in Tasks, CopySame(u) PROVE CopyInv(u)'
  BY DEF DupInv
<1>1. CopyInv(u)
  BY DEF DupInv
<1> QED  BY <1>1 DEF CopyInv, CopySame, CopyPoints, At, OldAreas, NextArea

CallSame(u) == call'[u].at \in CopyPoints => call'[u] = call[u] /\ task'[u].mm = task[u].mm

LEMMA HoldFrame ==
  ASSUME Basic, UsersInv, HoldStays, NEW u \in Tasks, CallSame(u)
  PROVE  CopySame(u)
<1>1. Typed /\ Shape /\ LockInv
  BY DEF Basic
<1>2. call[u].at \in CopyPoints =>
        /\ task[u].mm \in Mms /\ mm[task[u].mm].state = "live"
        /\ call[u].mm \in Mms /\ mm[call[u].mm].state = "live"
  BY <1>1, HasMm, HasLive DEF Forking, ForkPoints, CopyPoints, At
<1> QED  BY <1>2 DEF HoldStays, CopySame, CallSame, CopyPoints, At


LEMMA OtherDupStep ==
  ASSUME Basic, UsersInv, DupInv, \A u \in Tasks : ~AreasSteps(u), Steps
  PROVE  DupInv'
<1>1. Typed /\ Shape /\ LockInv
  BY DEF Basic
<1>2. Structs
  BY <1>1, TypedParts
<1>3. HoldStays
  BY HoldStep
<1>4. /\ NoCall.at = "user" /\ NoCall.mm = None /\ NoCall.charge = 0
      /\ Idle.at = "idle" /\ Idle.mm = None /\ Idle.file = None /\ Idle.access = FALSE
  BY FreeType
<1>5. \A u \in Tasks : Forking(u) => Alive(u)
  BY <1>1, HasMm
<1>6. ASSUME NEW t \in Tasks, NEW m, NEW x, NEW y, AllocDone(t, m, x, y) PROVE DupInv'
  <2>1. \A u \in Tasks : u # t => CallSame(u)
    BY <1>2, <1>6 DEF AllocDone, CallIs, Structs, CallSame
  <2>2. CopyInv(t)'
    BY <1>2, <1>6 DEF AllocDone, CallIs, MmIs, Structs, MmsType, CopyInv, At
  <2> QED  BY <1>3, <2>1, <2>2, HoldFrame, CopyFrame
<1>7. ASSUME NEW t \in Tasks, NEW c, NEW z, FinishDone(t, c, z) PROVE DupInv'
  <2>1. /\ UNCHANGED mm /\ Forking(t) /\ ~Alive(c) /\ c # t
        /\ \A u \in Tasks : u # t => call'[u] = call[u]
        /\ \A u \in Tasks : u # c => task'[u] = task[u]
        /\ call'[t].at = "user"
    BY <1>2, <1>4, <1>5, <1>7 DEF FinishDone, TaskIs, CallIs, Structs, Forking, ForkPoints, At,
       Alive
  <2>2. ~Forking(c)
    BY <1>5, <1>7 DEF FinishDone, TaskIs, Alive
  <2>3. ASSUME NEW u \in Tasks PROVE CallSame(u)
    <3>1. CASE u = t
      BY <2>1, <3>1 DEF CallSame, CopyPoints
    <3>2. CASE u = c
      BY <2>1, <2>2, <3>2 DEF CallSame, CopyPoints, Forking, ForkPoints
    <3>3. CASE u # t /\ u # c
      BY <2>1, <3>3 DEF CallSame
    <3> QED  BY <3>1, <3>2, <3>3
  <2> QED  BY <1>3, <2>3, HoldFrame, CopyFrame
<1>8. ASSUME NEW t \in Tasks, NEW x, FreePtDone(t, x) PROVE DupInv'
  <2>1. \A u \in Tasks : CallSame(u)
    BY <1>2, <1>4, <1>5, <1>8 DEF FreePtDone, Rest, MmIs, CallIs, Structs, CallSame, CopyPoints, At
  <2> QED  BY <1>3, <2>1, HoldFrame, CopyFrame
<1>9. ASSUME NEW t \in Tasks, NEW x, NEW z, ExitDone(t, x, z) PROVE DupInv'
  <2>1. \A u \in Tasks : CallSame(u)
    BY <1>2, <1>4, <1>5, <1>9 DEF ExitDone, PutDone, MmIs, TaskIs, Structs, CallSame, CopyPoints, At
  <2> QED  BY <1>3, <2>1, HoldFrame, CopyFrame
<1>10. ASSUME NEW t \in Tasks, NEW m, NEW f, NEW x, NEW y, ExecDone(t, m, f, x, y) PROVE DupInv'
  <2>1. \A u \in Tasks : CallSame(u)
    BY <1>2, <1>4, <1>5, <1>10 DEF ExecDone, MmIs, CallIs, Structs, CallSame, CopyPoints, At
  <2> QED  BY <1>3, <2>1, HoldFrame, CopyFrame
<1>11. ASSUME NEW t \in Tasks, NEW x, ExecFailsDone(t, x) PROVE DupInv'
  <2>1. \A u \in Tasks : CallSame(u)
    BY <1>2, <1>4, <1>5, <1>11 DEF ExecFailsDone, PutDone, MmIs, CallIs, Structs, CallSame,
       CopyPoints, At
  <2> QED  BY <1>3, <2>1, HoldFrame, CopyFrame
<1>12. ASSUME NEW t \in Tasks, NEW x, NEW y, NEW z, ExecMmapDone(t, x, y, z) PROVE DupInv'
  <2>1. \A u \in Tasks : CallSame(u)
    BY <1>2, <1>4, <1>5, <1>12 DEF ExecMmapDone, PutDone, MmIs, CallIs, TaskIs, Structs, CallSame,
       CopyPoints, At
  <2> QED  BY <1>3, <2>1, HoldFrame, CopyFrame
<1>13. ASSUME NEW t \in Tasks, NEW z, ExecCredsDone(t, z) PROVE DupInv'
  <2>1. \A u \in Tasks : CallSame(u)
    BY <1>2, <1>4, <1>5, <1>13 DEF ExecCredsDone, TaskIs, CallIs, Structs, CallSame, CopyPoints, At
  <2> QED  BY <1>3, <2>1, HoldFrame, CopyFrame
<1>14. ASSUME NEW r \in Readers, NEW t, NEW access, NEW y, LookDone(r, t, access, y) PROVE DupInv'
  <2>1. \A u \in Tasks : CallSame(u)
    BY <1>2, <1>4, <1>5, <1>14 DEF LookDone, ReaderIs, Structs, CallSame, CopyPoints, At
  <2> QED  BY <1>3, <2>1, HoldFrame, CopyFrame
<1>15. ASSUME NEW r \in Readers, NEW y, ReadDone(r, y) PROVE DupInv'
  <2>1. \A u \in Tasks : CallSame(u)
    BY <1>2, <1>4, <1>5, <1>15 DEF ReadDone, ReaderIs, Structs, CallSame, CopyPoints, At
  <2> QED  BY <1>3, <2>1, HoldFrame, CopyFrame
<1>16. ASSUME NEW r \in Readers, NoneDone(r) PROVE DupInv'
  <2>1. \A u \in Tasks : CallSame(u)
    BY <1>2, <1>4, <1>5, <1>16 DEF NoneDone, ReaderIs, Structs, CallSame, CopyPoints, At
  <2> QED  BY <1>3, <2>1, HoldFrame, CopyFrame
<1>17. ASSUME NEW r \in Readers, NEW x, NEW y, SomeDone(r, x, y) PROVE DupInv'
  <2>1. \A u \in Tasks : CallSame(u)
    BY <1>2, <1>4, <1>5, <1>17 DEF SomeDone, GetDone, MmIs, ReaderIs, Structs, CallSame,
       CopyPoints, At
  <2> QED  BY <1>3, <2>1, HoldFrame, CopyFrame
<1>18. ASSUME NEW r \in Readers, NEW y, AllowDone(r, y) PROVE DupInv'
  <2>1. \A u \in Tasks : CallSame(u)
    BY <1>2, <1>4, <1>5, <1>18 DEF AllowDone, ReaderIs, Structs, CallSame, CopyPoints, At
  <2> QED  BY <1>3, <2>1, HoldFrame, CopyFrame
<1>19. ASSUME NEW r \in Readers, NEW x, DenyDone(r, x) PROVE DupInv'
  <2>1. \A u \in Tasks : CallSame(u)
    BY <1>2, <1>4, <1>5, <1>19 DEF DenyDone, PutDone, MmIs, ReaderIs, Structs, CallSame,
       CopyPoints, At
  <2> QED  BY <1>3, <2>1, HoldFrame, CopyFrame
<1>20. ASSUME NEW r \in Readers, NEW x, PutMmDone(r, x) PROVE DupInv'
  <2>1. \A u \in Tasks : CallSame(u)
    BY <1>2, <1>4, <1>5, <1>20 DEF PutMmDone, PutDone, MmIs, ReaderIs, Structs, CallSame,
       CopyPoints, At
  <2> QED  BY <1>3, <2>1, HoldFrame, CopyFrame
<1>21. ASSUME NEW r \in Readers, NEW f, NEW y, ExeDone(r, f, y) PROVE DupInv'
  <2>1. \A u \in Tasks : CallSame(u)
    BY <1>2, <1>4, <1>5, <1>21 DEF ExeDone, ReaderIs, Structs, CallSame, CopyPoints, At
  <2> QED  BY <1>3, <2>1, HoldFrame, CopyFrame
<1>22. ASSUME NEW r \in Readers, PutFileDone(r) PROVE DupInv'
  <2>1. \A u \in Tasks : CallSame(u)
    BY <1>2, <1>4, <1>5, <1>22 DEF PutFileDone, ReaderIs, Structs, CallSame, CopyPoints, At
  <2> QED  BY <1>3, <2>1, HoldFrame, CopyFrame
<1>23. ASSUME NEW k \in Kthreads, NEW m, NEW x, NEW y, BorrowDone(k, m, x, y) PROVE DupInv'
  <2>1. \A u \in Tasks : CallSame(u)
    BY <1>2, <1>4, <1>5, <1>23 DEF BorrowDone, MmIs, KthreadIs, Structs, CallSame, CopyPoints, At
  <2> QED  BY <1>3, <2>1, HoldFrame, CopyFrame
<1>24. ASSUME NEW k \in Kthreads, NEW x, NEW y, UseDone(k, x, y) PROVE DupInv'
  <2>1. \A u \in Tasks : CallSame(u)
    BY <1>2, <1>4, <1>5, <1>24 DEF UseDone, GetDone, MmIs, KthreadIs, Structs, CallSame,
       CopyPoints, At
  <2> QED  BY <1>3, <2>1, HoldFrame, CopyFrame
<1>25. ASSUME NEW k \in Kthreads, NEW x, NEW y, AsyncDone(k, x, y) PROVE DupInv'
  <2>1. \A u \in Tasks : CallSame(u)
    BY <1>2, <1>4, <1>5, <1>25 DEF AsyncDone, PutDone, MmIs, KthreadIs, Structs, CallSame,
       CopyPoints, At
  <2> QED  BY <1>3, <2>1, HoldFrame, CopyFrame
<1>26. ASSUME NEW k \in Kthreads, NEW x, NEW y, DropDone(k, x, y) PROVE DupInv'
  <2>1. \A u \in Tasks : CallSame(u)
    BY <1>2, <1>4, <1>5, <1>26 DEF DropDone, MmIs, KthreadIs, Structs, CallSame, CopyPoints, At
  <2> QED  BY <1>3, <2>1, HoldFrame, CopyFrame
<1>27. ASSUME NEW m, NEW x, FinalDone(m, x) PROVE DupInv'
  <2>1. \A u \in Tasks : CallSame(u)
    BY <1>2, <1>4, <1>5, <1>27 DEF FinalDone, Rest, MmIs, Structs, CallSame, CopyPoints, At
  <2> QED  BY <1>3, <2>1, HoldFrame, CopyFrame
<1>28. ASSUME NEW t \in Tasks, TaskSteps(t) PROVE DupInv'
  BY <1>28, <1>6, <1>7, <1>8, <1>9, <1>10, <1>11, <1>12, <1>13 DEF TaskSteps
<1>29. ASSUME NEW r \in Readers, ReaderSteps(r) PROVE DupInv'
  BY <1>29, <1>14, <1>15, <1>16, <1>17, <1>18, <1>19, <1>20, <1>21, <1>22 DEF ReaderSteps
<1>30. ASSUME NEW k \in Kthreads, KthreadSteps(k) PROVE DupInv'
  BY <1>30, <1>23, <1>24, <1>25, <1>26 DEF KthreadSteps
<1> QED  BY <1>27, <1>28, <1>29, <1>30 DEF Steps


LEMMA AreasDup ==
  ASSUME Basic, UsersInv, DupInv, NEW t \in Tasks, AreasSteps(t)
  PROVE  DupInv'
<1>1. Typed /\ Shape /\ LockInv
  BY DEF Basic
<1>2. Structs /\ None \notin Tasks
  BY <1>1, TypedParts, SetsAssumption
<1>3. \A u \in Tasks : At(u, "area") \/ At(u, "charged") => mm[task[u].mm].sem = u /\ task[u].mm \in Mms
  BY <1>1, HasMm DEF DupInv, CopyInv, Forking, ForkPoints, At
<1>4. \A u \in Tasks : Forking(u) => call[u].mm \in Mms /\ task[u].mm \in Mms
  BY <1>1, HasMm
<1>5. ASSUME NEW u \in Tasks, Forking(u), NEW v \in Tasks, v # u
      PROVE  call[v].mm # call[u].mm /\ task[v].mm # call[u].mm /\ task[u].mm # call[u].mm
  BY <1>5 DEF Basic, PrivateInv, Private
<1>6. ASSUME NEW y, PlainDone(t, y) PROVE DupInv'
  <2>1. UNCHANGED <<task, mm>> /\ call'[t] = y /\ \A u \in Tasks : u # t => call'[u] = call[u]
    BY <1>2, <1>6 DEF PlainDone, ForkMove, CallIs, Rest, Structs
  <2>2. \A u \in Tasks : u # t => CopySame(u)
    BY <2>1 DEF CopySame
  <2>3. CopyInv(t)'
    BY <1>3, <1>6, <2>1 DEF PlainDone, CopyInv, At, OldAreas, NextArea
  <2> QED  BY <2>2, <2>3, CopyFrame
<1>7. ASSUME NEW x, NEW y, ReleaseDone(t, x, y) PROVE DupInv'
  <2> DEFINE o == task[t].mm
  <2>1. UNCHANGED task /\ call'[t] = y /\ \A u \in Tasks : u # t => call'[u] = call[u]
    BY <1>2, <1>7 DEF ReleaseDone, ForkMove, CallIs, Rest, Structs
  <2>2. /\ \A n \in Mms : n # o => mm'[n] = mm[n]
        /\ o \in Mms /\ mm'[o].exe = mm[o].exe /\ mm[o].sem = t
    BY <1>2, <1>3, <1>7 DEF ReleaseDone, MmIs, SameHold, Structs, MmsType
  <2>3. ASSUME NEW u \in Tasks, u # t PROVE CopySame(u)
    <3>1. At(u, "mmap_sem") => call[u].mm \in Mms
      BY <1>4 DEF Forking, ForkPoints, At
    <3> QED  BY <1>3, <2>1, <2>2, <2>3, <3>1 DEF CopySame
  <2>4. CopyInv(t)'
    BY <1>7, <2>1 DEF ReleaseDone, CopyInv, At
  <2> QED  BY <2>3, <2>4, CopyFrame
<1>8. ASSUME NEW y, BeginDone(t, y) PROVE DupInv'
  <2> DEFINE o == task[t].mm
             c == call[t].mm
  <2>1. UNCHANGED task /\ call'[t] = y /\ \A u \in Tasks : u # t => call'[u] = call[u]
    BY <1>2, <1>8 DEF BeginDone, CallIs, Structs
  <2>2. /\ \A n \in Mms : /\ mm'[n].areas = mm[n].areas 
                          /\ n # c => mm'[n].exe = mm[n].exe
                          /\ n # o => mm'[n].sem = mm[n].sem
        /\ o \in Mms /\ mm[o].sem = None /\ mm'[o].sem = t /\ Forking(t)
    BY <1>4, <1>8 DEF BeginDone, Forking, ForkPoints, At
  <2>3. ASSUME NEW u \in Tasks, u # t PROVE CopySame(u)
    <3>1. At(u, "mmap_sem") => call[u].mm \in Mms
      BY <1>4 DEF Forking, ForkPoints, At
    <3>2. call[u].mm # c
      BY <1>5, <2>2, <2>3
    <3>3. At(u, "area") \/ At(u, "charged") => task[u].mm \in Mms /\ task[u].mm # o
      BY <1>2, <1>3, <2>2
    <3> HIDE DEF o, c
    <3> QED  BY <2>1, <2>2, <2>3, <3>1, <3>2, <3>3 DEF CopySame
  <2>4. CopyInv(t)'
    BY <1>8, <2>1, <2>2 DEF BeginDone, CopyInv, At
  <2> QED  BY <2>3, <2>4, CopyFrame
<1>9. ASSUME NEW a, NEW y, LinkDone(t, a, y) PROVE DupInv'
  <2> DEFINE o == task[t].mm
             c == call[t].mm
  <2>1. UNCHANGED task /\ call'[t] = y /\ \A u \in Tasks : u # t => call'[u] = call[u]
    BY <1>2, <1>9 DEF LinkDone, ForkMove, CallIs, Rest, Structs
  <2>2. /\ \A n \in Mms : /\ mm'[n].exe = mm[n].exe 
                          /\ n # c => mm'[n].areas = mm[n].areas
                          /\ (n # o \/ y.at = "area") => mm'[n].sem = mm[n].sem
        /\ o \in Mms /\ mm[o].sem = t /\ Forking(t)
    BY <1>3, <1>9 DEF LinkDone, ForkMove
  <2>3. ASSUME NEW u \in Tasks, u # t PROVE CopySame(u)
    <3>1. At(u, "mmap_sem") => call[u].mm \in Mms
      BY <1>4 DEF Forking, ForkPoints, At
    <3>2. task[u].mm # c
      BY <1>5, <2>2, <2>3
    <3>3. At(u, "area") \/ At(u, "charged") => task[u].mm \in Mms /\ task[u].mm # o
      BY <1>3, <2>2, <2>3
    <3> HIDE DEF o, c
    <3> QED  BY <2>1, <2>2, <2>3, <3>1, <3>2, <3>3 DEF CopySame
  <2>4. CopyInv(t)'
    BY <1>9, <2>1, <2>2 DEF LinkDone, CopyInv, At
  <2> QED  BY <2>3, <2>4, CopyFrame
<1>10. ASSUME NEW x, AreasDone(t, x) PROVE DupInv'
  <2> DEFINE m == task[t].mm
  <2>1. UNCHANGED <<task, call>>
    BY <1>10 DEF AreasDone, Rest
  <2>2. /\ \A n \in Mms : n # m => mm'[n] = mm[n]
        /\ m \in Mms /\ mm'[m].exe = mm[m].exe /\ mm[m].sem = None
    BY <1>2, <1>10 DEF AreasDone, MmIs, Structs, MmsType
  <2>3. ASSUME NEW u \in Tasks PROVE CopySame(u)
    <3>1. At(u, "mmap_sem") => call[u].mm \in Mms
      BY <1>4 DEF Forking, ForkPoints, At
    <3> QED  BY <1>2, <1>3, <2>1, <2>2, <3>1 DEF CopySame
  <2> QED  BY <2>3, CopyFrame
<1> QED  BY <1>6, <1>7, <1>8, <1>9, <1>10 DEF AreasSteps

LEMMA DupStep ==
  ASSUME Basic, UsersInv, DupInv, Steps
  PROVE  DupInv'
BY AreasDup, OtherDupStep

-----------------------------------------------------------------------------
(* The counts.                                                             *)

LEMMA TasksChange ==
  ASSUME NEW n, NEW t, \A v \in Tasks : v # t => (task'[v].mm = n <=> task[v].mm = n)
  PROVE  /\ Cardinality(TasksOf(n)) \in Nat /\ Cardinality(TasksOf(n)') \in Nat
         /\ Cardinality(TasksOf(n)') =
              Cardinality(TasksOf(n)) + One(t \in TasksOf(n)') - One(t \in TasksOf(n))
<1> DEFINE A == TasksOf(n)
           B == TasksOf(n)'
<1>1. A \in SUBSET Tasks /\ B \in SUBSET Tasks /\ \A v \in Tasks : v # t => (v \in A <=> v \in B)
  BY DEF TasksOf
<1> HIDE DEF A, B
<1> QED  BY <1>1, CountStep, SetsAssumption DEF A, B

LEMMA CallsChange ==
  ASSUME NEW n, NEW t, \A v \in Tasks : v # t => (call'[v].mm = n <=> call[v].mm = n)
  PROVE  /\ Cardinality(CallsOf(n)) \in Nat /\ Cardinality(CallsOf(n)') \in Nat
         /\ Cardinality(CallsOf(n)') =
              Cardinality(CallsOf(n)) + One(t \in CallsOf(n)') - One(t \in CallsOf(n))
<1> DEFINE A == CallsOf(n)
           B == CallsOf(n)'
<1>1. A \in SUBSET Tasks /\ B \in SUBSET Tasks /\ \A v \in Tasks : v # t => (v \in A <=> v \in B)
  BY DEF CallsOf
<1> HIDE DEF A, B
<1> QED  BY <1>1, CountStep, SetsAssumption DEF A, B

LEMMA ReadersChange ==
  ASSUME NEW n, NEW r, \A q \in Readers : q # r => reader'[q] = reader[q]
  PROVE  /\ Cardinality(ReadersOf(n)) \in Nat /\ Cardinality(ReadersOf(n)') \in Nat
         /\ Cardinality(ReadersOf(n)') =
              Cardinality(ReadersOf(n)) + One(r \in ReadersOf(n)') - One(r \in ReadersOf(n))
<1> DEFINE A == ReadersOf(n)
           B == ReadersOf(n)'
<1>1. /\ A \in SUBSET Readers /\ B \in SUBSET Readers
      /\ \A q \in Readers : q # r => (q \in A <=> q \in B)
  BY DEF ReadersOf
<1> HIDE DEF A, B
<1> QED  BY <1>1, CountStep, SetsAssumption DEF A, B

LEMMA KthreadsChange ==
  ASSUME NEW n, NEW k, \A h \in Kthreads : h # k => kthread'[h] = kthread[h]
  PROVE  /\ Cardinality(UsesOf(n)) \in Nat /\ Cardinality(UsesOf(n)') \in Nat
         /\ Cardinality(UsesOf(n)') =
              Cardinality(UsesOf(n)) + One(k \in UsesOf(n)') - One(k \in UsesOf(n))
         /\ Cardinality(BorrowsOf(n)) \in Nat /\ Cardinality(BorrowsOf(n)') \in Nat
         /\ Cardinality(BorrowsOf(n)') =
              Cardinality(BorrowsOf(n)) + One(k \in BorrowsOf(n)') - One(k \in BorrowsOf(n))
<1> DEFINE A == UsesOf(n)
           B == UsesOf(n)'
           C == BorrowsOf(n)
           D == BorrowsOf(n)'
<1>1. /\ A \in SUBSET Kthreads /\ B \in SUBSET Kthreads
      /\ \A h \in Kthreads : h # k => (h \in A <=> h \in B)
  BY DEF UsesOf
<1>2. /\ C \in SUBSET Kthreads /\ D \in SUBSET Kthreads
      /\ \A h \in Kthreads : h # k => (h \in C <=> h \in D)
  BY DEF BorrowsOf
<1> HIDE DEF A, B, C, D
<1>3. /\ Cardinality(A) \in Nat /\ Cardinality(B) \in Nat
      /\ Cardinality(B) = Cardinality(A) + One(k \in B) - One(k \in A)
  BY <1>1, CountStep, SetsAssumption
<1>4. /\ Cardinality(C) \in Nat /\ Cardinality(D) \in Nat
      /\ Cardinality(D) = Cardinality(C) + One(k \in D) - One(k \in C)
  BY <1>2, CountStep, SetsAssumption
<1> QED  BY <1>3, <1>4 DEF A, B, C, D

LEMMA UsersNow ==
  ASSUME NEW n
  PROVE  /\ UsersOf(n) = Cardinality(TasksOf(n)) + Cardinality(CallsOf(n))
                         + Cardinality(ReadersOf(n)) + Cardinality(UsesOf(n))
         /\ UsersOf(n)' = Cardinality(TasksOf(n)') + Cardinality(CallsOf(n)')
                          + Cardinality(ReadersOf(n)') + Cardinality(UsesOf(n)')
BY DEF UsersOf, TasksOf, CallsOf, ReadersOf, UsesOf

LEMMA SameTasks == ASSUME NEW n, \A v \in Tasks : task'[v].mm = task[v].mm PROVE TasksOf(n)' = TasksOf(n)
BY DEF TasksOf
LEMMA SameCalls == ASSUME NEW n, \A v \in Tasks : call'[v].mm = call[v].mm PROVE CallsOf(n)' = CallsOf(n)
BY DEF CallsOf
LEMMA SameReaders == ASSUME NEW n, UNCHANGED reader PROVE ReadersOf(n)' = ReadersOf(n)
BY DEF ReadersOf
LEMMA SameKthreads ==
  ASSUME NEW n, UNCHANGED kthread
  PROVE  UsesOf(n)' = UsesOf(n) /\ BorrowsOf(n)' = BorrowsOf(n)
BY DEF UsesOf, BorrowsOf

\* The counts of n are exact.
Exact(n) ==
  /\ mm[n].users = UsersOf(n)
  /\ mm[n].count = Cardinality(BorrowsOf(n)) + (IF mm[n].state \in {"live", "dying"} THEN 1 ELSE 0)
  /\ mm[n].state = "live" <=> mm[n].users # 0
  /\ mm[n].state = "free" => mm[n].count = 0

LEMMA ExactParts == UsersInv <=> \A n \in Mms : Exact(n)
BY DEF UsersInv, CountsExact, Exact, BorrowsOf
LEMMA ExactLater == (\A n \in Mms : Exact(n)') => UsersInv'
BY DEF UsersInv, CountsExact, Exact, BorrowsOf

\* Nothing changes for n.
LEMMA ExactSame ==
  ASSUME NEW n, Exact(n), SameLife(mm'[n], mm[n]), UsersOf(n)' = UsersOf(n),
         Cardinality(BorrowsOf(n)') = Cardinality(BorrowsOf(n))
  PROVE  Exact(n)'
BY DEF Exact, SameLife

\* One user less.
LEMMA PutExact ==
  ASSUME UsersInv, mm \in MmsType, NEW m, NEW x, PutDone(m, x),
         \A n \in Mms : /\ UsersOf(n) \in Nat /\ UsersOf(n)' \in Nat
                        /\ UsersOf(n)' = UsersOf(n) - One(n = m)
                        /\ Cardinality(BorrowsOf(n)') = Cardinality(BorrowsOf(n))
  PROVE  UsersInv'
<1> SUFFICES ASSUME NEW n \in Mms PROVE Exact(n)'
  BY ExactLater
<1>1. Exact(n) /\ UsersOf(n) \in Nat /\ UsersOf(n)' \in Nat
      /\ UsersOf(n)' = UsersOf(n) - One(n = m)
      /\ Cardinality(BorrowsOf(n)') = Cardinality(BorrowsOf(n))
  BY ExactParts
<1>2. CASE n = m
  <2>1. One(n = m) = 1
    BY <1>2 DEF One
  <2>2. mm'[n] = x /\ x.users = mm[n].users - 1 /\ x.count = mm[n].count
        /\ x.state = IF mm[n].users = 1 THEN "dying" ELSE mm[n].state
    BY <1>2 DEF PutDone, MmIs, MmsType
  <2>3. UsersOf(n) # 0 /\ UsersOf(n)' = UsersOf(n) - 1 /\ mm[n].users = UsersOf(n) /\ mm[n].state = "live"
    BY <1>1, <2>1 DEF Exact
  <2> QED  BY <1>1, <2>2, <2>3 DEF Exact
<1>3. CASE n # m
  <2>1. One(n = m) = 0
    BY <1>3 DEF One
  <2>2. mm'[n] = mm[n]
    BY <1>3 DEF PutDone, MmIs, MmsType
  <2>3. UsersOf(n)' = UsersOf(n)
    BY <1>1, <2>1
  <2> QED  BY <1>1, <2>2, <2>3 DEF Exact
<1> QED  BY <1>2, <1>3

\* One user more, of an mm that is live.
LEMMA GetExact ==
  ASSUME UsersInv, mm \in MmsType, NEW m, NEW x, GetDone(m, x), mm[m].state = "live",
         \A n \in Mms : /\ UsersOf(n) \in Nat /\ UsersOf(n)' \in Nat
                        /\ UsersOf(n)' = UsersOf(n) + One(n = m)
                        /\ Cardinality(BorrowsOf(n)') = Cardinality(BorrowsOf(n))
  PROVE  UsersInv'
<1> SUFFICES ASSUME NEW n \in Mms PROVE Exact(n)'
  BY ExactLater
<1>1. Exact(n) /\ UsersOf(n) \in Nat /\ UsersOf(n)' \in Nat
      /\ UsersOf(n)' = UsersOf(n) + One(n = m)
      /\ Cardinality(BorrowsOf(n)') = Cardinality(BorrowsOf(n))
  BY ExactParts
<1>2. CASE n = m
  <2>1. One(n = m) = 1
    BY <1>2 DEF One
  <2>2. mm'[n] = x /\ x.users = mm[n].users + 1 /\ x.count = mm[n].count /\ x.state = mm[n].state
    BY <1>2 DEF GetDone, MmIs, MmsType
  <2> QED  BY <1>1, <1>2, <2>1, <2>2 DEF Exact
<1>3. CASE n # m
  <2>1. One(n = m) = 0
    BY <1>3 DEF One
  <2>2. mm'[n] = mm[n]
    BY <1>3 DEF GetDone, MmIs, MmsType
  <2>3. UsersOf(n)' = UsersOf(n)
    BY <1>1, <2>1
  <2> QED  BY <1>1, <2>2, <2>3 DEF Exact
<1> QED  BY <1>2, <1>3

\* An mm that was free has its first user.
LEMMA NewExact ==
  ASSUME UsersInv, mm \in MmsType, NEW m, NEW x, MmIs(m, x), mm[m].state = "free",
         x.state = "live", x.users = 1, x.count = 1,
         \A n \in Mms : /\ UsersOf(n) \in Nat
                        /\ UsersOf(n)' = UsersOf(n) + One(n = m)
                        /\ Cardinality(BorrowsOf(n)) \in Nat
                        /\ Cardinality(BorrowsOf(n)') = Cardinality(BorrowsOf(n))
  PROVE  UsersInv'
<1> SUFFICES ASSUME NEW n \in Mms PROVE Exact(n)'
  BY ExactLater
<1>1. Exact(n) /\ UsersOf(n) \in Nat
      /\ UsersOf(n)' = UsersOf(n) + One(n = m)
      /\ Cardinality(BorrowsOf(n)) \in Nat
      /\ Cardinality(BorrowsOf(n)') = Cardinality(BorrowsOf(n))
  BY ExactParts
<1>2. CASE n = m
  <2>1. One(n = m) = 1
    BY <1>2 DEF One
  <2>2. mm'[n] = x
    BY <1>2 DEF MmIs, MmsType
  <2>3. UsersOf(n) = 0 /\ Cardinality(BorrowsOf(n)) = 0
    BY <1>1, <1>2 DEF Exact
  <2> QED  BY <1>1, <2>1, <2>2, <2>3 DEF Exact
<1>3. CASE n # m
  <2>1. One(n = m) = 0
    BY <1>3 DEF One
  <2>2. mm'[n] = mm[n]
    BY <1>3 DEF MmIs, MmsType
  <2>3. UsersOf(n)' = UsersOf(n)
    BY <1>1, <2>1
  <2> QED  BY <1>1, <2>2, <2>3 DEF Exact
<1> QED  BY <1>2, <1>3

LEMMA OneSame == \A a, b \in BOOLEAN : (a <=> b) => One(a) = One(b)
BY DEF One

\* Tasks c and t change, and what t calls.
LEMMA TaskUsers ==
  ASSUME NEW c \in Tasks, NEW t \in Tasks, NEW n, UNCHANGED <<reader, kthread>>,
         \A v \in Tasks : v # c => task'[v].mm = task[v].mm,
         \A v \in Tasks : v # t => call'[v].mm = call[v].mm
  PROVE  /\ UsersOf(n) \in Nat /\ UsersOf(n)' \in Nat
         /\ UsersOf(n)' = UsersOf(n) + One(task'[c].mm = n) - One(task[c].mm = n)
                          + One(call'[t].mm = n) - One(call[t].mm = n)
         /\ Cardinality(BorrowsOf(n)) \in Nat
         /\ Cardinality(BorrowsOf(n)') = Cardinality(BorrowsOf(n))
<1>1. /\ Cardinality(TasksOf(n)) \in Nat /\ Cardinality(TasksOf(n)') \in Nat
      /\ Cardinality(TasksOf(n)') =
           Cardinality(TasksOf(n)) + One(c \in TasksOf(n)') - One(c \in TasksOf(n))
  BY TasksChange
<1>2. /\ Cardinality(CallsOf(n)) \in Nat /\ Cardinality(CallsOf(n)') \in Nat
      /\ Cardinality(CallsOf(n)') =
           Cardinality(CallsOf(n)) + One(t \in CallsOf(n)') - One(t \in CallsOf(n))
  BY CallsChange
<1>3. One(c \in TasksOf(n)') = One(task'[c].mm = n) /\ One(c \in TasksOf(n)) = One(task[c].mm = n)
  BY DEF One, TasksOf
<1>4. One(t \in CallsOf(n)') = One(call'[t].mm = n) /\ One(t \in CallsOf(n)) = One(call[t].mm = n)
  BY DEF One, CallsOf
<1>5. ReadersOf(n)' = ReadersOf(n) /\ UsesOf(n)' = UsesOf(n) /\ BorrowsOf(n)' = BorrowsOf(n)
  BY SameReaders, SameKthreads
<1>6. Cardinality(ReadersOf(n)) \in Nat /\ Cardinality(UsesOf(n)) \in Nat /\ Cardinality(BorrowsOf(n)) \in Nat
  BY UsersSum
<1>7. /\ UsersOf(n) = Cardinality(TasksOf(n)) + Cardinality(CallsOf(n))
                      + Cardinality(ReadersOf(n)) + Cardinality(UsesOf(n))
      /\ UsersOf(n)' = Cardinality(TasksOf(n)') + Cardinality(CallsOf(n)')
                       + Cardinality(ReadersOf(n)) + Cardinality(UsesOf(n))
  BY <1>5, UsersNow
<1>8. \A b : One(b) \in {0, 1}
  BY DEF One
<1> QED  BY <1>1, <1>2, <1>3, <1>4, <1>5, <1>6, <1>7, <1>8

\* Reader r changes.
LEMMA ReaderUsers ==
  ASSUME NEW r, NEW n, UNCHANGED <<task, call, kthread>>,
         \A q \in Readers : q # r => reader'[q] = reader[q]
  PROVE  /\ UsersOf(n) \in Nat /\ UsersOf(n)' \in Nat
         /\ UsersOf(n)' = UsersOf(n) + One(r \in ReadersOf(n)') - One(r \in ReadersOf(n))
         /\ Cardinality(BorrowsOf(n)) \in Nat
         /\ Cardinality(BorrowsOf(n)') = Cardinality(BorrowsOf(n))
<1>1. /\ Cardinality(ReadersOf(n)) \in Nat /\ Cardinality(ReadersOf(n)') \in Nat
      /\ Cardinality(ReadersOf(n)') =
           Cardinality(ReadersOf(n)) + One(r \in ReadersOf(n)') - One(r \in ReadersOf(n))
  BY ReadersChange
<1>2. TasksOf(n)' = TasksOf(n) /\ CallsOf(n)' = CallsOf(n)
      /\ UsesOf(n)' = UsesOf(n) /\ BorrowsOf(n)' = BorrowsOf(n)
  BY SameTasks, SameCalls, SameKthreads
<1>3. /\ Cardinality(TasksOf(n)) \in Nat /\ Cardinality(CallsOf(n)) \in Nat
      /\ Cardinality(UsesOf(n)) \in Nat /\ Cardinality(BorrowsOf(n)) \in Nat
  BY UsersSum
<1>4. /\ UsersOf(n) = Cardinality(TasksOf(n)) + Cardinality(CallsOf(n))
                      + Cardinality(ReadersOf(n)) + Cardinality(UsesOf(n))
      /\ UsersOf(n)' = Cardinality(TasksOf(n)) + Cardinality(CallsOf(n))
                       + Cardinality(ReadersOf(n)') + Cardinality(UsesOf(n))
  BY <1>2, UsersNow
<1>5. \A b : One(b) \in {0, 1}
  BY DEF One
<1> QED  BY <1>1, <1>2, <1>3, <1>4, <1>5

\* Kernel thread k changes.
LEMMA KthreadUsers ==
  ASSUME NEW k, NEW n, UNCHANGED <<task, call, reader>>,
         \A h \in Kthreads : h # k => kthread'[h] = kthread[h]
  PROVE  /\ UsersOf(n) \in Nat /\ UsersOf(n)' \in Nat
         /\ UsersOf(n)' = UsersOf(n) + One(k \in UsesOf(n)') - One(k \in UsesOf(n))
         /\ Cardinality(BorrowsOf(n)) \in Nat /\ Cardinality(BorrowsOf(n)') \in Nat
         /\ Cardinality(BorrowsOf(n)') =
              Cardinality(BorrowsOf(n)) + One(k \in BorrowsOf(n)') - One(k \in BorrowsOf(n))
<1>1. /\ Cardinality(UsesOf(n)) \in Nat /\ Cardinality(UsesOf(n)') \in Nat
      /\ Cardinality(UsesOf(n)') =
           Cardinality(UsesOf(n)) + One(k \in UsesOf(n)') - One(k \in UsesOf(n))
      /\ Cardinality(BorrowsOf(n)) \in Nat /\ Cardinality(BorrowsOf(n)') \in Nat
      /\ Cardinality(BorrowsOf(n)') =
           Cardinality(BorrowsOf(n)) + One(k \in BorrowsOf(n)') - One(k \in BorrowsOf(n))
  BY KthreadsChange
<1>2. TasksOf(n)' = TasksOf(n) /\ CallsOf(n)' = CallsOf(n) /\ ReadersOf(n)' = ReadersOf(n)
  BY SameTasks, SameCalls, SameReaders
<1>3. /\ Cardinality(TasksOf(n)) \in Nat /\ Cardinality(CallsOf(n)) \in Nat
      /\ Cardinality(ReadersOf(n)) \in Nat
  BY UsersSum
<1>4. /\ UsersOf(n) = Cardinality(TasksOf(n)) + Cardinality(CallsOf(n))
                      + Cardinality(ReadersOf(n)) + Cardinality(UsesOf(n))
      /\ UsersOf(n)' = Cardinality(TasksOf(n)) + Cardinality(CallsOf(n))
                       + Cardinality(ReadersOf(n)) + Cardinality(UsesOf(n)')
  BY <1>2, UsersNow
<1>5. \A b : One(b) \in {0, 1}
  BY DEF One
<1> QED  BY <1>1, <1>2, <1>3, <1>4, <1>5

LEMMA AllSame ==
  ASSUME UsersInv, \A n \in Mms : /\ SameLife(mm'[n], mm[n]) /\ UsersOf(n)' = UsersOf(n)
                                  /\ Cardinality(BorrowsOf(n)') = Cardinality(BorrowsOf(n))
  PROVE  UsersInv'
<1> SUFFICES ASSUME NEW n \in Mms PROVE Exact(n)'
  BY ExactLater
<1> QED  BY ExactParts, ExactSame

LEMMA UsersStep ==
  ASSUME Basic, UsersInv, Steps
  PROVE  UsersInv'
<1>1. Typed /\ Shape /\ LockInv
  BY DEF Basic
<1>2. Structs /\ mm \in MmsType /\ None \notin Mms /\ \A b : One(b) \in {0, 1}
  BY <1>1, TypedParts, SetsAssumption DEF Structs, One
<1>3. \A u \in Tasks : /\ Forking(u) => call[u].mm \in Mms /\ task[u].mm \in Mms /\ Alive(u)
                       /\ At(u, "exec") => call[u].mm \in Mms /\ task[u].mm \in Mms
                       /\ Alive(u) <=> task[u].mm \in Mms
                       /\ task[u].mm \in Mms \cup {None} /\ call[u].mm \in Mms \cup {None}
  <2> SUFFICES ASSUME NEW u \in Tasks
               PROVE  /\ Forking(u) => call[u].mm \in Mms /\ task[u].mm \in Mms /\ Alive(u)
                      /\ At(u, "exec") => call[u].mm \in Mms /\ task[u].mm \in Mms
                      /\ Alive(u) <=> task[u].mm \in Mms
                      /\ task[u].mm \in Mms \cup {None} /\ call[u].mm \in Mms \cup {None}
    OBVIOUS
  <2>1. Alive(u) <=> task[u].mm # None
    BY <1>1 DEF Shape, TaskShape
  <2> QED  BY <1>1, <1>2, <2>1, HasMm, PointersType
<1>4. \A q \in Readers : /\ ReaderShape(q) /\ reader[q] \in ReaderType
                         /\ Reads(q, "check") \/ Reads(q, "held") => reader[q].mm \in Mms
  BY <1>1, ReaderFacts DEF Shape
<1>5. \A n \in Mms : mm[n].state # "live" =>
        /\ \A u \in Tasks : task[u].mm # n /\ call[u].mm # n
        /\ \A q \in Readers : reader[q].mm # n
        /\ \A h \in Kthreads : kthread[h].mm = n => ~kthread[h].uses /\ mm[n].state # "free"
  BY <1>1, NobodyHas
<1>6. /\ \A u \in Tasks : /\ task[u].mm \in Mms => mm[task[u].mm].state = "live"
                          /\ call[u].mm \in Mms => mm[call[u].mm].state = "live"
      /\ \A q \in Readers : reader[q].mm \in Mms => mm[reader[q].mm].state = "live"
      /\ \A h \in Kthreads : /\ kthread[h] \in KthreadType
                             /\ kthread[h].uses => kthread[h].mm \in Mms /\ mm[kthread[h].mm].state = "live"
  BY <1>1, HasLive, KthreadFacts
<1>7. /\ NoCall.at = "user" /\ NoCall.mm = None /\ NoCall.charge = 0
      /\ Idle.at = "idle" /\ Idle.mm = None /\ Idle.file = None /\ Idle.access = FALSE
  BY FreeType
<1>8. ASSUME Quiet PROVE UsersInv'
  <2>1. /\ UNCHANGED <<task, reader, kthread>>
        /\ \A u \in Tasks : call'[u].mm = call[u].mm
        /\ \A n \in Mms : SameLife(mm'[n], mm[n])
    BY <1>8 DEF Quiet, Rest
  <2>2. ASSUME NEW n \in Mms PROVE UsersOf(n)' = UsersOf(n) /\ BorrowsOf(n)' = BorrowsOf(n)
    BY <2>1, UsersNow, SameTasks, SameCalls, SameReaders, SameKthreads
  <2> QED  BY <2>1, <2>2, AllSame
<1>9. ASSUME NEW t \in Tasks, NEW m, NEW x, NEW y, AllocDone(t, m, x, y) PROVE UsersInv'
  <2>1. /\ UNCHANGED <<reader, kthread>>
        /\ \A v \in Tasks : v # t => task'[v].mm = task[v].mm
        /\ \A v \in Tasks : v # t => call'[v].mm = call[v].mm
        /\ t \in Tasks /\ task'[t].mm = task[t].mm /\ call[t].mm = None /\ call'[t].mm = m
    BY <1>1, <1>2, <1>3, <1>7, <1>9, HasMm DEF AllocDone, CallIs, Structs, Rest, At, Alive
  <2>2. ASSUME NEW n \in Mms
        PROVE  /\ UsersOf(n) \in Nat /\ UsersOf(n)' \in Nat
               /\ UsersOf(n)' = UsersOf(n) + One(n = m)
               /\ Cardinality(BorrowsOf(n)) \in Nat
               /\ Cardinality(BorrowsOf(n)') = Cardinality(BorrowsOf(n))
    <3>1. /\ One(task'[t].mm = n) = One(task[t].mm = n) /\ One(call[t].mm = n) = 0
          /\ One(call'[t].mm = n) = One(n = m)
      BY <1>2, <2>1 DEF One
    <3>2. /\ UsersOf(n) \in Nat /\ UsersOf(n)' \in Nat
          /\ UsersOf(n)' = UsersOf(n) + One(task'[t].mm = n) - One(task[t].mm = n)
                           + One(call'[t].mm = n) - One(call[t].mm = n)
          /\ Cardinality(BorrowsOf(n)) \in Nat
          /\ Cardinality(BorrowsOf(n)') = Cardinality(BorrowsOf(n))
      BY <2>1, TaskUsers
    <3> QED  BY <1>2, <3>1, <3>2
  <2> QED  BY <1>2, <2>2, <1>9, NewExact DEF AllocDone
<1>10. ASSUME NEW t \in Tasks, NEW c, NEW z, FinishDone(t, c, z) PROVE UsersInv'
  <2>1. /\ UNCHANGED <<reader, kthread>>
        /\ \A v \in Tasks : v # c => task'[v].mm = task[v].mm
        /\ \A v \in Tasks : v # t => call'[v].mm = call[v].mm
        /\ c \in Tasks /\ task[c].mm = None /\ task'[c].mm = call[t].mm /\ call'[t].mm = None
    BY <1>2, <1>3, <1>7, <1>10 DEF FinishDone, TaskIs, CallIs, Structs, Rest, At, Alive
  <2>2. ASSUME NEW n \in Mms
        PROVE  /\ UsersOf(n) \in Nat /\ UsersOf(n)' \in Nat
               /\ UsersOf(n)' = UsersOf(n) 
               /\ Cardinality(BorrowsOf(n)) \in Nat
               /\ Cardinality(BorrowsOf(n)') = Cardinality(BorrowsOf(n))
    <3>1. /\ One(task[c].mm = n) = 0 /\ One(task'[c].mm = n) = One(call[t].mm = n)
          /\ One(call'[t].mm = n) = 0
      BY <1>2, <2>1 DEF One
    <3>2. /\ UsersOf(n) \in Nat /\ UsersOf(n)' \in Nat
          /\ UsersOf(n)' = UsersOf(n) + One(task'[c].mm = n) - One(task[c].mm = n)
                           + One(call'[t].mm = n) - One(call[t].mm = n)
          /\ Cardinality(BorrowsOf(n)) \in Nat
          /\ Cardinality(BorrowsOf(n)') = Cardinality(BorrowsOf(n))
      BY <2>1, TaskUsers
    <3> QED  BY <1>2, <3>1, <3>2
  <2>3. UNCHANGED mm
    BY <1>10 DEF FinishDone
  <2> QED  BY <2>2, <2>3, AllSame DEF SameLife
<1>11. ASSUME NEW t \in Tasks, NEW x, FreePtDone(t, x) PROVE UsersInv'
  <2>1. /\ UNCHANGED <<reader, kthread>>
        /\ \A v \in Tasks : v # t => task'[v].mm = task[v].mm
        /\ \A v \in Tasks : v # t => call'[v].mm = call[v].mm
        /\ t \in Tasks /\ task'[t].mm = task[t].mm /\ call'[t].mm = None
    BY <1>2, <1>3, <1>7, <1>11 DEF FreePtDone, CallIs, Structs, Rest, At, Alive
  <2>2. ASSUME NEW n \in Mms
        PROVE  /\ UsersOf(n) \in Nat /\ UsersOf(n)' \in Nat
               /\ UsersOf(n)' = UsersOf(n) - One(n = call[t].mm)
               /\ Cardinality(BorrowsOf(n)) \in Nat
               /\ Cardinality(BorrowsOf(n)') = Cardinality(BorrowsOf(n))
    <3>1. /\ One(task'[t].mm = n) = One(task[t].mm = n) /\ One(call'[t].mm = n) = 0
          /\ One(call[t].mm = n) = One(n = call[t].mm)
      BY <1>2, <2>1 DEF One
    <3>2. /\ UsersOf(n) \in Nat /\ UsersOf(n)' \in Nat
          /\ UsersOf(n)' = UsersOf(n) + One(task'[t].mm = n) - One(task[t].mm = n)
                           + One(call'[t].mm = n) - One(call[t].mm = n)
          /\ Cardinality(BorrowsOf(n)) \in Nat
          /\ Cardinality(BorrowsOf(n)') = Cardinality(BorrowsOf(n))
      BY <2>1, TaskUsers
    <3> QED  BY <1>2, <3>1, <3>2
  <2> DEFINE m == call[t].mm
  <2>3. m \in Mms /\ mm[m].state = "live"
    BY <1>3, <1>6, <1>11 DEF FreePtDone
  <2>4. UsersOf(m) = 1
    <3>1. Private(t)
      BY <1>11 DEF FreePtDone, Basic, PrivateInv
    <3>2. TasksOf(m) = {} /\ CallsOf(m) = {t} /\ ReadersOf(m) = {} /\ UsesOf(m) = {}
      BY <3>1 DEF Private, TasksOf, CallsOf, ReadersOf, UsesOf
    <3>3. Cardinality({}) = 0 /\ Cardinality({t}) = 1
      BY FS_EmptySet, FS_Singleton
    <3> HIDE DEF m
    <3>4. UsersOf(m) = 0 + 1 + 0 + 0
      BY <3>2, <3>3, UsersNow
    <3> QED  BY <3>4
  <2> SUFFICES ASSUME NEW n \in Mms PROVE Exact(n)'
    BY ExactLater
  <2>5. Exact(n)
    BY ExactParts
  <2>6. CASE n = m
    <3>1. /\ mm'[n].state = "dying" /\ mm'[n].users = 0 /\ mm'[n].count = mm[n].count
          /\ mm[n].state = "live"
      BY <1>2, <2>3, <2>6, <1>11 DEF FreePtDone, MmIs, MmsType
    <3>2. One(n = m) = 1
      BY <2>6 DEF One
    <3>3. UsersOf(n)' = 0
      BY <2>2, <2>4, <2>6, <3>2
    <3> QED  BY <2>2, <2>5, <3>1, <3>3 DEF Exact
  <2>7. CASE n # m
    <3>1. mm'[n] = mm[n]
      BY <1>2, <2>7, <1>11 DEF FreePtDone, MmIs, MmsType
    <3>2. One(n = m) = 0
      BY <2>7 DEF One
    <3>3. UsersOf(n)' = UsersOf(n)
      BY <2>2, <3>2
    <3> QED  BY <2>2, <2>5, <3>1, <3>3 DEF Exact
  <2> QED  BY <2>6, <2>7
<1>12. ASSUME NEW t \in Tasks, NEW x, NEW z, ExitDone(t, x, z) PROVE UsersInv'
  <2>1. /\ UNCHANGED <<reader, kthread>>
        /\ \A v \in Tasks : v # t => task'[v].mm = task[v].mm
        /\ \A v \in Tasks : v # t => call'[v].mm = call[v].mm
        /\ t \in Tasks /\ task'[t].mm = None /\ call'[t].mm = call[t].mm
    BY <1>2, <1>3, <1>7, <1>12 DEF ExitDone, TaskIs, Structs, Rest, At, Alive
  <2>2. ASSUME NEW n \in Mms
        PROVE  /\ UsersOf(n) \in Nat /\ UsersOf(n)' \in Nat
               /\ UsersOf(n)' = UsersOf(n) - One(n = task[t].mm)
               /\ Cardinality(BorrowsOf(n)) \in Nat
               /\ Cardinality(BorrowsOf(n)') = Cardinality(BorrowsOf(n))
    <3>1. /\ One(task'[t].mm = n) = 0 /\ One(task[t].mm = n) = One(n = task[t].mm)
          /\ One(call'[t].mm = n) = One(call[t].mm = n)
      BY <1>2, <2>1 DEF One
    <3>2. /\ UsersOf(n) \in Nat /\ UsersOf(n)' \in Nat
          /\ UsersOf(n)' = UsersOf(n) + One(task'[t].mm = n) - One(task[t].mm = n)
                           + One(call'[t].mm = n) - One(call[t].mm = n)
          /\ Cardinality(BorrowsOf(n)) \in Nat
          /\ Cardinality(BorrowsOf(n)') = Cardinality(BorrowsOf(n))
      BY <2>1, TaskUsers
    <3> QED  BY <1>2, <3>1, <3>2
  <2> QED  BY <1>2, <2>2, <1>12, PutExact DEF ExitDone
<1>13. ASSUME NEW t \in Tasks, NEW m, NEW f, NEW x, NEW y, ExecDone(t, m, f, x, y) PROVE UsersInv'
  <2>1. /\ UNCHANGED <<reader, kthread>>
        /\ \A v \in Tasks : v # t => task'[v].mm = task[v].mm
        /\ \A v \in Tasks : v # t => call'[v].mm = call[v].mm
        /\ t \in Tasks /\ task'[t].mm = task[t].mm /\ call[t].mm = None /\ call'[t].mm = m
    BY <1>1, <1>2, <1>3, <1>7, <1>13, HasMm DEF ExecDone, CallIs, Structs, Rest, At, Alive
  <2>2. ASSUME NEW n \in Mms
        PROVE  /\ UsersOf(n) \in Nat /\ UsersOf(n)' \in Nat
               /\ UsersOf(n)' = UsersOf(n) + One(n = m)
               /\ Cardinality(BorrowsOf(n)) \in Nat
               /\ Cardinality(BorrowsOf(n)') = Cardinality(BorrowsOf(n))
    <3>1. /\ One(task'[t].mm = n) = One(task[t].mm = n) /\ One(call[t].mm = n) = 0
          /\ One(call'[t].mm = n) = One(n = m)
      BY <1>2, <2>1 DEF One
    <3>2. /\ UsersOf(n) \in Nat /\ UsersOf(n)' \in Nat
          /\ UsersOf(n)' = UsersOf(n) + One(task'[t].mm = n) - One(task[t].mm = n)
                           + One(call'[t].mm = n) - One(call[t].mm = n)
          /\ Cardinality(BorrowsOf(n)) \in Nat
          /\ Cardinality(BorrowsOf(n)') = Cardinality(BorrowsOf(n))
      BY <2>1, TaskUsers
    <3> QED  BY <1>2, <3>1, <3>2
  <2> QED  BY <1>2, <2>2, <1>13, NewExact DEF ExecDone
<1>14. ASSUME NEW t \in Tasks, NEW x, ExecFailsDone(t, x) PROVE UsersInv'
  <2>1. /\ UNCHANGED <<reader, kthread>>
        /\ \A v \in Tasks : v # t => task'[v].mm = task[v].mm
        /\ \A v \in Tasks : v # t => call'[v].mm = call[v].mm
        /\ t \in Tasks /\ task'[t].mm = task[t].mm /\ call'[t].mm = None
    BY <1>2, <1>3, <1>7, <1>14 DEF ExecFailsDone, CallIs, Structs, Rest, At, Alive
  <2>2. ASSUME NEW n \in Mms
        PROVE  /\ UsersOf(n) \in Nat /\ UsersOf(n)' \in Nat
               /\ UsersOf(n)' = UsersOf(n) - One(n = call[t].mm)
               /\ Cardinality(BorrowsOf(n)) \in Nat
               /\ Cardinality(BorrowsOf(n)') = Cardinality(BorrowsOf(n))
    <3>1. /\ One(task'[t].mm = n) = One(task[t].mm = n) /\ One(call'[t].mm = n) = 0
          /\ One(call[t].mm = n) = One(n = call[t].mm)
      BY <1>2, <2>1 DEF One
    <3>2. /\ UsersOf(n) \in Nat /\ UsersOf(n)' \in Nat
          /\ UsersOf(n)' = UsersOf(n) + One(task'[t].mm = n) - One(task[t].mm = n)
                           + One(call'[t].mm = n) - One(call[t].mm = n)
          /\ Cardinality(BorrowsOf(n)) \in Nat
          /\ Cardinality(BorrowsOf(n)') = Cardinality(BorrowsOf(n))
      BY <2>1, TaskUsers
    <3> QED  BY <1>2, <3>1, <3>2
  <2> QED  BY <1>2, <2>2, <1>14, PutExact DEF ExecFailsDone
<1>15. ASSUME NEW t \in Tasks, NEW x, NEW y, NEW z, ExecMmapDone(t, x, y, z) PROVE UsersInv'
  <2>1. /\ UNCHANGED <<reader, kthread>>
        /\ \A v \in Tasks : v # t => task'[v].mm = task[v].mm
        /\ \A v \in Tasks : v # t => call'[v].mm = call[v].mm
        /\ t \in Tasks /\ task'[t].mm = call[t].mm /\ call'[t].mm = None
    BY <1>2, <1>3, <1>7, <1>15 DEF ExecMmapDone, TaskIs, CallIs, Structs, Rest, At, Alive
  <2>2. ASSUME NEW n \in Mms
        PROVE  /\ UsersOf(n) \in Nat /\ UsersOf(n)' \in Nat
               /\ UsersOf(n)' = UsersOf(n) - One(n = task[t].mm)
               /\ Cardinality(BorrowsOf(n)) \in Nat
               /\ Cardinality(BorrowsOf(n)') = Cardinality(BorrowsOf(n))
    <3>1. /\ One(task'[t].mm = n) = One(call[t].mm = n) /\ One(call'[t].mm = n) = 0
          /\ One(task[t].mm = n) = One(n = task[t].mm)
      BY <1>2, <2>1 DEF One
    <3>2. /\ UsersOf(n) \in Nat /\ UsersOf(n)' \in Nat
          /\ UsersOf(n)' = UsersOf(n) + One(task'[t].mm = n) - One(task[t].mm = n)
                           + One(call'[t].mm = n) - One(call[t].mm = n)
          /\ Cardinality(BorrowsOf(n)) \in Nat
          /\ Cardinality(BorrowsOf(n)') = Cardinality(BorrowsOf(n))
      BY <2>1, TaskUsers
    <3> QED  BY <1>2, <3>1, <3>2
  <2> QED  BY <1>2, <2>2, <1>15, PutExact DEF ExecMmapDone
<1>16. ASSUME NEW t \in Tasks, NEW z, ExecCredsDone(t, z) PROVE UsersInv'
  <2>1. /\ UNCHANGED <<reader, kthread>>
        /\ \A v \in Tasks : v # t => task'[v].mm = task[v].mm
        /\ \A v \in Tasks : v # t => call'[v].mm = call[v].mm
        /\ t \in Tasks /\ task'[t].mm = task[t].mm /\ call[t].mm = None /\ call'[t].mm = None
    BY <1>1, <1>2, <1>3, <1>7, <1>16, HasMm DEF ExecCredsDone, TaskIs, CallIs, Structs, Rest, At,
       Alive
  <2>2. ASSUME NEW n \in Mms
        PROVE  /\ UsersOf(n) \in Nat /\ UsersOf(n)' \in Nat
               /\ UsersOf(n)' = UsersOf(n) 
               /\ Cardinality(BorrowsOf(n)) \in Nat
               /\ Cardinality(BorrowsOf(n)') = Cardinality(BorrowsOf(n))
    <3>1. /\ One(task'[t].mm = n) = One(task[t].mm = n) /\ One(call'[t].mm = n) = One(call[t].mm = n)
      BY <1>2, <2>1 DEF One
    <3>2. /\ UsersOf(n) \in Nat /\ UsersOf(n)' \in Nat
          /\ UsersOf(n)' = UsersOf(n) + One(task'[t].mm = n) - One(task[t].mm = n)
                           + One(call'[t].mm = n) - One(call[t].mm = n)
          /\ Cardinality(BorrowsOf(n)) \in Nat
          /\ Cardinality(BorrowsOf(n)') = Cardinality(BorrowsOf(n))
      BY <2>1, TaskUsers
    <3> QED  BY <1>2, <3>1, <3>2
  <2>3. UNCHANGED mm
    BY <1>16 DEF ExecCredsDone
  <2> QED  BY <2>2, <2>3, AllSame DEF SameLife
<1>17. ASSUME NEW r \in Readers, NEW t, NEW access, NEW y, LookDone(r, t, access, y) PROVE UsersInv'
  <2>1. /\ UNCHANGED <<task, call, kthread>>
        /\ \A q \in Readers : q # r => reader'[q] = reader[q]
    BY <1>2, <1>17 DEF LookDone, ReaderIs, Structs
  <2>2. ASSUME NEW n \in Mms
        PROVE  /\ UsersOf(n) \in Nat /\ UsersOf(n)' \in Nat
               /\ UsersOf(n)' = UsersOf(n) 
               /\ Cardinality(BorrowsOf(n)) \in Nat
               /\ Cardinality(BorrowsOf(n)') = Cardinality(BorrowsOf(n))
    <3>1. One(r \in ReadersOf(n)') = One(r \in ReadersOf(n))
      BY <1>2, <1>4, <1>7, <1>17 DEF LookDone, ReaderIs, Structs, ReadersOf, ReaderShape, Reads, One
    <3>2. /\ UsersOf(n) \in Nat /\ UsersOf(n)' \in Nat
          /\ UsersOf(n)' = UsersOf(n) + One(r \in ReadersOf(n)') - One(r \in ReadersOf(n))
          /\ Cardinality(BorrowsOf(n)) \in Nat
          /\ Cardinality(BorrowsOf(n)') = Cardinality(BorrowsOf(n))
      BY <2>1, ReaderUsers
    <3> QED  BY <1>2, <3>1, <3>2
  <2>3. UNCHANGED mm
    BY <1>17 DEF LookDone
  <2> QED  BY <2>2, <2>3, AllSame DEF SameLife
<1>18. ASSUME NEW r \in Readers, NEW y, ReadDone(r, y) PROVE UsersInv'
  <2>1. /\ UNCHANGED <<task, call, kthread>>
        /\ \A q \in Readers : q # r => reader'[q] = reader[q]
    BY <1>2, <1>18 DEF ReadDone, ReaderIs, Structs
  <2>2. ASSUME NEW n \in Mms
        PROVE  /\ UsersOf(n) \in Nat /\ UsersOf(n)' \in Nat
               /\ UsersOf(n)' = UsersOf(n) 
               /\ Cardinality(BorrowsOf(n)) \in Nat
               /\ Cardinality(BorrowsOf(n)') = Cardinality(BorrowsOf(n))
    <3>1. One(r \in ReadersOf(n)') = One(r \in ReadersOf(n))
      BY <1>2, <1>4, <1>7, <1>18 DEF ReadDone, ReaderIs, Structs, ReadersOf, ReaderShape, Reads, One
    <3>2. /\ UsersOf(n) \in Nat /\ UsersOf(n)' \in Nat
          /\ UsersOf(n)' = UsersOf(n) + One(r \in ReadersOf(n)') - One(r \in ReadersOf(n))
          /\ Cardinality(BorrowsOf(n)) \in Nat
          /\ Cardinality(BorrowsOf(n)') = Cardinality(BorrowsOf(n))
      BY <2>1, ReaderUsers
    <3> QED  BY <1>2, <3>1, <3>2
  <2>3. UNCHANGED mm
    BY <1>18 DEF ReadDone
  <2> QED  BY <2>2, <2>3, AllSame DEF SameLife
<1>19. ASSUME NEW r \in Readers, NoneDone(r) PROVE UsersInv'
  <2>1. /\ UNCHANGED <<task, call, kthread>>
        /\ \A q \in Readers : q # r => reader'[q] = reader[q]
    BY <1>2, <1>19 DEF NoneDone, ReaderIs, Structs
  <2>2. ASSUME NEW n \in Mms
        PROVE  /\ UsersOf(n) \in Nat /\ UsersOf(n)' \in Nat
               /\ UsersOf(n)' = UsersOf(n) 
               /\ Cardinality(BorrowsOf(n)) \in Nat
               /\ Cardinality(BorrowsOf(n)') = Cardinality(BorrowsOf(n))
    <3>1. One(r \in ReadersOf(n)') = One(r \in ReadersOf(n))
      BY <1>2, <1>4, <1>7, <1>19 DEF NoneDone, ReaderIs, Structs, ReadersOf, ReaderShape, Reads, One
    <3>2. /\ UsersOf(n) \in Nat /\ UsersOf(n)' \in Nat
          /\ UsersOf(n)' = UsersOf(n) + One(r \in ReadersOf(n)') - One(r \in ReadersOf(n))
          /\ Cardinality(BorrowsOf(n)) \in Nat
          /\ Cardinality(BorrowsOf(n)') = Cardinality(BorrowsOf(n))
      BY <2>1, ReaderUsers
    <3> QED  BY <1>2, <3>1, <3>2
  <2>3. UNCHANGED mm
    BY <1>19 DEF NoneDone
  <2> QED  BY <2>2, <2>3, AllSame DEF SameLife
<1>20. ASSUME NEW r \in Readers, NEW x, NEW y, SomeDone(r, x, y) PROVE UsersInv'
  <2>1. /\ UNCHANGED <<task, call, kthread>>
        /\ \A q \in Readers : q # r => reader'[q] = reader[q]
    BY <1>2, <1>20 DEF SomeDone, ReaderIs, Structs
  <2>2. ASSUME NEW n \in Mms
        PROVE  /\ UsersOf(n) \in Nat /\ UsersOf(n)' \in Nat
               /\ UsersOf(n)' = UsersOf(n) + One(n = reader[r].mm)
               /\ Cardinality(BorrowsOf(n)) \in Nat
               /\ Cardinality(BorrowsOf(n)') = Cardinality(BorrowsOf(n))
    <3>1. One(r \in ReadersOf(n)') = One(n = reader[r].mm) /\ One(r \in ReadersOf(n)) = 0
      BY <1>2, <1>4, <1>7, <1>20 DEF SomeDone, ReaderIs, Structs, ReadersOf, ReaderShape, Reads, One
    <3>2. /\ UsersOf(n) \in Nat /\ UsersOf(n)' \in Nat
          /\ UsersOf(n)' = UsersOf(n) + One(r \in ReadersOf(n)') - One(r \in ReadersOf(n))
          /\ Cardinality(BorrowsOf(n)) \in Nat
          /\ Cardinality(BorrowsOf(n)') = Cardinality(BorrowsOf(n))
      BY <2>1, ReaderUsers
    <3> QED  BY <1>2, <3>1, <3>2
  <2>3. mm[reader[r].mm].state = "live"
    BY <1>6, <1>20 DEF SomeDone, GetDone, MmIs
  <2> QED  BY <1>2, <2>2, <2>3, <1>20, GetExact DEF SomeDone
<1>21. ASSUME NEW r \in Readers, NEW y, AllowDone(r, y) PROVE UsersInv'
  <2>1. /\ UNCHANGED <<task, call, kthread>>
        /\ \A q \in Readers : q # r => reader'[q] = reader[q]
    BY <1>2, <1>21 DEF AllowDone, ReaderIs, Structs
  <2>2. ASSUME NEW n \in Mms
        PROVE  /\ UsersOf(n) \in Nat /\ UsersOf(n)' \in Nat
               /\ UsersOf(n)' = UsersOf(n) 
               /\ Cardinality(BorrowsOf(n)) \in Nat
               /\ Cardinality(BorrowsOf(n)') = Cardinality(BorrowsOf(n))
    <3>1. One(r \in ReadersOf(n)') = One(r \in ReadersOf(n))
      BY <1>2, <1>4, <1>7, <1>21 DEF AllowDone, ReaderIs, Structs, ReadersOf, ReaderShape, Reads,
         One
    <3>2. /\ UsersOf(n) \in Nat /\ UsersOf(n)' \in Nat
          /\ UsersOf(n)' = UsersOf(n) + One(r \in ReadersOf(n)') - One(r \in ReadersOf(n))
          /\ Cardinality(BorrowsOf(n)) \in Nat
          /\ Cardinality(BorrowsOf(n)') = Cardinality(BorrowsOf(n))
      BY <2>1, ReaderUsers
    <3> QED  BY <1>2, <3>1, <3>2
  <2>3. UNCHANGED mm
    BY <1>21 DEF AllowDone
  <2> QED  BY <2>2, <2>3, AllSame DEF SameLife
<1>22. ASSUME NEW r \in Readers, NEW x, DenyDone(r, x) PROVE UsersInv'
  <2>1. /\ UNCHANGED <<task, call, kthread>>
        /\ \A q \in Readers : q # r => reader'[q] = reader[q]
    BY <1>2, <1>22 DEF DenyDone, ReaderIs, Structs
  <2>2. ASSUME NEW n \in Mms
        PROVE  /\ UsersOf(n) \in Nat /\ UsersOf(n)' \in Nat
               /\ UsersOf(n)' = UsersOf(n) - One(n = reader[r].mm)
               /\ Cardinality(BorrowsOf(n)) \in Nat
               /\ Cardinality(BorrowsOf(n)') = Cardinality(BorrowsOf(n))
    <3>1. One(r \in ReadersOf(n)') = 0 /\ One(r \in ReadersOf(n)) = One(n = reader[r].mm)
      BY <1>2, <1>4, <1>7, <1>22 DEF DenyDone, ReaderIs, Structs, ReadersOf, ReaderShape, Reads, One
    <3>2. /\ UsersOf(n) \in Nat /\ UsersOf(n)' \in Nat
          /\ UsersOf(n)' = UsersOf(n) + One(r \in ReadersOf(n)') - One(r \in ReadersOf(n))
          /\ Cardinality(BorrowsOf(n)) \in Nat
          /\ Cardinality(BorrowsOf(n)') = Cardinality(BorrowsOf(n))
      BY <2>1, ReaderUsers
    <3> QED  BY <1>2, <3>1, <3>2
  <2> QED  BY <1>2, <2>2, <1>22, PutExact DEF DenyDone
<1>23. ASSUME NEW r \in Readers, NEW x, PutMmDone(r, x) PROVE UsersInv'
  <2>1. /\ UNCHANGED <<task, call, kthread>>
        /\ \A q \in Readers : q # r => reader'[q] = reader[q]
    BY <1>2, <1>23 DEF PutMmDone, ReaderIs, Structs
  <2>2. ASSUME NEW n \in Mms
        PROVE  /\ UsersOf(n) \in Nat /\ UsersOf(n)' \in Nat
               /\ UsersOf(n)' = UsersOf(n) - One(n = reader[r].mm)
               /\ Cardinality(BorrowsOf(n)) \in Nat
               /\ Cardinality(BorrowsOf(n)') = Cardinality(BorrowsOf(n))
    <3>1. One(r \in ReadersOf(n)') = 0 /\ One(r \in ReadersOf(n)) = One(n = reader[r].mm)
      BY <1>2, <1>4, <1>7, <1>23 DEF PutMmDone, ReaderIs, Structs, ReadersOf, ReaderShape, Reads,
         One
    <3>2. /\ UsersOf(n) \in Nat /\ UsersOf(n)' \in Nat
          /\ UsersOf(n)' = UsersOf(n) + One(r \in ReadersOf(n)') - One(r \in ReadersOf(n))
          /\ Cardinality(BorrowsOf(n)) \in Nat
          /\ Cardinality(BorrowsOf(n)') = Cardinality(BorrowsOf(n))
      BY <2>1, ReaderUsers
    <3> QED  BY <1>2, <3>1, <3>2
  <2> QED  BY <1>2, <2>2, <1>23, PutExact DEF PutMmDone
<1>24. ASSUME NEW r \in Readers, NEW f, NEW y, ExeDone(r, f, y) PROVE UsersInv'
  <2>1. /\ UNCHANGED <<task, call, kthread>>
        /\ \A q \in Readers : q # r => reader'[q] = reader[q]
    BY <1>2, <1>24 DEF ExeDone, ReaderIs, Structs
  <2>2. ASSUME NEW n \in Mms
        PROVE  /\ UsersOf(n) \in Nat /\ UsersOf(n)' \in Nat
               /\ UsersOf(n)' = UsersOf(n) 
               /\ Cardinality(BorrowsOf(n)) \in Nat
               /\ Cardinality(BorrowsOf(n)') = Cardinality(BorrowsOf(n))
    <3>1. One(r \in ReadersOf(n)') = One(r \in ReadersOf(n))
      BY <1>2, <1>4, <1>7, <1>24 DEF ExeDone, ReaderIs, Structs, ReadersOf, ReaderShape, Reads, One
    <3>2. /\ UsersOf(n) \in Nat /\ UsersOf(n)' \in Nat
          /\ UsersOf(n)' = UsersOf(n) + One(r \in ReadersOf(n)') - One(r \in ReadersOf(n))
          /\ Cardinality(BorrowsOf(n)) \in Nat
          /\ Cardinality(BorrowsOf(n)') = Cardinality(BorrowsOf(n))
      BY <2>1, ReaderUsers
    <3> QED  BY <1>2, <3>1, <3>2
  <2>3. UNCHANGED mm
    BY <1>24 DEF ExeDone
  <2> QED  BY <2>2, <2>3, AllSame DEF SameLife
<1>25. ASSUME NEW r \in Readers, PutFileDone(r) PROVE UsersInv'
  <2>1. /\ UNCHANGED <<task, call, kthread>>
        /\ \A q \in Readers : q # r => reader'[q] = reader[q]
    BY <1>2, <1>25 DEF PutFileDone, ReaderIs, Structs
  <2>2. ASSUME NEW n \in Mms
        PROVE  /\ UsersOf(n) \in Nat /\ UsersOf(n)' \in Nat
               /\ UsersOf(n)' = UsersOf(n) 
               /\ Cardinality(BorrowsOf(n)) \in Nat
               /\ Cardinality(BorrowsOf(n)') = Cardinality(BorrowsOf(n))
    <3>1. One(r \in ReadersOf(n)') = One(r \in ReadersOf(n))
      BY <1>2, <1>4, <1>7, <1>25 DEF PutFileDone, ReaderIs, Structs, ReadersOf, ReaderShape,
         Reads, One
    <3>2. /\ UsersOf(n) \in Nat /\ UsersOf(n)' \in Nat
          /\ UsersOf(n)' = UsersOf(n) + One(r \in ReadersOf(n)') - One(r \in ReadersOf(n))
          /\ Cardinality(BorrowsOf(n)) \in Nat
          /\ Cardinality(BorrowsOf(n)') = Cardinality(BorrowsOf(n))
      BY <2>1, ReaderUsers
    <3> QED  BY <1>2, <3>1, <3>2
  <2>3. UNCHANGED mm
    BY <1>25 DEF PutFileDone
  <2> QED  BY <2>2, <2>3, AllSame DEF SameLife
<1>26. ASSUME NEW k \in Kthreads, NEW m, NEW x, NEW y, BorrowDone(k, m, x, y) PROVE UsersInv'
  <2>1. /\ UNCHANGED <<task, call, reader>>
        /\ \A h \in Kthreads : h # k => kthread'[h] = kthread[h]
    BY <1>2, <1>26 DEF BorrowDone, KthreadIs, Structs
  <2>2. ASSUME NEW n \in Mms
        PROVE  /\ UsersOf(n) \in Nat /\ UsersOf(n)' \in Nat
               /\ UsersOf(n)' = UsersOf(n) 
               /\ Cardinality(BorrowsOf(n)) \in Nat
               /\ Cardinality(BorrowsOf(n)') = Cardinality(BorrowsOf(n)) + One(n = m)
    <3>1. /\ One(k \in UsesOf(n)') = 0 /\ One(k \in UsesOf(n)) = 0
          /\ One(k \in BorrowsOf(n)') = One(n = m) /\ One(k \in BorrowsOf(n)) = 0
      BY <1>2, <1>6, <1>26 DEF BorrowDone, KthreadIs, Structs, UsesOf, BorrowsOf, One
    <3>2. /\ UsersOf(n) \in Nat /\ UsersOf(n)' \in Nat
          /\ UsersOf(n)' = UsersOf(n) + One(k \in UsesOf(n)') - One(k \in UsesOf(n))
          /\ Cardinality(BorrowsOf(n)) \in Nat /\ Cardinality(BorrowsOf(n)') \in Nat
          /\ Cardinality(BorrowsOf(n)') =
               Cardinality(BorrowsOf(n)) + One(k \in BorrowsOf(n)') - One(k \in BorrowsOf(n))
      BY <2>1, KthreadUsers
    <3> QED  BY <1>2, <3>1, <3>2
  <2> SUFFICES ASSUME NEW n \in Mms PROVE Exact(n)'
    BY ExactLater
  <2>3. Exact(n)
    BY ExactParts
  <2>4. CASE n = m
    <3>1. /\ mm'[n].state = mm[n].state /\ mm'[n].users = mm[n].users /\ mm'[n].count = mm[n].count + 1
          /\ mm[n].state = "live"
      BY <1>2, <1>6, <2>4, <1>26 DEF BorrowDone, MmIs, MmsType
    <3>2. One(n = m) = 1
      BY <2>4 DEF One
    <3> QED  BY <2>2, <2>3, <3>1, <3>2 DEF Exact
  <2>5. CASE n # m
    <3>1. mm'[n] = mm[n]
      BY <1>2, <2>5, <1>26 DEF BorrowDone, MmIs, MmsType
    <3>2. One(n = m) = 0
      BY <2>5 DEF One
    <3>3. UsersOf(n)' = UsersOf(n) /\ Cardinality(BorrowsOf(n)') = Cardinality(BorrowsOf(n))
      BY <2>2, <3>2
    <3> QED  BY <2>2, <2>3, <3>1, <3>3 DEF Exact
  <2> QED  BY <2>4, <2>5
<1>27. ASSUME NEW k \in Kthreads, NEW x, NEW y, UseDone(k, x, y) PROVE UsersInv'
  <2>1. /\ UNCHANGED <<task, call, reader>>
        /\ \A h \in Kthreads : h # k => kthread'[h] = kthread[h]
    BY <1>2, <1>27 DEF UseDone, KthreadIs, Structs
  <2>2. ASSUME NEW n \in Mms
        PROVE  /\ UsersOf(n) \in Nat /\ UsersOf(n)' \in Nat
               /\ UsersOf(n)' = UsersOf(n) + One(n = kthread[k].mm)
               /\ Cardinality(BorrowsOf(n)) \in Nat
               /\ Cardinality(BorrowsOf(n)') = Cardinality(BorrowsOf(n)) 
    <3>1. /\ One(k \in UsesOf(n)') = One(n = kthread[k].mm) /\ One(k \in UsesOf(n)) = 0
          /\ One(k \in BorrowsOf(n)') = One(k \in BorrowsOf(n))
      BY <1>2, <1>6, <1>27 DEF UseDone, KthreadIs, Structs, UsesOf, BorrowsOf, One
    <3>2. /\ UsersOf(n) \in Nat /\ UsersOf(n)' \in Nat
          /\ UsersOf(n)' = UsersOf(n) + One(k \in UsesOf(n)') - One(k \in UsesOf(n))
          /\ Cardinality(BorrowsOf(n)) \in Nat /\ Cardinality(BorrowsOf(n)') \in Nat
          /\ Cardinality(BorrowsOf(n)') =
               Cardinality(BorrowsOf(n)) + One(k \in BorrowsOf(n)') - One(k \in BorrowsOf(n))
      BY <2>1, KthreadUsers
    <3> QED  BY <1>2, <3>1, <3>2
  <2>3. mm[kthread[k].mm].state = "live"
    BY <1>27 DEF UseDone, GetDone, MmIs, UsersInv
  <2> QED  BY <1>2, <2>2, <2>3, <1>27, GetExact DEF UseDone
<1>28. ASSUME NEW k \in Kthreads, NEW x, NEW y, AsyncDone(k, x, y) PROVE UsersInv'
  <2>1. /\ UNCHANGED <<task, call, reader>>
        /\ \A h \in Kthreads : h # k => kthread'[h] = kthread[h]
    BY <1>2, <1>28 DEF AsyncDone, KthreadIs, Structs
  <2>2. ASSUME NEW n \in Mms
        PROVE  /\ UsersOf(n) \in Nat /\ UsersOf(n)' \in Nat
               /\ UsersOf(n)' = UsersOf(n) - One(n = kthread[k].mm)
               /\ Cardinality(BorrowsOf(n)) \in Nat
               /\ Cardinality(BorrowsOf(n)') = Cardinality(BorrowsOf(n)) 
    <3>1. /\ One(k \in UsesOf(n)') = 0 /\ One(k \in UsesOf(n)) = One(n = kthread[k].mm)
          /\ One(k \in BorrowsOf(n)') = One(k \in BorrowsOf(n))
      BY <1>2, <1>6, <1>28 DEF AsyncDone, KthreadIs, Structs, UsesOf, BorrowsOf, One
    <3>2. /\ UsersOf(n) \in Nat /\ UsersOf(n)' \in Nat
          /\ UsersOf(n)' = UsersOf(n) + One(k \in UsesOf(n)') - One(k \in UsesOf(n))
          /\ Cardinality(BorrowsOf(n)) \in Nat /\ Cardinality(BorrowsOf(n)') \in Nat
          /\ Cardinality(BorrowsOf(n)') =
               Cardinality(BorrowsOf(n)) + One(k \in BorrowsOf(n)') - One(k \in BorrowsOf(n))
      BY <2>1, KthreadUsers
    <3> QED  BY <1>2, <3>1, <3>2
  <2> QED  BY <1>2, <2>2, <1>28, PutExact DEF AsyncDone
<1>29. ASSUME NEW k \in Kthreads, NEW x, NEW y, DropDone(k, x, y) PROVE UsersInv'
  <2>1. /\ UNCHANGED <<task, call, reader>>
        /\ \A h \in Kthreads : h # k => kthread'[h] = kthread[h]
    BY <1>2, <1>29 DEF DropDone, KthreadIs, Structs
  <2>2. ASSUME NEW n \in Mms
        PROVE  /\ UsersOf(n) \in Nat /\ UsersOf(n)' \in Nat
               /\ UsersOf(n)' = UsersOf(n) 
               /\ Cardinality(BorrowsOf(n)) \in Nat
               /\ Cardinality(BorrowsOf(n)') = Cardinality(BorrowsOf(n)) - One(n = kthread[k].mm)
    <3>1. /\ One(k \in UsesOf(n)') = 0 /\ One(k \in UsesOf(n)) = 0
          /\ One(k \in BorrowsOf(n)') = 0 /\ One(k \in BorrowsOf(n)) = One(n = kthread[k].mm)
      BY <1>2, <1>6, <1>29 DEF DropDone, KthreadIs, Structs, UsesOf, BorrowsOf, One
    <3>2. /\ UsersOf(n) \in Nat /\ UsersOf(n)' \in Nat
          /\ UsersOf(n)' = UsersOf(n) + One(k \in UsesOf(n)') - One(k \in UsesOf(n))
          /\ Cardinality(BorrowsOf(n)) \in Nat /\ Cardinality(BorrowsOf(n)') \in Nat
          /\ Cardinality(BorrowsOf(n)') =
               Cardinality(BorrowsOf(n)) + One(k \in BorrowsOf(n)') - One(k \in BorrowsOf(n))
      BY <2>1, KthreadUsers
    <3> QED  BY <1>2, <3>1, <3>2
  <2> SUFFICES ASSUME NEW n \in Mms PROVE Exact(n)'
    BY ExactLater
  <2>3. Exact(n)
    BY ExactParts
  <2>4. CASE n = kthread[k].mm
    <3>1. /\ mm'[n].users = mm[n].users /\ mm'[n].count = mm[n].count - 1
          /\ \/ mm'[n].state = mm[n].state
             \/ mm'[n].state = "free" /\ mm'[n].count = 0 /\ ~IsPresent(mm[n])
          /\ mm[n].state # "free"
      BY <1>2, <1>5, <2>4, <1>29 DEF DropDone, MmIs, MmsType
    <3>2. One(n = kthread[k].mm) = 1
      BY <2>4 DEF One
    <3>3. /\ UsersOf(n)' = UsersOf(n)
          /\ Cardinality(BorrowsOf(n)') = Cardinality(BorrowsOf(n)) - 1
      BY <2>2, <3>2
    <3> QED  BY <2>2, <2>3, <3>1, <3>3 DEF Exact, IsPresent
  <2>5. CASE n # kthread[k].mm
    <3>1. mm'[n] = mm[n]
      BY <1>2, <2>5, <1>29 DEF DropDone, MmIs, MmsType
    <3>2. One(n = kthread[k].mm) = 0
      BY <2>5 DEF One
    <3>3. UsersOf(n)' = UsersOf(n) /\ Cardinality(BorrowsOf(n)') = Cardinality(BorrowsOf(n))
      BY <2>2, <3>2
    <3> QED  BY <2>2, <2>3, <3>1, <3>3 DEF Exact
  <2> QED  BY <2>4, <2>5
<1>30. ASSUME NEW m, NEW x, FinalDone(m, x) PROVE UsersInv'
  <2>1. UNCHANGED <<task, call, reader, kthread>>
    BY <1>30 DEF FinalDone, Rest
  <2>2. ASSUME NEW n \in Mms PROVE UsersOf(n)' = UsersOf(n) /\ BorrowsOf(n)' = BorrowsOf(n)
    BY <2>1 DEF UsersOf, BorrowsOf
  <2> SUFFICES ASSUME NEW n \in Mms PROVE Exact(n)'
    BY ExactLater
  <2>3. Exact(n) /\ Cardinality(BorrowsOf(n)) \in Nat /\ UsersOf(n) \in Nat
    BY ExactParts, UsersSum
  <2>4. CASE n = m
    <3>1. /\ mm'[n].users = 0 /\ mm'[n].count = mm[n].count - 1 /\ mm[n].state = "dying"
          /\ mm'[n].state = "torn" \/ (mm'[n].state = "free" /\ mm'[n].count = 0)
      BY <1>2, <2>4, <1>30 DEF FinalDone, MmIs, MmsType
    <3> QED  BY <2>2, <2>3, <3>1 DEF Exact
  <2>5. CASE n # m
    <3>1. mm'[n] = mm[n]
      BY <1>2, <2>5, <1>30 DEF FinalDone, MmIs, MmsType
    <3> QED  BY <2>2, <2>3, <3>1 DEF Exact
  <2> QED  BY <2>4, <2>5
<1>31. ASSUME NEW t \in Tasks, TaskSteps(t) PROVE UsersInv'
  <2>1. AreasSteps(t) => UsersInv'
    BY <1>1, <1>8, QuietStep
  <2> QED  BY <1>31, <2>1, <1>9, <1>10, <1>11, <1>12, <1>13, <1>14, <1>15, <1>16 DEF TaskSteps
<1>32. ASSUME NEW r \in Readers, ReaderSteps(r) PROVE UsersInv'
  BY <1>32, <1>17, <1>18, <1>19, <1>20, <1>21, <1>22, <1>23, <1>24, <1>25 DEF ReaderSteps
<1>33. ASSUME NEW k \in Kthreads, KthreadSteps(k) PROVE UsersInv'
  BY <1>33, <1>26, <1>27, <1>28, <1>29 DEF KthreadSteps
<1> QED  BY <1>30, <1>31, <1>32, <1>33 DEF Steps

-----------------------------------------------------------------------------
(* What is held of files, memory and the module.                           *)

\* An mm holds the same files and areas.
Res(x, z) == /\ IsPresent(x) <=> IsPresent(z)
             /\ IsPresent(z) => x.exe = z.exe /\ x.areas = z.areas
ResBut(m) == \A n \in Mms : n # m => Res(mm'[n], mm[n])
ResStay   == \A n \in Mms : Res(mm'[n], mm[n])

ExesOf(f)    == {m \in Present : mm[m].exe = f}
HoldersOf(f) == {r \in Readers : reader[r].file = f}
HasExe(x, f) == IsPresent(x) /\ x.exe = f
Charged      == {t \in Tasks : call[t].charge = 1}
Owners       == {m \in Present \ Unfinished : mm[m].binfmt}

LEMMA AreasInIs == ASSUME NEW A PROVE AreasIn(A) = PairsOf(mm, A) /\ AreasIn(A)' = PairsOf(mm', A)
BY DEF AreasIn, PairsOf, Places, Present, IsPresent

LEMMA AreasChange ==
  ASSUME mm \in MmsType, mm' \in MmsType, NEW m \in Mms, ResBut(m), NEW A
  PROVE  /\ Cardinality(AreasIn(A)) \in Nat /\ Cardinality(AreasIn(A)') \in Nat
         /\ Here(mm[m], A) \in Nat /\ Here(mm'[m], A) \in Nat
         /\ Cardinality(AreasIn(A)') = Cardinality(AreasIn(A)) + Here(mm'[m], A) - Here(mm[m], A)
<1>1. \A n \in Mms : n # m => /\ IsPresent(mm[n]) <=> IsPresent(mm'[n])
                              /\ IsPresent(mm[n]) => mm[n].areas = mm'[n].areas
  BY DEF ResBut, Res
<1>2. /\ Cardinality(PairsOf(mm', A)) = Cardinality(PairsOf(mm, A)) + Here(mm'[m], A) - Here(mm[m], A)
      /\ Cardinality(PairsOf(mm, A)) \in Nat /\ Cardinality(PairsOf(mm', A)) \in Nat
      /\ Here(mm[m], A) \in Nat /\ Here(mm'[m], A) \in Nat
  BY <1>1, PairsStep DEF MmsType
<1> QED  BY <1>2, AreasInIs

LEMMA ExesChange ==
  ASSUME NEW m \in Mms, ResBut(m), NEW f
  PROVE  /\ Cardinality(ExesOf(f)) \in Nat /\ Cardinality(ExesOf(f)') \in Nat
         /\ Cardinality(ExesOf(f)') =
              Cardinality(ExesOf(f)) + One(HasExe(mm'[m], f)) - One(HasExe(mm[m], f))
<1> DEFINE A == ExesOf(f)
           B == ExesOf(f)'
<1>1. A \in SUBSET Mms /\ B \in SUBSET Mms /\ \A n \in Mms : n # m => (n \in A <=> n \in B)
  BY DEF ExesOf, Present, IsPresent, ResBut, Res
<1>2. One(m \in B) = One(HasExe(mm'[m], f)) /\ One(m \in A) = One(HasExe(mm[m], f))
  BY DEF One, ExesOf, HasExe, Present, IsPresent
<1> HIDE DEF A, B
<1>3. /\ Cardinality(A) \in Nat /\ Cardinality(B) \in Nat
      /\ Cardinality(B) = Cardinality(A) + One(m \in B) - One(m \in A)
  BY <1>1, CountStep, SetsAssumption
<1> QED  BY <1>2, <1>3 DEF A, B

LEMMA HoldersChange ==
  ASSUME NEW r, NEW f, \A q \in Readers : q # r => reader'[q].file = reader[q].file
  PROVE  /\ Cardinality(HoldersOf(f)) \in Nat /\ Cardinality(HoldersOf(f)') \in Nat
         /\ Cardinality(HoldersOf(f)') =
              Cardinality(HoldersOf(f)) + One(r \in HoldersOf(f)') - One(r \in HoldersOf(f))
<1> DEFINE A == HoldersOf(f)
           B == HoldersOf(f)'
<1>1. A \in SUBSET Readers /\ B \in SUBSET Readers /\ \A q \in Readers : q # r => (q \in A <=> q \in B)
  BY DEF HoldersOf
<1> HIDE DEF A, B
<1> QED  BY <1>1, CountStep, SetsAssumption DEF A, B

LEMMA ChargedChange ==
  ASSUME NEW t \in Tasks, \A u \in Tasks : u # t => call'[u].charge = call[u].charge,
         call[t].charge \in {0, 1}, call'[t].charge \in {0, 1}
  PROVE  /\ Cardinality(Charged) \in Nat /\ Cardinality(Charged') \in Nat
         /\ Cardinality(Charged') = Cardinality(Charged) + call'[t].charge - call[t].charge
<1> DEFINE A == Charged
           B == Charged'
<1>1. A \in SUBSET Tasks /\ B \in SUBSET Tasks /\ \A u \in Tasks : u # t => (u \in A <=> u \in B)
  BY DEF Charged
<1>2. One(t \in B) = call'[t].charge /\ One(t \in A) = call[t].charge
  BY DEF One, Charged
<1> HIDE DEF A, B
<1>3. /\ Cardinality(A) \in Nat /\ Cardinality(B) \in Nat
      /\ Cardinality(B) = Cardinality(A) + One(t \in B) - One(t \in A)
  BY <1>1, CountStep, SetsAssumption
<1> QED  BY <1>2, <1>3 DEF A, B

LEMMA OwnersChange ==
  ASSUME NEW m, \A n \in Mms : n # m => (n \in Owners' <=> n \in Owners)
  PROVE  /\ Cardinality(Owners) \in Nat /\ Cardinality(Owners') \in Nat
         /\ Cardinality(Owners') = Cardinality(Owners) + One(m \in Owners') - One(m \in Owners)
<1> DEFINE A == Owners
           B == Owners'
<1>1. A \in SUBSET Mms /\ B \in SUBSET Mms /\ \A n \in Mms : n # m => (n \in A <=> n \in B)
  BY DEF Owners, Present
<1> HIDE DEF A, B
<1> QED  BY <1>1, CountStep, SetsAssumption DEF A, B

\* What is held of one file.
FileExact(f) ==
  /\ refs[f].held = Cardinality(ExesOf(f)) + Cardinality(AreasIn(Maps(f))) + Cardinality(HoldersOf(f))
  /\ refs[f].denied = Cardinality(AreasIn(Denies(f)))
  /\ refs[f].writable = Cardinality(AreasIn(Writes(f)))

LEMMA FileParts ==
  ASSUME refs \in RefsType, FilesExact, NEW f \in Files
  PROVE  FileExact(f)
<1>1. refs[f] = [held |-> Cardinality(ExesOf(f)) + Cardinality(AreasIn(Maps(f))) + Cardinality(HoldersOf(f)),
                 denied |-> Cardinality(AreasIn(Denies(f))), writable |-> Cardinality(AreasIn(Writes(f)))]
  BY DEF FilesExact, ExesOf, HoldersOf
<1> QED  BY <1>1 DEF FileExact

LEMMA FilesLater ==
  ASSUME refs' \in RefsType, \A f \in Files : FileExact(f)'
  PROVE  FilesExact'
<1> SUFFICES ASSUME NEW f \in Files
             PROVE  refs'[f] = [held |-> Cardinality(ExesOf(f)') + Cardinality(AreasIn(Maps(f))') + Cardinality(HoldersOf(f)'),
                        denied |-> Cardinality(AreasIn(Denies(f))'), writable |-> Cardinality(AreasIn(Writes(f))')]
  BY DEF FilesExact, ExesOf, HoldersOf
<1> DEFINE h == Cardinality(ExesOf(f)') + Cardinality(AreasIn(Maps(f))') + Cardinality(HoldersOf(f)')
           d == Cardinality(AreasIn(Denies(f))')
           w == Cardinality(AreasIn(Writes(f))')
<1>1. refs'[f].held = h /\ refs'[f].denied = d /\ refs'[f].writable = w
  BY DEF FileExact
<1>2. refs'[f] \in RefType
  BY DEF RefsType
<1> HIDE DEF h, d, w
<1>3. refs'[f] = [held |-> h, denied |-> d, writable |-> w]
  BY <1>1, <1>2 DEF RefType
<1> QED  BY <1>3 DEF h, d, w

LEMMA CountsType ==
  ASSUME mm \in MmsType
  PROVE  /\ \A A : Cardinality(AreasIn(A)) \in Nat
         /\ \A f : Cardinality(ExesOf(f)) \in Nat /\ Cardinality(HoldersOf(f)) \in Nat
         /\ Cardinality(Charged) \in Nat /\ Cardinality(Owners) \in Nat
<1>1. \A A : Cardinality(AreasIn(A)) \in Nat
  BY AreasInIs, PairsFinite, FS_CardinalityType DEF MmsType
<1>2. \A f : ExesOf(f) \in SUBSET Mms /\ HoldersOf(f) \in SUBSET Readers
  BY DEF ExesOf, HoldersOf, Present
<1>3. Charged \in SUBSET Tasks /\ Owners \in SUBSET Mms
  BY DEF Charged, Owners, Present
<1> QED  BY <1>1, <1>2, <1>3, FS_Subset, FS_CardinalityType, SetsAssumption

LEMMA AreasSame ==
  ASSUME ResStay, NEW A
  PROVE  AreasIn(A)' = AreasIn(A)
<1> DEFINE D == {n \in Mms : IsPresent(mm[n])}
<1>1. {n \in Mms : IsPresent(mm'[n])} = D
  BY DEF ResStay, Res
<1>2. \A n \in D : Places(mm'[n].areas, A) = Places(mm[n].areas, A)
  BY DEF ResStay, Res
<1> HIDE DEF D
<1>3. {{n} \X Places(mm'[n].areas, A) : n \in D} = {{n} \X Places(mm[n].areas, A) : n \in D}
  BY <1>2
<1> QED  BY <1>1, <1>3, AreasInIs DEF PairsOf, D

LEMMA FilesSame ==
  ASSUME refs \in RefsType, FilesExact, ResStay, UNCHANGED refs,
         \A q \in Readers : reader'[q].file = reader[q].file
  PROVE  FilesExact'
<1> SUFFICES ASSUME NEW f \in Files PROVE FileExact(f)'
  BY FilesLater
<1>1. FileExact(f)
  BY FileParts
<1>2. ExesOf(f)' = ExesOf(f)
  BY DEF ExesOf, Present, ResStay, Res, IsPresent
<1>3. HoldersOf(f)' = HoldersOf(f)
  BY DEF HoldersOf
<1>4. ASSUME NEW A PROVE AreasIn(A)' = AreasIn(A)
  BY AreasSame
<1> QED  BY <1>1, <1>2, <1>3, <1>4 DEF FileExact

\* Only mm m changes what it holds.
LEMMA FilesMm ==
  ASSUME mm \in MmsType, mm' \in MmsType, refs \in RefsType, refs' \in RefsType, FilesExact,
         NEW m \in Mms, ResBut(m), \A q \in Readers : reader'[q].file = reader[q].file,
         \A f \in Files :
           /\ refs'[f].held = refs[f].held + One(HasExe(mm'[m], f)) - One(HasExe(mm[m], f))
                              + Here(mm'[m], Maps(f)) - Here(mm[m], Maps(f))
           /\ refs'[f].denied = refs[f].denied + Here(mm'[m], Denies(f)) - Here(mm[m], Denies(f))
           /\ refs'[f].writable = refs[f].writable + Here(mm'[m], Writes(f)) - Here(mm[m], Writes(f))
  PROVE  FilesExact'
<1> SUFFICES ASSUME NEW f \in Files PROVE FileExact(f)'
  BY FilesLater
<1>1. FileExact(f)
  BY FileParts
<1>2. /\ Cardinality(ExesOf(f)) \in Nat /\ Cardinality(ExesOf(f)') \in Nat
      /\ Cardinality(ExesOf(f)') =
           Cardinality(ExesOf(f)) + One(HasExe(mm'[m], f)) - One(HasExe(mm[m], f))
  BY ExesChange
<1>3. HoldersOf(f)' = HoldersOf(f) /\ Cardinality(HoldersOf(f)) \in Nat
  BY HoldersChange DEF HoldersOf
<1>4. \A A : /\ Cardinality(AreasIn(A)) \in Nat /\ Cardinality(AreasIn(A)') \in Nat
             /\ Here(mm[m], A) \in Nat /\ Here(mm'[m], A) \in Nat
             /\ Cardinality(AreasIn(A)') = Cardinality(AreasIn(A)) + Here(mm'[m], A) - Here(mm[m], A)
  BY AreasChange
<1>5. \A b : One(b) \in {0, 1}
  BY DEF One
<1>6. refs'[f].held = Cardinality(ExesOf(f)') + Cardinality(AreasIn(Maps(f))') + Cardinality(HoldersOf(f)')
  <2>1. /\ Cardinality(AreasIn(Maps(f))) \in Nat /\ Cardinality(AreasIn(Maps(f))') \in Nat
        /\ Here(mm[m], Maps(f)) \in Nat /\ Here(mm'[m], Maps(f)) \in Nat
        /\ Cardinality(AreasIn(Maps(f))') =
             Cardinality(AreasIn(Maps(f))) + Here(mm'[m], Maps(f)) - Here(mm[m], Maps(f))
    BY <1>4
  <2>2. refs[f].held = Cardinality(ExesOf(f)) + Cardinality(AreasIn(Maps(f))) + Cardinality(HoldersOf(f))
    BY <1>1 DEF FileExact
  <2>3. refs'[f].held = refs[f].held + One(HasExe(mm'[m], f)) - One(HasExe(mm[m], f))
                        + Here(mm'[m], Maps(f)) - Here(mm[m], Maps(f))
    OBVIOUS
  <2> QED  BY <1>2, <1>3, <1>5, <2>1, <2>2, <2>3
<1>7. refs'[f].denied = Cardinality(AreasIn(Denies(f))')
  BY <1>1, <1>4 DEF FileExact
<1>8. refs'[f].writable = Cardinality(AreasIn(Writes(f))')
  BY <1>1, <1>4 DEF FileExact
<1> QED  BY <1>6, <1>7, <1>8 DEF FileExact

\* Only reader r changes what it holds.
LEMMA FilesReader ==
  ASSUME refs \in RefsType, refs' \in RefsType, FilesExact, UNCHANGED mm,
         mm \in MmsType, NEW r, \A q \in Readers : q # r => reader'[q].file = reader[q].file,
         \A f \in Files :
           /\ refs'[f].held = refs[f].held + One(r \in HoldersOf(f)') - One(r \in HoldersOf(f))
           /\ refs'[f].denied = refs[f].denied /\ refs'[f].writable = refs[f].writable
  PROVE  FilesExact'
<1> SUFFICES ASSUME NEW f \in Files PROVE FileExact(f)'
  BY FilesLater
<1>1. FileExact(f)
  BY FileParts
<1>2. ExesOf(f)' = ExesOf(f) /\ Cardinality(ExesOf(f)) \in Nat
  BY CountsType DEF ExesOf, Present
<1>3. /\ Cardinality(HoldersOf(f)) \in Nat /\ Cardinality(HoldersOf(f)') \in Nat
      /\ Cardinality(HoldersOf(f)') =
           Cardinality(HoldersOf(f)) + One(r \in HoldersOf(f)') - One(r \in HoldersOf(f))
  BY HoldersChange
<1>4. \A A : AreasIn(A)' = AreasIn(A)
  BY AreasInIs
<1>5. \A b : One(b) \in {0, 1}
  BY DEF One
<1>6. refs'[f].held = Cardinality(ExesOf(f)') + Cardinality(AreasIn(Maps(f))') + Cardinality(HoldersOf(f)')
  <2>1. refs[f].held = Cardinality(ExesOf(f)) + Cardinality(AreasIn(Maps(f))) + Cardinality(HoldersOf(f))
    BY <1>1 DEF FileExact
  <2>2. Cardinality(AreasIn(Maps(f))) \in Nat
    BY CountsType
  <2> QED  BY <1>2, <1>3, <1>4, <1>5, <2>1, <2>2
<1> QED  BY <1>1, <1>4, <1>6 DEF FileExact

LEMMA CommittedSame ==
  ASSUME CommittedExact, ResStay, UNCHANGED committed,
         \A u \in Tasks : call'[u].charge = call[u].charge
  PROVE  CommittedExact'
<1>1. Charged' = Charged
  BY DEF Charged
<1>2. AreasIn(Accounted)' = AreasIn(Accounted)
  BY AreasSame
<1> QED  BY <1>1, <1>2 DEF CommittedExact, Charged

\* Only mm m changes what it holds, and only task t its charge.
LEMMA CommittedMm ==
  ASSUME mm \in MmsType, mm' \in MmsType, CommittedExact, NEW m \in Mms, ResBut(m), NEW t \in Tasks,
         \A u \in Tasks : u # t => call'[u].charge = call[u].charge,
         call[t].charge \in {0, 1}, call'[t].charge \in {0, 1},
         committed' = committed + Here(mm'[m], Accounted) - Here(mm[m], Accounted)
                      + call'[t].charge - call[t].charge
  PROVE  CommittedExact'
<1> DEFINE a == Cardinality(AreasIn(Accounted))
           b == Cardinality(AreasIn(Accounted)')
           c == Cardinality(Charged)
           d == Cardinality(Charged')
<1>1. /\ a \in Nat /\ b \in Nat /\ Here(mm[m], Accounted) \in Nat /\ Here(mm'[m], Accounted) \in Nat
      /\ b = a + Here(mm'[m], Accounted) - Here(mm[m], Accounted)
  BY AreasChange
<1>2. c \in Nat /\ d \in Nat /\ d = c + call'[t].charge - call[t].charge
  BY ChargedChange
<1>3. committed = a + c
  BY DEF CommittedExact, Charged
<1> HIDE DEF a, b, c, d
<1>4. committed' = b + d
  BY <1>1, <1>2, <1>3
<1> QED  BY <1>4 DEF CommittedExact, Charged, b, d

LEMMA ModulesSame ==
  ASSUME ModulesExact, UNCHANGED modules, \A n \in Mms : n \in Owners' <=> n \in Owners
  PROVE  ModulesExact'
<1>1. Owners' = Owners
  BY DEF Owners, Present
<1> QED  BY <1>1 DEF ModulesExact, Owners

\* Only mm m takes the module, or puts it.
LEMMA ModulesMm ==
  ASSUME ModulesExact, NEW m, \A n \in Mms : n # m => (n \in Owners' <=> n \in Owners),
         modules' = modules + One(m \in Owners') - One(m \in Owners)
  PROVE  ModulesExact'
<1>1. /\ Cardinality(Owners) \in Nat /\ Cardinality(Owners') \in Nat
      /\ Cardinality(Owners') = Cardinality(Owners) + One(m \in Owners') - One(m \in Owners)
  BY OwnersChange
<1>2. modules = Cardinality(Owners)
  BY DEF ModulesExact, Owners
<1>3. modules' = Cardinality(Owners')
  BY <1>1, <1>2
<1> QED  BY <1>3 DEF ModulesExact, Owners

Making(n) == \E u \in Tasks : Forking(u) /\ call[u].mm = n
LEMMA OwnersAre ==
  /\ \A n : n \in Owners <=> n \in Mms /\ IsPresent(mm[n]) /\ mm[n].binfmt /\ ~Making(n)
  /\ \A n : n \in Owners' <=> n \in Mms /\ IsPresent(mm'[n]) /\ mm'[n].binfmt /\ ~Making(n)'
<1>1. \A n : n \in Unfinished <=> Making(n)
  BY DEF Unfinished, Making, Forking, ForkPoints
<1>2. \A n : n \in Unfinished' <=> Making(n)'
  BY DEF Unfinished, Making, Forking, ForkPoints
<1> QED  BY <1>1, <1>2 DEF Owners, Present, IsPresent

\* dup_mmap, mmap and munmap keep them exact.
LEMMA HereIs ==
  ASSUME NEW x, NEW A
  PROVE  /\ IsPresent(x) => Here(x, A) = Number(x.areas, A)
         /\ ~IsPresent(x) => Here(x, A) = 0
BY DEF Here

LEMMA AreasFacts ==
  ASSUME Basic, UsersInv, DupInv, NEW t \in Tasks
  PROVE  /\ Structs /\ mm \in MmsType /\ refs \in RefsType /\ committed \in Int /\ None \notin Files
         /\ \A f : One(f = None) \in {0, 1} /\ (f \in Files => One(f = None) = 0)
         /\ Forking(t) => /\ task[t].mm \in Mms /\ IsPresent(mm[task[t].mm])
                          /\ call[t].mm \in Mms /\ IsPresent(mm[call[t].mm])
                          /\ task[t].mm # call[t].mm
         /\ Alive(t) => task[t].mm \in Mms /\ IsPresent(mm[task[t].mm])
         /\ At(t, "mmap_sem") => Forking(t) /\ mm[call[t].mm].exe = None
         /\ At(t, "charged") => /\ Forking(t) /\ call[t].i <= Len(OldAreas(t))
                                /\ call[t].charge = Charge(NextArea(t))
         /\ call[t] \in CallType /\ call[t].charge \in {0, 1} /\ (~At(t, "charged") => call[t].charge = 0)
         /\ \A n \in Mms : mm[n] \in MmType /\ mm[n].exe \in Files \cup {None} /\ mm[n].areas \in Seq(Areas)
<1>1. Typed /\ Shape /\ LockInv
  BY DEF Basic
<1>2. Structs /\ mm \in MmsType /\ refs \in RefsType /\ committed \in Int /\ None \notin Files
  BY <1>1, TypedParts, SetsAssumption DEF Structs, Totals
<1>3. \A f : One(f = None) \in {0, 1} /\ (f \in Files => One(f = None) = 0)
  BY <1>2 DEF One
<1>4. \A n \in Mms : mm[n] \in MmType /\ mm[n].exe \in Files \cup {None} /\ mm[n].areas \in Seq(Areas)
  BY <1>2 DEF MmsType, MmType
<1>5. Alive(t) => task[t].mm \in Mms /\ IsPresent(mm[task[t].mm])
  BY <1>1, HasMm, HasLive DEF IsPresent
<1>6. Forking(t) => /\ task[t].mm \in Mms /\ IsPresent(mm[task[t].mm])
                    /\ call[t].mm \in Mms /\ IsPresent(mm[call[t].mm])
                    /\ task[t].mm # call[t].mm
  <2>1. Forking(t) => Private(t)
    BY DEF Basic, PrivateInv
  <2> QED  BY <1>1, <2>1, HasMm, HasLive DEF IsPresent, Private
<1>7. /\ At(t, "mmap_sem") => Forking(t) /\ mm[call[t].mm].exe = None
      /\ At(t, "charged") => /\ Forking(t) /\ call[t].i <= Len(OldAreas(t))
                             /\ call[t].charge = Charge(NextArea(t))
  BY DEF DupInv, CopyInv, Forking, ForkPoints, At
<1> QED  BY <1>1, <1>2, <1>3, <1>4, <1>5, <1>6, <1>7, CallFacts

LEMMA AreasFiles ==
  ASSUME Basic, UsersInv, DupInv, FilesExact, NEW t \in Tasks, AreasSteps(t), mm' \in MmsType, refs' \in RefsType
  PROVE  FilesExact'
<1>1. /\ Structs /\ mm \in MmsType /\ refs \in RefsType /\ None \notin Files
      /\ Forking(t) => /\ task[t].mm \in Mms /\ IsPresent(mm[task[t].mm])
                       /\ call[t].mm \in Mms /\ IsPresent(mm[call[t].mm])
                       /\ task[t].mm # call[t].mm
      /\ Alive(t) => task[t].mm \in Mms /\ IsPresent(mm[task[t].mm])
      /\ At(t, "mmap_sem") => Forking(t) /\ mm[call[t].mm].exe = None
      /\ \A n \in Mms : mm[n] \in MmType /\ mm[n].exe \in Files \cup {None} /\ mm[n].areas \in Seq(Areas)
  BY AreasFacts
<1>2. \A b : One(b) \in {0, 1}
  BY DEF One
<1>3. ASSUME NEW n \in Mms, NEW A PROVE Number(mm[n].areas, A) \in Nat /\ Number(mm'[n].areas, A) \in Nat
  <2>1. mm[n].areas \in Seq(Areas) /\ mm'[n].areas \in Seq(Areas)
    BY <1>1 DEF MmsType, MmType
  <2> QED  BY <2>1, PlacesFinite
<1>4. ASSUME NEW y, PlainDone(t, y) PROVE FilesExact'
  <2>1. ResStay /\ UNCHANGED <<refs, reader>>
    BY <1>4 DEF PlainDone, Rest, ResStay, Res
  <2> QED  BY <1>1, <2>1, FilesSame
<1>5. ASSUME NEW x, NEW y, ReleaseDone(t, x, y) PROVE FilesExact'
  <2>1. ResStay /\ UNCHANGED <<refs, reader>>
    BY <1>1, <1>5 DEF ReleaseDone, MmIs, Rest, ResStay, Res, SameHold, SameLife, IsPresent, MmsType
  <2> QED  BY <1>1, <2>1, FilesSame
<1>6. ASSUME NEW y, BeginDone(t, y) PROVE FilesExact'
  <2> DEFINE c == call[t].mm
             e == mm[task[t].mm].exe
  <2>1. /\ c \in Mms /\ IsPresent(mm[c]) /\ mm[c].exe = None /\ e \in Files \cup {None}
        /\ refs' = Got(refs, e) /\ UNCHANGED reader
    BY <1>1, <1>6 DEF BeginDone
  <2>2. ResBut(c) /\ IsPresent(mm'[c]) /\ mm'[c].exe = e /\ mm'[c].areas = mm[c].areas
    BY <1>1, <1>6 DEF BeginDone, ResBut, Res, SameLife, IsPresent
  <2> HIDE DEF c, e
  <2>3. \A A : Here(mm'[c], A) = Here(mm[c], A) /\ Here(mm[c], A) \in Nat
    BY <1>3, <2>1, <2>2, HereIs
  <2>4. \A f \in Files : One(HasExe(mm'[c], f)) = One(f = e) /\ One(HasExe(mm[c], f)) = 0
    BY <1>1, <2>1, <2>2 DEF One, HasExe
  <2>5. \A f \in Files : /\ refs'[f].held = refs[f].held + One(f = e)
                         /\ refs'[f].denied = refs[f].denied /\ refs'[f].writable = refs[f].writable
    BY <1>1, <2>1, GotIs
  <2>6. \A f \in Files : refs[f].held \in Int /\ refs[f].denied \in Int /\ refs[f].writable \in Int
    BY <1>1 DEF RefsType, RefType
  <2>7. \A f \in Files :
          /\ refs'[f].held = refs[f].held + One(HasExe(mm'[c], f)) - One(HasExe(mm[c], f))
                             + Here(mm'[c], Maps(f)) - Here(mm[c], Maps(f))
          /\ refs'[f].denied = refs[f].denied + Here(mm'[c], Denies(f)) - Here(mm[c], Denies(f))
          /\ refs'[f].writable = refs[f].writable + Here(mm'[c], Writes(f)) - Here(mm[c], Writes(f))
    BY <1>2, <2>3, <2>4, <2>5, <2>6
  <2> QED  BY <1>1, <2>1, <2>2, <2>7, FilesMm
<1>7. ASSUME NEW m \in Mms, NEW x, NEW a \in Areas, IsPresent(mm[m]), ResBut(m), mm'[m] = x, IsPresent(x),
             x.exe = mm[m].exe, UNCHANGED reader,
             \/ x.areas = Append(mm[m].areas, a) /\ refs' = Mapped(refs, a)
             \/ mm[m].areas # <<>> /\ a = Head(mm[m].areas) /\ x.areas = Tail(mm[m].areas) /\ refs' = Unmapped(refs, a)
      PROVE  FilesExact'
  <2>1. \A f : HasExe(mm'[m], f) = HasExe(mm[m], f)
    BY <1>7 DEF HasExe
  <2>2. \A A : /\ Here(mm'[m], A) = Number(x.areas, A) /\ Here(mm[m], A) = Number(mm[m].areas, A)
               /\ Number(x.areas, A) \in Nat /\ Number(mm[m].areas, A) \in Nat
    BY <1>3, <1>7, HereIs
  <2>3. \A f \in Files : refs[f].held \in Int /\ refs[f].denied \in Int /\ refs[f].writable \in Int
    BY <1>1 DEF RefsType, RefType
  <2>4. mm[m].areas \in Seq(Areas)
    BY <1>1
  <2>5. \A f \in Files :
          /\ refs'[f].held = refs[f].held + Number(x.areas, Maps(f)) - Number(mm[m].areas, Maps(f))
          /\ refs'[f].denied = refs[f].denied + Number(x.areas, Denies(f)) - Number(mm[m].areas, Denies(f))
          /\ refs'[f].writable = refs[f].writable + Number(x.areas, Writes(f)) - Number(mm[m].areas, Writes(f))
    <3>1. CASE x.areas = Append(mm[m].areas, a) /\ refs' = Mapped(refs, a)
      <4>1. \A A : Number(x.areas, A) = Number(mm[m].areas, A) + One(a \in A)
        BY <2>4, <3>1, NumberAppend
      <4>2. \A f \in Files : /\ refs'[f].held = refs[f].held + One(a \in Maps(f))
                             /\ refs'[f].denied = refs[f].denied + One(a \in Denies(f))
                             /\ refs'[f].writable = refs[f].writable + One(a \in Writes(f))
        BY <1>1, <3>1, MappedIs
      <4> QED  BY <1>2, <2>2, <2>3, <4>1, <4>2
    <3>2. CASE mm[m].areas # <<>> /\ a = Head(mm[m].areas) /\ x.areas = Tail(mm[m].areas) /\ refs' = Unmapped(refs, a)
      <4>1. \A A : Number(mm[m].areas, A) = Number(x.areas, A) + One(a \in A)
        BY <2>4, <3>2, NumberTail
      <4>2. \A f \in Files : /\ refs'[f].held = refs[f].held - One(a \in Maps(f))
                             /\ refs'[f].denied = refs[f].denied - One(a \in Denies(f))
                             /\ refs'[f].writable = refs[f].writable - One(a \in Writes(f))
        BY <1>1, <3>2, UnmappedIs
      <4> QED  BY <1>2, <2>2, <2>3, <4>1, <4>2
    <3> QED  BY <1>7, <3>1, <3>2
  <2>6. \A f \in Files :
          /\ refs'[f].held = refs[f].held + One(HasExe(mm'[m], f)) - One(HasExe(mm[m], f))
                             + Here(mm'[m], Maps(f)) - Here(mm[m], Maps(f))
          /\ refs'[f].denied = refs[f].denied + Here(mm'[m], Denies(f)) - Here(mm[m], Denies(f))
          /\ refs'[f].writable = refs[f].writable + Here(mm'[m], Writes(f)) - Here(mm[m], Writes(f))
    BY <1>2, <2>1, <2>2, <2>3, <2>5
  <2> QED  BY <1>1, <1>7, <2>6, FilesMm
<1>8. ASSUME NEW a, NEW y, LinkDone(t, a, y) PROVE FilesExact'
  <2>1. LET c == call[t].mm IN
        /\ c \in Mms /\ IsPresent(mm[c]) /\ IsPresent(mm'[c]) /\ ResBut(c) /\ a \in Areas
        /\ mm'[c].exe = mm[c].exe /\ mm'[c].areas = Append(mm[c].areas, a)
        /\ UNCHANGED reader /\ refs' = Mapped(refs, a)
    BY <1>1, <1>8 DEF LinkDone, ForkMove, ResBut, Res, SameLife, IsPresent, Rest
  <2> QED  BY <1>7, <2>1
<1>9. ASSUME NEW x, AreasDone(t, x) PROVE FilesExact'
  <2> DEFINE m == task[t].mm
  <2>1. /\ m \in Mms /\ IsPresent(mm[m]) /\ mm'[m] = x /\ IsPresent(x) /\ ResBut(m)
        /\ x.exe = mm[m].exe /\ UNCHANGED reader
    BY <1>1, <1>9 DEF AreasDone, MmIs, SameLife, IsPresent, ResBut, Res, Rest, MmsType
  <2>2. \/ \E a \in Areas : x.areas = Append(mm[m].areas, a) /\ refs' = Mapped(refs, a)
        \/ /\ mm[m].areas # <<>> /\ x.areas = Tail(mm[m].areas)
           /\ refs' = Unmapped(refs, Head(mm[m].areas))
    BY <1>9, ZenonT(30) DEF AreasDone
  <2>3. mm[m].areas # <<>> => Head(mm[m].areas) \in Areas
    <3>1. mm[m].areas \in Seq(Areas)
      BY <1>1, <2>1
    <3> HIDE DEF m
    <3> QED  BY <3>1, HeadTailProperties
  <2> HIDE DEF m
  <2> QED  BY <1>7, <2>1, <2>2, <2>3
<1> QED  BY <1>4, <1>5, <1>6, <1>8, <1>9 DEF AreasSteps

LEMMA AreasCommitted ==
  ASSUME Basic, UsersInv, DupInv, CommittedExact, NEW t \in Tasks, AreasSteps(t), mm' \in MmsType
  PROVE  CommittedExact'
<1>1. /\ Structs /\ mm \in MmsType /\ committed \in Int
      /\ Forking(t) => /\ task[t].mm \in Mms /\ IsPresent(mm[task[t].mm])
                       /\ call[t].mm \in Mms /\ IsPresent(mm[call[t].mm])
      /\ Alive(t) => task[t].mm \in Mms /\ IsPresent(mm[task[t].mm])
      /\ At(t, "mmap_sem") => Forking(t)
      /\ At(t, "charged") => call[t].i <= Len(OldAreas(t)) /\ call[t].charge = Charge(NextArea(t))
      /\ call[t].charge \in {0, 1}
      /\ \A n \in Mms : mm[n].areas \in Seq(Areas)
  BY AreasFacts
<1>2. \A a \in Areas : One(a \in Accounted) = Charge(a) /\ Charge(a) \in {0, 1}
  <2>1. \A a \in Areas : Charge(a) \in {0, 1} /\ (Charge(a) = 1 <=> a \in Accounted)
    BY AreaFacts
  <2> QED  BY <2>1 DEF One
<1>3. ASSUME NEW n \in Mms
      PROVE  Number(mm[n].areas, Accounted) \in Nat /\ Number(mm'[n].areas, Accounted) \in Nat
             /\ Here(mm[n], Accounted) \in Nat
  <2>1. mm[n].areas \in Seq(Areas) /\ mm'[n].areas \in Seq(Areas)
    BY <1>1 DEF MmsType, MmType
  <2> QED  BY <2>1, PlacesFinite DEF Here
<1>4. ASSUME NEW y, CallIs(t, y), NEW m \in Mms, ResBut(m),
             IsPresent(mm'[m]) <=> IsPresent(mm[m]), mm'[m].areas = mm[m].areas,
             committed' = committed + y.charge - call[t].charge
      PROVE  CommittedExact'
  <2>1. call'[t] = y /\ y.charge \in {0, 1} /\ \A u \in Tasks : u # t => call'[u] = call[u]
    BY <1>1, <1>4 DEF CallIs, CallType, Structs
  <2>2. Here(mm'[m], Accounted) = Here(mm[m], Accounted)
    BY <1>4 DEF Here
  <2>3. committed' = committed + Here(mm'[m], Accounted) - Here(mm[m], Accounted)
                     + call'[t].charge - call[t].charge
    BY <1>1, <1>3, <1>4, <2>1, <2>2
  <2> QED  BY <1>1, <1>4, <2>1, <2>3, CommittedMm
<1>5. ASSUME NEW y, PlainDone(t, y) PROVE CommittedExact'
  <2>1. /\ task[t].mm \in Mms /\ ResBut(task[t].mm) /\ CallIs(t, y) /\ UNCHANGED mm
        /\ committed' = committed + y.charge - call[t].charge
    BY <1>1, <1>5 DEF PlainDone, ForkMove, ResBut, Res
  <2> QED  BY <1>4, <2>1
<1>6. ASSUME NEW x, NEW y, ReleaseDone(t, x, y) PROVE CommittedExact'
  <2> DEFINE o == task[t].mm
  <2>1. /\ o \in Mms /\ ResBut(o) /\ CallIs(t, y) /\ mm'[o] = x
        /\ x.state = mm[o].state /\ x.areas = mm[o].areas
        /\ committed' = committed + y.charge - call[t].charge
    BY <1>1, <1>6 DEF ReleaseDone, ForkMove, ResBut, Res, MmIs, MmsType, SameLife, SameHold
  <2>2. IsPresent(mm'[o]) <=> IsPresent(mm[o])
    BY <2>1 DEF IsPresent
  <2> HIDE DEF o
  <2> QED  BY <1>4, <2>1, <2>2
<1>7. ASSUME NEW y, BeginDone(t, y) PROVE CommittedExact'
  <2> DEFINE c == call[t].mm
  <2>1. c \in Mms /\ CallIs(t, y) /\ y.charge = call[t].charge /\ committed' = committed
    BY <1>1, <1>7 DEF BeginDone
  <2>2. ResBut(c) /\ (IsPresent(mm'[c]) <=> IsPresent(mm[c])) /\ mm'[c].areas = mm[c].areas
    BY <1>1, <1>7 DEF BeginDone, ResBut, Res, SameLife, IsPresent
  <2>3. committed' = committed + y.charge - call[t].charge
    BY <1>1, <2>1
  <2> HIDE DEF c
  <2> QED  BY <1>4, <2>1, <2>2, <2>3
<1>8. ASSUME NEW a, NEW y, LinkDone(t, a, y) PROVE CommittedExact'
  <2> DEFINE c == call[t].mm
  <2>1. /\ c \in Mms /\ IsPresent(mm[c]) /\ IsPresent(mm'[c]) /\ ResBut(c) /\ a \in Areas
        /\ mm'[c].areas = Append(mm[c].areas, a) /\ committed' = committed /\ CallIs(t, y) /\ y.charge = 0
    BY <1>1, <1>8 DEF LinkDone, ForkMove, ResBut, Res, SameLife, IsPresent, Rest
  <2>2. call[t].charge = Charge(a)
    BY <1>1, <1>8 DEF LinkDone
  <2>3. call'[t] = y /\ \A u \in Tasks : u # t => call'[u] = call[u]
    BY <1>1, <2>1 DEF CallIs, Structs
  <2>4. mm[c].areas \in Seq(Areas)
    BY <1>1, <2>1
  <2> HIDE DEF c
  <2>5. Here(mm'[c], Accounted) = Here(mm[c], Accounted) + Charge(a)
    <3>1. Number(mm'[c].areas, Accounted) = Number(mm[c].areas, Accounted) + One(a \in Accounted)
      BY <2>1, <2>4, NumberAppend
    <3>2. One(a \in Accounted) = Charge(a)
      BY <1>2, <2>1
    <3> QED  BY <2>1, <3>1, <3>2, HereIs
  <2>6. committed' = committed + Here(mm'[c], Accounted) - Here(mm[c], Accounted)
                     + call'[t].charge - call[t].charge
    BY <1>1, <1>2, <1>3, <2>1, <2>2, <2>3, <2>5
  <2> QED  BY <1>1, <2>1, <2>3, <2>6, CommittedMm
<1>9. ASSUME NEW x, AreasDone(t, x) PROVE CommittedExact'
  <2> DEFINE m == task[t].mm
  <2>1. m \in Mms /\ IsPresent(mm[m]) /\ mm'[m] = x /\ IsPresent(x) /\ ResBut(m) /\ UNCHANGED call
    BY <1>1, <1>9 DEF AreasDone, MmIs, SameLife, IsPresent, ResBut, Res, MmsType
  <2>2. \/ \E a \in Areas : x.areas = Append(mm[m].areas, a) /\ committed' = committed + Charge(a)
        \/ /\ mm[m].areas # <<>> /\ x.areas = Tail(mm[m].areas)
           /\ committed' = committed - Charge(Head(mm[m].areas))
    BY <1>9, ZenonT(30) DEF AreasDone
  <2>3. mm[m].areas \in Seq(Areas) /\ Number(mm[m].areas, Accounted) \in Nat /\ Number(x.areas, Accounted) \in Nat
    BY <1>1, <1>3, <2>1
  <2>4. Here(mm[m], Accounted) = Number(mm[m].areas, Accounted) /\ Here(mm'[m], Accounted) = Number(x.areas, Accounted)
    BY <2>1, HereIs
  <2> HIDE DEF m
  <2>5. committed' = committed + Number(x.areas, Accounted) - Number(mm[m].areas, Accounted)
    <3>1. ASSUME NEW a \in Areas, x.areas = Append(mm[m].areas, a), committed' = committed + Charge(a)
          PROVE  committed' = committed + Number(x.areas, Accounted) - Number(mm[m].areas, Accounted)
      <4>1. Number(x.areas, Accounted) = Number(mm[m].areas, Accounted) + One(a \in Accounted)
        BY <2>3, <3>1, NumberAppend
      <4>2. One(a \in Accounted) = Charge(a) /\ Charge(a) \in {0, 1}
        BY <1>2, <3>1
      <4> QED  BY <1>1, <2>3, <3>1, <4>1, <4>2
    <3>2. ASSUME mm[m].areas # <<>>, x.areas = Tail(mm[m].areas), committed' = committed - Charge(Head(mm[m].areas))
          PROVE  committed' = committed + Number(x.areas, Accounted) - Number(mm[m].areas, Accounted)
      <4>1. Number(mm[m].areas, Accounted) = Number(x.areas, Accounted) + One(Head(mm[m].areas) \in Accounted)
        BY <2>3, <3>2, NumberTail
      <4>2. Head(mm[m].areas) \in Areas
        BY <2>3, <3>2, HeadTailProperties
      <4> DEFINE a == Head(mm[m].areas)
      <4>3. One(a \in Accounted) = Charge(a) /\ Charge(a) \in {0, 1}
        BY <1>2, <4>2
      <4>4. /\ Number(mm[m].areas, Accounted) = Number(x.areas, Accounted) + One(a \in Accounted)
            /\ committed' = committed - Charge(a)
        BY <3>2, <4>1
      <4> HIDE DEF a
      <4> QED  BY <1>1, <2>3, <4>3, <4>4
    <3> QED  BY <2>2, <3>1, <3>2
  <2>6. committed' = committed + Here(mm'[m], Accounted) - Here(mm[m], Accounted)
                     + call'[t].charge - call[t].charge
    BY <1>1, <2>1, <2>3, <2>4, <2>5
  <2> QED  BY <1>1, <2>1, <2>6, CommittedMm
<1> QED  BY <1>5, <1>6, <1>7, <1>8, <1>9 DEF AreasSteps

LEMMA AreasModules ==
  ASSUME Basic, UsersInv, DupInv, ModulesExact, NEW t \in Tasks, AreasSteps(t)
  PROVE  ModulesExact'
<1>1. Quiet /\ Structs
  BY QuietStep, TypedParts DEF Basic
<1>2. \A n : Making(n)' <=> Making(n)
  <2>1. \A u \in Tasks : call'[u].mm = call[u].mm /\ (call'[u].at \in ForkPoints <=> call[u].at \in ForkPoints)
    BY <1>1 DEF Quiet
  <2> QED  BY <2>1 DEF Making, Forking
<1>3. \A n \in Mms : IsPresent(mm'[n]) <=> IsPresent(mm[n])
  BY <1>1 DEF Quiet, SameLife, IsPresent
<1>4. UNCHANGED modules /\ \A n \in Mms : mm'[n].binfmt = mm[n].binfmt
  <2>1. ASSUME NEW y, PlainDone(t, y) PROVE UNCHANGED modules /\ \A n \in Mms : mm'[n].binfmt = mm[n].binfmt
    BY <2>1 DEF PlainDone
  <2>2. ASSUME NEW x, NEW y, ReleaseDone(t, x, y) PROVE UNCHANGED modules /\ \A n \in Mms : mm'[n].binfmt = mm[n].binfmt
    BY <1>1, <2>2 DEF ReleaseDone, MmIs, SameHold, Structs, MmsType
  <2>3. ASSUME NEW y, BeginDone(t, y) PROVE UNCHANGED modules /\ \A n \in Mms : mm'[n].binfmt = mm[n].binfmt
    BY <2>3 DEF BeginDone
  <2>4. ASSUME NEW a, NEW y, LinkDone(t, a, y) PROVE UNCHANGED modules /\ \A n \in Mms : mm'[n].binfmt = mm[n].binfmt
    BY <2>4 DEF LinkDone
  <2>5. ASSUME NEW x, AreasDone(t, x) PROVE UNCHANGED modules /\ \A n \in Mms : mm'[n].binfmt = mm[n].binfmt
    BY <1>1, <2>5 DEF AreasDone, MmIs, Structs, MmsType
  <2> QED  BY <2>1, <2>2, <2>3, <2>4, <2>5 DEF AreasSteps
<1>5. \A n \in Mms : n \in Owners' <=> n \in Owners
  BY <1>2, <1>3, <1>4, OwnersAre
<1> QED  BY <1>4, <1>5, ModulesSame

\* The others change what is held only when an mm begins or ends.
Still == ResStay /\ \A n \in Mms : IsPresent(mm[n]) => mm'[n].binfmt = mm[n].binfmt

LEMMA MmStill ==
  ASSUME mm \in MmsType, NEW m, NEW x, MmIs(m, x), Res(x, mm[m]), x.binfmt = mm[m].binfmt \/ ~IsPresent(mm[m])
  PROVE  Still
BY DEF MmIs, MmsType, Still, ResStay, Res

LEMMA SameStill == ASSUME UNCHANGED mm PROVE Still
BY DEF Still, ResStay, Res

LEMMA PutStill ==
  ASSUME mm \in MmsType, UsersInv, NEW m, NEW x, PutDone(m, x)
  PROVE  Still
<1>1. m \in Mms /\ MmIs(m, x) /\ x.exe = mm[m].exe /\ x.areas = mm[m].areas /\ x.binfmt = mm[m].binfmt
  BY DEF PutDone, MmIs, SameHold
<1>2. x.state = (IF mm[m].users = 1 THEN "dying" ELSE mm[m].state) /\ (mm[m].users = 1 => mm[m].state = "live")
  BY <1>1 DEF PutDone, UsersInv
<1>3. IsPresent(x) <=> IsPresent(mm[m])
  BY <1>2 DEF IsPresent
<1> QED  BY <1>1, <1>3, MmStill DEF Res

LEMMA GetStill ==
  ASSUME mm \in MmsType, NEW m, NEW x, GetDone(m, x)
  PROVE  Still
<1>1. MmIs(m, x) /\ x.exe = mm[m].exe /\ x.areas = mm[m].areas /\ x.binfmt = mm[m].binfmt /\ x.state = mm[m].state
  BY DEF GetDone, SameHold
<1> QED  BY <1>1, MmStill DEF Res, IsPresent

LEMMA HeapCounts ==
  /\ \A f \in Files : /\ Number(<<Heap>>, Maps(f)) = 0 /\ Number(<<Heap>>, Denies(f)) = 0
                      /\ Number(<<Heap>>, Writes(f)) = 0
  /\ Number(<<Heap>>, Accounted) = 1
<1>1. ASSUME NEW A PROVE Number(<<Heap>>, A) = 0 + One(Heap \in A)
  <2>1. <<Heap>> = Append(<<>>, Heap) /\ <<>> \in Seq(Areas) /\ Heap \in Areas
    BY AreaFacts
  <2>2. Number(Append(<<>>, Heap), A) = Number(<<>>, A) + One(Heap \in A)
    BY <2>1, NumberAppend
  <2> QED  BY <2>1, <2>2, NumberEmpty
<1>2. Heap.file = None /\ Heap.account = TRUE /\ Heap \in Areas
  BY AreaFacts DEF Heap
<1>3. \A f \in Files : One(Heap \in Maps(f)) = 0 /\ One(Heap \in Denies(f)) = 0 /\ One(Heap \in Writes(f)) = 0
  BY <1>2, SetsAssumption DEF Maps, Denies, Writes, One
<1>4. One(Heap \in Accounted) = 1
  BY <1>2 DEF Accounted, One
<1> QED  BY <1>1, <1>3, <1>4

\* An mm that is not there holds nothing.
LEMMA NothingHeld ==
  ASSUME NEW x, ~IsPresent(x)
  PROVE  (\A f : One(HasExe(x, f)) = 0) /\ \A A : Here(x, A) = 0
BY DEF One, HasExe, Here

LEMMA MakingSame ==
  ASSUME NEW n, \A u \in Tasks : (Forking(u)' /\ call'[u].mm = n) <=> (Forking(u) /\ call[u].mm = n)
  PROVE  Making(n)' <=> Making(n)
BY DEF Making

LEMMA OtherFilesStep ==
  ASSUME Basic, UsersInv, FilesExact, Structs', Totals', \A u \in Tasks : ~AreasSteps(u), Steps
  PROVE  FilesExact'
<1>1. Typed /\ Shape /\ LockInv
  BY DEF Basic
<1>2. Structs /\ mm \in MmsType /\ refs \in RefsType /\ committed \in Int /\ None \notin Files /\ None \notin Mms
  BY <1>1, TypedParts, SetsAssumption DEF Structs, Totals
<1>3. mm' \in MmsType /\ refs' \in RefsType
  BY DEF Structs, Totals
<1>4. \A q \in Readers : reader[q] \in ReaderType /\ (~Reads(q, "file") => reader[q].file = None)
  BY <1>1, <1>2, PointersType DEF Shape, ReaderShape
<1>5. /\ NoCall.at = "user" /\ NoCall.mm = None /\ NoCall.charge = 0
      /\ Idle.at = "idle" /\ Idle.mm = None /\ Idle.file = None /\ Idle.access = FALSE
  BY FreeType
<1>6. (\A b : One(b) \in {0, 1}) /\ \A f \in Files : refs[f].held \in Int /\ refs[f].denied \in Int /\ refs[f].writable \in Int
  BY <1>2 DEF One, RefsType, RefType
<1>7. \A u \in Tasks : /\ call[u].mm \in Mms => mm[call[u].mm].state = "live"
                       /\ Forking(u) => call[u].mm \in Mms
                       /\ ~At(u, "charged") => call[u].charge = 0
                       /\ At(u, "user") => call[u].mm = None
                       /\ call[u].charge \in {0, 1}
  BY <1>1, HasLive, HasMm, CallFacts
<1>8. ASSUME NEW t \in Tasks, NEW m, NEW x, NEW y, AllocDone(t, m, x, y) PROVE FilesExact'
  <2>1. /\ m \in Mms /\ ResBut(m) /\ UNCHANGED <<refs, reader>> /\ mm'[m] = x
        /\ ~IsPresent(mm[m]) /\ IsPresent(x) /\ x.exe = None /\ x.areas = <<>>
    BY <1>2, <1>8 DEF AllocDone, MmIs, ResBut, Res, IsPresent, MmsType
  <2>2. \A f \in Files : One(HasExe(mm'[m], f)) = 0 /\ One(HasExe(mm[m], f)) = 0
    BY <1>2, <2>1 DEF One, HasExe
  <2>3. \A A : Here(mm'[m], A) = 0 /\ Here(mm[m], A) = 0
    BY <2>1, HereIs, NumberEmpty
  <2>4. \A f \in Files :
          /\ refs'[f].held = refs[f].held + One(HasExe(mm'[m], f)) - One(HasExe(mm[m], f))
                             + Here(mm'[m], Maps(f)) - Here(mm[m], Maps(f))
          /\ refs'[f].denied = refs[f].denied + Here(mm'[m], Denies(f)) - Here(mm[m], Denies(f))
          /\ refs'[f].writable = refs[f].writable + Here(mm'[m], Writes(f)) - Here(mm[m], Writes(f))
    BY <1>6, <2>1, <2>2, <2>3
  <2> QED  BY <1>2, <1>3, <2>1, <2>4, FilesMm
<1>9. ASSUME NEW t \in Tasks, NEW c, NEW z, FinishDone(t, c, z) PROVE FilesExact'
  <2>1. Still
    BY <1>9, SameStill DEF FinishDone
  <2>2. UNCHANGED refs /\ \A q \in Readers : reader'[q].file = reader[q].file
    BY <1>2, <1>4, <1>5, <1>9 DEF FinishDone, TaskIs, CallIs, Structs, Reads, Same
  <2> QED  BY <1>2, <1>3, <2>1, <2>2, FilesSame DEF Still
<1>10. ASSUME NEW t \in Tasks, NEW x, FreePtDone(t, x) PROVE FilesExact'
  <2>1. Still \/ ResStay
    <3> DEFINE m == call[t].mm
    <3>1. MmIs(m, x) /\ x.exe = mm[m].exe /\ x.areas = mm[m].areas /\ x.state = "dying" /\ mm[m].state = "live"
      BY <1>7, <1>10 DEF FreePtDone, MmIs
    <3> HIDE DEF m
    <3> QED  BY <1>2, <3>1 DEF Res, IsPresent, ResStay, MmIs, MmsType
  <2>2. UNCHANGED <<refs, reader>>
    BY <1>10 DEF FreePtDone, Rest
  <2> QED  BY <1>2, <1>3, <2>1, <2>2, FilesSame DEF Still
<1>11. ASSUME NEW t \in Tasks, NEW x, NEW z, ExitDone(t, x, z) PROVE FilesExact'
  <2>1. Still
    BY <1>2, <1>11, PutStill DEF ExitDone
  <2>2. UNCHANGED refs /\ \A q \in Readers : reader'[q].file = reader[q].file
    BY <1>2, <1>4, <1>5, <1>11 DEF ExitDone, MmIs, TaskIs, Structs, Reads, Same
  <2> QED  BY <1>2, <1>3, <2>1, <2>2, FilesSame DEF Still
<1>12. ASSUME NEW t \in Tasks, NEW m, NEW f, NEW x, NEW y, ExecDone(t, m, f, x, y) PROVE FilesExact'
  <2>1. /\ m \in Mms /\ ResBut(m) /\ UNCHANGED reader /\ mm'[m] = x /\ f \in Files
        /\ ~IsPresent(mm[m]) /\ IsPresent(x) /\ x.exe = f /\ x.areas = <<Heap>> /\ refs' = Got(refs, f)
    BY <1>2, <1>12 DEF ExecDone, MmIs, ResBut, Res, IsPresent, MmsType
  <2>2. \A g \in Files : One(HasExe(mm'[m], g)) = One(g = f) /\ One(HasExe(mm[m], g)) = 0
    BY <1>2, <2>1 DEF One, HasExe
  <2>3. /\ \A A : Here(mm'[m], A) = Number(<<Heap>>, A) /\ Here(mm[m], A) = 0
        /\ \A g \in Files : /\ Number(<<Heap>>, Maps(g)) = 0 /\ Number(<<Heap>>, Denies(g)) = 0
                            /\ Number(<<Heap>>, Writes(g)) = 0
    BY <2>1, HereIs, HeapCounts
  <2>4. \A g \in Files : /\ refs'[g].held = refs[g].held + One(g = f)
                         /\ refs'[g].denied = refs[g].denied /\ refs'[g].writable = refs[g].writable
    BY <1>2, <2>1, GotIs
  <2>5. \A g \in Files :
          /\ refs'[g].held = refs[g].held + One(HasExe(mm'[m], g)) - One(HasExe(mm[m], g))
                             + Here(mm'[m], Maps(g)) - Here(mm[m], Maps(g))
          /\ refs'[g].denied = refs[g].denied + Here(mm'[m], Denies(g)) - Here(mm[m], Denies(g))
          /\ refs'[g].writable = refs[g].writable + Here(mm'[m], Writes(g)) - Here(mm[m], Writes(g))
    BY <1>6, <2>2, <2>3, <2>4
  <2> QED  BY <1>2, <1>3, <2>1, <2>5, FilesMm
<1>13. ASSUME NEW t \in Tasks, NEW x, ExecFailsDone(t, x) PROVE FilesExact'
  <2>1. Still
    BY <1>2, <1>13, PutStill DEF ExecFailsDone
  <2>2. UNCHANGED refs /\ \A q \in Readers : reader'[q].file = reader[q].file
    BY <1>2, <1>4, <1>5, <1>13 DEF ExecFailsDone, MmIs, CallIs, Structs, Reads, Same
  <2> QED  BY <1>2, <1>3, <2>1, <2>2, FilesSame DEF Still
<1>14. ASSUME NEW t \in Tasks, NEW x, NEW y, NEW z, ExecMmapDone(t, x, y, z) PROVE FilesExact'
  <2>1. Still
    BY <1>2, <1>14, PutStill DEF ExecMmapDone
  <2>2. UNCHANGED refs /\ \A q \in Readers : reader'[q].file = reader[q].file
    BY <1>2, <1>4, <1>5, <1>14 DEF ExecMmapDone, MmIs, CallIs, TaskIs, Structs, Reads, Same
  <2> QED  BY <1>2, <1>3, <2>1, <2>2, FilesSame DEF Still
<1>15. ASSUME NEW t \in Tasks, NEW z, ExecCredsDone(t, z) PROVE FilesExact'
  <2>1. Still
    BY <1>15, SameStill DEF ExecCredsDone
  <2>2. UNCHANGED refs /\ \A q \in Readers : reader'[q].file = reader[q].file
    BY <1>2, <1>4, <1>5, <1>15 DEF ExecCredsDone, TaskIs, CallIs, Structs, Reads, Same
  <2> QED  BY <1>2, <1>3, <2>1, <2>2, FilesSame DEF Still
<1>16. ASSUME NEW r \in Readers, NEW t, NEW access, NEW y, LookDone(r, t, access, y) PROVE FilesExact'
  <2>1. Still
    BY <1>16, SameStill DEF LookDone
  <2>2. UNCHANGED refs /\ \A q \in Readers : reader'[q].file = reader[q].file
    BY <1>2, <1>4, <1>5, <1>16 DEF LookDone, ReaderIs, Structs, Reads, Same
  <2> QED  BY <1>2, <1>3, <2>1, <2>2, FilesSame DEF Still
<1>17. ASSUME NEW r \in Readers, NEW y, ReadDone(r, y) PROVE FilesExact'
  <2>1. Still
    BY <1>17, SameStill DEF ReadDone
  <2>2. UNCHANGED refs /\ \A q \in Readers : reader'[q].file = reader[q].file
    BY <1>2, <1>4, <1>5, <1>17 DEF ReadDone, ReaderIs, Structs, Reads, Same
  <2> QED  BY <1>2, <1>3, <2>1, <2>2, FilesSame DEF Still
<1>18. ASSUME NEW r \in Readers, NoneDone(r) PROVE FilesExact'
  <2>1. Still
    BY <1>18, SameStill DEF NoneDone
  <2>2. UNCHANGED refs /\ \A q \in Readers : reader'[q].file = reader[q].file
    BY <1>2, <1>4, <1>5, <1>18 DEF NoneDone, ReaderIs, Structs, Reads, Same
  <2> QED  BY <1>2, <1>3, <2>1, <2>2, FilesSame DEF Still
<1>19. ASSUME NEW r \in Readers, NEW x, NEW y, SomeDone(r, x, y) PROVE FilesExact'
  <2>1. Still
    BY <1>2, <1>19, GetStill DEF SomeDone
  <2>2. UNCHANGED refs /\ \A q \in Readers : reader'[q].file = reader[q].file
    BY <1>2, <1>4, <1>5, <1>19 DEF SomeDone, MmIs, ReaderIs, Structs, Reads, Same
  <2> QED  BY <1>2, <1>3, <2>1, <2>2, FilesSame DEF Still
<1>20. ASSUME NEW r \in Readers, NEW y, AllowDone(r, y) PROVE FilesExact'
  <2>1. Still
    BY <1>20, SameStill DEF AllowDone
  <2>2. UNCHANGED refs /\ \A q \in Readers : reader'[q].file = reader[q].file
    BY <1>2, <1>4, <1>5, <1>20 DEF AllowDone, ReaderIs, Structs, Reads, Same
  <2> QED  BY <1>2, <1>3, <2>1, <2>2, FilesSame DEF Still
<1>21. ASSUME NEW r \in Readers, NEW x, DenyDone(r, x) PROVE FilesExact'
  <2>1. Still
    BY <1>2, <1>21, PutStill DEF DenyDone
  <2>2. UNCHANGED refs /\ \A q \in Readers : reader'[q].file = reader[q].file
    BY <1>2, <1>4, <1>5, <1>21 DEF DenyDone, MmIs, ReaderIs, Structs, Reads, Same
  <2> QED  BY <1>2, <1>3, <2>1, <2>2, FilesSame DEF Still
<1>22. ASSUME NEW r \in Readers, NEW x, PutMmDone(r, x) PROVE FilesExact'
  <2>1. Still
    BY <1>2, <1>22, PutStill DEF PutMmDone
  <2>2. UNCHANGED refs /\ \A q \in Readers : reader'[q].file = reader[q].file
    BY <1>2, <1>4, <1>5, <1>22 DEF PutMmDone, MmIs, ReaderIs, Structs, Reads, Same
  <2> QED  BY <1>2, <1>3, <2>1, <2>2, FilesSame DEF Still
<1>23. ASSUME NEW r \in Readers, NEW f, NEW y, ExeDone(r, f, y) PROVE FilesExact'
  <2>1. UNCHANGED mm /\ \A q \in Readers : q # r => reader'[q].file = reader[q].file
    BY <1>2, <1>23 DEF ExeDone, ReaderIs, Structs
  <2>2. \A g \in Files : One(r \in HoldersOf(g)') = One(g = f) /\ One(r \in HoldersOf(g)) = 0
    BY <1>2, <1>4, <1>5, <1>23 DEF ExeDone, ReaderIs, Structs, HoldersOf, Reads, One
  <2>3. \A g \in Files : /\ refs'[g].held = refs[g].held + One(g = f)
                         /\ refs'[g].denied = refs[g].denied /\ refs'[g].writable = refs[g].writable
    BY <1>2, <1>23, GotIs DEF ExeDone
  <2>4. \A g \in Files :
          /\ refs'[g].held = refs[g].held + One(r \in HoldersOf(g)') - One(r \in HoldersOf(g))
          /\ refs'[g].denied = refs[g].denied /\ refs'[g].writable = refs[g].writable
    BY <1>6, <2>2, <2>3
  <2> QED  BY <1>2, <1>3, <2>1, <2>4, FilesReader
<1>24. ASSUME NEW r \in Readers, PutFileDone(r) PROVE FilesExact'
  <2>1. UNCHANGED mm /\ \A q \in Readers : q # r => reader'[q].file = reader[q].file
    BY <1>2, <1>24 DEF PutFileDone, ReaderIs, Structs
  <2>2. \A g \in Files : One(r \in HoldersOf(g)') = 0 /\ One(r \in HoldersOf(g)) = One(g = reader[r].file)
    BY <1>2, <1>4, <1>5, <1>24 DEF PutFileDone, ReaderIs, Structs, HoldersOf, Reads, One
  <2>3. \A g \in Files : /\ refs'[g].held = refs[g].held - One(g = reader[r].file)
                         /\ refs'[g].denied = refs[g].denied /\ refs'[g].writable = refs[g].writable
    <3>1. reader[r].file \in Files \cup {None}
      BY <1>4 DEF ReaderType
    <3> QED  BY <1>2, <3>1, <1>24, PutIs DEF PutFileDone
  <2>4. \A g \in Files :
          /\ refs'[g].held = refs[g].held + One(r \in HoldersOf(g)') - One(r \in HoldersOf(g))
          /\ refs'[g].denied = refs[g].denied /\ refs'[g].writable = refs[g].writable
    BY <1>6, <2>2, <2>3
  <2> QED  BY <1>2, <1>3, <2>1, <2>4, FilesReader
<1>25. ASSUME NEW k \in Kthreads, NEW m, NEW x, NEW y, BorrowDone(k, m, x, y) PROVE FilesExact'
  <2>1. Still
    <3>1. MmIs(m, x) /\ x.state = mm[m].state /\ x.exe = mm[m].exe /\ x.areas = mm[m].areas /\ x.binfmt = mm[m].binfmt
      BY <1>25 DEF BorrowDone, SameHold
    <3> QED  BY <1>2, <3>1, MmStill DEF Res, IsPresent
  <2>2. UNCHANGED refs /\ \A q \in Readers : reader'[q].file = reader[q].file
    BY <1>2, <1>4, <1>5, <1>25 DEF BorrowDone, MmIs, KthreadIs, Structs, Reads, Same
  <2> QED  BY <1>2, <1>3, <2>1, <2>2, FilesSame DEF Still
<1>26. ASSUME NEW k \in Kthreads, NEW x, NEW y, UseDone(k, x, y) PROVE FilesExact'
  <2>1. Still
    BY <1>2, <1>26, GetStill DEF UseDone
  <2>2. UNCHANGED refs /\ \A q \in Readers : reader'[q].file = reader[q].file
    BY <1>2, <1>4, <1>5, <1>26 DEF UseDone, MmIs, KthreadIs, Structs, Reads, Same
  <2> QED  BY <1>2, <1>3, <2>1, <2>2, FilesSame DEF Still
<1>27. ASSUME NEW k \in Kthreads, NEW x, NEW y, AsyncDone(k, x, y) PROVE FilesExact'
  <2>1. Still
    BY <1>2, <1>27, PutStill DEF AsyncDone
  <2>2. UNCHANGED refs /\ \A q \in Readers : reader'[q].file = reader[q].file
    BY <1>2, <1>4, <1>5, <1>27 DEF AsyncDone, MmIs, KthreadIs, Structs, Reads, Same
  <2> QED  BY <1>2, <1>3, <2>1, <2>2, FilesSame DEF Still
<1>28. ASSUME NEW k \in Kthreads, NEW x, NEW y, DropDone(k, x, y) PROVE FilesExact'
  <2>1. Still
    <3> DEFINE m == kthread[k].mm
    <3>1. /\ MmIs(m, x)
          /\ \/ x.state = mm[m].state /\ x.exe = mm[m].exe /\ x.areas = mm[m].areas /\ x.binfmt = mm[m].binfmt
             \/ x.state = "free" /\ ~IsPresent(mm[m])
      BY <1>28 DEF DropDone, SameHold
    <3> HIDE DEF m
    <3> QED  BY <1>2, <3>1, MmStill DEF Res, IsPresent
  <2>2. UNCHANGED refs /\ \A q \in Readers : reader'[q].file = reader[q].file
    BY <1>2, <1>4, <1>5, <1>28 DEF DropDone, MmIs, KthreadIs, Structs, Reads, Same
  <2> QED  BY <1>2, <1>3, <2>1, <2>2, FilesSame DEF Still
<1>29. ASSUME NEW m, NEW x, FinalDone(m, x) PROVE FilesExact'
  <2> DEFINE s == mm[m].areas
             e == mm[m].exe
             r == ExitMmap(refs, s)
  <2>1. /\ m \in Mms /\ ResBut(m) /\ UNCHANGED reader /\ mm'[m] = x
        /\ IsPresent(mm[m]) /\ ~IsPresent(x) /\ refs' = Put(r, e)
    BY <1>2, <1>29 DEF FinalDone, MmIs, ResBut, Res, IsPresent, MmsType, Rest
  <2>2. s \in Seq(Areas) /\ e \in Files \cup {None}
    BY <1>2, <2>1 DEF MmsType, MmType
  <2>3. /\ r \in RefsType
        /\ \A f \in Files : /\ r[f].held = refs[f].held - Number(s, Maps(f))
                            /\ r[f].denied = refs[f].denied - Number(s, Denies(f))
                            /\ r[f].writable = refs[f].writable - Number(s, Writes(f))
    BY <1>2, <2>2, ExitIs
  <2> HIDE DEF r
  <2>4. \A f \in Files : /\ refs'[f].held = r[f].held - One(f = e)
                         /\ refs'[f].denied = r[f].denied /\ refs'[f].writable = r[f].writable
    BY <2>1, <2>2, <2>3, PutIs
  <2>5. \A f \in Files : One(HasExe(mm'[m], f)) = 0 /\ One(HasExe(mm[m], f)) = One(f = e)
    BY <2>1 DEF One, HasExe
  <2>6. \A A : Here(mm'[m], A) = 0 /\ Here(mm[m], A) = Number(s, A) /\ Number(s, A) \in Nat
    BY <2>1, <2>2, HereIs, PlacesFinite
  <2> HIDE DEF s, e
  <2>7. \A f \in Files :
          /\ refs'[f].held = refs[f].held + One(HasExe(mm'[m], f)) - One(HasExe(mm[m], f))
                             + Here(mm'[m], Maps(f)) - Here(mm[m], Maps(f))
          /\ refs'[f].denied = refs[f].denied + Here(mm'[m], Denies(f)) - Here(mm[m], Denies(f))
          /\ refs'[f].writable = refs[f].writable + Here(mm'[m], Writes(f)) - Here(mm[m], Writes(f))
    BY <1>6, <2>3, <2>4, <2>5, <2>6
  <2> QED  BY <1>2, <1>3, <2>1, <2>7, FilesMm
<1>30. ASSUME NEW t \in Tasks, TaskSteps(t) PROVE FilesExact'
  BY <1>30, <1>8, <1>9, <1>10, <1>11, <1>12, <1>13, <1>14, <1>15 DEF TaskSteps
<1>31. ASSUME NEW r \in Readers, ReaderSteps(r) PROVE FilesExact'
  BY <1>31, <1>16, <1>17, <1>18, <1>19, <1>20, <1>21, <1>22, <1>23, <1>24 DEF ReaderSteps
<1>32. ASSUME NEW k \in Kthreads, KthreadSteps(k) PROVE FilesExact'
  BY <1>32, <1>25, <1>26, <1>27, <1>28 DEF KthreadSteps
<1> QED  BY <1>29, <1>30, <1>31, <1>32 DEF Steps

LEMMA OtherCommittedStep ==
  ASSUME Basic, UsersInv, CommittedExact, Structs', Totals', \A u \in Tasks : ~AreasSteps(u), Steps
  PROVE  CommittedExact'
<1>1. Typed /\ Shape /\ LockInv
  BY DEF Basic
<1>2. Structs /\ mm \in MmsType /\ refs \in RefsType /\ committed \in Int /\ None \notin Files /\ None \notin Mms
  BY <1>1, TypedParts, SetsAssumption DEF Structs, Totals
<1>3. mm' \in MmsType /\ refs' \in RefsType
  BY DEF Structs, Totals
<1>4. \A q \in Readers : reader[q] \in ReaderType /\ (~Reads(q, "file") => reader[q].file = None)
  BY <1>1, <1>2, PointersType DEF Shape, ReaderShape
<1>5. /\ NoCall.at = "user" /\ NoCall.mm = None /\ NoCall.charge = 0
      /\ Idle.at = "idle" /\ Idle.mm = None /\ Idle.file = None /\ Idle.access = FALSE
  BY FreeType
<1>6. (\A b : One(b) \in {0, 1}) /\ \A f \in Files : refs[f].held \in Int /\ refs[f].denied \in Int /\ refs[f].writable \in Int
  BY <1>2 DEF One, RefsType, RefType
<1>7. \A u \in Tasks : /\ call[u].mm \in Mms => mm[call[u].mm].state = "live"
                       /\ Forking(u) => call[u].mm \in Mms
                       /\ ~At(u, "charged") => call[u].charge = 0
                       /\ At(u, "user") => call[u].mm = None
                       /\ call[u].charge \in {0, 1}
  BY <1>1, HasLive, HasMm, CallFacts
<1>8. ASSUME NEW t \in Tasks, NEW m, NEW x, NEW y, AllocDone(t, m, x, y) PROVE CommittedExact'
  <2>1. /\ m \in Mms /\ ResBut(m) /\ mm'[m] = x /\ call'[t] = y /\ y.charge = 0 /\ call[t].charge = 0
        /\ ~IsPresent(mm[m]) /\ IsPresent(x) /\ x.areas = <<>> /\ committed' = committed
        /\ \A u \in Tasks : u # t => call'[u] = call[u]
    BY <1>2, <1>7, <1>8 DEF AllocDone, MmIs, CallIs, ResBut, Res, IsPresent, MmsType, Structs, At
  <2>2. Here(mm'[m], Accounted) = 0 /\ Here(mm[m], Accounted) = 0
    BY <2>1, HereIs, NumberEmpty, HeapCounts
  <2>3. committed' = committed + Here(mm'[m], Accounted) - Here(mm[m], Accounted)
                     + call'[t].charge - call[t].charge
    BY <1>2, <2>1, <2>2
  <2> QED  BY <1>2, <1>3, <2>1, <2>3, CommittedMm
<1>9. ASSUME NEW t \in Tasks, NEW c, NEW z, FinishDone(t, c, z) PROVE CommittedExact'
  <2>1. Still
    BY <1>9, SameStill DEF FinishDone
  <2>2. UNCHANGED committed /\ \A u \in Tasks : call'[u].charge = call[u].charge
    BY <1>2, <1>5, <1>7, <1>9 DEF FinishDone, TaskIs, CallIs, Structs, At, Same
  <2> QED  BY <1>2, <2>1, <2>2, CommittedSame DEF Still
<1>10. ASSUME NEW t \in Tasks, NEW x, FreePtDone(t, x) PROVE CommittedExact'
  <2>1. ResStay
    <3> DEFINE m == call[t].mm
    <3>1. MmIs(m, x) /\ x.exe = mm[m].exe /\ x.areas = mm[m].areas /\ x.state = "dying" /\ mm[m].state = "live"
      BY <1>7, <1>10 DEF FreePtDone, MmIs
    <3> HIDE DEF m
    <3> QED  BY <1>2, <3>1 DEF Res, IsPresent, ResStay, MmIs, MmsType
  <2>2. UNCHANGED committed /\ \A u \in Tasks : call'[u].charge = call[u].charge
    BY <1>2, <1>5, <1>7, <1>10 DEF FreePtDone, CallIs, Structs
  <2> QED  BY <1>2, <2>1, <2>2, CommittedSame
<1>11. ASSUME NEW t \in Tasks, NEW x, NEW z, ExitDone(t, x, z) PROVE CommittedExact'
  <2>1. Still
    BY <1>2, <1>11, PutStill DEF ExitDone
  <2>2. UNCHANGED committed /\ \A u \in Tasks : call'[u].charge = call[u].charge
    BY <1>2, <1>5, <1>7, <1>11 DEF ExitDone, PutDone, MmIs, TaskIs, Structs, At, Same
  <2> QED  BY <1>2, <2>1, <2>2, CommittedSame DEF Still
<1>12. ASSUME NEW t \in Tasks, NEW m, NEW f, NEW x, NEW y, ExecDone(t, m, f, x, y) PROVE CommittedExact'
  <2>1. /\ m \in Mms /\ ResBut(m) /\ mm'[m] = x /\ call'[t] = y /\ y.charge = 0 /\ call[t].charge = 0
        /\ ~IsPresent(mm[m]) /\ IsPresent(x) /\ x.areas = <<Heap>> /\ committed' = committed + 1
        /\ \A u \in Tasks : u # t => call'[u] = call[u]
    BY <1>2, <1>7, <1>12 DEF ExecDone, MmIs, CallIs, ResBut, Res, IsPresent, MmsType, Structs, At
  <2>2. Here(mm'[m], Accounted) = 1 /\ Here(mm[m], Accounted) = 0
    BY <2>1, HereIs, NumberEmpty, HeapCounts
  <2>3. committed' = committed + Here(mm'[m], Accounted) - Here(mm[m], Accounted)
                     + call'[t].charge - call[t].charge
    BY <1>2, <2>1, <2>2
  <2> QED  BY <1>2, <1>3, <2>1, <2>3, CommittedMm
<1>13. ASSUME NEW t \in Tasks, NEW x, ExecFailsDone(t, x) PROVE CommittedExact'
  <2>1. Still
    BY <1>2, <1>13, PutStill DEF ExecFailsDone
  <2>2. UNCHANGED committed /\ \A u \in Tasks : call'[u].charge = call[u].charge
    BY <1>2, <1>5, <1>7, <1>13 DEF ExecFailsDone, PutDone, MmIs, CallIs, Structs, At, Same
  <2> QED  BY <1>2, <2>1, <2>2, CommittedSame DEF Still
<1>14. ASSUME NEW t \in Tasks, NEW x, NEW y, NEW z, ExecMmapDone(t, x, y, z) PROVE CommittedExact'
  <2>1. Still
    BY <1>2, <1>14, PutStill DEF ExecMmapDone
  <2>2. UNCHANGED committed /\ \A u \in Tasks : call'[u].charge = call[u].charge
    BY <1>2, <1>5, <1>7, <1>14 DEF ExecMmapDone, PutDone, MmIs, CallIs, TaskIs, Structs, At, Same
  <2> QED  BY <1>2, <2>1, <2>2, CommittedSame DEF Still
<1>15. ASSUME NEW t \in Tasks, NEW z, ExecCredsDone(t, z) PROVE CommittedExact'
  <2>1. Still
    BY <1>15, SameStill DEF ExecCredsDone
  <2>2. UNCHANGED committed /\ \A u \in Tasks : call'[u].charge = call[u].charge
    BY <1>2, <1>5, <1>7, <1>15 DEF ExecCredsDone, TaskIs, CallIs, Structs, At, Same
  <2> QED  BY <1>2, <2>1, <2>2, CommittedSame DEF Still
<1>16. ASSUME NEW r \in Readers, NEW t, NEW access, NEW y, LookDone(r, t, access, y) PROVE CommittedExact'
  <2>1. Still
    BY <1>16, SameStill DEF LookDone
  <2>2. UNCHANGED committed /\ \A u \in Tasks : call'[u].charge = call[u].charge
    BY <1>2, <1>5, <1>7, <1>16 DEF LookDone, ReaderIs, Structs, At, Same
  <2> QED  BY <1>2, <2>1, <2>2, CommittedSame DEF Still
<1>17. ASSUME NEW r \in Readers, NEW y, ReadDone(r, y) PROVE CommittedExact'
  <2>1. Still
    BY <1>17, SameStill DEF ReadDone
  <2>2. UNCHANGED committed /\ \A u \in Tasks : call'[u].charge = call[u].charge
    BY <1>2, <1>5, <1>7, <1>17 DEF ReadDone, ReaderIs, Structs, At, Same
  <2> QED  BY <1>2, <2>1, <2>2, CommittedSame DEF Still
<1>18. ASSUME NEW r \in Readers, NoneDone(r) PROVE CommittedExact'
  <2>1. Still
    BY <1>18, SameStill DEF NoneDone
  <2>2. UNCHANGED committed /\ \A u \in Tasks : call'[u].charge = call[u].charge
    BY <1>2, <1>5, <1>7, <1>18 DEF NoneDone, ReaderIs, Structs, At, Same
  <2> QED  BY <1>2, <2>1, <2>2, CommittedSame DEF Still
<1>19. ASSUME NEW r \in Readers, NEW x, NEW y, SomeDone(r, x, y) PROVE CommittedExact'
  <2>1. Still
    BY <1>2, <1>19, GetStill DEF SomeDone
  <2>2. UNCHANGED committed /\ \A u \in Tasks : call'[u].charge = call[u].charge
    BY <1>2, <1>5, <1>7, <1>19 DEF SomeDone, GetDone, MmIs, ReaderIs, Structs, At, Same
  <2> QED  BY <1>2, <2>1, <2>2, CommittedSame DEF Still
<1>20. ASSUME NEW r \in Readers, NEW y, AllowDone(r, y) PROVE CommittedExact'
  <2>1. Still
    BY <1>20, SameStill DEF AllowDone
  <2>2. UNCHANGED committed /\ \A u \in Tasks : call'[u].charge = call[u].charge
    BY <1>2, <1>5, <1>7, <1>20 DEF AllowDone, ReaderIs, Structs, At, Same
  <2> QED  BY <1>2, <2>1, <2>2, CommittedSame DEF Still
<1>21. ASSUME NEW r \in Readers, NEW x, DenyDone(r, x) PROVE CommittedExact'
  <2>1. Still
    BY <1>2, <1>21, PutStill DEF DenyDone
  <2>2. UNCHANGED committed /\ \A u \in Tasks : call'[u].charge = call[u].charge
    BY <1>2, <1>5, <1>7, <1>21 DEF DenyDone, PutDone, MmIs, ReaderIs, Structs, At, Same
  <2> QED  BY <1>2, <2>1, <2>2, CommittedSame DEF Still
<1>22. ASSUME NEW r \in Readers, NEW x, PutMmDone(r, x) PROVE CommittedExact'
  <2>1. Still
    BY <1>2, <1>22, PutStill DEF PutMmDone
  <2>2. UNCHANGED committed /\ \A u \in Tasks : call'[u].charge = call[u].charge
    BY <1>2, <1>5, <1>7, <1>22 DEF PutMmDone, PutDone, MmIs, ReaderIs, Structs, At, Same
  <2> QED  BY <1>2, <2>1, <2>2, CommittedSame DEF Still
<1>23. ASSUME NEW r \in Readers, NEW f, NEW y, ExeDone(r, f, y) PROVE CommittedExact'
  <2>1. Still
    BY <1>23, SameStill DEF ExeDone
  <2>2. UNCHANGED committed /\ \A u \in Tasks : call'[u].charge = call[u].charge
    BY <1>2, <1>5, <1>7, <1>23 DEF ExeDone, ReaderIs, Structs, At, Same
  <2> QED  BY <1>2, <2>1, <2>2, CommittedSame DEF Still
<1>24. ASSUME NEW r \in Readers, PutFileDone(r) PROVE CommittedExact'
  <2>1. Still
    BY <1>24, SameStill DEF PutFileDone
  <2>2. UNCHANGED committed /\ \A u \in Tasks : call'[u].charge = call[u].charge
    BY <1>2, <1>5, <1>7, <1>24 DEF PutFileDone, ReaderIs, Structs, At, Same
  <2> QED  BY <1>2, <2>1, <2>2, CommittedSame DEF Still
<1>25. ASSUME NEW k \in Kthreads, NEW m, NEW x, NEW y, BorrowDone(k, m, x, y) PROVE CommittedExact'
  <2>1. Still
    <3>1. MmIs(m, x) /\ x.state = mm[m].state /\ x.exe = mm[m].exe /\ x.areas = mm[m].areas /\ x.binfmt = mm[m].binfmt
      BY <1>25 DEF BorrowDone, SameHold
    <3> QED  BY <1>2, <3>1, MmStill DEF Res, IsPresent
  <2>2. UNCHANGED committed /\ \A u \in Tasks : call'[u].charge = call[u].charge
    BY <1>2, <1>5, <1>7, <1>25 DEF BorrowDone, MmIs, KthreadIs, Structs, At, Same
  <2> QED  BY <1>2, <2>1, <2>2, CommittedSame DEF Still
<1>26. ASSUME NEW k \in Kthreads, NEW x, NEW y, UseDone(k, x, y) PROVE CommittedExact'
  <2>1. Still
    BY <1>2, <1>26, GetStill DEF UseDone
  <2>2. UNCHANGED committed /\ \A u \in Tasks : call'[u].charge = call[u].charge
    BY <1>2, <1>5, <1>7, <1>26 DEF UseDone, GetDone, MmIs, KthreadIs, Structs, At, Same
  <2> QED  BY <1>2, <2>1, <2>2, CommittedSame DEF Still
<1>27. ASSUME NEW k \in Kthreads, NEW x, NEW y, AsyncDone(k, x, y) PROVE CommittedExact'
  <2>1. Still
    BY <1>2, <1>27, PutStill DEF AsyncDone
  <2>2. UNCHANGED committed /\ \A u \in Tasks : call'[u].charge = call[u].charge
    BY <1>2, <1>5, <1>7, <1>27 DEF AsyncDone, PutDone, MmIs, KthreadIs, Structs, At, Same
  <2> QED  BY <1>2, <2>1, <2>2, CommittedSame DEF Still
<1>28. ASSUME NEW k \in Kthreads, NEW x, NEW y, DropDone(k, x, y) PROVE CommittedExact'
  <2>1. Still
    <3> DEFINE m == kthread[k].mm
    <3>1. /\ MmIs(m, x)
          /\ \/ x.state = mm[m].state /\ x.exe = mm[m].exe /\ x.areas = mm[m].areas /\ x.binfmt = mm[m].binfmt
             \/ x.state = "free" /\ ~IsPresent(mm[m])
      BY <1>28 DEF DropDone, SameHold
    <3> HIDE DEF m
    <3> QED  BY <1>2, <3>1, MmStill DEF Res, IsPresent
  <2>2. UNCHANGED committed /\ \A u \in Tasks : call'[u].charge = call[u].charge
    BY <1>2, <1>5, <1>7, <1>28 DEF DropDone, MmIs, KthreadIs, Structs, At, Same
  <2> QED  BY <1>2, <2>1, <2>2, CommittedSame DEF Still
<1>29. ASSUME NEW m, NEW x, FinalDone(m, x) PROVE CommittedExact'
  <2> DEFINE s == mm[m].areas
  <2>1. /\ m \in Mms /\ ResBut(m) /\ UNCHANGED call /\ mm'[m] = x
        /\ IsPresent(mm[m]) /\ ~IsPresent(x) /\ committed' = committed - Number(s, Accounted)
    BY <1>2, <1>29 DEF FinalDone, MmIs, ResBut, Res, IsPresent, MmsType, Rest
  <2>2. s \in Seq(Areas)
    BY <1>2, <2>1 DEF MmsType, MmType
  <2>3. Here(mm'[m], Accounted) = 0 /\ Here(mm[m], Accounted) = Number(s, Accounted) /\ Number(s, Accounted) \in Nat
    BY <2>1, <2>2, HereIs, PlacesFinite
  <2> HIDE DEF s
  <2> SUFFICES ASSUME NEW t \in Tasks PROVE CommittedExact'
    BY SetsAssumption
  <2>4. committed' = committed + Here(mm'[m], Accounted) - Here(mm[m], Accounted)
                     + call'[t].charge - call[t].charge
    BY <1>2, <1>7, <2>1, <2>3
  <2> QED  BY <1>2, <1>3, <1>7, <2>1, <2>4, CommittedMm
<1>30. ASSUME NEW t \in Tasks, TaskSteps(t) PROVE CommittedExact'
  BY <1>30, <1>8, <1>9, <1>10, <1>11, <1>12, <1>13, <1>14, <1>15 DEF TaskSteps
<1>31. ASSUME NEW r \in Readers, ReaderSteps(r) PROVE CommittedExact'
  BY <1>31, <1>16, <1>17, <1>18, <1>19, <1>20, <1>21, <1>22, <1>23, <1>24 DEF ReaderSteps
<1>32. ASSUME NEW k \in Kthreads, KthreadSteps(k) PROVE CommittedExact'
  BY <1>32, <1>25, <1>26, <1>27, <1>28 DEF KthreadSteps
<1> QED  BY <1>29, <1>30, <1>31, <1>32 DEF Steps

LEMMA OtherModulesStep ==
  ASSUME Basic, UsersInv, ModulesExact, Structs', Totals', \A u \in Tasks : ~AreasSteps(u), Steps
  PROVE  ModulesExact'
<1>1. Typed /\ Shape /\ LockInv
  BY DEF Basic
<1>2. Structs /\ mm \in MmsType /\ refs \in RefsType /\ committed \in Int /\ None \notin Files /\ None \notin Mms
  BY <1>1, TypedParts, SetsAssumption DEF Structs, Totals
<1>3. mm' \in MmsType /\ refs' \in RefsType
  BY DEF Structs, Totals
<1>4. \A q \in Readers : reader[q] \in ReaderType /\ (~Reads(q, "file") => reader[q].file = None)
  BY <1>1, <1>2, PointersType DEF Shape, ReaderShape
<1>5. /\ NoCall.at = "user" /\ NoCall.mm = None /\ NoCall.charge = 0
      /\ Idle.at = "idle" /\ Idle.mm = None /\ Idle.file = None /\ Idle.access = FALSE
  BY FreeType
<1>6. (\A b : One(b) \in {0, 1}) /\ \A f \in Files : refs[f].held \in Int /\ refs[f].denied \in Int /\ refs[f].writable \in Int
  BY <1>2 DEF One, RefsType, RefType
<1>7. \A u \in Tasks : /\ call[u].mm \in Mms => mm[call[u].mm].state = "live"
                       /\ Forking(u) => call[u].mm \in Mms
                       /\ ~At(u, "charged") => call[u].charge = 0
                       /\ At(u, "user") => call[u].mm = None
                       /\ call[u].charge \in {0, 1}
  BY <1>1, HasLive, HasMm, CallFacts
<1>8. modules \in Int
  BY <1>1, TypedParts DEF Totals
<1>9. \A u \in Tasks : Forking(u) => \A v \in Tasks : v # u => call[v].mm # call[u].mm
  BY DEF Basic, PrivateInv, Private
<1>10. ASSUME NEW t \in Tasks, NEW m, NEW x, NEW y, AllocDone(t, m, x, y) PROVE ModulesExact'
  <2>1. /\ m \in Mms /\ mm[m].state = "free" /\ mm'[m] = x /\ IsPresent(x)
        /\ \A n \in Mms : n # m => mm'[n] = mm[n]
        /\ call'[t] = y /\ y.at = "mmap_sem" /\ y.mm = m /\ ~Forking(t)
        /\ (\A u \in Tasks : u # t => call'[u] = call[u]) /\ UNCHANGED modules
    BY <1>2, <1>5, <1>7, <1>10 DEF AllocDone, MmIs, CallIs, MmsType, Structs, IsPresent, At,
       Forking, ForkPoints
  <2>2. Making(m)' /\ \A n \in Mms : n # m => (Making(n)' <=> Making(n))
    BY <2>1 DEF Making, Forking, ForkPoints
  <2>3. \A n \in Mms : n # m => (n \in Owners' <=> n \in Owners)
    BY <2>1, <2>2, OwnersAre
  <2>4. m \notin Owners' /\ m \notin Owners
    BY <2>1, <2>2, OwnersAre DEF IsPresent
  <2>5. modules' = modules + One(m \in Owners') - One(m \in Owners)
    BY <1>2, <1>8, <2>1, <2>4 DEF One
  <2> QED  BY <2>3, <2>5, ModulesMm
<1>11. ASSUME NEW t \in Tasks, NEW c, NEW z, FinishDone(t, c, z) PROVE ModulesExact'
  <2> SUFFICES ASSUME NEW m, m = call[t].mm PROVE ModulesExact'
    OBVIOUS
  <2>1. /\ m \in Mms /\ IsPresent(mm[m]) /\ Forking(t) /\ (\A n \in Mms : mm'[n] = mm[n])
        /\ call'[t] = NoCall /\ \A u \in Tasks : u # t => call'[u] = call[u]
    BY <1>2, <1>5, <1>7, <1>11 DEF FinishDone, CallIs, Structs, IsPresent, At, Forking, ForkPoints
  <2>2. Making(m) /\ ~Making(m)' /\ \A n \in Mms : n # m => (Making(n)' <=> Making(n))
    <3>1. \A u \in Tasks : u # t => call[u].mm # m
      BY <2>1, <1>9
    <3>2. ~Forking(t)'
      BY <1>5, <2>1 DEF Forking, ForkPoints
    <3>3. \A u \in Tasks : u # t => (Forking(u)' <=> Forking(u)) /\ call'[u].mm = call[u].mm
      BY <2>1 DEF Forking
    <3>4. ASSUME NEW n \in Mms, n # m PROVE Making(n)' <=> Making(n)
      BY <2>1, <3>2, <3>3, <3>4, MakingSame
    <3> QED  BY <2>1, <3>1, <3>2, <3>3, <3>4 DEF Making
  <2>3. \A n \in Mms : n # m => (n \in Owners' <=> n \in Owners)
    BY <2>1, <2>2, OwnersAre
  <2>4. m \notin Owners /\ (m \in Owners' <=> mm[m].binfmt)
    BY <2>1, <2>2, OwnersAre
  <2>5. modules' = IF mm[m].binfmt THEN modules + 1 ELSE modules
    BY <1>11 DEF FinishDone
  <2>6. modules' = modules + One(m \in Owners') - One(m \in Owners)
    BY <1>2, <1>8, <2>4, <2>5 DEF One
  <2> QED  BY <2>3, <2>6, ModulesMm
<1>12. ASSUME NEW t \in Tasks, NEW x, FreePtDone(t, x) PROVE ModulesExact'
  <2> SUFFICES ASSUME NEW m, m = call[t].mm PROVE ModulesExact'
    OBVIOUS
  <2>1. /\ m \in Mms /\ IsPresent(mm[m]) /\ Forking(t) /\ mm'[m] = x /\ x.binfmt = FALSE
        /\ \A n \in Mms : n # m => mm'[n] = mm[n]
        /\ call'[t] = NoCall /\ (\A u \in Tasks : u # t => call'[u] = call[u]) /\ UNCHANGED modules
    BY <1>2, <1>5, <1>7, <1>12 DEF FreePtDone, MmIs, MmsType, CallIs, Structs, IsPresent
  <2>2. Making(m) /\ ~Making(m)' /\ \A n \in Mms : n # m => (Making(n)' <=> Making(n))
    <3>1. \A u \in Tasks : u # t => call[u].mm # m
      BY <2>1, <1>9
    <3>2. ~Forking(t)'
      BY <1>5, <2>1 DEF Forking, ForkPoints
    <3>3. \A u \in Tasks : u # t => (Forking(u)' <=> Forking(u)) /\ call'[u].mm = call[u].mm
      BY <2>1 DEF Forking
    <3>4. ASSUME NEW n \in Mms, n # m PROVE Making(n)' <=> Making(n)
      BY <2>1, <3>2, <3>3, <3>4, MakingSame
    <3> QED  BY <2>1, <3>1, <3>2, <3>3, <3>4 DEF Making
  <2>3. \A n \in Mms : n # m => (n \in Owners' <=> n \in Owners)
    BY <2>1, <2>2, OwnersAre
  <2>4. m \notin Owners' /\ m \notin Owners
    BY <2>1, <2>2, OwnersAre
  <2>5. modules' = modules + One(m \in Owners') - One(m \in Owners)
    BY <1>2, <1>8, <2>1, <2>4 DEF One
  <2> QED  BY <2>3, <2>5, ModulesMm
<1>13. ASSUME NEW t \in Tasks, NEW x, NEW z, ExitDone(t, x, z) PROVE ModulesExact'
  <2>1. Still
    BY <1>2, <1>13, PutStill DEF ExitDone
  <2>2. \A n \in Mms : Making(n)' <=> Making(n)
    BY <1>13 DEF ExitDone, PutDone, MmIs, TaskIs, Making, Forking
  <2>3. UNCHANGED modules
    BY <1>13 DEF ExitDone, PutDone, MmIs, TaskIs, Same
  <2>4. \A n \in Mms : n \in Owners' <=> n \in Owners
    BY <2>1, <2>2, OwnersAre DEF Still, ResStay, Res
  <2> QED  BY <2>3, <2>4, ModulesSame
<1>14. ASSUME NEW t \in Tasks, NEW m, NEW f, NEW x, NEW y, ExecDone(t, m, f, x, y) PROVE ModulesExact'
  <2>1. /\ m \in Mms /\ mm[m].state = "free" /\ mm'[m] = x /\ IsPresent(x) /\ x.binfmt = TRUE
        /\ \A n \in Mms : n # m => mm'[n] = mm[n]
        /\ call'[t].at = "exec" /\ ~Forking(t)
        /\ (\A u \in Tasks : u # t => call'[u] = call[u]) /\ modules' = modules + 1
    BY <1>2, <1>5, <1>7, <1>14 DEF ExecDone, MmIs, CallIs, MmsType, Structs, IsPresent, At,
       Forking, ForkPoints
  <2>2. ~Making(m) /\ \A n \in Mms : Making(n)' <=> Making(n)
    <3>1. ~Forking(t)'
      BY <2>1 DEF Forking, ForkPoints
    <3>2. \A u \in Tasks : u # t => (Forking(u)' <=> Forking(u))
      BY <2>1 DEF Forking
    <3>3. ~Making(m)
      BY <1>7, <2>1 DEF Making
    <3> QED  BY <2>1, <3>1, <3>2, <3>3 DEF Making
  <2>3. \A n \in Mms : n # m => (n \in Owners' <=> n \in Owners)
    BY <2>1, <2>2, OwnersAre
  <2>4. m \in Owners' /\ m \notin Owners
    BY <2>1, <2>2, OwnersAre DEF IsPresent
  <2>5. modules' = modules + One(m \in Owners') - One(m \in Owners)
    BY <1>2, <1>8, <2>1, <2>4 DEF One
  <2> QED  BY <2>3, <2>5, ModulesMm
<1>15. ASSUME NEW t \in Tasks, NEW x, ExecFailsDone(t, x) PROVE ModulesExact'
  <2>1. Still
    BY <1>2, <1>15, PutStill DEF ExecFailsDone
  <2>2. \A n \in Mms : Making(n)' <=> Making(n)
    <3>1. /\ ~Forking(t) /\ ~Forking(t)'
          /\ \A u \in Tasks : u # t => call'[u] = call[u]
      BY <1>2, <1>5, <1>15 DEF ExecFailsDone, PutDone, MmIs, CallIs, Structs, Forking, ForkPoints,
         At
    <3>2. \A u \in Tasks : (Forking(u)' <=> Forking(u)) /\ (Forking(u) => call'[u].mm = call[u].mm)
      BY <3>1 DEF Forking
    <3> QED  BY <3>2, MakingSame
  <2>3. UNCHANGED modules
    BY <1>15 DEF ExecFailsDone, PutDone, MmIs, CallIs, Same
  <2>4. \A n \in Mms : n \in Owners' <=> n \in Owners
    BY <2>1, <2>2, OwnersAre DEF Still, ResStay, Res
  <2> QED  BY <2>3, <2>4, ModulesSame
<1>16. ASSUME NEW t \in Tasks, NEW x, NEW y, NEW z, ExecMmapDone(t, x, y, z) PROVE ModulesExact'
  <2>1. Still
    BY <1>2, <1>16, PutStill DEF ExecMmapDone
  <2>2. \A n \in Mms : Making(n)' <=> Making(n)
    <3>1. /\ ~Forking(t) /\ ~Forking(t)'
          /\ \A u \in Tasks : u # t => call'[u] = call[u]
      BY <1>2, <1>5, <1>16 DEF ExecMmapDone, PutDone, MmIs, CallIs, TaskIs, Structs, Forking,
         ForkPoints, At
    <3>2. \A u \in Tasks : (Forking(u)' <=> Forking(u)) /\ (Forking(u) => call'[u].mm = call[u].mm)
      BY <3>1 DEF Forking
    <3> QED  BY <3>2, MakingSame
  <2>3. UNCHANGED modules
    BY <1>16 DEF ExecMmapDone, PutDone, MmIs, CallIs, TaskIs, Same
  <2>4. \A n \in Mms : n \in Owners' <=> n \in Owners
    BY <2>1, <2>2, OwnersAre DEF Still, ResStay, Res
  <2> QED  BY <2>3, <2>4, ModulesSame
<1>17. ASSUME NEW t \in Tasks, NEW z, ExecCredsDone(t, z) PROVE ModulesExact'
  <2>1. Still
    BY <1>17, SameStill DEF ExecCredsDone
  <2>2. \A n \in Mms : Making(n)' <=> Making(n)
    <3>1. /\ ~Forking(t) /\ ~Forking(t)'
          /\ \A u \in Tasks : u # t => call'[u] = call[u]
      BY <1>2, <1>5, <1>17 DEF ExecCredsDone, TaskIs, CallIs, Structs, Forking, ForkPoints, At
    <3>2. \A u \in Tasks : (Forking(u)' <=> Forking(u)) /\ (Forking(u) => call'[u].mm = call[u].mm)
      BY <3>1 DEF Forking
    <3> QED  BY <3>2, MakingSame
  <2>3. UNCHANGED modules
    BY <1>17 DEF ExecCredsDone, TaskIs, CallIs, Same
  <2>4. \A n \in Mms : n \in Owners' <=> n \in Owners
    BY <2>1, <2>2, OwnersAre DEF Still, ResStay, Res
  <2> QED  BY <2>3, <2>4, ModulesSame
<1>18. ASSUME NEW r \in Readers, NEW t, NEW access, NEW y, LookDone(r, t, access, y) PROVE ModulesExact'
  <2>1. Still
    BY <1>18, SameStill DEF LookDone
  <2>2. \A n \in Mms : Making(n)' <=> Making(n)
    BY <1>18 DEF LookDone, ReaderIs, Making, Forking
  <2>3. UNCHANGED modules
    BY <1>18 DEF LookDone, ReaderIs, Same
  <2>4. \A n \in Mms : n \in Owners' <=> n \in Owners
    BY <2>1, <2>2, OwnersAre DEF Still, ResStay, Res
  <2> QED  BY <2>3, <2>4, ModulesSame
<1>19. ASSUME NEW r \in Readers, NEW y, ReadDone(r, y) PROVE ModulesExact'
  <2>1. Still
    BY <1>19, SameStill DEF ReadDone
  <2>2. \A n \in Mms : Making(n)' <=> Making(n)
    BY <1>19 DEF ReadDone, ReaderIs, Making, Forking
  <2>3. UNCHANGED modules
    BY <1>19 DEF ReadDone, ReaderIs, Same
  <2>4. \A n \in Mms : n \in Owners' <=> n \in Owners
    BY <2>1, <2>2, OwnersAre DEF Still, ResStay, Res
  <2> QED  BY <2>3, <2>4, ModulesSame
<1>20. ASSUME NEW r \in Readers, NoneDone(r) PROVE ModulesExact'
  <2>1. Still
    BY <1>20, SameStill DEF NoneDone
  <2>2. \A n \in Mms : Making(n)' <=> Making(n)
    BY <1>20 DEF NoneDone, ReaderIs, Making, Forking
  <2>3. UNCHANGED modules
    BY <1>20 DEF NoneDone, ReaderIs, Same
  <2>4. \A n \in Mms : n \in Owners' <=> n \in Owners
    BY <2>1, <2>2, OwnersAre DEF Still, ResStay, Res
  <2> QED  BY <2>3, <2>4, ModulesSame
<1>21. ASSUME NEW r \in Readers, NEW x, NEW y, SomeDone(r, x, y) PROVE ModulesExact'
  <2>1. Still
    BY <1>2, <1>21, GetStill DEF SomeDone
  <2>2. \A n \in Mms : Making(n)' <=> Making(n)
    BY <1>21 DEF SomeDone, GetDone, MmIs, ReaderIs, Making, Forking
  <2>3. UNCHANGED modules
    BY <1>21 DEF SomeDone, GetDone, MmIs, ReaderIs, Same
  <2>4. \A n \in Mms : n \in Owners' <=> n \in Owners
    BY <2>1, <2>2, OwnersAre DEF Still, ResStay, Res
  <2> QED  BY <2>3, <2>4, ModulesSame
<1>22. ASSUME NEW r \in Readers, NEW y, AllowDone(r, y) PROVE ModulesExact'
  <2>1. Still
    BY <1>22, SameStill DEF AllowDone
  <2>2. \A n \in Mms : Making(n)' <=> Making(n)
    BY <1>22 DEF AllowDone, ReaderIs, Making, Forking
  <2>3. UNCHANGED modules
    BY <1>22 DEF AllowDone, ReaderIs, Same
  <2>4. \A n \in Mms : n \in Owners' <=> n \in Owners
    BY <2>1, <2>2, OwnersAre DEF Still, ResStay, Res
  <2> QED  BY <2>3, <2>4, ModulesSame
<1>23. ASSUME NEW r \in Readers, NEW x, DenyDone(r, x) PROVE ModulesExact'
  <2>1. Still
    BY <1>2, <1>23, PutStill DEF DenyDone
  <2>2. \A n \in Mms : Making(n)' <=> Making(n)
    BY <1>23 DEF DenyDone, PutDone, MmIs, ReaderIs, Making, Forking
  <2>3. UNCHANGED modules
    BY <1>23 DEF DenyDone, PutDone, MmIs, ReaderIs, Same
  <2>4. \A n \in Mms : n \in Owners' <=> n \in Owners
    BY <2>1, <2>2, OwnersAre DEF Still, ResStay, Res
  <2> QED  BY <2>3, <2>4, ModulesSame
<1>24. ASSUME NEW r \in Readers, NEW x, PutMmDone(r, x) PROVE ModulesExact'
  <2>1. Still
    BY <1>2, <1>24, PutStill DEF PutMmDone
  <2>2. \A n \in Mms : Making(n)' <=> Making(n)
    BY <1>24 DEF PutMmDone, PutDone, MmIs, ReaderIs, Making, Forking
  <2>3. UNCHANGED modules
    BY <1>24 DEF PutMmDone, PutDone, MmIs, ReaderIs, Same
  <2>4. \A n \in Mms : n \in Owners' <=> n \in Owners
    BY <2>1, <2>2, OwnersAre DEF Still, ResStay, Res
  <2> QED  BY <2>3, <2>4, ModulesSame
<1>25. ASSUME NEW r \in Readers, NEW f, NEW y, ExeDone(r, f, y) PROVE ModulesExact'
  <2>1. Still
    BY <1>25, SameStill DEF ExeDone
  <2>2. \A n \in Mms : Making(n)' <=> Making(n)
    BY <1>25 DEF ExeDone, ReaderIs, Making, Forking
  <2>3. UNCHANGED modules
    BY <1>25 DEF ExeDone, ReaderIs, Same
  <2>4. \A n \in Mms : n \in Owners' <=> n \in Owners
    BY <2>1, <2>2, OwnersAre DEF Still, ResStay, Res
  <2> QED  BY <2>3, <2>4, ModulesSame
<1>26. ASSUME NEW r \in Readers, PutFileDone(r) PROVE ModulesExact'
  <2>1. Still
    BY <1>26, SameStill DEF PutFileDone
  <2>2. \A n \in Mms : Making(n)' <=> Making(n)
    BY <1>26 DEF PutFileDone, ReaderIs, Making, Forking
  <2>3. UNCHANGED modules
    BY <1>26 DEF PutFileDone, ReaderIs, Same
  <2>4. \A n \in Mms : n \in Owners' <=> n \in Owners
    BY <2>1, <2>2, OwnersAre DEF Still, ResStay, Res
  <2> QED  BY <2>3, <2>4, ModulesSame
<1>27. ASSUME NEW k \in Kthreads, NEW m, NEW x, NEW y, BorrowDone(k, m, x, y) PROVE ModulesExact'
  <2>1. Still
    <3>1. MmIs(m, x) /\ x.state = mm[m].state /\ x.exe = mm[m].exe /\ x.areas = mm[m].areas /\ x.binfmt = mm[m].binfmt
      BY <1>27 DEF BorrowDone, SameHold
    <3> QED  BY <1>2, <3>1, MmStill DEF Res, IsPresent
  <2>2. \A n \in Mms : Making(n)' <=> Making(n)
    BY <1>27 DEF BorrowDone, MmIs, KthreadIs, Making, Forking
  <2>3. UNCHANGED modules
    BY <1>27 DEF BorrowDone, MmIs, KthreadIs, Same
  <2>4. \A n \in Mms : n \in Owners' <=> n \in Owners
    BY <2>1, <2>2, OwnersAre DEF Still, ResStay, Res
  <2> QED  BY <2>3, <2>4, ModulesSame
<1>28. ASSUME NEW k \in Kthreads, NEW x, NEW y, UseDone(k, x, y) PROVE ModulesExact'
  <2>1. Still
    BY <1>2, <1>28, GetStill DEF UseDone
  <2>2. \A n \in Mms : Making(n)' <=> Making(n)
    BY <1>28 DEF UseDone, GetDone, MmIs, KthreadIs, Making, Forking
  <2>3. UNCHANGED modules
    BY <1>28 DEF UseDone, GetDone, MmIs, KthreadIs, Same
  <2>4. \A n \in Mms : n \in Owners' <=> n \in Owners
    BY <2>1, <2>2, OwnersAre DEF Still, ResStay, Res
  <2> QED  BY <2>3, <2>4, ModulesSame
<1>29. ASSUME NEW k \in Kthreads, NEW x, NEW y, AsyncDone(k, x, y) PROVE ModulesExact'
  <2>1. Still
    BY <1>2, <1>29, PutStill DEF AsyncDone
  <2>2. \A n \in Mms : Making(n)' <=> Making(n)
    BY <1>29 DEF AsyncDone, PutDone, MmIs, KthreadIs, Making, Forking
  <2>3. UNCHANGED modules
    BY <1>29 DEF AsyncDone, PutDone, MmIs, KthreadIs, Same
  <2>4. \A n \in Mms : n \in Owners' <=> n \in Owners
    BY <2>1, <2>2, OwnersAre DEF Still, ResStay, Res
  <2> QED  BY <2>3, <2>4, ModulesSame
<1>30. ASSUME NEW k \in Kthreads, NEW x, NEW y, DropDone(k, x, y) PROVE ModulesExact'
  <2>1. Still
    <3> DEFINE m == kthread[k].mm
    <3>1. /\ MmIs(m, x)
          /\ \/ x.state = mm[m].state /\ x.exe = mm[m].exe /\ x.areas = mm[m].areas /\ x.binfmt = mm[m].binfmt
             \/ x.state = "free" /\ ~IsPresent(mm[m])
      BY <1>30 DEF DropDone, SameHold
    <3> HIDE DEF m
    <3> QED  BY <1>2, <3>1, MmStill DEF Res, IsPresent
  <2>2. \A n \in Mms : Making(n)' <=> Making(n)
    BY <1>30 DEF DropDone, MmIs, KthreadIs, Making, Forking
  <2>3. UNCHANGED modules
    BY <1>30 DEF DropDone, MmIs, KthreadIs, Same
  <2>4. \A n \in Mms : n \in Owners' <=> n \in Owners
    BY <2>1, <2>2, OwnersAre DEF Still, ResStay, Res
  <2> QED  BY <2>3, <2>4, ModulesSame
<1>31. ASSUME NEW m, NEW x, FinalDone(m, x) PROVE ModulesExact'
  <2>1. /\ m \in Mms /\ mm[m].state = "dying" /\ mm'[m] = x /\ ~IsPresent(x)
        /\ \A n \in Mms : n # m => mm'[n] = mm[n]
        /\ UNCHANGED call /\ modules' = (IF mm[m].binfmt THEN modules - 1 ELSE modules)
    BY <1>2, <1>31 DEF FinalDone, MmIs, MmsType, IsPresent, Rest
  <2>2. ~Making(m) /\ \A n : Making(n)' <=> Making(n)
    <3>1. ~Making(m)
      BY <1>7, <2>1 DEF Making
    <3> QED  BY <2>1, <3>1 DEF Making, Forking
  <2>3. \A n \in Mms : n # m => (n \in Owners' <=> n \in Owners)
    BY <2>1, <2>2, OwnersAre
  <2>4. m \notin Owners' /\ (m \in Owners <=> mm[m].binfmt)
    BY <2>1, <2>2, OwnersAre DEF IsPresent
  <2>5. modules' = modules + One(m \in Owners') - One(m \in Owners)
    BY <1>8, <2>1, <2>4 DEF One
  <2> QED  BY <2>3, <2>5, ModulesMm
<1>32. ASSUME NEW t \in Tasks, TaskSteps(t) PROVE ModulesExact'
  BY <1>32, <1>10, <1>11, <1>12, <1>13, <1>14, <1>15, <1>16, <1>17 DEF TaskSteps
<1>33. ASSUME NEW r \in Readers, ReaderSteps(r) PROVE ModulesExact'
  BY <1>33, <1>18, <1>19, <1>20, <1>21, <1>22, <1>23, <1>24, <1>25, <1>26 DEF ReaderSteps
<1>34. ASSUME NEW k \in Kthreads, KthreadSteps(k) PROVE ModulesExact'
  BY <1>34, <1>27, <1>28, <1>29, <1>30 DEF KthreadSteps
<1> QED  BY <1>31, <1>32, <1>33, <1>34 DEF Steps

LEMMA ResourcesStep ==
  ASSUME Basic, UsersInv, DupInv, ResourcesExact, Steps, Structs', Totals'
  PROVE  ResourcesExact'
<1>1. mm' \in MmsType /\ refs' \in RefsType
  BY DEF Structs, Totals
<1>2. ASSUME NEW t \in Tasks, AreasSteps(t) PROVE ResourcesExact'
  BY <1>1, <1>2, AreasFiles, AreasCommitted, AreasModules DEF ResourcesExact
<1>3. ASSUME \A u \in Tasks : ~AreasSteps(u) PROVE ResourcesExact'
  BY <1>3, OtherFilesStep, OtherCommittedStep, OtherModulesStep DEF ResourcesExact
<1> QED  BY <1>2, <1>3

-----------------------------------------------------------------------------
(* The invariant holds at the start.                                       *)

LEMMA FirstAreas ==
  /\ <<Heap, Dma, Text>> \in Seq(Areas)
  /\ \A A : Number(<<Heap, Dma, Text>>, A) = One(Heap \in A) + One(Dma \in A) + One(Text \in A)
<1>1. Heap \in Areas /\ Dma \in Areas /\ Text \in Areas
  BY AreaFacts
<1>2. <<>> \in Seq(Areas) /\ <<Heap>> \in Seq(Areas) /\ <<Heap, Dma>> \in Seq(Areas)
      /\ <<Heap, Dma, Text>> \in Seq(Areas)
  BY <1>1
<1>3. /\ <<Heap>> = Append(<<>>, Heap) /\ <<Heap, Dma>> = Append(<<Heap>>, Dma)
      /\ <<Heap, Dma, Text>> = Append(<<Heap, Dma>>, Text)
  OBVIOUS
<1>4. ASSUME NEW A
      PROVE  Number(<<Heap, Dma, Text>>, A) = One(Heap \in A) + One(Dma \in A) + One(Text \in A)
  <2> DEFINE s1 == <<Heap>>
             s2 == <<Heap, Dma>>
             s3 == <<Heap, Dma, Text>>
  <2>1. /\ s1 \in Seq(Areas) /\ s2 \in Seq(Areas)
        /\ s1 = Append(<<>>, Heap) /\ s2 = Append(s1, Dma) /\ s3 = Append(s2, Text)
    BY <1>2, <1>3
  <2> HIDE DEF s1, s2, s3
  <2>2. Number(Append(s2, Text), A) = Number(s2, A) + One(Text \in A)
    BY <1>1, <2>1, NumberAppend
  <2>3. Number(Append(s1, Dma), A) = Number(s1, A) + One(Dma \in A)
    BY <1>1, <2>1, NumberAppend
  <2>4. Number(Append(<<>>, Heap), A) = Number(<<>>, A) + One(Heap \in A)
    BY <1>1, <1>2, NumberAppend
  <2>5. \A b : One(b) \in {0, 1}
    BY DEF One
  <2>6. Number(s3, A) = One(Heap \in A) + One(Dma \in A) + One(Text \in A)
    BY <2>1, <2>2, <2>3, <2>4, <2>5, NumberEmpty
  <2> QED  BY <2>6 DEF s3
<1> QED  BY <1>2, <1>4

LEMMA InitMm ==
  ASSUME Init
  PROVE  /\ FirstMm \in Mms /\ mm \in MmsType
         /\ LET x == mm[FirstMm] IN
            /\ x.state = "live" /\ x.users = Cardinality(First) /\ x.count = 1 /\ x.exe = AnyFile
            /\ x.areas = <<Heap, Dma, Text>> /\ x.binfmt = TRUE /\ x.for = "all"
         /\ \A n \in Mms : n # FirstMm => mm[n].state = "free" /\ mm[n].users = 0 /\ mm[n].count = 0
<1> DEFINE u == Cardinality(First)
           s == <<Heap, Dma, Text>>
           x == [state |-> "live", users |-> u, count |-> 1, exe |-> AnyFile, areas |-> s,
                 binfmt |-> TRUE, for |-> "all", sem |-> None]
<1>1. FirstMm \in Mms
  BY SetsAssumption DEF FirstMm
<1>2. u \in Nat
  BY SetsAssumption, FS_Subset, FS_CardinalityType
<1>3. mm = [m \in Mms |-> IF m = FirstMm THEN x ELSE FreeMm]
  BY DEF Init
<1>4. s \in Seq(Areas) /\ AnyFile \in Files
  BY FirstAreas, AreaFacts
<1> HIDE DEF u, s
<1>5. /\ x \in MmType /\ x.state = "live" /\ x.users = u /\ x.count = 1 /\ x.exe = AnyFile
      /\ x.areas = s /\ x.binfmt = TRUE /\ x.for = "all"
  BY <1>2, <1>4 DEF MmType
<1> HIDE DEF x
<1>6. mm \in MmsType /\ mm[FirstMm] = x /\ \A n \in Mms : n # FirstMm => mm[n] = FreeMm
  BY <1>1, <1>3, <1>5, FreeType DEF MmsType
<1> QED  BY <1>1, <1>5, <1>6, FreeType DEF u, s

LEMMA InitOthers ==
  ASSUME Init
  PROVE  /\ task \in [Tasks -> TaskType]
         /\ \A t \in First : Alive(t) /\ task[t].mm = FirstMm
         /\ \A t \in Tasks \ First : task[t].state = "unborn" /\ task[t].mm = None
         /\ call \in [Tasks -> CallType] /\ reader \in [Readers -> ReaderType]
         /\ kthread \in [Kthreads -> KthreadType]
         /\ \A t \in Tasks : At(t, "user") /\ call[t].mm = None /\ call[t].charge = 0
         /\ \A r \in Readers : /\ Reads(r, "idle") /\ reader[r].mm = None /\ reader[r].file = None
                               /\ reader[r].access = FALSE
         /\ \A k \in Kthreads : kthread[k].mm = None /\ kthread[k].uses = FALSE
<1> DEFINE x == [state |-> "alive", mm |-> FirstMm, creds |-> "all"]
           y == [mm |-> None, uses |-> FALSE]
<1>1. x \in TaskType /\ x.state = "alive" /\ x.mm = FirstMm
  BY InitMm DEF TaskType
<1>2. y \in KthreadType /\ y.mm = None /\ y.uses = FALSE
  BY DEF KthreadType
<1>3. Unborn \in TaskType /\ Unborn.state = "unborn" /\ Unborn.mm = None
  BY FreeType DEF Unborn
<1>4. /\ task = [t \in Tasks |-> IF t \in First THEN x ELSE Unborn]
      /\ call = [t \in Tasks |-> NoCall] /\ reader = [r \in Readers |-> Idle]
      /\ kthread = [k \in Kthreads |-> y]
  BY DEF Init
<1> HIDE DEF x, y
<1>5. /\ task \in [Tasks -> TaskType]
      /\ \A t \in First : task[t].state = "alive" /\ task[t].mm = FirstMm
      /\ \A t \in Tasks \ First : task[t].state = "unborn" /\ task[t].mm = None
  BY <1>1, <1>3, <1>4, SetsAssumption
<1>6. /\ call \in [Tasks -> CallType] /\ reader \in [Readers -> ReaderType]
      /\ kthread \in [Kthreads -> KthreadType]
      /\ \A t \in Tasks : call[t] = NoCall
      /\ \A r \in Readers : reader[r] = Idle
      /\ \A k \in Kthreads : kthread[k] = y
  BY <1>2, <1>4, FreeType
<1> QED  BY <1>2, <1>5, <1>6, FreeType DEF Alive, At, Reads

LEMMA InitBasic == ASSUME Init PROVE Basic /\ DupInv /\ CredInv /\ ReadInv
<1>1. Typed
  <2>1. refs \in RefsType /\ committed \in Int /\ modules \in Int
    <3> DEFINE a == [held |-> 3, denied |-> 1, writable |-> 1]
               b == [held |-> 0, denied |-> 0, writable |-> 0]
    <3>1. a \in RefType /\ b \in RefType
      BY DEF RefType
    <3>2. refs = [f \in Files |-> IF f = AnyFile THEN a ELSE b] /\ committed = 1 /\ modules = 1
      BY DEF Init
    <3> HIDE DEF a, b
    <3> QED  BY <3>1, <3>2 DEF RefsType
  <2>2. task_lock \in LockType /\ guard \in GuardType
    BY DEF Init, LockType, GuardType
  <2>3. left \in LeftType
    BY BoundsAssumption DEF Init, LeftType
  <2> QED  BY <2>1, <2>2, <2>3, InitMm, InitOthers, TypedParts DEF Structs, Totals
<1>2. Shape
  <2>1. \A t \in Tasks : TaskShape(t)
    BY InitMm, InitOthers, SetsAssumption DEF TaskShape, At, Alive
  <2>2. \A r \in Readers : ReaderShape(r)
    BY InitOthers DEF ReaderShape, Reads
  <2> QED  BY <2>1, <2>2, InitOthers DEF Shape
<1>3. \A t \in Tasks : ~Forking(t) /\ ~Execing(t)
  BY InitOthers DEF Forking, ForkPoints, Execing, At
<1>4. PrivateInv
  BY <1>3 DEF PrivateInv
<1>5. LockInv
  BY InitOthers DEF LockInv, Reads
<1>6. GuardInv
  BY <1>3, InitOthers DEF GuardInv, Holds, Reads
<1>7. DupInv
  BY InitOthers DEF DupInv, CopyInv, At
<1>8. CredInv
  <2>1. \A t \in Tasks : Alive(t) => task[t].mm = FirstMm
    BY InitOthers DEF Alive
  <2> QED  BY <1>3, <2>1, InitMm DEF CredInv, CredOf, ForAll
<1>9. ReadInv
  BY InitOthers DEF ReadInv, ReadOf, Reads
<1> QED  BY <1>1, <1>2, <1>4, <1>5, <1>6, <1>7, <1>8, <1>9 DEF Basic

LEMMA InitUsers == ASSUME Init PROVE UsersInv
<1>1. None \notin Mms /\ IsFiniteSet(First) /\ First # {} /\ First \subseteq Tasks
  BY SetsAssumption, FS_Subset
<1>2. Cardinality(First) \in Nat \ {0} /\ Cardinality({}) = 0
  BY <1>1, FS_EmptySet, FS_CardinalityType
<1> SUFFICES ASSUME NEW n \in Mms PROVE Exact(n)
  BY ExactParts
<1>3. CallsOf(n) = {} /\ ReadersOf(n) = {} /\ UsesOf(n) = {} /\ BorrowsOf(n) = {}
  BY <1>1, InitOthers DEF CallsOf, ReadersOf, UsesOf, BorrowsOf
<1>4. TasksOf(n) = IF n = FirstMm THEN First ELSE {}
  BY <1>1, InitOthers DEF TasksOf
<1>5. UsersOf(n) = Cardinality(TasksOf(n)) + 0 + 0 + 0
  BY <1>2, <1>3, UsersNow
<1>6. CASE n = FirstMm
  BY <1>2, <1>3, <1>4, <1>5, <1>6, InitMm DEF Exact
<1>7. CASE n # FirstMm
  BY <1>2, <1>3, <1>4, <1>5, <1>7, InitMm DEF Exact
<1> QED  BY <1>6, <1>7

LEMMA FilesNow ==
  ASSUME refs \in RefsType, \A f \in Files : FileExact(f)
  PROVE  FilesExact
<1> SUFFICES ASSUME NEW f \in Files
             PROVE  refs[f] = [held |-> Cardinality(ExesOf(f)) + Cardinality(AreasIn(Maps(f))) + Cardinality(HoldersOf(f)),
                        denied |-> Cardinality(AreasIn(Denies(f))), writable |-> Cardinality(AreasIn(Writes(f)))]
  BY DEF FilesExact, ExesOf, HoldersOf
<1> DEFINE h == Cardinality(ExesOf(f)) + Cardinality(AreasIn(Maps(f))) + Cardinality(HoldersOf(f))
           d == Cardinality(AreasIn(Denies(f)))
           w == Cardinality(AreasIn(Writes(f)))
<1>1. refs[f].held = h /\ refs[f].denied = d /\ refs[f].writable = w
  BY DEF FileExact
<1>2. refs[f] \in RefType
  BY DEF RefsType
<1> HIDE DEF h, d, w
<1>3. refs[f] = [held |-> h, denied |-> d, writable |-> w]
  BY <1>1, <1>2 DEF RefType
<1> QED  BY <1>3 DEF h, d, w

LEMMA InitResources == ASSUME Init PROVE ResourcesExact
<1>1. None \notin Files /\ AnyFile \in Files /\ AnyFile # None
  BY AreaFacts, SetsAssumption
<1>2. /\ FirstMm \in Mms /\ mm \in MmsType /\ IsPresent(mm[FirstMm])
      /\ mm[FirstMm].areas = <<Heap, Dma, Text>> /\ mm[FirstMm].exe = AnyFile /\ mm[FirstMm].binfmt = TRUE
      /\ \A n \in Mms : n # FirstMm => ~IsPresent(mm[n])
  BY InitMm DEF IsPresent
<1>3. Cardinality({}) = 0 /\ Cardinality({FirstMm}) = 1
  BY FS_EmptySet, FS_Singleton
<1>4. ASSUME NEW A
      PROVE  Cardinality(AreasIn(A)) = One(Heap \in A) + One(Dma \in A) + One(Text \in A)
  <2>1. Elsewhen(mm, FirstMm, A) = {}
    BY <1>2 DEF Elsewhen, PairsOf
  <2>2. Here(mm[FirstMm], A) = One(Heap \in A) + One(Dma \in A) + One(Text \in A)
    BY <1>2, FirstAreas, HereIs
  <2>3. /\ Cardinality(PairsOf(mm, A)) = Cardinality(Elsewhen(mm, FirstMm, A)) + Here(mm[FirstMm], A)
        /\ Here(mm[FirstMm], A) \in Nat
    BY <1>2, PairsSplit DEF MmsType
  <2>4. Cardinality(PairsOf(mm, A)) = 0 + Here(mm[FirstMm], A)
    BY <1>3, <2>1, <2>3
  <2>5. Cardinality(PairsOf(mm, A)) = Here(mm[FirstMm], A)
    BY <2>3, <2>4
  <2> QED  BY <2>2, <2>5, AreasInIs
<1>5. /\ Heap.file = None /\ Dma.file = AnyFile /\ Text.file = AnyFile
      /\ Dma.deny = FALSE /\ Text.deny = TRUE /\ Dma.shared = TRUE /\ Text.shared = FALSE
      /\ Heap.account = TRUE /\ Dma.account = FALSE /\ Text.account = FALSE
      /\ Heap \in Areas /\ Dma \in Areas /\ Text \in Areas
  BY AreaFacts DEF Heap, Dma, Text
<1>6. ASSUME NEW f \in Files PROVE FileExact(f)
  <2>1. HoldersOf(f) = {}
    BY <1>1, InitOthers DEF HoldersOf
  <2>2. ExesOf(f) = IF f = AnyFile THEN {FirstMm} ELSE {}
    BY <1>2 DEF ExesOf, Present, IsPresent
  <2>3. refs[f] = IF f = AnyFile THEN [held |-> 3, denied |-> 1, writable |-> 1]
                  ELSE [held |-> 0, denied |-> 0, writable |-> 0]
    BY DEF Init
  <2>4. One(Heap \in Maps(f)) = 0 /\ One(Heap \in Denies(f)) = 0 /\ One(Heap \in Writes(f)) = 0
    BY <1>1, <1>5 DEF Maps, Denies, Writes, One
  <2>5. CASE f = AnyFile
    <3>1. /\ One(Dma \in Maps(f)) = 1 /\ One(Dma \in Denies(f)) = 0 /\ One(Dma \in Writes(f)) = 1
          /\ One(Text \in Maps(f)) = 1 /\ One(Text \in Denies(f)) = 1 /\ One(Text \in Writes(f)) = 0
      BY <1>5, <2>5 DEF Maps, Denies, Writes, One
    <3>2. /\ Cardinality(AreasIn(Maps(f))) = 2 /\ Cardinality(AreasIn(Denies(f))) = 1
          /\ Cardinality(AreasIn(Writes(f))) = 1
      BY <1>4, <2>4, <3>1
    <3>3. refs[f].held = 3 /\ refs[f].denied = 1 /\ refs[f].writable = 1
      BY <2>3, <2>5
    <3>4. Cardinality(ExesOf(f)) = 1 /\ Cardinality(HoldersOf(f)) = 0
      BY <1>3, <2>1, <2>2, <2>5
    <3> QED  BY <3>2, <3>3, <3>4 DEF FileExact
  <2>6. CASE f # AnyFile
    <3>1. /\ One(Dma \in Maps(f)) = 0 /\ One(Dma \in Denies(f)) = 0 /\ One(Dma \in Writes(f)) = 0
          /\ One(Text \in Maps(f)) = 0 /\ One(Text \in Denies(f)) = 0 /\ One(Text \in Writes(f)) = 0
      BY <1>5, <2>6 DEF Maps, Denies, Writes, One
    <3>2. /\ Cardinality(AreasIn(Maps(f))) = 0 /\ Cardinality(AreasIn(Denies(f))) = 0
          /\ Cardinality(AreasIn(Writes(f))) = 0
      BY <1>4, <2>4, <3>1
    <3>3. refs[f].held = 0 /\ refs[f].denied = 0 /\ refs[f].writable = 0
      BY <2>3, <2>6
    <3>4. Cardinality(ExesOf(f)) = 0 /\ Cardinality(HoldersOf(f)) = 0
      BY <1>3, <2>1, <2>2, <2>6
    <3> QED  BY <3>2, <3>3, <3>4 DEF FileExact
  <2> QED  BY <2>5, <2>6
<1>7. FilesExact
  BY <1>6, InitBasic, RefsTyped, FilesNow DEF Basic
<1>8. CommittedExact
  <2>1. Charged = {}
    BY InitOthers DEF Charged
  <2>2. One(Heap \in Accounted) = 1 /\ One(Dma \in Accounted) = 0 /\ One(Text \in Accounted) = 0
    BY <1>5 DEF Accounted, One
  <2>3. Cardinality(AreasIn(Accounted)) = 1 /\ Cardinality(Charged) = 0 /\ committed = 1
    BY <1>3, <1>4, <2>1, <2>2 DEF Init
  <2> QED  BY <2>3 DEF CommittedExact, Charged
<1>9. ModulesExact
  <2>1. \A n : ~Making(n)
    BY InitOthers DEF Making, Forking, ForkPoints, At
  <2>2. Owners = {FirstMm}
    BY <1>2, <2>1, OwnersAre DEF Owners, Present
  <2>3. modules = Cardinality(Owners)
    BY <1>3, <2>2 DEF Init
  <2> QED  BY <2>3 DEF ModulesExact, Owners
<1> QED  BY <1>7, <1>8, <1>9 DEF ResourcesExact

-----------------------------------------------------------------------------
(* The invariant, and what it says.                                        *)

LEMMA InvStart == ASSUME Init PROVE Inv
BY InitBasic, InitUsers, InitResources DEF Inv

LEMMA InvNext == ASSUME Inv, Next PROVE Inv'
<1>1. /\ Typed /\ Shape /\ PrivateInv /\ LockInv /\ GuardInv /\ Basic
      /\ UsersInv /\ DupInv /\ CredInv /\ ReadInv /\ ResourcesExact
  BY DEF Inv, Basic
<1>2. Steps /\ left' \in LeftType
  BY <1>1, NextSteps
<1>3. Typed'
  BY <1>1, <1>2, TypedStep
<1>4. Structs' /\ Totals'
  BY <1>3 DEF Typed, Structs, Totals, MmsType, GuardType, LockType, RefsType, RefType
<1>5. Basic'
  <2>1. Shape'
    BY <1>1, <1>2, ShapeStep
  <2>2. PrivateInv'
    BY <1>1, <1>2, PrivateStep
  <2>3. LockInv'
    BY <1>1, <1>2, LockStep
  <2>4. GuardInv'
    BY <1>1, <1>2, GuardStep
  <2> QED  BY <1>3, <2>1, <2>2, <2>3, <2>4 DEF Basic
<1>6. UsersInv'
  BY <1>1, <1>2, UsersStep
<1>7. DupInv'
  BY <1>1, <1>2, DupStep
<1>8. CredInv'
  BY <1>1, <1>2, CredStep
<1>9. ReadInv'
  BY <1>1, <1>2, ReadInvStep
<1>10. ResourcesExact'
  BY <1>1, <1>2, <1>4, ResourcesStep
<1> QED  BY <1>5, <1>6, <1>7, <1>8, <1>9, <1>10 DEF Inv

LEMMA InvStutter == ASSUME Inv, UNCHANGED vars PROVE Inv'
<1>1. /\ mm' = mm /\ task' = task /\ call' = call /\ reader' = reader /\ kthread' = kthread
      /\ refs' = refs /\ committed' = committed /\ modules' = modules
      /\ task_lock' = task_lock /\ guard' = guard /\ left' = left
  BY DEF vars
<1>2. Basic'
  <2>1. Typed'
    BY <1>1 DEF Inv, Basic, Typed
  <2>2. Shape'
    BY <1>1 DEF Inv, Basic, Shape, TaskShape, ReaderShape, Alive, At, Reads
  <2>3. PrivateInv' /\ LockInv'
    BY <1>1 DEF Inv, Basic, PrivateInv, Private, Forking, LockInv, Reads
  <2>4. GuardInv'
    BY <1>1 DEF Inv, Basic, GuardInv, Holds, Execing, Reads
  <2> QED  BY <2>1, <2>2, <2>3, <2>4 DEF Basic
<1>3. UsersInv'
  BY <1>1 DEF Inv, UsersInv, CountsExact, UsersOf
<1>4. DupInv'
  BY <1>1 DEF Inv, DupInv, CopyInv, At, OldAreas, NextArea
<1>5. CredInv' /\ ReadInv'
  BY <1>1 DEF Inv, CredInv, CredOf, ReadInv, ReadOf, ForAll, Forking, Alive, At, Reads
<1>6. ResourcesExact'
  BY <1>1 DEF Inv, ResourcesExact, FilesExact, CommittedExact, ModulesExact, AreasIn, Present,
     Unfinished
<1> QED  BY <1>2, <1>3, <1>4, <1>5, <1>6 DEF Inv

LEMMA Invariance == Spec => []Inv
<1>1. Init => Inv
  BY InvStart
<1>2. Inv /\ [Next]_vars => Inv'
  BY InvNext, InvStutter
<1> QED  BY <1>1, <1>2, PTL DEF Spec

LEMMA TypesHold == ASSUME Inv PROVE TypeOK
<1>1. Typed /\ Structs /\ Totals
  BY TypedParts DEF Inv, Basic
<1>2. \A m \in Mms : mm[m].users \in Nat /\ mm[m].count \in Nat
  <2> SUFFICES ASSUME NEW m \in Mms PROVE mm[m].users \in Nat /\ mm[m].count \in Nat
    OBVIOUS
  <2>1. /\ mm[m].users = UsersOf(m)
        /\ mm[m].count = Cardinality(BorrowsOf(m)) + (IF mm[m].state \in {"live", "dying"} THEN 1 ELSE 0)
    BY ExactParts DEF Inv, Exact
  <2>2. UsersOf(m) \in Nat /\ Cardinality(BorrowsOf(m)) \in Nat
    BY UsersSum
  <2> QED  BY <2>1, <2>2
<1>3. mm \in [Mms -> [state : {"free", "live", "dying", "torn"}, users : Nat, count : Nat,
                      exe : Files \cup {None}, areas : Seq(Areas), binfmt : BOOLEAN,
                      for : {"all", "owner"}, sem : Tasks \cup {None}]]
  <2> DEFINE T == [state : {"free", "live", "dying", "torn"}, users : Nat, count : Nat,
                   exe : Files \cup {None}, areas : Seq(Areas), binfmt : BOOLEAN,
                   for : {"all", "owner"}, sem : Tasks \cup {None}]
  <2>1. \A x \in MmType : x.users \in Nat /\ x.count \in Nat => x \in T
    BY DEF MmType
  <2> HIDE DEF T
  <2>2. mm \in [Mms -> T]
    BY <1>1, <1>2, <2>1 DEF Typed
  <2> QED  BY <2>2 DEF T
<1>4. mm \in MmsType /\ ResourcesExact /\ refs \in RefsType
  BY <1>1 DEF Structs, Totals, Inv
<1>5. refs \in [Files -> [held : Nat, denied : Nat, writable : Nat]]
  <2>1. ASSUME NEW f \in Files PROVE refs[f] \in [held : Nat, denied : Nat, writable : Nat]
    <3>1. refs[f].held \in Nat /\ refs[f].denied \in Nat /\ refs[f].writable \in Nat
      BY <1>4, FileParts, CountsType DEF FileExact, ResourcesExact
    <3>2. refs[f] \in RefType
      BY <1>4 DEF RefsType
    <3> QED  BY <3>1, <3>2 DEF RefType
  <2> QED  BY <1>4, <2>1 DEF RefsType
<1>6. committed \in Nat /\ modules \in Nat
  BY <1>4, CountsType DEF ResourcesExact, CommittedExact, ModulesExact, Charged, Owners
<1>7. call \in [Tasks -> [at : {"user", "mmap_sem", "area", "charged", "binfmt", "undo",
                               "exec", "exec_creds"},
                         mm : Mms \cup {None}, i : Nat, charge : {0, 1}]]
  <2> DEFINE T == [at : {"user", "mmap_sem", "area", "charged", "binfmt", "undo",
                         "exec", "exec_creds"},
                   mm : Mms \cup {None}, i : Nat, charge : {0, 1}]
  <2>1. CallType \subseteq T
    BY DEF CallType, ForkPoints
  <2> HIDE DEF T
  <2>2. call \in [Tasks -> T]
    BY <1>1, <2>1 DEF Typed
  <2> QED  BY <2>2 DEF T
<1> QED  BY <1>1, <1>3, <1>5, <1>6, <1>7 DEF TypeOK, Typed, TaskType, ReaderType, KthreadType

\* The variables have their types; mm_users of every mm counts its tasks, the calls that
\* fill it, the readers and the kernel threads that use it, mm_count those as one and the
\* kernel threads that borrow it; and the memory is live exactly while it has a user: no
\* order of fork, exec, exit, get_task_mm, mm_access, mmget_not_zero and mmput
\* gives memory back that is in use, or keeps it.
THEOREM CountsAreExact == Spec => []Consistent
<1>1. Inv => Consistent
  <2> SUFFICES ASSUME Inv PROVE Consistent
    OBVIOUS
  <2>1. CountsExact /\ LiveWhileUsed
    BY DEF Inv, UsersInv, CountsExact, LiveWhileUsed
  <2> QED  BY <2>1, TypesHold DEF Consistent
<1> QED  BY <1>1, Invariance, PTL

\* Wherever dup_mm fails, and whoever maps, unmaps, execs and exits meanwhile, every file
\* is referenced, denied to writers and counted as shared exactly as often as the mms,
\* their areas and the readers say, vm_committed_as is that of the accounted areas and
\* of the area being copied, and every finished mm holds its binary format's module once.
THEOREM NothingLeaks == Spec => []ResourcesExact
<1>1. Inv => ResourcesExact
  BY DEF Inv
<1> QED  BY <1>1, Invariance, PTL

\* mm_access gives out only memory that is for all: the mm it took belonged to the
\* credentials it then checked, since exec changes both under cred_guard_mutex.
THEOREM AccessIsChecked == Spec => []AccessChecked
<1>1. Inv => AccessChecked
  BY DEF Inv, ReadInv, ReadOf, Reads, ForAll, AccessChecked
<1> QED  BY <1>1, Invariance, PTL

=============================================================================
