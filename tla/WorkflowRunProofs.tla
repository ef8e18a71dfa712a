------------------------- MODULE WorkflowRunProofs --------------------------
(***************************************************************************)
(* The safety invariants of WorkflowRun, for every workflow, every run and *)
(* any number of workers, failures and crashes.                            *)
(*                                                                         *)
(* Actor says what the step of a worker relies on: its row, the head of    *)
(* its agenda.  MergedInv adds to CompletedIsMerged that a version read    *)
(* and still current stands for the state read with it.  UniqueInv follows *)
(* an instance from its reservation through the worker that dispatches it  *)
(* to its row.  SeenInv carries what a join waited for from the check to   *)
(* the dispatch.  CalmInv counts the patches while nothing goes wrong.     *)
(***************************************************************************)
EXTENDS WorkflowRun, SequenceTheorems, FiniteSetTheorems, WellFoundedInduction, TLAPS

-----------------------------------------------------------------------------
(* Induction on a set of naturals.                                         *)
LEMMA CountUp ==
    ASSUME NEW N \in Nat, NEW R, 0 \in R,
           \A n \in 0..N : n \in R /\ n < N => n + 1 \in R
    PROVE  0..N \subseteq R
<1> DEFINE T == {n \in 0..N : n \notin R}
<1>1. SUFFICES ASSUME T # {} PROVE FALSE
  OBVIOUS
<1>2. T \subseteq Nat
  OBVIOUS
<1> HIDE DEF T
<1>3. \E x \in T : \A y \in T : <<y, x>> \notin OpToRel(<, Nat)
  BY <1>1, <1>2, NatLessThanWellFounded, WFMin, Zenon
<1>4. PICK x \in T : \A y \in T : <<y, x>> \notin OpToRel(<, Nat)
  BY <1>3
<1>5. x \in 0..N /\ x \notin R /\ x # 0
  BY DEF T
<1>6. x - 1 \notin T
  <2>1. SUFFICES ASSUME x - 1 \in T PROVE FALSE
    OBVIOUS
  <2>2. <<x - 1, x>> \in Nat \X Nat /\ <<x - 1, x>>[1] < <<x - 1, x>>[2]
    BY <1>2, <1>5, <2>1
  <2>3. <<x - 1, x>> \in OpToRel(<, Nat)
    BY <2>2 DEF OpToRel
  <2> QED
    BY <1>4, <2>1, <2>3
<1>7. x - 1 \in 0..N /\ x - 1 \in R
  BY <1>5, <1>6 DEF T
<1>8. (x - 1) + 1 \in R
  BY <1>5, <1>7
<1> QED
  BY <1>5, <1>8

(* One more sequence appended by flatten.                                  *)
Flat(seqs, f, i) == IF i = 1 THEN seqs[i] ELSE f[i-1] \o seqs[i]
HasFlat(S, seqs, n) ==
    \E g \in [1..n -> Seq(S)] : \A i \in 1..n : g[i] = Flat(seqs, g, i)

(* The function that FlattenSeq chooses exists.                            *)
LEMMA FlatExists ==
    ASSUME NEW S, NEW N \in Nat, NEW seqs, \A i \in 1..N : seqs[i] \in Seq(S)
    PROVE  HasFlat(S, seqs, N)
<1> DEFINE R == {n \in 0..N : HasFlat(S, seqs, n)}
<1>1. 0 \in R
  <2>1. [i \in 1..0 |-> <<>>] \in [1..0 -> Seq(S)]
    OBVIOUS
  <2>2. \A i \in 1..0 : FALSE
    OBVIOUS
  <2>3. HasFlat(S, seqs, 0)
    BY <2>1, <2>2, Zenon DEF HasFlat
  <2>4. 0 \in 0..N
    OBVIOUS
  <2> QED
    BY <2>3, <2>4
<1>2. ASSUME NEW n \in 0..N, n \in R, n < N PROVE n + 1 \in R
  <2>1. PICK g \in [1..n -> Seq(S)] : \A i \in 1..n : g[i] = Flat(seqs, g, i)
    BY <1>2 DEF HasFlat
  <2> DEFINE h == [i \in 1..n+1 |-> IF i = n + 1 THEN Flat(seqs, g, n + 1) ELSE g[i]]
  <2>2. Flat(seqs, g, n + 1) \in Seq(S)
    <3>1. CASE n = 0
      BY <1>2, <3>1 DEF Flat
    <3>2. CASE n # 0
      <4>1. n \in 1..n /\ n + 1 \in 1..N /\ n + 1 # 1 /\ (n + 1) - 1 = n
        BY <1>2, <3>2
      <4>2. g[n] \in Seq(S) /\ seqs[n + 1] \in Seq(S)
        BY <2>1, <4>1
      <4>3. Flat(seqs, g, n + 1) = g[n] \o seqs[n + 1]
        BY <4>1 DEF Flat
      <4> QED
        BY <4>2, <4>3, ConcatProperties
    <3> QED
      BY <3>1, <3>2
  <2>3. h \in [1..n+1 -> Seq(S)]
    BY <1>2, <2>1, <2>2
  <2>4. ASSUME NEW i \in 1..n+1 PROVE h[i] = Flat(seqs, h, i)
    <3>1. CASE i = 1 /\ i = n + 1
      BY <3>1 DEF Flat
    <3>2. CASE i = 1 /\ i # n + 1
      <4>1. i \in 1..n
        BY <3>2
      <4>2. g[i] = seqs[i]
        BY <2>1, <3>2, <4>1 DEF Flat
      <4> QED
        BY <3>2, <4>2 DEF Flat
    <3>3. CASE i # 1
      <4>1. i - 1 \in 1..n+1 /\ i - 1 # n + 1
        BY <3>3
      <4>2. h[i - 1] = g[i - 1]
        BY <4>1
      <4>3. Flat(seqs, h, i) = Flat(seqs, g, i)
        <5> HIDE DEF h
        <5> QED
          BY <3>3, <4>2 DEF Flat
      <4>4. h[i] = Flat(seqs, g, i)
        <5>1. CASE i = n + 1
          BY <5>1
        <5>2. CASE i # n + 1
          <6>1. i \in 1..n
            BY <5>2
          <6>2. h[i] = g[i]
            BY <5>2
          <6> QED
            BY <2>1, <6>1, <6>2
        <5> QED
          BY <5>1, <5>2
      <4> QED
        BY <4>3, <4>4
    <3> QED
      BY <3>1, <3>2, <3>3
  <2>5. n + 1 \in 0..N
    BY <1>2
  <2> HIDE DEF h
  <2>6. HasFlat(S, seqs, n + 1)
    BY <2>3, <2>4 DEF HasFlat
  <2> QED
    BY <2>5, <2>6
<1> HIDE DEF R
<1>3. 0..N \subseteq R
  BY <1>1, <1>2, CountUp
<1>4. N \in R
  BY <1>3
<1> QED
  BY <1>4 DEF R

(* FlattenSeq of sequences over a set is a sequence over this set.         *)
LEMMA FlattenType ==
    ASSUME NEW S, NEW seqs \in Seq(Seq(S))
    PROVE  FlattenSeq(seqs) \in Seq(S)
<1> DEFINE N == Len(seqs)
<1>0. N \in Nat /\ \A i \in 1..N : seqs[i] \in Seq(S)
  BY ElementOfSeq, LenProperties
<1>1. CASE N = 0
  BY <1>1, EmptySeq DEF FlattenSeq
<1>2. CASE N # 0
  <2>1. PICK g \in [1..N -> Seq(S)] : \A i \in 1..N : g[i] = Flat(seqs, g, i)
    <3>1. HasFlat(S, seqs, N)
      <4> HIDE DEF N
      <4> QED
        BY <1>0, FlatExists
    <3> QED
      BY <3>1 DEF HasFlat
  <2>2. g = [i \in 1..N |-> IF i = 1 THEN seqs[i] ELSE g[i-1] \o seqs[i]]
    BY <2>1 DEF Flat
  <2> DEFINE F == CHOOSE f : f = [i \in 1..N |-> IF i = 1 THEN seqs[i] ELSE f[i-1] \o seqs[i]]
  <2>3. F = [i \in 1..N |-> IF i = 1 THEN seqs[i] ELSE F[i-1] \o seqs[i]]
    BY <2>2
  <2>4. FlattenSeq(seqs) = F[N]
    BY <1>2 DEF FlattenSeq
  <2> HIDE DEF F
  <2>5. \A i \in 1..N : F[i] = IF i = 1 THEN seqs[i] ELSE F[i-1] \o seqs[i]
    BY <2>3
  <2> DEFINE R == {n \in 0..N : n # 0 => F[n] \in Seq(S)}
  <2>6. 0 \in R
    BY <1>0
  <2>7. ASSUME NEW n \in 0..N, n \in R, n < N PROVE n + 1 \in R
    <3>1. n + 1 \in 1..N /\ (n + 1) - 1 = n
      BY <1>0, <2>7
    <3>2. CASE n = 0
      BY <1>0, <2>5, <3>1, <3>2
    <3>3. CASE n # 0
      <4>1. F[n + 1] = F[n] \o seqs[n + 1]
        <5> HIDE DEF N
        <5>1. n + 1 # 1
          BY <3>3
        <5> QED
          BY <2>5, <3>1, <5>1
      <4>2. F[n] \in Seq(S) /\ seqs[n + 1] \in Seq(S)
        BY <1>0, <2>7, <3>1, <3>3
      <4>3. F[n + 1] \in Seq(S)
        BY <4>1, <4>2, ConcatProperties
      <4> QED
        BY <3>1, <4>3
    <3> QED
      BY <3>2, <3>3
  <2>8. 0..N \subseteq R
    <3> HIDE DEF R
    <3> QED
      BY <1>0, <2>6, <2>7, CountUp
  <2>9. N \in R
    BY <1>0, <2>8
  <2> QED
    BY <1>0, <1>2, <2>4, <2>9
<1> QED
  BY <1>1, <1>2

(* So is a finite set listed.                                              *)
LEMMA ListType ==
    ASSUME NEW S, NEW T \in SUBSET S, IsFiniteSet(T)
    PROVE  SetToSeq(T) \in Seq(S)
<1>1. Cardinality(T) \in Nat /\ ExistsBijection(1..Cardinality(T), T)
  BY FS_CardinalityType
<1>2. \E f \in [1..Cardinality(T) -> T] : IsInjective(f)
  BY <1>1 DEF ExistsBijection, Bijection, Injection, IsInjective
<1>3. SetToSeq(T) \in [1..Cardinality(T) -> T]
  BY <1>2 DEF SetToSeq
<1> QED
  BY <1>1, <1>3, IsASeq
-----------------------------------------------------------------------------
(* Types                                                                   *)

Results == {"none", "pending", "in_progress", "completed", "failed"}
RunStatuses == {"in_progress", "completed", "failed"}
JobRecords == [task : Instances, status : {"pending", "processing", "completed", "failed"},
               attempt : 0..RetryMax, redelivered : 0..MaxRedeliveries]
Pcs == {"idle", "done", "read", "write", "dispatch", "joined", "reserve", "put", "enqueue",
        "start", "publish", "snapshot", "retry", "requeue", "fail", "close"}
Routines == {"none", "start", "complete", "task", "end", "fail"}
Reads == [version : Nat, state : SUBSET Instances]

(* An entry of an agenda: an instance, or a join or end not yet evaluated. *)
Steps == {e \in [arrow : Ids \cup {0},
                 task : Instances \cup {Main(Transitions[n].to) : n \in Ids},
                 state : SUBSET Instances, ready : BOOLEAN, awaited : SUBSET Instances] :
            /\ e.ready => e.task \in Instances
            /\ ~e.ready => /\ e.arrow \in Ids
                           /\ Transitions[e.arrow].type \in {"join", "end"}
                           /\ e.task = Main(Transitions[e.arrow].to)}
Fresh == {e \in Steps : e.ready => e.arrow = 0}

Types ==
    /\ inputs \in Inputs
    /\ result \in [Instances -> Results]
    /\ run \in [status : RunStatuses, state : SUBSET Instances, version : Nat]
    /\ jobs \in Seq(JobRecords)
    /\ pc \in [Workers -> Pcs]
    /\ routine \in [Workers -> Routines]
    /\ agenda \in [Workers -> Seq(Steps)]
    /\ read \in [Workers -> Reads]
    /\ tries \in [Workers -> Nat]
    /\ failures \in Nat /\ calm \in BOOLEAN
    /\ broken \subseteq Instances

(* What a worker may rely on when it runs again.                           *)
Dispatching == {"reserve", "put", "enqueue"}
Retrying == {"retry", "requeue"}
Merging == {"read", "write"}
Actor(w) ==
    /\ w # 0 /\ pc[w] # "idle" => w \in Rows
    /\ w = 0 => /\ pc[w] \in {"done", "dispatch", "joined"} \cup Dispatching \cup Merging
               /\ routine[w] \in {"none", "task", "end"}
    /\ pc[w] \in Merging => routine[w] # "none"
    /\ pc[w] \in Dispatching => agenda[w] # <<>> /\ Head(agenda[w]).ready
    /\ pc[w] = "joined" => Waiting(w) /\ Tr(w).type = "join"
    /\ pc[w] \in Retrying => jobs[w].attempt < RetryMax

(* What goes wrong in a step of a worker, and who adds a row to the queue.  *)
Failing(w) == Fails(w) \/ EnqueueFails(w)
Adds(w) == Insert(w) /\ (Enqueue(w) \/ EnqueueFails(w))

(* What dispatch lists is made of instances and of joins and ends.         *)
LEMMA ExpandType ==
    ASSUME inputs \in Inputs, NEW n \in Ids, NEW state \in SUBSET Instances
    PROVE  Expand(n, state) \in Seq(Fresh)
<1> DEFINE t == Transitions[n]
<1>0. t.type \in {"next", "fanout", "join", "end"}
  BY DefinitionAssumption
<1>1. CASE t.type = "next"
  <2>1. Main(t.to) \in Instances
    BY <1>1, DefinitionAssumption DEF Instances
  <2>2. Instance(Main(t.to), state) \in Fresh
    BY <2>1 DEF Instance, Entry, Fresh, Steps
  <2> QED
    BY <1>1, <2>2 DEF Expand
<1>2. CASE t.type = "fanout"
  <2> DEFINE A == ArrayAt(t.over, state)
             T == {Instance(<<t.to, x>>, state) : x \in A}
  <2>1. A \subseteq Items[inputs][t.over] /\ IsFiniteSet(Items[inputs][t.over])
    BY <1>2, DefinitionAssumption, RunAssumption DEF ArrayAt
  <2>2. IsFiniteSet(A)
    BY <2>1, FS_Subset
  <2>3. IsFiniteSet(T)
    <3> DEFINE f == [x \in A |-> Instance(<<t.to, x>>, state)]
    <3>1. f \in Surjection(A, T)
      BY DEF Surjection
    <3> QED
      BY <2>2, <3>1, FS_Surjection DEF ExistsSurjection
  <2>4. ASSUME NEW x \in A PROVE Instance(<<t.to, x>>, state) \in Fresh
    <3>1. <<t.to, x>> \in Fanned(n)
      BY <2>1 DEF Fanned
    <3>2. <<t.to, x>> \in Instances
      BY <1>2, <3>1 DEF Instances
    <3> QED
      BY <3>2 DEF Instance, Entry, Fresh, Steps
  <2>5. T \in SUBSET Fresh
    BY <2>4
  <2>6. SetToSeq(T) \in Seq(Fresh)
    <3> HIDE DEF T
    <3> QED
      BY <2>3, <2>5, ListType
  <2> QED
    BY <1>2, <2>6 DEF Expand
<1>3. CASE t.type \in {"join", "end"}
  <2> DEFINE e == Entry(n, Main(t.to), state, FALSE)
  <2>1. e \in Fresh
    BY <1>3 DEF Entry, Fresh, Steps
  <2>2. Expand(n, state) = <<e>>
    BY <1>3 DEF Expand
  <2> HIDE DEF e
  <2> QED
    BY <2>1, <2>2
<1> QED
  BY <1>0, <1>1, <1>2, <1>3

(* So is a whole plan, whatever transitions it takes.                      *)
LEMMA PlanType ==
    ASSUME inputs \in Inputs, NEW ids, NEW state \in SUBSET Instances
    PROVE  Plan(ids, state) \in Seq(Fresh)
<1> DEFINE s == [n \in Ids |-> IF n \in ids THEN Expand(n, state) ELSE <<>>]
<1>1. ASSUME NEW n \in Ids PROVE s[n] \in Seq(Fresh)
  BY ExpandType, EmptySeq
<1>2. s \in [1..Len(Transitions) -> Seq(Fresh)]
  BY <1>1 DEF Ids
<1>3. s \in Seq(Seq(Fresh))
  <2> HIDE DEF s
  <2> QED
    BY <1>2, DefinitionAssumption
<1> HIDE DEF s
<1>4. FlattenSeq(s) \in Seq(Fresh)
  BY <1>3, FlattenType
<1> QED
  BY <1>4 DEF Plan, s

(* A list of fresh entries is an agenda.                                   *)
LEMMA FreshSteps == Seq(Fresh) \subseteq Seq(Steps)
<1>1. Fresh \subseteq Steps
  BY DEF Fresh
<1> QED
  BY <1>1, SeqMonotonic

(* The bounds are numbers.                                                 *)
LEMMA Bounds ==
    Slots \in Nat /\ RetryMax \in Nat /\ MaxRedeliveries \in Nat /\ MaxJobs \in Nat
  BY RunAssumption

(* The initial state is well typed.                                        *)
LEMMA InitTypes == Init => Types
<1> SUFFICES ASSUME Init PROVE Types
  OBVIOUS
<1>1. Plan(From("none"), {}) \in Seq(Steps) /\ <<>> \in Seq(Steps)
  BY PlanType, FreshSteps, EmptySeq DEF Init
<1>2. agenda \in [Workers -> Seq(Steps)]
  BY <1>1 DEF Init
<1>3. jobs \in Seq(JobRecords)
  BY EmptySeq DEF Init
<1> QED
  BY <1>2, <1>3, RunAssumption
     DEF Init, Types, Idle, Unread, Workers, Pcs, Routines, Results, RunStatuses, Reads

-----------------------------------------------------------------------------
(* Every step keeps the types.                                             *)

(* The parts of a sequence that is not empty.                              *)
LEMMA HeadTail ==
    ASSUME NEW S, NEW s \in Seq(S), s # <<>>
    PROVE  Head(s) \in S /\ Tail(s) \in Seq(S)
  OBVIOUS

(* Replacing the head of an agenda by well-typed entries keeps the types.  *)
LEMMA ReplaceType ==
    ASSUME Types, NEW w \in Workers, agenda[w] # <<>>, NEW s \in Seq(Steps), Replace(w, s)
    PROVE  agenda' \in [Workers -> Seq(Steps)]
<1>1. agenda[w] \in Seq(Steps)
  BY DEF Types
<1>2. Tail(agenda[w]) \in Seq(Steps)
  BY <1>1, HeadTail
<1>3. s \o Tail(agenda[w]) \in Seq(Steps)
  BY <1>2, ConcatProperties
<1> QED
  BY <1>3 DEF Replace, Types

(* So does dropping the head.                                              *)
LEMMA DropType ==
    ASSUME Types, NEW w \in Workers, agenda[w] # <<>>, Replace(w, <<>>)
    PROVE  agenda' \in [Workers -> Seq(Steps)]
  BY EmptySeq, ReplaceType

(* A row is well typed, and its number is no caller of a start.            *)
LEMMA MineType ==
    ASSUME Types, NEW k \in Rows
    PROVE  /\ jobs[k] \in JobRecords /\ Mine(k) \in Instances
           /\ k \in Nat /\ k >= 1 /\ k <= Len(jobs)
<1>1. jobs \in Seq(JobRecords) /\ k \in 1..Len(jobs) /\ Len(jobs) \in Nat
  BY LenProperties DEF Types, Rows
<1>2. jobs[k] \in JobRecords
  BY <1>1, ElementOfSeq
<1> QED
  BY <1>1, <1>2 DEF Mine, JobRecords

(* An error keeps the types.                                               *)
LEMMA ThrowType ==
    ASSUME Types, NEW w \in Workers, NEW retryable, Throw(w, retryable)
    PROVE  /\ pc' \in [Workers -> Pcs]
           /\ routine' \in [Workers -> Routines]
           /\ agenda' \in [Workers -> Seq(Steps)]
           /\ tries' \in [Workers -> Nat]
           /\ calm' = FALSE
<1>1. <<>> \in Seq(Steps)
  BY EmptySeq
<1>2. pc' \in [Workers -> Pcs]
  BY DEF Throw, Goto, Types, Pcs, Workers
<1> QED
  BY <1>1, <1>2 DEF Throw, Types, Routines

(* Replacing a row by a well-typed one keeps the queue well typed.         *)
LEMMA RowType ==
    ASSUME Types, NEW k \in Rows, NEW r \in JobRecords, jobs' = [jobs EXCEPT ![k] = r]
    PROVE  jobs' \in Seq(JobRecords) /\ Rows' = Rows /\ Len(jobs') = Len(jobs)
<1>1. jobs \in Seq(JobRecords) /\ k \in 1..Len(jobs)
  BY LenProperties DEF Types, Rows
<1> QED
  BY <1>1, ExceptSeq, LenProperties DEF Rows

(* So does setting the status of a row.                                    *)
LEMMA SetJobType ==
    ASSUME Types, NEW k \in Rows,
           NEW s \in {"pending", "processing", "completed", "failed"}, SetJob(k, s)
    PROVE  jobs' \in Seq(JobRecords)
<1> DEFINE r == [jobs[k] EXCEPT !.status = s]
<1>1. r \in JobRecords
  BY MineType DEF JobRecords
<1>2. jobs' = [jobs EXCEPT ![k] = r]
  BY DEF SetJob
<1> QED
  BY <1>1, <1>2, RowType

(* The head of an agenda is well typed.                                    *)
LEMMA HeadType ==
    ASSUME Types, NEW w \in Workers, agenda[w] # <<>>
    PROVE  /\ Head(agenda[w]) \in Steps
           /\ Snapshot(w) \in SUBSET Instances
           /\ Head(agenda[w]).ready => Todo(w) \in Instances
           /\ Waiting(w) => /\ Head(agenda[w]).arrow \in Ids
                           /\ Tr(w).type \in {"join", "end"}
                           /\ Todo(w) = Main(Tr(w).to)
<1>1. Head(agenda[w]) \in Steps
  BY HeadTail DEF Types
<1> QED
  BY <1>1 DEF Steps, Snapshot, Todo, Waiting, Tr

(* Workers are numbers, and 0 is one of them.                              *)
LEMMA WorkersMany == 0 \in Workers /\ Workers \subseteq Nat
  BY Bounds DEF Workers

(* Moving a worker to a step keeps the types.                              *)
LEMMA GotoType ==
    ASSUME Types, NEW w \in Workers, NEW step \in Pcs, Goto(w, step)
    PROVE  pc' \in [Workers -> Pcs]
  BY DEF Goto, Types

(* So does calling the merge.                                              *)
LEMMA MergeType ==
    ASSUME Types, NEW w \in Workers, NEW caller \in Routines, Merge(w, caller)
    PROVE  /\ pc' \in [Workers -> Pcs]
           /\ routine' \in [Workers -> Routines]
           /\ tries' \in [Workers -> Nat]
  BY DEF Merge, Goto, Types, Pcs

(* So does setting a result.                                               *)
LEMMA ResultType ==
    ASSUME Types, NEW i, NEW s \in Results, SetResult(i, s)
    PROVE  result' \in [Instances -> Results]
  BY DEF SetResult, Types

(* The steps of a merge keep the types.                                    *)
LEMMA MergeSteps ==
    ASSUME Types, NEW w \in Workers, Actor(w),
           MergeRead(w) \/ MergeWrite(w) \/ MergeConflict(w)
    PROVE  Types'
<1>1. CASE MergeRead(w)
  <2>1. pc' \in [Workers -> Pcs]
    BY <1>1, GotoType DEF MergeRead, Pcs
  <2>2. read' \in [Workers -> Reads]
    BY <1>1 DEF MergeRead, Types, Reads
  <2> QED
    BY <1>1, <2>1, <2>2 DEF MergeRead, Types, tables, world
<1>2. CASE MergeWrite(w)
  <2>1. routine[w] \in Routines \ {"none"}
    BY <1>2 DEF MergeWrite, Actor, Types, Merging
  <2>2. AfterMerge(routine[w]) \in Pcs /\ StatusOf(routine[w]) \in RunStatuses
    BY <2>1 DEF AfterMerge, StatusOf, Pcs, RunStatuses, Routines
  <2>3. PatchOf(w) \subseteq Instances
    <3>1. CASE routine[w] = "complete"
      <4>1. w \in Rows
        BY <1>2, <3>1 DEF Actor, MergeWrite
      <4> QED
        BY <4>1, MineType DEF PatchOf
    <3> QED
      BY <3>1 DEF PatchOf
  <2>4. read[w] \in Reads
    BY DEF Types
  <2>5. run' \in [status : RunStatuses, state : SUBSET Instances, version : Nat]
    BY <1>2, <2>2, <2>3, <2>4 DEF MergeWrite, Reads
  <2>6. pc' \in [Workers -> Pcs]
    BY <1>2, <2>2, GotoType DEF MergeWrite
  <2>7. routine' \in [Workers -> Routines] /\ read' \in [Workers -> Reads]
        /\ tries' \in [Workers -> Nat]
    BY <1>2 DEF MergeWrite, Types, Routines, Unread, Reads
  <2> QED
    BY <1>2, <2>5, <2>6, <2>7 DEF MergeWrite, Types, world
<1>3. CASE MergeConflict(w)
  <2>1. read' \in [Workers -> Reads]
    BY <1>3 DEF MergeConflict, Types, Unread, Reads
  <2>2. CASE tries[w] + 1 < MergeAttempts
    <3>1. Goto(w, "read") /\ tries' = [tries EXCEPT ![w] = @ + 1]
          /\ UNCHANGED <<routine, agenda, calm>>
      BY <1>3, <2>2, Zenon DEF MergeConflict
    <3>2. pc' \in [Workers -> Pcs] /\ tries' \in [Workers -> Nat]
      BY <3>1, GotoType DEF Pcs, Types
    <3> QED
      BY <1>3, <2>1, <3>1, <3>2 DEF MergeConflict, Types, tables
  <2>3. CASE ~(tries[w] + 1 < MergeAttempts)
    <3>1. Throw(w, FALSE)
      BY <1>3, <2>3 DEF MergeConflict
    <3>2. /\ pc' \in [Workers -> Pcs] /\ routine' \in [Workers -> Routines]
          /\ agenda' \in [Workers -> Seq(Steps)] /\ tries' \in [Workers -> Nat]
          /\ calm' = FALSE
      BY <3>1, ThrowType
    <3> QED
      BY <1>3, <2>1, <3>2 DEF MergeConflict, Types, tables
  <2> QED
    BY <2>2, <2>3
<1> QED
  BY <1>1, <1>2, <1>3

(* A join waits for instances of job tasks.                                *)
LEMMA AwaitedType ==
    ASSUME inputs \in Inputs, NEW n \in Ids, Transitions[n].type = "join", NEW state
    PROVE  \A i \in Awaited(Transitions[n], state) : i \in Instances /\ i[1] \in JobTasks
<1> DEFINE t == Transitions[n]
<1>1. CASE t.needs # {}
  <2>1. ASSUME NEW task \in t.needs
        PROVE  Main(task) \in Instances /\ Main(task)[1] \in JobTasks
    <3>1. task \in JobTasks
      BY <2>1, DefinitionAssumption
    <3> QED
      BY <3>1 DEF Instances, Tasks, Main
  <2> QED
    BY <1>1, <2>1 DEF Awaited
<1>2. CASE t.needs = {}
  <2>1. PICK m \in Ids : /\ Transitions[m].type = "fanout" /\ Transitions[m].to = t.joined
                         /\ Transitions[m].over = t.over
    BY <1>2, DefinitionAssumption
  <2>2. ASSUME NEW x \in ArrayAt(t.over, state)
        PROVE  <<t.joined, x>> \in Instances /\ t.joined \in JobTasks
    <3>1. x \in Items[inputs][t.over]
      BY <2>2 DEF ArrayAt
    <3>2. <<t.joined, x>> \in Fanned(m)
      BY <2>1, <3>1 DEF Fanned
    <3> QED
      BY <1>2, <2>1, <3>2, DefinitionAssumption DEF Instances
  <2> QED
    BY <1>2, <2>2 DEF Awaited, Expected
<1> QED
  BY <1>1, <1>2

(* A join that is found ready keeps its place, with what it waited for.    *)
LEMMA JoinMarks ==
    ASSUME Types, NEW w \in Workers, Join(w)
    PROVE  agenda[w] # <<>> /\ \E s \in Seq(Fresh) : Replace(w, s)
<1> DEFINE e == [Head(agenda[w]) EXCEPT !.awaited = Awaited(Tr(w), Snapshot(w))]
<1>1. /\ agenda[w] # <<>> /\ Waiting(w) /\ Tr(w).type = "join"
  BY DEF Join, At, Waiting
<1>2. Head(agenda[w]) \in Steps /\ Head(agenda[w]).arrow \in Ids /\ ~Head(agenda[w]).ready
  BY <1>1, HeadType DEF Waiting
<1>3. Awaited(Tr(w), Snapshot(w)) \subseteq Instances
  BY <1>1, <1>2, AwaitedType DEF Tr, Types
<1>4. e \in Fresh
  BY <1>2, <1>3 DEF Fresh, Steps
<1>5. <<e>> \in Seq(Fresh) /\ <<>> \in Seq(Fresh)
  BY <1>4, EmptySeq
<1>6. Replace(w, <<e>>) \/ Replace(w, <<>>)
  BY DEF Join
<1> QED
  BY <1>1, <1>5, <1>6

(* The marked head is the new one.                                         *)
LEMMA MarkedHead ==
    ASSUME Types, NEW w \in Workers, Waiting(w), NEW A,
           Replace(w, <<[Head(agenda[w]) EXCEPT !.awaited = A]>>)
    PROVE  /\ Waiting(w)' /\ Tr(w)' = Tr(w)
           /\ Head(agenda'[w]).awaited = A
<1> DEFINE e == [Head(agenda[w]) EXCEPT !.awaited = A]
<1>1. Head(agenda[w]) \in Steps /\ Tail(agenda[w]) \in Seq(Steps)
  BY HeadTail DEF Waiting, Types
<1>2. e.ready = Head(agenda[w]).ready /\ e.arrow = Head(agenda[w]).arrow /\ e.awaited = A
  BY <1>1 DEF Steps
<1>3. agenda'[w] = <<e>> \o Tail(agenda[w])
  BY DEF Replace, Types
<1> HIDE DEF e
<1>4. agenda'[w] # <<>> /\ Head(agenda'[w]) = e
  BY <1>1, <1>3
<1> QED
  BY <1>2, <1>4 DEF Waiting, Tr

(* So do the steps on joins and ends.                                      *)
LEMMA JoinSteps ==
    ASSUME Types, NEW w \in Workers, Actor(w), Join(w) \/ Joined(w) \/ End(w)
    PROVE  Types'
<1>1. CASE Join(w)
  <2>1. agenda[w] # <<>>
    BY <1>1 DEF Join, At, Waiting
  <2>2. agenda' \in [Workers -> Seq(Steps)]
    BY <1>1, <2>1, JoinMarks, FreshSteps, ReplaceType
  <2>3. pc' \in [Workers -> Pcs]
    BY <1>1, GotoType DEF Join, Pcs, Types
  <2> QED
    BY <1>1, <2>2, <2>3 DEF Join, Types, tables, world
<1>2. CASE Joined(w)
  <2> DEFINE e == [Head(agenda[w]) EXCEPT !.ready = TRUE, !.state = JoinState(w)]
  <2>1. agenda[w] # <<>> /\ Waiting(w) /\ Tr(w).type = "join"
    BY <1>2 DEF Joined, Actor, Waiting
  <2>2. /\ Head(agenda[w]) \in Steps /\ Head(agenda[w]).arrow \in Ids
        /\ Head(agenda[w]).task = Main(Tr(w).to)
    BY <2>1, HeadType DEF Todo
  <2>3. Main(Tr(w).to) \in Instances
    <3>1. Tr(w).to \in Tasks
      BY <2>1, <2>2, DefinitionAssumption DEF Tr
    <3> QED
      BY <3>1 DEF Instances
  <2>4. e \in Steps
    BY <2>2, <2>3 DEF Steps, JoinState, Types
  <2>5. <<e>> \in Seq(Steps)
    BY <2>4
  <2>6. agenda' \in [Workers -> Seq(Steps)]
    BY <1>2, <2>1, <2>5, ReplaceType DEF Joined
  <2>7. pc' \in [Workers -> Pcs]
    BY <1>2, GotoType DEF Joined, Pcs
  <2> QED
    BY <1>2, <2>6, <2>7 DEF Joined, Types, tables, world
<1>3. CASE End(w)
  <2>1. agenda[w] # <<>>
    BY <1>3 DEF End, At, Waiting
  <2>2. agenda' \in [Workers -> Seq(Steps)]
    BY <1>3, <2>1, DropType DEF End
  <2>3. /\ pc' \in [Workers -> Pcs] /\ routine' \in [Workers -> Routines]
        /\ tries' \in [Workers -> Nat]
    BY <1>3, MergeType DEF End, Routines
  <2> QED
    BY <1>3, <2>2, <2>3 DEF End, Types, tables, world
<1> QED
  BY <1>1, <1>2, <1>3

(* So do the steps that dispatch an instance.                              *)
LEMMA DispatchSteps ==
    ASSUME Types, NEW w \in Workers, Actor(w),
           Check(w) \/ Reserve(w) \/ PutNoop(w) \/ PutJob(w) \/ Enqueue(w) \/ TakeSnapshot(w)
    PROVE  Types'
<1>1. CASE Check(w)
  <2>1. agenda' \in [Workers -> Seq(Steps)]
    BY <1>1, DropType DEF Check, Types
  <2>2. pc' \in [Workers -> Pcs]
    BY <1>1, GotoType DEF Check, Pcs, Types
  <2> QED
    BY <1>1, <2>1, <2>2 DEF Check, Types, tables, world
<1>2. CASE Reserve(w)
  <2>1. agenda[w] # <<>>
    BY <1>2 DEF Reserve, Actor, Dispatching
  <2>2. agenda' \in [Workers -> Seq(Steps)]
    BY <1>2, <2>1, DropType DEF Reserve, Types
  <2>3. pc' \in [Workers -> Pcs]
    BY <1>2, GotoType DEF Reserve, Pcs, Types
  <2>4. result' \in [Instances -> Results]
    BY <1>2, ResultType DEF Reserve, Results, Types
  <2> QED
    BY <1>2, <2>2, <2>3, <2>4 DEF Reserve, Types, world
<1>3. CASE PutNoop(w)
  <2>1. agenda[w] # <<>>
    BY <1>3 DEF PutNoop, Actor, Dispatching
  <2>2. Plan(From(Todo(w)[1]), Snapshot(w)) \in Seq(Steps)
    BY <2>1, HeadType, PlanType, FreshSteps DEF Types
  <2>3. agenda' \in [Workers -> Seq(Steps)]
    BY <1>3, <2>1, <2>2, ReplaceType DEF PutNoop
  <2>4. result' \in [Instances -> Results]
    BY <1>3, ResultType DEF PutNoop, Results
  <2>5. /\ pc' \in [Workers -> Pcs] /\ routine' \in [Workers -> Routines]
        /\ tries' \in [Workers -> Nat]
    BY <1>3, MergeType DEF PutNoop, Routines
  <2> QED
    BY <1>3, <2>3, <2>4, <2>5 DEF PutNoop, Types, world
<1>4. CASE PutJob(w)
  <2>1. result' \in [Instances -> Results]
    BY <1>4, ResultType DEF PutJob, Results
  <2>2. pc' \in [Workers -> Pcs]
    BY <1>4, GotoType DEF PutJob, Pcs
  <2> QED
    BY <1>4, <2>1, <2>2 DEF PutJob, Types, world
<1>5. CASE Enqueue(w)
  <2>1. agenda[w] # <<>> /\ Todo(w) \in Instances
    BY <1>5, HeadType DEF Enqueue, Actor, Dispatching
  <2>2. [task |-> Todo(w), status |-> "pending", attempt |-> 0, redelivered |-> 0] \in JobRecords
    BY <2>1, Bounds DEF JobRecords
  <2>3. jobs' \in Seq(JobRecords)
    BY <1>5, <2>2, AppendProperties DEF Enqueue, Insert, Types
  <2>4. agenda' \in [Workers -> Seq(Steps)]
    BY <1>5, <2>1, DropType DEF Enqueue
  <2>5. /\ pc' \in [Workers -> Pcs] /\ routine' \in [Workers -> Routines]
        /\ tries' \in [Workers -> Nat]
    BY <1>5, MergeType DEF Enqueue, Routines
  <2> QED
    BY <1>5, <2>3, <2>4, <2>5 DEF Enqueue, Types, world
<1>6. CASE TakeSnapshot(w)
  <2>1. /\ Plan(From(Mine(w)[1]), run.state) \in Seq(Steps)
        /\ Plan(Joins, run.state) \in Seq(Steps)
    BY PlanType, FreshSteps DEF Types
  <2>2. Plan(From(Mine(w)[1]), run.state) \o Plan(Joins, run.state) \in Seq(Steps)
    BY <2>1, ConcatProperties
  <2>3. agenda' \in [Workers -> Seq(Steps)]
    BY <1>6, <2>2 DEF TakeSnapshot, Types
  <2>4. pc' \in [Workers -> Pcs]
    BY <1>6, GotoType DEF TakeSnapshot, Pcs
  <2> QED
    BY <1>6, <2>3, <2>4 DEF TakeSnapshot, Types, tables, world
<1> QED
  BY <1>1, <1>2, <1>3, <1>4, <1>5, <1>6

(* So do the steps of runJob.                                              *)
LEMMA RunnerSteps ==
    ASSUME Types, NEW w \in Workers, Actor(w),
           \/ Start(w) \/ Publish(w) \/ Finish(w) \/ RetryRow(w) \/ Requeue(w)
           \/ FailTask(w) \/ FailJob(w)
    PROVE  Types'
<1>0. w \in Rows
  BY DEF Actor, Start, Publish, Finish, RetryRow, Requeue, FailTask, FailJob,
         Dispatching, Merging
<1>1. CASE Start(w)
  <2>1. result' \in [Instances -> Results]
    BY <1>1, ResultType DEF Start, Results
  <2>2. /\ pc' \in [Workers -> Pcs] /\ routine' \in [Workers -> Routines]
        /\ tries' \in [Workers -> Nat]
    BY <1>1, MergeType DEF Start, Routines
  <2> QED
    BY <1>1, <2>1, <2>2 DEF Start, Types, world
<1>2. CASE Publish(w) \/ RetryRow(w)
  <2>1. result' \in [Instances -> Results]
    BY <1>2, ResultType DEF Publish, RetryRow, Results
  <2>2. pc' \in [Workers -> Pcs]
    BY <1>2, GotoType DEF Publish, RetryRow, Pcs
  <2> QED
    BY <1>2, <2>1, <2>2 DEF Publish, RetryRow, Types, world
<1>3. CASE Finish(w) \/ FailJob(w)
  <2>1. jobs' \in Seq(JobRecords)
    BY <1>0, <1>3, SetJobType DEF Finish, FailJob
  <2>2. pc' \in [Workers -> Pcs]
    BY <1>3, GotoType DEF Finish, FailJob, Pcs
  <2>3. routine' \in [Workers -> Routines]
    BY <1>3 DEF Finish, FailJob, Types, Routines
  <2> QED
    BY <1>3, <2>1, <2>2, <2>3 DEF Finish, FailJob, Types, world
<1>4. CASE Requeue(w)
  <2> DEFINE r == [jobs[w] EXCEPT !.status = "pending", !.attempt = @ + 1]
  <2>1. jobs[w].attempt < RetryMax /\ jobs[w] \in JobRecords
    BY <1>0, <1>4, MineType DEF Requeue, Actor, Retrying
  <2>2. r \in JobRecords
    <3>1. RetryMax \in Nat /\ jobs[w].attempt \in 0..RetryMax
      BY <2>1, Bounds DEF JobRecords
    <3>2. jobs[w].attempt + 1 \in 0..RetryMax
      BY <2>1, <3>1
    <3> QED
      BY <2>1, <3>2 DEF JobRecords
  <2>3. jobs' = [jobs EXCEPT ![w] = r]
    BY <1>4 DEF Requeue
  <2>4. jobs' \in Seq(JobRecords)
    <3> HIDE DEF r
    <3> QED
      BY <1>0, <2>2, <2>3, RowType
  <2>5. pc' \in [Workers -> Pcs]
    BY <1>4, GotoType DEF Requeue, Pcs
  <2> QED
    BY <1>4, <2>4, <2>5 DEF Requeue, Types, world
<1>5. CASE FailTask(w)
  <2>1. result' \in [Instances -> Results]
    BY <1>5, ResultType DEF FailTask, Results
  <2>2. /\ pc' \in [Workers -> Pcs] /\ routine' \in [Workers -> Routines]
        /\ tries' \in [Workers -> Nat]
    BY <1>5, MergeType DEF FailTask, Routines
  <2>3. broken' \subseteq Instances
    BY <1>0, <1>5, MineType DEF FailTask, Types
  <2> QED
    BY <1>5, <2>1, <2>2, <2>3 DEF FailTask, Types, world
<1> QED
  BY <1>1, <1>2, <1>3, <1>4, <1>5

(* So does a failure.                                                      *)
LEMMA FailsTypes ==
    ASSUME Types, NEW w \in Workers, Actor(w), Failing(w)
    PROVE  Types'
<1>0. Fault(w)
  BY DEF Failing, Fails, EnqueueFails
<1>1. PICK retryable \in {FALSE, w > 0} : Throw(w, retryable)
  BY <1>0 DEF Fault
<1>2. /\ pc' \in [Workers -> Pcs] /\ routine' \in [Workers -> Routines]
      /\ agenda' \in [Workers -> Seq(Steps)] /\ tries' \in [Workers -> Nat]
      /\ calm' = FALSE
  <2> HIDE DEF Throw
  <2> QED
    BY <1>1, ThrowType
<1>3. /\ result' \in [Instances -> Results] /\ jobs' \in Seq(JobRecords)
      /\ broken' \subseteq Instances
  <2>1. CASE Fails(w)
    BY <2>1 DEF Fails, tables, Types
  <2>2. CASE EnqueueFails(w)
    <3>1. Todo(w) \in Instances
      BY <2>2, HeadType DEF EnqueueFails, Actor, Dispatching
    <3>2. result' \in [Instances -> Results] /\ broken' \subseteq Instances
      BY <2>2, <3>1, ResultType DEF EnqueueFails, Results, Types
    <3>3. [task |-> Todo(w), status |-> "pending", attempt |-> 0, redelivered |-> 0]
            \in JobRecords
      BY <3>1, Bounds DEF JobRecords
    <3>4. jobs' \in Seq(JobRecords)
      <4>1. CASE Insert(w)
        BY <3>3, <4>1, AppendProperties DEF Insert, Types
      <4>2. CASE UNCHANGED jobs
        BY <4>2 DEF Types
      <4> QED
        BY <2>2, <4>1, <4>2 DEF EnqueueFails
    <3> QED
      BY <3>2, <3>4
  <2> QED
    BY <2>1, <2>2 DEF Failing
<1>4. read' \in [Workers -> Reads] /\ failures' \in Nat
  BY <1>0 DEF Fault, Types, Reads, Unread
<1>5. run' = run /\ inputs' = inputs
  BY DEF Failing, Fails, EnqueueFails, tables
<1> QED
  BY <1>2, <1>3, <1>4, <1>5 DEF Types

(* So do claims, sweeps and crashes.                                       *)
LEMMA QueueTypes ==
    ASSUME Types, (\E j \in Workers : Claim(j) \/ Reap(j)) \/ Crash
    PROVE  Types'
<1>1. ASSUME NEW j \in Workers, Claim(j) PROVE Types'
  <2>1. jobs' \in Seq(JobRecords)
    BY <1>1, SetJobType DEF Claim
  <2>2. pc' \in [Workers -> Pcs]
    BY <1>1, GotoType DEF Claim, Pcs
  <2> QED
    BY <1>1, <2>1, <2>2 DEF Claim, Types, world
<1>2. ASSUME NEW j \in Workers, Reap(j) PROVE Types'
  <2>1. jobs[j] \in JobRecords /\ j \in Rows
    BY <1>2, MineType DEF Reap
  <2>2. CASE jobs[j].redelivered < MaxRedeliveries
    <3> DEFINE r == [jobs[j] EXCEPT !.status = "pending", !.redelivered = @ + 1]
    <3>0. /\ MaxRedeliveries \in Nat
          /\ jobs[j].redelivered \in 0..MaxRedeliveries
      BY <2>1, Bounds DEF JobRecords
    <3>1. r \in JobRecords
      <4>1. jobs[j].redelivered + 1 \in 0..MaxRedeliveries
        BY <2>2, <3>0
      <4> QED
        BY <2>1, <4>1 DEF JobRecords
    <3>2. jobs' = [jobs EXCEPT ![j] = r]
      BY <1>2, <2>2 DEF Reap
    <3>3. jobs' \in Seq(JobRecords)
      <4> HIDE DEF r
      <4> QED
        BY <2>1, <3>1, <3>2, RowType
    <3> QED
      BY <1>2, <3>3 DEF Reap, Types, world, workers
  <2>3. CASE ~(jobs[j].redelivered < MaxRedeliveries)
    <3>1. SetJob(j, "failed")
      BY <1>2, <2>3 DEF Reap, SetJob
    <3>2. jobs' \in Seq(JobRecords)
      BY <2>1, <3>1, SetJobType
    <3> QED
      BY <1>2, <3>2 DEF Reap, Types, world, workers
  <2> QED
    BY <2>2, <2>3
<1>3. ASSUME Crash PROVE Types'
  <2>1. [w \in Workers |-> <<>>] \in [Workers -> Seq(Steps)]
    BY EmptySeq
  <2>2. /\ pc' \in [Workers -> Pcs] /\ routine' \in [Workers -> Routines]
        /\ agenda' \in [Workers -> Seq(Steps)] /\ tries' \in [Workers -> Nat]
        /\ read' \in [Workers -> Reads]
    BY <1>3, <2>1 DEF Crash, Idle, Pcs, Routines, Reads, Unread
  <2>3. failures' \in Nat
    BY <1>3 DEF Crash, Types
  <2>4. calm' = FALSE
    BY <1>3 DEF Crash
  <2>5. UNCHANGED <<result, run, jobs, inputs, broken>>
    BY <1>3 DEF Crash, tables
  <2> QED
    BY <2>2, <2>3, <2>4, <2>5 DEF Types
<1> QED
  BY <1>1, <1>2, <1>3

(* Every step keeps the types.                                             *)
LEMMA NextTypes ==
    ASSUME Types, \A w \in Workers : Actor(w), [Next]_vars
    PROVE  Types'
<1>1. ASSUME NEW w \in Workers, Step(w) PROVE Types'
  BY <1>1, MergeSteps, JoinSteps, DispatchSteps, RunnerSteps DEF Step
<1>2. ASSUME UNCHANGED vars PROVE Types'
  BY <1>2 DEF vars, tables, workers, world, Types
<1> QED
  BY <1>1, <1>2, FailsTypes, QueueTypes DEF Next, Failing

-----------------------------------------------------------------------------
(* A step of a worker leaves the others alone, and the rows of the queue   *)
(* keep their tasks.                                                       *)

Same(v) == /\ pc'[v] = pc[v] /\ routine'[v] = routine[v] /\ agenda'[v] = agenda[v]
           /\ read'[v] = read[v]
Kept(k) == k \in Rows' /\ jobs'[k].task = jobs[k].task
SameAttempt(k) == jobs'[k].attempt = jobs[k].attempt

(* An error of one worker is none of another.                              *)
LEMMA ThrowOthers ==
    ASSUME Types, NEW w \in Workers, NEW retryable, Throw(w, retryable),
           NEW v \in Workers \ {w}
    PROVE  pc'[v] = pc[v] /\ routine'[v] = routine[v] /\ agenda'[v] = agenda[v]
  BY DEF Throw, Goto, Types

(* A step of one worker leaves the others where they are.                  *)
LEMMA OthersStay ==
    ASSUME Types, NEW w \in Workers, Step(w) \/ Failing(w), NEW v \in Workers \ {w}
    PROVE  Same(v)
<1>1. CASE MergeRead(w) \/ MergeWrite(w)
  BY <1>1 DEF MergeRead, MergeWrite, Same, Types, Goto
<1>2. CASE MergeConflict(w)
  <2>1. read'[v] = read[v]
    BY <1>2 DEF MergeConflict, Types
  <2>2. CASE tries[w] + 1 < MergeAttempts
    <3>1. Goto(w, "read") /\ UNCHANGED <<routine, agenda>>
      BY <1>2, <2>2, Zenon DEF MergeConflict
    <3> QED
      BY <2>1, <3>1 DEF Same, Types, Goto
  <2>3. CASE ~(tries[w] + 1 < MergeAttempts)
    <3>1. Throw(w, FALSE)
      BY <1>2, <2>3 DEF MergeConflict
    <3> QED
      BY <2>1, <3>1, ThrowOthers DEF Same
  <2> QED
    BY <2>2, <2>3
<1>3. CASE Join(w) \/ Joined(w) \/ End(w) \/ Check(w) \/ Reserve(w)
  BY <1>3 DEF Join, Joined, End, Check, Reserve, Same, Types, Goto, Replace, Merge
<1>4. CASE PutNoop(w) \/ PutJob(w) \/ Enqueue(w) \/ TakeSnapshot(w)
  BY <1>4 DEF PutNoop, PutJob, Enqueue, TakeSnapshot, Same, Types, Goto, Replace, Merge
<1>5. CASE \/ Start(w) \/ Publish(w) \/ Finish(w) \/ RetryRow(w) \/ Requeue(w)
           \/ FailTask(w) \/ FailJob(w)
  BY <1>5 DEF Start, Publish, Finish, RetryRow, Requeue, FailTask, FailJob, Same, Types,
              Goto, Merge
<1>6. CASE Failing(w)
  <2>1. PICK retryable \in {FALSE, w > 0} : Throw(w, retryable)
    BY <1>6 DEF Failing, Fails, EnqueueFails, Fault
  <2>2. pc'[v] = pc[v] /\ routine'[v] = routine[v] /\ agenda'[v] = agenda[v]
    <3> HIDE DEF Throw
    <3> QED
      BY <2>1, ThrowOthers
  <2>3. read'[v] = read[v]
    BY <1>6 DEF Failing, Fails, EnqueueFails, Fault, Types
  <2> QED
    BY <2>2, <2>3 DEF Same
<1> QED
  BY <1>1, <1>2, <1>3, <1>4, <1>5, <1>6 DEF Step

(* The row that is added is well typed.                                    *)
LEMMA AddsType ==
    ASSUME Types, NEW w \in Workers, Actor(w), Adds(w)
    PROVE  /\ Todo(w) \in Instances
           /\ [task |-> Todo(w), status |-> "pending", attempt |-> 0, redelivered |-> 0]
                \in JobRecords
<1>1. Todo(w) \in Instances
  BY HeadType DEF Adds, Enqueue, EnqueueFails, Actor, Dispatching
<1> QED
  BY <1>1, Bounds DEF JobRecords

(* No row goes away or changes its task; only a requeue counts an attempt. *)
LEMMA RowsKept ==
    ASSUME Types, NEW k \in Rows, [Next]_vars, \A w \in Workers : Actor(w)
    PROVE  /\ Kept(k)
           /\ SameAttempt(k) \/ (k \in Workers /\ Requeue(k))
<1>0. /\ jobs \in Seq(JobRecords) /\ k \in 1..Len(jobs) /\ Len(jobs) \in Nat
      /\ Rows = 1..Len(jobs) /\ jobs[k] \in JobRecords
  BY LenProperties, MineType DEF Types, Rows
<1>1. ASSUME jobs' = jobs PROVE Kept(k) /\ SameAttempt(k)
  BY <1>1 DEF Kept, SameAttempt, Rows
<1>2. ASSUME NEW j \in Rows, NEW s, SetJob(j, s) PROVE Kept(k) /\ SameAttempt(k)
  BY <1>0, <1>2 DEF SetJob, Kept, SameAttempt, Rows, JobRecords
<1>3. ASSUME NEW w \in Workers, Adds(w) PROVE Kept(k) /\ SameAttempt(k)
  <2> DEFINE r == [task |-> Todo(w), status |-> "pending", attempt |-> 0, redelivered |-> 0]
  <2>1. r \in JobRecords
    BY <1>3, AddsType
  <2>2. jobs' = Append(jobs, r)
    BY <1>3 DEF Adds, Insert
  <2> HIDE DEF r
  <2> QED
    BY <1>0, <2>1, <2>2, AppendProperties DEF Kept, SameAttempt, Rows
<1>4. ASSUME NEW w \in Workers, Requeue(w), w \in Rows
      PROVE  Kept(k) /\ (SameAttempt(k) \/ k = w)
  BY <1>0, <1>4 DEF Requeue, Kept, SameAttempt, Rows, JobRecords
<1>5. ASSUME NEW j \in Workers, Reap(j) PROVE Kept(k) /\ SameAttempt(k)
  <2>1. j \in Rows /\ jobs[j] \in JobRecords
    BY <1>5, MineType DEF Reap
  <2>2. CASE jobs[j].redelivered < MaxRedeliveries
    BY <1>0, <1>5, <2>1, <2>2 DEF Reap, Kept, SameAttempt, Rows, JobRecords
  <2>3. CASE ~(jobs[j].redelivered < MaxRedeliveries)
    BY <1>2, <1>5, <2>1, <2>3 DEF Reap, SetJob
  <2> QED
    BY <2>2, <2>3
<1>6. ASSUME NEW w \in Workers, Step(w)
      PROVE  Kept(k) /\ (SameAttempt(k) \/ (k = w /\ Requeue(w)))
  <2>1. CASE Finish(w) \/ FailJob(w) \/ Requeue(w)
    <3>1. w \in Rows
      BY <2>1 DEF Actor, Finish, FailJob, Requeue, Dispatching, Merging
    <3> QED
      BY <1>2, <1>4, <2>1, <3>1 DEF Finish, FailJob
  <2>2. CASE \/ MergeRead(w) \/ MergeWrite(w) \/ MergeConflict(w) \/ Join(w) \/ Joined(w)
             \/ End(w) \/ Check(w) \/ Reserve(w) \/ PutNoop(w) \/ PutJob(w)
             \/ Start(w) \/ Publish(w) \/ TakeSnapshot(w) \/ RetryRow(w) \/ FailTask(w)
    <3>1. jobs' = jobs
      BY <2>2 DEF MergeRead, MergeWrite, MergeConflict, Join, Joined, End, Check, Reserve,
                  PutNoop, PutJob, Start, Publish, TakeSnapshot, RetryRow, FailTask, tables
    <3> QED
      BY <1>1, <3>1
  <2> QED
    BY <1>3, <1>6, <2>1, <2>2 DEF Step, Adds, Enqueue
<1>7. ASSUME NEW j \in Workers, Claim(j) PROVE Kept(k) /\ SameAttempt(k)
  BY <1>2, <1>7 DEF Claim
<1>8. ASSUME Crash \/ (\E w \in Workers : Failing(w)) \/ UNCHANGED vars
      PROVE  Kept(k) /\ SameAttempt(k)
  BY <1>1, <1>3, <1>8 DEF Crash, Failing, Fails, EnqueueFails, Adds, vars, tables
<1> QED
  BY <1>5, <1>6, <1>7, <1>8 DEF Next, Failing

-----------------------------------------------------------------------------
(* What a worker relies on holds again when it has made a step.            *)

(* A worker that does not move may still rely on the same.                 *)
LEMMA ActorKept ==
    ASSUME Types, NEW w \in Workers, Actor(w), Same(w),
           \A k \in Rows : Kept(k), w \in Rows => SameAttempt(w)
    PROVE  Actor(w)'
<1>1. pc'[w] = pc[w] /\ routine'[w] = routine[w] /\ agenda'[w] = agenda[w]
  BY DEF Same
<1>2. (Waiting(w) <=> Waiting(w)') /\ Tr(w)' = Tr(w)
  BY <1>1 DEF Waiting, Tr
<1>3. w \in Rows => w \in Rows' /\ jobs'[w].attempt = jobs[w].attempt
  BY DEF Kept, SameAttempt
<1>4. pc[w] \in Retrying => w \in Rows
  BY DEF Actor, Retrying, Dispatching, Merging
<1> QED
  BY <1>1, <1>2, <1>3, <1>4 DEF Actor

(* At a step that relies on its row only, a worker needs no more.          *)
LEMMA ActorCalm ==
    ASSUME Types, NEW w \in Workers, Actor(w), \A k \in Rows : Kept(k),
           pc'[w] \in {"idle", "dispatch", "start", "publish", "snapshot", "fail", "close"},
           w \in Rows \/ (pc'[w] = "dispatch" /\ w = 0),
           routine'[w] \in {"none", "task", "end"} \/ w \in Rows
    PROVE  Actor(w)'
<1>1. w \in Rows => w # 0 /\ w \in Rows'
  BY MineType DEF Kept
<1> QED
  BY <1>1 DEF Actor, Dispatching, Merging, Retrying

(* After an error a worker retries only what has attempts left.            *)
LEMMA ActorThrow ==
    ASSUME Types, NEW w \in Workers, Actor(w), \A k \in Rows : Kept(k),
           w \in Rows => SameAttempt(w), pc[w] \notin {"idle", "done"},
           NEW retryable, Throw(w, retryable)
    PROVE  Actor(w)'
<1>1. routine'[w] = "none" /\ w \in Nat
  BY WorkersMany DEF Throw, Types
<1>2. CASE w = 0
  <2>1. pc'[w] = "done"
    BY <1>2 DEF Throw, Goto, Types
  <2> QED
    BY <1>1, <1>2, <2>1 DEF Actor, Dispatching, Merging, Retrying
<1>3. CASE w # 0
  <2>1. w \in Rows /\ w \in Rows'
    BY <1>3 DEF Actor, Kept
  <2>2. /\ pc'[w] \in {"idle", "retry", "fail"}
        /\ pc'[w] = "retry" => jobs[w].attempt < RetryMax
    BY <1>1, <1>3 DEF Throw, Goto, Types, Retried
  <2>3. jobs'[w].attempt = jobs[w].attempt
    BY <2>1 DEF SameAttempt
  <2> QED
    BY <1>3, <2>1, <2>2, <2>3 DEF Actor, Dispatching, Merging, Retrying
<1> QED
  BY <1>2, <1>3

(* A merge is called with a routine.                                       *)
LEMMA ActorMerge ==
    ASSUME Types, NEW w \in Workers, Actor(w), \A k \in Rows : Kept(k),
           pc[w] \notin {"idle", "done"},
           NEW caller \in Routines \ {"none"}, Merge(w, caller),
           w \in Rows \/ caller \in {"task", "end"}
    PROVE  Actor(w)'
<1>1. pc'[w] = "read" /\ routine'[w] = caller
  BY DEF Merge, Goto, Types
<1>2. w # 0 => w \in Rows /\ w \in Rows'
  BY DEF Actor, Kept
<1>3. w = 0 => caller \in {"task", "end"}
  BY MineType
<1> QED
  BY <1>1, <1>2, <1>3 DEF Actor, Dispatching, Merging, Retrying

(* The own step of a worker leads where it may rely on what it needs.      *)
LEMMA ActorStep ==
    ASSUME Types, NEW w \in Workers, \A v \in Workers : Actor(v), Step(w) \/ Failing(w)
    PROVE  Actor(w)'
<1>0. /\ \A k \in Rows : Kept(k)
      /\ w \in Rows => SameAttempt(w) \/ Requeue(w)
      /\ w # 0 /\ pc[w] # "idle" => w \in Rows
      /\ w \in Rows => w # 0
      /\ Actor(w)
  BY RowsKept, MineType DEF Next, Failing, Actor
<1>1. CASE MergeRead(w)
  <2>1. pc'[w] = "write" /\ routine'[w] = routine[w] /\ routine[w] # "none"
    BY <1>0, <1>1 DEF MergeRead, Goto, Types, Actor, Merging
  <2> QED
    BY <1>0, <1>1, <2>1 DEF MergeRead, Actor, Kept, Dispatching, Merging, Retrying
<1>2. CASE MergeWrite(w)
  <2>1. /\ pc'[w] = AfterMerge(routine[w]) /\ routine[w] \in Routines \ {"none"}
        /\ routine'[w] = IF routine[w] = "start" THEN "complete" ELSE routine[w]
    BY <1>0, <1>2 DEF MergeWrite, Goto, Types, Actor, Merging
  <2>2. w = 0 => routine[w] \in {"task", "end"}
    BY <1>0, <2>1 DEF Actor
  <2>3. w # 0 => w \in Rows /\ w \in Rows'
    BY <1>0, <1>2 DEF MergeWrite, Kept
  <2> QED
    BY <2>1, <2>2, <2>3 DEF AfterMerge, Actor, Routines, Dispatching, Merging, Retrying
<1>3. CASE MergeConflict(w)
  <2>0. pc[w] = "write" /\ jobs' = jobs
    BY <1>3 DEF MergeConflict, tables
  <2>1. CASE tries[w] + 1 < MergeAttempts
    <3>1. Goto(w, "read") /\ UNCHANGED routine
      BY <1>3, <2>1, Zenon DEF MergeConflict
    <3>2. pc'[w] = "read" /\ routine'[w] = routine[w] /\ routine[w] # "none"
      BY <1>0, <2>0, <3>1 DEF Goto, Types, Actor, Merging
    <3> QED
      BY <1>0, <2>0, <3>2 DEF Actor, Kept, Dispatching, Merging, Retrying
  <2>2. CASE ~(tries[w] + 1 < MergeAttempts)
    <3>1. Throw(w, FALSE)
      BY <1>3, <2>2 DEF MergeConflict
    <3> QED
      BY <1>0, <2>0, <3>1, ActorThrow DEF SameAttempt
  <2> QED
    BY <2>1, <2>2
<1>4. CASE Join(w)
  <2> DEFINE e == [Head(agenda[w]) EXCEPT !.awaited = Awaited(Tr(w), Snapshot(w))]
  <2>1. CASE Goto(w, "joined") /\ Replace(w, <<e>>)
    <3>1. agenda[w] # <<>> /\ Waiting(w) /\ Tr(w).type = "join"
      BY <1>4 DEF Join, At, Waiting
    <3>2. Waiting(w)' /\ Tr(w)' = Tr(w)
      BY <2>1, <3>1, MarkedHead
    <3>3. pc'[w] = "joined" /\ routine'[w] = routine[w]
      BY <1>4, <2>1 DEF Join, Goto, Types
    <3> QED
      BY <1>0, <1>4, <3>1, <3>2, <3>3
         DEF Join, At, Actor, Kept, Dispatching, Merging, Retrying
  <2>2. CASE Replace(w, <<>>) /\ UNCHANGED pc
    <3>1. pc'[w] = "dispatch" /\ routine'[w] = routine[w] /\ pc[w] = "dispatch"
      BY <1>4, <2>2 DEF Join, At
    <3> QED
      BY <1>0, <3>1, ActorCalm DEF Actor
  <2> QED
    BY <1>4, <2>1, <2>2 DEF Join
<1>5. CASE Joined(w)
  <2>1. pc'[w] = "dispatch" /\ routine'[w] = routine[w] /\ pc[w] = "joined"
    BY <1>5 DEF Joined, Goto, Types
  <2> QED
    BY <1>0, <2>1, ActorCalm DEF Actor
<1>6. CASE End(w) \/ PutNoop(w) \/ Enqueue(w)
  <2>1. pc[w] \notin {"idle", "done"} /\ (Merge(w, "end") \/ Merge(w, "task"))
    BY <1>6 DEF End, PutNoop, Enqueue, At
  <2> QED
    BY <1>0, <2>1, ActorMerge DEF Routines
<1>7. CASE Check(w)
  <2>0. /\ pc[w] = "dispatch" /\ routine'[w] = routine[w]
        /\ agenda[w] # <<>> /\ Head(agenda[w]).ready
    BY <1>7 DEF Check, Waiting
  <2>1. CASE UNCHANGED pc
    BY <1>0, <2>0, <2>1, ActorCalm DEF Actor
  <2>2. CASE (Goto(w, "reserve") \/ Goto(w, "put")) /\ UNCHANGED agenda
    <3>1. pc'[w] \in {"reserve", "put"} /\ agenda'[w] = agenda[w]
      BY <2>2 DEF Goto, Types
    <3> QED
      BY <1>0, <2>0, <3>1 DEF Actor, Kept, Dispatching, Merging, Retrying
  <2> QED
    BY <1>7, <2>1, <2>2 DEF Check
<1>8. CASE Reserve(w)
  <2>0. /\ pc[w] = "reserve" /\ routine'[w] = routine[w]
        /\ agenda[w] # <<>> /\ Head(agenda[w]).ready
    BY <1>0, <1>8 DEF Reserve, Actor, Dispatching
  <2>1. CASE Goto(w, "put") /\ UNCHANGED agenda
    <3>1. pc'[w] = "put" /\ agenda'[w] = agenda[w]
      BY <2>1 DEF Goto, Types
    <3> QED
      BY <1>0, <2>0, <3>1 DEF Actor, Kept, Dispatching, Merging, Retrying
  <2>2. CASE Goto(w, "dispatch")
    <3>1. pc'[w] = "dispatch"
      BY <2>2 DEF Goto, Types
    <3> QED
      BY <1>0, <2>0, <3>1, ActorCalm DEF Actor
  <2> QED
    BY <1>8, <2>1, <2>2 DEF Reserve
<1>9. CASE PutJob(w)
  <2>1. /\ pc[w] = "put" /\ pc'[w] = "enqueue" /\ routine'[w] = routine[w]
        /\ agenda'[w] = agenda[w] /\ agenda[w] # <<>> /\ Head(agenda[w]).ready
    BY <1>0, <1>9 DEF PutJob, Goto, Types, Actor, Dispatching
  <2> QED
    BY <1>0, <2>1 DEF Actor, Kept, Dispatching, Merging, Retrying
<1>10. CASE Start(w) \/ FailTask(w)
  <2>1. pc[w] \in {"start", "fail"} /\ (Merge(w, "start") \/ Merge(w, "fail"))
    BY <1>10 DEF Start, FailTask
  <2>2. w \in Rows
    BY <1>0, <2>1 DEF Actor, Dispatching, Merging
  <2> QED
    BY <1>0, <2>1, <2>2, ActorMerge DEF Routines
<1>11. CASE Publish(w) \/ TakeSnapshot(w) \/ Finish(w) \/ FailJob(w) \/ Requeue(w)
  <2>1. /\ pc[w] \in {"publish", "snapshot", "dispatch", "close", "requeue"}
        /\ pc[w] = "dispatch" => w # 0
        /\ pc'[w] \in {"snapshot", "dispatch", "idle"}
    BY <1>11, WorkersMany
       DEF Publish, TakeSnapshot, Finish, FailJob, Requeue, Goto, Types
  <2>2. w \in Rows
    BY <1>0, <2>1 DEF Actor, Dispatching, Merging
  <2> QED
    BY <1>0, <2>1, <2>2, ActorCalm
<1>12. CASE RetryRow(w)
  <2>1. pc[w] = "retry" /\ pc'[w] = "requeue" /\ jobs' = jobs /\ routine'[w] = routine[w]
    BY <1>12 DEF RetryRow, Goto, Types
  <2>2. w \in Rows
    BY <1>0, <2>1 DEF Actor, Dispatching, Merging
  <2> QED
    BY <1>0, <2>1, <2>2 DEF Actor, Kept, Dispatching, Merging, Retrying
<1>13. CASE Failing(w)
  <2>1. PICK retryable \in {FALSE, w > 0} : Throw(w, retryable)
    BY <1>13 DEF Failing, Fails, EnqueueFails, Fault
  <2>2. pc[w] \notin {"idle", "done"}
    BY <1>13 DEF Failing, Fails, EnqueueFails, Writes
  <2>3. ~Requeue(w)
    <3>1. failures' = failures + 1 /\ failures \in Nat
      BY <1>13 DEF Failing, Fails, EnqueueFails, Fault, Types
    <3>2. Requeue(w) => failures' = failures
      BY DEF Requeue, world
    <3> QED
      BY <3>1, <3>2
  <2> HIDE DEF Throw
  <2> QED
    BY <1>0, <2>1, <2>2, <2>3, ActorThrow
<1> QED
  BY <1>1, <1>2, <1>3, <1>4, <1>5, <1>6, <1>7, <1>8, <1>9, <1>10, <1>11, <1>12, <1>13
     DEF Step

(* Every step keeps what every worker relies on.                           *)
LEMMA NextActor ==
    ASSUME Types, \A w \in Workers : Actor(w), [Next]_vars
    PROVE  \A w \in Workers : Actor(w)'
<1> SUFFICES ASSUME NEW w \in Workers PROVE Actor(w)'
  OBVIOUS
<1>0. \A k \in Rows : Kept(k)
  BY RowsKept
<1>1. ASSUME NEW v \in Workers, Step(v) \/ Failing(v) PROVE Actor(w)'
  <2>1. CASE v = w
    BY <1>1, <2>1, ActorStep
  <2>2. CASE v # w
    <3>1. Same(w)
      BY <1>1, <2>2, OthersStay
    <3>2. pc[w] \in Retrying /\ w \in Rows => SameAttempt(w)
      <4>1. ASSUME Requeue(w), w \in Rows PROVE FALSE
        BY <2>2, <3>1, <4>1 DEF Requeue, Goto, Same, Types
      <4> QED
        BY <4>1, RowsKept
    <3>3. w \in Rows => SameAttempt(w)
      <4>1. ~Requeue(w)
        BY <2>2, <3>1 DEF Requeue, Goto, Same, Types
      <4> QED
        BY <4>1, RowsKept
    <3> QED
      BY <1>0, <3>1, <3>3, ActorKept
  <2> QED
    BY <2>1, <2>2
<1>2. ASSUME NEW j \in Workers, Claim(j) PROVE Actor(w)'
  <2>1. CASE j = w
    <3>1. w \in Rows /\ pc'[w] = "start"
      BY <1>2, <2>1 DEF Claim, Goto, Types
    <3> QED
      BY <1>0, <3>1, ActorCalm
  <2>2. CASE j # w
    <3>1. Same(w) /\ ~Requeue(w)
      BY <1>2, <2>2 DEF Claim, Goto, Same, Types, Requeue
    <3> QED
      BY <1>0, <3>1, RowsKept, ActorKept
  <2> QED
    BY <2>1, <2>2
<1>3. ASSUME (\E j \in Workers : Reap(j)) \/ UNCHANGED vars PROVE Actor(w)'
  <2>1. Same(w)
    BY <1>3 DEF Reap, vars, workers, Same
  <2>2. ~Requeue(w)
    BY <2>1 DEF Requeue, Goto, Same, Types
  <2> QED
    BY <1>0, <2>1, <2>2, RowsKept, ActorKept
<1>4. ASSUME Crash PROVE Actor(w)'
  BY <1>4 DEF Crash, Idle, Actor, Dispatching, Merging, Retrying
<1> QED
  BY <1>1, <1>2, <1>3, <1>4 DEF Next, Failing

-----------------------------------------------------------------------------
(* The run state: what a worker read is current while its version is.      *)

ReadOK(w) ==
    pc[w] = "write" =>
        /\ read[w].version <= run.version
        /\ read[w].version = run.version => read[w].state = run.state
PatchIn(w) == pc[w] = "publish" => Mine(w) \in run.state

MergedInv ==
    /\ CompletedIsMerged
    /\ \A w \in Workers : ReadOK(w) /\ PatchIn(w)

(* A step leaves the run alone, or merges a patch into its last state.     *)
Merged(w) ==
    /\ run'.state = run.state \cup PatchOf(w)
    /\ run'.version = run.version + (IF routine[w] = "complete" THEN 1 ELSE 0)

(* The version that is still current stands for the state read with it.    *)
LEMMA MergeWriteMerges ==
    ASSUME Types, NEW w \in Workers, ReadOK(w), MergeWrite(w)
    PROVE  Merged(w)
<1>1. read[w].version = run.version /\ read[w].state = run.state
  BY DEF MergeWrite, Current, ReadOK
<1> QED
  BY <1>1 DEF MergeWrite, Merged

(* The run changes by such a merge only.                                   *)
LEMMA RunMoves ==
    ASSUME Types, \A w \in Workers : ReadOK(w), [Next]_vars
    PROVE  \/ run' = run
           \/ \E w \in Workers : MergeWrite(w) /\ Merged(w)
<1>1. ASSUME NEW w \in Workers, Step(w), ~MergeWrite(w) PROVE run' = run
  BY <1>1 DEF Step, MergeRead, MergeConflict, Join, Joined, End, Check, Reserve, PutNoop,
              PutJob, Enqueue, Start, Publish, TakeSnapshot, Finish, RetryRow, Requeue,
              FailTask, FailJob, tables
<1>2. ASSUME NEW w \in Workers, Failing(w) \/ Claim(w) \/ Reap(w) PROVE run' = run
  BY <1>2 DEF Failing, Fails, EnqueueFails, tables, Claim, Reap
<1>3. ASSUME Crash \/ UNCHANGED vars PROVE run' = run
  BY <1>3 DEF Crash, vars, tables
<1> QED
  BY <1>1, <1>2, <1>3, MergeWriteMerges DEF Next, Failing

(* The state and the version grow, and together.                           *)
LEMMA RunGrows ==
    ASSUME Types, \A w \in Workers : ReadOK(w), [Next]_vars
    PROVE  /\ run.state \subseteq run'.state /\ run.version <= run'.version
           /\ run'.version = run.version => run'.state = run.state
<1>1. run.version \in Nat
  BY DEF Types
<1>2. ASSUME NEW w \in Workers, Merged(w)
      PROVE  /\ run.state \subseteq run'.state /\ run.version <= run'.version
             /\ run'.version = run.version => run'.state = run.state
  BY <1>1, <1>2 DEF Merged, PatchOf
<1> QED
  BY <1>1, <1>2, RunMoves

(* A worker reads a current state, and publishes after its merge.          *)
LEMMA OwnMerged ==
    ASSUME Types, NEW w \in Workers, \A v \in Workers : Actor(v) /\ ReadOK(v),
           PatchIn(w), Step(w) \/ Failing(w)
    PROVE  ReadOK(w)' /\ PatchIn(w)'
<1>0. \A k \in Rows : Kept(k)
  BY RowsKept DEF Next, Failing
<1>1. CASE MergeRead(w)
  <2>1. pc'[w] = "write" /\ read'[w] = [version |-> run.version, state |-> run.state]
        /\ run' = run
    BY <1>1 DEF MergeRead, Goto, Types, tables
  <2> QED
    BY <2>1 DEF ReadOK, PatchIn, Types
<1>2. CASE MergeWrite(w)
  <2>1. pc'[w] = AfterMerge(routine[w]) /\ routine[w] \in Routines \ {"none"}
    BY <1>2 DEF MergeWrite, Goto, Types, Actor, Merging
  <2>2. pc'[w] # "write" /\ (pc'[w] = "publish" => routine[w] = "complete")
    BY <2>1 DEF AfterMerge, Routines
  <2>3. routine[w] = "complete" => Mine(w) \in run'.state
    BY <1>2, MergeWriteMerges DEF Merged, PatchOf
  <2>4. jobs' = jobs
    BY <1>2 DEF MergeWrite
  <2> QED
    BY <2>2, <2>3, <2>4 DEF ReadOK, PatchIn, Mine
<1>3. CASE ~MergeRead(w) /\ ~MergeWrite(w)
  <2>1. pc'[w] \notin {"write", "publish"}
    <3>1. CASE MergeConflict(w)
      <4>1. w \in Nat
        BY WorkersMany
      <4>2. Goto(w, "read") \/ Throw(w, FALSE)
        BY <3>1, Zenon DEF MergeConflict
      <4>3. CASE Throw(w, FALSE)
        BY <4>1, <4>3 DEF Throw, Goto, Types
      <4>4. CASE Goto(w, "read")
        BY <4>4 DEF Goto, Types
      <4> QED
        BY <4>2, <4>3, <4>4, Zenon
    <3>2. CASE Join(w) \/ Joined(w) \/ End(w) \/ Check(w) \/ Reserve(w)
      BY <3>2 DEF Join, Joined, End, Check, Reserve, Goto, Types, Merge, At
    <3>3. CASE PutNoop(w) \/ PutJob(w) \/ Enqueue(w) \/ TakeSnapshot(w)
      BY <3>3 DEF PutNoop, PutJob, Enqueue, TakeSnapshot, Goto, Types, Merge
    <3>4. CASE \/ Start(w) \/ Publish(w) \/ Finish(w) \/ RetryRow(w) \/ Requeue(w)
               \/ FailTask(w) \/ FailJob(w)
      BY <3>4 DEF Start, Publish, Finish, RetryRow, Requeue, FailTask, FailJob, Goto, Types,
                  Merge
    <3>5. CASE Failing(w)
      <4>1. PICK retryable \in {FALSE, w > 0} : Throw(w, retryable)
        BY <3>5 DEF Failing, Fails, EnqueueFails, Fault
      <4>2. w \in Nat
        BY WorkersMany
      <4> QED
        BY <4>1, <4>2 DEF Throw, Goto, Types
    <3> QED
      BY <1>3, <3>1, <3>2, <3>3, <3>4, <3>5 DEF Step
  <2> QED
    BY <2>1 DEF ReadOK, PatchIn
<1> QED
  BY <1>1, <1>2, <1>3

(* The step of another worker does not invalidate what a worker read.      *)
LEMMA OtherMerged ==
    ASSUME Types, NEW w \in Workers, Actor(w), ReadOK(w), PatchIn(w), Same(w),
           \A v \in Workers : ReadOK(v), [Next]_vars, \A k \in Rows : Kept(k)
    PROVE  ReadOK(w)' /\ PatchIn(w)'
<1>1. /\ run.state \subseteq run'.state /\ run.version <= run'.version
      /\ run'.version = run.version => run'.state = run.state
  BY RunGrows
<1>2. /\ run.version \in Nat /\ run'.version \in Int /\ read[w].version \in Nat
  <2>1. run'.version \in Int
    BY RunMoves DEF Merged, Types
  <2> QED
    BY <2>1 DEF Types, Reads
<1>3. pc[w] = "publish" => w \in Rows
  BY DEF Actor, Dispatching, Merging
<1> QED
  BY <1>1, <1>2, <1>3 DEF ReadOK, PatchIn, Same, Kept, Mine

(* Only the publication of a patched result and a noop complete a result.  *)
LEMMA CompletedStep ==
    ASSUME Types, \A v \in Workers : Actor(v) /\ ReadOK(v) /\ PatchIn(v),
           CompletedIsMerged, [Next]_vars
    PROVE  CompletedIsMerged'
<1> SUFFICES ASSUME NEW i \in Instances, result'[i] = "completed", i[1] \in JobTasks
             PROVE  i \in run'.state
  BY DEF CompletedIsMerged, Done
<1>1. run.state \subseteq run'.state
  BY RunGrows
<1>2. CASE result[i] = "completed"
  BY <1>1, <1>2 DEF CompletedIsMerged, Done
<1>3. CASE result[i] # "completed"
  <2>1. ASSUME NEW w \in Workers, Step(w), ~Publish(w) PROVE FALSE
    <3>1. CASE PutNoop(w)
      <4>1. i = Todo(w) /\ i[1] \in NoopTasks
        BY <1>3, <3>1 DEF PutNoop, SetResult, Types
      <4> QED
        BY <4>1, DefinitionAssumption
    <3>2. CASE Reserve(w) \/ PutJob(w) \/ Start(w) \/ RetryRow(w) \/ FailTask(w)
      BY <1>3, <3>2 DEF Reserve, PutJob, Start, RetryRow, FailTask, SetResult, Types
    <3>3. CASE \/ MergeRead(w) \/ MergeWrite(w) \/ MergeConflict(w) \/ Join(w) \/ Joined(w)
               \/ End(w) \/ Check(w) \/ Enqueue(w) \/ TakeSnapshot(w) \/ Finish(w)
               \/ Requeue(w) \/ FailJob(w)
      BY <1>3, <3>3 DEF MergeRead, MergeWrite, MergeConflict, Join, Joined, End, Check,
                        Enqueue, TakeSnapshot, Finish, Requeue, FailJob, tables
    <3> QED
      BY <2>1, <3>1, <3>2, <3>3 DEF Step
  <2>2. ASSUME NEW w \in Workers, Publish(w) PROVE i \in run'.state
    <3>1. i = Mine(w)
      BY <1>3, <2>2 DEF Publish, SetResult, Types
    <3> QED
      BY <1>1, <2>2, <3>1 DEF PatchIn, Publish
  <2>3. ASSUME NEW w \in Workers, Failing(w) \/ Claim(w) \/ Reap(w) PROVE FALSE
    BY <1>3, <2>3 DEF Failing, Fails, EnqueueFails, tables, Claim, Reap, SetResult, Types
  <2>4. ASSUME Crash \/ UNCHANGED vars PROVE FALSE
    BY <1>3, <2>4 DEF Crash, vars, tables
  <2> QED
    BY <2>1, <2>2, <2>3, <2>4 DEF Next, Failing
<1> QED
  BY <1>2, <1>3

(* Every step keeps the invariant of the merge.                            *)
LEMMA NextMerged ==
    ASSUME Types, \A w \in Workers : Actor(w), MergedInv, [Next]_vars
    PROVE  MergedInv'
<1>0. /\ \A k \in Rows : Kept(k)
      /\ \A w \in Workers : ReadOK(w) /\ PatchIn(w)
  BY RowsKept DEF MergedInv
<1>1. CompletedIsMerged'
  BY CompletedStep DEF MergedInv
<1>2. ASSUME NEW w \in Workers PROVE ReadOK(w)' /\ PatchIn(w)'
  <2>1. ASSUME NEW v \in Workers, Step(v) \/ Failing(v) PROVE ReadOK(w)' /\ PatchIn(w)'
    <3>1. CASE v = w
      BY <1>0, <2>1, <3>1, OwnMerged
    <3>2. CASE v # w
      <4>1. Same(w)
        BY <2>1, <3>2, OthersStay
      <4> QED
        BY <1>0, <4>1, OtherMerged
    <3> QED
      BY <3>1, <3>2
  <2>2. ASSUME NEW j \in Workers, Claim(j) PROVE ReadOK(w)' /\ PatchIn(w)'
    <3>1. CASE j = w
      <4>1. pc'[w] = "start"
        BY <2>2, <3>1 DEF Claim, Goto, Types
      <4> QED
        BY <4>1 DEF ReadOK, PatchIn
    <3>2. CASE j # w
      <4>1. Same(w)
        BY <2>2, <3>2 DEF Claim, Goto, Same, Types
      <4> QED
        BY <1>0, <4>1, OtherMerged
    <3> QED
      BY <3>1, <3>2
  <2>3. ASSUME (\E j \in Workers : Reap(j)) \/ UNCHANGED vars PROVE ReadOK(w)' /\ PatchIn(w)'
    <3>1. Same(w)
      BY <2>3 DEF Reap, vars, workers, Same
    <3> QED
      BY <1>0, <3>1, OtherMerged
  <2>4. ASSUME Crash PROVE ReadOK(w)' /\ PatchIn(w)'
    BY <2>4 DEF Crash, Idle, ReadOK, PatchIn
  <2> QED
    BY <2>1, <2>2, <2>3, <2>4 DEF Next, Failing
<1> QED
  BY <1>1, <1>2 DEF MergedInv

-----------------------------------------------------------------------------
(* What a join waits for, and the states it sees.                          *)

AllOf(t) == IF t.needs # {} THEN {Main(task) : task \in t.needs}
            ELSE {<<t.joined, x>> : x \in Items[inputs][t.over]}
Enough(t, awaited) == AllOf(t) \subseteq awaited \/ (awaited = {} /\ t.allowEmpty)
Sees(e, state) == e.awaited \subseteq state /\ Enough(Transitions[e.arrow], e.awaited)
Seen == {e \in Steps : e.ready /\ e.arrow # 0 => Sees(e, e.state)}
Gathered(w) == pc[w] = "joined" => Sees(Head(agenda[w]), run.state)

SeenInv ==
    /\ agenda \in [Workers -> Seq(Seen)]
    /\ \A w \in Workers : Gathered(w)

(* A plan has no join that was found ready.                                *)
LEMMA FreshSeen == Seq(Fresh) \subseteq Seq(Seen)
<1>1. Fresh \subseteq Seen
  BY DEF Fresh, Seen
<1> QED
  BY <1>1, SeqMonotonic

(* The inputs of a run do not change.                                      *)
LEMMA InputsStay == ASSUME [Next]_vars PROVE inputs' = inputs
<1>1. ASSUME NEW w \in Workers, Step(w) PROVE inputs' = inputs
  BY <1>1 DEF Step, MergeRead, MergeWrite, MergeConflict, Join, Joined, End, Check, Reserve,
              PutNoop, PutJob, Enqueue, Start, Publish, TakeSnapshot, Finish, RetryRow,
              Requeue, FailTask, FailJob, world
<1>2. ASSUME NEW w \in Workers, Failing(w) \/ Claim(w) \/ Reap(w) PROVE inputs' = inputs
  BY <1>2 DEF Failing, Fails, EnqueueFails, Fault, Claim, Reap, world
<1> QED
  BY <1>1, <1>2 DEF Next, Failing, Crash, vars, world

(* An agenda is left alone, dropped, made or headed by a plan, or its join *)
(* becomes ready.                                                          *)
Listed(w) == \E s \in Seq(Fresh) : agenda' = [agenda EXCEPT ![w] = s]
Headed(w) == agenda[w] # <<>> /\ \E s \in Seq(Fresh) : Replace(w, s)

(* These are the only ways an agenda changes.                              *)
LEMMA AgendaMoves ==
    ASSUME Types, \A w \in Workers : Actor(w), [Next]_vars
    PROVE  \/ agenda' = agenda
           \/ agenda' = [w \in Workers |-> <<>>]
           \/ \E w \in Workers : Listed(w) \/ Headed(w) \/ Joined(w)
<1>0. <<>> \in Seq(Fresh)
  BY EmptySeq
<1>1. ASSUME NEW w \in Workers, Step(w)
      PROVE  agenda' = agenda \/ Listed(w) \/ Headed(w) \/ Joined(w)
  <2>1. CASE MergeConflict(w)
    <3>1. agenda' = agenda \/ Throw(w, FALSE)
      BY <2>1, Zenon DEF MergeConflict
    <3>2. ASSUME Throw(w, FALSE) PROVE Listed(w)
      BY <1>0, <3>2 DEF Throw, Listed
    <3> QED
      BY <3>1, <3>2
  <2>2. CASE End(w) \/ Check(w)
    <3>1. agenda[w] # <<>> /\ (agenda' = agenda \/ Replace(w, <<>>))
      BY <2>2 DEF End, Check, At, Waiting
    <3> QED
      BY <1>0, <3>1 DEF Headed
  <2>3. CASE Reserve(w) \/ Enqueue(w)
    <3>1. agenda[w] # <<>> /\ (agenda' = agenda \/ Replace(w, <<>>))
      BY <2>3 DEF Reserve, Enqueue, Actor, Dispatching
    <3> QED
      BY <1>0, <3>1 DEF Headed
  <2>4. CASE PutNoop(w)
    <3>1. agenda[w] # <<>>
      BY <2>4 DEF PutNoop, Actor, Dispatching
    <3>2. Plan(From(Todo(w)[1]), Snapshot(w)) \in Seq(Fresh)
      BY <3>1, HeadType, PlanType DEF Types
    <3> QED
      BY <2>4, <3>1, <3>2 DEF PutNoop, Headed
  <2>5. CASE TakeSnapshot(w)
    <3>1. /\ Plan(From(Mine(w)[1]), run.state) \in Seq(Fresh)
          /\ Plan(Joins, run.state) \in Seq(Fresh)
      BY PlanType DEF Types
    <3>2. Plan(From(Mine(w)[1]), run.state) \o Plan(Joins, run.state) \in Seq(Fresh)
      BY <3>1, ConcatProperties
    <3> QED
      BY <2>5, <3>2 DEF TakeSnapshot, Listed
  <2>6. CASE \/ MergeRead(w) \/ MergeWrite(w) \/ PutJob(w) \/ Start(w) \/ Publish(w)
             \/ Finish(w) \/ RetryRow(w) \/ Requeue(w) \/ FailTask(w) \/ FailJob(w)
    BY <2>6 DEF MergeRead, MergeWrite, PutJob, Start, Publish, Finish, RetryRow, Requeue,
                FailTask, FailJob
  <2> QED
    BY <1>1, <2>1, <2>2, <2>3, <2>4, <2>5, <2>6, JoinMarks DEF Step, Headed
<1>2. ASSUME NEW w \in Workers, Failing(w) PROVE Listed(w)
  BY <1>0, <1>2 DEF Failing, Fails, EnqueueFails, Fault, Throw, Listed
<1>3. ASSUME NEW j \in Workers, Claim(j) \/ Reap(j) PROVE agenda' = agenda
  BY <1>3 DEF Claim, Reap, workers
<1>4. ASSUME Crash PROVE agenda' = [w \in Workers |-> <<>>]
  BY <1>4 DEF Crash
<1>5. ASSUME UNCHANGED vars PROVE agenda' = agenda
  BY <1>5 DEF vars, workers
<1> QED
  BY <1>1, <1>2, <1>3, <1>4, <1>5 DEF Next, Failing

(* A join that becomes ready sees what it waited for.                      *)
LEMMA JoinedSees ==
    ASSUME Types, NEW w \in Workers, Actor(w), Gathered(w), Joined(w)
    PROVE  \E e \in Seen : Replace(w, <<e>>)
<1> DEFINE e == [Head(agenda[w]) EXCEPT !.ready = TRUE, !.state = JoinState(w)]
<1>1. agenda[w] # <<>> /\ Waiting(w) /\ Tr(w).type = "join"
  BY DEF Joined, Actor, Waiting
<1>2. /\ Head(agenda[w]) \in Steps /\ Head(agenda[w]).arrow \in Ids
      /\ Head(agenda[w]).task = Main(Tr(w).to)
  BY <1>1, HeadType DEF Todo
<1>3. Main(Tr(w).to) \in Instances
  <2>1. Tr(w).to \in Tasks
    BY <1>1, <1>2, DefinitionAssumption DEF Tr
  <2> QED
    BY <2>1 DEF Instances
<1>4. /\ e \in Steps /\ e.state = run.state
      /\ e.arrow = Head(agenda[w]).arrow /\ e.awaited = Head(agenda[w]).awaited
  BY <1>2, <1>3 DEF Steps, JoinState, Types
<1>5. Sees(Head(agenda[w]), run.state)
  BY DEF Gathered, Joined
<1> HIDE DEF e
<1>6. e \in Seen
  BY <1>4, <1>5 DEF Seen, Sees
<1> USE DEF e
<1> QED
  BY <1>6 DEF Joined

(* A ready join finds the patches of all it waits for.                     *)
LEMMA ReadyGathers ==
    ASSUME Types, CompletedIsMerged, NEW n \in Ids, NEW state,
           Transitions[n].type = "join", Ready(Transitions[n], state)
    PROVE  /\ Awaited(Transitions[n], state) \subseteq run.state
           /\ Enough(Transitions[n], Awaited(Transitions[n], state))
<1> DEFINE t == Transitions[n]
<1>1. CASE Awaited(t, state) = {}
  BY <1>1 DEF Ready, Enough
<1>2. CASE Awaited(t, state) # {}
  <2>1. \A i \in Awaited(t, state) : Done(i) /\ i \in Instances /\ i[1] \in JobTasks
    BY <1>2, AwaitedType DEF Ready, Types
  <2>2. Awaited(t, state) \subseteq run.state
    BY <2>1 DEF CompletedIsMerged
  <2>3. AllOf(t) \subseteq Awaited(t, state)
    <3>1. CASE t.needs # {}
      BY <3>1 DEF AllOf, Awaited
    <3>2. CASE t.needs = {}
      <4>1. ArrayAt(t.over, state) = Items[inputs][t.over]
        BY <1>2, <3>2 DEF Awaited, Expected, ArrayAt
      <4> QED
        BY <3>2, <4>1 DEF AllOf, Awaited, Expected
    <3> QED
      BY <3>1, <3>2
  <2> QED
    BY <2>2, <2>3 DEF Enough
<1> QED
  BY <1>1, <1>2

(* Every step keeps what the joins have seen.                              *)
LEMMA NextSeen ==
    ASSUME Types, \A w \in Workers : Actor(w), MergedInv, SeenInv, [Next]_vars
    PROVE  SeenInv'
<1>0. inputs' = inputs /\ Seen' = Seen
  BY InputsStay DEF Seen, Sees, Enough, AllOf
<1>1. agenda' \in [Workers -> Seq(Seen)]
  <2>1. ASSUME NEW w \in Workers, NEW s \in Seq(Seen), agenda[w] # <<>>, Replace(w, s)
        PROVE  agenda' \in [Workers -> Seq(Seen)]
    <3>1. agenda[w] \in Seq(Seen)
      BY DEF SeenInv
    <3>2. Tail(agenda[w]) \in Seq(Seen)
      BY <2>1, <3>1, HeadTail
    <3>3. s \o Tail(agenda[w]) \in Seq(Seen)
      BY <3>2, ConcatProperties
    <3> QED
      BY <2>1, <3>3 DEF Replace, SeenInv
  <2>2. ASSUME NEW w \in Workers, Listed(w) PROVE agenda' \in [Workers -> Seq(Seen)]
    BY <2>2, FreshSeen DEF Listed, SeenInv
  <2>3. ASSUME NEW w \in Workers, Headed(w) PROVE agenda' \in [Workers -> Seq(Seen)]
    BY <2>1, <2>3, FreshSeen DEF Headed
  <2>4. ASSUME NEW w \in Workers, Joined(w) PROVE agenda' \in [Workers -> Seq(Seen)]
    <3>1. agenda[w] # <<>>
      BY <2>4 DEF Joined, Actor, Waiting
    <3>2. PICK e \in Seen : Replace(w, <<e>>)
      BY <2>4, JoinedSees DEF SeenInv
    <3>3. <<e>> \in Seq(Seen)
      OBVIOUS
    <3> QED
      BY <2>1, <3>1, <3>2, <3>3
  <2>5. ASSUME agenda' = [w \in Workers |-> <<>>] PROVE agenda' \in [Workers -> Seq(Seen)]
    BY <2>5, EmptySeq
  <2> QED
    BY <2>2, <2>3, <2>4, <2>5, AgendaMoves DEF SeenInv
<1>2. ASSUME NEW w \in Workers PROVE Gathered(w)'
  <2>0. run.state \subseteq run'.state
    BY RunGrows DEF MergedInv
  <2>1. ASSUME Same(w) PROVE Gathered(w)'
    <3>1. pc'[w] = pc[w] /\ agenda'[w] = agenda[w]
      BY <2>1 DEF Same
    <3>2. pc[w] = "joined" => Sees(Head(agenda[w]), run'.state)
      BY <2>0 DEF SeenInv, Gathered, Sees
    <3> QED
      BY <1>0, <3>1, <3>2 DEF Gathered, Sees, Enough, AllOf
  <2>2. ASSUME Join(w) PROVE Gathered(w)'
    <3>1. CASE Ready(Tr(w), Snapshot(w))
      <4> DEFINE A == Awaited(Tr(w), Snapshot(w))
      <4>1. /\ Waiting(w) /\ Tr(w).type = "join" /\ run' = run
            /\ Replace(w, <<[Head(agenda[w]) EXCEPT !.awaited = A]>>)
        BY <2>2, <3>1 DEF Join, At, tables
      <4>2. Head(agenda[w]).arrow \in Ids
        BY <4>1, HeadType DEF Waiting
      <4>3. A \subseteq run.state /\ Enough(Tr(w), A)
        BY <3>1, <4>1, <4>2, ReadyGathers DEF Tr, MergedInv
      <4>4. Tr(w)' = Tr(w) /\ Head(agenda'[w]).awaited = A
        <5> HIDE DEF A
        <5> QED
          BY <4>1, MarkedHead
      <4> HIDE DEF A
      <4>5. Sees(Head(agenda'[w]), run'.state)
        BY <4>1, <4>3, <4>4 DEF Sees, Tr
      <4>6. Sees(Head(agenda[w]), run.state)'
        BY <1>0, <4>5 DEF Sees, Enough, AllOf
      <4> QED
        BY <4>6 DEF Gathered
    <3>2. CASE ~Ready(Tr(w), Snapshot(w))
      BY <2>2, <3>2 DEF Join, At, Gathered
    <3> QED
      BY <3>1, <3>2
  <2>3. ASSUME Step(w) \/ Failing(w), ~Join(w) PROVE Gathered(w)'
    <3>1. pc'[w] # "joined"
      <4>1. CASE MergeRead(w) \/ Joined(w) \/ End(w) \/ Check(w) \/ Reserve(w)
        BY <4>1 DEF MergeRead, Joined, End, Check, Reserve, Goto, Types, Merge, At
      <4>2. CASE MergeWrite(w)
        <5>1. pc'[w] = AfterMerge(routine[w]) /\ routine[w] \in Routines \ {"none"}
          BY <4>2 DEF MergeWrite, Goto, Types, Actor, Merging
        <5> QED
          BY <5>1 DEF AfterMerge, Routines
      <4>3. CASE MergeConflict(w)
        <5>1. Goto(w, "read") \/ Throw(w, FALSE)
          BY <4>3, Zenon DEF MergeConflict
        <5>2. CASE Throw(w, FALSE)
          BY <5>2, WorkersMany DEF Throw, Goto, Types
        <5>3. CASE Goto(w, "read")
          BY <5>3 DEF Goto, Types
        <5> QED
          BY <5>1, <5>2, <5>3, Zenon
      <4>4. CASE PutNoop(w) \/ PutJob(w) \/ Enqueue(w) \/ TakeSnapshot(w)
        BY <4>4 DEF PutNoop, PutJob, Enqueue, TakeSnapshot, Goto, Types, Merge
      <4>5. CASE \/ Start(w) \/ Publish(w) \/ Finish(w) \/ RetryRow(w) \/ Requeue(w)
                 \/ FailTask(w) \/ FailJob(w)
        BY <4>5 DEF Start, Publish, Finish, RetryRow, Requeue, FailTask, FailJob, Goto,
                    Types, Merge
      <4>6. CASE Failing(w)
        <5>1. PICK retryable \in {FALSE, w > 0} : Throw(w, retryable)
          BY <4>6 DEF Failing, Fails, EnqueueFails, Fault
        <5> QED
          BY <5>1, WorkersMany DEF Throw, Goto, Types
      <4> QED
        BY <2>3, <4>1, <4>2, <4>3, <4>4, <4>5, <4>6 DEF Step
    <3> QED
      BY <3>1 DEF Gathered
  <2>4. ASSUME NEW v \in Workers, Step(v) \/ Failing(v), v # w PROVE Gathered(w)'
    BY <2>1, <2>4, OthersStay
  <2>5. ASSUME NEW j \in Workers, Claim(j) \/ Reap(j) PROVE Gathered(w)'
    <3>1. pc'[w] = pc[w] \/ pc'[w] = "start"
      BY <2>5 DEF Claim, Reap, Goto, Types, workers
    <3>2. CASE pc'[w] = pc[w]
      <4>1. Same(w)
        BY <2>5, <3>2 DEF Claim, Reap, Same, workers
      <4> QED
        BY <2>1, <4>1
    <3> QED
      BY <3>1, <3>2 DEF Gathered
  <2>6. ASSUME Crash \/ UNCHANGED vars PROVE Gathered(w)'
    <3>1. CASE Crash
      BY <3>1 DEF Crash, Idle, Gathered
    <3>2. CASE UNCHANGED vars
      BY <2>1, <3>2 DEF vars, workers, Same
    <3> QED
      BY <2>6, <3>1, <3>2
  <2> QED
    BY <2>2, <2>3, <2>4, <2>5, <2>6 DEF Next, Failing
<1> QED
  BY <1>0, <1>1, <1>2 DEF SeenInv

(* What a join has seen is what JoinSeesAll asks for.                      *)
LEMMA SeenJoinSeesAll ==
    ASSUME Types, \A w \in Workers : Actor(w), SeenInv
    PROVE  JoinSeesAll
<1> SUFFICES ASSUME NEW w \in Workers, pc[w] \in {"put", "enqueue"},
                    Head(agenda[w]).arrow # 0
             PROVE  LET awaited == Head(agenda[w]).awaited IN
                    /\ awaited \subseteq Snapshot(w)
                    /\ \/ Awaited(Tr(w), Snapshot(w)) \subseteq awaited
                       \/ awaited = {} /\ Tr(w).allowEmpty
  BY DEF JoinSeesAll
<1>1. agenda[w] # <<>> /\ Head(agenda[w]).ready /\ agenda[w] \in Seq(Seen)
  BY DEF Actor, Dispatching, SeenInv
<1>2. Head(agenda[w]) \in Seen
  BY <1>1, HeadTail
<1>3. Sees(Head(agenda[w]), Snapshot(w))
  BY <1>1, <1>2 DEF Seen, Snapshot
<1>4. Awaited(Tr(w), Snapshot(w)) \subseteq AllOf(Tr(w))
  BY DEF Awaited, AllOf, Expected, ArrayAt
<1> QED
  BY <1>3, <1>4 DEF Sees, Enough, Tr

-----------------------------------------------------------------------------
(* Who executes an instance: one worker that dispatches it, or one job.    *)

Holds(w, i) == pc[w] \in {"put", "enqueue"} /\ Todo(w) = i
HasRow(i) == \E k \in Rows : jobs[k].task = i

Unique(i) ==
    /\ result[i] # "failed"
    /\ HasRow(i) \/ (\E w \in Workers : Holds(w, i)) => result[i] # "none"
    /\ \A j, k \in Rows : jobs[j].task = i /\ jobs[k].task = i => j = k
    /\ \A w, v \in Workers : Holds(w, i) /\ Holds(v, i) => w = v
    /\ \A w \in Workers : Holds(w, i) => ~HasRow(i)
UniqueInv == \A i \in Instances \ broken : Unique(i)

NoNewHolder(i) == \A w \in Workers : Holds(w, i)' => Holds(w, i)
SameRows == Rows' = Rows /\ \A k \in Rows : jobs'[k].task = jobs[k].task
ResultOK(i) == result'[i] # "failed" /\ (result[i] # "none" => result'[i] # "none")

(* A step without a new holder or row keeps an instance unique.            *)
LEMMA UniqueCalm ==
    ASSUME NEW i, Unique(i), ResultOK(i), NoNewHolder(i), SameRows
    PROVE  Unique(i)'
<1>1. HasRow(i)' => HasRow(i)
  BY DEF HasRow, SameRows
<1>2. result'[i] # "failed"
  BY DEF ResultOK
<1>3. HasRow(i)' \/ (\E w \in Workers : Holds(w, i)') => result'[i] # "none"
  BY <1>1 DEF Unique, ResultOK, NoNewHolder
<1>4. ASSUME NEW j \in Rows', NEW k \in Rows', jobs'[j].task = i, jobs'[k].task = i
      PROVE  j = k
  BY <1>4 DEF Unique, SameRows
<1>5. ASSUME NEW w \in Workers, NEW v \in Workers, Holds(w, i)', Holds(v, i)' PROVE w = v
  BY <1>5 DEF Unique, NoNewHolder
<1>6. ASSUME NEW w \in Workers, Holds(w, i)' PROVE ~HasRow(i)'
  BY <1>1, <1>6 DEF Unique, NoNewHolder
<1> QED
  BY <1>2, <1>3, <1>4, <1>5, <1>6 DEF Unique

(* What is broken stays broken.                                            *)
LEMMA BrokenGrows == ASSUME [Next]_vars PROVE broken \subseteq broken'
<1>1. ASSUME NEW w \in Workers, Step(w), ~FailTask(w) PROVE broken' = broken
  BY <1>1 DEF Step, MergeRead, MergeWrite, MergeConflict, Join, Joined, End, Check, Reserve,
              PutNoop, PutJob, Enqueue, Start, Publish, TakeSnapshot, Finish, RetryRow, Requeue,
              FailJob
<1>2. ASSUME NEW w \in Workers, FailTask(w) \/ Failing(w) PROVE broken \subseteq broken'
  BY <1>2 DEF FailTask, Failing, Fails, EnqueueFails
<1>3. ASSUME NEW w \in Workers, Claim(w) \/ Reap(w) PROVE broken' = broken
  BY <1>3 DEF Claim, Reap
<1> QED
  BY <1>1, <1>2, <1>3 DEF Next, Failing, Crash, vars

(* Only an instance that is broken gets a failed result, and no result is  *)
(* removed.                                                                *)
LEMMA ResultMoves ==
    ASSUME Types, \A w \in Workers : Actor(w), [Next]_vars,
           NEW i \in Instances \ broken', result[i] # "failed"
    PROVE  ResultOK(i)
<1>1. ASSUME NEW w \in Workers, Step(w) PROVE ResultOK(i)
  <2>1. CASE Reserve(w) \/ PutNoop(w) \/ PutJob(w) \/ Start(w) \/ Publish(w) \/ RetryRow(w)
    BY <2>1 DEF Reserve, PutNoop, PutJob, Start, Publish, RetryRow, SetResult, ResultOK, Types
  <2>2. CASE FailTask(w)
    BY <2>2 DEF FailTask, SetResult, ResultOK, Types
  <2>3. CASE \/ MergeRead(w) \/ MergeWrite(w) \/ MergeConflict(w) \/ Join(w) \/ Joined(w)
             \/ End(w) \/ Check(w) \/ Enqueue(w) \/ TakeSnapshot(w) \/ Finish(w)
             \/ Requeue(w) \/ FailJob(w)
    BY <2>3 DEF MergeRead, MergeWrite, MergeConflict, Join, Joined, End, Check, Enqueue,
                TakeSnapshot, Finish, Requeue, FailJob, tables, ResultOK
  <2> QED
    BY <1>1, <2>1, <2>2, <2>3 DEF Step
<1>2. ASSUME NEW w \in Workers, Failing(w) PROVE ResultOK(i)
  BY <1>2 DEF Failing, Fails, EnqueueFails, tables, SetResult, ResultOK, Types
<1>3. ASSUME NEW w \in Workers, Claim(w) \/ Reap(w) PROVE ResultOK(i)
  BY <1>3 DEF Claim, Reap, ResultOK
<1>4. ASSUME Crash \/ UNCHANGED vars PROVE ResultOK(i)
  BY <1>4 DEF Crash, vars, tables, ResultOK
<1> QED
  BY <1>1, <1>2, <1>3, <1>4 DEF Next, Failing

(* Only an enqueue adds a row, also one that fails after its insert.       *)
LEMMA RowsOnlyByEnqueue ==
    ASSUME Types, \A w \in Workers : Actor(w), [Next]_vars,
           ~\E w \in Workers : Adds(w)
    PROVE  SameRows
<1>0. jobs \in Seq(JobRecords) /\ Rows = 1..Len(jobs)
  BY LenProperties DEF Types, Rows
<1>1. ASSUME NEW k \in Rows PROVE jobs'[k].task = jobs[k].task
  BY <1>1, RowsKept DEF Kept
<1>2. Rows' = Rows
  <2>1. ASSUME NEW w \in Workers, Step(w) PROVE Rows' = Rows
    <3>1. CASE Finish(w) \/ FailJob(w) \/ Requeue(w)
      BY <3>1 DEF Finish, FailJob, Requeue, SetJob, Rows
    <3>2. CASE \/ MergeRead(w) \/ MergeWrite(w) \/ MergeConflict(w) \/ Join(w) \/ Joined(w)
               \/ End(w) \/ Check(w) \/ Reserve(w) \/ PutNoop(w) \/ PutJob(w)
               \/ Start(w) \/ Publish(w) \/ TakeSnapshot(w) \/ RetryRow(w) \/ FailTask(w)
      BY <3>2 DEF MergeRead, MergeWrite, MergeConflict, Join, Joined, End, Check, Reserve,
                  PutNoop, PutJob, Start, Publish, TakeSnapshot, RetryRow, FailTask, tables,
                  Rows
    <3> QED
      BY <2>1, <3>1, <3>2 DEF Step, Adds, Enqueue
  <2>2. ASSUME NEW w \in Workers, Failing(w) \/ Claim(w) \/ Reap(w) PROVE Rows' = Rows
    BY <2>2 DEF Failing, Fails, EnqueueFails, Adds, tables, Claim, Reap, SetJob, Rows
  <2>3. ASSUME Crash \/ UNCHANGED vars PROVE Rows' = Rows
    BY <2>3 DEF Crash, vars, tables, Rows
  <2> QED
    BY <2>1, <2>2, <2>3 DEF Next, Failing
<1> QED
  BY <1>1, <1>2 DEF SameRows

(* A worker comes to dispatch an instance by reserving it, or because its  *)
(* result has failed.                                                      *)
LEMMA HolderMoves ==
    ASSUME Types, \A w \in Workers : Actor(w), [Next]_vars,
           NEW i \in Instances, result[i] # "failed"
    PROVE  NoNewHolder(i) \/ \E w \in Workers : Reserve(w) /\ Todo(w) = i /\ result[i] = "none"
<1>0. ASSUME NEW v \in Workers, Same(v) PROVE Holds(v, i)' => Holds(v, i)
  BY <1>0 DEF Same, Holds, Todo
<1>1. ASSUME NEW w \in Workers, Step(w) \/ Failing(w)
      PROVE  NoNewHolder(i) \/ (Reserve(w) /\ Todo(w) = i /\ result[i] = "none")
  <2>1. ASSUME Holds(w, i)' => Holds(w, i) PROVE NoNewHolder(i)
    BY <1>0, <1>1, <2>1, OthersStay DEF NoNewHolder
  <2>2. ASSUME pc'[w] \notin {"put", "enqueue"} PROVE NoNewHolder(i)
    BY <2>1, <2>2 DEF Holds
  <2>3. CASE MergeRead(w) \/ Join(w) \/ Joined(w) \/ End(w)
    BY <2>2, <2>3 DEF MergeRead, Join, Joined, End, Goto, Types, Merge, At
  <2>4. CASE MergeWrite(w)
    <3>1. pc'[w] = AfterMerge(routine[w]) /\ routine[w] \in Routines \ {"none"}
      BY <2>4 DEF MergeWrite, Goto, Types, Actor, Merging
    <3> QED
      BY <2>2, <3>1 DEF AfterMerge, Routines
  <2>5. CASE MergeConflict(w)
    <3>1. Goto(w, "read") \/ Throw(w, FALSE)
      BY <2>5, Zenon DEF MergeConflict
    <3>2. CASE Throw(w, FALSE)
      BY <2>2, <3>2, WorkersMany DEF Throw, Goto, Types
    <3>3. CASE Goto(w, "read")
      BY <2>2, <3>3 DEF Goto, Types
    <3> QED
      BY <3>1, <3>2, <3>3, Zenon
  <2>6. CASE Check(w)
    <3>1. CASE result[Todo(w)] \notin {"none", "failed"} /\ UNCHANGED pc
      BY <2>2, <2>6, <3>1 DEF Check
    <3>2. CASE Goto(w, "reserve")
      BY <2>2, <3>2 DEF Goto, Types
    <3>3. CASE result[Todo(w)] = "failed" /\ UNCHANGED agenda
      <4>1. Todo(w) # i /\ Todo(w)' = Todo(w)
        BY <3>3 DEF Todo
      <4> QED
        BY <2>1, <4>1 DEF Holds
    <3> QED
      BY <2>6, <3>1, <3>2, <3>3 DEF Check
  <2>7. CASE Reserve(w)
    <3>1. CASE Free(Todo(w)) /\ UNCHANGED agenda
      <4>1. Todo(w)' = Todo(w)
        BY <3>1 DEF Todo
      <4>2. CASE Todo(w) = i
        BY <2>7, <3>1, <4>2 DEF Free
      <4>3. CASE Todo(w) # i
        BY <2>1, <4>1, <4>3 DEF Holds
      <4> QED
        BY <4>2, <4>3
    <3>2. CASE Goto(w, "dispatch")
      BY <2>2, <3>2 DEF Goto, Types
    <3> QED
      BY <2>7, <3>1, <3>2 DEF Reserve
  <2>8. CASE PutJob(w)
    <3>1. Holds(w, i)' => Holds(w, i)
      BY <2>8 DEF PutJob, Holds, Todo
    <3> QED
      BY <2>1, <3>1
  <2>9. CASE PutNoop(w) \/ Enqueue(w) \/ TakeSnapshot(w)
    BY <2>2, <2>9 DEF PutNoop, Enqueue, TakeSnapshot, Goto, Types, Merge
  <2>10. CASE \/ Start(w) \/ Publish(w) \/ Finish(w) \/ RetryRow(w) \/ Requeue(w)
              \/ FailTask(w) \/ FailJob(w)
    BY <2>2, <2>10 DEF Start, Publish, Finish, RetryRow, Requeue, FailTask, FailJob, Goto,
                       Types, Merge
  <2>11. CASE Failing(w)
    <3>1. PICK retryable \in {FALSE, w > 0} : Throw(w, retryable)
      BY <2>11 DEF Failing, Fails, EnqueueFails, Fault
    <3> QED
      BY <2>2, <3>1, WorkersMany DEF Throw, Goto, Types
  <2> QED
    BY <1>1, <2>3, <2>4, <2>5, <2>6, <2>7, <2>8, <2>9, <2>10, <2>11 DEF Step
<1>2. ASSUME NEW j \in Workers, Claim(j) \/ Reap(j) PROVE NoNewHolder(i)
  BY <1>2 DEF Claim, Reap, Goto, Types, workers, NoNewHolder, Holds, Todo
<1>3. ASSUME Crash PROVE NoNewHolder(i)
  BY <1>3 DEF Crash, Idle, NoNewHolder, Holds
<1>4. ASSUME UNCHANGED vars PROVE NoNewHolder(i)
  BY <1>4 DEF vars, workers, NoNewHolder, Holds, Todo
<1> QED
  BY <1>1, <1>2, <1>3, <1>4 DEF Next, Failing

(* A reservation makes the only holder of an instance without a row.       *)
LEMMA UniqueReserve ==
    ASSUME Types, NEW i \in Instances, Unique(i), SameRows, NEW w \in Workers,
           Reserve(w), Todo(w) = i, result[i] = "none"
    PROVE  Unique(i)'
<1>1. result'[i] = "pending"
  BY DEF Reserve, Free, SetResult, Types
<1>2. ~HasRow(i) /\ \A v \in Workers : ~Holds(v, i)
  BY DEF Unique
<1>3. ~HasRow(i)'
  BY <1>2 DEF HasRow, SameRows
<1>4. ASSUME NEW v \in Workers, v # w PROVE ~Holds(v, i)'
  <2>1. Same(v)
    BY <1>4, OthersStay DEF Step
  <2> QED
    BY <1>2, <2>1 DEF Holds, Same, Todo
<1>5. \A j, k \in Rows' : jobs'[j].task = i /\ jobs'[k].task = i => j = k
  BY <1>3 DEF HasRow
<1> QED
  BY <1>1, <1>3, <1>4, <1>5 DEF Unique

(* An enqueue turns the only holder into the only row.                     *)
LEMMA UniqueEnqueue ==
    ASSUME Types, \A v \in Workers : Actor(v), NEW i \in Instances \ broken', Unique(i),
           ResultOK(i), NEW w \in Workers, Adds(w)
    PROVE  Unique(i)'
<1> DEFINE r == [task |-> Todo(w), status |-> "pending", attempt |-> 0, redelivered |-> 0]
<1>1. r \in JobRecords
  BY AddsType
<1>2. /\ jobs \in Seq(JobRecords) /\ Len(jobs) \in Nat
      /\ Rows = 1..Len(jobs) /\ Rows' = 1..(Len(jobs) + 1)
      /\ \A k \in Rows : jobs'[k].task = jobs[k].task
      /\ jobs'[Len(jobs) + 1].task = Todo(w)
  <2>1. jobs' = Append(jobs, r) /\ r.task = Todo(w)
    BY DEF Adds, Insert
  <2> HIDE DEF r
  <2> QED
    BY <1>1, <2>1, AppendProperties, LenProperties DEF Types, Rows
<1>3. ASSUME NEW v \in Workers PROVE Holds(v, i)' => Holds(v, i) /\ v # w
  <2>1. pc'[w] \notin {"put", "enqueue"}
    <3>1. CASE Enqueue(w)
      BY <3>1 DEF Enqueue, Merge, Goto, Types
    <3>2. CASE EnqueueFails(w)
      <4>1. PICK retryable \in {FALSE, w > 0} : Throw(w, retryable)
        BY <3>2 DEF EnqueueFails, Fault
      <4> QED
        BY <4>1, WorkersMany DEF Throw, Goto, Types
    <3> QED
      BY <3>1, <3>2 DEF Adds
  <2>2. ASSUME v # w PROVE Same(v)
    BY <2>2, OthersStay DEF Step, Adds, Failing
  <2> QED
    BY <2>1, <2>2 DEF Holds, Same, Todo
<1>5. CASE Todo(w) = i
  <2>1. Holds(w, i)
    BY <1>5 DEF Holds, Adds, Enqueue, EnqueueFails
  <2>2. ~HasRow(i) /\ result[i] \notin {"none", "failed"}
    BY <2>1 DEF Unique
  <2>3. \A v \in Workers : ~Holds(v, i)'
    BY <1>3, <2>1 DEF Unique
  <2>4. \A k \in Rows' : jobs'[k].task = i => k = Len(jobs) + 1
    BY <1>2, <2>2 DEF HasRow
  <2> QED
    BY <2>2, <2>3, <2>4 DEF Unique, ResultOK
<1>6. CASE Todo(w) # i
  <2>1. HasRow(i)' => HasRow(i)
    BY <1>2, <1>6 DEF HasRow
  <2>2. \A k \in Rows' : jobs'[k].task = i => k \in Rows
    BY <1>2, <1>6
  <2>3. ASSUME NEW j \in Rows', NEW k \in Rows', jobs'[j].task = i, jobs'[k].task = i
        PROVE  j = k
    BY <1>2, <2>2, <2>3 DEF Unique
  <2>4. result'[i] # "failed"
        /\ (HasRow(i)' \/ (\E v \in Workers : Holds(v, i)') => result'[i] # "none")
    BY <1>3, <2>1 DEF Unique, ResultOK
  <2>5. ASSUME NEW u \in Workers, NEW v \in Workers, Holds(u, i)', Holds(v, i)' PROVE u = v
    BY <1>3, <2>5 DEF Unique
  <2>6. ASSUME NEW u \in Workers, Holds(u, i)' PROVE ~HasRow(i)'
    BY <1>3, <2>1, <2>6 DEF Unique
  <2> QED
    BY <2>3, <2>4, <2>5, <2>6 DEF Unique
<1> QED
  BY <1>5, <1>6

(* Every step keeps the instances unique.                                  *)
LEMMA NextUnique ==
    ASSUME Types, \A w \in Workers : Actor(w), UniqueInv, [Next]_vars
    PROVE  UniqueInv'
<1> SUFFICES ASSUME NEW i \in Instances \ broken' PROVE Unique(i)'
  BY DEF UniqueInv
<1>1. Unique(i)
  BY BrokenGrows DEF UniqueInv
<1>2. ResultOK(i)
  BY <1>1, ResultMoves DEF Unique
<1>3. ASSUME NEW w \in Workers, Adds(w) PROVE Unique(i)'
  BY <1>1, <1>2, <1>3, UniqueEnqueue
<1>4. CASE ~\E w \in Workers : Adds(w)
  <2>1. SameRows
    BY <1>4, RowsOnlyByEnqueue
  <2>2. CASE NoNewHolder(i)
    BY <1>1, <1>2, <2>1, <2>2, UniqueCalm
  <2>3. CASE \E w \in Workers : Reserve(w) /\ Todo(w) = i /\ result[i] = "none"
    BY <1>1, <2>1, <2>3, UniqueReserve
  <2> QED
    BY <1>1, <2>2, <2>3, HolderMoves DEF Unique
<1> QED
  BY <1>3, <1>4

(* A unique instance has one job.                                          *)
LEMMA UniqueOneJob ==
    ASSUME Types, UniqueInv
    PROVE  OneJob
<1> SUFFICES ASSUME NEW j \in Rows, NEW k \in Rows, j # k, jobs[j].task = jobs[k].task,
                    jobs[j].task \notin broken
             PROVE  FALSE
  BY DEF OneJob
<1>1. jobs[j].task \in Instances
  BY MineType DEF Mine
<1> QED
  BY <1>1 DEF UniqueInv, Unique

-----------------------------------------------------------------------------
(* The rows of the queue, and the version of the state while nothing has   *)
(* gone wrong.                                                             *)

Proc(k) == k \in Rows /\ jobs[k].status = "processing"
Before(w) == pc[w] = "start" \/ (pc[w] \in Merging /\ routine[w] \in {"start", "complete"})

CalmWorker(w) ==
    /\ pc[w] \notin {"retry", "requeue", "fail", "close"} /\ routine[w] # "fail"
    /\ w # 0 => (pc[w] # "idle" <=> Proc(w))
    /\ Before(w) => Mine(w) \notin run.state
CalmRow(k) == jobs[k].status = "pending" => jobs[k].task \notin run.state

(* A row keeps its status, or its worker or the queue moves it, or it is   *)
(* new and pending.                                                        *)
SameStatus(k) == k \in Rows /\ jobs'[k].status = jobs[k].status
Ended(k) == Reap(k) \/ Finish(k) \/ FailJob(k) \/ Requeue(k)
Enqueued(k) == /\ k \notin Rows /\ jobs'[k].status = "pending"
               /\ \E w \in Workers : Adds(w) /\ jobs'[k].task = Todo(w)

(* These are the only ways the status of a row changes.                    *)
LEMMA RowMoves ==
    ASSUME Types, \A w \in Workers : Actor(w), [Next]_vars, NEW k \in Rows'
    PROVE  \/ SameStatus(k)
           \/ k \in Workers /\ Claim(k)
           \/ k \in Workers /\ Ended(k) /\ jobs'[k].status # "processing"
           \/ Enqueued(k)
<1>0. jobs \in Seq(JobRecords) /\ Len(jobs) \in Nat /\ Rows = 1..Len(jobs)
  BY LenProperties DEF Types, Rows
<1>1. ASSUME jobs' = jobs PROVE SameStatus(k)
  BY <1>1 DEF SameStatus, Rows
<1>2. ASSUME NEW j \in Rows, NEW s, SetJob(j, s)
      PROVE  IF k = j THEN jobs'[k].status = s ELSE SameStatus(k)
  <2>1. Rows' = Rows /\ jobs[j] \in JobRecords
    BY <1>2, MineType DEF SetJob, Rows
  <2> QED
    BY <1>0, <1>2, <2>1 DEF SetJob, SameStatus, JobRecords
<1>3. ASSUME NEW w \in Workers, Adds(w) PROVE SameStatus(k) \/ Enqueued(k)
  <2> DEFINE r == [task |-> Todo(w), status |-> "pending", attempt |-> 0, redelivered |-> 0]
  <2>1. r \in JobRecords
    BY <1>3, AddsType
  <2>2. jobs' = Append(jobs, r) /\ r.task = Todo(w) /\ r.status = "pending"
    BY <1>3 DEF Adds, Insert
  <2> HIDE DEF r
  <2>3. /\ Rows' = 1..(Len(jobs) + 1) /\ jobs'[Len(jobs) + 1] = r
        /\ \A j \in Rows : jobs'[j] = jobs[j]
    BY <1>0, <2>1, <2>2, AppendProperties, LenProperties DEF Rows
  <2>4. CASE k \in Rows
    BY <2>3, <2>4 DEF SameStatus
  <2>5. CASE k \notin Rows
    <3>1. k = Len(jobs) + 1
      BY <1>0, <2>3, <2>5
    <3> QED
      BY <1>3, <2>2, <2>3, <2>5, <3>1 DEF Enqueued
  <2> QED
    BY <2>4, <2>5
<1>4. ASSUME NEW w \in Workers, Requeue(w), w \in Rows
      PROVE  IF k = w THEN jobs'[k].status = "pending" ELSE SameStatus(k)
  <2>1. Rows' = Rows /\ jobs[w] \in JobRecords
    BY <1>4, MineType DEF Requeue, Rows
  <2> QED
    BY <1>0, <1>4, <2>1 DEF Requeue, SameStatus, JobRecords
<1>5. ASSUME NEW j \in Workers, Reap(j)
      PROVE  IF k = j THEN jobs'[k].status # "processing" ELSE SameStatus(k)
  <2>1. j \in Rows /\ jobs[j] \in JobRecords
    BY <1>5, MineType DEF Reap
  <2>2. CASE jobs[j].redelivered < MaxRedeliveries
    <3>1. Rows' = Rows
      BY <1>5, <2>2 DEF Reap, Rows
    <3> QED
      BY <1>0, <1>5, <2>1, <2>2, <3>1 DEF Reap, SameStatus, JobRecords
  <2>3. CASE ~(jobs[j].redelivered < MaxRedeliveries)
    <3>1. SetJob(j, "failed")
      BY <1>5, <2>3 DEF Reap, SetJob
    <3> QED
      BY <1>2, <2>1, <3>1
  <2> QED
    BY <2>2, <2>3
<1>6. ASSUME NEW w \in Workers, Step(w)
      PROVE  SameStatus(k) \/ Enqueued(k)
             \/ (k = w /\ Ended(k) /\ jobs'[k].status # "processing")
  <2>1. CASE Finish(w) \/ FailJob(w) \/ Requeue(w)
    <3>1. w \in Rows
      BY <2>1 DEF Actor, Finish, FailJob, Requeue, Dispatching, Merging
    <3> QED
      BY <1>2, <1>4, <2>1, <3>1 DEF Finish, FailJob, Ended
  <2>2. CASE \/ MergeRead(w) \/ MergeWrite(w) \/ MergeConflict(w) \/ Join(w) \/ Joined(w)
             \/ End(w) \/ Check(w) \/ Reserve(w) \/ PutNoop(w) \/ PutJob(w)
             \/ Start(w) \/ Publish(w) \/ TakeSnapshot(w) \/ RetryRow(w) \/ FailTask(w)
    <3>1. jobs' = jobs
      BY <2>2 DEF MergeRead, MergeWrite, MergeConflict, Join, Joined, End, Check, Reserve,
                  PutNoop, PutJob, Start, Publish, TakeSnapshot, RetryRow, FailTask, tables
    <3> QED
      BY <1>1, <3>1
  <2> QED
    BY <1>3, <1>6, <2>1, <2>2 DEF Step, Adds, Enqueue
<1>7. ASSUME NEW j \in Workers, Claim(j) PROVE k = j \/ SameStatus(k)
  BY <1>2, <1>7 DEF Claim
<1>8. ASSUME Crash \/ (\E w \in Workers : Failing(w)) \/ UNCHANGED vars
      PROVE  SameStatus(k) \/ Enqueued(k)
  BY <1>1, <1>3, <1>8 DEF Crash, Failing, Fails, EnqueueFails, Adds, vars, tables
<1> QED
  BY <1>5, <1>6, <1>7, <1>8 DEF Next, Failing, Ended

(* While all is calm, what goes wrong does not happen.                     *)
LEMMA StepCalm ==
    ASSUME Types, [Next]_vars, calm', calm, NEW w \in Workers, CalmWorker(w)
    PROVE  /\ ~Crash /\ ~Failing(w) /\ ~Reap(w) /\ ~RetryRow(w) /\ ~Requeue(w) /\ ~FailTask(w)
           /\ ~FailJob(w) /\ (MergeConflict(w) => Goto(w, "read") /\ UNCHANGED routine)
<1>1. ~Crash
  BY DEF Crash
<1>2. ~Failing(w)
  BY DEF Failing, Fails, EnqueueFails, Fault, Throw
<1>3. ~Reap(w)
  BY MineType DEF Reap, CalmWorker, Proc
<1>4. ~RetryRow(w) /\ ~Requeue(w) /\ ~FailTask(w) /\ ~FailJob(w)
  BY DEF CalmWorker, RetryRow, Requeue, FailTask, FailJob
<1>5. ASSUME MergeConflict(w) PROVE Goto(w, "read") /\ UNCHANGED routine
  <2>1. (Goto(w, "read") /\ UNCHANGED routine) \/ Throw(w, FALSE)
    BY <1>5, Zenon DEF MergeConflict
  <2>2. ~Throw(w, FALSE)
    BY DEF Throw
  <2> QED
    BY <2>1, <2>2
<1> QED
  BY <1>1, <1>2, <1>3, <1>4, <1>5

(* What has gone wrong does not become calm again.                         *)
LEMMA CalmStays == ASSUME Types, [Next]_vars, calm' PROVE calm
<1>1. ASSUME NEW w \in Workers, Step(w), ~MergeConflict(w) PROVE calm' = calm
  BY <1>1 DEF Step, MergeRead, MergeWrite, Join, Joined, End, Check, Reserve,
              PutNoop, PutJob, Enqueue, Start, Publish, TakeSnapshot, Finish, RetryRow, Requeue,
              FailTask, FailJob, world
<1>2. ASSUME NEW w \in Workers, MergeConflict(w) PROVE calm' = calm \/ ~calm'
  <2>1. UNCHANGED calm \/ Throw(w, FALSE)
    BY <1>2, Zenon DEF MergeConflict
  <2> QED
    BY <2>1 DEF Throw
<1>3. ASSUME NEW w \in Workers, Failing(w) PROVE ~calm'
  BY <1>3 DEF Failing, Fails, EnqueueFails, Fault, Throw
<1>4. ASSUME NEW w \in Workers, Claim(w) \/ Reap(w) PROVE calm' = calm
  BY <1>4 DEF Claim, Reap, world
<1> QED
  BY <1>1, <1>2, <1>3, <1>4 DEF Next, Failing, Crash, vars, world

(* The state of the run is finite, and its patches come from rows.         *)
StateOK ==
    /\ IsFiniteSet(run.state) /\ run.version >= 1
    /\ run.version = 1 => run.state = {}
    /\ \A i \in run.state : HasRow(i)

(* Every step keeps the state finite and its patches backed by rows.       *)
LEMMA NextState ==
    ASSUME Types, \A w \in Workers : Actor(w) /\ ReadOK(w), StateOK, [Next]_vars
    PROVE  StateOK'
<1>0. run.version \in Nat
  BY DEF Types
<1>1. ASSUME NEW i, HasRow(i) PROVE HasRow(i)'
  BY <1>1, RowsKept DEF HasRow, Kept
<1>2. CASE run' = run
  BY <1>1, <1>2 DEF StateOK
<1>3. ASSUME NEW w \in Workers, MergeWrite(w), Merged(w) PROVE StateOK'
  <2>1. CASE routine[w] # "complete"
    <3>1. run'.state = run.state /\ run'.version = run.version
      BY <1>0, <1>3, <2>1 DEF Merged, PatchOf
    <3> QED
      BY <1>1, <3>1 DEF StateOK
  <2>2. CASE routine[w] = "complete"
    <3>1. run'.state = run.state \cup {Mine(w)} /\ run'.version = run.version + 1
      BY <1>3, <2>2 DEF Merged, PatchOf
    <3>2. IsFiniteSet(run'.state)
      BY <3>1, FS_AddElement DEF StateOK
    <3>3. w \in Rows
      BY <1>3, <2>2 DEF Actor, MergeWrite
    <3>4. HasRow(Mine(w))
      BY <3>3 DEF HasRow, Mine
    <3> QED
      BY <1>0, <1>1, <3>1, <3>2, <3>4 DEF StateOK
  <2> QED
    BY <2>1, <2>2
<1> QED
  BY <1>2, <1>3, RunMoves

(* Two workers that merge have different tasks while nothing is broken.    *)
LEMMA DifferentTasks ==
    ASSUME Types, UniqueInv, broken = {}, NEW j \in Rows, NEW k \in Rows, Mine(j) = Mine(k)
    PROVE  j = k
<1>1. Unique(Mine(j))
  BY MineType DEF UniqueInv
<1> QED
  BY <1>1 DEF Unique, Mine

(* The own step of a worker while all is calm.                             *)
Usual(w) ==
    /\ pc[w] # "idle"
    /\ pc'[w] \notin {"retry", "requeue", "fail", "close"} /\ routine'[w] # "fail"
    /\ Finish(w) \/ pc'[w] # "idle"
    /\ Before(w)' => Before(w) /\ ~(MergeWrite(w) /\ routine[w] = "complete")

(* The own step of a calm worker is a usual one.                           *)
LEMMA OwnCalm ==
    ASSUME Types, [Next]_vars, calm', calm, NEW w \in Workers, Actor(w), CalmWorker(w), Step(w)
    PROVE  Usual(w)
<1>1. CASE MergeRead(w)
  BY <1>1 DEF MergeRead, MergeWrite, Goto, Types, Usual, CalmWorker, Before, Merging
<1>2. CASE MergeWrite(w)
  <2>1. /\ pc[w] = "write" /\ pc'[w] = AfterMerge(routine[w])
        /\ routine[w] \in Routines \ {"none", "fail"}
        /\ routine'[w] = IF routine[w] = "start" THEN "complete" ELSE routine[w]
    BY <1>2 DEF MergeWrite, Goto, Types, Actor, Merging, CalmWorker
  <2> QED
    BY <2>1 DEF Usual, AfterMerge, Routines, Before, Merging
<1>3. CASE MergeConflict(w)
  <2>1. Goto(w, "read") /\ UNCHANGED routine
    BY <1>3, StepCalm
  <2>2. pc[w] = "write" /\ ~Current(w)
    BY <1>3 DEF MergeConflict
  <2>3. pc'[w] = "read" /\ ~MergeWrite(w)
    BY <2>1, <2>2 DEF Goto, Types, MergeWrite
  <2> QED
    BY <2>1, <2>2, <2>3 DEF Usual, CalmWorker, Before, Merging
<1>4. CASE Join(w) \/ Joined(w) \/ Check(w) \/ Reserve(w)
  BY <1>4 DEF Join, Joined, Check, Reserve, Goto, Types, Usual, CalmWorker, Before, Merging, At
<1>5. CASE End(w) \/ PutNoop(w) \/ Enqueue(w)
  BY <1>5 DEF End, PutNoop, Enqueue, Goto, Merge, Types, Usual, CalmWorker, Before, Merging, At
<1>6. CASE PutJob(w) \/ Publish(w) \/ TakeSnapshot(w)
  BY <1>6 DEF PutJob, Publish, TakeSnapshot, Goto, Types, Usual, CalmWorker, Before, Merging
<1>7. CASE Start(w)
  BY <1>7 DEF Start, Goto, Merge, Types, Usual, CalmWorker, Before, Merging, MergeWrite
<1>8. CASE Finish(w)
  BY <1>8 DEF Finish, Goto, Types, Usual, CalmWorker, Before, Merging
<1> QED
  BY <1>1, <1>2, <1>3, <1>4, <1>5, <1>6, <1>7, <1>8, StepCalm DEF Step

(* While all is calm a merge adds no patch of a task that a worker has     *)
(* still to merge, or a row to execute.                                    *)
Calm == /\ run.version = 1 + Cardinality(run.state)
        /\ broken = {}
        /\ \A w \in Workers : CalmWorker(w)
        /\ \A k \in Rows : CalmRow(k)

(* A merge adds the patch of the worker that merges and of no other row.   *)
LEMMA PatchOfOne ==
    ASSUME Types, UniqueInv, \A w \in Workers : Actor(w) /\ ReadOK(w), [Next]_vars, Calm,
           NEW k \in Rows, ~(k \in Workers /\ MergeWrite(k) /\ routine[k] = "complete"),
           Mine(k) \notin run.state
    PROVE  Mine(k) \notin run'.state
<1>1. CASE run' = run
  BY <1>1
<1>2. ASSUME NEW w \in Workers, MergeWrite(w), Merged(w), routine[w] # "complete"
      PROVE  Mine(k) \notin run'.state
  BY <1>2 DEF Merged, PatchOf
<1>3. ASSUME NEW w \in Workers, MergeWrite(w), Merged(w), routine[w] = "complete"
      PROVE  Mine(k) \notin run'.state
  <2>1. w \in Rows
    BY <1>3 DEF Actor, MergeWrite
  <2>2. Mine(k) # Mine(w)
    BY <1>3, <2>1, DifferentTasks DEF Calm
  <2> QED
    BY <1>3, <2>2 DEF Merged, PatchOf
<1> QED
  BY <1>1, <1>2, <1>3, RunMoves

(* A calm step keeps every worker calm.                                    *)
LEMMA WorkersCalm ==
    ASSUME Types, UniqueInv, \A w \in Workers : Actor(w) /\ ReadOK(w), [Next]_vars, Calm,
           calm, calm', NEW w \in Workers
    PROVE  CalmWorker(w)'
<1>0. w \in Rows => Kept(w) /\ w # 0
  BY RowsKept, MineType
<1>1. CalmWorker(w) /\ Actor(w)
  BY DEF Calm
<1>2. Before(w) => w \in Rows
  BY <1>1 DEF Before, Actor, Merging, Dispatching
<1>9. MergeWrite(w) => pc'[w] # pc[w]
  <2> SUFFICES ASSUME MergeWrite(w) PROVE pc'[w] # pc[w]
    OBVIOUS
  <2>1. pc'[w] = AfterMerge(routine[w]) /\ pc[w] = "write" /\ routine[w] \in Routines \ {"none"}
    BY <1>1 DEF MergeWrite, Goto, Types, Actor, Merging
  <2> QED
    BY <2>1 DEF AfterMerge, Routines
<1>3. ASSUME Before(w)' => Before(w) /\ ~(MergeWrite(w) /\ routine[w] = "complete")
      PROVE  Before(w)' => Mine(w)' \notin run'.state
  <2> SUFFICES ASSUME Before(w)' PROVE Mine(w)' \notin run'.state
    OBVIOUS
  <2>1. w \in Rows /\ Mine(w)' = Mine(w) /\ Mine(w) \notin run.state
    BY <1>0, <1>1, <1>2, <1>3 DEF Kept, Mine, CalmWorker
  <2> QED
    BY <1>3, <2>1, PatchOfOne
<1>4. ASSUME Step(w) PROVE CalmWorker(w)'
  <2>1. Usual(w)
    BY <1>1, <1>4, OwnCalm
  <2>2. ASSUME w # 0 PROVE pc'[w] # "idle" <=> Proc(w)'
    <3>1. Proc(w) /\ w \in Rows /\ w \in Rows'
      BY <1>0, <1>1, <2>1, <2>2 DEF Usual, CalmWorker, Proc, Kept
    <3>2. CASE Finish(w)
      <4>1. pc'[w] = "idle" /\ jobs'[w].status = "completed"
        <5>1. jobs[w] \in JobRecords
          BY <3>1, MineType
        <5>2. jobs' = [jobs EXCEPT ![w].status = "completed"]
          BY <3>2 DEF Finish, SetJob
        <5>3. jobs'[w].status = "completed"
          BY <3>1, <5>1, <5>2 DEF Rows, JobRecords
        <5> QED
          BY <3>2, <5>3 DEF Finish, Goto, Types
      <4> QED
        BY <4>1 DEF Proc
    <3>3. CASE ~Finish(w)
      <4>1. ~Claim(w)
        BY <2>1 DEF Claim, Usual
      <4>2. ~Ended(w) /\ ~Enqueued(w)
        BY <1>1, <3>1, <3>3, StepCalm DEF Ended, Enqueued
      <4>3. SameStatus(w)
        BY <3>1, <4>1, <4>2, RowMoves
      <4> QED
        BY <2>1, <3>1, <3>3, <4>3 DEF Usual, Proc, SameStatus
    <3> QED
      BY <3>2, <3>3
  <2> QED
    BY <1>3, <2>1, <2>2 DEF Usual, CalmWorker
<1>5. ASSUME NEW j \in Workers, Claim(j) PROVE CalmWorker(w)'
  <2>0. run' = run /\ routine' = routine /\ j \in Rows /\ jobs[j] \in JobRecords
    BY <1>5, MineType DEF Claim
  <2>1. CASE j = w
    <3>1. pc'[w] = "start" /\ Proc(w)' /\ w # 0
      <4>1. jobs' = [jobs EXCEPT ![w].status = "processing"]
        BY <1>5, <2>1 DEF Claim, SetJob
      <4> QED
        BY <1>0, <1>5, <2>0, <2>1, <4>1 DEF Claim, Goto, Types, Proc, Rows, JobRecords
    <3>2. Mine(w)' \notin run'.state
      <4>1. Mine(w)' = Mine(w) /\ jobs[w].status = "pending" /\ CalmRow(w)
        BY <1>0, <1>5, <2>0, <2>1 DEF Kept, Mine, Claim, Calm
      <4> QED
        BY <2>0, <4>1 DEF CalmRow, Mine
    <3> QED
      BY <1>1, <2>0, <3>1, <3>2 DEF CalmWorker
  <2>2. CASE j # w
    <3>1. pc'[w] = pc[w]
      BY <1>5, <2>2 DEF Claim, Goto, Types
    <3>2. Before(w)' => Before(w) /\ ~MergeWrite(w)
      <4>1. ~MergeWrite(w)
        BY <1>9, <3>1
      <4> QED
        BY <2>0, <3>1, <4>1 DEF Before
    <3>3. w \in Rows \/ w \in Rows' => SameStatus(w)
      <4>1. jobs' = [jobs EXCEPT ![j].status = "processing"]
        BY <1>5 DEF Claim, SetJob
      <4> QED
        BY <2>0, <2>2, <4>1 DEF SameStatus, Rows
    <3>4. Proc(w)' <=> Proc(w)
      BY <1>0, <3>3 DEF Proc, SameStatus, Kept
    <3> QED
      BY <1>1, <1>3, <2>0, <3>1, <3>2, <3>4 DEF CalmWorker
  <2> QED
    BY <2>1, <2>2
<1>6. ASSUME NEW v \in Workers \ {w}, Step(v) PROVE CalmWorker(w)'
  <2>1. Same(w)
    BY <1>6, OthersStay
  <2>2. Before(w)' <=> Before(w)
    BY <2>1 DEF Same, Before
  <2>3. ~MergeWrite(w)
    BY <1>9, <2>1 DEF Same
  <2>4. ~Claim(w) /\ ~Ended(w)
    <3>1. ASSUME Claim(w) PROVE FALSE
      BY <2>1, <3>1 DEF Claim, Goto, Same, Types
    <3>2. ASSUME Finish(w) PROVE FALSE
      BY <2>1, <3>2 DEF Finish, Goto, Same, Types
    <3> QED
      BY <1>1, <3>1, <3>2, StepCalm DEF Ended
  <2>5. w # 0 => (Proc(w)' <=> Proc(w))
    <3>1. CASE w \in Rows'
      <4>1. SameStatus(w) \/ Enqueued(w)
        BY <2>4, <3>1, RowMoves
      <4> QED
        BY <3>1, <4>1 DEF SameStatus, Enqueued, Proc
    <3>2. CASE w \notin Rows'
      BY <1>0, <3>2 DEF Proc, Kept
    <3> QED
      BY <3>1, <3>2
  <2> QED
    BY <1>1, <1>3, <2>1, <2>2, <2>3, <2>5 DEF CalmWorker, Same
<1>7. ASSUME UNCHANGED vars PROVE CalmWorker(w)'
  BY <1>1, <1>7 DEF vars, tables, workers, CalmWorker, Proc, Rows, Before, Mine
<1>8. ASSUME NEW v \in Workers PROVE ~Failing(v) /\ ~Reap(v) /\ ~Crash
  BY <1>8, StepCalm DEF Calm
<1> QED
  BY <1>4, <1>5, <1>6, <1>7, <1>8 DEF Next, Failing

(* A calm step keeps every row calm.                                       *)
LEMMA RowsCalm ==
    ASSUME Types, UniqueInv, \A w \in Workers : Actor(w) /\ ReadOK(w), [Next]_vars, Calm,
           StateOK, calm, calm', NEW k \in Rows'
    PROVE  CalmRow(k)'
<1> SUFFICES ASSUME jobs'[k].status = "pending" PROVE jobs'[k].task \notin run'.state
  BY DEF CalmRow
<1>1. CASE SameStatus(k)
  <2>1. k \in Rows /\ jobs[k].status = "pending" /\ jobs'[k].task = Mine(k) /\ k # 0
        /\ Mine(k) \notin run.state
    BY <1>1, RowsKept, MineType DEF SameStatus, Kept, Mine, Calm, CalmRow
  <2>2. ASSUME k \in Workers, MergeWrite(k) PROVE FALSE
    BY <2>1, <2>2 DEF Calm, CalmWorker, Proc, MergeWrite
  <2> QED
    BY <2>1, <2>2, PatchOfOne
<1>2. CASE k \in Workers /\ Claim(k)
  <2>1. k \in Rows /\ jobs[k] \in JobRecords /\ jobs' = [jobs EXCEPT ![k].status = "processing"]
    BY <1>2, MineType DEF Claim, SetJob
  <2> QED
    BY <2>1 DEF Rows, JobRecords
<1>3. CASE k \in Workers /\ Ended(k)
  <2>1. Finish(k) /\ Actor(k) /\ k # 0 /\ k \in Rows
    <3>1. Finish(k)
      BY <1>3, StepCalm DEF Ended, Calm
    <3> QED
      BY <1>3, <3>1, WorkersMany DEF Finish, Actor
  <2>2. jobs[k] \in JobRecords /\ jobs' = [jobs EXCEPT ![k].status = "completed"]
    BY <2>1, MineType DEF Finish, SetJob
  <2> QED
    BY <2>1, <2>2 DEF Rows, JobRecords
<1>4. CASE Enqueued(k)
  <2>1. PICK w \in Workers : Adds(w) /\ jobs'[k].task = Todo(w)
    BY <1>4 DEF Enqueued
  <2>2. Holds(w, Todo(w)) /\ Todo(w) \in Instances /\ run' = run
    BY <2>1, AddsType DEF Adds, Enqueue, EnqueueFails, Holds
  <2>3. ~HasRow(Todo(w))
    BY <2>2 DEF UniqueInv, Unique, Calm
  <2> QED
    BY <2>1, <2>2, <2>3 DEF StateOK
<1> QED
  BY <1>1, <1>2, <1>3, <1>4, RowMoves

CalmInv == StateOK /\ (calm => Calm)

(* Every step keeps the count of the patches.                              *)
LEMMA NextCalm ==
    ASSUME Types, UniqueInv, UniqueInv', \A w \in Workers : Actor(w) /\ ReadOK(w), CalmInv,
           [Next]_vars
    PROVE  CalmInv'
<1>1. StateOK'
  BY NextState DEF CalmInv
<1> SUFFICES ASSUME calm' PROVE Calm'
  BY <1>1 DEF CalmInv
<1>2. calm /\ Calm
  BY CalmStays DEF CalmInv
<1>3. \A w \in Workers : CalmWorker(w)'
  BY <1>2, WorkersCalm
<1>4. \A k \in Rows' : CalmRow(k)'
  BY <1>2, RowsCalm DEF CalmInv
<1>5. broken' = {}
  <2>1. broken' = broken \/ \E w \in Workers : FailTask(w) \/ Failing(w)
    <3>1. ASSUME NEW w \in Workers, Step(w), ~FailTask(w) PROVE broken' = broken
      BY <3>1 DEF Step, MergeRead, MergeWrite, MergeConflict, Join, Joined, End, Check, Reserve,
                  PutNoop, PutJob, Enqueue, Start, Publish, TakeSnapshot, Finish, RetryRow,
                  Requeue, FailJob
    <3>2. ASSUME NEW w \in Workers, Claim(w) \/ Reap(w) PROVE broken' = broken
      BY <3>2 DEF Claim, Reap
    <3> QED
      BY <3>1, <3>2 DEF Next, Failing, Crash, vars
  <2> QED
    BY <1>2, <2>1, StepCalm DEF Calm
<1>6. run'.version = 1 + Cardinality(run'.state)
  <2>1. CASE run' = run
    BY <1>2, <2>1 DEF Calm
  <2>2. ASSUME NEW w \in Workers, MergeWrite(w), Merged(w)
        PROVE  run'.version = 1 + Cardinality(run'.state)
    <3>1. CASE routine[w] # "complete"
      <4>1. run'.state = run.state /\ run'.version = run.version
        BY <2>2, <3>1 DEF Merged, PatchOf, Types
      <4> QED
        BY <1>2, <4>1 DEF Calm
    <3>2. CASE routine[w] = "complete"
      <4>1. run'.state = run.state \cup {Mine(w)} /\ run'.version = run.version + 1
        BY <2>2, <3>2 DEF Merged, PatchOf
      <4>2. Mine(w) \notin run.state
        BY <1>2, <2>2, <3>2 DEF Calm, CalmWorker, Before, Merging, MergeWrite
      <4>3. IsFiniteSet(run.state) /\ Cardinality(run.state) \in Nat
        BY FS_CardinalityType DEF CalmInv, StateOK
      <4>4. Cardinality(run'.state) = Cardinality(run.state) + 1
        BY <4>1, <4>2, <4>3, FS_AddElement
      <4> QED
        BY <1>2, <4>1, <4>3, <4>4 DEF Calm
    <3> QED
      BY <3>1, <3>2
  <2> QED
    BY <2>1, <2>2, RunMoves
<1> QED
  BY <1>3, <1>4, <1>5, <1>6 DEF Calm

(* The rows in process grow by a claim only, and only where there is room. *)
Processing == {k \in Rows : jobs[k].status = "processing"}

(* Every step keeps the rows in process within the slots.                  *)
LEMMA NextSlots ==
    ASSUME Types, \A w \in Workers : Actor(w), InFlight <= Slots, [Next]_vars
    PROVE  InFlight' <= Slots
<1>1. IsFiniteSet(Processing) /\ InFlight = Cardinality(Processing) /\ InFlight \in Nat
  <2>1. Processing \subseteq 1..Len(jobs) /\ Len(jobs) \in Nat
    BY LenProperties DEF Processing, Rows, Types
  <2>2. IsFiniteSet(1..Len(jobs))
    BY <2>1, FS_Interval
  <2>3. IsFiniteSet(Processing)
    BY <2>1, <2>2, FS_Subset
  <2> QED
    BY <2>3, FS_CardinalityType DEF InFlight, Processing
<1>2. ASSUME NEW k \in Processing' PROVE k \in Processing \/ (k \in Workers /\ Claim(k))
  <2>1. k \in Rows' /\ jobs'[k].status = "processing"
    BY <1>2 DEF Processing
  <2> QED
    BY <2>1, RowMoves DEF SameStatus, Enqueued, Processing
<1>3. InFlight' = Cardinality(Processing')
  BY DEF InFlight, Processing
<1>4. CASE ~\E j \in Workers : Claim(j)
  <2>1. Processing' \subseteq Processing
    BY <1>2, <1>4
  <2>2. Cardinality(Processing') \in Nat /\ Cardinality(Processing') <= Cardinality(Processing)
    BY <1>1, <2>1, FS_Subset, FS_CardinalityType
  <2> QED
    BY <1>1, <1>3, <2>2, Bounds
<1>5. ASSUME NEW j \in Workers, Claim(j) PROVE InFlight' <= Slots
  <2> DEFINE P == Processing \cup {j}
  <2>1. ASSUME NEW k \in Workers, Claim(k) PROVE k = j
    BY <1>5, <2>1 DEF Claim, Goto, Types
  <2>2. Processing' \subseteq P
    BY <1>2, <2>1
  <2>3. IsFiniteSet(P) /\ Cardinality(P) <= Cardinality(Processing) + 1 /\ Cardinality(P) \in Nat
    <3>1. IsFiniteSet(P)
      BY <1>1, FS_AddElement
    <3>2. Cardinality(P) = Cardinality(Processing) \/ Cardinality(P) = Cardinality(Processing) + 1
      BY <1>1, FS_AddElement
    <3> QED
      BY <1>1, <3>1, <3>2
  <2> HIDE DEF P
  <2>4. Cardinality(Processing') \in Nat /\ Cardinality(Processing') <= Cardinality(P)
    BY <2>2, <2>3, FS_Subset, FS_CardinalityType
  <2>5. Cardinality(Processing) < Slots
    BY <1>1, <1>5 DEF Claim, Room
  <2> QED
    BY <1>1, <1>3, <2>3, <2>4, <2>5, Bounds
<1> QED
  BY <1>4, <1>5

(* The invariants together give the type invariant.                        *)
LEMMA CalmTypeOK ==
    ASSUME Types, CalmInv, InFlight <= Slots
    PROVE  TypeOK
<1>1. run.version = 1 + Cardinality(run.state) \/ (run.version > 1 /\ ~calm)
  <2>1. CASE calm
    BY <2>1 DEF CalmInv, Calm
  <2>2. CASE ~calm /\ run.version = 1
    <3>1. run.state = {}
      BY <2>2 DEF CalmInv, StateOK
    <3> QED
      BY <2>2, <3>1, FS_EmptySet
  <2>3. CASE ~calm /\ run.version # 1
    BY <2>3 DEF CalmInv, StateOK, Types
  <2> QED
    BY <2>1, <2>2, <2>3
<1>2. \A j \in Rows : jobs[j] \in JobRecords
  BY MineType
<1> QED
  BY <1>1, <1>2 DEF TypeOK, Types, Results, RunStatuses, JobRecords

-----------------------------------------------------------------------------
(* The theorems                                                            *)

IInv == /\ Types /\ MergedInv /\ UniqueInv /\ CalmInv /\ InFlight <= Slots
        /\ \A w \in Workers : Actor(w)

(* The invariant holds initially.                                          *)
LEMMA InitIInv == Init => IInv
<1> SUFFICES ASSUME Init PROVE IInv
  OBVIOUS
<1>1. Types
  BY InitTypes
<1>2. jobs = <<>> /\ Rows = {} /\ \A i \in Instances : result[i] = "none"
  BY DEF Init, Rows
<1>3. ASSUME NEW w \in Workers
      PROVE  /\ pc[w] = (IF w = 0 THEN "dispatch" ELSE "idle")
             /\ routine[w] = "none"
  BY WorkersMany DEF Init, Idle
<1>4. ASSUME NEW w \in Workers PROVE Actor(w) /\ ReadOK(w) /\ PatchIn(w)
  BY <1>3 DEF Actor, ReadOK, PatchIn, Dispatching, Merging, Retrying
<1>5. CompletedIsMerged
  BY <1>2 DEF CompletedIsMerged, Done
<1>6. ASSUME NEW i \in Instances PROVE Unique(i)
  <2>1. ~HasRow(i)
    BY <1>2 DEF HasRow
  <2>2. \A w \in Workers : ~Holds(w, i)
    BY <1>3 DEF Holds
  <2>3. \A k \in Rows : FALSE
    BY <1>2
  <2> QED
    BY <1>2, <2>1, <2>2, <2>3 DEF Unique
<1>7. Cardinality({}) = 0 /\ IsFiniteSet({})
  BY FS_EmptySet
<1>8. CalmInv
  <2>1. StateOK
    BY <1>7 DEF Init, StateOK
  <2>2. \A w \in Workers : CalmWorker(w)
    BY <1>2, <1>3 DEF CalmWorker, Proc, Before, Merging
  <2>3. Calm
    BY <1>2, <1>7, <2>2 DEF Init, Calm
  <2> QED
    BY <2>1, <2>3 DEF CalmInv
<1>9. InFlight <= Slots
  <2>1. {k \in Rows : jobs[k].status = "processing"} = {}
    BY <1>2
  <2>2. InFlight = 0
    BY <1>7, <2>1, Zenon DEF InFlight
  <2>3. Slots \in Nat
    BY Bounds
  <2> QED
    BY <2>2, <2>3
<1> QED
  BY <1>1, <1>4, <1>5, <1>6, <1>8, <1>9 DEF IInv, MergedInv, UniqueInv

(* The invariant holds in every state.                                     *)
LEMMA IndCorrect == Spec => []IInv
<1>1. IInv /\ [Next]_vars => IInv'
  <2> SUFFICES ASSUME IInv, [Next]_vars PROVE IInv'
    OBVIOUS
  <2>1. Types' /\ (\A w \in Workers : Actor(w)') /\ MergedInv' /\ UniqueInv'
    BY NextTypes, NextActor, NextMerged, NextUnique DEF IInv
  <2>2. CalmInv' /\ InFlight' <= Slots
    BY <2>1, NextCalm, NextSlots DEF IInv, MergedInv
  <2> QED
    BY <2>1, <2>2 DEF IInv
<1> QED
  BY <1>1, InitIInv, PTL DEF Spec

(* Every variable keeps its type, the version of the run state counts its  *)
(* patches until something goes wrong, and no more jobs than slots run.    *)
THEOREM TypeCorrect == Spec => []TypeOK
<1>1. IInv => TypeOK
  BY CalmTypeOK DEF IInv
<1> QED
  BY <1>1, IndCorrect, PTL

(* A task is never published as completed before the run state has its     *)
(* patch, and no concurrent merge takes a patch out again.                 *)
THEOREM CompletedIsMergedCorrect == Spec => []CompletedIsMerged
<1>1. IInv => CompletedIsMerged
  BY DEF IInv, MergedInv
<1> QED
  BY <1>1, IndCorrect, PTL

(* Whoever reaches an instance and whatever is redelivered, the queue has  *)
(* one job for it, as long as it has not failed.                           *)
THEOREM OneJobCorrect == Spec => []OneJob
<1>1. IInv => OneJob
  BY UniqueOneJob DEF IInv
<1> QED
  BY <1>1, IndCorrect, PTL

(* In every workflow, what a join dispatches is resolved from a state with *)
(* the patch of every task its check waited for; and a check that waited   *)
(* for less than that state tells of waited for nothing, as allowEmpty     *)
(* says it may.                                                            *)
THEOREM JoinSeesAllCorrect == Spec => []JoinSeesAll
<1>1. Init => SeenInv
  <2> SUFFICES ASSUME Init PROVE SeenInv
    OBVIOUS
  <2>1. Plan(From("none"), {}) \in Seq(Seen) /\ <<>> \in Seq(Seen)
    BY PlanType, FreshSeen, EmptySeq DEF Init
  <2>2. agenda \in [Workers -> Seq(Seen)]
    BY <2>1 DEF Init
  <2>3. \A w \in Workers : pc[w] # "joined"
    BY DEF Init, Idle
  <2> QED
    BY <2>2, <2>3 DEF SeenInv, Gathered
<1>2. IInv /\ SeenInv /\ [Next]_vars => SeenInv'
  BY NextSeen DEF IInv
<1>3. IInv /\ SeenInv => JoinSeesAll
  BY SeenJoinSeesAll DEF IInv
<1> QED
  BY <1>1, <1>2, <1>3, IndCorrect, PTL DEF Spec

=============================================================================
