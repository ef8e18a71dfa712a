---------------------------- MODULE OutboxProofs ----------------------------
(***************************************************************************)
(* Proofs about Outbox, for any events, aggregates, overlapping sweeps and *)
(* bounds.                                                                 *)
(*                                                                         *)
(* WriterInv: only the holder of the lock of an aggregate numbers a row,   *)
(* and nothing is committed between its reading and its commit.            *)
(* BudgetInv: every claim that has not been published yet is covered by an *)
(* attempt of its row, and of the claims that may be published, with those *)
(* that have been, there are never more than MaxAttempts, although a row   *)
(* may be claimed by several sweeps, under the same number, at once.       *)
(* AwareInv: what a sweep knows of the failures of the others.             *)
(***************************************************************************)
EXTENDS Outbox, FiniteSetTheorems, SequenceTheorems, TLAPS

WriterInv ==
    /\ \A e \in Events : writer[e] \in {"locked", "numbered"} => lock[Aggregate[e]] = e
    /\ \A e \in Events : writer[e] # "done" => e \notin Rows
    /\ \A a \in Aggregates : {seq[e] : e \in Of(a)} = 1..Cardinality(Of(a))
    /\ \A e \in Events : writer[e] = "numbered" => seq[e] = Cardinality(Of(Aggregate[e])) + 1

SweepOK(s) ==
    /\ pc[s] \notin {"rows", "mark", "caught"} => claimed[s] = NoClaim
    /\ pc[s] \in {"mark", "caught"} => current[s] \in Events /\ claimed[s][current[s]] > 0
    /\ pc[s] \notin {"mark", "caught"} => current[s] = None
    /\ \A e \in Events : claimed[s][e] > 0 => e \in Rows
ClaimInv ==
    /\ \A s \in Sweeps : SweepOK(s)
    /\ \A e \in Events : stale[e] => e \in Rows

(* The claims of e that have not been published yet, and those of them     *)
(* that are not over the ceiling.                                          *)
Out(e) == {s \in Sweeps : claimed[s][e] > 0 /\ current[s] # e}
Good(e) == {s \in Out(e) : claimed[s][e] <= MaxAttempts}
BudgetInv ==
    \A e \in Events :
        /\ tries[e] + Cardinality(Out(e)) <= attempts[e]
        /\ tries[e] + Cardinality(Good(e)) <= MaxAttempts

IInv == TypeOK /\ WriterInv /\ ClaimInv /\ BudgetInv

Points == {"off", "ceiling", "reclaim", "blocked", "claim", "rows", "mark", "caught"}
States == {"pending", "processing", "dispatched", "failed"}

-----------------------------------------------------------------------------
(* Rows and numbers                                                        *)

LEMMA OfFinite ==
    ASSUME NEW a
    PROVE  /\ IsFiniteSet(Of(a)) /\ Cardinality(Of(a)) \in Nat
           /\ Cardinality(Of(a)) <= Cardinality(Events) /\ Cardinality(Events) \in Nat
<1>1. Of(a) \subseteq Events
  BY DEF Of, Rows
<1> QED BY <1>1, EventsAssumption, FS_Subset, FS_CardinalityType

(* Writers and numbers do not see what sweeps do to a row that exists.     *)
LEMMA WriterKept ==
    ASSUME WriterInv, Rows' = Rows, UNCHANGED <<writer, lock, seq>>
    PROVE  WriterInv'
<1>1. \A a : Of(a)' = Of(a)
  BY DEF Of
<1> QED BY <1>1 DEF WriterInv

LEMMA WriteKeepsRows ==
    ASSUME TypeOK, NEW s, NEW S, S \subseteq Rows, NEW st \in States, Write(s, S, st)
    PROVE  /\ Rows' = Rows
           /\ status' \in [Events -> {"absent", "pending", "processing", "dispatched", "failed"}]
           /\ stale' \in [Events -> BOOLEAN]
           /\ late' \in [Events -> SUBSET Sweeps]
           /\ \A e \in Events : stale'[e] => stale[e]
<1>1. ASSUME NEW e \in Events PROVE status'[e] # "absent" <=> status[e] # "absent"
  BY DEF Write, Rows, States
<1>2. ASSUME NEW e \in Events PROVE stale'[e] \in BOOLEAN /\ (stale'[e] => stale[e])
  BY DEF Write, TypeOK
<1>3. stale' \in [Events -> BOOLEAN]
  BY <1>2 DEF Write
<1>4. status' \in [Events -> {"absent", "pending", "processing", "dispatched", "failed"}]
  BY DEF Write, TypeOK, States
<1>5. late' \in [Events -> SUBSET Sweeps]
  BY DEF Write, Noted, TypeOK
<1> QED BY <1>1, <1>2, <1>3, <1>4, <1>5 DEF Rows

-----------------------------------------------------------------------------
(* The transactions that append                                            *)

LEMMA LockKeeps ==
    ASSUME IInv, NEW e \in Events, Lock(e)
    PROVE  TypeOK' /\ WriterInv' /\ Rows' = Rows
<1>0. Aggregate[e] \in Aggregates /\ Rows' = Rows
  BY DEF Aggregates, Lock, Rows, table
<1>1. TypeOK'
  BY <1>0 DEF IInv, TypeOK, Lock, table, sweep, bounds
<1>2. \A a : Of(a)' = Of(a)
  BY <1>0 DEF Of
<1>3. ASSUME NEW f \in Events, writer'[f] \in {"locked", "numbered"}
      PROVE  lock'[Aggregate[f]] = f
  <2>1. CASE f = e
    BY <1>0, <2>1 DEF Lock, IInv, TypeOK
  <2>2. CASE f # e
    <3>1. writer[f] \in {"locked", "numbered"} /\ lock[Aggregate[f]] = f
      BY <1>3, <2>2 DEF Lock, IInv, TypeOK, WriterInv
    <3>2. Aggregate[f] # Aggregate[e]
      BY <3>1, EventsAssumption DEF Lock, LockFree
    <3> QED BY <3>1, <3>2 DEF Lock, IInv, TypeOK
  <2> QED BY <2>1, <2>2
<1>4. \A f \in Events : /\ writer'[f] # "done" => writer[f] # "done"
                        /\ writer'[f] = "numbered" => writer[f] = "numbered"
  BY DEF Lock, IInv, TypeOK
<1>5. seq' = seq
  BY DEF Lock, table
<1> QED BY <1>0, <1>1, <1>2, <1>3, <1>4, <1>5 DEF WriterInv, IInv

LEMMA MaxIs ==
    ASSUME NEW a \in Aggregates, WriterInv
    PROVE  (CHOOSE n \in 0..Cardinality(Events) :
                /\ n = 0 \/ \E f \in Of(a) : seq[f] = n
                /\ \A f \in Of(a) : seq[f] <= n) = Cardinality(Of(a))
<1> DEFINE k == Cardinality(Of(a))
           P(n) == /\ n = 0 \/ \E f \in Of(a) : seq[f] = n
                   /\ \A f \in Of(a) : seq[f] <= n
<1>1. k \in 0..Cardinality(Events) /\ k \in Nat
  BY OfFinite
<1>2. {seq[f] : f \in Of(a)} = 1..k
  BY DEF WriterInv
<1> HIDE DEF k
<1>3. P(k)
  <2>1. \A f \in Of(a) : seq[f] \in 1..k
    BY <1>2
  <2>2. k = 0 \/ k \in 1..k
    BY <1>1
  <2> QED BY <1>1, <1>2, <2>1, <2>2
<1>4. ASSUME NEW n \in 0..Cardinality(Events), P(n) PROVE n = k
  <2>1. n \in Nat /\ n <= k
    BY <1>1, <1>2, <1>4, OfFinite
  <2>2. k <= n
    <3>1. CASE k = 0
      BY <2>1, <3>1
    <3>2. CASE k # 0
      <4>1. PICK f \in Of(a) : seq[f] = k
        BY <1>1, <1>2, <3>2
      <4> QED BY <1>4, <4>1
    <3> QED BY <3>1, <3>2
  <2> QED BY <1>1, <2>1, <2>2
<1>5. (CHOOSE n \in 0..Cardinality(Events) : P(n)) = k
  BY <1>1, <1>3, <1>4
<1> QED BY <1>5 DEF k

LEMMA ReadMaxKeeps ==
    ASSUME IInv, NEW e \in Events, ReadMax(e)
    PROVE  TypeOK' /\ WriterInv' /\ Rows' = Rows
<1>0. Aggregate[e] \in Aggregates /\ Rows' = Rows /\ e \notin Rows
  BY DEF Aggregates, ReadMax, Rows, IInv, WriterInv
<1>1. seq' = [seq EXCEPT ![e] = 1 + Cardinality(Of(Aggregate[e]))]
  BY <1>0, MaxIs DEF ReadMax, IInv
<1>2. TypeOK'
  BY <1>0, <1>1, OfFinite DEF IInv, TypeOK, ReadMax, sweep, bounds
<1>3. \A a : Of(a)' = Of(a) /\ e \notin Of(a) /\ Of(a) \subseteq Events
  BY <1>0 DEF Of, Rows
<1>4. \A a : {seq'[f] : f \in Of(a)'} = {seq[f] : f \in Of(a)}
  BY <1>1, <1>3 DEF IInv, TypeOK
<1>5. lock' = lock /\ \A f \in Events : f # e => writer'[f] = writer[f] /\ seq'[f] = seq[f]
  BY <1>1 DEF ReadMax, IInv, TypeOK
<1>6. writer[e] = "locked" /\ writer'[e] = "numbered"
      /\ seq'[e] = Cardinality(Of(Aggregate[e])) + 1
  BY <1>1, OfFinite DEF ReadMax, IInv, TypeOK
<1> QED BY <1>0, <1>2, <1>3, <1>4, <1>5, <1>6 DEF WriterInv, IInv

LEMMA CommitKeeps ==
    ASSUME IInv, NEW e \in Events, Commit(e)
    PROVE  TypeOK' /\ WriterInv' /\ Rows' = Rows \cup {e}
<1> DEFINE b == Aggregate[e]
<1>0. b \in Aggregates /\ e \notin Rows /\ Rows' = Rows \cup {e}
  BY DEF Aggregates, Commit, Rows, IInv, TypeOK, WriterInv
<1>1. TypeOK'
  BY <1>0 DEF IInv, TypeOK, Commit, EndWrite, sweep, bounds
<1>2. /\ Of(b)' = Of(b) \cup {e} /\ e \notin Of(b)
      /\ \A a : a # b => Of(a)' = Of(a)
  BY <1>0 DEF Of
<1>3. Cardinality(Of(b)') = Cardinality(Of(b)) + 1 /\ Cardinality(Of(b)) \in Nat
  BY <1>2, OfFinite, FS_AddElement
<1>4. seq' = seq /\ seq[e] = Cardinality(Of(b)) + 1 /\ lock[b] = e
  BY DEF Commit, IInv, WriterInv
<1>5. ASSUME NEW a \in Aggregates PROVE {seq'[f] : f \in Of(a)'} = 1..Cardinality(Of(a)')
  <2>1. CASE a # b
    BY <1>2, <1>4, <2>1 DEF IInv, WriterInv
  <2>2. CASE a = b
    <3>1. {seq'[f] : f \in Of(b)'} = {seq[f] : f \in Of(b)} \cup {seq[e]}
      BY <1>2, <1>4
    <3>2. {seq[f] : f \in Of(b)} = 1..Cardinality(Of(b))
      BY <1>0 DEF IInv, WriterInv
    <3> QED BY <1>3, <1>4, <2>2, <3>1, <3>2
  <2> QED BY <2>1, <2>2
<1>6. ASSUME NEW f \in Events, writer'[f] \in {"locked", "numbered"}
      PROVE  f # e /\ writer'[f] = writer[f] /\ lock[Aggregate[f]] = f /\ Aggregate[f] # b
             /\ lock'[Aggregate[f]] = f
  <2>1. f # e /\ writer'[f] = writer[f]
    BY <1>6 DEF Commit, EndWrite, IInv, TypeOK
  <2>2. lock[Aggregate[f]] = f /\ Aggregate[f] # b
    BY <1>4, <1>6, <2>1 DEF IInv, WriterInv
  <2> QED BY <2>1, <2>2 DEF Commit, EndWrite, IInv, TypeOK
<1>7. \A f \in Events : writer'[f] # "done" => f # e /\ writer[f] # "done"
  BY DEF Commit, EndWrite, IInv, TypeOK
<1>8. ASSUME NEW f \in Events, writer'[f] = "numbered"
      PROVE  seq'[f] = Cardinality(Of(Aggregate[f])') + 1
  <2>1. writer[f] = "numbered" /\ Aggregate[f] # b
    BY <1>6, <1>8
  <2> QED BY <1>2, <1>4, <2>1 DEF IInv, WriterInv
<1> QED BY <1>0, <1>1, <1>5, <1>6, <1>7, <1>8 DEF WriterInv, IInv

LEMMA RollbackKeeps ==
    ASSUME IInv, NEW e \in Events, Rollback(e)
    PROVE  TypeOK' /\ WriterInv' /\ Rows' = Rows
<1> DEFINE b == Aggregate[e]
<1>0. b \in Aggregates /\ e \notin Rows /\ Rows' = Rows /\ lock[b] = e
  BY DEF Aggregates, Rollback, Rows, IInv, WriterInv
<1>1. TypeOK'
  BY <1>0 DEF IInv, TypeOK, Rollback, EndWrite, sweep
<1>2. \A a : Of(a)' = Of(a) /\ e \notin Of(a) /\ Of(a) \subseteq Events
  BY <1>0 DEF Of, Rows
<1>3. \A f \in Events : f # e => seq'[f] = seq[f]
  BY DEF Rollback, IInv, TypeOK
<1>4. \A a : {seq'[f] : f \in Of(a)'} = {seq[f] : f \in Of(a)}
  BY <1>2, <1>3
<1>5. ASSUME NEW f \in Events, writer'[f] \in {"locked", "numbered"}
      PROVE  f # e /\ writer'[f] = writer[f] /\ lock'[Aggregate[f]] = f
  <2>1. f # e /\ writer'[f] = writer[f]
    BY <1>5 DEF Rollback, EndWrite, IInv, TypeOK
  <2>2. lock[Aggregate[f]] = f /\ Aggregate[f] # b
    BY <1>0, <1>5, <2>1 DEF IInv, WriterInv
  <2> QED BY <2>1, <2>2 DEF Rollback, EndWrite, IInv, TypeOK
<1>6. \A f \in Events : writer'[f] # "done" => f # e /\ writer[f] # "done"
  BY DEF Rollback, EndWrite, IInv, TypeOK
<1> QED BY <1>0, <1>1, <1>2, <1>3, <1>4, <1>5, <1>6 DEF WriterInv, IInv

(* An append touches neither a claim nor an attempt.                       *)
LEMMA WriteStepKeeps ==
    ASSUME IInv, NEW e \in Events, WriteStep(e)
    PROVE  IInv'
<1>1. TypeOK' /\ WriterInv' /\ Rows \subseteq Rows'
  BY LockKeeps, ReadMaxKeeps, CommitKeeps, RollbackKeeps DEF WriteStep
<1>2. UNCHANGED <<pc, claimed, current, attempts, stale, tries>>
  BY DEF WriteStep, Lock, ReadMax, Commit, Rollback, table, sweep
<1>3. ClaimInv'
  BY <1>1, <1>2 DEF IInv, ClaimInv, SweepOK, NoClaim
<1>4. BudgetInv'
  <2>1. \A f : Out(f)' = Out(f) /\ Good(f)' = Good(f)
    BY <1>2 DEF Out, Good
  <2> QED BY <1>2, <2>1 DEF IInv, BudgetInv
<1> QED BY <1>1, <1>3, <1>4 DEF IInv

-----------------------------------------------------------------------------
(* The sweeps                                                              *)

LEMMA OutFinite ==
    ASSUME NEW e
    PROVE  /\ IsFiniteSet(Out(e)) /\ Cardinality(Out(e)) \in Nat
           /\ IsFiniteSet(Good(e)) /\ Cardinality(Good(e)) \in Nat
           /\ Cardinality(Good(e)) <= Cardinality(Out(e))
<1>1. Out(e) \subseteq Sweeps /\ Good(e) \subseteq Out(e)
  BY DEF Out, Good
<1> QED BY <1>1, SweepsAssumption, FS_Subset, FS_CardinalityType

(* The budget of an event holds on when it is not published, its claims do *)
(* not grow and its attempts do not shrink.                                *)
LEMMA BudgetKept ==
    ASSUME IInv, TypeOK', NEW e \in Events,
           tries'[e] = tries[e], attempts'[e] >= attempts[e],
           Out(e)' \subseteq Out(e), Good(e)' \subseteq Good(e)
    PROVE  /\ tries'[e] + Cardinality(Out(e)') <= attempts'[e]
           /\ tries'[e] + Cardinality(Good(e)') <= MaxAttempts
<1>1. Cardinality(Out(e)') <= Cardinality(Out(e)) /\ Cardinality(Out(e)') \in Nat
  BY OutFinite, FS_Subset, FS_CardinalityType
<1>2. Cardinality(Good(e)') <= Cardinality(Good(e)) /\ Cardinality(Good(e)') \in Nat
  BY OutFinite, FS_Subset, FS_CardinalityType
<1>3. tries[e] \in Nat /\ attempts[e] \in Nat /\ attempts'[e] \in Nat /\ MaxAttempts \in Nat
  BY LimitsAssumption DEF IInv, TypeOK
<1>4. /\ tries[e] + Cardinality(Out(e)) <= attempts[e]
      /\ tries[e] + Cardinality(Good(e)) <= MaxAttempts
  BY DEF IInv, BudgetInv
<1> QED BY <1>1, <1>2, <1>3, <1>4, OutFinite

(* A sweep that only moves on, or only rewrites rows, keeps every claim.   *)
LEMMA ClaimsKept ==
    ASSUME IInv, TypeOK', UNCHANGED <<claimed, current, tries>>,
           \A e \in Events : attempts'[e] >= attempts[e]
    PROVE  BudgetInv'
<1>1. \A e : Out(e)' = Out(e) /\ Good(e)' = Good(e)
  BY DEF Out, Good
<1>2. ASSUME NEW e \in Events
      PROVE  /\ tries'[e] + Cardinality(Out(e)') <= attempts'[e]
             /\ tries'[e] + Cardinality(Good(e)') <= MaxAttempts
  BY <1>1, BudgetKept
<1> QED BY <1>2 DEF BudgetInv

LEMMA StaleAreRows ==
    ASSUME IInv PROVE Stale \subseteq Rows
BY DEF Stale, IInv, ClaimInv

(* The statements before the claim.                                        *)
LEMMA PreludeKeeps ==
    ASSUME IInv, NEW s \in Sweeps,
           StartSweep(s) \/ FailSpent(s) \/ Reclaim(s) \/ ReadBlocked(s)
    PROVE  IInv'
<1>1. /\ UNCHANGED <<claimed, current, tries, seq, writer, lock, faults, deaths>>
      /\ pc[s] \in {"off", "ceiling", "reclaim", "blocked"}
      /\ pc' = [pc EXCEPT ![s] = pc'[s]] /\ pc'[s] \in {"ceiling", "reclaim", "blocked", "claim"}
  BY DEF StartSweep, FailSpent, Reclaim, ReadBlocked, Goto, table, writes, bounds, IInv, TypeOK
<1>2. /\ Rows' = Rows
      /\ status' \in [Events -> {"absent", "pending", "processing", "dispatched", "failed"}]
      /\ stale' \in [Events -> BOOLEAN]
      /\ late' \in [Events -> SUBSET Sweeps]
      /\ \A e \in Events : stale'[e] => stale[e]
  <2>1. CASE StartSweep(s) \/ ReadBlocked(s)
    <3>1. late' = late \/ late' = [e \in Events |-> late[e] \ {s}]
      BY <2>1 DEF StartSweep, ReadBlocked
    <3> QED BY <2>1, <3>1 DEF StartSweep, ReadBlocked, table, Rows, IInv, TypeOK
  <2>2. CASE FailSpent(s)
    <3>1. Stale \cap Spent \subseteq Rows /\ "failed" \in States
      BY StaleAreRows DEF States
    <3> QED BY <2>2, <3>1, WriteKeepsRows DEF FailSpent, IInv
  <2>3. CASE Reclaim(s)
    <3>1. Stale \ Spent \subseteq Rows /\ "pending" \in States
      BY StaleAreRows DEF States
    <3> QED BY <2>3, <3>1, WriteKeepsRows DEF Reclaim, IInv
  <2> QED BY <1>1, <2>1, <2>2, <2>3
<1>3. attempts' \in [Events -> Nat] /\ \A e \in Events : attempts'[e] >= attempts[e]
  <2>1. CASE Reclaim(s)
    BY <2>1 DEF Reclaim, ReclaimCount, IInv, TypeOK
  <2>2. CASE ~Reclaim(s)
    BY <2>2 DEF StartSweep, FailSpent, ReadBlocked, table, IInv, TypeOK
  <2> QED BY <2>1, <2>2
<1>4. blocked' \in [Sweeps -> SUBSET Aggregates]
  <2>1. CASE ReadBlocked(s)
    BY <2>1 DEF ReadBlocked, FailedAggregates, Aggregates, IInv, TypeOK
  <2>2. CASE ~ReadBlocked(s)
    BY <2>2 DEF StartSweep, FailSpent, Reclaim, IInv, TypeOK
  <2> QED BY <2>1, <2>2
<1>5. TypeOK'
  <2>1. pc' \in [Sweeps -> Points]
    BY <1>1 DEF IInv, TypeOK, Points
  <2> QED BY <1>1, <1>2, <1>3, <1>4, <2>1 DEF IInv, TypeOK, Points
<1>6. WriterInv'
  BY <1>1, <1>2, WriterKept DEF IInv
<1>7. ClaimInv'
  <2>1. ASSUME NEW t \in Sweeps PROVE SweepOK(t)'
    <3>1. SweepOK(t) /\ SweepOK(s)
      BY DEF IInv, ClaimInv
    <3>2. CASE t = s
      BY <1>1, <1>2, <3>1, <3>2 DEF SweepOK, NoClaim
    <3>3. CASE t # s
      <4>1. pc'[t] = pc[t]
        BY <1>1, <3>3 DEF IInv, TypeOK
      <4> QED BY <1>1, <1>2, <3>1, <4>1 DEF SweepOK, NoClaim
    <3> QED BY <3>2, <3>3
  <2> QED BY <1>2, <2>1 DEF ClaimInv, IInv
<1>8. BudgetInv'
  BY <1>1, <1>3, <1>5, ClaimsKept
<1> QED BY <1>5, <1>6, <1>7, <1>8 DEF IInv

LEMMA ClaimKeeps ==
    ASSUME IInv, NEW s \in Sweeps, Claim(s)
    PROVE  IInv'
<1> DEFINE count == [e \in Events |-> IF e \in Batch THEN attempts[e] + 1 ELSE attempts[e]]
           mine == [e \in Events |-> IF e \in Batch THEN count[e] ELSE 0]
<1>1. /\ pc[s] = "claim" /\ attempts' = count
      /\ pc' = [pc EXCEPT ![s] = IF Batch = {} THEN "off" ELSE "rows"]
      /\ claimed' = [claimed EXCEPT ![s] = mine]
      /\ UNCHANGED <<seq, writer, lock, current, faults, deaths, tries>>
  BY DEF Claim, ClaimCount, Goto, writes, bounds
<1>2. SweepOK(s) /\ claimed[s] = NoClaim /\ current[s] = None
  BY <1>1 DEF IInv, ClaimInv, SweepOK
<1>3. /\ Rows' = Rows
      /\ status' \in [Events -> {"absent", "pending", "processing", "dispatched", "failed"}]
      /\ stale' \in [Events -> BOOLEAN]
      /\ late' \in [Events -> SUBSET Sweeps]
      /\ \A e \in Events : stale'[e] => stale[e]
  <2>1. Batch \subseteq Rows /\ "processing" \in States
    BY DEF Batch, Pending, Rows, States
  <2> QED BY <2>1, WriteKeepsRows DEF Claim, IInv
<1>4. count \in [Events -> Nat] /\ mine \in [Events -> Nat]
  BY DEF IInv, TypeOK
<1>5. TypeOK'
  <2>1. pc' \in [Sweeps -> Points] /\ claimed' \in [Sweeps -> [Events -> Nat]]
    BY <1>1, <1>4 DEF IInv, TypeOK, Points
  <2>2. blocked' \in [Sweeps -> SUBSET Aggregates]
    BY DEF Claim, IInv, TypeOK
  <2> QED BY <1>1, <1>3, <1>4, <2>1, <2>2 DEF IInv, TypeOK, Points
<1>6. WriterInv'
  BY <1>1, <1>3, WriterKept DEF IInv
<1>7. claimed'[s] = mine /\ \A t \in Sweeps : t # s => claimed'[t] = claimed[t] /\ pc'[t] = pc[t]
  BY <1>1 DEF IInv, TypeOK
<1>8. ClaimInv'
  <2>1. ASSUME NEW t \in Sweeps, t # s PROVE SweepOK(t)'
    <3>1. SweepOK(t)
      BY DEF IInv, ClaimInv
    <3> QED BY <1>1, <1>3, <1>7, <2>1, <3>1 DEF SweepOK, NoClaim
  <2>2. SweepOK(s)'
    <3>1. pc'[s] = IF Batch = {} THEN "off" ELSE "rows"
      BY <1>1 DEF IInv, TypeOK
    <3>2. Batch = {} => mine = NoClaim
      BY DEF NoClaim
    <3>3. \A e \in Events : mine[e] > 0 => e \in Rows
      BY <1>4 DEF Batch, Pending, Rows
    <3>4. current'[s] = None
      BY <1>1, <1>2
    <3> HIDE DEF mine, count
    <3>5. NoClaim' = NoClaim
      BY DEF NoClaim
    <3>6. CASE Batch = {}
      BY <1>3, <1>7, <3>1, <3>2, <3>3, <3>4, <3>5, <3>6 DEF SweepOK
    <3>7. CASE Batch # {}
      BY <1>3, <1>7, <3>1, <3>3, <3>4, <3>5, <3>7 DEF SweepOK
    <3> QED BY <3>6, <3>7
  <2> QED BY <1>3, <2>1, <2>2 DEF ClaimInv, IInv
<1>9. ASSUME NEW e \in Events
      PROVE  /\ tries'[e] + Cardinality(Out(e)') <= attempts'[e]
             /\ tries'[e] + Cardinality(Good(e)') <= MaxAttempts
  <2>1. s \notin Out(e)
    BY <1>2 DEF Out, NoClaim
  <2>2. CASE e \notin Batch
    <3>1. claimed'[s][e] = 0 /\ attempts'[e] = attempts[e]
      BY <1>1, <1>7, <2>2
    <3>2. Out(e)' \subseteq Out(e)
      BY <1>1, <1>7, <3>1 DEF Out
    <3>3. Good(e)' \subseteq Good(e)
      BY <1>1, <1>7, <3>1, <3>2 DEF Good, Out
    <3>4. attempts'[e] >= attempts[e]
      BY <3>1 DEF IInv, TypeOK
    <3> QED BY <1>1, <1>5, <3>2, <3>3, <3>4, BudgetKept
  <2>3. CASE e \in Batch
    <3>1. claimed'[s][e] = attempts[e] + 1 /\ attempts'[e] = attempts[e] + 1
      BY <1>1, <1>7, <2>3
    <3>2. attempts[e] \in Nat /\ tries[e] \in Nat /\ MaxAttempts \in Nat /\ tries'[e] = tries[e]
      BY <1>1, LimitsAssumption DEF IInv, TypeOK
    <3>3. current[s] # e /\ current'[s] # e
      BY <1>1, <1>2, EventsAssumption
    <3>4. Out(e)' = Out(e) \cup {s}
      BY <1>1, <1>7, <3>1, <3>2, <3>3 DEF Out
    <3>5. Cardinality(Out(e)') = Cardinality(Out(e)) + 1
      BY <2>1, <3>4, OutFinite, FS_AddElement
    <3>6. /\ tries[e] + Cardinality(Out(e)) <= attempts[e]
          /\ tries[e] + Cardinality(Good(e)) <= MaxAttempts
      BY DEF IInv, BudgetInv
    <3>7. CASE attempts[e] + 1 <= MaxAttempts
      <4>1. Good(e)' = Good(e) \cup {s} /\ s \notin Good(e)
        BY <1>1, <1>7, <2>1, <3>1, <3>4, <3>7 DEF Good, Out
      <4>2. Cardinality(Good(e)') = Cardinality(Good(e)) + 1
        BY <4>1, OutFinite, FS_AddElement
      <4> QED BY <3>1, <3>2, <3>5, <3>6, <3>7, <4>2, OutFinite
    <3>8. CASE ~(attempts[e] + 1 <= MaxAttempts)
      <4>1. Good(e)' = Good(e)
        BY <1>1, <1>7, <2>1, <3>1, <3>4, <3>8 DEF Good, Out
      <4> QED BY <3>1, <3>2, <3>5, <3>6, <4>1, OutFinite
    <3> QED BY <3>7, <3>8
  <2> QED BY <2>2, <2>3
<1>10. BudgetInv'
  BY <1>9 DEF BudgetInv
<1> QED BY <1>5, <1>6, <1>8, <1>10 DEF IInv

(* One row of the batch is handled, and the sweep goes on.                 *)
LEMMA HandledKeeps ==
    ASSUME IInv, NEW s \in Sweeps, NEW e \in Events, NEW B \in SUBSET Aggregates,
           pc[s] \in {"rows", "mark", "caught"}, current[s] \in {None, e},
           Handled(s, e), Go(s, e, B), NEW st \in States, e \in Rows, Write(s, {e}, st),
           UNCHANGED <<seq, writer, lock, faults, deaths, tries>>
    PROVE  /\ attempts' \in [Events -> Nat] => TypeOK'
           /\ WriterInv' /\ ClaimInv'
           /\ \A f \in Events : Out(f)' \subseteq Out(f) /\ Good(f)' \subseteq Good(f)
           /\ s \notin Out(e)'
<1> DEFINE last == \A f \in Events \ {e} : claimed[s][f] = 0
<1>1. /\ Rows' = Rows
      /\ status' \in [Events -> {"absent", "pending", "processing", "dispatched", "failed"}]
      /\ stale' \in [Events -> BOOLEAN]
      /\ late' \in [Events -> SUBSET Sweeps]
      /\ \A f \in Events : stale'[f] => stale[f]
  BY WriteKeepsRows DEF IInv
<1>2. /\ claimed' = [claimed EXCEPT ![s] = [claimed[s] EXCEPT ![e] = 0]]
      /\ claimed[s] \in [Events -> Nat] /\ claimed' \in [Sweeps -> [Events -> Nat]]
      /\ current' = [current EXCEPT ![s] = None] /\ current' \in [Sweeps -> Events \cup {None}]
  BY DEF Handled, IInv, TypeOK
<1>3. /\ claimed'[s][e] = 0 /\ \A f \in Events : f # e => claimed'[s][f] = claimed[s][f]
      /\ current'[s] = None
      /\ \A t \in Sweeps : t # s => claimed'[t] = claimed[t] /\ current'[t] = current[t]
  BY <1>2 DEF IInv, TypeOK
<1>4. pc' \in [Sweeps -> Points] /\ pc'[s] = (IF last THEN "off" ELSE "rows")
      /\ \A t \in Sweeps : t # s => pc'[t] = pc[t]
  BY DEF Go, Goto, IInv, TypeOK, Points
<1>5. blocked' \in [Sweeps -> SUBSET Aggregates]
  <2>1. blocked[s] \in SUBSET Aggregates
    BY DEF IInv, TypeOK
  <2> QED BY <2>1 DEF Go, IInv, TypeOK
<1>6. attempts' \in [Events -> Nat] => TypeOK'
  BY <1>1, <1>2, <1>4, <1>5 DEF IInv, TypeOK, Points
<1>7. WriterInv'
  BY <1>1, WriterKept DEF IInv
<1>8. ASSUME NEW t \in Sweeps PROVE SweepOK(t)'
  <2>0. SweepOK(t) /\ NoClaim' = NoClaim
    BY DEF IInv, ClaimInv, NoClaim
  <2>1. CASE t # s
    BY <1>1, <1>3, <1>4, <2>0, <2>1 DEF SweepOK
  <2>2. CASE t = s
    <3>1. \A f \in Events : claimed'[s][f] > 0 => f \in Rows
      BY <1>3, <2>0, <2>2 DEF SweepOK
    <3>2. last => claimed'[s] = NoClaim
      <4>1. ASSUME last, NEW f \in Events PROVE claimed'[s][f] = 0
        BY <1>3, <4>1
      <4>2. claimed'[s] \in [Events -> Nat]
        BY <1>2
      <4> QED BY <4>1, <4>2 DEF NoClaim
    <3>3. pc'[s] \in {"off", "rows"} /\ (pc'[s] = "off" => last)
      BY <1>4
    <3> HIDE DEF last
    <3> QED BY <1>1, <1>3, <2>0, <2>2, <3>1, <3>2, <3>3 DEF SweepOK
  <2> QED BY <2>1, <2>2
<1>9. ClaimInv'
  BY <1>1, <1>8 DEF ClaimInv, IInv
<1>10. ASSUME NEW f \in Events PROVE Out(f)' \subseteq Out(f) /\ Good(f)' \subseteq Good(f)
  <2>1. ASSUME NEW t \in Sweeps, claimed'[t][f] > 0, current'[t] # f
        PROVE  claimed[t][f] > 0 /\ current[t] # f /\ claimed'[t][f] = claimed[t][f]
    <3>1. CASE t # s
      BY <1>3, <2>1, <3>1
    <3>2. CASE t = s
      <4>1. f # e
        BY <1>3, <2>1, <3>2
      <4> QED BY <1>3, <2>1, <3>2, <4>1, EventsAssumption
    <3> QED BY <3>1, <3>2
  <2> QED BY <2>1 DEF Out, Good
<1>11. s \notin Out(e)'
  BY <1>3 DEF Out
<1> QED BY <1>6, <1>7, <1>9, <1>10, <1>11

LEMMA ReleaseKeeps ==
    ASSUME IInv, NEW s \in Sweeps, NEW e \in Events, Release(s, e)
    PROVE  IInv'
<1>1. /\ pc[s] = "rows" /\ claimed[s][e] > 0 /\ attempts' = [attempts EXCEPT ![e] = @ - 1]
      /\ UNCHANGED <<seq, writer, lock, faults, deaths, tries>>
  BY DEF Release, Mine, writes, bounds
<1>2. current[s] = None /\ e \in Rows
  BY <1>1 DEF IInv, ClaimInv, SweepOK
<1>3. s \in Out(e)
  BY <1>1, <1>2, EventsAssumption DEF Out
<1>4. /\ attempts[e] \in Nat /\ tries[e] \in Nat
      /\ tries[e] + Cardinality(Out(e)) <= attempts[e]
      /\ tries[e] + Cardinality(Good(e)) <= MaxAttempts /\ MaxAttempts \in Nat
  BY LimitsAssumption DEF IInv, TypeOK, BudgetInv
<1>5. Cardinality(Out(e) \ {s}) = Cardinality(Out(e)) - 1 /\ Cardinality(Out(e) \ {s}) \in Nat
  <2>1. IsFiniteSet(Out(e) \ {s}) /\ Cardinality(Out(e) \ {s}) = Cardinality(Out(e)) - 1
    BY <1>3, OutFinite, FS_RemoveElement
  <2> QED BY <2>1, FS_CardinalityType
<1>6. attempts[e] >= 1 /\ attempts' \in [Events -> Nat]
  <2>1. attempts[e] >= 1
    BY <1>4, <1>5, OutFinite
  <2> QED BY <1>1, <1>4, <2>1 DEF IInv, TypeOK
<1>7. /\ TypeOK' /\ WriterInv' /\ ClaimInv' /\ s \notin Out(e)'
      /\ \A f \in Events : Out(f)' \subseteq Out(f) /\ Good(f)' \subseteq Good(f)
  <2>1. {} \in SUBSET Aggregates /\ "pending" \in States
    BY DEF States
  <2> QED BY <1>1, <1>2, <1>6, <2>1, HandledKeeps DEF Release
<1>8. ASSUME NEW f \in Events
      PROVE  /\ tries'[f] + Cardinality(Out(f)') <= attempts'[f]
             /\ tries'[f] + Cardinality(Good(f)') <= MaxAttempts
  <2>1. CASE f # e
    <3>1. attempts'[f] >= attempts[f] /\ tries'[f] = tries[f]
      BY <1>1, <2>1 DEF IInv, TypeOK
    <3> QED BY <1>7, <3>1, BudgetKept
  <2>2. CASE f = e
    <3>1. Out(e)' \subseteq Out(e) \ {s} /\ IsFiniteSet(Out(e) \ {s})
      BY <1>7, OutFinite, FS_Subset
    <3>2. Cardinality(Out(e)') <= Cardinality(Out(e)) - 1 /\ Cardinality(Out(e)') \in Nat
      BY <1>5, <3>1, FS_Subset, FS_CardinalityType
    <3>3. Cardinality(Good(e)') <= Cardinality(Good(e)) /\ Cardinality(Good(e)') \in Nat
      BY <1>7, OutFinite, FS_Subset, FS_CardinalityType
    <3>4. attempts'[e] = attempts[e] - 1 /\ tries'[e] = tries[e]
      BY <1>1 DEF IInv, TypeOK
    <3> QED BY <1>4, <2>2, <3>2, <3>3, <3>4, OutFinite
  <2> QED BY <2>1, <2>2
<1> QED BY <1>7, <1>8 DEF IInv, BudgetInv

(* A row that fails, is dispatched or goes back keeps its attempts.        *)
LEMMA CloseKeeps ==
    ASSUME IInv, NEW s \in Sweeps, NEW e \in Events, NEW B \in SUBSET Aggregates,
           pc[s] \in {"rows", "mark", "caught"}, current[s] \in {None, e},
           Handled(s, e), Go(s, e, B), NEW st \in States, e \in Rows, Write(s, {e}, st),
           UNCHANGED <<seq, attempts, writer, lock, faults, deaths, tries>>
    PROVE  IInv'
<1>1. attempts' \in [Events -> Nat] /\ \A f \in Events : attempts'[f] >= attempts[f]
  BY DEF IInv, TypeOK
<1>2. /\ TypeOK' /\ WriterInv' /\ ClaimInv'
      /\ \A f \in Events : Out(f)' \subseteq Out(f) /\ Good(f)' \subseteq Good(f)
  BY <1>1, HandledKeeps
<1>3. ASSUME NEW f \in Events
      PROVE  /\ tries'[f] + Cardinality(Out(f)') <= attempts'[f]
             /\ tries'[f] + Cardinality(Good(f)') <= MaxAttempts
  BY <1>1, <1>2, BudgetKept
<1> QED BY <1>2, <1>3 DEF IInv, BudgetInv

LEMMA HandlersKeep ==
    ASSUME IInv, NEW s \in Sweeps,
           \/ \E e \in Events : GiveUp(s, e)
           \/ MarkDispatched(s) \/ Caught(s)
    PROVE  IInv'
<1>0. "failed" \in States /\ "dispatched" \in States /\ "pending" \in States /\ SweepOK(s)
  BY DEF States, IInv, ClaimInv
<1>1. ASSUME NEW e \in Events, GiveUp(s, e) PROVE IInv'
  <2>1. pc[s] = "rows" /\ current[s] = None /\ e \in Rows /\ {Aggregate[e]} \in SUBSET Aggregates
    BY <1>0, <1>1 DEF GiveUp, Mine, SweepOK, Aggregates
  <2> QED BY <1>0, <1>1, <2>1, CloseKeeps DEF GiveUp, writes, bounds
<1>2. ASSUME MarkDispatched(s) PROVE IInv'
  <2> DEFINE e == current[s]
  <2>1. pc[s] = "mark" /\ e \in Events /\ e \in Rows /\ {} \in SUBSET Aggregates
    BY <1>0, <1>2 DEF MarkDispatched, SweepOK
  <2>2. Handled(s, e) /\ Go(s, e, {}) /\ Write(s, {e}, "dispatched")
        /\ UNCHANGED <<seq, attempts, writer, lock, faults, deaths, tries>>
    BY <1>2 DEF MarkDispatched, writes, bounds
  <2> HIDE DEF e
  <2>3. current[s] \in {None, e}
    BY DEF e
  <2> QED BY <1>0, <2>1, <2>2, <2>3, CloseKeeps
<1>3. ASSUME Caught(s) PROVE IInv'
  <2> DEFINE e == current[s]
             st == IF claimed[s][e] >= MaxAttempts THEN "failed" ELSE "pending"
  <2>1. pc[s] = "caught" /\ e \in Events /\ e \in Rows
    BY <1>0, <1>3 DEF Caught, SweepOK
  <2>2. BlockOf(s, e) \in SUBSET Aggregates
    BY <2>1 DEF BlockOf, Aggregates
  <2>3. Handled(s, e) /\ Go(s, e, BlockOf(s, e)) /\ Write(s, {e}, st)
        /\ UNCHANGED <<seq, attempts, writer, lock, faults, deaths, tries>>
    BY <1>3 DEF Caught, writes, bounds
  <2>4. st \in States
    BY <1>0
  <2> HIDE DEF e, st
  <2>5. current[s] \in {None, e}
    BY DEF e
  <2> QED BY <1>0, <2>1, <2>2, <2>3, <2>4, <2>5, CloseKeeps
<1> QED BY <1>1, <1>2, <1>3

(* A publish uses the claim up.                                            *)
LEMMA CallKeeps ==
    ASSUME IInv, NEW s \in Sweeps, NEW e \in Events, NEW step \in {"mark", "caught"},
           Call(s, e, step), faults' \in Nat
    PROVE  IInv'
<1>1. /\ pc[s] = "rows" /\ claimed[s][e] > 0 /\ ~(claimed[s][e] > MaxAttempts)
      /\ pc' = [pc EXCEPT ![s] = step]
      /\ current' = [current EXCEPT ![s] = e] /\ tries' = [tries EXCEPT ![e] = @ + 1]
      /\ UNCHANGED <<status, seq, attempts, stale, writer, lock, blocked, claimed, deaths, late>>
  BY DEF Call, Mine, TooMany, Goto, table, writes
<1>2. current[s] = None /\ e \in Rows /\ claimed[s][e] \in Nat /\ MaxAttempts \in Nat
  BY <1>1, LimitsAssumption DEF IInv, ClaimInv, SweepOK, TypeOK
<1>3. TypeOK'
  <2>1. pc' \in [Sweeps -> Points] /\ current' \in [Sweeps -> Events \cup {None}]
        /\ tries' \in [Events -> Nat]
    BY <1>1 DEF IInv, TypeOK, Points
  <2> QED BY <1>1, <2>1 DEF IInv, TypeOK, Points
<1>4. Rows' = Rows /\ NoClaim' = NoClaim
  BY <1>1 DEF Rows, NoClaim
<1>5. WriterInv'
  BY <1>1, <1>4, WriterKept DEF IInv
<1>6. /\ pc'[s] = step /\ current'[s] = e
      /\ \A t \in Sweeps : t # s => pc'[t] = pc[t] /\ current'[t] = current[t]
      /\ tries'[e] = tries[e] + 1 /\ \A f \in Events : f # e => tries'[f] = tries[f]
  BY <1>1 DEF IInv, TypeOK
<1>7. ClaimInv'
  <2>1. ASSUME NEW t \in Sweeps PROVE SweepOK(t)'
    <3>1. SweepOK(t)
      BY DEF IInv, ClaimInv
    <3>2. CASE t = s
      BY <1>1, <1>4, <1>6, <3>1, <3>2 DEF SweepOK
    <3>3. CASE t # s
      BY <1>1, <1>4, <1>6, <3>1, <3>3 DEF SweepOK
    <3> QED BY <3>2, <3>3
  <2> QED BY <1>1, <1>4, <2>1 DEF ClaimInv, IInv
<1>8. ASSUME NEW f \in Events
      PROVE  /\ tries'[f] + Cardinality(Out(f)') <= attempts'[f]
             /\ tries'[f] + Cardinality(Good(f)') <= MaxAttempts
  <2>1. CASE f # e
    <3>1. Out(f)' \subseteq Out(f) /\ Good(f)' \subseteq Good(f)
      BY <1>1, <1>2, <1>6, <2>1, EventsAssumption DEF Out, Good
    <3>2. attempts'[f] >= attempts[f]
      BY <1>1 DEF IInv, TypeOK
    <3> QED BY <1>3, <1>6, <2>1, <3>1, <3>2, BudgetKept
  <2>2. CASE f = e
    <3>1. /\ s \in Out(e) /\ s \in Good(e)
          /\ Out(e)' = Out(e) \ {s} /\ Good(e)' = Good(e) \ {s}
      BY <1>1, <1>2, <1>6, EventsAssumption DEF Out, Good
    <3>2. /\ Cardinality(Out(e)') = Cardinality(Out(e)) - 1
          /\ Cardinality(Good(e)') = Cardinality(Good(e)) - 1
      BY <3>1, OutFinite, FS_RemoveElement
    <3>3. /\ tries[e] \in Nat /\ attempts[e] \in Nat /\ attempts'[e] = attempts[e]
          /\ tries[e] + Cardinality(Out(e)) <= attempts[e]
          /\ tries[e] + Cardinality(Good(e)) <= MaxAttempts
      BY <1>1 DEF IInv, TypeOK, BudgetInv
    <3> QED BY <1>2, <1>6, <2>2, <3>2, <3>3, OutFinite
  <2> QED BY <2>1, <2>2
<1> QED BY <1>3, <1>5, <1>7, <1>8 DEF IInv, BudgetInv

LEMMA MarkFailsKeeps ==
    ASSUME IInv, NEW s \in Sweeps, MarkFails(s)
    PROVE  IInv'
<1>1. /\ pc[s] = "mark" /\ pc' = [pc EXCEPT ![s] = "caught"] /\ faults' = faults + 1
      /\ UNCHANGED <<status, seq, attempts, stale, writer, lock, blocked, claimed, current,
                     deaths, tries, late>>
  BY DEF MarkFails, Goto, table, writes
<1>2. TypeOK'
  <2>1. pc' \in [Sweeps -> Points]
    BY <1>1 DEF IInv, TypeOK, Points
  <2> QED BY <1>1, <2>1 DEF IInv, TypeOK, Points
<1>3. Rows' = Rows /\ NoClaim' = NoClaim
  BY <1>1 DEF Rows, NoClaim
<1>4. ClaimInv'
  <2>1. ASSUME NEW t \in Sweeps PROVE SweepOK(t)'
    <3>1. SweepOK(t) /\ pc'[t] = IF t = s THEN "caught" ELSE pc[t]
      BY <1>1 DEF IInv, ClaimInv, TypeOK
    <3> QED BY <1>1, <1>3, <3>1 DEF SweepOK
  <2> QED BY <1>1, <1>3, <2>1 DEF ClaimInv, IInv
<1>5. \A e \in Events : attempts'[e] >= attempts[e]
  BY <1>1 DEF IInv, TypeOK
<1> QED BY <1>1, <1>2, <1>3, <1>4, <1>5, WriterKept, ClaimsKept DEF IInv

LEMMA SweepDiesKeeps ==
    ASSUME IInv, NEW s \in Sweeps, SweepDies(s)
    PROVE  IInv'
<1>1. /\ pc' = [pc EXCEPT ![s] = "off"] /\ blocked' = [blocked EXCEPT ![s] = {}]
      /\ claimed' = [claimed EXCEPT ![s] = NoClaim] /\ current' = [current EXCEPT ![s] = None]
      /\ deaths' = deaths + 1
      /\ UNCHANGED <<status, seq, attempts, stale, writer, lock, faults, tries, late>>
  BY DEF SweepDies, Goto, table, writes
<1>2. NoClaim \in [Events -> Nat] /\ NoClaim' = NoClaim
  BY DEF NoClaim
<1>3. TypeOK'
  <2>1. pc' \in [Sweeps -> Points] /\ claimed' \in [Sweeps -> [Events -> Nat]]
        /\ blocked' \in [Sweeps -> SUBSET Aggregates] /\ current' \in [Sweeps -> Events \cup {None}]
    BY <1>1, <1>2 DEF IInv, TypeOK, Points
  <2> QED BY <1>1, <2>1 DEF IInv, TypeOK, Points
<1>4. Rows' = Rows
  BY <1>1 DEF Rows
<1>5. /\ pc'[s] = "off" /\ claimed'[s] = NoClaim /\ current'[s] = None
      /\ \A t \in Sweeps : t # s => /\ pc'[t] = pc[t] /\ claimed'[t] = claimed[t]
                                     /\ current'[t] = current[t]
  BY <1>1 DEF IInv, TypeOK
<1>6. ClaimInv'
  <2>1. ASSUME NEW t \in Sweeps PROVE SweepOK(t)'
    <3>1. SweepOK(t)
      BY DEF IInv, ClaimInv
    <3>2. CASE t = s
      <4>1. \A e \in Events : ~(claimed'[s][e] > 0)
        BY <1>5 DEF NoClaim
      <4> QED BY <1>2, <1>5, <3>2, <4>1 DEF SweepOK
    <3>3. CASE t # s
      BY <1>2, <1>4, <1>5, <3>1, <3>3 DEF SweepOK
    <3> QED BY <3>2, <3>3
  <2> QED BY <1>1, <1>4, <2>1 DEF ClaimInv, IInv
<1>7. ASSUME NEW e \in Events
      PROVE  /\ tries'[e] + Cardinality(Out(e)') <= attempts'[e]
             /\ tries'[e] + Cardinality(Good(e)') <= MaxAttempts
  <2>0. ~(claimed'[s][e] > 0)
    BY <1>5 DEF NoClaim
  <2>1. Out(e)' \subseteq Out(e) /\ Good(e)' \subseteq Good(e)
    BY <1>5, <2>0 DEF Out, Good
  <2>2. tries'[e] = tries[e] /\ attempts'[e] >= attempts[e]
    BY <1>1 DEF IInv, TypeOK
  <2> QED BY <1>3, <2>1, <2>2, BudgetKept
<1> QED BY <1>1, <1>3, <1>4, <1>6, <1>7, WriterKept DEF IInv, BudgetInv

LEMMA AgeKeeps ==
    ASSUME IInv, NEW e \in Events, Age(e)
    PROVE  IInv'
<1>1. /\ status[e] = "processing" /\ stale' = [stale EXCEPT ![e] = TRUE]
      /\ UNCHANGED <<status, seq, attempts, writer, lock, pc, blocked, claimed, current,
                     faults, deaths, tries, late>>
  BY DEF Age, writes, sweep, bounds
<1>2. TypeOK'
  BY <1>1 DEF IInv, TypeOK
<1>3. Rows' = Rows /\ e \in Rows /\ NoClaim' = NoClaim
  BY <1>1 DEF Rows, NoClaim
<1>4. ClaimInv'
  <2>1. ASSUME NEW t \in Sweeps PROVE SweepOK(t)'
    <3>1. SweepOK(t)
      BY DEF IInv, ClaimInv
    <3> QED BY <1>1, <1>3, <3>1 DEF SweepOK
  <2>2. \A f \in Events : stale'[f] => f \in Rows
    BY <1>1, <1>3 DEF IInv, TypeOK, ClaimInv
  <2> QED BY <1>3, <2>1, <2>2 DEF ClaimInv
<1>5. \A f \in Events : attempts'[f] >= attempts[f]
  BY <1>1 DEF IInv, TypeOK
<1> QED BY <1>1, <1>2, <1>3, <1>4, <1>5, WriterKept, ClaimsKept DEF IInv

-----------------------------------------------------------------------------
(* The theorems                                                            *)

LEMMA InitHolds == Init => IInv
<1> SUFFICES ASSUME Init PROVE IInv
  OBVIOUS
<1>1. TypeOK
  <2>1. NoClaim \in [Events -> Nat]
    BY DEF NoClaim
  <2> QED BY <2>1 DEF Init, TypeOK
<1>2. Rows = {} /\ \A a : Of(a) = {}
  BY DEF Init, Rows, Of
<1>3. WriterInv
  <2>1. Cardinality({}) = 0
    BY FS_EmptySet
  <2>2. ASSUME NEW a \in Aggregates PROVE {seq[e] : e \in Of(a)} = 1..Cardinality(Of(a))
    BY <1>2, <2>1
  <2>3. \A e \in Events : writer[e] = "idle"
    BY DEF Init
  <2> QED BY <1>2, <2>2, <2>3 DEF WriterInv
<1>4. ClaimInv
  <2>1. ASSUME NEW s \in Sweeps PROVE SweepOK(s)
    BY DEF Init, SweepOK, NoClaim
  <2> QED BY <2>1 DEF ClaimInv, Init
<1>5. BudgetInv
  <2>1. ASSUME NEW e \in Events PROVE Out(e) = {} /\ Good(e) = {} /\ tries[e] = 0 /\ attempts[e] = 0
    BY DEF Init, Out, Good, NoClaim
  <2>2. Cardinality({}) = 0 /\ MaxAttempts \in Nat
    BY FS_EmptySet, LimitsAssumption
  <2> QED BY <2>1, <2>2 DEF BudgetInv
<1> QED BY <1>1, <1>3, <1>4, <1>5 DEF IInv

LEMMA NextKeeps == IInv /\ [Next]_vars => IInv'
<1> SUFFICES ASSUME IInv, [Next]_vars PROVE IInv'
  OBVIOUS
<1>1. ASSUME NEW e \in Events, WriteStep(e) PROVE IInv'
  BY <1>1, WriteStepKeeps
<1>2. ASSUME NEW e \in Events, Age(e) PROVE IInv'
  BY <1>2, AgeKeeps
<1>3. ASSUME NEW s \in Sweeps, SweepProgress(s) PROVE IInv'
  <2>1. CASE StartSweep(s) \/ FailSpent(s) \/ Reclaim(s) \/ ReadBlocked(s)
    BY <2>1, PreludeKeeps
  <2>2. CASE Claim(s)
    BY <2>2, ClaimKeeps
  <2>3. ASSUME NEW e \in Events, Release(s, e) PROVE IInv'
    BY <2>3, ReleaseKeeps
  <2>4. ASSUME NEW e \in Events, Publish(s, e) PROVE IInv'
    <3>1. Call(s, e, "mark") /\ faults' \in Nat
      BY <2>4 DEF Publish, IInv, TypeOK
    <3> QED BY <3>1, CallKeeps
  <2>5. CASE (\E e \in Events : GiveUp(s, e)) \/ MarkDispatched(s) \/ Caught(s)
    BY <2>5, HandlersKeep
  <2> QED BY <1>3, <2>1, <2>2, <2>3, <2>4, <2>5 DEF SweepProgress
<1>4. ASSUME NEW s \in Sweeps, SweepFault(s) PROVE IInv'
  <2>1. ASSUME NEW e \in Events, PublishThrows(s, e) PROVE IInv'
    <3>1. Call(s, e, "caught") /\ faults' \in Nat
      BY <2>1 DEF PublishThrows, IInv, TypeOK
    <3> QED BY <3>1, CallKeeps
  <2> QED BY <1>4, <2>1, MarkFailsKeeps, SweepDiesKeeps DEF SweepFault
<1>5. CASE UNCHANGED vars
  <2>1. UNCHANGED <<status, seq, attempts, stale, writer, lock, pc, blocked, claimed,
                    current, faults, deaths, tries, late>>
    BY <1>5 DEF vars, table, writes, sweep, bounds
  <2>2. TypeOK' /\ Rows' = Rows /\ NoClaim' = NoClaim
    BY <2>1 DEF IInv, TypeOK, Rows, NoClaim
  <2>3. ASSUME NEW t \in Sweeps PROVE SweepOK(t)'
    <3>1. SweepOK(t)
      BY DEF IInv, ClaimInv
    <3> QED BY <2>1, <2>2, <3>1 DEF SweepOK
  <2>4. ClaimInv'
    BY <2>1, <2>2, <2>3 DEF ClaimInv, IInv
  <2>5. \A f \in Events : attempts'[f] >= attempts[f]
    BY <2>1 DEF IInv, TypeOK
  <2> QED BY <2>1, <2>2, <2>4, <2>5, WriterKept, ClaimsKept DEF IInv
<1> QED BY <1>1, <1>2, <1>3, <1>4, <1>5 DEF Next

(* The strengthening of the safety invariants holds in every reachable     *)
(* state of the writers and the sweeps.                                    *)
THEOREM IndCorrect == Spec => []IInv
<1> QED BY InitHolds, NextKeeps, PTL DEF Spec

(* The columns keep their types; above all, no release ever takes the      *)
(* attempts of a row below zero.                                           *)
THEOREM TypeCorrect == Spec => []TypeOK
<1>1. IInv => TypeOK
  BY DEF IInv
<1> QED BY <1>1, IndCorrect, PTL

(* The advisory lock and MAX(seq) + 1 number the rows of an aggregate      *)
(* 1, 2, 3... for any number of concurrent transactions and rollbacks.     *)
THEOREM SeqsAreDenseCorrect == Spec => []SeqsAreDense
<1>1. IInv => SeqsAreDense
  BY DEF IInv, WriterInv, SeqsAreDense
<1> QED BY <1>1, IndCorrect, PTL

(* No event is handed to the bus more than MaxAttempts times, whatever     *)
(* sweeps overlap, die, hold stale claims or give them back.               *)
THEOREM DeliveryBudgetCorrect == Spec => []DeliveryBudget
<1>1. ASSUME IInv, NEW e \in Events PROVE tries[e] <= MaxAttempts
  <2>1. tries[e] \in Nat /\ tries[e] + Cardinality(Good(e)) <= MaxAttempts /\ MaxAttempts \in Nat
    BY <1>1, LimitsAssumption DEF IInv, TypeOK, BudgetInv
  <2> QED BY <2>1, OutFinite
<1>2. IInv => DeliveryBudget
  BY <1>1 DEF DeliveryBudget
<1> QED BY <1>2, IndCorrect, PTL

(* What a sweep knows of the failures: from its read of the failed         *)
(* aggregates on, its blockedSet names every one but those of the rows it  *)
(* was too late to see fail.                                               *)
Aware(t) ==
    HasRead(t) => \A f \in Events :
        status[f] = "failed" /\ t \notin late[f] => Aggregate[f] \in blocked[t]
AwareInv == \A t \in Sweeps : Aware(t)

(* A row written by one sweep: the others knew of its failure, or are late *)
(* from now on.                                                            *)
LEMMA WriteAware ==
    ASSUME TypeOK, NEW s, NEW S, NEW st, Write(s, S, st),
           NEW t \in Sweeps, t # s, Aware(t), pc'[t] = pc[t], blocked'[t] = blocked[t]
    PROVE  Aware(t)'
<1>1. HasRead(t)' <=> HasRead(t)
  BY DEF HasRead
<1>2. ASSUME HasRead(t), NEW f \in Events, status'[f] = "failed", t \notin late'[f]
      PROVE  status[f] = "failed" /\ t \notin late[f]
  <2>1. CASE f \notin S
    BY <1>2, <2>1 DEF Write, Noted
  <2>2. CASE f \in S
    <3>1. st = "failed"
      BY <1>2, <2>2 DEF Write
    <3>2. late'[f] = (IF status[f] = "failed" THEN late[f]
                      ELSE {r \in Sweeps : HasRead(r)}) \ {s}
      BY <2>2, <3>1 DEF Write, Noted
    <3> QED BY <1>2, <3>2
  <2> QED BY <2>1, <2>2
<1> QED BY <1>1, <1>2 DEF Aware

(* A row of the batch is handled: a failure of it joins the blockedSet.    *)
LEMMA GoAware ==
    ASSUME TypeOK, AwareInv, NEW s \in Sweeps, NEW e \in Events, NEW B \in SUBSET Aggregates,
           pc[s] \in {"rows", "mark", "caught"}, Go(s, e, B), NEW st, Write(s, {e}, st),
           st = "failed" => Aggregate[e] \in B
    PROVE  AwareInv'
<1> DEFINE last == \A f \in Events \ {e} : claimed[s][f] = 0
<1>1. /\ pc'[s] = (IF last THEN "off" ELSE "rows")
      /\ blocked'[s] = (IF last THEN {} ELSE blocked[s] \cup B)
      /\ \A t \in Sweeps : t # s => pc'[t] = pc[t] /\ blocked'[t] = blocked[t]
  BY DEF Go, Goto, TypeOK
<1>2. /\ \A f \in Events : status'[f] = IF f = e THEN st ELSE status[f]
      /\ \A f \in Events : f # e => late'[f] = late[f]
  BY DEF Write, Noted
<1> HIDE DEF last
<1>3. ASSUME NEW t \in Sweeps, t # s PROVE Aware(t)'
  BY <1>1, <1>3, WriteAware DEF AwareInv
<1>4. Aware(s)'
  <2>1. CASE last
    BY <1>1, <2>1 DEF Aware, HasRead
  <2>2. CASE ~last
    <3>1. HasRead(s) /\ Aware(s)
      BY DEF HasRead, AwareInv
    <3>2. ASSUME NEW f \in Events, status'[f] = "failed", s \notin late'[f]
          PROVE  Aggregate[f] \in blocked'[s]
      <4>1. CASE f = e
        BY <1>1, <1>2, <2>2, <3>2, <4>1
      <4>2. CASE f # e
        BY <1>1, <1>2, <2>2, <3>1, <3>2, <4>2 DEF Aware
      <4> QED BY <4>1, <4>2
    <3> QED BY <3>2 DEF Aware
  <2> QED BY <2>1, <2>2
<1> QED BY <1>3, <1>4 DEF AwareInv

LEMMA AwareKept == IInv /\ AwareInv /\ [Next]_vars => AwareInv'
<1> SUFFICES ASSUME IInv, AwareInv, [Next]_vars PROVE AwareInv'
  OBVIOUS
<1>0. TypeOK
  BY DEF IInv
(* Steps that write no row, and do not pass the read.                      *)
<1>1. ASSUME late' = late, \A f \in Events : status'[f] = "failed" => status[f] = "failed",
             NEW t \in Sweeps, HasRead(t)' => HasRead(t) /\ blocked'[t] = blocked[t]
      PROVE  Aware(t)'
  BY <1>1 DEF Aware, AwareInv
<1>2. ASSUME NEW e \in Events, WriteStep(e) \/ Age(e) PROVE AwareInv'
  <2>1. UNCHANGED <<pc, blocked, late>>
        /\ \A f \in Events : status'[f] = "failed" => status[f] = "failed"
    BY <1>0, <1>2 DEF WriteStep, Lock, ReadMax, Commit, Rollback, Age, table, sweep, TypeOK
  <2> QED BY <1>1, <2>1 DEF AwareInv, HasRead
<1>3. ASSUME NEW s \in Sweeps, StartSweep(s) \/ SweepDies(s) PROVE AwareInv'
  <2>1. /\ UNCHANGED <<status, late>> /\ pc'[s] \in {"ceiling", "off"}
        /\ \A t \in Sweeps : t # s => pc'[t] = pc[t] /\ blocked'[t] = blocked[t]
    BY <1>0, <1>3 DEF StartSweep, SweepDies, Goto, table, TypeOK
  <2> QED BY <1>1, <2>1 DEF AwareInv, HasRead
<1>4. ASSUME NEW s \in Sweeps, FailSpent(s) \/ Reclaim(s) PROVE AwareInv'
  <2>1. /\ \E S, st : Write(s, S, st)
        /\ pc'[s] \in {"reclaim", "blocked"}
        /\ \A t \in Sweeps : t # s => pc'[t] = pc[t] /\ blocked'[t] = blocked[t]
    BY <1>0, <1>4 DEF FailSpent, Reclaim, Goto, TypeOK
  <2>2. ASSUME NEW t \in Sweeps, t # s PROVE Aware(t)'
    BY <1>0, <2>1, <2>2, WriteAware DEF AwareInv
  <2>3. Aware(s)'
    BY <2>1 DEF Aware, HasRead
  <2> QED BY <2>2, <2>3 DEF AwareInv
<1>5. ASSUME NEW s \in Sweeps, ReadBlocked(s) PROVE AwareInv'
  <2>1. /\ status' = status /\ late' = [e \in Events |-> late[e] \ {s}]
        /\ blocked'[s] = {Aggregate[e] : e \in {f \in Events : status[f] = "failed"}}
        /\ \A t \in Sweeps : t # s => pc'[t] = pc[t] /\ blocked'[t] = blocked[t]
    BY <1>0, <1>5 DEF ReadBlocked, FailedAggregates, Goto, table, TypeOK
  <2>2. ASSUME NEW t \in Sweeps, t # s PROVE Aware(t)'
    BY <2>1, <2>2 DEF Aware, AwareInv, HasRead
  <2>3. Aware(s)'
    BY <2>1 DEF Aware
  <2> QED BY <2>2, <2>3 DEF AwareInv
<1>6. ASSUME NEW s \in Sweeps, Claim(s) PROVE AwareInv'
  <2>1. /\ Write(s, Batch, "processing") /\ pc[s] = "claim" /\ pc'[s] \in {"off", "rows"}
        /\ pc'[s] = "rows" => blocked' = blocked
        /\ \A t \in Sweeps : t # s => pc'[t] = pc[t] /\ blocked'[t] = blocked[t]
    BY <1>0, <1>6 DEF Claim, Goto, TypeOK
  <2>2. ASSUME NEW t \in Sweeps, t # s PROVE Aware(t)'
    BY <1>0, <2>1, <2>2, WriteAware DEF AwareInv
  <2>3. \A f \in Events : status'[f] = "failed" => status[f] = "failed" /\ late'[f] = late[f]
    BY <2>1 DEF Write, Noted
  <2>4. Aware(s) /\ HasRead(s)
    BY <2>1 DEF AwareInv, HasRead
  <2>5. Aware(s)'
    BY <2>1, <2>3, <2>4 DEF Aware, HasRead
  <2> QED BY <2>2, <2>5 DEF AwareInv
<1>7. ASSUME NEW s \in Sweeps, NEW e \in Events, Release(s, e) \/ GiveUp(s, e) PROVE AwareInv'
  <2>1. pc[s] = "rows" /\ {} \in SUBSET Aggregates /\ {Aggregate[e]} \in SUBSET Aggregates
    BY <1>7 DEF Release, GiveUp, Mine, Aggregates
  <2>2. CASE Release(s, e)
    BY <1>0, <2>1, <2>2, GoAware DEF Release
  <2>3. CASE GiveUp(s, e)
    BY <1>0, <2>1, <2>3, GoAware DEF GiveUp
  <2> QED BY <1>7, <2>2, <2>3
<1>8. ASSUME NEW s \in Sweeps, NEW e \in Events, Publish(s, e) \/ PublishThrows(s, e) PROVE AwareInv'
  <2>1. /\ pc[s] = "rows" /\ UNCHANGED <<status, blocked, late>>
        /\ \A t \in Sweeps : t # s => pc'[t] = pc[t]
    BY <1>0, <1>8 DEF Publish, PublishThrows, Call, Mine, Goto, table, TypeOK
  <2> QED BY <1>1, <2>1 DEF AwareInv, HasRead
<1>9. ASSUME NEW s \in Sweeps, MarkDispatched(s) \/ Caught(s) PROVE AwareInv'
  <2> DEFINE e == current[s]
             st == IF claimed[s][e] >= MaxAttempts THEN "failed" ELSE "pending"
  <2>1. e \in Events /\ pc[s] \in {"mark", "caught"} /\ {} \in SUBSET Aggregates
    BY <1>9 DEF IInv, ClaimInv, SweepOK, MarkDispatched, Caught
  <2>2. BlockOf(s, e) \in SUBSET Aggregates /\ (st = "failed" => Aggregate[e] \in BlockOf(s, e))
    BY <2>1 DEF BlockOf, Aggregates
  <2>3. \/ Go(s, e, {}) /\ Write(s, {e}, "dispatched")
        \/ Go(s, e, BlockOf(s, e)) /\ Write(s, {e}, st)
    BY <1>9 DEF MarkDispatched, Caught
  <2> HIDE DEF e, st
  <2> QED BY <1>0, <2>1, <2>2, <2>3, GoAware
<1>10. ASSUME NEW s \in Sweeps, MarkFails(s) PROVE AwareInv'
  <2>1. /\ pc[s] = "mark" /\ UNCHANGED <<status, blocked, late>>
        /\ \A t \in Sweeps : t # s => pc'[t] = pc[t]
    BY <1>0, <1>10 DEF MarkFails, Goto, table, TypeOK
  <2> QED BY <1>1, <2>1 DEF AwareInv, HasRead
<1>11. CASE UNCHANGED vars
  BY <1>1, <1>11 DEF vars, table, sweep, AwareInv, HasRead
<1> QED BY <1>2, <1>3, <1>4, <1>5, <1>6, <1>7, <1>8, <1>9, <1>10, <1>11
        DEF Next, SweepProgress, SweepFault

(* An event is published after an event of its aggregate failed only by a  *)
(* sweep that had read the failed aggregates before that, and did not fail *)
(* the row itself: for any number of sweeps that overlap, die and reclaim. *)
THEOREM FailureBlocksCorrect == Spec => FailureBlocks
<1>1. Init => AwareInv
  BY DEF Init, AwareInv, Aware, HasRead
<1>2. ASSUME IInv, AwareInv, [Next]_vars,
             NEW s \in Sweeps, NEW e \in Events, current[s] # e, current'[s] = e,
             NEW f \in Of(Aggregate[e]), status[f] = "failed"
      PROVE  s \in late[f]
  <2>0. TypeOK /\ e # None
    BY <1>2, EventsAssumption DEF IInv
  <2>1. PICK t \in Sweeps : \E g \in Events : Publish(t, g) \/ PublishThrows(t, g)
    <3>1. CASE \E t \in Sweeps : \E g \in Events : Publish(t, g) \/ PublishThrows(t, g)
      BY <3>1
    <3>2. CASE current'[s] = current[s] \/ current'[s] = None
      BY <1>2, <2>0, <3>2
    <3>3. ASSUME NEW t \in Sweeps, NEW g, Handled(t, g)
          PROVE  current'[s] = current[s] \/ current'[s] = None
      BY <2>0, <3>3 DEF Handled, TypeOK
    <3>4. ASSUME NEW t \in Sweeps, SweepDies(t)
          PROVE  current'[s] = current[s] \/ current'[s] = None
      BY <2>0, <3>4 DEF SweepDies, TypeOK
    <3>5. ASSUME NEW t \in Sweeps,
                 (\E g \in Events : Release(t, g) \/ GiveUp(t, g)) \/ MarkDispatched(t) \/ Caught(t)
          PROVE  \E g : Handled(t, g)
      BY <3>5 DEF Release, GiveUp, MarkDispatched, Caught
    <3> QED BY <1>2, <3>1, <3>2, <3>3, <3>4, <3>5
            DEF Next, WriteStep, Lock, ReadMax, Commit, Rollback, Age, SweepProgress, SweepFault,
                StartSweep, FailSpent, Reclaim, ReadBlocked, Claim, MarkFails, vars, sweep
  <2>2. PICK g \in Events : Publish(t, g) \/ PublishThrows(t, g)
    BY <2>1
  <2>3. /\ pc[t] = "rows" /\ Aggregate[g] \notin blocked[t]
        /\ current' = [current EXCEPT ![t] = g]
    BY <2>2 DEF Publish, PublishThrows, Call, Mine
  <2>4. t = s /\ g = e
    BY <1>2, <2>0, <2>3 DEF TypeOK
  <2> QED BY <1>2, <2>3, <2>4 DEF AwareInv, Aware, HasRead, Of, Rows
<1>3. IInv /\ AwareInv /\ [Next]_vars
      => [\A s \in Sweeps, e \in Events :
             current[s] # e /\ current'[s] = e
               => \A f \in Of(Aggregate[e]) : status[f] = "failed" => s \in late[f]]_vars
  BY <1>2
<1> QED BY <1>1, <1>3, AwareKept, IndCorrect, PTL DEF Spec, FailureBlocks
-----------------------------------------------------------------------------
(* The event log                                                           *)

(* The numbers tell the rows of an aggregate apart, and what is about to   *)
(* be marked has been published.                                           *)
Distinct ==
    \A e, f \in Rows : Aggregate[e] = Aggregate[f] /\ seq[e] = seq[f] => e = f
Published ==
    \A s \in Sweeps : pc[s] \in {"mark", "caught"} => tries[current[s]] > 0
RInv == IInv /\ Distinct /\ Published

(* The rows S, and none but these, get the status st; no other trace is    *)
(* left of the step in the log.                                            *)
Rewrite(S, st) ==
    /\ S \subseteq Rows /\ st \in States
    /\ st = "dispatched" => \A e \in S : tries[e] > 0
    /\ \A e \in Events : status'[e] = IF e \in S THEN st ELSE status[e]
    /\ \A e \in Rows : seq'[e] = seq[e]
    /\ tries' = tries

Calling(s, e) == \E step \in {"mark", "caught"} : Call(s, e, step)

(* Every step commits an event, publishes one or rewrites rows.            *)
LEMMA StepKinds ==
    ASSUME RInv, [Next]_vars
    PROVE  \/ \E e \in Events : Commit(e)
           \/ \E s \in Sweeps, e \in Events : Calling(s, e)
           \/ \E S, st : Rewrite(S, st)
<1> USE DEF RInv
<1>0. /\ "pending" \in States /\ "processing" \in States /\ "dispatched" \in States
      /\ "failed" \in States
  BY DEF States
<1>1. ASSUME UNCHANGED <<status, tries>>, \A e \in Rows : seq'[e] = seq[e]
      PROVE  Rewrite({}, "pending")
  BY <1>0, <1>1 DEF Rewrite
<1>2. ASSUME NEW e \in Events, Lock(e) \/ ReadMax(e) \/ Rollback(e) \/ Age(e)
      PROVE  Rewrite({}, "pending")
  <2>1. CASE Lock(e) \/ Age(e)
    BY <1>1, <2>1 DEF Lock, Age, table
  <2>2. CASE ReadMax(e) \/ Rollback(e)
    <3>1. e \notin Rows /\ UNCHANGED <<status, tries>>
          /\ \A f \in Events : f # e => seq'[f] = seq[f]
      BY <2>2 DEF ReadMax, Rollback, IInv, WriterInv, TypeOK
    <3> QED BY <1>1, <3>1 DEF Rows
  <2> QED BY <1>2, <2>1, <2>2
<1>3. ASSUME NEW s \in Sweeps, StartSweep(s) \/ ReadBlocked(s) \/ MarkFails(s) \/ SweepDies(s)
      PROVE  Rewrite({}, "pending")
  BY <1>1, <1>3 DEF StartSweep, ReadBlocked, MarkFails, SweepDies, table
<1>4. ASSUME NEW s, NEW S, S \subseteq Rows, NEW st \in States, Write(s, S, st), UNCHANGED <<seq, tries>>,
             st = "dispatched" => \A e \in S : tries[e] > 0
      PROVE  Rewrite(S, st)
  BY <1>4 DEF Rewrite, Write
<1>5. ASSUME NEW s \in Sweeps, FailSpent(s) PROVE Rewrite(Stale \cap Spent, "failed")
  BY <1>0, <1>4, <1>5, StaleAreRows DEF FailSpent
<1>6. ASSUME NEW s \in Sweeps, Reclaim(s) PROVE Rewrite(Stale \ Spent, "pending")
  BY <1>0, <1>4, <1>6, StaleAreRows DEF Reclaim
<1>7. ASSUME NEW s \in Sweeps, Claim(s) PROVE Rewrite(Batch, "processing")
  <2>1. Batch \subseteq Rows
    BY DEF Batch, Pending, Rows
  <2> QED BY <1>0, <1>4, <1>7, <2>1 DEF Claim
<1>8. ASSUME NEW s \in Sweeps, NEW e \in Events, Release(s, e) \/ GiveUp(s, e)
      PROVE  \E st : Rewrite({e}, st)
  <2>1. {e} \subseteq Rows /\ UNCHANGED <<seq, tries>>
    BY <1>8 DEF Release, GiveUp, Mine, IInv, ClaimInv, SweepOK
  <2>2. Write(s, {e}, "pending") \/ Write(s, {e}, "failed")
    BY <1>8 DEF Release, GiveUp
  <2> QED BY <1>0, <1>4, <2>1, <2>2
<1>9. ASSUME NEW s \in Sweeps, MarkDispatched(s) PROVE Rewrite({current[s]}, "dispatched")
  <2>1. pc[s] = "mark" /\ Write(s, {current[s]}, "dispatched") /\ UNCHANGED <<seq, tries>>
    BY <1>9 DEF MarkDispatched
  <2>2. {current[s]} \subseteq Rows /\ tries[current[s]] > 0
    BY <2>1 DEF IInv, ClaimInv, SweepOK, Published
  <2> QED BY <1>0, <1>4, <2>1, <2>2
<1>10. ASSUME NEW s \in Sweeps, Caught(s) PROVE \E st : Rewrite({current[s]}, st)
  <2>1. pc[s] = "caught" /\ UNCHANGED <<seq, tries>>
        /\ (Write(s, {current[s]}, "failed") \/ Write(s, {current[s]}, "pending"))
    BY <1>10 DEF Caught
  <2>2. {current[s]} \subseteq Rows
    BY <2>1 DEF IInv, ClaimInv, SweepOK
  <2> QED BY <1>0, <1>4, <2>1, <2>2
<1>11. ASSUME NEW s \in Sweeps, NEW e \in Events, Publish(s, e) \/ PublishThrows(s, e)
       PROVE  Calling(s, e)
  BY <1>11 DEF Publish, PublishThrows, Calling
<1>12. CASE UNCHANGED vars
  BY <1>1, <1>12 DEF vars, table
<1> QED BY <1>2, <1>3, <1>5, <1>6, <1>7, <1>8, <1>9, <1>10, <1>11, <1>12
        DEF Next, WriteStep, SweepProgress, SweepFault

LEMMA RewriteKeepsRows ==
    ASSUME NEW S, NEW st, Rewrite(S, st)
    PROVE  Rows' = Rows /\ \A a : Of(a)' = Of(a)
<1>1. ASSUME NEW e \in Events PROVE status'[e] = "absent" <=> status[e] = "absent"
  BY DEF Rewrite, States, Rows
<1>2. Rows' = Rows
  BY <1>1 DEF Rows
<1> QED BY <1>2 DEF Of

LEMMA CommitAdds ==
    ASSUME IInv, NEW e \in Events, Commit(e)
    PROVE  /\ e \notin Rows /\ Rows' = Rows \cup {e} /\ UNCHANGED <<seq, tries, pc, current>>
           /\ Of(Aggregate[e])' = Of(Aggregate[e]) \cup {e} /\ e \notin Of(Aggregate[e])
           /\ \A a : a # Aggregate[e] => Of(a)' = Of(a)
           /\ Cardinality(Of(Aggregate[e])') = Cardinality(Of(Aggregate[e])) + 1
           /\ seq[e] = Cardinality(Of(Aggregate[e])) + 1
<1>1. /\ e \notin Rows /\ Rows' = Rows \cup {e} /\ UNCHANGED <<seq, tries, pc, current>>
      /\ seq[e] = Cardinality(Of(Aggregate[e])) + 1
  BY CommitKeeps DEF Commit, IInv, WriterInv, sweep
<1>2. /\ Of(Aggregate[e])' = Of(Aggregate[e]) \cup {e} /\ e \notin Of(Aggregate[e])
      /\ \A a : a # Aggregate[e] => Of(a)' = Of(a)
  BY <1>1 DEF Of
<1>3. Cardinality(Of(Aggregate[e])') = Cardinality(Of(Aggregate[e])) + 1
  BY <1>2, OfFinite, FS_AddElement
<1> QED BY <1>1, <1>2, <1>3

LEMMA SeqOfRow ==
    ASSUME IInv, NEW e \in Rows
    PROVE  /\ e \in Events /\ Aggregate[e] \in Aggregates /\ e \in Of(Aggregate[e])
           /\ seq[e] \in 1..Cardinality(Of(Aggregate[e]))
<1>1. e \in Events /\ Aggregate[e] \in Aggregates /\ e \in Of(Aggregate[e])
  BY DEF Rows, Aggregates, Of
<1>2. {seq[f] : f \in Of(Aggregate[e])} = 1..Cardinality(Of(Aggregate[e]))
  BY <1>1 DEF IInv, WriterInv
<1> QED BY <1>1, <1>2

LEMMA DistinctKept ==
    ASSUME RInv, [Next]_vars
    PROVE  Distinct'
<1>0. IInv /\ Distinct
  BY DEF RInv
<1>1. ASSUME NEW e \in Events, Commit(e) PROVE Distinct'
  <2>1. /\ Rows' = Rows \cup {e} /\ seq' = seq
        /\ seq[e] = Cardinality(Of(Aggregate[e])) + 1
    BY <1>0, <1>1, CommitAdds
  <2>2. ASSUME NEW f \in Rows, Aggregate[f] = Aggregate[e] PROVE seq[f] # seq[e]
    <3>1. seq[f] \in 1..Cardinality(Of(Aggregate[e])) /\ Cardinality(Of(Aggregate[e])) \in Nat
      BY <1>0, <2>2, SeqOfRow, OfFinite
    <3> QED BY <2>1, <3>1
  <2> QED BY <1>0, <2>1, <2>2 DEF Distinct
<1>2. ASSUME NEW s \in Sweeps, NEW e \in Events, Calling(s, e) PROVE Distinct'
  <2>1. UNCHANGED <<status, seq>>
    BY <1>2 DEF Calling, Call, table
  <2> QED BY <1>0, <2>1 DEF Distinct, Rows
<1>3. ASSUME NEW S, NEW st, Rewrite(S, st) PROVE Distinct'
  <2>1. Rows' = Rows /\ \A e \in Rows : seq'[e] = seq[e]
    BY <1>3, RewriteKeepsRows DEF Rewrite
  <2> QED BY <1>0, <2>1 DEF Distinct
<1> QED BY <1>1, <1>2, <1>3, StepKinds

LEMMA PublishedKept ==
    ASSUME RInv, [Next]_vars
    PROVE  Published'
<1>0. /\ TypeOK /\ Published
      /\ \A t \in Sweeps : pc[t] \in {"mark", "caught"} => current[t] \in Events
  BY DEF RInv, IInv, ClaimInv, SweepOK
<1>1. ASSUME NEW s \in Sweeps, NEW e \in Events, Calling(s, e) PROVE Published'
  <2>1. /\ tries' = [tries EXCEPT ![e] = @ + 1] /\ current' = [current EXCEPT ![s] = e]
        /\ \E step : pc' = [pc EXCEPT ![s] = step]
    BY <1>1 DEF Calling, Call, Goto
  <2>2. tries'[e] > 0 /\ \A f \in Events : tries[f] > 0 => tries'[f] > 0
    BY <1>0, <2>1 DEF TypeOK
  <2>3. ASSUME NEW t \in Sweeps, pc'[t] \in {"mark", "caught"} PROVE tries'[current'[t]] > 0
    <3>1. CASE t = s
      <4>1. current'[t] = e
        BY <1>0, <2>1, <3>1 DEF TypeOK
      <4> QED BY <2>2, <4>1
    <3>2. CASE t # s
      <4>1. current'[t] = current[t] /\ pc'[t] = pc[t]
        BY <1>0, <2>1, <3>2 DEF TypeOK
      <4> QED BY <1>0, <2>2, <2>3, <4>1 DEF Published
    <3> QED BY <3>1, <3>2
  <2> QED BY <2>3 DEF Published
<1>2. ASSUME tries' = tries,
             \A t \in Sweeps : pc'[t] \in {"mark", "caught"}
                 => pc[t] \in {"mark", "caught"} /\ current'[t] = current[t]
      PROVE  Published'
  BY <1>0, <1>2 DEF Published
<1>3. ASSUME NEW e \in Events, WriteStep(e) \/ Age(e) PROVE Published'
  <2>1. UNCHANGED <<pc, current, tries>>
    BY <1>3 DEF WriteStep, Lock, ReadMax, Commit, Rollback, Age, sweep
  <2> QED BY <1>2, <2>1
<1>4. ASSUME NEW s \in Sweeps, tries' = tries,
             NEW step \in {"off", "ceiling", "reclaim", "blocked", "claim", "rows"},
             Goto(s, step), \A t \in Sweeps \ {s} : current'[t] = current[t]
      PROVE  Published'
  <2>1. ASSUME NEW t \in Sweeps, pc'[t] \in {"mark", "caught"}
        PROVE  pc[t] \in {"mark", "caught"} /\ current'[t] = current[t]
    <3>1. t # s /\ pc'[t] = pc[t]
      BY <1>0, <1>4, <2>1 DEF Goto, TypeOK
    <3> QED BY <1>4, <2>1, <3>1
  <2> QED BY <1>2, <1>4, <2>1
<1>5. ASSUME NEW s \in Sweeps,
             StartSweep(s) \/ FailSpent(s) \/ Reclaim(s) \/ ReadBlocked(s) \/ Claim(s)
      PROVE  Published'
  <2>1. tries' = tries /\ current' = current
        /\ \E step \in {"off", "ceiling", "reclaim", "blocked", "claim", "rows"} : Goto(s, step)
    BY <1>5 DEF StartSweep, FailSpent, Reclaim, ReadBlocked, Claim
  <2> QED BY <1>4, <2>1
<1>6. ASSUME NEW s \in Sweeps, NEW e, NEW B, Handled(s, e), Go(s, e, B), tries' = tries
      PROVE  Published'
  <2>1. \E step \in {"off", "rows"} : Goto(s, step)
    BY <1>6 DEF Go
  <2>2. \A t \in Sweeps \ {s} : current'[t] = current[t]
    BY <1>0, <1>6 DEF Handled, TypeOK
  <2> QED BY <1>4, <1>6, <2>1, <2>2
<1>7. ASSUME NEW s \in Sweeps,
             (\E e \in Events : Release(s, e) \/ GiveUp(s, e)) \/ MarkDispatched(s) \/ Caught(s)
      PROVE  Published'
  <2>1. CASE \E e \in Events : Release(s, e) \/ GiveUp(s, e)
    BY <1>6, <2>1 DEF Release, GiveUp
  <2>2. CASE MarkDispatched(s)
    BY <1>6, <2>2 DEF MarkDispatched
  <2>3. CASE Caught(s)
    BY <1>6, <2>3 DEF Caught
  <2> QED BY <1>7, <2>1, <2>2, <2>3
<1>8. ASSUME NEW s \in Sweeps, SweepDies(s) PROVE Published'
  <2>1. tries' = tries /\ Goto(s, "off") /\ \A t \in Sweeps \ {s} : current'[t] = current[t]
    BY <1>0, <1>8 DEF SweepDies, TypeOK
  <2> QED BY <1>4, <2>1
<1>9. ASSUME NEW s \in Sweeps, MarkFails(s) PROVE Published'
  <2>1. UNCHANGED <<tries, current>> /\ pc[s] = "mark" /\ pc' = [pc EXCEPT ![s] = "caught"]
    BY <1>9 DEF MarkFails, Goto
  <2> QED BY <1>0, <1>2, <2>1 DEF TypeOK
<1>10. ASSUME NEW s \in Sweeps, NEW e \in Events, Publish(s, e) \/ PublishThrows(s, e)
       PROVE  Published'
  BY <1>1, <1>10 DEF Publish, PublishThrows, Calling
<1>11. CASE UNCHANGED vars
  BY <1>2, <1>11 DEF vars, sweep
<1> QED BY <1>3, <1>5, <1>7, <1>8, <1>9, <1>10, <1>11 DEF Next, SweepProgress, SweepFault

(* The n-th event of the log of a is the row of a numbered n.              *)
LEMMA LogIs ==
    ASSUME IInv, NEW a \in Aggregates
    PROVE  /\ Log[a] \in Seq(Events) /\ Len(Log[a]) = Cardinality(Of(a))
           /\ DOMAIN Log[a] = 1..Cardinality(Of(a))
           /\ \A n \in 1..Cardinality(Of(a)) : Log[a][n] \in Of(a) /\ seq[Log[a][n]] = n
<1> DEFINE k == Cardinality(Of(a))
<1>1. k \in Nat /\ Log[a] = [n \in 1..k |-> Numbered(a, n)]
  BY OfFinite DEF Log
<1>2. {seq[e] : e \in Of(a)} = 1..k
  BY DEF IInv, WriterInv
<1> HIDE DEF k
<1>3. ASSUME NEW n \in 1..k PROVE Log[a][n] \in Of(a) /\ seq[Log[a][n]] = n
  <2>1. \E e \in Of(a) : seq[e] = n
    BY <1>2
  <2>2. Log[a][n] = Numbered(a, n)
    BY <1>1
  <2> QED BY <2>1, <2>2 DEF Numbered
<1>4. Log[a] \in [1..k -> Events]
  <2>1. Of(a) \subseteq Events
    BY DEF Of, Rows
  <2>2. DOMAIN Log[a] = 1..k /\ Log[a] = [n \in 1..k |-> Log[a][n]]
    BY <1>1
  <2> QED BY <1>3, <2>1, <2>2
<1>5. Log[a] \in Seq(Events)
  BY <1>1, <1>4 DEF Seq
<1>6. Len(Log[a]) = k
  BY <1>1, <1>4, <1>5, LenProperties
<1> QED BY <1>3, <1>4, <1>5, <1>6 DEF k

LEMMA LoggedAreRows ==
    ASSUME RInv, NEW e \in Events
    PROVE  Promise!Logged(e) <=> e \in Rows
<1> DEFINE a == Aggregate[e]
<1>0. a \in Aggregates /\ IInv /\ Distinct
  BY DEF Aggregates, RInv
<1>1. ASSUME Promise!Logged(e) PROVE e \in Rows
  <2>1. PICK n \in 1..Len(Log[a]) : Log[a][n] = e
    BY <1>1 DEF Promise!Logged
  <2>2. Len(Log[a]) = Cardinality(Of(a))
    BY <1>0, LogIs
  <2>3. Log[a][n] \in Of(a)
    BY <1>0, <2>1, <2>2, LogIs
  <2> QED BY <2>1, <2>3 DEF Of
<1>2. ASSUME e \in Rows PROVE Promise!Logged(e)
  <2>1. seq[e] \in 1..Len(Log[a])
    BY <1>0, <1>2, SeqOfRow, LogIs
  <2>2. Log[a][seq[e]] \in Of(a) /\ seq[Log[a][seq[e]]] = seq[e]
    BY <1>0, <2>1, LogIs
  <2>3. Log[a][seq[e]] = e
    BY <1>0, <1>2, <2>2 DEF Distinct, Of
  <2> QED BY <2>1, <2>3 DEF Promise!Logged
<1> QED BY <1>1, <1>2

(* The log depends on the rows and on their numbers only.                  *)
LEMMA LogKept ==
    ASSUME \A a : Of(a)' = Of(a), \A e \in Rows : seq'[e] = seq[e]
    PROVE  Log' = Log
<1>1. ASSUME NEW a \in Aggregates, NEW n
      PROVE  Numbered(a, n)' = Numbered(a, n)
  <2>1. \A e : e \in Of(a) /\ seq'[e] = n <=> e \in Of(a) /\ seq[e] = n
    BY DEF Of
  <2> QED BY <2>1 DEF Numbered
<1>2. Aggregates' = Aggregates
  BY DEF Aggregates
<1> QED BY <1>1, <1>2 DEF Log

LEMMA CommitExtends ==
    ASSUME RInv, RInv', NEW e \in Events, Commit(e)
    PROVE  Log' = [Log EXCEPT ![Aggregate[e]] = Append(@, e)]
<1> DEFINE b == Aggregate[e]
           k == Cardinality(Of(b))
<1>0. b \in Aggregates /\ k \in Nat /\ Aggregates' = Aggregates /\ IInv /\ IInv' /\ Distinct'
  BY OfFinite DEF Aggregates, RInv
<1>1. /\ seq' = seq /\ Of(b)' = Of(b) \cup {e} /\ seq[e] = k + 1
      /\ Cardinality(Of(b))' = k + 1
      /\ \A a : a # b => Of(a)' = Of(a)
  BY <1>0, CommitAdds
<1> HIDE DEF k
<1>2. ASSUME NEW a \in Aggregates, a # b PROVE Log'[a] = Log[a]
  <2>1. \A n : Numbered(a, n)' = Numbered(a, n)
    BY <1>1, <1>2 DEF Numbered
  <2> QED BY <1>0, <1>1, <1>2, <2>1 DEF Log
<1>3. /\ Log[b] \in Seq(Events) /\ Len(Log[b]) = k /\ DOMAIN Log[b] = 1..k
      /\ \A n \in 1..k : Log[b][n] \in Of(b) /\ seq[Log[b][n]] = n
  BY <1>0, LogIs DEF k
<1>4. /\ Log'[b] = [n \in 1..(k + 1) |-> Numbered(b, n)']
      /\ \A n \in 1..(k + 1) : Numbered(b, n)' \in Of(b)' /\ seq'[Numbered(b, n)'] = n
  <2>1. Log'[b] = [n \in 1..(k + 1) |-> Numbered(b, n)']
    BY <1>0, <1>1 DEF Log
  <2>2. {seq'[f] : f \in Of(b)'} = 1..(k + 1)
    BY <1>0, <1>1 DEF IInv, WriterInv
  <2>3. ASSUME NEW n \in 1..(k + 1)
        PROVE  Numbered(b, n)' \in Of(b)' /\ seq'[Numbered(b, n)'] = n
    <3>1. \E f \in Of(b)' : seq'[f] = n
      BY <2>2
    <3> QED BY <3>1 DEF Numbered
  <2> QED BY <2>1, <2>3
<1>5. \A f, g \in Of(b)' : seq'[f] = seq'[g] => f = g
  BY <1>0 DEF Distinct, Of
<1>6. ASSUME NEW n \in 1..(k + 1)
      PROVE  Log'[b][n] = IF n <= k THEN Log[b][n] ELSE e
  <2>1. CASE n <= k
    <3>1. n \in 1..k
      BY <1>0, <1>6, <2>1
    <3>2. Log[b][n] \in Of(b)' /\ seq'[Log[b][n]] = n
      BY <1>1, <1>3, <3>1
    <3> QED BY <1>4, <1>5, <1>6, <2>1, <3>2
  <2>2. CASE ~(n <= k)
    <3>1. n = k + 1 /\ e \in Of(b)' /\ seq'[e] = k + 1
      BY <1>0, <1>1, <1>6, <2>2
    <3> QED BY <1>4, <1>5, <1>6, <2>2, <3>1
  <2> QED BY <2>1, <2>2
<1>7. Log'[b] = Append(Log[b], e)
  <2>1. /\ Append(Log[b], e) \in Seq(Events) /\ Len(Append(Log[b], e)) = k + 1
        /\ \A i \in 1..k : Append(Log[b], e)[i] = Log[b][i]
        /\ Append(Log[b], e)[k + 1] = e
    BY <1>3, AppendProperties
  <2>2. Append(Log[b], e) \in [1..(k + 1) -> Events]
    BY <2>1, LenProperties
  <2>3. ASSUME NEW n \in 1..(k + 1) PROVE Log'[b][n] = Append(Log[b], e)[n]
    <3>1. n \in 1..k \/ (n = k + 1 /\ ~(n <= k))
      BY <1>0
    <3>2. n \in 1..k => n <= k
      BY <1>0
    <3>3. CASE n \in 1..k
      <4>1. Log'[b][n] = Log[b][n]
        BY <1>6, <3>2, <3>3
      <4>2. Append(Log[b], e)[n] = Log[b][n]
        BY <2>1, <3>3
      <4> QED BY <4>1, <4>2
    <3>4. CASE n = k + 1 /\ ~(n <= k)
      <4>1. Log'[b][n] = e
        BY <1>6, <3>4
      <4>2. Append(Log[b], e)[n] = e
        BY <2>1, <3>4
      <4> QED BY <4>1, <4>2
    <3> QED BY <3>1, <3>3, <3>4
  <2> DEFINE longer == Append(Log[b], e)
  <2>4. longer \in [1..(k + 1) -> Events] /\ \A n \in 1..(k + 1) : Log'[b][n] = longer[n]
    BY <2>2, <2>3
  <2> HIDE DEF longer
  <2>5. Log'[b] = longer
    BY <1>4, <2>4
  <2> QED BY <2>5 DEF longer
<1>8. Log' = [a \in Aggregates |-> Log'[a]] /\ Log = [a \in Aggregates |-> Log[a]]
  BY <1>0 DEF Log
<1> QED BY <1>0, <1>2, <1>7, <1>8

LEMMA LogInit == Init => Promise!Init
<1> SUFFICES ASSUME Init PROVE Promise!Init
  OBVIOUS
<1>1. Rows = {} /\ \A a : Of(a) = {}
  BY DEF Init, Rows, Of
<1>2. Log = [a \in Aggregates |-> <<>>]
  <2>1. Cardinality({}) = 0 /\ IInv
    BY FS_EmptySet, InitHolds
  <2>2. ASSUME NEW a \in Aggregates PROVE Log[a] = <<>>
    <3>1. Log[a] \in Seq(Events) /\ Len(Log[a]) = 0
      BY <1>1, <2>1, LogIs
    <3> QED BY <3>1, EmptySeq
  <2> QED BY <2>2 DEF Log
<1>3. \A e \in Events : Outcome(e) = "open"
  BY DEF Init, Outcome
<1> QED BY <1>2, <1>3 DEF Init, Promise!Init, Promise!Aggregates, Aggregates, NoClaim

LEMMA LogStep ==
    ASSUME RInv, RInv', [Next]_vars
    PROVE  [Promise!Next]_Promise!vars
<1> DEFINE Out0 == [e \in Events |-> Outcome(e)]
<1>1. ASSUME NEW e \in Events, Commit(e) PROVE Promise!Extend(e)
  <2>1. ~Promise!Logged(e) /\ tries' = tries
    BY <1>1, LoggedAreRows, CommitAdds DEF RInv
  <2>2. Log' = [Log EXCEPT ![Aggregate[e]] = Append(@, e)]
    BY <1>1, CommitExtends
  <2>3. \A f \in Events : Outcome(f)' = Outcome(f)
    <3>1. status[e] = "absent" /\ status' = [status EXCEPT ![e] = "pending"]
      BY <1>1, CommitAdds DEF RInv, Commit, Rows
    <3> QED BY <3>1 DEF Outcome, RInv, IInv, TypeOK
  <2> QED BY <2>1, <2>2, <2>3 DEF Promise!Extend
<1>2. ASSUME NEW s \in Sweeps, NEW e \in Events, Calling(s, e) PROVE Promise!Deliver(e)
  <2>1. /\ pc[s] = "rows" /\ claimed[s][e] > 0 /\ ~(claimed[s][e] > MaxAttempts)
        /\ tries' = [tries EXCEPT ![e] = @ + 1] /\ UNCHANGED <<status, seq>>
    BY <1>2 DEF Calling, Call, Mine, TooMany, table
  <2>2. current[s] = None /\ e \in Rows /\ claimed[s][e] \in Nat /\ MaxAttempts \in Nat
    <3>1. SweepOK(s) /\ claimed \in [Sweeps -> [Events -> Nat]]
      BY DEF RInv, IInv, ClaimInv, TypeOK
    <3> QED BY <2>1, <3>1, LimitsAssumption DEF SweepOK
  <2>3. s \in Good(e)
    BY <2>1, <2>2, EventsAssumption DEF Good, Out
  <2>4. Cardinality(Good(e)) > 0
    <3>1. Cardinality(Good(e)) # 0
      BY <2>3, OutFinite, FS_EmptySet
    <3> QED BY <3>1, OutFinite
  <2>5. tries[e] < MaxAttempts
    BY <2>2, <2>4, OutFinite DEF RInv, IInv, BudgetInv, TypeOK
  <2>6. Log' = Log /\ \A f \in Events : Outcome(f)' = Outcome(f)
    <3>1. \A a : Of(a)' = Of(a)
      BY <2>1 DEF Of, Rows
    <3> QED BY <2>1, <3>1, LogKept DEF Outcome
  <2> QED BY <2>1, <2>2, <2>5, <2>6, LoggedAreRows DEF Promise!Deliver
<1>3. ASSUME NEW S, NEW st, Rewrite(S, st)
      PROVE  \E T \in SUBSET Events, end \in {"open", "sent", "failed"} : Promise!Record(T, end)
  <2> DEFINE end == CASE st = "dispatched" -> "sent"
                      [] st = "failed" -> "failed"
                      [] OTHER -> "open"
  <2>1. S \in SUBSET Events /\ end \in {"open", "sent", "failed"}
    BY <1>3 DEF Rewrite, Rows
  <2>2. \A e \in S : Promise!Logged(e)
    BY <1>3, <2>1, LoggedAreRows DEF Rewrite
  <2>3. end = "sent" => \A e \in S : tries[e] > 0
    BY <1>3 DEF Rewrite
  <2>4. \A e \in Events : Outcome(e)' = IF e \in S THEN end ELSE Outcome(e)
    BY <1>3 DEF Rewrite, Outcome
  <2>5. Log' = Log /\ tries' = tries
    BY <1>3, RewriteKeepsRows, LogKept DEF Rewrite
  <2> HIDE DEF end
  <2>6. Promise!Record(S, end)
    BY <2>2, <2>3, <2>4, <2>5 DEF Promise!Record
  <2> QED BY <2>1, <2>6
<1> QED BY <1>1, <1>2, <1>3, StepKinds DEF Promise!Next

(* The outbox is the event log: whatever writers and sweeps interleave,    *)
(* die or fail, the committed events of an aggregate grow at the end only, *)
(* what is published is committed, at most MaxAttempts times, and nothing  *)
(* is marked dispatched that was never handed to the bus.                  *)
THEOREM BoundedDeliveryCorrect == Spec => BoundedDelivery
<1>1. Init => RInv
  <2>1. Init => Distinct /\ Published
    BY DEF Init, Distinct, Published, Rows
  <2> QED BY <2>1, InitHolds DEF RInv
<1>2. RInv /\ [Next]_vars => RInv'
  <2>1. RInv /\ [Next]_vars => IInv'
    BY NextKeeps DEF RInv
  <2> QED BY <2>1, DistinctKept, PublishedKept DEF RInv
<1>3. RInv /\ RInv' /\ [Next]_vars => [Promise!Next]_Promise!vars
  BY LogStep
<1> QED BY <1>1, <1>2, <1>3, LogInit, PTL DEF Spec, BoundedDelivery, Promise!Spec

=============================================================================
