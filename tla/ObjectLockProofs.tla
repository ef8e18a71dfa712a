-------------------------- MODULE ObjectLockProofs --------------------------
(***************************************************************************)
(* Proofs about ObjectLock, for any number of users, admins and handlers,  *)
(* any times to live and any bounds.                                        *)
(*                                                                         *)
(* The properties are not inductive: they say nothing of what a handler    *)
(* has read and not yet used.  HandlerOK does.  Since an id is given once, *)
(* a handler whose id is still the id of the row has read this very row,   *)
(* and what entitled it then (its user owned the row, the heir had asked)  *)
(* is in the history of the row, which only grows while the row lives.     *)
(***************************************************************************)
EXTENDS ObjectLock, TLAPS

(* What a handler that is not idle may rely on when it runs again.         *)
Reads(c) == op[c].id # 0 /\ op[c].id = row.id

HandlerOK(c) ==
    /\ op[c].now <= clock
    /\ op[c].id <= rows
    /\ op[c].step # "idle" => op[c].user \in Users
    /\ op[c].step \in {"purge", "look", "insert"} => op[c].id = 0 /\ ~op[c].conflict
    /\ At(c, "acquire", "write") => ~op[c].conflict
    /\ op[c].step = "write" /\ op[c].kind # "clear" => op[c].id # 0
    /\ op[c].step \in {"reply", "granted"} => op[c].kind = "acquire"
    /\ op[c].step = "reply" => (op[c].conflict <=> op[c].id = 0)
    /\ Reads(c) /\ op[c].kind = "acquire" => op[c].user \in owned
    /\ Reads(c) /\ op[c].kind \in {"release", "accept", "force"}
         => op[c].user \in Admins \cup owned
    /\ At(c, "accept", "write") => op[c].heir \in Users
    /\ Reads(c) /\ At(c, "accept", "write") => op[c].heir \in asked
    /\ op[c].step = "granted" /\ op[c].answer # op[c].user =>
         op[c].id # 0 /\ (Reads(c) => op[c].answer \in owned)

RequesterAsked == row.requester # "nobody" => row.requester \in asked

IInv ==
    /\ TypeOK
    /\ RequesterAsked
    /\ \A c \in Callers : HandlerOK(c)

(* The row goes on, with at least the history it had; or it is gone; or it *)
(* is one that no handler has read.                                        *)
RowMoves ==
    \/ row'.id = row.id /\ owned \subseteq owned' /\ asked \subseteq asked'
    \/ row'.id = 0
    \/ row'.id > rows

-----------------------------------------------------------------------------

(* A handler that does not run keeps what it relies on.                    *)
LEMMA OthersKeep ==
    ASSUME TypeOK, NEW d \in Callers, HandlerOK(d), op'[d] = op[d],
           rows' \in Nat, rows <= rows', clock' \in Nat, clock <= clock', RowMoves
    PROVE  HandlerOK(d)'
<1>1. /\ op[d] \in Op /\ rows \in Nat /\ clock \in Nat /\ op[d].id \in Nat
      /\ op[d].now \in Nat
  BY LockAssumption DEF TypeOK, Op
<1>2. Reads(d)' => Reads(d) /\ owned \subseteq owned' /\ asked \subseteq asked'
  BY <1>1 DEF Reads, RowMoves, HandlerOK
<1>3. op'[d].now <= clock' /\ op'[d].id <= rows'
  BY <1>1 DEF HandlerOK
<1> QED
  BY <1>2, <1>3 DEF HandlerOK, At

(* A step of one handler: the others keep what they rely on.               *)
LEMMA OneHandler ==
    ASSUME IInv, NEW c \in Callers, op' = [op EXCEPT ![c] = op'[c]],
           TypeOK', RequesterAsked', HandlerOK(c)',
           rows <= rows', clock <= clock', RowMoves
    PROVE  IInv'
<1>1. ASSUME NEW d \in Callers, d # c PROVE HandlerOK(d)'
  <2>1. op'[d] = op[d] /\ HandlerOK(d)
    BY <1>1 DEF IInv, TypeOK
  <2>2. rows' \in Nat /\ clock' \in Nat
    BY LockAssumption DEF TypeOK
  <2> QED BY <2>1, <2>2, OthersKeep DEF IInv
<1> QED BY <1>1 DEF IInv

(* A step of one handler that writes nothing.                              *)
LEMMA OnlyHandler ==
    ASSUME IInv, NEW c \in Callers, op'[c] \in Op, op' = [op EXCEPT ![c] = op'[c]],
           UNCHANGED <<clock, row, rows, streams, history>>, HandlerOK(c)'
    PROVE  IInv'
<1>1. op' \in [Callers -> Op]
  BY DEF IInv, TypeOK
<1>2. TypeOK' /\ RequesterAsked'
  BY <1>1 DEF IInv, TypeOK, RequesterAsked, history
<1>3. RowMoves /\ rows <= rows' /\ clock <= clock'
  BY LockAssumption DEF IInv, TypeOK, RowMoves, history
<1> QED BY <1>2, <1>3, OneHandler

(* A step of no handler.                                                   *)
LEMMA NoHandler ==
    ASSUME IInv, op' = op, TypeOK', RequesterAsked',
           rows <= rows', clock <= clock', RowMoves
    PROVE  IInv'
<1>1. ASSUME NEW d \in Callers PROVE HandlerOK(d)'
  <2>1. rows' \in Nat /\ clock' \in Nat
    BY LockAssumption DEF TypeOK
  <2> QED BY <2>1, OthersKeep DEF IInv
<1> QED BY <1>1 DEF IInv

(* An idle handler relies on nothing.                                      *)
LEMMA IdleOK ==
    ASSUME NEW c \in Callers, op'[c] = Idle, clock' \in Nat, rows' \in Nat
    PROVE  HandlerOK(c)'
BY DEF HandlerOK, Reads, At, Idle

LEMMA IdleIsOp == Idle \in Op
BY LockAssumption DEF Idle, Op, Kinds, Steps, Maybe

(* A handler that ends without a write.                                    *)
LEMMA EndKeeps ==
    ASSUME IInv, NEW c \in Callers, End(c),
           UNCHANGED <<clock, row, rows, streams, history>>
    PROVE  IInv'
<1>1. op'[c] = Idle /\ op' = [op EXCEPT ![c] = op'[c]]
  BY DEF IInv, TypeOK, End
<1>2. HandlerOK(c)'
  BY <1>1, IdleOK, LockAssumption DEF IInv, TypeOK
<1> QED BY <1>1, <1>2, IdleIsOp, OnlyHandler

-----------------------------------------------------------------------------

LEMMA TypedHandler ==
    ASSUME IInv, NEW c \in Callers
    PROVE  /\ op \in [Callers -> Op] /\ op[c] \in Op /\ HandlerOK(c)
           /\ row \in Row /\ rows \in Nat /\ clock \in Nat /\ clock \in 0..MaxClock
BY LockAssumption DEF IInv, TypeOK

LEMMA AcquireKeeps ==
    ASSUME IInv, NEW c \in Callers, NEW u \in Users, Acquire(c, u)
    PROVE  IInv'
<1>0. op \in [Callers -> Op] /\ op[c] = Idle /\ clock \in 0..MaxClock /\ rows \in Nat
  BY TypedHandler DEF Acquire
<1>1. op'[c] = [Idle EXCEPT !.user = u, !.step = "purge", !.now = clock]
  BY <1>0 DEF Acquire
<1>2. op' = [op EXCEPT ![c] = op'[c]]
  BY <1>0 DEF Acquire
<1>3. op'[c] \in Op
  <2>1. op'[c] = [kind |-> "acquire", user |-> u, step |-> "purge", now |-> clock,
                  id |-> 0, heir |-> "nobody", conflict |-> FALSE, answer |-> "nobody"]
    BY <1>1 DEF Idle
  <2> QED BY <1>0, <2>1, LockAssumption DEF Op, Kinds, Steps, Maybe
<1>4. HandlerOK(c)'
  BY <1>0, <1>1, LockAssumption DEF HandlerOK, Reads, At, Idle, Acquire
<1> QED BY <1>2, <1>3, <1>4, OnlyHandler DEF Acquire

LEMMA LookAcquireKeeps ==
    ASSUME IInv, NEW c \in Callers, LookAcquire(c)
    PROVE  IInv'
<1>0. op \in [Callers -> Op] /\ op[c] \in Op /\ HandlerOK(c) /\ row \in Row
      /\ rows \in Nat /\ clock \in Nat /\ row.id <= rows
      /\ (row.id # 0 => row.owner \in owned)
  BY TypedHandler DEF IInv, TypeOK
<1>1. op' = [op EXCEPT ![c] = op'[c]] /\ op'[c] \in Op
  BY <1>0, LockAssumption DEF LookAcquire, Goto, Op, Row, Steps
<1>2. HandlerOK(c)'
  BY <1>0 DEF HandlerOK, Reads, At, LookAcquire, Goto, Live, history, Op, Row
<1> QED BY <1>1, <1>2, OnlyHandler DEF LookAcquire

LEMMA LookKeeps ==
    ASSUME IInv, NEW c \in Callers, NEW u \in Users,
           NEW kind \in {"release", "request", "accept", "force"}, Look(c, u, kind)
    PROVE  IInv'
<1>0. op \in [Callers -> Op] /\ op[c] = Idle /\ row \in Row /\ RequesterAsked
      /\ rows \in Nat /\ clock \in 0..MaxClock /\ row.id <= rows
      /\ (row.id # 0 => row.owner \in owned) /\ asked \subseteq Users
  BY TypedHandler DEF IInv, TypeOK, Look
<1> DEFINE o == [kind |-> kind, user |-> u, step |-> "write", id |-> row.id,
                 now |-> IF kind = "accept" THEN clock ELSE 0,
                 heir |-> IF kind = "accept" THEN row.requester ELSE "nobody",
                 conflict |-> FALSE, answer |-> "nobody"]
<1>1. op' = [op EXCEPT ![c] = op'[c]] /\ op'[c] = o
  BY <1>0 DEF Look
<1>2. o \in Op
  <2>1. row.requester \in Maybe /\ row.id \in 0..MaxRows
    BY <1>0 DEF Row
  <2> QED BY <1>0, <2>1, LockAssumption DEF Op, Kinds, Steps, Maybe
<1>3. row.id # 0 /\ Decided(kind, u, row)
  BY DEF Look, Live
<1>4. kind = "accept" => row.requester \in asked
  BY <1>0, <1>3 DEF Decided, Accepts, RequesterAsked
<1>5. kind \in {"release", "accept", "force"} => u \in Admins \cup owned
  BY <1>0, <1>3 DEF Decided, Accepts, Forces, May
<1>6. HandlerOK(c)'
  <2>1. UNCHANGED <<clock, row, rows, owned, asked>>
    BY DEF Look, history
  <2>2. /\ o.kind = kind /\ o.user = u /\ o.step = "write" /\ o.id = row.id
        /\ ~o.conflict /\ o.now <= clock
        /\ (kind = "accept" => o.heir = row.requester)
    BY <1>0 DEF Idle
  <2> HIDE DEF o
  <2> QED BY <1>0, <1>1, <1>3, <1>4, <1>5, <2>1, <2>2 DEF HandlerOK, Reads, At
<1> QED BY <1>1, <1>2, <1>6, OnlyHandler DEF Look

(* A new row has an id that no handler has read.                           *)
LEMMA InsertedKeeps ==
    ASSUME IInv, NEW c \in Callers, Inserted(c), row.id = 0 \/ Expired(row, op[c].now),
           op[c].kind = "acquire", op[c].step # "idle", ~op[c].conflict,
           UNCHANGED <<clock, streams>>
    PROVE  IInv'
<1>0. /\ op \in [Callers -> Op] /\ op[c] \in Op /\ HandlerOK(c) /\ row \in Row
      /\ rows \in Nat /\ clock \in 0..MaxClock /\ row.id <= rows
      /\ op[c].user \in Users /\ op[c].now \in Nat /\ op[c].now <= clock
  BY TypedHandler DEF IInv, TypeOK, HandlerOK, Op
<1>ttl. PICK ttl \in Ttls[op[c].user] : row' = NewRow(c, ttl)
  BY DEF Inserted
<1>1. /\ row' = NewRow(c, ttl) /\ rows' = rows + 1 /\ rows' \in 0..MaxRows
      /\ owned' = {op[c].user} /\ asked' = {}
  BY <1>0, <1>ttl, LockAssumption DEF Inserted
<1>2. op' = [op EXCEPT ![c] = op'[c]] /\ op' \in [Callers -> Op]
  <2>1. rows + 1 \in 0..MaxRows
    BY <1>1
  <2>2. op'[c] = [op[c] EXCEPT !.step = "reply", !.now = 0, !.id = rows + 1]
    BY <1>0 DEF Inserted
  <2>3. op' = [op EXCEPT ![c] = op'[c]]
    BY <1>0, <2>2 DEF Inserted
  <2>4. 0 \in 0..MaxClock
    BY LockAssumption
  <2>5. op'[c] \in Op
    BY <1>0, <2>1, <2>2, <2>4 DEF Op, Steps
  <2> QED BY <1>0, <2>3, <2>5
<1>3. /\ row'.id = rows + 1 /\ row'.owner = op[c].user /\ row'.requester = "nobody"
      /\ row'.expires = op[c].now + ttl /\ ttl \in Nat /\ ttl <= MaxTtl
  BY <1>0, <1>1, LockAssumption DEF NewRow
<1>4. TypeOK'
  <2>1. row' \in Row
    BY <1>0, <1>1, <1>3, LockAssumption DEF NewRow, Row, Maybe
  <2>2. row'.id # 0 /\ row'.id <= rows' /\ row'.expires <= clock' + MaxTtl /\ row'.owner \in owned'
    BY <1>0, <1>1, <1>3, LockAssumption
  <2>3. row' # NoRow
    BY <2>2 DEF NoRow
  <2> QED BY <1>0, <1>1, <1>2, <2>1, <2>2, <2>3 DEF IInv, TypeOK
<1>5. RequesterAsked'
  BY <1>3 DEF RequesterAsked
<1>6. HandlerOK(c)'
  <2>1. /\ op'[c].step = "reply" /\ op'[c].id = rows + 1 /\ op'[c].kind = "acquire"
        /\ op'[c].user = op[c].user /\ op'[c].now = 0 /\ ~op'[c].conflict
    BY <1>0 DEF Inserted, Op
  <2> QED BY <1>0, <1>1, <2>1 DEF HandlerOK, Reads, At
<1>7. RowMoves /\ rows <= rows' /\ clock <= clock'
  BY <1>0, <1>1, <1>3 DEF RowMoves
<1> QED BY <1>2, <1>4, <1>5, <1>6, <1>7, OneHandler

LEMMA PurgeKeeps ==
    ASSUME IInv, NEW c \in Callers, Purge(c)
    PROVE  IInv'
<1>0. op \in [Callers -> Op] /\ op[c] \in Op /\ HandlerOK(c)
  BY TypedHandler
<1>1. CASE Removable(row, op[c].now) /\ Inserted(c)
  BY <1>0, <1>1, InsertedKeeps DEF Purge, At, Removable, HandlerOK
<1>2. CASE Goto(c, "look") /\ UNCHANGED <<row, rows, history>>
  <2>1. op' = [op EXCEPT ![c] = op'[c]] /\ op'[c] \in Op
    BY <1>0, <1>2 DEF Goto, Op, Steps
  <2>2. HandlerOK(c)'
    BY <1>0, <1>2 DEF Purge, HandlerOK, Reads, At, Goto, Op, history
  <2> QED BY <1>2, <2>1, <2>2, OnlyHandler DEF Purge
<1> QED BY <1>1, <1>2 DEF Purge

LEMMA InsertKeeps ==
    ASSUME IInv, NEW c \in Callers, Insert(c)
    PROVE  IInv'
<1>0. op \in [Callers -> Op] /\ op[c] \in Op /\ HandlerOK(c)
  BY TypedHandler
<1>1. CASE row.id = 0 /\ Inserted(c)
  BY <1>0, <1>1, InsertedKeeps DEF Insert, At, HandlerOK
<1>2. CASE op' = [op EXCEPT ![c].step = "reply", ![c].now = 0, ![c].conflict = TRUE]
           /\ UNCHANGED <<row, rows, history>>
  <2>1. op' = [op EXCEPT ![c] = op'[c]] /\ op'[c] \in Op
    <3>1. op'[c] = [op[c] EXCEPT !.step = "reply", !.now = 0, !.conflict = TRUE]
      BY <1>0, <1>2
    <3>2. op' = [op EXCEPT ![c] = op'[c]]
      BY <1>0, <1>2, <3>1
    <3>3. 0 \in 0..MaxClock
      BY LockAssumption
    <3> QED BY <1>0, <3>1, <3>2, <3>3 DEF Op, Steps
  <2>2. HandlerOK(c)'
    BY <1>0, <1>2, LockAssumption DEF Insert, HandlerOK, Reads, At, Op, history
  <2> QED BY <1>2, <2>1, <2>2, OnlyHandler DEF Insert
<1> QED BY <1>1, <1>2 DEF Insert

LEMMA ReplyKeeps ==
    ASSUME IInv, NEW c \in Callers, Reply(c)
    PROVE  IInv'
<1>0. op \in [Callers -> Op] /\ op[c] \in Op /\ HandlerOK(c) /\ row \in Row
      /\ (row.id # 0 => row.owner \in owned) /\ clock \in Nat
  BY TypedHandler DEF IInv, TypeOK
<1>1. CASE End(c)
  BY <1>1, EndKeeps DEF Reply
<1>2. CASE /\ Live(row, clock) /\ ~Refused(c)
           /\ op' = [op EXCEPT ![c].step = "granted", ![c].answer = row.owner]
  <2>1. op' = [op EXCEPT ![c] = op'[c]]
    BY <1>0, <1>2
  <2>2. /\ op'[c].step = "granted" /\ op'[c].now = op[c].now /\ op'[c].answer = row.owner
        /\ op'[c].id = op[c].id /\ op'[c].kind = op[c].kind /\ op'[c].user = op[c].user
    BY <1>0, <1>2 DEF Op
  <2>3. op'[c] \in Op
    <3>1. op'[c] = [op[c] EXCEPT !.step = "granted", !.answer = row.owner]
      BY <1>0, <1>2
    <3>2. row.owner \in Maybe
      BY <1>0 DEF Row
    <3> QED BY <1>0, <3>1, <3>2 DEF Op, Steps
  <2>4. op'[c].answer # op'[c].user => op'[c].id # 0
    BY <1>0, <1>2, <2>2 DEF Refused, HandlerOK, Reply, At
  <2>5. row.owner \in owned
    BY <1>0, <1>2 DEF Live
  <2>6. UNCHANGED <<clock, row, rows, owned, asked>>
    BY DEF Reply, history
  <2>7. HandlerOK(c)'
    BY <1>0, <2>2, <2>4, <2>5, <2>6 DEF HandlerOK, Reads, At, Reply
  <2> QED BY <2>1, <2>3, <2>7, OnlyHandler DEF Reply
<1> QED BY <1>1, <1>2 DEF Reply

LEMMA RefreshKeeps ==
    ASSUME IInv, NEW c \in Callers, Refresh(c)
    PROVE  IInv'
<1>0. /\ op \in [Callers -> Op] /\ op[c] \in Op /\ HandlerOK(c) /\ row \in Row
      /\ rows \in Nat /\ clock \in 0..MaxClock /\ op[c].now \in Nat /\ op[c].now <= clock
  BY TypedHandler DEF IInv, TypeOK, HandlerOK, Op
<1>u. op[c].user \in Users
  BY <1>0 DEF Refresh, At, HandlerOK
<1>1. /\ row' \in Row /\ row'.id = row.id /\ row'.owner = row.owner
      /\ row'.requester = row.requester /\ (row.id = 0 => row' = row)
      /\ (row' = row \/ (row.id # 0 /\ row'.expires <= clock + MaxTtl))
  <2>1. CASE Hits(c)
    <3>1. PICK ttl \in Ttls[op[c].user] : row' = [row EXCEPT !.expires = op[c].now + ttl]
      BY <2>1 DEF Refresh
    <3>2. op[c].now + ttl \in 0..(MaxClock + MaxTtl) /\ op[c].now + ttl <= clock + MaxTtl
      BY <1>0, <1>u, LockAssumption
    <3> QED BY <1>0, <2>1, <3>1, <3>2 DEF Hits, Row
  <2>2. CASE ~Hits(c)
    BY <1>0, <2>2 DEF Refresh
  <2> QED BY <2>1, <2>2
<1>2. op' = [op EXCEPT ![c] = op'[c]] /\ op'[c] \in Op
  <2>1. op'[c] = [op[c] EXCEPT !.step = "reply", !.now = 0]
    BY <1>0 DEF Refresh
  <2>2. op' = [op EXCEPT ![c] = op'[c]]
    BY <1>0, <2>1 DEF Refresh
  <2>3. 0 \in 0..MaxClock
    BY LockAssumption
  <2> QED BY <1>0, <2>1, <2>2, <2>3 DEF Op, Steps
<1>3. TypeOK'
  <2>1. row'.expires <= clock' + MaxTtl
    BY <1>0, <1>1, LockAssumption DEF IInv, TypeOK, Refresh
  <2>2. op' \in [Callers -> Op]
    BY <1>0, <1>2
  <2>3. row'.id = 0 <=> row' = NoRow
    BY <1>1 DEF IInv, TypeOK, NoRow
  <2> QED BY <1>1, <2>1, <2>2, <2>3 DEF IInv, TypeOK, Refresh, history
<1>4. RequesterAsked'
  BY <1>1 DEF IInv, RequesterAsked, Refresh, history
<1>5. HandlerOK(c)'
  <2>1. /\ op'[c].step = "reply" /\ op'[c].kind = op[c].kind /\ op'[c].user = op[c].user
        /\ op'[c].id = op[c].id /\ op'[c].conflict = op[c].conflict /\ op'[c].now = 0
    BY <1>0 DEF Refresh, Op
  <2> QED BY <1>0, <1>1, <2>1 DEF HandlerOK, Reads, At, Refresh, history
<1>6. RowMoves /\ rows <= rows' /\ clock <= clock'
  BY <1>0, <1>1 DEF RowMoves, Refresh, history
<1> QED BY <1>2, <1>3, <1>4, <1>5, <1>6, OneHandler

(* The row goes; the handler, if there is one, ends.                       *)
LEMMA DeletedOK ==
    ASSUME IInv, Delete, op' \in [Callers -> Op], UNCHANGED <<clock, rows>>,
           streams' \in [Users -> Nat], \A u \in Users : streams'[u] <= Streams[u]
    PROVE  TypeOK' /\ RequesterAsked' /\ RowMoves
<1>1. row' = NoRow /\ row'.id = 0 /\ row'.expires = 0 /\ row'.requester = "nobody"
  BY DEF Delete, NoRow
<1>2. NoRow \in Row
  BY LockAssumption DEF NoRow, Row, Maybe
<1>3. TypeOK'
  BY <1>1, <1>2, LockAssumption DEF IInv, TypeOK, Delete
<1> QED BY <1>1, <1>3 DEF RequesterAsked, RowMoves

LEMMA RemoveKeeps ==
    ASSUME IInv, NEW c \in Callers, Remove(c) \/ Clear(c)
    PROVE  IInv'
<1>0. op \in [Callers -> Op] /\ rows \in Nat /\ clock \in Nat /\ End(c)
      /\ UNCHANGED <<clock, rows, streams>>
  BY TypedHandler DEF Remove, Clear
<1>1. CASE Delete
  <2>1. op' = [op EXCEPT ![c] = op'[c]] /\ op'[c] = Idle
    BY <1>0 DEF End
  <2>2. op' \in [Callers -> Op]
    BY <1>0, <2>1, IdleIsOp
  <2>3. TypeOK' /\ RequesterAsked' /\ RowMoves
    BY <1>0, <1>1, <2>2, DeletedOK DEF IInv, TypeOK
  <2>4. HandlerOK(c)'
    BY <1>0, <2>1, IdleOK
  <2> QED BY <1>0, <2>1, <2>3, <2>4, OneHandler
<1>2. CASE UNCHANGED <<row, history>>
  BY <1>0, <1>2, EndKeeps
<1> QED BY <1>1, <1>2 DEF Remove, Clear

LEMMA RequestKeeps ==
    ASSUME IInv, NEW c \in Callers, Request(c)
    PROVE  IInv'
<1>0. /\ op \in [Callers -> Op] /\ op[c] \in Op /\ HandlerOK(c) /\ row \in Row
      /\ rows \in Nat /\ clock \in Nat /\ op[c].user \in Users
  BY TypedHandler DEF HandlerOK, Request, At
<1>1. op' = [op EXCEPT ![c] = op'[c]] /\ op'[c] = Idle /\ op' \in [Callers -> Op]
  BY <1>0, IdleIsOp DEF Request, End
<1>2. CASE Hits(c)
  <2>1. /\ row' \in Row /\ row'.id = row.id /\ row'.owner = row.owner /\ row.id # 0
        /\ row'.requester = op[c].user /\ row'.expires = row.expires
        /\ asked' = asked \cup {op[c].user} /\ owned' = owned
    BY <1>0, <1>2 DEF Request, Hits, Row, Maybe
  <2>2. row' # NoRow
    BY <2>1 DEF NoRow
  <2>3. TypeOK' /\ RequesterAsked' /\ RowMoves
    BY <1>0, <1>1, <2>1, <2>2 DEF IInv, TypeOK, RequesterAsked, RowMoves, Request
  <2>4. HandlerOK(c)'
    BY <1>0, <1>1, IdleOK DEF Request
  <2> QED BY <1>0, <1>1, <2>3, <2>4, OneHandler DEF Request
<1>3. CASE ~Hits(c)
  BY <1>3, EndKeeps DEF Request, history
<1> QED BY <1>2, <1>3

LEMMA AcceptKeeps ==
    ASSUME IInv, NEW c \in Callers, Accept(c)
    PROVE  IInv'
<1>0. /\ op \in [Callers -> Op] /\ op[c] \in Op /\ HandlerOK(c) /\ row \in Row
      /\ rows \in Nat /\ clock \in Nat /\ clock \in 0..MaxClock /\ op[c].now \in Nat
  BY TypedHandler DEF Op
<1>1. op' = [op EXCEPT ![c] = op'[c]] /\ op'[c] = Idle /\ op' \in [Callers -> Op]
  BY <1>0, IdleIsOp DEF Accept, End
<1>2. CASE Hits(c)
  <2>0. op[c].heir \in Users
    BY <1>0 DEF Accept, HandlerOK
  <2>1. PICK now \in op[c].now..clock :
          row' = [row EXCEPT !.owner = Heir(c), !.expires = now + Ttl, !.requester = "nobody"]
    BY <1>2 DEF Accept
  <2>2. now + Ttl \in 0..(MaxClock + MaxTtl) /\ now + Ttl <= clock + MaxTtl
    BY <1>0, LockAssumption
  <2>3. /\ row' \in Row /\ row'.id = row.id /\ row'.owner = op[c].heir /\ row.id # 0
        /\ row'.requester = "nobody" /\ row'.expires <= clock + MaxTtl
        /\ owned' = owned \cup {op[c].heir} /\ asked' = asked
    BY <1>0, <1>2, <2>0, <2>1, <2>2 DEF Accept, Heir, Hits, Row, Maybe
  <2>4. row' # NoRow
    BY <2>3 DEF NoRow
  <2>5. TypeOK' /\ RequesterAsked' /\ RowMoves
    BY <1>0, <1>1, <2>0, <2>3, <2>4 DEF IInv, TypeOK, RequesterAsked, RowMoves, Accept
  <2>6. HandlerOK(c)'
    BY <1>0, <1>1, IdleOK DEF Accept
  <2>7. rows <= rows' /\ clock <= clock'
    <3>1. rows' = rows /\ clock' = clock
      BY DEF Accept
    <3> QED BY <1>0, <3>1
  <2> QED BY <1>1, <2>5, <2>6, <2>7, OneHandler
<1>3. CASE ~Hits(c)
  BY <1>3, EndKeeps DEF Accept, history
<1> QED BY <1>2, <1>3

LEMMA LookClearKeeps ==
    ASSUME IInv, NEW c \in Callers, LookClear(c)
    PROVE  IInv'
<1>0. op \in [Callers -> Op] /\ op[c] \in Op /\ HandlerOK(c)
  BY TypedHandler
<1>1. CASE End(c)
  BY <1>1, EndKeeps DEF LookClear
<1>2. CASE Goto(c, "write")
  <2>1. op' = [op EXCEPT ![c] = op'[c]] /\ op'[c] \in Op
    BY <1>0, <1>2 DEF Goto, Op, Steps
  <2>2. HandlerOK(c)'
    BY <1>0, <1>2 DEF LookClear, HandlerOK, Reads, At, Goto, Op, history
  <2> QED BY <1>2, <2>1, <2>2, OnlyHandler DEF LookClear
<1> QED BY <1>1, <1>2 DEF LookClear

LEMMA HandlerKeeps ==
    ASSUME IInv, NEW c \in Callers, Handler(c)
    PROVE  IInv'
<1>1. CASE Granted(c)
  BY <1>1, EndKeeps DEF Granted
<1> QED
  BY <1>1, PurgeKeeps, LookAcquireKeeps, InsertKeeps, RefreshKeeps, ReplyKeeps,
     RemoveKeeps, RequestKeeps, AcceptKeeps, LookClearKeeps DEF Handler

LEMMA ConnectKeeps ==
    ASSUME IInv, NEW u \in Users, Connect(u)
    PROVE  IInv'
<1>1. UNCHANGED <<clock, row, rows, op, owned, asked>>
  BY DEF Connect, history
<1>2. streams' \in [Users -> Nat] /\ \A v \in Users : streams'[v] <= Streams[v]
  <2>1. /\ streams \in [Users -> Nat] /\ \A v \in Users : streams[v] <= Streams[v]
        /\ Streams[u] \in Nat
        /\ streams' = [streams EXCEPT ![u] = @ + 1] /\ streams[u] < Streams[u]
    BY LockAssumption DEF IInv, TypeOK, Connect
  <2> QED BY <2>1
<1>3. TypeOK' /\ RequesterAsked' /\ RowMoves /\ rows <= rows' /\ clock <= clock'
  BY <1>1, <1>2, LockAssumption DEF IInv, TypeOK, RequesterAsked, RowMoves
<1> QED BY <1>1, <1>3, NoHandler

LEMMA DisconnectKeeps ==
    ASSUME IInv, NEW u \in Users, Disconnect(u)
    PROVE  IInv'
<1>1. UNCHANGED <<clock, row, rows, owned, asked>>
  BY DEF Disconnect, history
<1>2. streams' \in [Users -> Nat] /\ \A v \in Users : streams'[v] <= Streams[v]
  <2>1. /\ streams \in [Users -> Nat] /\ \A v \in Users : streams[v] <= Streams[v]
        /\ Streams[u] \in Nat
        /\ streams' = [streams EXCEPT ![u] = @ - 1] /\ streams[u] > 0
    BY LockAssumption DEF IInv, TypeOK, Disconnect
  <2> QED BY <2>1
<1>3. ASSUME op' \in [Callers -> Op]
      PROVE  TypeOK' /\ RequesterAsked' /\ RowMoves /\ rows <= rows' /\ clock <= clock'
  BY <1>1, <1>2, <1>3, LockAssumption DEF IInv, TypeOK, RequesterAsked, RowMoves
<1>4. CASE op' = op
  BY <1>3, <1>4, NoHandler DEF IInv, TypeOK
<1>5. ASSUME NEW c \in Callers, StartClear(c, u) PROVE IInv'
  <2>0. op \in [Callers -> Op] /\ op[c] = Idle /\ clock \in Nat /\ rows \in Nat
    BY <1>5, TypedHandler DEF StartClear
  <2>1. /\ op' = [op EXCEPT ![c] = op'[c]]
        /\ op'[c] = [Idle EXCEPT !.kind = "clear", !.user = u, !.step = "look"]
    BY <1>5, <2>0 DEF StartClear
  <2>2. op'[c] = [kind |-> "clear", user |-> u, step |-> "look", now |-> 0, id |-> 0,
                  heir |-> "nobody", conflict |-> FALSE, answer |-> "nobody"]
    BY <2>1 DEF Idle
  <2>3. op'[c] \in Op
    BY <2>2, LockAssumption DEF Op, Kinds, Steps, Maybe
  <2>4. op' \in [Callers -> Op]
    BY <2>0, <2>1, <2>3
  <2>5. HandlerOK(c)'
    BY <1>1, <2>0, <2>2 DEF HandlerOK, Reads, At
  <2> QED BY <1>3, <2>1, <2>4, <2>5, OneHandler
<1> QED BY <1>4, <1>5 DEF Disconnect

LEMMA ClockAndSweepKeep ==
    ASSUME IInv, Sweep \/ Tick
    PROVE  IInv'
<1>1. CASE Sweep
  <2>1. TypeOK' /\ RequesterAsked' /\ RowMoves
    BY <1>1, DeletedOK DEF Sweep, IInv, TypeOK
  <2>2. rows <= rows' /\ clock <= clock'
    BY <1>1, LockAssumption DEF Sweep, IInv, TypeOK
  <2> QED BY <1>1, <2>1, <2>2, NoHandler DEF Sweep
<1>2. CASE Tick
  <2>1. /\ clock' = clock + 1 /\ clock \in Nat /\ clock' \in 0..MaxClock
        /\ row.expires \in Nat /\ rows \in Nat
    BY <1>2, LockAssumption DEF Tick, IInv, TypeOK, Row
  <2>2. row.expires <= clock' + MaxTtl
    BY <2>1, LockAssumption DEF IInv, TypeOK
  <2>3. TypeOK' /\ RequesterAsked' /\ RowMoves
    BY <1>2, <2>1, <2>2 DEF Tick, IInv, TypeOK, RequesterAsked, RowMoves, history
  <2> QED BY <1>2, <2>1, <2>3, NoHandler DEF Tick
<1> QED BY <1>1, <1>2

LEMMA RestartKeeps ==
    ASSUME IInv, Restart
    PROVE  IInv'
<1>1. op' = [c \in Callers |-> Idle] /\ op' \in [Callers -> Op]
  BY IdleIsOp DEF Restart
<1>2. streams' \in [Users -> Nat] /\ \A u \in Users : streams'[u] <= Streams[u]
  BY LockAssumption DEF Restart
<1>3. TypeOK' /\ RequesterAsked'
  <2>1. CASE Delete
    BY <1>1, <1>2, <2>1, DeletedOK DEF Restart
  <2>2. CASE UNCHANGED <<row, history>>
    BY <1>1, <1>2, <2>2 DEF Restart, IInv, TypeOK, RequesterAsked, history
  <2> QED BY <2>1, <2>2 DEF Restart
<1>4. ASSUME NEW c \in Callers PROVE HandlerOK(c)'
  BY <1>1, IdleOK, LockAssumption DEF Restart, IInv, TypeOK
<1> QED BY <1>3, <1>4 DEF IInv

LEMMA InitHolds ==
    ASSUME Init
    PROVE  IInv
<1>1. op \in [Callers -> Op] /\ clock = 0 /\ rows = 0 /\ row = NoRow
  BY IdleIsOp DEF Init
<1>2. row \in Row /\ row.id = 0 /\ row.expires = 0 /\ row.requester = "nobody"
  BY <1>1, LockAssumption DEF NoRow, Row, Maybe
<1>3. TypeOK /\ RequesterAsked
  BY <1>1, <1>2, LockAssumption DEF Init, TypeOK, RequesterAsked
<1>4. ASSUME NEW c \in Callers PROVE HandlerOK(c)
  BY <1>1 DEF Init, HandlerOK, Reads, At, Idle
<1> QED BY <1>3, <1>4 DEF IInv

LEMMA NextKeeps ==
    ASSUME IInv, [Next]_vars
    PROVE  IInv'
<1>1. CASE UNCHANGED vars
  <2>1. TypeOK' /\ RequesterAsked' /\ RowMoves /\ rows <= rows' /\ clock <= clock' /\ op' = op
    BY <1>1, LockAssumption DEF vars, history, IInv, TypeOK, RequesterAsked, RowMoves
  <2> QED BY <2>1, NoHandler
<1>2. CASE Next
  BY <1>2, HandlerKeeps, AcquireKeeps, LookKeeps, ConnectKeeps, DisconnectKeeps,
     ClockAndSweepKeep, RestartKeeps DEF Next
<1> QED BY <1>1, <1>2

-----------------------------------------------------------------------------

THEOREM IndCorrect == Spec => []IInv
<1>1. Init => IInv
  BY InitHolds
<1>2. IInv /\ [Next]_vars => IInv'
  BY NextKeeps
<1> QED BY <1>1, <1>2, PTL DEF Spec

(* The row and the handlers keep their types: the row has an owner who is  *)
(* in its history, and never outlives the longest time to live from now.    *)
THEOREM TypeCorrect == Spec => []TypeOK
<1>1. IInv => TypeOK
  BY DEF IInv
<1> QED BY <1>1, IndCorrect, PTL

(* "Acquired" with the lock of somebody else is told only to a user who    *)
(* had the lock and has lost it since.                                     *)
THEOREM AcquiredCorrect == Spec => []AcquiredIsMine
<1>1. IInv => AcquiredIsMine
  <2> SUFFICES ASSUME IInv, NEW c \in Callers,
                      op[c].step = "granted" /\ op[c].answer # op[c].user
               PROVE  op[c].id # 0 /\ (op[c].id # row.id \/ owned # {op[c].user})
    BY DEF AcquiredIsMine
  <2> QED BY DEF IInv, HandlerOK, Reads
<1> QED BY <1>1, IndCorrect, PTL

(* A user loses a live lock only by himself, by an admin, by one who has   *)
(* owned this very row, or by a restart of the process.                    *)
THEOREM NoTheftCorrect == Spec => NoTheft
<1> DEFINE Mine(c) == Entitled(op[c].user) /\ op'[c] # op[c]
           Fair == Deprived => Restart \/ \E c \in Callers : Mine(c)
<1>1. ASSUME IInv, Next PROVE Fair
  <2>1. ASSUME NEW c \in Callers, Handler(c), Deprived PROVE Mine(c)
    <3>0. /\ op \in [Callers -> Op] /\ op[c] \in Op /\ HandlerOK(c) /\ row \in Row
          /\ clock \in Nat /\ op[c].now \in Nat /\ (row.id # 0 => row.owner \in owned)
      BY <1>1, TypedHandler DEF IInv, TypeOK, Op
    <3>1. row.id # 0 /\ row.expires > clock /\ row.expires \in Nat /\ row' # row
      BY <2>1, <3>0 DEF Deprived, Live, Row
    <3>2. ~Removable(row, op[c].now)
      BY <3>0, <3>1 DEF Removable, Expired, HandlerOK
    <3>3. ~Refresh(c) /\ ~Request(c)
      BY <2>1, <3>0 DEF Deprived, Refresh, Request, Row
    <3>4. CASE Remove(c) \/ Accept(c)
      <4>1. Hits(c)
        BY <3>1, <3>4 DEF Remove, Accept
      <4>2. Entitled(op[c].user)
        BY <3>0, <3>4, <4>1 DEF Remove, Accept, At, Hits, HandlerOK, Reads, Entitled
      <4>3. op[c].step = "write" /\ op'[c] = Idle
        BY <3>0, <3>4 DEF Remove, Accept, At, End
      <4> QED BY <4>2, <4>3 DEF Idle
    <3>5. CASE Clear(c)
      <4>1. row.owner = op[c].user
        BY <3>1, <3>5 DEF Clear
      <4>2. op[c].step = "write" /\ op'[c] = Idle
        BY <3>0, <3>5 DEF Clear, At, End
      <4> QED BY <3>0, <3>1, <4>1, <4>2 DEF Entitled, Idle
    <3>6. ~(LookAcquire(c) \/ Reply(c) \/ Granted(c) \/ LookClear(c))
      BY <3>1 DEF LookAcquire, Reply, Granted, LookClear
    <3>7. ~Purge(c) /\ ~Insert(c)
      BY <3>1, <3>2 DEF Purge, Insert
    <3> QED BY <2>1, <3>3, <3>4, <3>5, <3>6, <3>7 DEF Handler
  <2>2. ASSUME Sweep \/ Tick PROVE ~Deprived
    BY <1>1, <2>2, LockAssumption
       DEF Sweep, Tick, Removable, Expired, Deprived, Live, IInv, TypeOK, Row
  <2>3. ASSUME NEW c \in Callers, NEW u \in Users, Acquire(c, u) PROVE ~Deprived
    BY <2>3 DEF Acquire, Deprived
  <2>4. ASSUME NEW c \in Callers, NEW u \in Users,
               NEW kind \in {"release", "request", "accept", "force"}, Look(c, u, kind)
        PROVE ~Deprived
    BY <2>4 DEF Look, Deprived
  <2>5. ASSUME NEW u \in Users, Connect(u) \/ Disconnect(u) PROVE ~Deprived
    BY <2>5 DEF Connect, Disconnect, Deprived
  <2> QED BY <1>1, <2>1, <2>2, <2>3, <2>4, <2>5 DEF Next
<1>2. IInv /\ [Next]_vars => [Deprived => Restart \/ \E c \in Callers :
                                  Entitled(op[c].user) /\ op'[c] # op[c]]_vars
  BY <1>1
<1> QED BY <1>2, IndCorrect, PTL DEF Spec, NoTheft

(* A lock changes hands only to a user who has asked for it.               *)
THEOREM TransferCorrect == Spec => TransferToRequester
<1> DEFINE Handed == row.id # 0 /\ row'.id = row.id /\ row'.owner # row.owner
<1>1. ASSUME IInv, Next, Handed PROVE row'.owner \in asked
  <2>1. ASSUME NEW c \in Callers, Handler(c) PROVE row'.owner \in asked
    <3>0. /\ op[c] \in Op /\ HandlerOK(c) /\ row \in Row /\ rows \in Nat /\ row.id <= rows
      BY <1>1, TypedHandler DEF IInv, TypeOK
    <3>1. row' # row
      BY <1>1
    <3>2. ~(LookAcquire(c) \/ Reply(c) \/ Granted(c) \/ LookClear(c))
      BY <3>1 DEF LookAcquire, Reply, Granted, LookClear
    <3>3. ~Refresh(c) /\ ~Request(c)
      BY <1>1, <3>0 DEF Refresh, Request, Row
    <3>4. ~Inserted(c)
      <4>1. row.id \in Nat
        BY <3>0, LockAssumption DEF Row
      <4>2. Inserted(c) => row'.id = rows + 1
        BY DEF Inserted, NewRow
      <4> QED BY <1>1, <3>0, <4>1, <4>2
    <3>5. ~Delete
      BY <1>1 DEF Delete, NoRow
    <3>6. ~(Purge(c) \/ Insert(c) \/ Remove(c) \/ Clear(c))
      BY <3>1, <3>4, <3>5 DEF Purge, Insert, Remove, Clear
    <3>7. Accept(c)
      BY <2>1, <3>2, <3>3, <3>6 DEF Handler
    <3>8. Hits(c)
      BY <3>1, <3>7 DEF Accept
    <3>9. PICK now \in op[c].now..clock :
            row' = [row EXCEPT !.owner = Heir(c), !.expires = now + Ttl, !.requester = "nobody"]
      BY <3>7, <3>8 DEF Accept
    <3>10. row'.owner = op[c].heir
      BY <3>0, <3>9 DEF Heir, Row
    <3> QED BY <3>0, <3>7, <3>8, <3>10 DEF HandlerOK, Reads, Hits, Accept
  <2>2. ~Sweep /\ ~Tick /\ ~Restart
    BY <1>1 DEF Sweep, Tick, Restart, Delete, NoRow
  <2>3. ASSUME NEW c \in Callers, NEW u \in Users PROVE ~Acquire(c, u)
    BY <1>1 DEF Acquire
  <2>4. ASSUME NEW c \in Callers, NEW u \in Users,
               NEW kind \in {"release", "request", "accept", "force"}
        PROVE ~Look(c, u, kind)
    BY <1>1 DEF Look
  <2>5. ASSUME NEW u \in Users PROVE ~Connect(u) /\ ~Disconnect(u)
    BY <1>1 DEF Connect, Disconnect
  <2> QED BY <1>1, <2>1, <2>2, <2>3, <2>4, <2>5 DEF Next
<1>2. IInv /\ [Next]_vars => [row.id # 0 /\ row'.id = row.id /\ row'.owner # row.owner
                                => row'.owner \in asked]_vars
  BY <1>1
<1> QED BY <1>2, IndCorrect, PTL DEF Spec, TransferToRequester

=============================================================================
