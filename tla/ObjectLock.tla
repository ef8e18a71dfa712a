----------------------------- MODULE ObjectLock -----------------------------
(***************************************************************************)
(* The edition lock of one object (lock-service.ts): a row of object_locks *)
(* with a time to live, acquired and refreshed by editors, released,       *)
(* requested and handed over; cleared when the last event stream of its    *)
(* owner closes, swept when it has expired, purged at startup.             *)
(*                                                                         *)
(* One step is one statement on the database, or the transaction that      *)
(* replaces an expired row: it holds that row until it commits.  Every     *)
(* handler decides on the row it has read and writes later; one that       *)
(* decides to write nothing leaves no trace.                               *)
(***************************************************************************)
EXTENDS Integers

CONSTANTS
    Users,
    Admins,     \* the users with the role of admin in the workspace
    Callers,    \* handlers in flight
    Streams,    \* bound, by user: event streams open at once
    Ttl,        \* LOCK_TTL_MS, in ticks of the clock: the default
    Ttls,       \* bound, by user: the ttlMs its clients ask for, the default or not
    MaxTtl,     \* bound: the longest of them; the least is a tick
    MaxClock,   \* bound
    MaxRows     \* bound: rows ever inserted

ASSUME LockAssumption ==
    /\ Admins \subseteq Users
    /\ Streams \in [Users -> Nat] 
    /\ MaxTtl \in Nat /\ Ttl \in 1..MaxTtl
    /\ Ttls \in [Users -> SUBSET (1..MaxTtl)]
    /\ MaxClock \in Nat /\ MaxRows \in Nat
    /\ "nobody" \notin Users

VARIABLES
    clock,
    row,        \* the row of the object; NoRow when there is none
    rows,       \* rows inserted so far: the id of the last one
    op,         \* the handlers
    streams,    \* sseConnectionsByUser
    \* history
    owned,      \* the users who have owned the row
    asked       \* the users who have asked for it

history == <<owned, asked>>
vars == <<clock, row, rows, op, streams, history>>

Maybe == Users \cup {"nobody"}
NoRow == [id |-> 0, owner |-> "nobody", expires |-> 0, requester |-> "nobody"]
Row == [id : 0..MaxRows, owner : Maybe, expires : 0..(MaxClock + MaxTtl), requester : Maybe]

Kinds == {"acquire", "release", "request", "accept", "force", "clear"}
Steps == {"idle", "purge", "look", "insert", "write", "reply", "granted"}

(* now: its reading of the clock, while it is needed; id, heir: the row it *)
(* has read, or has inserted, and the requester it read; conflict: the     *)
(* outcome of the transaction; answer: the owner of the lock it answers    *)
(* with.                                                                   *)
Op == [kind : Kinds, user : Maybe, step : Steps, now : 0..MaxClock, id : 0..MaxRows,
       heir : Maybe, conflict : BOOLEAN, answer : Maybe]
Idle == [kind |-> "acquire", user |-> "nobody", step |-> "idle", now |-> 0, id |-> 0,
         heir |-> "nobody", conflict |-> FALSE, answer |-> "nobody"]

Live(r, now) == r.id # 0 /\ r.expires > now
Expired(r, now) == r.id # 0 /\ r.expires < now

Init ==
    /\ clock = 0
    /\ row = NoRow /\ rows = 0
    /\ op = [c \in Callers |-> Idle]
    /\ streams = [u \in Users |-> 0]
    /\ owned = {} /\ asked = {}

At(c, kind, step) == op[c].kind = kind /\ op[c].step = step
Goto(c, step) == op' = [op EXCEPT ![c].step = step]
End(c) == op' = [op EXCEPT ![c] = Idle]
Delete == row' = NoRow /\ owned' = {} /\ asked' = {}

-----------------------------------------------------------------------------
(* acquireLock                                                             *)

Acquire(c, u) ==
    /\ op[c] = Idle
    /\ op' = [op EXCEPT ![c].user = u, ![c].step = "purge", ![c].now = clock]
    /\ UNCHANGED <<clock, row, rows, streams, history>>

(* The caller names the time to live, or leaves it at the default.         *)
NewRow(c, ttl) == [id |-> rows + 1, owner |-> op[c].user, expires |-> op[c].now + ttl,
                   requester |-> "nobody"]
Inserted(c) ==
    /\ rows < MaxRows
    /\ \E ttl \in Ttls[op[c].user] : row' = NewRow(c, ttl)
    /\ rows' = rows + 1
    /\ owned' = {op[c].user} /\ asked' = {}
    /\ op' = [op EXCEPT ![c].step = "reply", ![c].now = 0, ![c].id = rows + 1]

Removable(r, now) == Expired(r, now)

(* The delete of the expired row: then nobody else writes until the insert *)
(* has committed.                                                          *)
Purge(c) ==
    /\ At(c, "acquire", "purge")
    /\ \/ /\ Removable(row, op[c].now)
          /\ Inserted(c)
       \/ /\ ~Removable(row, op[c].now)
          /\ Goto(c, "look")
          /\ UNCHANGED <<row, rows, history>>
    /\ UNCHANGED <<clock, streams>>

LookAcquire(c) ==
    /\ At(c, "acquire", "look")
    /\ \/ /\ ~Live(row, op[c].now)
          /\ Goto(c, "insert")
       \/ /\ Live(row, op[c].now) /\ row.owner = op[c].user
          /\ op' = [op EXCEPT ![c].step = "write", ![c].id = row.id]
       \/ /\ Live(row, op[c].now) /\ row.owner # op[c].user
          /\ op' = [op EXCEPT ![c].step = "reply", ![c].now = 0, ![c].conflict = TRUE]
    /\ UNCHANGED <<clock, row, rows, streams, history>>

(* The unique index refuses a second row, even an expired one.             *)
Insert(c) ==
    /\ At(c, "acquire", "insert")
    /\ \/ /\ row.id = 0
          /\ Inserted(c)
       \/ /\ row.id # 0
          /\ op' = [op EXCEPT ![c].step = "reply", ![c].now = 0, ![c].conflict = TRUE]
          /\ UNCHANGED <<row, rows, history>>
    /\ UNCHANGED <<clock, streams>>

(* The row is addressed by the id that was read.                           *)
HitsObject(c) == row.id # 0
Hits(c) == row.id # 0 /\ row.id = op[c].id

Refresh(c) ==
    /\ At(c, "acquire", "write")
    /\ IF Hits(c)
       THEN \E ttl \in Ttls[op[c].user] : row' = [row EXCEPT !.expires = op[c].now + ttl]
       ELSE row' = row
    /\ op' = [op EXCEPT ![c].step = "reply", ![c].now = 0]
    /\ UNCHANGED <<clock, rows, streams, history>>

(* The answer: the lock that is there now; an error when there is none.    *)
RefusedNever(c) == FALSE
Refused(c) == op[c].conflict /\ row.owner # op[c].user
Reply(c) ==
    /\ At(c, "acquire", "reply")
    /\ IF Live(row, clock) /\ ~Refused(c)
       THEN op' = [op EXCEPT ![c].step = "granted", ![c].answer = row.owner]
       ELSE End(c)
    /\ UNCHANGED <<clock, row, rows, streams, history>>

Granted(c) ==
    /\ op[c].step = "granted"
    /\ End(c)
    /\ UNCHANGED <<clock, row, rows, streams, history>>

-----------------------------------------------------------------------------
(* releaseLock, requestUnlock, acceptUnlock, forceUnlock: read and decide, *)
(* then write                                                              *)

May(u, r) == r.owner = u \/ u \in Admins
Requests(u, r) == r.owner # u /\ r.requester \in {"nobody", u}
AcceptsUnasked(u, r) == May(u, r)
Accepts(u, r) == r.requester # "nobody" /\ May(u, r)
Forces(u) == u \in Admins
Decided(kind, u, r) ==
    CASE kind = "release" -> May(u, r)
      [] kind = "request" -> Requests(u, r)
      [] kind = "accept" -> Accepts(u, r)
      [] kind = "force" -> Forces(u)

Look(c, u, kind) ==
    /\ op[c] = Idle
    /\ Live(row, clock) /\ Decided(kind, u, row)
    /\ op' = [op EXCEPT ![c] =
                [kind |-> kind, user |-> u, step |-> "write", id |-> row.id,
                 now |-> IF kind = "accept" THEN clock ELSE 0,
                 heir |-> IF kind = "accept" THEN row.requester ELSE "nobody",
                 conflict |-> FALSE, answer |-> "nobody"]]
    /\ UNCHANGED <<clock, row, rows, streams, history>>

Remove(c) ==
    /\ op[c].step = "write" /\ op[c].kind \in {"release", "force"}
    /\ IF Hits(c) THEN Delete ELSE UNCHANGED <<row, history>>
    /\ End(c)
    /\ UNCHANGED <<clock, rows, streams>>

Request(c) ==
    /\ At(c, "request", "write")
    /\ IF Hits(c)
       THEN /\ row' = [row EXCEPT !.requester = op[c].user]
            /\ asked' = asked \cup {op[c].user}
       ELSE UNCHANGED <<row, asked>>
    /\ End(c)
    /\ UNCHANGED <<clock, rows, streams, owned>>

(* The new expiry is computed after the roles have been read.              *)
HeirCaller(c) == op[c].user
Heir(c) == op[c].heir
Accept(c) ==
    /\ At(c, "accept", "write")
    /\ IF Hits(c)
       THEN /\ \E now \in op[c].now..clock :
                 row' = [row EXCEPT !.owner = Heir(c), !.expires = now + Ttl,
                                    !.requester = "nobody"]
            /\ owned' = owned \cup {Heir(c)}
       ELSE UNCHANGED <<row, owned>>
    /\ End(c)
    /\ UNCHANGED <<clock, rows, streams, asked>>

-----------------------------------------------------------------------------
(* Event streams, clearLocksForUser, the sweep, the clock, the startup     *)

StartClear(c, u) ==
    /\ op[c] = Idle
    /\ op' = [op EXCEPT ![c].kind = "clear", ![c].user = u, ![c].step = "look"]

Connect(u) ==
    /\ streams[u] < Streams[u]
    /\ streams' = [streams EXCEPT ![u] = @ + 1]
    /\ UNCHANGED <<clock, row, rows, op, history>>

Disconnect(u) ==
    /\ streams[u] > 0
    /\ streams' = [streams EXCEPT ![u] = @ - 1]
    /\ IF streams[u] = 1 THEN \E c \in Callers : StartClear(c, u) ELSE UNCHANGED op
    /\ UNCHANGED <<clock, row, rows, history>>

(* The locks of the user on every object are read: without this one among  *)
(* them there may be another, and the delete follows.                      *)
LookClear(c) ==
    /\ At(c, "clear", "look")
    /\ Goto(c, "write") \/ (row.owner # op[c].user /\ End(c))
    /\ UNCHANGED <<clock, row, rows, streams, history>>

(* The delete asks for the owner again, not for what was read.             *)
Clear(c) ==
    /\ At(c, "clear", "write")
    /\ IF row.owner = op[c].user THEN Delete ELSE UNCHANGED <<row, history>>
    /\ End(c)
    /\ UNCHANGED <<clock, rows, streams>>

Sweep ==
    /\ Removable(row, clock)
    /\ Delete
    /\ UNCHANGED <<clock, rows, op, streams>>

Tick ==
    /\ clock < MaxClock /\ clock' = clock + 1
    /\ UNCHANGED <<row, rows, op, streams, history>>

(* The process starts again; a purge that fails is logged and ignored.     *)
Restart ==
    /\ Delete \/ UNCHANGED <<row, history>>
    /\ op' = [c \in Callers |-> Idle]
    /\ streams' = [u \in Users |-> 0]
    /\ UNCHANGED <<clock, rows>>

-----------------------------------------------------------------------------

Handler(c) ==
    \/ Purge(c) \/ LookAcquire(c) \/ Insert(c) \/ Refresh(c) \/ Reply(c) \/ Granted(c)
    \/ Remove(c) \/ Request(c) \/ Accept(c)
    \/ LookClear(c) \/ Clear(c)

Next ==
    \/ \E c \in Callers : Handler(c)
    \/ \E c \in Callers, u \in Users :
         \/ Acquire(c, u)
         \/ \E kind \in {"release", "request", "accept", "force"} : Look(c, u, kind)
    \/ \E u \in Users : Connect(u) \/ Disconnect(u)
    \/ Sweep \/ Tick \/ Restart

Spec == Init /\ [][Next]_vars

-----------------------------------------------------------------------------
(* Properties                                                              *)

TypeOK ==
    /\ clock \in 0..MaxClock
    /\ row \in Row /\ rows \in 0..MaxRows /\ row.id <= rows
    /\ row.id = 0 <=> row = NoRow
    /\ row.expires <= clock + MaxTtl
    /\ op \in [Callers -> Op]
    /\ streams \in [Users -> Nat] /\ \A u \in Users : streams[u] <= Streams[u]
    /\ owned \subseteq Users /\ asked \subseteq Users
    /\ row.id # 0 => row.owner \in owned

(* A user is deprived of a lock that has not expired only by himself, by   *)
(* an admin, by one who has owned this very row, or by a restart, however  *)
(* late the handler writes what it has decided.                            *)
Deprived == Live(row, clock) /\ (row'.id # row.id \/ row'.owner # row.owner)
Entitled(u) == u \in Admins \cup owned
NoTheft ==
    [][Deprived => Restart \/ \E c \in Callers : Entitled(op[c].user) /\ op'[c] # op[c]]_vars

(* A lock changes hands only to a user who has asked for this lock.        *)
TransferToRequester ==
    [][row.id # 0 /\ row'.id = row.id /\ row'.owner # row.owner
         => row'.owner \in asked]_vars

(* An acquisition is answered with "acquired" and the lock of somebody     *)
(* else only when the caller had the lock and has lost it since.           *)
AcquiredIsMine ==
    \A c \in Callers : op[c].step = "granted" /\ op[c].answer # op[c].user =>
        op[c].id # 0 /\ (op[c].id # row.id \/ owned # {op[c].user})

=============================================================================
