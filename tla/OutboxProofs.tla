---------------------------- MODULE OutboxProofs ----------------------------
(***************************************************************************)
(* Proofs about Outbox for drains that commit once (~MidCommit), for any   *)
(* number of messages and workers and any size of batch, backoff and       *)
(* window.  The inductive invariant ties every session to the table: while *)
(* a worker has a message, its lock keeps the row as the worker has read   *)
(* it, PENDING, so the commit never overwrites anything else.              *)
(***************************************************************************)
EXTENDS Outbox, FiniteSetTheorems, TLAPS

\* What a worker's session knows of the rows of its batch.
Session(w) ==
    /\ drain[w].todo \subseteq drain[w].batch
    /\ drain[w].batch # {} => drain[w].locks
    /\ \A m \in drain[w].batch :
         /\ rows[m].status = "PENDING"
         /\ drain[w].seen[m].status = "PENDING"
         /\ drain[w].seen[m].attempts = rows[m].attempts
         /\ drain[w].mem[m].attempts = rows[m].attempts + 1
         /\ m \in drain[w].todo => drain[w].mem[m].status = "PROCESSING"
         /\ m \notin drain[w].todo =>
              \/ drain[w].mem[m].status = "DONE"
              \/ drain[w].mem[m].status = "PENDING" /\ drain[w].mem[m].attempts < MaxAttempts
              \/ drain[w].mem[m].status = "FAILED" /\ drain[w].mem[m].attempts = MaxAttempts

\* What the attempts of a committed row say about its status.
Counted(r) ==
    /\ r.status # "PROCESSING"
    /\ r.status = "ABSENT" => r.attempts = 0
    /\ r.status = "PENDING" => r.attempts < MaxAttempts
    /\ r.status = "FAILED" => r.attempts = MaxAttempts
    /\ r.attempts <= MaxAttempts

\* A confirmation too many is paid for by a crash: a message that is still to
\* be delivered has been confirmed only as often as drains have died.
Accounted(m) ==
    /\ confirmed[m] <= crashes + 1
    /\ (/\ rows[m].status \in {"ABSENT", "PENDING"}
        /\ \A w \in Workers : m \in drain[w].batch => drain[w].mem[m].status # "DONE")
         => confirmed[m] <= crashes

IInv ==
    /\ TypeOK
    /\ \A w \in Workers : Session(w)
    /\ \A m \in Messages : Counted(rows[m]) /\ Accounted(m)
    /\ BatchesDisjoint

\* A flush writes the marks of the batch and nothing else.
LEMMA FlushedRows ==
    ASSUME IInv, NEW w \in Workers, drain[w].todo = {}
    PROVE  /\ Flushed(w) \in [Messages -> MessageRow]
           /\ \A m \in Messages \ drain[w].batch : Flushed(w)[m] = rows[m]
           /\ \A m \in drain[w].batch :
                /\ rows[m].status = "PENDING"
                /\ Flushed(w)[m].status = drain[w].mem[m].status
                /\ Counted(Flushed(w)[m])
<1>1. /\ rows \in [Messages -> MessageRow]
      /\ drain[w].seen \in [Messages -> MessageRow]
      /\ drain[w].mem \in [Messages -> MessageRow]
      /\ drain[w].age \in Nat /\ drain[w].batch \subseteq Messages
  BY DEF IInv, TypeOK, DrainState
<1>2. ASSUME NEW m \in drain[w].batch
      PROVE  /\ Flushed(w)[m] \in MessageRow
             /\ rows[m].status = "PENDING"
             /\ Flushed(w)[m].status = drain[w].mem[m].status
             /\ Counted(Flushed(w)[m])
  <2> DEFINE db == rows[m]
             seen == drain[w].seen[m]
             mem == drain[w].mem[m]
             new == Merged(db, seen, mem, drain[w].age)
  <2>1. Flushed(w)[m] = new
    BY <1>1 DEF Flushed
  <2>2. db \in MessageRow /\ seen \in MessageRow /\ mem \in MessageRow
    BY <1>1
  <2>3. /\ db.status = "PENDING" /\ seen.status = "PENDING"
        /\ seen.attempts = db.attempts /\ mem.attempts = db.attempts + 1
        /\ \/ mem.status = "DONE"
           \/ mem.status = "PENDING" /\ mem.attempts < MaxAttempts
           \/ mem.status = "FAILED" /\ mem.attempts = MaxAttempts
        /\ db.attempts < MaxAttempts
    BY <1>1 DEF IInv, Session, Counted
  <2>4. Left(mem.wait, drain[w].age) \in Nat
    BY <1>1, <2>2 DEF Left, MessageRow
  <2>5. /\ new.status = mem.status /\ new.attempts = mem.attempts /\ new.wait \in Nat
        /\ new = [status |-> new.status, attempts |-> new.attempts, wait |-> new.wait]
    BY <2>2, <2>3, <2>4 DEF Merged, MessageRow
  <2>6. new \in MessageRow
    BY <2>2, <2>5 DEF MessageRow
  <2>7. MaxAttempts \in Nat /\ db.attempts \in Nat
    BY <2>2, OutboxAssumption DEF MessageRow
  <2>8. Counted(new)
    BY <2>3, <2>5, <2>7 DEF Counted
  <2> QED BY <2>1, <2>3, <2>5, <2>6, <2>8
<1>3. \A m \in Messages \ drain[w].batch : Flushed(w)[m] = rows[m]
  BY DEF Flushed
<1>4. Flushed(w) \in [Messages -> MessageRow]
  <2>1. ASSUME NEW m \in Messages PROVE Flushed(w)[m] \in MessageRow
    BY <1>1, <1>2, <1>3
  <2> QED BY <2>1 DEF Flushed
<1> QED BY <1>2, <1>3, <1>4

\* The backoff is a natural number: two to the power n counts the subsets of
\* 1 .. n.
LEMMA PowerType == ASSUME NEW n \in Nat PROVE 2 ^ n \in Nat
<1>1. IsFiniteSet(1 .. n) /\ Cardinality(1 .. n) = n
  BY FS_Interval
<1>2. IsFiniteSet(SUBSET (1 .. n)) /\ Cardinality(SUBSET (1 .. n)) = 2 ^ n
  BY <1>1, FS_SUBSET
<1> QED BY <1>2, FS_CardinalityType

\* What a mark makes of a message the drain has claimed.
LEMMA Marks ==
    ASSUME NEW r \in MessageRow, r.status = "PROCESSING",
           r.attempts \in 1 .. MaxAttempts
    PROVE  /\ MarkedDone(r) \in MessageRow /\ MarkedRetry(r) \in MessageRow
           /\ MarkedDone(r).status = "DONE"
           /\ MarkedDone(r).attempts = r.attempts
           /\ MarkedRetry(r).attempts = r.attempts
           /\ \/ MarkedRetry(r).status = "PENDING" /\ r.attempts < MaxAttempts
              \/ MarkedRetry(r).status = "FAILED" /\ r.attempts = MaxAttempts
<1> DEFINE backoff == 2 ^ (r.attempts - 1)
<1>1. r.attempts \in Nat /\ r.attempts - 1 \in Nat /\ MaxAttempts \in Nat /\ RetryBase \in Nat
  BY OutboxAssumption DEF MessageRow
<1>2. backoff \in Nat
  BY <1>1, PowerType
<1> HIDE DEF backoff
<1>3. RetryBase * backoff \in Nat
  BY <1>1, <1>2
<1>4. MarkedRetry(r) = IF r.attempts >= MaxAttempts
                       THEN [r EXCEPT !.status = "FAILED"]
                       ELSE [r EXCEPT !.status = "PENDING", !.wait = RetryBase * backoff]
  BY DEF MarkedRetry, backoff
<1>5. r.attempts >= MaxAttempts => r.attempts = MaxAttempts
  BY <1>1
<1>6. /\ MarkedDone(r) \in MessageRow
      /\ MarkedDone(r).status = "DONE" /\ MarkedDone(r).attempts = r.attempts
  BY DEF MarkedDone, MessageRow, MessageStatus
<1>7. CASE r.attempts >= MaxAttempts
  BY <1>4, <1>5, <1>6, <1>7 DEF MessageRow, MessageStatus
<1>8. CASE ~(r.attempts >= MaxAttempts)
  <2>1. MarkedRetry(r) = [r EXCEPT !.status = "PENDING", !.wait = RetryBase * backoff]
    BY <1>4, <1>8
  <2>2. r.attempts < MaxAttempts
    BY <1>1, <1>8
  <2> QED BY <1>3, <1>6, <2>1, <2>2 DEF MessageRow, MessageStatus
<1> QED BY <1>7, <1>8

LEMMA InitIInv == Init => IInv
<1> SUFFICES ASSUME Init PROVE IInv
  OBVIOUS
<1>1. Absent \in MessageRow
  BY DEF Absent, MessageRow, MessageStatus
<1>2. TypeOK
  BY <1>1 DEF Init, TypeOK, NoBatch, DrainState
<1>3. \A w \in Workers : Session(w)
  BY DEF Init, Session, NoBatch
<1>4. \A m \in Messages : Counted(rows[m]) /\ Accounted(m)
  BY OutboxAssumption DEF Init, Counted, Accounted, Absent
<1> QED BY <1>2, <1>3, <1>4 DEF IInv, BatchesDisjoint, Init, NoBatch

LEMMA EnqueueIInv == ASSUME IInv, NEW m \in Messages, Enqueue(m) PROVE IInv'
<1>1. rows' \in [Messages -> MessageRow]
  BY DEF IInv, TypeOK, Enqueue, MessageRow, MessageStatus
<1>2. TypeOK'
  BY <1>1 DEF IInv, TypeOK, Enqueue
<1>3. /\ rows[m].status = "ABSENT" /\ rows[m].attempts = 0
      /\ rows'[m].status = "PENDING" /\ rows'[m].attempts = 0
      /\ \A n \in Messages : n # m => rows'[n] = rows[n]
  BY DEF IInv, TypeOK, Enqueue, Absent, MessageRow
<1>4. \A w \in Workers : m \notin drain[w].batch
  BY <1>3 DEF IInv, Session
<1>5. ASSUME NEW w \in Workers PROVE Session(w)'
  <2>1. drain' = drain /\ Session(w) /\ drain[w].batch \subseteq Messages
    BY DEF Enqueue, IInv, TypeOK, DrainState
  <2>2. \A n \in drain[w].batch : rows'[n] = rows[n]
    BY <1>3, <1>4, <2>1
  <2> QED BY <2>1, <2>2 DEF Session
<1>6. ASSUME NEW n \in Messages PROVE (Counted(rows[n]) /\ Accounted(n))'
  <2>1. Counted(rows[n])'
    BY <1>3, OutboxAssumption DEF IInv, Counted
  <2>2. Accounted(n)'
    BY <1>3 DEF IInv, Accounted, Enqueue
  <2> QED BY <2>1, <2>2
<1> QED BY <1>2, <1>5, <1>6 DEF IInv, BatchesDisjoint, Enqueue

LEMMA ClaimIInv ==
    ASSUME IInv, NEW w \in Workers, NEW batch \in SUBSET Messages, Claim(w, batch)
    PROVE  IInv'
<1> DEFINE mem == [m \in Messages |-> IF m \in batch THEN Claimed(rows[m]) ELSE rows[m]]
<1>1. /\ rows \in [Messages -> MessageRow] /\ rows' = rows
      /\ confirmed' = confirmed /\ crashes' = crashes
      /\ drain' = [drain EXCEPT ![w] = [batch |-> batch, todo |-> batch, locks |-> TRUE,
                                        age |-> 0, seen |-> rows, mem |-> mem]]
  BY DEF IInv, TypeOK, Claim
<1>2. \A m \in batch : /\ rows[m].status = "PENDING"
                       /\ Claimed(rows[m]) \in MessageRow
                       /\ Claimed(rows[m]).status = "PROCESSING"
                       /\ Claimed(rows[m]).attempts = rows[m].attempts + 1
  BY <1>1, OutboxAssumption
     DEF Claim, Ready, IInv, Counted, Claimed, MessageRow, MessageStatus
<1>3. mem \in [Messages -> MessageRow]
  BY <1>1, <1>2
<1>4. \A v \in Workers : v # w => drain[v].batch \cap batch = {}
  BY DEF Claim, Ready, Locked, IInv, Session
<1>5. /\ \A v \in Workers : v # w => drain'[v] = drain[v]
      /\ drain'[w] = [batch |-> batch, todo |-> batch, locks |-> TRUE,
                      age |-> 0, seen |-> rows, mem |-> mem]
  BY <1>1 DEF IInv, TypeOK
<1>6. TypeOK'
  BY <1>1, <1>3 DEF IInv, TypeOK, DrainState
<1>7. ASSUME NEW v \in Workers PROVE Session(v)'
  <2>1. CASE v = w
    <3>1. \A m \in batch : mem[m] = Claimed(rows[m])
      OBVIOUS
    <3> HIDE DEF mem
    <3> QED BY <1>1, <1>2, <1>5, <2>1, <3>1 DEF Session
  <2>2. CASE v # w
    BY <1>1, <1>5, <2>2 DEF IInv, Session
  <2> QED BY <2>1, <2>2
<1>8. ASSUME NEW m \in Messages PROVE Counted(rows[m])' /\ Accounted(m)'
  <2>1. \A v \in Workers : m \in drain[v].batch => v # w
    BY DEF Claim
  <2> HIDE DEF mem
  <2>2. \A v \in Workers : m \in drain[v].batch =>
          drain'[v].batch = drain[v].batch /\ drain'[v].mem = drain[v].mem
    BY <1>5, <2>1
  <2> QED BY <1>1, <2>2 DEF IInv, Accounted
<1>9. BatchesDisjoint'
  BY <1>4, <1>5 DEF IInv, BatchesDisjoint
<1> QED BY <1>6, <1>7, <1>8, <1>9 DEF IInv

LEMMA DeliverIInv ==
    ASSUME IInv, NEW w \in Workers, NEW m \in Messages, NEW ok \in BOOLEAN,
           Deliver(w, m, ok)
    PROVE  IInv'
<1> DEFINE old == drain[w].mem[m]
           marked == IF ok THEN MarkedDone(old) ELSE MarkedRetry(old)
<1>1. /\ old \in MessageRow /\ old.status = "PROCESSING"
      /\ old.attempts \in 1 .. MaxAttempts /\ old.attempts = rows[m].attempts + 1
      /\ rows[m].status = "PENDING" /\ m \in drain[w].batch /\ m \in drain[w].todo
  <2>1. m \in drain[w].todo /\ m \in drain[w].batch /\ old \in MessageRow
    BY DEF Deliver, IInv, Session, TypeOK, DrainState
  <2>2. rows[m].attempts \in Nat /\ MaxAttempts \in Nat
    BY OutboxAssumption DEF IInv, TypeOK, MessageRow
  <2> QED BY <2>1, <2>2 DEF IInv, Session, Counted
<1>2. /\ marked \in MessageRow /\ marked.attempts = old.attempts
      /\ IF ok THEN marked.status = "DONE"
         ELSE \/ marked.status = "PENDING" /\ marked.attempts < MaxAttempts
              \/ marked.status = "FAILED" /\ marked.attempts = MaxAttempts
  BY <1>1, Marks
<1>3. /\ rows' = rows /\ crashes' = crashes
      /\ confirmed' = [confirmed EXCEPT ![m] = IF ok THEN @ + 1 ELSE @]
      /\ drain' = [drain EXCEPT ![w].todo = @ \ {m}, ![w].mem[m] = marked]
  BY DEF Deliver
<1> HIDE DEF marked
<1>4. /\ \A v \in Workers : v # w => drain'[v] = drain[v]
      /\ drain'[w] = [drain[w] EXCEPT !.todo = @ \ {m}, !.mem[m] = marked]
  BY <1>3 DEF IInv, TypeOK
<1>5. TypeOK'
  <2>1. drain[w] \in DrainState
    BY DEF IInv, TypeOK
  <2>2. [drain[w] EXCEPT !.todo = @ \ {m}, !.mem[m] = marked] \in DrainState
    BY <1>2, <2>1 DEF DrainState
  <2>3. drain' \in [Workers -> DrainState]
    BY <1>3, <1>4, <2>2 DEF IInv, TypeOK
  <2> QED BY <1>3, <2>3 DEF IInv, TypeOK
<1>6. /\ drain'[w].batch = drain[w].batch /\ drain'[w].todo = drain[w].todo \ {m}
      /\ drain'[w].locks = drain[w].locks /\ drain'[w].seen = drain[w].seen
      /\ drain'[w].mem[m] = marked
      /\ \A n \in Messages : n # m => drain'[w].mem[n] = drain[w].mem[n]
  BY <1>4 DEF IInv, TypeOK, DrainState
<1>7. ASSUME NEW v \in Workers PROVE Session(v)'
  <2>1. CASE v = w
    <3>1. Session(w) /\ drain[w].batch \subseteq Messages
      BY DEF IInv, TypeOK, DrainState
    <3> HIDE DEF old
    <3>2. /\ drain'[w].todo \subseteq drain'[w].batch
          /\ drain'[w].batch # {} => drain'[w].locks
      BY <1>6, <3>1 DEF Session
    <3>3. ASSUME NEW n \in drain[w].batch, n # m
          PROVE  /\ rows'[n] = rows[n] /\ drain'[w].mem[n] = drain[w].mem[n]
                 /\ drain'[w].seen = drain[w].seen
                 /\ n \in drain'[w].todo <=> n \in drain[w].todo
      BY <1>3, <1>6, <3>1, <3>3
    <3>4. /\ rows'[m] = rows[m] /\ drain'[w].mem[m] = marked /\ m \notin drain'[w].todo
          /\ marked.attempts = rows[m].attempts + 1 /\ drain'[w].seen = drain[w].seen
          /\ \/ marked.status = "DONE"
             \/ marked.status = "PENDING" /\ marked.attempts < MaxAttempts
             \/ marked.status = "FAILED" /\ marked.attempts = MaxAttempts
      BY <1>1, <1>2, <1>3, <1>6
    <3> QED BY <1>6, <2>1, <3>1, <3>2, <3>3, <3>4 DEF Session
  <2>2. CASE v # w
    <3>1. Session(v) /\ rows' = rows /\ drain'[v] = drain[v]
      BY <1>3, <1>4, <2>2 DEF IInv
    <3> HIDE DEF old
    <3> QED BY <3>1 DEF Session
  <2> QED BY <2>1, <2>2
<1>8. ASSUME NEW n \in Messages PROVE Counted(rows[n])' /\ Accounted(n)'
  <2>1. CASE n # m
    <3>1. \A v \in Workers : /\ drain'[v].batch = drain[v].batch
                             /\ drain'[v].mem[n] = drain[v].mem[n]
      BY <1>4, <1>6, <2>1
    <3>2. confirmed'[n] = confirmed[n]
      BY <1>3, <2>1 DEF IInv, TypeOK
    <3> QED BY <1>3, <3>1, <3>2 DEF IInv, Accounted
  <2>2. CASE n = m
    <3>1. \A v \in Workers : m \in drain[v].batch => v = w
      BY <1>1 DEF IInv, BatchesDisjoint
    <3>2. confirmed[m] <= crashes /\ confirmed[m] \in Nat /\ crashes \in Nat
      BY <1>1, <3>1 DEF IInv, Accounted, TypeOK
    <3>3. confirmed'[m] = IF ok THEN confirmed[m] + 1 ELSE confirmed[m]
      BY <1>3 DEF IInv, TypeOK
    <3>4. Accounted(m)'
      <4>1. CASE ok
        <5>1. drain'[w].mem[m].status = "DONE" /\ m \in drain'[w].batch
          BY <1>1, <1>2, <1>6, <4>1
        <5>2. confirmed'[m] <= crashes' + 1
          BY <1>3, <3>2, <3>3, <4>1
        <5> QED BY <5>1, <5>2 DEF Accounted
      <4>2. CASE ~ok
        BY <1>3, <3>2, <3>3, <4>2 DEF Accounted
      <4> QED BY <4>1, <4>2
    <3> QED BY <1>3, <2>2, <3>4 DEF IInv
  <2> QED BY <2>1, <2>2
<1>9. BatchesDisjoint'
  BY <1>4, <1>6 DEF IInv, BatchesDisjoint
<1> QED BY <1>5, <1>7, <1>8, <1>9 DEF IInv

\* Leaving a batch, with or without its commit, touches no other session.
LEMMA LeaveBatch ==
    ASSUME IInv, NEW w \in Workers, drain' = [drain EXCEPT ![w] = NoBatch]
    PROVE  /\ drain'[w] = NoBatch /\ drain'[w].batch = {}
           /\ \A v \in Workers : v # w => drain'[v] = drain[v]
           /\ drain' \in [Workers -> DrainState]
           /\ BatchesDisjoint'
           /\ Session(w)'
<1>1. Absent \in MessageRow
  BY DEF Absent, MessageRow, MessageStatus
<1>2. /\ drain'[w] = NoBatch /\ drain'[w].batch = {}
      /\ \A v \in Workers : v # w => drain'[v] = drain[v]
  BY DEF IInv, TypeOK, NoBatch
<1>3. BatchesDisjoint'
  BY <1>2 DEF IInv, BatchesDisjoint
<1>4. Session(w)'
  BY <1>2 DEF Session, NoBatch
<1>5. NoBatch \in DrainState
  BY <1>1 DEF NoBatch, DrainState
<1>6. drain' \in [Workers -> DrainState]
  BY <1>5 DEF IInv, TypeOK
<1> QED BY <1>2, <1>3, <1>4, <1>6

LEMMA CommitIInv == ASSUME IInv, NEW w \in Workers, Commit(w) PROVE IInv'
<1>1. /\ rows' = Flushed(w) /\ drain' = [drain EXCEPT ![w] = NoBatch]
      /\ confirmed' = confirmed /\ crashes' = crashes /\ drain[w].todo = {}
  BY DEF Commit
<1>2. /\ rows' \in [Messages -> MessageRow]
      /\ \A m \in Messages \ drain[w].batch : rows'[m] = rows[m]
      /\ \A m \in drain[w].batch :
           /\ rows[m].status = "PENDING"
           /\ rows'[m].status = drain[w].mem[m].status
           /\ Counted(rows'[m])
  BY <1>1, FlushedRows
<1>3. TypeOK'
  BY <1>1, <1>2, LeaveBatch DEF IInv, TypeOK
<1>4. ASSUME NEW v \in Workers PROVE Session(v)'
  <2>1. CASE v # w
    <3>1. /\ drain'[v] = drain[v] /\ drain[v].batch \subseteq Messages
          /\ drain[v].batch \cap drain[w].batch = {}
      BY <1>1, <2>1, LeaveBatch DEF IInv, TypeOK, DrainState, BatchesDisjoint
    <3>2. \A m \in drain[v].batch : rows'[m] = rows[m]
      BY <1>2, <3>1
    <3> QED BY <3>1, <3>2 DEF IInv, Session
  <2> QED BY <1>1, <2>1, LeaveBatch
<1>5. ASSUME NEW m \in Messages PROVE Counted(rows[m])' /\ Accounted(m)'
  <2>1. CASE m \in drain[w].batch
    <3>1. \A v \in Workers : m \in drain[v].batch => v = w
      BY <2>1 DEF IInv, BatchesDisjoint
    <3>2. rows'[m].status = "PENDING" => confirmed[m] <= crashes
      BY <1>2, <2>1, <3>1 DEF IInv, Accounted
    <3>3. rows'[m].status # "ABSENT"
      BY <1>2, <2>1, <1>1 DEF IInv, Session
    <3> QED BY <1>1, <1>2, <2>1, <3>2, <3>3 DEF IInv, Accounted
  <2>2. CASE m \notin drain[w].batch
    <3>1. \A v \in Workers : m \in drain[v].batch => drain'[v] = drain[v]
      BY <1>1, <2>2, LeaveBatch
    <3> QED BY <1>1, <1>2, <2>2, <3>1 DEF IInv, Accounted
  <2> QED BY <2>1, <2>2
<1> QED BY <1>1, <1>3, <1>4, <1>5, LeaveBatch DEF IInv

LEMMA CrashIInv == ASSUME IInv, NEW w \in Workers, Crash(w) PROVE IInv'
<1>1. /\ rows' = rows /\ confirmed' = confirmed /\ crashes' = crashes + 1
      /\ drain' = [drain EXCEPT ![w] = NoBatch]
  BY DEF Crash
<1>2. TypeOK'
  <2>1. drain' \in [Workers -> DrainState]
    BY <1>1, LeaveBatch
  <2>2. crashes' \in Nat
    BY <1>1 DEF IInv, TypeOK
  <2> QED BY <1>1, <2>1, <2>2 DEF IInv, TypeOK
<1>3. ASSUME NEW v \in Workers PROVE Session(v)'
  <2>1. CASE v # w
    BY <1>1, <2>1, LeaveBatch DEF IInv, Session
  <2> QED BY <1>1, <2>1, LeaveBatch
<1>4. ASSUME NEW m \in Messages PROVE Counted(rows[m])' /\ Accounted(m)'
  <2>1. confirmed'[m] <= crashes' /\ confirmed'[m] \in Nat /\ crashes' \in Nat
    BY <1>1 DEF IInv, Accounted, TypeOK
  <2> QED BY <1>1, <2>1 DEF IInv, Accounted
<1> QED BY <1>1, <1>2, <1>3, <1>4, LeaveBatch DEF IInv

LEMMA TickIInv == ASSUME IInv, Tick PROVE IInv'
<1>1. \A n \in Nat : Left(n, 1) \in Nat
  BY DEF Left
<1>2. /\ rows' = [m \in Messages |-> [rows[m] EXCEPT !.wait = Left(@, 1)]]
      /\ confirmed' = confirmed /\ crashes' = crashes
      /\ drain' = [w \in Workers |->
                     IF drain[w].batch # {} /\ drain[w].age < Horizon
                     THEN [drain[w] EXCEPT !.age = @ + 1] ELSE drain[w]]
  BY DEF Tick
<1>3. /\ rows' \in [Messages -> MessageRow]
      /\ \A m \in Messages : /\ rows'[m].status = rows[m].status
                             /\ rows'[m].attempts = rows[m].attempts
  BY <1>1, <1>2 DEF IInv, TypeOK, MessageRow
<1>4. \A w \in Workers : /\ drain'[w].batch = drain[w].batch
                         /\ drain'[w].todo = drain[w].todo
                         /\ drain'[w].locks = drain[w].locks
                         /\ drain'[w].seen = drain[w].seen
                         /\ drain'[w].mem = drain[w].mem
  BY <1>2 DEF IInv, TypeOK
<1>5. TypeOK'
  <2>1. ASSUME NEW w \in Workers PROVE drain'[w] \in DrainState
    <3>1. drain[w] \in DrainState /\ drain[w].age + 1 \in Nat
      BY DEF IInv, TypeOK, DrainState
    <3>2. [drain[w] EXCEPT !.age = @ + 1] \in DrainState
      BY <3>1 DEF DrainState
    <3>3. drain'[w] \in {drain[w], [drain[w] EXCEPT !.age = @ + 1]}
      BY <1>2
    <3> QED BY <3>1, <3>2, <3>3
  <2>2. drain' \in [Workers -> DrainState]
    BY <1>2, <2>1
  <2> QED BY <1>2, <1>3, <2>2 DEF IInv, TypeOK
<1>6. ASSUME NEW w \in Workers PROVE Session(w)'
  <2>1. Session(w) /\ drain[w].batch \subseteq Messages
    BY DEF IInv, TypeOK, DrainState
  <2> QED BY <1>3, <1>4, <2>1 DEF Session
<1>7. ASSUME NEW m \in Messages PROVE Counted(rows[m])' /\ Accounted(m)'
  BY <1>2, <1>3, <1>4 DEF IInv, Counted, Accounted
<1> QED BY <1>4, <1>5, <1>6, <1>7 DEF IInv, BatchesDisjoint

----------------------------------------------------------------------------
LEMMA StepIInv == ASSUME ~MidCommit, IInv, [Next]_vars PROVE IInv'
<1>1. CASE UNCHANGED vars
  BY <1>1 DEF vars, IInv, TypeOK, Session, Counted, Accounted, BatchesDisjoint
<1>2. ASSUME NEW m \in Messages, Enqueue(m) PROVE IInv'
  BY <1>2, EnqueueIInv
<1>3. ASSUME NEW w \in Workers, NEW b \in Batches, Claim(w, b) PROVE IInv'
  BY <1>3, ClaimIInv DEF Batches
<1>4. ASSUME NEW w \in Workers, NEW m \in Messages, NEW ok \in BOOLEAN, Deliver(w, m, ok)
      PROVE  IInv'
  BY <1>4, DeliverIInv
<1>5. ASSUME NEW w \in Workers, ServiceCommit(w) PROVE IInv'
  BY <1>5 DEF ServiceCommit
<1>6. ASSUME NEW w \in Workers, Commit(w) \/ Crash(w) PROVE IInv'
  BY <1>6, CommitIInv, CrashIInv
<1>7. CASE Tick
  BY <1>7, TickIInv
<1> QED BY <1>1, <1>2, <1>3, <1>4, <1>5, <1>6, <1>7 DEF Next

\* The inductive invariant of the drains that commit once.
THEOREM OutboxInvariant == ASSUME ~MidCommit PROVE Spec => []IInv
<1>1. IInv /\ [Next]_vars => IInv'
  BY StepIInv
<1> QED BY <1>1, InitIInv, PTL DEF Spec

\* Rows, sessions and counters keep their types.
THEOREM OutboxType == ASSUME ~MidCommit PROVE Spec => []TypeOK
<1>1. IInv => TypeOK
  BY DEF IInv
<1> QED BY <1>1, OutboxInvariant, PTL

\* Two workers never have the same message at hand (SKIP LOCKED).
THEOREM BatchesDisjointHolds == ASSUME ~MidCommit PROVE Spec => []BatchesDisjoint
<1>1. IInv => BatchesDisjoint
  BY DEF IInv
<1> QED BY <1>1, OutboxInvariant, PTL

\* A claim is never seen by anybody but the worker who made it.
THEOREM ClaimsInvisibleHolds == ASSUME ~MidCommit PROVE Spec => []ClaimsInvisible
<1>1. IInv => ClaimsInvisible
  BY DEF IInv, Counted, ClaimsInvisible
<1> QED BY <1>1, OutboxInvariant, PTL

\* FAILED is written after exactly outbox_max_attempts committed attempts.
THEOREM AttemptsBoundedHolds == ASSUME ~MidCommit PROVE Spec => []AttemptsBounded
<1>1. IInv => AttemptsBounded
  BY DEF IInv, Counted, AttemptsBounded
<1> QED BY <1>1, OutboxInvariant, PTL

\* Each confirmed delivery beyond the first is paid for by a drain that died.
THEOREM DuplicatesOnlyByCrashHolds == ASSUME ~MidCommit PROVE Spec => []DuplicatesOnlyByCrash
<1>1. IInv => DuplicatesOnlyByCrash
  BY DEF IInv, TypeOK, Accounted, DuplicatesOnlyByCrash
<1> QED BY <1>1, OutboxInvariant, PTL

\* No commit ever changes a message that is DONE or FAILED.
THEOREM SettledForGoodHolds == ASSUME ~MidCommit PROVE Spec => SettledForGood
<1> DEFINE Kept == \A m \in Messages :
                     rows[m].status \in {"DONE", "FAILED"} => rows'[m].status = rows[m].status
<1>1. IInv /\ [Next]_vars => [Kept]_vars
  <2> SUFFICES ASSUME IInv, Next PROVE Kept
    OBVIOUS
  <2>1. ASSUME NEW m \in Messages, Enqueue(m) PROVE Kept
    BY <2>1 DEF Enqueue, Absent, IInv, TypeOK
  <2>2. ASSUME NEW w \in Workers, Commit(w) PROVE Kept
    BY <2>2, FlushedRows DEF Commit
  <2>3. CASE Tick
    BY <2>3 DEF Tick, IInv, TypeOK, MessageRow
  <2>4. ASSUME NEW w \in Workers, ServiceCommit(w) PROVE Kept
    BY <2>4 DEF ServiceCommit
  <2>5. CASE rows' = rows
    BY <2>5
  <2> QED BY <2>1, <2>2, <2>3, <2>4, <2>5 DEF Next, Claim, Deliver, Crash
<1> QED BY <1>1, OutboxInvariant, PTL DEF Spec, SettledForGood
============================================================================
