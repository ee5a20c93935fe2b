------------------------------- MODULE Outbox -------------------------------
(***************************************************************************)
(* The transactional outbox: messages of one kind, the workers that claim  *)
(* them in batches, deliver them one by one and commit (outbox/models.py,  *)
(* outbox/repository.py and the drain_*_batch functions).                  *)
(*                                                                         *)
(* The drains of webhooks, notifications, concierge callbacks, dispatches  *)
(* and partner fallbacks commit once, at the end of the batch.  The drain  *)
(* of the on_create pipeline calls services that commit the shared session *)
(* in the middle of it (MidCommit): the claims become visible, the row     *)
(* locks are gone, and only the visibility timeout protects the rest.      *)
(*                                                                         *)
(* Time is relative: wait is what is left until available_at, age is what  *)
(* has passed since the drain took its "now".                              *)
(***************************************************************************)
EXTENDS Naturals, FiniteSets

CONSTANTS
    Messages,     \* rows that may be enqueued
    Workers,
    MidCommit,    \* the services called by the drain commit its session
    BatchSize,    \* outbox_batch_size
    MaxAttempts,  \* outbox_max_attempts
    Visibility,   \* outbox_visibility_timeout_seconds, in ticks
    RetryBase,    \* outbox_retry_base_seconds, in ticks
    MaxCrashes    \* bound: drains that die or let an exception out

ASSUME OutboxAssumption ==
    /\ MidCommit \in BOOLEAN
    /\ BatchSize \in Nat \ {0} /\ MaxAttempts \in Nat \ {0}
    /\ Visibility \in Nat \ {0} /\ RetryBase \in Nat /\ MaxCrashes \in Nat

VARIABLES
    rows,       \* the committed outbox_messages
    drain,      \* each worker's session: the batch, what is left of it, the rows
                \* as last read or written (seen) and as changed in memory (mem)
    confirmed,  \* how often the receiver has confirmed the message (it may
                \* have taken it without the drain getting to know)
    crashes

vars == <<rows, drain, confirmed, crashes>>

Absent == [status |-> "ABSENT", attempts |-> 0, wait |-> 0]

NoBatch ==
    [batch |-> {}, todo |-> {}, locks |-> FALSE, age |-> 0,
     seen |-> [m \in Messages |-> Absent], mem |-> [m \in Messages |-> Absent]]

Init ==
    /\ rows = [m \in Messages |-> Absent]
    /\ drain = [w \in Workers |-> NoBatch]
    /\ confirmed = [m \in Messages |-> 0]
    /\ crashes = 0

----------------------------------------------------------------------------
Locked(m) == \E w \in Workers : drain[w].locks /\ m \in drain[w].batch

Left(ticks, age) == IF age >= ticks THEN 0 ELSE ticks - age

\* Beyond this age no deadline counted from the drain's "now" is ahead.
Horizon == Visibility + RetryBase * 2 ^ MaxAttempts

\* A flush writes the columns changed in memory since the last one.
Merged(db, seen, mem, age) ==
    [status   |-> IF mem.status # seen.status THEN mem.status ELSE db.status,
     attempts |-> IF mem.attempts # seen.attempts THEN mem.attempts ELSE db.attempts,
     wait     |-> IF mem.wait # seen.wait THEN Left(mem.wait, age) ELSE db.wait]

Flushed(w) ==
    [m \in Messages |-> IF m \in drain[w].batch
                        THEN Merged(rows[m], drain[w].seen[m], drain[w].mem[m], drain[w].age)
                        ELSE rows[m]]

----------------------------------------------------------------------------
\* OutboxRepository.enqueue, in the transaction of the producer.
Enqueue(m) ==
    /\ rows[m] = Absent
    /\ rows' = [rows EXCEPT ![m].status = "PENDING"]
    /\ UNCHANGED <<drain, confirmed, crashes>>

\* Mutants: the status is not in the query; PROCESSING is not in the query.
Ready_anyStatus(m) == rows[m].status # "ABSENT" /\ rows[m].wait = 0 /\ ~Locked(m)
Ready_onlyPending(m) == rows[m].status = "PENDING" /\ rows[m].wait = 0 /\ ~Locked(m)

\* claim_batch: ready rows nobody has locked become PROCESSING, count one more
\* attempt and are hidden for the visibility timeout.  The query prefers the
\* oldest; any choice of ready rows is allowed here.
Ready(m) == rows[m].status \in {"PENDING", "PROCESSING"} /\ rows[m].wait = 0 /\ ~Locked(m)

Claimed(r) == [status |-> "PROCESSING", attempts |-> r.attempts + 1, wait |-> Visibility]

Claim(w, batch) ==
    /\ drain[w].batch = {} /\ batch # {}
    /\ \A m \in batch : Ready(m)
    /\ drain' = [drain EXCEPT ![w] =
                   [batch |-> batch, todo |-> batch, locks |-> TRUE, age |-> 0, seen |-> rows,
                    mem |-> [m \in Messages |-> IF m \in batch THEN Claimed(rows[m]) ELSE rows[m]]]]
    /\ UNCHANGED <<rows, confirmed, crashes>>

\* Mutant: a delivered message is left as it was claimed.
MarkedDone_forgotten(r) == r

\* mark_done.
MarkedDone(r) == [r EXCEPT !.status = "DONE"]

\* mark_failed_or_retry: backoff counted from the drain's "now".
MarkedRetry(r) ==
    IF r.attempts >= MaxAttempts
    THEN [r EXCEPT !.status = "FAILED"]
    ELSE [r EXCEPT !.status = "PENDING", !.wait = RetryBase * 2 ^ (r.attempts - 1)]

\* One delivery of the batch and the mark it leaves on the row in memory.
Deliver(w, m, ok) ==
    /\ m \in drain[w].todo
    /\ drain' = [drain EXCEPT ![w].todo = @ \ {m},
                              ![w].mem[m] = IF ok THEN MarkedDone(@) ELSE MarkedRetry(@)]
    /\ confirmed' = [confirmed EXCEPT ![m] = IF ok THEN @ + 1 ELSE @]
    /\ UNCHANGED <<rows, crashes>>

\* A service called by run_on_create commits the session: what is changed so
\* far is written and every lock of the batch is released.
ServiceCommit(w) ==
    /\ MidCommit /\ drain[w].todo # {}
    /\ rows' = Flushed(w)
    /\ drain' = [drain EXCEPT ![w].locks = FALSE, ![w].seen = drain[w].mem]
    /\ UNCHANGED <<confirmed, crashes>>

\* The commit at the end of the batch.
Commit(w) ==
    /\ drain[w].batch # {} /\ drain[w].todo = {}
    /\ rows' = Flushed(w)
    /\ drain' = [drain EXCEPT ![w] = NoBatch]
    /\ UNCHANGED <<confirmed, crashes>>

\* The worker dies, or an exception the drain does not catch leaves it: what was
\* not committed is gone, what was delivered is not.
Crash(w) ==
    /\ drain[w].batch # {}
    /\ crashes < MaxCrashes
    /\ drain' = [drain EXCEPT ![w] = NoBatch]
    /\ crashes' = crashes + 1
    /\ UNCHANGED <<rows, confirmed>>

Tick ==
    /\ \/ \E m \in Messages : rows[m].wait > 0
       \/ \E w \in Workers : drain[w].batch # {} /\ drain[w].age < Horizon
    /\ rows' = [m \in Messages |-> [rows[m] EXCEPT !.wait = Left(@, 1)]]
    /\ drain' = [w \in Workers |->
                   IF drain[w].batch # {} /\ drain[w].age < Horizon
                   THEN [drain[w] EXCEPT !.age = @ + 1] ELSE drain[w]]
    /\ UNCHANGED <<confirmed, crashes>>

Batches == {b \in SUBSET Messages : Cardinality(b) <= BatchSize}

Next ==
    \/ \E m \in Messages : Enqueue(m)
    \/ \E w \in Workers :
         \/ \E b \in Batches : Claim(w, b)
         \/ \E m \in Messages, ok \in BOOLEAN : Deliver(w, m, ok)
         \/ ServiceCommit(w) \/ Commit(w) \/ Crash(w)
    \/ Tick

Spec == Init /\ [][Next]_vars

\* The scheduler triggers the drain again and again, a batch once claimed is
\* worked off, and time passes.
Fairness ==
    /\ \A w \in Workers :
         /\ WF_vars(\E b \in Batches : Claim(w, b))
         /\ WF_vars(\E m \in Messages, ok \in BOOLEAN : Deliver(w, m, ok))
         /\ WF_vars(Commit(w))
    /\ WF_vars(Tick)

FairSpec == Spec /\ Fairness

----------------------------------------------------------------------------
MessageStatus == {"ABSENT", "PENDING", "PROCESSING", "DONE", "FAILED"}
MessageRow == [status : MessageStatus, attempts : Nat, wait : Nat]
DrainState ==
    [batch : SUBSET Messages, todo : SUBSET Messages, locks : BOOLEAN, age : Nat,
     seen : [Messages -> MessageRow], mem : [Messages -> MessageRow]]

TypeOK ==
    /\ rows \in [Messages -> MessageRow]
    /\ drain \in [Workers -> DrainState]
    /\ confirmed \in [Messages -> Nat]
    /\ crashes \in Nat

\* "Concurrent workers do not overlap" (claim_batch): no message is in two
\* batches at a time.
BatchesDisjoint ==
    \A v, w \in Workers : v # w => drain[v].batch \cap drain[w].batch = {}

\* A drain that commits once never shows PROCESSING to anybody: a crash puts
\* its messages back at once, and the visibility timeout has nothing to do.
ClaimsInvisible == \A m \in Messages : rows[m].status # "PROCESSING"

\* DONE and FAILED are final: no late write brings a message back.
SettledForGood ==
    [][\A m \in Messages :
         rows[m].status \in {"DONE", "FAILED"} => rows'[m].status = rows[m].status]_vars

\* A message is sent again after the receiver has confirmed it only if a drain
\* has died between a delivery and its commit.
DuplicatesOnlyByCrash == \A m \in Messages : confirmed[m] <= 1 + crashes

\* "Terminal FAILED once the attempts are used up" (mark_failed_or_retry): not
\* before, and no attempt is made beyond outbox_max_attempts.
AttemptsBounded ==
    \A m \in Messages : /\ rows[m].attempts <= MaxAttempts
                        /\ rows[m].status = "FAILED" => rows[m].attempts = MaxAttempts

\* Every message is delivered or given up in the end.
EventuallySettled ==
    \A m \in Messages :
        (rows[m].status = "PENDING") ~> (rows[m].status \in {"DONE", "FAILED"})
=============================================================================
