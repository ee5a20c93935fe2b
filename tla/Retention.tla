----------------------------- MODULE Retention -----------------------------
(***************************************************************************)
(* retention/worker.py: the text a requester wrote is replaced by its mask *)
(* when it is old enough, by workers that may run at the same time, die in *)
(* the middle and meet handlers that hold the row of a request.            *)
(***************************************************************************)
EXTENDS Integers, FiniteSets

CONSTANTS
    Requests, Workers,
    RetentionDays,  \* raw_input_retention_days
    BatchSize       \* outbox_batch_size, the limit of the query

RetentionAssumption == RetentionDays \in Nat \ {0} /\ BatchSize \in Nat \ {0}

VARIABLES
    texts,     \* the rows: age in days, whether raw_input differs from raw_input_masked
    history,   \* how many ANONYMIZED entries each request has
    batch,     \* the rows each worker has selected and locked
    held,      \* the rows that handlers have locked
    personal   \* history: the requests whose text was personal at intake

vars == <<texts, history, batch, held, personal>>

Absent == [age |-> -1, raw |-> FALSE]

Init ==
    /\ texts = [r \in Requests |-> Absent]
    /\ history = [r \in Requests |-> 0]
    /\ batch = [w \in Workers |-> {}]
    /\ held = {} /\ personal = {}

Locked(r) == r \in held \/ \E w \in Workers : r \in batch[w]

\* Mutant: the query waits for nobody and skips nothing.
Expired_unlocked(r) == texts[r].raw /\ texts[r].age > RetentionDays

\* list_raw_input_expired: FOR UPDATE SKIP LOCKED.
Expired(r) == texts[r].raw /\ texts[r].age > RetentionDays /\ ~Locked(r)

\* The oldest of them, up to the limit.
Selections ==
    LET rows == {r \in Requests : Expired(r)}
    IN  {s \in SUBSET rows :
           /\ Cardinality(s) <= BatchSize
           /\ s = rows \/ Cardinality(s) = BatchSize
           /\ \A r \in s, o \in rows \ s : texts[r].age >= texts[o].age}

Select(w) ==
    /\ batch[w] = {}
    /\ batch' \in {[batch EXCEPT ![w] = s] : s \in Selections \ {{}}}
    /\ UNCHANGED <<texts, history, held, personal>>

\* anonymize_expired_raw_input: every row of the batch, in one commit.
Anonymize(w) ==
    /\ batch[w] # {}
    /\ texts' = [r \in Requests |-> IF r \in batch[w] THEN [texts[r] EXCEPT !.raw = FALSE] ELSE texts[r]]
    /\ history' = [r \in Requests |-> IF r \in batch[w] THEN history[r] + 1 ELSE history[r]]
    /\ batch' = [batch EXCEPT ![w] = {}]
    /\ UNCHANGED <<held, personal>>

\* The worker dies before its commit.
Crash(w) ==
    /\ batch[w] # {}
    /\ batch' = [batch EXCEPT ![w] = {}]
    /\ UNCHANGED <<texts, history, held, personal>>

\* An intake; a text may be its own mask.
Intake(r, raw) ==
    /\ texts[r] = Absent
    /\ texts' = [texts EXCEPT ![r] = [age |-> 0, raw |-> raw]]
    /\ personal' = IF raw THEN personal \cup {r} ELSE personal
    /\ UNCHANGED <<history, batch, held>>

\* A handler of the service locks the row and lets it go; none writes raw_input.
Hold(r) ==
    /\ texts[r] # Absent /\ ~Locked(r)
    /\ held' = held \cup {r}
    /\ UNCHANGED <<texts, history, batch, personal>>

Release(r) ==
    /\ r \in held
    /\ held' = held \ {r}
    /\ UNCHANGED <<texts, history, batch, personal>>

\* A day passes; beyond RetentionDays + 2 the ages are not told apart.
Day ==
    /\ texts' = [r \in Requests |->
                   IF texts[r] # Absent /\ texts[r].age < RetentionDays + 2
                   THEN [texts[r] EXCEPT !.age = @ + 1] ELSE texts[r]]
    /\ UNCHANGED <<history, batch, held, personal>>

Next ==
    \/ \E w \in Workers : Select(w) \/ Anonymize(w) \/ Crash(w)
    \/ \E r \in Requests : Hold(r) \/ Release(r) \/ \E raw \in BOOLEAN : Intake(r, raw)
    \/ Day

Spec == Init /\ [][Next]_vars
----------------------------------------------------------------------------
TypeOK ==
    /\ texts \in [Requests -> [age : -1 .. RetentionDays + 2, raw : BOOLEAN]]
    /\ history \in [Requests -> Nat]
    /\ batch \in [Workers -> SUBSET Requests]
    /\ held \subseteq Requests /\ personal \subseteq Requests

\* Two workers at the same rows, a worker that dies, a row in use: a personal text
\* is forgotten exactly when the history says so, once, and never before its time.
ForgottenOnce ==
    \A r \in Requests :
        /\ history[r] = IF r \in personal /\ ~texts[r].raw THEN 1 ELSE 0
        /\ history[r] = 1 => texts[r].age > RetentionDays
============================================================================
