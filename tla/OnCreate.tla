------------------------------ MODULE OnCreate ------------------------------
(***************************************************************************)
(* From the intake of a request to its first dispatch without a human:     *)
(* RequestService's intake under one Idempotency-Key (requests/service.py, *)
(* _intake), the automation_on_create message queued in the same commit,   *)
(* and the worker that drains it by classifying, assigning and dispatching *)
(* (automation/pipeline.py), while operators, users and partners act on    *)
(* the same request.                                                       *)
(*                                                                         *)
(* Each of the three services commits for itself.  The first commit also   *)
(* commits the claim of the message, and a process that dies after it      *)
(* leaves the request half-way: the visibility timeout brings the message  *)
(* back and the pipeline starts over.  A service that answers 409 has      *)
(* committed nothing and keeps the row locked until the next commit.       *)
(*                                                                         *)
(* Dispatching commits twice.  After its first commit the call drains its  *)
(* message with the row as it was then (channels/dispatch.py:175), and may *)
(* write the partner, or FAILED_DISPATCH, over what others have committed  *)
(* in between.  How a delivery goes is the module Dispatch.                *)
(***************************************************************************)
EXTENDS RequestFsm, Sequences, FiniteSets

CONSTANTS
    Callers,      \* calls of the intake that carry the same Idempotency-Key
    Workers,      \* processes that drain automation_on_create
    Partners,
    NoPartner,
    Levels,       \* autonomy levels the deployment may be configured with
    MaxTries,     \* outbox_max_attempts
    MaxCrashes,   \* bound: runs of the pipeline that die
    MaxRaises,    \* bound: runs that end in an unexpected exception
    MaxExpiries   \* bound: visibility timeouts passing a run that is only slow

CLASSIFY == 1
ASSIGN   == 2
DISPATCH == 3

ASSUME ConstantsAssumption ==
    /\ NoPartner \notin Partners /\ Levels \subseteq {CLASSIFY, ASSIGN, DISPATCH}
    /\ {MaxTries, MaxCrashes, MaxRaises, MaxExpiries} \subseteq Nat

VARIABLES
    calls,      \* intake calls: pc, and the request of the answer (0: none yet)
    requests,   \* committed service_requests rows with the key: status, partner,
                \* whether category and dispatched_at are set
    queue,      \* committed automation_on_create messages
    runs,       \* the pipeline run of every worker
    autonomy,   \* configured level
    dispatches, \* dispatches by the pipeline
    crashes, raises, expiries   \* counters of the bounds

faults == <<crashes, raises, expiries>>
intake == <<calls, queue>>
vars == <<calls, requests, queue, runs, autonomy, dispatches, faults>>

CLASSIFIABLE == {"NEW", "CLASSIFIED", "NEEDS_REVIEW"}

\* Mutant: an accepted request may be assigned again.
ASSIGNABLE_accepted == {"CLASSIFIED", "NEEDS_REVIEW", "MATCHING", "DISPATCHED",
                        "FAILED_DISPATCH", "ACCEPTED"}
ASSIGNABLE == {"CLASSIFIED", "NEEDS_REVIEW", "MATCHING", "DISPATCHED", "FAILED_DISPATCH"}

NewRequest == [status |-> "NEW", partner |-> NoPartner, category |-> FALSE, dispatched |-> FALSE]
Message(r) == [request |-> r, status |-> "PENDING", attempts |-> 0, visible |-> TRUE]

\* held: the claim is not yet committed (the message row is locked);
\* lock: the request row is locked by the run's open transaction; seen: the partner
\* of the row that the run dispatched.
Idle == [pc |-> "idle", msg |-> 0, tries |-> 0, held |-> FALSE, lock |-> FALSE,
         seen |-> NoPartner]

Init ==
    /\ calls = [c \in Callers |-> [pc |-> "idle", answer |-> 0]]
    /\ requests = << >> /\ queue = << >>
    /\ runs = [w \in Workers |-> Idle]
    /\ autonomy \in Levels
    /\ dispatches = 0 /\ crashes = 0 /\ raises = 0 /\ expiries = 0

----------------------------------------------------------------------------
\* _intake.  All calls have the same key: the committed row is requests[1].

\* get_by_idempotency_key, before anything is written.
Lookup(c) ==
    /\ calls[c].pc = "idle"
    /\ calls' = [calls EXCEPT ![c] =
                    IF requests # << >> THEN [pc |-> "answered", answer |-> 1]
                    ELSE [@ EXCEPT !.pc = "flush"]]
    /\ UNCHANGED <<requests, queue, runs, autonomy, dispatches, faults>>

\* Mutant: no unique index on the key.
Flush_noIndex(c) ==
    /\ calls[c].pc = "flush"
    /\ calls' = [calls EXCEPT ![c].pc = "flushed"]
    /\ UNCHANGED <<requests, queue, runs, autonomy, dispatches, faults>>

\* The INSERT waits for the uncommitted row of another call; the loser gets an
\* IntegrityError, rolls back and answers with the row of the winner.
Flush(c) ==
    /\ calls[c].pc = "flush"
    /\ \A d \in Callers : calls[d].pc # "flushed"
    /\ calls' = [calls EXCEPT ![c] =
                    IF requests # << >> THEN [pc |-> "answered", answer |-> 1]
                    ELSE [@ EXCEPT !.pc = "flushed"]]
    /\ UNCHANGED <<requests, queue, runs, autonomy, dispatches, faults>>

\* Mutant: the message is queued after the commit, if the process lives.
CommitIntake_queuedLater(c) ==
    /\ calls[c].pc = "flushed"
    /\ requests' = Append(requests, NewRequest)
    /\ queue' \in {queue, Append(queue, Message(Len(requests')))}
    /\ calls' = [calls EXCEPT ![c] = [pc |-> "answered", answer |-> Len(requests')]]
    /\ UNCHANGED <<runs, autonomy, dispatches, faults>>

\* The request and its automation_on_create message in one commit.
CommitIntake(c) ==
    /\ calls[c].pc = "flushed"
    /\ requests' = Append(requests, NewRequest)
    /\ queue' = Append(queue, Message(Len(requests')))
    /\ calls' = [calls EXCEPT ![c] = [pc |-> "answered", answer |-> Len(requests')]]
    /\ UNCHANGED <<runs, autonomy, dispatches, faults>>

\* The process dies before its commit, or the answer gets lost: the caller
\* tries again with the same key.
CallAgain(c) ==
    /\ calls[c].pc # "idle"
    /\ calls' = [calls EXCEPT ![c] = [pc |-> "idle", answer |-> 0]]
    /\ UNCHANGED <<requests, queue, runs, autonomy, dispatches, faults>>

----------------------------------------------------------------------------
\* drain_on_create_batch, one message per batch.

\* The claim of m by run w is not committed: w's transaction locks the message.
Holds(w, m) == runs[w].held /\ runs[w].msg = m

\* Mutant: locked messages are not skipped.
Claimable_locked(m) == queue[m].status \in {"PENDING", "PROCESSING"} /\ queue[m].visible

\* FOR UPDATE SKIP LOCKED, due messages only.
Claimable(m) ==
    /\ queue[m].status \in {"PENDING", "PROCESSING"} /\ queue[m].visible
    /\ \A w \in Workers : ~Holds(w, m)

Claim(w, m) ==
    /\ runs[w] = Idle /\ Claimable(m)
    /\ runs' = [runs EXCEPT ![w] = [pc |-> "classify", msg |-> m, held |-> TRUE, lock |-> FALSE,
                                    tries |-> queue[m].attempts + 1, seen |-> NoPartner]]
    /\ UNCHANGED <<calls, requests, queue, autonomy, dispatches, faults>>

\* No other run's transaction holds the row of the request.
RowFree(w, r) ==
    \A x \in Workers \ {w} : ~(runs[x].lock /\ queue[runs[x].msg].request = r)

\* What a commit of run w does to the message: the first one commits the claim.
Claimed(w) ==
    IF runs[w].held
    THEN [queue EXCEPT ![runs[w].msg] = [@ EXCEPT !.status = "PROCESSING", !.visible = FALSE,
                                                  !.attempts = runs[w].tries]]
    ELSE queue

\* A stage has committed the row and the run goes on.
Commits(w, r, row, pc) ==
    /\ requests' = [requests EXCEPT ![r] = row]
    /\ queue' = Claimed(w)
    /\ runs' = [runs EXCEPT ![w].pc = pc, ![w].held = FALSE, ![w].lock = FALSE,
                            ![w].seen = IF pc = "drain" THEN row.partner ELSE NoPartner]
    /\ UNCHANGED <<calls, autonomy, faults>>

\* A stage has answered 409 or 422: nothing committed, the row still locked.
Passes(w, pc) ==
    /\ runs' = [runs EXCEPT ![w].pc = pc, ![w].lock = TRUE]
    /\ UNCHANGED <<intake, requests, autonomy, dispatches, faults>>

At(w, pc, r) ==
    /\ runs[w].pc = pc /\ r = queue[runs[w].msg].request
    /\ RowFree(w, r)

\* ClassificationService.classify with _route_status: an unsure result ends in
\* NEEDS_REVIEW, and NEEDS_REVIEW is never left by classifying again.
ClassifiedAs(status, confident) ==
    IF confident /\ status # "NEEDS_REVIEW" THEN "CLASSIFIED" ELSE "NEEDS_REVIEW"

\* What the services make of the row.
Classified(row, confident) ==
    [row EXCEPT !.status = ClassifiedAs(@, confident), !.category = TRUE]

Assigned(row, p) == [row EXCEPT !.status = "ASSIGNED", !.partner = p]

\* apply_transition sets dispatched_at, which is never cleared.
Moved(row, s) == [row EXCEPT !.status = s, !.dispatched = @ \/ s = "DISPATCHED"]

AfterClassify == IF autonomy < ASSIGN THEN "mark" ELSE "assign"

Classify(w) ==
    \E r \in DOMAIN requests :
        /\ At(w, "classify", r)
        /\ IF requests[r].status \in CLASSIFIABLE
           THEN \E confident \in BOOLEAN :
                  LET row == Classified(requests[r], confident)
                  IN  /\ Commits(w, r, row, IF row.status = "NEEDS_REVIEW" THEN "mark"
                                            ELSE AfterClassify)
                      /\ UNCHANGED dispatches
           ELSE Passes(w, AfterClassify)

AfterAssign == IF autonomy < DISPATCH THEN "mark" ELSE "dispatch"

\* AssignmentService.assign by the matcher: 409 (the status, or a request moved on
\* by hand without a category), 422 (nobody eligible: a human goes on) or a partner.
Assignable(row) == row.status \in ASSIGNABLE /\ row.category

Assign(w) ==
    \E r \in DOMAIN requests :
        /\ At(w, "assign", r)
        /\ IF Assignable(requests[r])
           THEN \/ Passes(w, "mark")
                \/ \E p \in Partners :
                     /\ Commits(w, r, Assigned(requests[r], p), AfterAssign)
                     /\ UNCHANGED dispatches
           ELSE Passes(w, AfterAssign)

\* DispatchService.dispatch up to its first commit.
Dispatchable(row) == row.status = "ASSIGNED" /\ row.partner # NoPartner /\ row.category

DispatchStage(w) ==
    \E r \in DOMAIN requests :
        /\ At(w, "dispatch", r)
        /\ IF Dispatchable(requests[r])
           THEN /\ Commits(w, r, Moved(requests[r], "DISPATCHED"), "drain")
                /\ dispatches' = dispatches + 1
           ELSE Passes(w, "mark")

\* Its second commit, of the drain with the row of the first: a worker may have
\* delivered by then; or a partner takes the request, whose column is written if he
\* is another than the one seen; or nobody does, and FAILED_DISPATCH is written,
\* whatever has been committed meanwhile.
Drained(w) ==
    \E r \in DOMAIN requests :
        /\ At(w, "drain", r)
        /\ \/ UNCHANGED requests
           \/ \E p \in Partners \ {runs[w].seen} :
                requests' = [requests EXCEPT ![r].partner = p]
           \/ requests' = [requests EXCEPT ![r].status = "FAILED_DISPATCH"]
        /\ runs' = [runs EXCEPT ![w].pc = "mark", ![w].seen = NoPartner]
        /\ UNCHANGED <<intake, autonomy, dispatches, faults>>

\* The result is written to a message no other run has locked meanwhile.
MessageFree(w) == \A x \in Workers \ {w} : ~Holds(x, runs[w].msg)

\* mark_done and the commit of the batch, whatever the message says by now.
Mark(w) ==
    /\ runs[w].pc = "mark" /\ MessageFree(w)
    /\ queue' = [Claimed(w) EXCEPT ![runs[w].msg].status = "DONE"]
    /\ runs' = [runs EXCEPT ![w] = Idle]
    /\ UNCHANGED <<calls, requests, autonomy, dispatches, faults>>

\* mark_failed_or_retry, with the attempts this run has read.
RetryOrFail(w) ==
    /\ MessageFree(w)
    /\ queue' = [Claimed(w) EXCEPT ![runs[w].msg].status =
                    IF runs[w].tries >= MaxTries THEN "FAILED" ELSE "PENDING",
                    ![runs[w].msg].visible = FALSE]
    /\ runs' = [runs EXCEPT ![w] = Idle]

\* An exception other than 409 and 422.  The commit of the batch writes what
\* was changed before it: for assign, the partner chosen before the call that
\* orders the service at kb-platform failed (502).
Raise(w) ==
    /\ raises < MaxRaises /\ raises' = raises + 1
    /\ \/ /\ runs[w].pc \in {"classify", "assign", "dispatch", "drain"}
          /\ UNCHANGED requests
       \/ \E r \in DOMAIN requests, p \in Partners :
            /\ At(w, "assign", r) /\ Assignable(requests[r])
            /\ requests' = [requests EXCEPT ![r].partner = p]
    /\ RetryOrFail(w)
    /\ UNCHANGED <<calls, autonomy, dispatches, crashes, expiries>>

\* The worker dies: an uncommitted claim is gone with it.
Crash(w) ==
    /\ crashes < MaxCrashes /\ runs[w] # Idle
    /\ crashes' = crashes + 1
    /\ runs' = [runs EXCEPT ![w] = Idle]
    /\ UNCHANGED <<intake, requests, autonomy, dispatches, raises, expiries>>

\* A run that kept the row after a 409 and one that holds the message wait for
\* each other: PostgreSQL aborts one of them, and its transaction with it.
DeadlockVictim(w) ==
    /\ \E x \in Workers \ {w} :
         LET m == runs[w].msg
         IN  /\ m # 0 /\ runs[x].msg = m
             /\ \/ runs[w].lock /\ Holds(x, m)
                \/ runs[x].lock /\ Holds(w, m)
    /\ runs' = [runs EXCEPT ![w] = Idle]
    /\ UNCHANGED <<intake, requests, autonomy, dispatches, faults>>

\* available_at passes: the message is due (again).
Due(m) ==
    /\ ~queue[m].visible /\ queue[m].status \in {"PENDING", "PROCESSING"}
    /\ LET slow == \E w \in Workers : runs[w].msg = m
       IN  /\ slow => expiries < MaxExpiries
           /\ expiries' = IF slow THEN expiries + 1 ELSE expiries
    /\ queue' = [queue EXCEPT ![m].visible = TRUE]
    /\ UNCHANGED <<calls, requests, runs, autonomy, dispatches, crashes, raises>>

----------------------------------------------------------------------------
\* The others: operators, users and partners, the /transition that takes any arrow,
\* and, once a request has been dispatched, the fallback to another partner and the
\* drains of other calls, which may work on old rows too.
Others ==
    \E r \in DOMAIN requests :
        LET row == requests[r]
            Becomes(new) == requests' = [requests EXCEPT ![r] = new]
        IN  /\ \A w \in Workers : ~(runs[w].lock /\ queue[runs[w].msg].request = r)
            /\ \/ \E confident \in BOOLEAN :
                    row.status \in CLASSIFIABLE /\ Becomes(Classified(row, confident))
               \/ \E p \in Partners : Assignable(row) /\ Becomes(Assigned(row, p))
               \/ \E s \in RequestStatus : CanTransition(row.status, s) /\ Becomes(Moved(row, s))
               \/ \E p \in Partners, s \in {"DISPATCHED", "FAILED_DISPATCH"} :
                    /\ row.dispatched /\ row.status \in {"MATCHING", "DISPATCHED"}
                    /\ Becomes([Moved(row, s) EXCEPT !.partner = p])
               \/ row.dispatched /\ Becomes(Moved(row, "FAILED_DISPATCH"))
               \/ \E p \in Partners : row.dispatched /\ Becomes([row EXCEPT !.partner = p])
            /\ UNCHANGED <<intake, runs, autonomy, dispatches, faults>>

Step(w) == Classify(w) \/ Assign(w) \/ DispatchStage(w) \/ Drained(w) \/ Mark(w)

Next ==
    \/ \E c \in Callers : Lookup(c) \/ Flush(c) \/ CommitIntake(c) \/ CallAgain(c)
    \/ \E w \in Workers, m \in DOMAIN queue : Claim(w, m)
    \/ \E w \in Workers : Step(w) \/ Raise(w) \/ Crash(w) \/ DeadlockVictim(w)
    \/ \E m \in DOMAIN queue : Due(m)
    \/ Others

Spec == Init /\ [][Next]_vars

\* The periodic actor comes back, a run goes on, and time passes.
Fairness ==
    /\ \A w \in Workers :
         /\ WF_vars(\E m \in DOMAIN queue : Claim(w, m))
         /\ WF_vars(Step(w)) /\ WF_vars(DeadlockVictim(w))
    /\ WF_vars(\E m \in DOMAIN queue : Due(m))

FairSpec == Spec /\ Fairness

----------------------------------------------------------------------------
TypeOK ==
    /\ calls \in [Callers -> [pc : {"idle", "flush", "flushed", "answered"}, answer : Nat]]
    /\ requests \in Seq([status : RequestStatus, partner : Partners \cup {NoPartner},
                        category : BOOLEAN, dispatched : BOOLEAN])
    /\ queue \in Seq([request : Nat, attempts : Nat, visible : BOOLEAN,
                      status : {"PENDING", "PROCESSING", "DONE", "FAILED"}])
    /\ runs \in [Workers -> [pc : {"idle", "classify", "assign", "dispatch", "drain", "mark"},
                              msg : Nat, tries : Nat, held : BOOLEAN, lock : BOOLEAN,
                              seen : Partners \cup {NoPartner}]]
    /\ \A w \in Workers : runs[w].msg \in 0 .. Len(queue)
    /\ autonomy \in Levels
    /\ {dispatches, crashes, raises, expiries} \subseteq Nat

\* However many calls carry the key, at once or again after a lost answer, one
\* request is created, and whoever is answered is answered with it ("intake
\* idempotent replay", the race on the unique index in _intake).
OneRequestPerKey ==
    /\ Len(requests) <= 1
    /\ \A c \in Callers : calls[c].pc = "answered" => calls[c].answer \in DOMAIN requests

\* The pipeline dispatches a second time only if its message was taken up a
\* second time: every dispatch beyond the first is paid for by a run that died,
\* raised or outlived the visibility timeout.
DispatchedOncePerRun == dispatches <= 1 + crashes + raises + expiries

Status == IF requests = << >> THEN "NEW" ELSE requests[1].status

Lifecycle == INSTANCE RequestLifecycle
                 WITH status <- Status,
                      dispatched <- (IF requests = << >> THEN FALSE ELSE requests[1].dispatched)

\* Whatever humans and partners do between its stages and whatever it repeats, the
\* pipeline follows the lifecycle: a stage, however late, takes back no acceptance,
\* rejection of work or cancellation.  The one thing that may is the drain of a call
\* that has dispatched, its own among them: it ends in FAILED_DISPATCH.
ImplementsLifecycle == Lifecycle!Spec

\* No request is forgotten in NEW: its message is there from the creation on
\* and comes back after every failure, until somebody has classified the
\* request or the message has used up its attempts and is FAILED.
LeavesNew ==
    requests # << >> ~>
        \/ Status # "NEW"
        \/ \E m \in DOMAIN queue :
              queue[m].status = "FAILED" /\ queue[m].attempts >= MaxTries

----------------------------------------------------------------------------
\* "The pipeline can be restarted idempotently: every step tolerates 409 (the
\* stage has been passed already, on a repetition after the visibility
\* timeout)" (pipeline.py): the repetition of a run that has dispatched the
\* request leaves it dispatched.
RestartIdempotent ==
    [][ \A w \in Workers :
          /\ runs[w].tries > 1 /\ runs[w].pc = "assign" /\ runs'[w] # runs[w]
          /\ dispatches > 0 /\ Status = "DISPATCHED"
          => Status' = "DISPATCHED" ]_vars
=============================================================================
