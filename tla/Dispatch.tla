------------------------------ MODULE Dispatch ------------------------------
(***************************************************************************)
(* Delivery of one service request to partners: the dispatch endpoint and  *)
(* its outbox message, the worker that drains it, the fallback chain after *)
(* a rejection or an unanswered dispatch, and the transactions of the      *)
(* other endpoints that meet them (channels/dispatch.py,                   *)
(* automation/timers.py, outbox/repository.py, requests/partner.py).       *)
(*                                                                         *)
(* A transaction that calls the partner's channel is long: it takes the    *)
(* message lock, then the row lock, delivers channel by channel, commits.  *)
(* These steps are actions of their own; a crash between two of them rolls *)
(* the transaction back but not what the partner has received.  Every      *)
(* other endpoint is one transaction under the row lock, hence one action. *)
(*                                                                         *)
(* The session keeps loaded objects across commits (expire_on_commit is    *)
(* off and FOR UPDATE does not refresh them): the endpoint's own drain     *)
(* works on the row as it was at its first commit, and a commit writes     *)
(* only the columns that were changed in memory (Merge).                   *)
(***************************************************************************)
EXTENDS RequestFsm, Sequences, FiniteSets

CONSTANTS
    Partners,
    NoPartner,
    Channels,        \* active channels of every partner
    Servers,         \* API processes that live to run the drain of a dispatch
    Workers,         \* processes of the periodic actors
    OperatorTargets, \* statuses operators ask of the free /transition
    Replies,         \* what partners answer: keys of PARTNER_STATUS_TARGET
    MaxChain,        \* bound: partners in a fallback chain
    MaxDispatches,   \* bound: dispatches through the endpoint or by hand
    MaxTries,        \* outbox_max_attempts
    MaxCrashes,      \* bound: transactions that die
    MaxRaises        \* bound: deliveries that raise an unexpected exception

ASSUME ProcessesAssumption ==
    NoPartner \notin Partners /\ Servers \cap Workers = {}

ASSUME BoundsAssumption ==
    /\ {Channels, MaxChain, MaxDispatches, MaxCrashes, MaxRaises} \subseteq Nat
    /\ MaxTries \in Nat \ {0}

VARIABLES
    req,        \* the committed row: status, partner (partner_id), chain
                \* (fallback_chain), dispatched (which dispatch dispatched_at is
                \* of, 0 when NULL), and in sla: accept (the dispatch that
                \* accept_deadline counts from, 0 when unset) and perform
                \* (perform_deadline is set)
    attempts,   \* committed DispatchAttempt rows
    outbox,     \* messages of kind dispatch and partner_fallback: status, attempts
                \* (tries) and whether last_error is set (error)
    tx,         \* the long transaction of each process
    received,   \* what partners have got: partner, idempotency key, dispatch
    elapsed,    \* the dispatches whose accept window is over: 1 .. elapsed
    declined,   \* partners that rejected or let pass the present assignment
    byHand,     \* the last dispatch entered through the free /transition
    crashes, raises     \* counters of the two bounds

world == <<received, elapsed, declined, byHand>>
faults == <<crashes, raises>>
vars == <<req, attempts, outbox, tx, world, faults>>

Processes == Servers \cup Workers

ASSIGNABLE == {"CLASSIFIED", "NEEDS_REVIEW", "MATCHING", "DISPATCHED", "FAILED_DISPATCH"}

PARTNER_STATUS_TARGET ==
    [accepted |-> "ACCEPTED", rejected |-> "MATCHING",
     in_progress |-> "IN_PROGRESS", done |-> "DONE"]

ASSUME InputsAssumption ==
    Replies \subseteq DOMAIN PARTNER_STATUS_TARGET /\ OperatorTargets \subseteq RequestStatus

Message(kind) == [kind |-> kind, status |-> "PENDING", tries |-> 0, error |-> FALSE]

NewRow == [status |-> "CLASSIFIED", partner |-> NoPartner, chain |-> << >>,
           dispatched |-> 0, sla |-> [accept |-> 0, perform |-> FALSE]]

Idle == [job |-> "none", pc |-> "idle", msg |-> 0, seen |-> NewRow, work |-> NewRow,
         count |-> 0, tried |-> << >>]

Init ==
    /\ req = NewRow
    /\ attempts = << >> /\ outbox = << >>
    /\ tx = [p \in Processes |-> Idle]
    /\ received = {} /\ elapsed = 0 /\ declined = {} /\ byHand = 0
    /\ crashes = 0 /\ raises = 0

----------------------------------------------------------------------------
\* Mutant: the row is read without FOR UPDATE.
RowLocked_never == FALSE

\* Locks held by the open transactions.
RowLocked == \E p \in Processes : tx[p].pc \in {"deliver", "commit"}

MessageLocked(m) ==
    \E p \in Processes : tx[p].msg = m /\ tx[p].pc \in {"load", "deliver", "commit"}

\* Mutant: every column is written, changed or not.
Merge_whole(db, seen, work) == work

\* The columns changed in memory are written, the others are left alone.
Merge(db, seen, work) ==
    [f \in DOMAIN db |-> IF work[f] # seen[f] THEN work[f] ELSE db[f]]

\* apply_transition on a row in memory; CanTransition is the caller's guard.
Transitioned(r, target) ==
    IF target = "DISPATCHED"
    THEN [r EXCEPT !.status = target, !.dispatched = @ + 1]
    ELSE [r EXCEPT !.status = target]

\* redispatch_to_next: the head of the chain becomes the partner and the
\* request is dispatched again.
Redispatched(r) ==
    Transitioned([r EXCEPT !.partner = Head(r.chain), !.chain = Tail(r.chain)], "DISPATCHED")

\* Partners to try, then, for each of them, its channels by priority.
Candidates(r) == (IF r.partner = NoPartner THEN << >> ELSE <<r.partner>>) \o r.chain

Route(r) ==
    [k \in 1 .. Channels * Len(Candidates(r)) |-> Candidates(r)[(k - 1) \div Channels + 1]]

\* Mutants: no deadline is set; the sla column is started afresh.
Delivered_noDeadline(r, q) == [r EXCEPT !.partner = q]
Delivered_freshSla(r, q) ==
    [r EXCEPT !.partner = q, !.sla = [accept |-> r.dispatched, perform |-> FALSE]]

\* execute_dispatch has found a channel that took the request: the partner and
\* a new sla column, the accept deadline counted from dispatched_at.
Delivered(r, q) == [r EXCEPT !.partner = q, !.sla.accept = r.dispatched]

\* Entering execute_dispatch: the row lock is held, attempts are counted.
Delivering(job, m, seen, work) ==
    [job |-> job, pc |-> "deliver", msg |-> m, seen |-> seen, work |-> work,
     count |-> Len(attempts), tried |-> << >>]

\* mark_done, or mark_failed_or_retry, which notes the error in last_error.
Settled(m, claimed, status) ==
    [outbox EXCEPT ![m].status = status,
                   ![m].tries = IF claimed THEN @ + 1 ELSE @,
                   ![m].error = @ \/ status # "DONE"]

----------------------------------------------------------------------------
\* Endpoints: one transaction each, under the row lock.

\* Result of the matcher: other partners, best first; of a manual choice: none.
Chains(p) ==
    {c \in UNION {[1 .. n -> Partners \ {p}] : n \in 0 .. MaxChain} :
        \A i, j \in DOMAIN c : c[i] = c[j] => i = j}

\* AssignmentService.assign: ... -> MATCHING -> ASSIGNED.
Assign(p, chain) ==
    /\ ~RowLocked /\ req.status \in ASSIGNABLE
    /\ req' = [req EXCEPT !.status = "ASSIGNED", !.partner = p, !.chain = chain]
    /\ declined' = {}
    /\ UNCHANGED <<attempts, outbox, tx, received, elapsed, byHand, faults>>

\* DispatchService.dispatch up to commit-1: the transition and the message.
DispatchRow ==
    /\ ~RowLocked /\ req.status = "ASSIGNED" /\ req.partner # NoPartner
    /\ req.dispatched < MaxDispatches
    /\ req' = Transitioned(req, "DISPATCHED")
    /\ outbox' = Append(outbox, Message("dispatch"))
    /\ UNCHANGED <<attempts, world, faults>>

\* The endpoint goes on to drain its message, holding the row it has loaded...
DispatchCall(p) ==
    /\ tx[p] = Idle
    /\ DispatchRow
    /\ tx' = [tx EXCEPT ![p] = [Idle EXCEPT !.job = "inline", !.pc = "lock",
                                !.msg = Len(outbox'), !.seen = req', !.work = req']]

\* ... or its process dies between the two commits.
DispatchCallCut == DispatchRow /\ UNCHANGED tx

\* RequestService.transition and cancel: any arrow, no other column, and no
\* message.
OperatorTransition(t) ==
    /\ ~RowLocked /\ CanTransition(req.status, t)
    /\ t = "DISPATCHED" => req.dispatched < MaxDispatches
    /\ req' = Transitioned(req, t)
    /\ byHand' = IF t = "DISPATCHED" THEN req'.dispatched ELSE byHand
    /\ UNCHANGED <<attempts, outbox, tx, received, elapsed, declined, faults>>

\* advance_partner_status: the assigned partner answers.
PartnerResponse(reply) ==
    LET target == PARTNER_STATUS_TARGET[reply]
    IN  /\ ~RowLocked /\ req.partner # NoPartner
        /\ CanTransition(req.status, target)
        /\ req' = [Transitioned(req, target) EXCEPT
                      !.sla.perform = (@ \/ target = "ACCEPTED")]
        /\ outbox' = IF target = "MATCHING"
                     THEN Append(outbox, Message("partner_fallback")) ELSE outbox
        /\ declined' = IF target = "MATCHING" THEN declined \cup {req.partner} ELSE declined
        /\ UNCHANGED <<attempts, tx, received, elapsed, byHand, faults>>

----------------------------------------------------------------------------
\* Taking up a message.

\* Mutant: the endpoint does not look whether the message is still to be done.
LockMessage_unchecked(p) ==
    /\ tx[p].pc = "lock" /\ ~MessageLocked(tx[p].msg)
    /\ tx' = [tx EXCEPT ![p].pc = "load"]
    /\ UNCHANGED <<req, attempts, outbox, world, faults>>

\* DispatchService._drain: waits for the message, which a worker may have
\* drained by then.
LockMessage(p) ==
    /\ tx[p].pc = "lock" /\ ~MessageLocked(tx[p].msg)
    /\ tx' = [tx EXCEPT ![p] = IF outbox[tx[p].msg].status \in {"DONE", "FAILED"}
                               THEN Idle ELSE [@ EXCEPT !.pc = "load"]]
    /\ UNCHANGED <<req, attempts, outbox, world, faults>>

\* OutboxRepository.claim_batch with one message: skips what is locked.
Claim(p, m) ==
    /\ tx[p] = Idle
    /\ outbox[m].status = "PENDING" /\ ~MessageLocked(m)
    /\ tx' = [tx EXCEPT ![p] = [Idle EXCEPT !.job = outbox[m].kind, !.pc = "load", !.msg = m]]
    /\ UNCHANGED <<req, attempts, outbox, world, faults>>

\* drain_dispatch_message: waits for the row.  The endpoint works on what it
\* loaded at commit-1, the worker on the row as it is.
LoadForDispatch(p) ==
    /\ tx[p].pc = "load" /\ tx[p].job \in {"inline", "dispatch"} /\ ~RowLocked
    /\ LET seen == IF tx[p].job = "inline" THEN tx[p].seen ELSE req
       IN  tx' = [tx EXCEPT ![p] = Delivering(tx[p].job, tx[p].msg, seen, seen)]
    /\ UNCHANGED <<req, attempts, outbox, world, faults>>

\* _process_partner_fallback: nothing to do unless the request still waits in
\* MATCHING with somebody to turn to (if nobody, an operator is told).
LoadForFallback(p) ==
    /\ tx[p].pc = "load" /\ tx[p].job = "partner_fallback" /\ ~RowLocked
    /\ IF req.status = "MATCHING" /\ req.chain # << >>
       THEN /\ tx' = [tx EXCEPT ![p] =
                        Delivering("partner_fallback", tx[p].msg, req, Redispatched(req))]
            /\ UNCHANGED outbox
       ELSE /\ outbox' = Settled(tx[p].msg, TRUE, "DONE")
            /\ tx' = [tx EXCEPT ![p] = Idle]
    /\ UNCHANGED <<req, attempts, world, faults>>

\* Mutant: only deadlines before the last one are found.
Overdue_strict == req.status = "DISPATCHED" /\ req.sla.accept \in 1 .. elapsed - 1

\* scan_accept_timeouts and run_accept_timeout_fallback with one request.
Overdue == req.status = "DISPATCHED" /\ req.sla.accept \in 1 .. elapsed

ScanAcceptTimeouts(p) ==
    /\ tx[p] = Idle /\ ~RowLocked /\ Overdue
    /\ IF req.chain = << >>
       THEN /\ req' = Transitioned(req, "FAILED_DISPATCH")
            /\ declined' = declined \cup {req.partner}
            /\ UNCHANGED tx
       ELSE /\ tx' = [tx EXCEPT ![p] = Delivering("scan", 0, req, Redispatched(req))]
            /\ UNCHANGED <<req, declined>>
    /\ UNCHANGED <<attempts, outbox, received, elapsed, byHand, faults>>

----------------------------------------------------------------------------
\* execute_dispatch, channel by channel.

\* One _attempt_delivery.  The partner may have got the request even when the
\* answer is lost and the channel reports a failure.
Attempt(p, ok) ==
    /\ tx[p].pc = "deliver" /\ Len(tx[p].tried) < Len(Route(tx[p].work))
    /\ LET to == Route(tx[p].work)[Len(tx[p].tried) + 1]
           no == tx[p].count + Len(tx[p].tried) + 1
           tried == Append(tx[p].tried, [no |-> no, msg |-> tx[p].msg, ok |-> ok])
           order == [partner |-> to, key |-> no, dispatch |-> tx[p].work.dispatched]
       IN  /\ tx' = [tx EXCEPT ![p] =
                        IF ok THEN [tx[p] EXCEPT !.tried = tried, !.pc = "commit",
                                                 !.work = Delivered(tx[p].work, to)]
                        ELSE [tx[p] EXCEPT !.tried = tried]]
           /\ received' \in {received \cup {order}} \cup (IF ok THEN {} ELSE {received})
    /\ UNCHANGED <<req, attempts, outbox, elapsed, declined, byHand, faults>>

\* The end of a drain or a scan: rows, attempts and message in one commit.
Finish(p, work, status) ==
    /\ req' = Merge(req, tx[p].seen, work)
    /\ attempts' = attempts \o tx[p].tried
    /\ outbox' = IF tx[p].job = "scan" THEN outbox
                 ELSE Settled(tx[p].msg, tx[p].job # "inline", status)
    /\ declined' = IF tx[p].job = "scan" THEN declined \cup {tx[p].seen.partner} ELSE declined
    /\ tx' = [tx EXCEPT ![p] = Idle]
    /\ UNCHANGED <<received, elapsed, byHand>>

Commit(p) ==
    /\ tx[p].pc = "commit"
    /\ Finish(p, tx[p].work, "DONE")
    /\ UNCHANGED faults

\* No rollback in the batch drains: the error marks the message for a retry (or
\* as FAILED) and the commit writes whatever was changed before it.
RetryOrFail(p) ==
    LET m == tx[p].msg
    IN  Finish(p, tx[p].work, IF outbox[m].tries + 1 >= MaxTries THEN "FAILED" ELSE "PENDING")

\* The exception leaves the endpoint or the scan: everything is rolled back.
Rollback(p) ==
    /\ tx' = [tx EXCEPT ![p] = Idle]
    /\ UNCHANGED <<req, attempts, outbox, world>>

Abort(p) == IF tx[p].job \in {"dispatch", "partner_fallback"} THEN RetryOrFail(p) ELSE Rollback(p)

\* Mutant: FAILED_DISPATCH is written whatever the status of the request.
Exhausted_unchecked(p) ==
    /\ tx[p].pc = "deliver" /\ Len(tx[p].tried) = Len(Route(tx[p].work))
    /\ Finish(p, Transitioned(tx[p].work, "FAILED_DISPATCH"), "DONE")
    /\ UNCHANGED faults

\* Every channel of every partner has failed: DISPATCHED -> FAILED_DISPATCH, or
\* a conflict when the loaded request is no longer dispatched.
Exhausted(p) ==
    /\ tx[p].pc = "deliver" /\ Len(tx[p].tried) = Len(Route(tx[p].work))
    /\ IF CanTransition(tx[p].work.status, "FAILED_DISPATCH")
       THEN Finish(p, Transitioned(tx[p].work, "FAILED_DISPATCH"), "DONE")
       ELSE Abort(p)
    /\ UNCHANGED faults

\* An exception that is not a failed delivery (a channel that cannot be built).
Raise(p) ==
    /\ tx[p].pc = "deliver" /\ Len(tx[p].tried) < Len(Route(tx[p].work))
    /\ raises < MaxRaises
    /\ Abort(p)
    /\ raises' = raises + 1 /\ UNCHANGED crashes

\* The process dies, or its database connection does.
Crash(p) ==
    /\ tx[p] # Idle
    /\ crashes < MaxCrashes
    /\ Rollback(p)
    /\ crashes' = crashes + 1 /\ UNCHANGED raises

\* The accept window of the next dispatch runs out.
Tick ==
    /\ elapsed < req.dispatched
    /\ elapsed' = elapsed + 1
    /\ UNCHANGED <<req, attempts, outbox, tx, received, declined, byHand, faults>>

----------------------------------------------------------------------------
Endpoint ==
    \/ \E p \in Partners : \E chain \in Chains(p) : Assign(p, chain)
    \/ \E s \in Servers : DispatchCall(s)
    \/ DispatchCallCut
    \/ \E t \in OperatorTargets : OperatorTransition(t)
    \/ \E reply \in Replies : PartnerResponse(reply)

Start(w) ==
    \/ \E m \in DOMAIN outbox : Claim(w, m)
    \/ ScanAcceptTimeouts(w)

Continue(p) ==
    \/ LockMessage(p)
    \/ LoadForDispatch(p)
    \/ LoadForFallback(p)
    \/ \E ok \in BOOLEAN : Attempt(p, ok)
    \/ Commit(p)
    \/ Exhausted(p)

Next ==
    \/ Endpoint
    \/ \E w \in Workers : Start(w)
    \/ \E p \in Processes : Continue(p) \/ Raise(p) \/ Crash(p)
    \/ Tick

Spec == Init /\ [][Next]_vars

\* The periodic actors run again and again and serve every message in turn,
\* a transaction once begun goes on, and time passes.
Fairness ==
    /\ \A w \in Workers : WF_vars(ScanAcceptTimeouts(w)) /\ WF_vars(Start(w))
    /\ \A p \in Processes : WF_vars(Continue(p))
    /\ WF_vars(Tick)

FairSpec == Spec /\ Fairness

----------------------------------------------------------------------------
Sla == [accept : Nat, perform : BOOLEAN]
RequestRow ==
    [status : RequestStatus, partner : Partners \cup {NoPartner}, chain : Seq(Partners),
     dispatched : Nat, sla : Sla]

TypeOK ==
    /\ req \in RequestRow
    /\ attempts \in Seq([no : Nat, msg : Nat, ok : BOOLEAN])
    /\ outbox \in Seq([kind : {"dispatch", "partner_fallback"},
                      status : {"PENDING", "DONE", "FAILED"}, tries : 0 .. MaxTries,
                      error : BOOLEAN])
    /\ \A p \in Processes :
         /\ tx[p].pc \in {"idle", "lock", "load", "deliver", "commit"}
         /\ tx[p].job \in {"none", "inline", "dispatch", "partner_fallback", "scan"}
         /\ tx[p].msg \in 0 .. Len(outbox)
         /\ tx[p].seen \in RequestRow /\ tx[p].work \in RequestRow
    /\ received \subseteq [partner : Partners, key : Nat, dispatch : Nat]
    /\ elapsed \in 0 .. req.dispatched
    /\ declined \subseteq Partners /\ byHand \in 0 .. req.dispatched

\* Attempt numbers, of which the idempotency keys are made, are 1, 2, 3, ...
\* whichever processes delivered, died or retried in between: two transactions
\* never count the same attempts.
AttemptNumbersGapless == \A i \in DOMAIN attempts : attempts[i].no = i

\* The endpoint's drain and the worker's, both after the same message, never
\* both record a delivery for it.
MessageDeliveredOnce ==
    \A i, j \in DOMAIN attempts :
        /\ attempts[i].msg # 0 /\ attempts[i].msg = attempts[j].msg
        /\ attempts[i].ok /\ attempts[j].ok
        => i = j

\* What an exception can leave behind for good: a message given up, or a fallback
\* whose first half has been committed with the error (no rollback in the batch).
Abandoned(m) ==
    /\ outbox[m].error
    /\ outbox[m].status = "FAILED" \/ outbox[m].kind = "partner_fallback"

\* No dispatched request is forgotten without a trace.  Either a pending dispatch
\* message will deliver it, or it has an accept deadline for the scan; and if it
\* has neither, then last_error of a message says why, or an operator took it to
\* DISPATCHED by hand, which queues no delivery.
DispatchIsWatched ==
    req.status = "DISPATCHED" =>
        \/ req.sla.accept # 0
        \/ \E m \in DOMAIN outbox : outbox[m].kind = "dispatch" /\ outbox[m].status = "PENDING"
        \/ \E m \in DOMAIN outbox : Abandoned(m)
        \/ byHand = req.dispatched

\* The commits of the long transactions and of the endpoints between them move
\* the status only along the arrows (the refinement of RequestLifecycle, from
\* the classified request on).
Lifecycle == INSTANCE RequestLifecycle
                 WITH status <- req.status, dispatched <- req.dispatched # 0
FollowsLifecycle == [][Lifecycle!Move]_(req.status)

\* With the endpoint's drain at work, the single way off the arrows is the
\* FAILED_DISPATCH it writes over whatever has been committed meanwhile.
OnlyStaleFailure == [][Lifecycle!Move \/ req.status' = "FAILED_DISPATCH"]_(req.status)

\* "On ACCEPTED the execution SLA starts" (advance_partner_status), and once
\* started it is not lost, but in one way: the endpoint's drain writes the sla
\* column it made of a row loaded before the acceptance (dispatch.py:132).
PerformLostOnlyByDrain ==
    [][ req.sla.perform /\ ~req'.sla.perform =>
            \E s \in Servers :
                /\ tx[s].job = "inline" /\ tx[s].pc = "commit" /\ tx'[s] = Idle
                /\ ~tx[s].seen.sla.perform ]_vars

\* A silent partner does not keep a request: once the accept deadline is set,
\* the request leaves DISPATCHED in the end.
DispatchEnds ==
    (req.status = "DISPATCHED" /\ req.sla.accept # 0) ~> (req.status # "DISPATCHED")

----------------------------------------------------------------------------
\* Claims of the documents that the code does not keep; runs show it for the
\* first two, the README for the third.

\* "Return to MATCHING and go on to the NEXT partner" (timers.py, FR-5.3): who
\* has rejected the request or let it pass is not given it again.
DeclinedNotAskedAgain == req.status = "DISPATCHED" => req.partner \notin declined

\* "Terminal - no outgoing transitions" (fsm.py).
TerminalStays == [][(req.status \in TERMINAL_STATUSES) => (req'.status = req.status)]_vars

\* "Repeated delivery does not duplicate the order at the partner" (terms of
\* reference, the section on reliability; dispatch.py: dedup by the key).
NoDuplicateOrder ==
    \A a, b \in received :
        a.partner = b.partner /\ a.dispatch = b.dispatch => a.key = b.key
=============================================================================
