--------------------------- MODULE RequestService ---------------------------
(***************************************************************************)
(* One service request and the handlers that change its row: classify,     *)
(* assign, dispatch, the partner's replies, accept, dispute, settlement,   *)
(* cancel, reschedule and the free /transition of operators and agents     *)
(* (requests/service.py, acceptance.py, partner.py, channels/dispatch.py). *)
(*                                                                         *)
(* Every handler selects the row FOR UPDATE and commits once, so each one  *)
(* is one action; a handler that raises (404, 409, 422, 502) commits       *)
(* nothing and is no step.  Two things are less simple:                    *)
(*   - two handlers call another service before their commit: the process  *)
(*     may die between the call and the commit, and the call is not undone *)
(*     (CallLost);                                                         *)
(*   - dispatch commits twice.  Between its commits it delivers, the row   *)
(*     unlocked for a while and the object it holds never refreshed, so    *)
(*     that its second commit may write over what others have committed    *)
(*     (drains, DrainFails).                                               *)
(* Channels and attempts, the worker's drain, the fallback chain and the   *)
(* timers are the module Dispatch.                                         *)
(***************************************************************************)
EXTENDS RequestFsm, Sequences

CONSTANTS
    Partners,     \* collaborators that can be assigned
    Dates,        \* visit dates a request can be moved to
    Reasons,      \* texts given with a cancellation or a dispute
    Servers,      \* API processes that run the dispatch handler
    NoPartner, NoDate, NoReason,    \* NULL columns
    MaxHistory    \* bound: STATUS_CHANGED rows of the request

ASSUME NullsAssumption ==
    NoPartner \notin Partners /\ NoDate \notin Dates /\ NoReason \notin Reasons

ASSUME BoundAssumption == MaxHistory \in Nat

VARIABLES
    row,            \* the columns apply_transition writes, with the audit rows:
                    \*   status   the status column,
                    \*   history  the STATUS_CHANGED rows, oldest first,
                    \*   stamp    dispatched_at, accepted_at, ...: 0 when NULL,
                    \*            else the number of the audit row of that change
    categorised,    \* request.category is not NULL
    partner,        \* request.partner_id
    visit,          \* request.scheduled_at
    cancelReason,   \* custom_fields["cancellation"]["reason"]
    disputeReason,  \* custom_fields["dispute"]["reason"]
    settled,        \* rehome.one has been asked to settle (key settle:<id>)
    claimed,        \* kb-support has a compensation claim (key dispute:<id>)
    drains          \* the dispatch handlers between their two commits: the
                    \* partner in the row each of them holds, NoPartner if none

details == <<categorised, partner, visit>>
reasons == <<cancelReason, disputeReason>>
outside == <<settled, claimed>>
vars    == <<row, details, reasons, outside, drains>>

CLASSIFIABLE  == {"NEW", "CLASSIFIED", "NEEDS_REVIEW"}
ASSIGNABLE    == {"CLASSIFIED", "NEEDS_REVIEW", "MATCHING", "DISPATCHED",
                  "FAILED_DISPATCH"}
RESCHEDULABLE == {"ASSIGNED", "DISPATCHED", "ACCEPTED", "IN_PROGRESS"}

\* Reply of a partner -> status it asks for.
PartnerReplies == {"ACCEPTED", "MATCHING", "IN_PROGRESS", "DONE"}

Audit == [from : RequestStatus, to : RequestStatus]
Row   == [status : RequestStatus, history : Seq(Audit),
          stamp : [StampedStatuses -> Nat]]

----------------------------------------------------------------------------
\* Mutant: only the terminal statuses are guarded.
Legal_anyLive(r, target) ==
    r.status \notin TERMINAL_STATUSES /\ Len(r.history) < MaxHistory

\* ensure_transition; the bound on the audit trail is the model's.
Legal(r, target) ==
    CanTransition(r.status, target) /\ Len(r.history) < MaxHistory

\* apply_transition: status, timestamp column and audit row in one go.
Transitioned(r, target) ==
    [status  |-> target,
     history |-> Append(r.history, [from |-> r.status, to |-> target]),
     stamp   |-> IF target \in StampedStatuses
                 THEN [r.stamp EXCEPT ![target] = Len(r.history) + 1]
                 ELSE r.stamp]

\* Mutant: the status is set without its audit row.
Enter_silent(target) == Legal(row, target) /\ row' = [row EXCEPT !.status = target]

Enter(target) == Legal(row, target) /\ row' = Transitioned(row, target)

\* apply_transition of the drain, on the DISPATCHED row it holds: the status
\* column and the audit row are written whatever the table says by now.
Overwritten(r) ==
    [status  |-> "FAILED_DISPATCH",
     history |-> Append(r.history, [from |-> "DISPATCHED", to |-> "FAILED_DISPATCH"]),
     stamp   |-> r.stamp]

Init ==
    /\ row = [status |-> "NEW", history |-> << >>,
              stamp |-> [s \in StampedStatuses |-> 0]]
    /\ categorised = FALSE /\ partner = NoPartner
    /\ visit = NoDate
    /\ cancelReason = NoReason /\ disputeReason = NoReason
    /\ settled = FALSE /\ claimed = FALSE
    /\ drains = [s \in Servers |-> NoPartner]

----------------------------------------------------------------------------
\* ClassificationService.classify: the category is always written; _route_status
\* takes a NEW request to CLASSIFIED and an unsure one on to NEEDS_REVIEW.
Classify(confident) ==
    /\ row.status \in CLASSIFIABLE
    /\ LET classifying == Transitioned(row, "CLASSIFYING")
           first       == row.status = "NEW"
           classified  == IF first THEN Transitioned(classifying, "CLASSIFIED") ELSE row
       IN  /\ first => Legal(row, "CLASSIFYING") /\ Legal(classifying, "CLASSIFIED")
           /\ IF confident \/ classified.status = "NEEDS_REVIEW"
              THEN row' = classified
              ELSE /\ Legal(classified, "NEEDS_REVIEW")
                   /\ row' = Transitioned(classified, "NEEDS_REVIEW")
    /\ categorised' = TRUE
    /\ UNCHANGED <<partner, visit, reasons, outside, drains>>

\* AssignmentService.assign, manual or by the matcher, with _route_to_assigned.
Assign(p) ==
    /\ row.status \in ASSIGNABLE /\ categorised
    /\ LET again    == row.status # "MATCHING"
           matching == IF again THEN Transitioned(row, "MATCHING") ELSE row
       IN  /\ again => Legal(row, "MATCHING")
           /\ Legal(matching, "ASSIGNED")
           /\ row' = Transitioned(matching, "ASSIGNED")
    /\ partner' = p
    /\ UNCHANGED <<categorised, visit, reasons, outside, drains>>

\* DispatchService.dispatch up to commit-1.
DispatchCall(s) ==
    /\ drains[s] = NoPartner
    /\ row.status = "ASSIGNED" /\ partner # NoPartner /\ categorised
    /\ Enter("DISPATCHED")
    /\ drains' = [drains EXCEPT ![s] = partner]
    /\ UNCHANGED <<details, reasons, outside>>

\* Commit-2 when every channel of every partner has failed.
DrainFails(s) ==
    /\ drains[s] # NoPartner /\ Len(row.history) < MaxHistory
    /\ row' = Overwritten(row)
    /\ drains' = [drains EXCEPT ![s] = NoPartner]
    /\ UNCHANGED <<details, reasons, outside>>

\* Mutant: the status column is written too, as the handler has it.
DrainDelivers_status(s, p) ==
    /\ drains[s] # NoPartner
    /\ row' = [row EXCEPT !.status = "DISPATCHED"]
    /\ partner' = IF p = drains[s] THEN partner ELSE p
    /\ drains' = [drains EXCEPT ![s] = NoPartner]
    /\ UNCHANGED <<categorised, visit, reasons, outside>>

\* Commit-2 when a channel of p has taken the request: the partner column is
\* written if p is not the partner the handler knows.
DrainDelivers(s, p) ==
    /\ drains[s] # NoPartner
    /\ partner' = IF p = drains[s] THEN partner ELSE p
    /\ drains' = [drains EXCEPT ![s] = NoPartner]
    /\ UNCHANGED <<row, categorised, visit, reasons, outside>>

\* No commit-2: a worker has drained the message, or the handler has died or
\* raised an exception.
DrainGone(s) ==
    /\ drains[s] # NoPartner
    /\ drains' = [drains EXCEPT ![s] = NoPartner]
    /\ UNCHANGED <<row, details, reasons, outside>>

\* advance_partner_status: portal, inbound webhook or e-mail, always the
\* partner the request is assigned to.  The current status again is a no-op.
PartnerResponse(target) ==
    /\ partner # NoPartner /\ target # row.status
    /\ Enter(target)
    /\ UNCHANGED <<details, reasons, outside, drains>>

\* AcceptanceService.accept: the settlement call may be off or answer None.
Accept ==
    /\ Enter("ACCEPTED_BY_USER")
    /\ settled' \in {settled, TRUE}
    /\ UNCHANGED <<details, reasons, claimed, drains>>

\* AcceptanceService.dispute: the claim call may be off or answer None.
Dispute(why) ==
    /\ Enter("DISPUTE")
    /\ disputeReason' = why
    /\ claimed' \in {claimed, TRUE}
    /\ UNCHANGED <<details, cancelReason, settled, drains>>

\* The call to rehome.one or kb-support went out; the commit never came.
CallLost ==
    \/ /\ CanTransition(row.status, "ACCEPTED_BY_USER")
       /\ settled' = TRUE
       /\ UNCHANGED <<row, details, reasons, claimed, drains>>
    \/ /\ CanTransition(row.status, "DISPUTE")
       /\ claimed' = TRUE
       /\ UNCHANGED <<row, details, reasons, settled, drains>>

\* AcceptanceService.confirm_settlement, called by the payment service.
ConfirmSettlement ==
    /\ Enter("PAID")
    /\ UNCHANGED <<details, reasons, outside, drains>>

\* RequestService.cancel: a second cancellation is answered without a change.
Cancel(why) ==
    /\ row.status # "CANCELLED"
    /\ Enter("CANCELLED")
    /\ cancelReason' = why
    /\ UNCHANGED <<details, disputeReason, outside, drains>>

\* RequestService.reschedule: the same date again changes nothing.
Reschedule(date) ==
    /\ row.status \in RESCHEDULABLE /\ visit # date
    /\ visit' = date
    /\ UNCHANGED <<row, categorised, partner, reasons, outside, drains>>

\* RequestService.transition: any arrow of the table, nothing else changes.
Transition(target) ==
    /\ Enter(target)
    /\ UNCHANGED <<details, reasons, outside, drains>>

Next ==
    \/ \E c \in BOOLEAN : Classify(c)
    \/ \E p \in Partners : Assign(p)
    \/ \E s \in Servers :
         \/ DispatchCall(s)
         \/ DrainFails(s)
         \/ \E p \in Partners : DrainDelivers(s, p)
         \/ DrainGone(s)
    \/ \E t \in PartnerReplies : PartnerResponse(t)
    \/ Accept
    \/ \E why \in Reasons : Dispute(why) \/ Cancel(why)
    \/ CallLost
    \/ ConfirmSettlement
    \/ \E d \in Dates : Reschedule(d)
    \/ \E t \in RequestStatus : Transition(t)

Spec == Init /\ [][Next]_vars

----------------------------------------------------------------------------
TypeOK ==
    /\ row \in Row
    /\ categorised \in BOOLEAN
    /\ partner \in Partners \cup {NoPartner}
    /\ visit \in Dates \cup {NoDate}
    /\ cancelReason \in Reasons \cup {NoReason}
    /\ disputeReason \in Reasons \cup {NoReason}
    /\ settled \in BOOLEAN /\ claimed \in BOOLEAN
    /\ drains \in [Servers -> Partners \cup {NoPartner}]

\* The i-th audit row starts where the one before it ended.
Joined(r, i) == r.history[i].from = IF i = 1 THEN "NEW" ELSE r.history[i - 1].to

\* The i-th audit row was written by a drain after its dispatch.
Stale(r, i) ==
    /\ r.history[i] = [from |-> "DISPATCHED", to |-> "FAILED_DISPATCH"]
    /\ \E j \in 1 .. i - 1 : r.history[j].to = "DISPATCHED"

\* No drain has written over a later status.
Unbroken(r) == \A i \in 1 .. Len(r.history) : Joined(r, i)

Chained(r) ==
    /\ r.status = IF r.history = << >> THEN "NEW" ELSE r.history[Len(r.history)].to
    /\ \A i \in 1 .. Len(r.history) :
         /\ CanTransition(r.history[i].from, r.history[i].to)
         /\ Joined(r, i) \/ Stale(r, i)

Stamped(r) ==
    \A s \in StampedStatuses :
        /\ r.stamp[s] \in 0 .. Len(r.history)
        /\ r.stamp[s] > 0 => r.history[r.stamp[s]].to = s
        /\ \A i \in 1 .. Len(r.history) : r.history[i].to = s => i <= r.stamp[s]

StagesForward(r) ==
    \A i, j \in 1 .. Len(r.history) :
        i < j /\ Stage(r.history[i].to) > 0
            => Stage(r.history[i].to) < Stage(r.history[j].to)

Entered(r) == {r.history[i].to : i \in 1 .. Len(r.history)}

\* The audit rows form a chain of allowed arrows from NEW to the status of the
\* row ("every transition is a RequestHistory row", fsm.py), whichever handlers
\* ran and however many arrows each of them followed.  Where a row does not
\* start at the end of the one before, it is the FAILED_DISPATCH of a drain.
AuditTrail == Chained(row)

\* A timestamp column (TTFD/TTA/TTR and the SLA are computed from them) is
\* that of the last audit row entering its status, and NULL only if there is
\* none: a re-dispatch moves dispatched_at and no other handler touches it.
StampsAudited == Stamped(row)

\* Matching and dispatch may be gone through again and again, but from the
\* partner's acceptance on no status is ever entered twice, unless a drain has
\* thrown the request back: accepted_at, done_at, accepted_by_user_at and
\* paid_at are written once.
EnteredOnce == Unbroken(row) => StagesForward(row)

\* The way from the last dispatch to the payment.
Work == <<"ACCEPTED", "IN_PROGRESS", "DONE", "ACCEPTED_BY_USER", "PAID">>

\* A request is paid only if, since it was last dispatched, the partner
\* accepted, worked and reported it done and the user accepted the work, each
\* of it once and nothing else: no dispute, and no failed dispatch of a drain
\* that came too late.  Whatever mixture of handlers and free transitions led
\* there.
PaidProvenance ==
    row.status = "PAID" =>
        LET last == row.stamp["DISPATCHED"]
        IN  /\ last > 0 /\ row.history[last].from = "ASSIGNED"
            /\ Len(row.history) = last + Len(Work)
            /\ \A k \in DOMAIN Work : row.history[last + k].to = Work[k]

\* Neither the escrow settlement nor a compensation claim is ever started for
\* work never reported done, lost commits and late drains included.
OutsideCallsAfterWork == settled \/ claimed => "DONE" \in Entered(row)

\* The reason of the first cancellation and of the first dispute survive every
\* later call ("the reason of the first cancellation is not overwritten",
\* RequestService.cancel), unless a drain has thrown the request back.
FirstReasonKept ==
    [][ Unbroken(row) =>
            /\ cancelReason # NoReason => cancelReason' = cancelReason
            /\ disputeReason # NoReason => disputeReason' = disputeReason ]_vars

\* A dispatch handler comes to its second commit.
DrainEnds == \E s \in Servers : drains[s] # NoPartner /\ drains'[s] = NoPartner

\* A request leaves a terminal status, or goes back from a stage after the
\* partner's acceptance, in one way only: a dispatch handler that is still
\* delivering commits FAILED_DISPATCH.  With no handler between its commits
\* "terminal - no outgoing transitions" (fsm.py) is true.
BackOnlyByDrain ==
    [][ \/ row.status \in TERMINAL_STATUSES /\ row'.status # row.status
        \/ Stage(row'.status) < Stage(row.status)
        => DrainEnds /\ row' = Overwritten(row) ]_vars

Lifecycle == INSTANCE RequestLifecycle
                 WITH status <- row.status, dispatched <- row.stamp["DISPATCHED"] > 0

\* The handlers implement the lifecycle promised to observers, the exception
\* of a drain that comes too late included.
ImplementsLifecycle == Lifecycle!Spec
============================================================================
