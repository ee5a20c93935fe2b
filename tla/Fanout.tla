------------------------------- MODULE Fanout -------------------------------
(***************************************************************************)
(* Who is told of a change of a request, and how the news get there:       *)
(* webhooks/, notifications/, agent/ (callbacks to the concierge) and      *)
(* push/ (devices subscribed to web push).                                 *)
(*                                                                         *)
(* The messages are written in the transaction of the change.  Workers     *)
(* take the notices in batches; a notice goes out by SMS, e-mail and to    *)
(* every device of its addressee, a device that has gone is deleted, and   *)
(* the batch commits once.  Webhooks and callbacks are one call per        *)
(* message.  Claims, locks and back-off of the table of messages are the   *)
(* module Outbox; here a pending message that nobody holds may be due.     *)
(***************************************************************************)
EXTENDS RequestFsm, Sequences, FiniteSets

CONSTANTS
    Requester, Partners, NoPartner,
    Devices,       \* the pairs <<owner, endpoint>> browsers may register
    Deployments,   \* the sets of kinds of messages that settings switch on
    Beginnings,    \* the statuses in which a behaviour may find the request
    Known,         \* "user", "partner": whose contact the neighbours know
    Workers,
    BatchSize,     \* outbox_batch_size
    MaxAttempts,   \* outbox_max_attempts
    MaxEvents,     \* bound: changes of the request
    MaxMessages,   \* bound: messages they cause
    MaxAborts      \* bound: batches ended by a crash or an unexpected exception

Kinds == {"webhook", "notification", "concierge_status"}

ASSUME FanoutAssumption ==
    /\ NoPartner \notin Partners /\ Requester \notin Partners \cup {NoPartner}
    /\ Deployments \subseteq SUBSET Kinds
    /\ Beginnings \subseteq RequestStatus \cup {"ABSENT"}
    /\ BatchSize \in Nat \ {0} /\ MaxAttempts \in Nat \ {0}
    /\ MaxEvents \in Nat /\ MaxMessages \in Nat /\ MaxAborts \in Nat

VARIABLES
    on,        \* the kinds switched on
    request,   \* the committed row: status and partner
    log,       \* its committed changes, in order
    tx,        \* the handler at work on the row: its row, changes and messages
    outbox,    \* the committed messages
    subs,      \* push_subscriptions, committed
    dead,      \* endpoints the push service answers 404 or 410 for
    drain,     \* each worker's batch of notices
    mails,     \* how often each notice has gone out by e-mail
    aborts,    \* how many batches with this notice were rolled back
    crashes

changes == <<request, log, tx>>
vars    == <<on, changes, outbox, subs, dead, drain, mails, aborts, crashes>>

----------------------------------------------------------------------------
\* notifications/events.py: the tables of the addressees.
UserTold     == {"NEW", "ASSIGNED", "ACCEPTED", "IN_PROGRESS", "DONE", "CANCELLED"}
PartnerTold  == {"DISPATCHED", "CANCELLED"}
OperatorTold == {"NEEDS_REVIEW", "FAILED_DISPATCH"}

\* agent/callback.py: the statuses a chat is told of.
ChatTold == {"ASSIGNED", "DISPATCHED", "FAILED_DISPATCH", "ACCEPTED", "IN_PROGRESS",
             "DONE", "ACCEPTED_BY_USER", "DISPUTE", "PAID", "CANCELLED", "REJECTED"}

\* _RESCHEDULE_NOTIFY_STATUSES.
RescheduleTold == {"DISPATCHED", "ACCEPTED", "IN_PROGRESS"}

\* A change as the emitters see it: an entered status, a moved date, a chain of
\* partners that has run out.
Change(what, row) == [what |-> what, status |-> row.status, partner |-> row.partner]

\* emit_event: every entered status has an event, and so has a moved date.
Webhooks(c) == IF c.what = "ESCALATED" THEN {} ELSE {"subscriber"}

\* notifications_for, emit_notifications and emit_operator_escalation.
Notices(c) ==
    {a \in {"user", "partner", "operator"} :
        \/ c.what = "ENTERED" /\ a = "user" /\ c.status \in UserTold
        \/ c.what = "ENTERED" /\ a = "partner" /\ c.status \in PartnerTold /\ c.partner # NoPartner
        \/ c.what = "ENTERED" /\ a = "operator" /\ c.status \in OperatorTold
        \/ c.what = "ESCALATED" /\ a = "operator"}

\* emit_concierge_status_update, for a request that came from a chat.
Callbacks(c) == IF c.what = "ENTERED" /\ c.status \in ChatTold THEN {"chat"} ELSE {}

\* The messages that change number n puts into the outbox, of the kinds that are
\* switched on.
Emitted(n, c) ==
    LET told == ({"webhook"} \X Webhooks(c)) \cup ({"notification"} \X Notices(c))
                  \cup ({"concierge_status"} \X Callbacks(c))
    IN  {[n |-> n, kind |-> t[1], to |-> t[2], partner |-> c.partner] :
           t \in {x \in told : x[1] \in on}}

\* No handler gives a request a partner before MATCHING.
Unmatched == {"ABSENT", "NEW", "CLASSIFYING", "CLASSIFIED", "NEEDS_REVIEW"}

NoTx   == [open |-> FALSE, row |-> [status |-> "ABSENT", partner |-> NoPartner],
           changes |-> << >>, emitted |-> {}]
Batch0 == [todo |-> {}, mem |-> << >>, cur |-> {}, left |-> {}, gone |-> {}]
Fresh  == [state |-> "PENDING", attempts |-> 0]

Init ==
    /\ on \in Deployments
    /\ \E s \in Beginnings, p \in Partners \cup {NoPartner} :
         /\ s \in Unmatched => p = NoPartner
         /\ request = [status |-> s, partner |-> p]
    /\ log = << >> /\ tx = NoTx /\ outbox = << >>
    /\ subs = {} /\ dead = {}
    /\ drain = [w \in Workers |-> Batch0]
    /\ mails = << >> /\ aborts = << >> /\ crashes = 0

----------------------------------------------------------------------------
\* The row as the handler at work has it (its lock keeps every other out).
Row == IF tx.open THEN tx.row ELSE request

\* The row becomes r by the changes c (one or none) in the transaction at work.
Changed(r, c) ==
    LET n       == Len(log) + Len(tx.changes)
        emitted == tx.emitted \cup UNION {Emitted(n + i, c[i]) : i \in DOMAIN c}
    IN  /\ n + Len(c) <= MaxEvents
        /\ Cardinality(DOMAIN outbox \cup emitted) <= MaxMessages
        /\ tx' = [open |-> TRUE, row |-> r, changes |-> tx.changes \o c, emitted |-> emitted]
        /\ UNCHANGED <<on, request, log, outbox, subs, dead, drain, mails, aborts, crashes>>

\* IntakeService._intake.
Create ==
    /\ Row.status = "ABSENT"
    /\ LET r == [status |-> "NEW", partner |-> NoPartner]
       IN  Changed(r, <<Change("ENTERED", r)>>)

\* apply_transition.
Enter(s) ==
    /\ CanTransition(Row.status, s)
    /\ LET r == [Row EXCEPT !.status = s] IN Changed(r, <<Change("ENTERED", r)>>)

\* assign, _next_partner and execute_dispatch, which goes down the chain in
\* DISPATCHED: another partner, and no news of it.
Choose(p) ==
    /\ Row.status \in {"MATCHING", "DISPATCHED"} /\ p # Row.partner
    /\ Changed([Row EXCEPT !.partner = p], << >>)

\* RequestService.reschedule.
Reschedule ==
    /\ Row.status \in RescheduleTold
    /\ Changed(Row, <<Change("RESCHEDULED", Row)>>)

\* redispatch_to_next with an empty chain.
Escalate ==
    /\ Row.status = "MATCHING"
    /\ Changed(Row, <<Change("ESCALATED", Row)>>)

\* Mutant: the messages go out of a transaction of their own.
Rollback_announced ==
    /\ tx.open
    /\ tx' = NoTx
    /\ outbox' = [m \in DOMAIN outbox \cup tx.emitted |->
                    IF m \in DOMAIN outbox THEN outbox[m] ELSE Fresh]
    /\ mails' = [m \in DOMAIN outbox' |-> IF m \in DOMAIN mails THEN mails[m] ELSE 0]
    /\ aborts' = [m \in DOMAIN outbox' |-> IF m \in DOMAIN aborts THEN aborts[m] ELSE 0]
    /\ UNCHANGED <<on, request, log, subs, dead, drain, crashes>>

\* The handler fails or dies: 409, 502, a lost connection.
Rollback ==
    /\ tx.open
    /\ tx' = NoTx
    /\ UNCHANGED <<on, request, log, outbox, subs, dead, drain, mails, aborts, crashes>>

Commit ==
    /\ tx.open
    /\ request' = tx.row /\ log' = log \o tx.changes /\ tx' = NoTx
    /\ outbox' = [m \in DOMAIN outbox \cup tx.emitted |->
                    IF m \in tx.emitted THEN Fresh ELSE outbox[m]]
    /\ mails' = [m \in DOMAIN outbox' |-> IF m \in tx.emitted THEN 0 ELSE mails[m]]
    /\ aborts' = [m \in DOMAIN outbox' |-> IF m \in tx.emitted THEN 0 ELSE aborts[m]]
    /\ UNCHANGED <<on, subs, dead, drain, crashes>>

----------------------------------------------------------------------------
\* mark_done and mark_failed_or_retry.
Done(r)  == [r EXCEPT !.state = "DONE"]
Again(r) == [r EXCEPT !.state = IF r.attempts >= MaxAttempts THEN "FAILED" ELSE "PENDING"]

Tried(r) == [r EXCEPT !.attempts = @ + 1]

\* One call per message: a 2xx or not (another answer, or nobody there).  The
\* locks of the batch make it one step; a drain that dies leaves the message
\* as it was.
Post(m, ok) ==
    /\ outbox[m].state = "PENDING"
    /\ outbox' = [outbox EXCEPT ![m] = IF ok THEN Done(Tried(@)) ELSE Again(Tried(@))]
    /\ UNCHANGED <<on, changes, subs, dead, drain, mails, aborts, crashes>>

\* WebhookClient.deliver and HttpConciergeClient.deliver_status_update.
Answers   == {"2xx", "other", "none"}
Heard(answer) == answer = "2xx"

\* drain_webhook_batch.
DrainWebhook(m) == m.kind = "webhook" /\ \E a \in Answers : Post(m, Heard(a))

\* drain_concierge_callback_batch.
DrainCallback(m) == m.kind = "concierge_status" /\ \E a \in Answers : Post(m, Heard(a))

----------------------------------------------------------------------------
Held == UNION {DOMAIN drain[w].mem : w \in Workers}

\* Mutant: a notice that was put back is not taken again.
Waiting_once == {m \in DOMAIN outbox :
                   /\ m.kind = "notification" /\ m \notin Held
                   /\ outbox[m].state = "PENDING" /\ outbox[m].attempts = 0}

\* The notices claim_batch may find: pending, locked by nobody, due sooner or later.
Waiting == {m \in DOMAIN outbox :
              m.kind = "notification" /\ outbox[m].state = "PENDING" /\ m \notin Held}

\* drain_notification_batch: claim_batch.
Claim(w, batch) ==
    /\ drain[w] = Batch0
    /\ drain' = [drain EXCEPT ![w] =
                   [Batch0 EXCEPT !.todo = batch, !.mem = [m \in batch |-> Tried(outbox[m])]]]
    /\ UNCHANGED <<on, changes, outbox, subs, dead, mails, aborts, crashes>>

\* The rest of the fan-out of the notice at work; when nothing is left of it
\* the notice is done.
Resting(d) ==
    IF d.left = {}
    THEN [d EXCEPT !.cur = {}, !.mem = [m \in DOMAIN @ |-> IF m \in d.cur THEN Done(@[m]) ELSE @[m]]]
    ELSE d

\* _push_owner: whose devices a notice goes to; an operator has none.
PushOwner(m) ==
    CASE m.to = "user" -> Requester [] m.to = "partner" -> m.partner [] OTHER -> NoPartner

\* The devices list_for_owner finds: as committed, less those this batch deleted.
Listed(w, owner) == {d \in subs \ drain[w].gone : d[1] = owner}

\* NeighborContactResolver.resolve: the operator's address is a setting, the others
\* are asked for; the neighbour may have none, or be down.
Contacts(m) ==
    CASE m.to = "operator" -> {{"email"}}
      [] m.to \in Known    -> {{"phone", "email"}, {"down"}}
      [] OTHER             -> {{}, {"down"}}

\* send_sms raises only for a number, when SMS.ru is down (the text may have gone
\* out all the same); a refusal is not raised.
SmsRaises(contact) == IF "phone" \in contact THEN BOOLEAN ELSE {FALSE}

\* send_email never raises.
Mailed(n, contact) == IF "email" \in contact THEN n + 1 ELSE n

\* _drain_one, when the neighbour or SMS.ru is down.
PutBack(d, m) == [d EXCEPT !.todo = @ \ {m}, !.mem[m] = Again(@)]

\* deliver_notification past the SMS and the e-mail: the devices are left.
Pushing(d, m, devices) == Resting([d EXCEPT !.todo = @ \ {m}, !.cur = {m}, !.left = devices])

\* Mutant: the e-mail goes out before the SMS, so that an SMS that fails repeats it.
Send_mailFirst(w, m) ==
    /\ drain[w].cur = {} /\ m \in drain[w].todo
    /\ \E contact \in Contacts(m) : \E raised \in SmsRaises(contact) :
         /\ drain' = [drain EXCEPT ![w] =
                        IF raised \/ contact = {"down"} THEN PutBack(@, m)
                        ELSE Pushing(@, m, Listed(w, PushOwner(m)))]
         /\ mails' = [mails EXCEPT ![m] = Mailed(@, contact)]
    /\ UNCHANGED <<on, changes, outbox, subs, dead, aborts, crashes>>

\* _drain_one: contact, SMS, e-mail and the list of the devices; what happens
\* outside between them changes nothing here.
Send(w, m) ==
    /\ drain[w].cur = {} /\ m \in drain[w].todo
    /\ \E contact \in Contacts(m) : \E raised \in SmsRaises(contact) :
         IF raised \/ contact = {"down"}
         THEN /\ drain' = [drain EXCEPT ![w] = PutBack(@, m)]
              /\ UNCHANGED mails
         ELSE /\ drain' = [drain EXCEPT ![w] = Pushing(@, m, Listed(w, PushOwner(m)))]
              /\ mails' = [mails EXCEPT ![m] = Mailed(@, contact)]
    /\ UNCHANGED <<on, changes, outbox, subs, dead, aborts, crashes>>

\* A device whose row another batch has deleted and not committed yet.
Blocked(w, d) == \E v \in Workers \ {w} : d \in drain[v].gone

\* A device dealt with: deleted with the batch, or not.
Passed(d, device, deleted) ==
    Resting([d EXCEPT !.left = @ \ {device}, !.gone = IF deleted THEN @ \cup {device} ELSE @])

\* send_webpush: the push service answers 404 or 410; any other failure is none.
Expired(d) == d[2] \in dead

\* Mutant: any failure of the push service deletes the device.
Push_anyFailure(w, d) ==
    /\ d \in drain[w].left
    /\ ~Blocked(w, d)
    /\ \E failed \in BOOLEAN : drain' = [drain EXCEPT ![w] = Passed(@, d, failed)]
    /\ UNCHANGED <<on, changes, outbox, subs, dead, mails, aborts, crashes>>

\* send_webpush to one device, in any order: delivered or failed, the next one;
\* 404 or 410, the row is deleted (a DELETE that finds no row any more deletes
\* and locks nothing) and waits for a batch that has deleted it already.
Push(w, d) ==
    /\ d \in drain[w].left
    /\ Expired(d) => ~Blocked(w, d)
    /\ drain' = [drain EXCEPT ![w] = Passed(@, d, Expired(d) /\ d \in subs)]
    /\ UNCHANGED <<on, changes, outbox, subs, dead, mails, aborts, crashes>>

\* The one commit of the batch.
Finish(w) ==
    /\ drain[w] # Batch0 /\ drain[w].todo = {} /\ drain[w].cur = {}
    /\ outbox' = [m \in DOMAIN outbox |->
                    IF m \in DOMAIN drain[w].mem THEN drain[w].mem[m] ELSE outbox[m]]
    /\ subs' = subs \ drain[w].gone
    /\ drain' = [drain EXCEPT ![w] = Batch0]
    /\ UNCHANGED <<on, changes, dead, mails, aborts, crashes>>

\* The batch is rolled back, with every mark and every deletion in it.
RolledBack(w) ==
    /\ aborts' = [m \in DOMAIN aborts |->
                    IF m \in DOMAIN drain[w].mem THEN aborts[m] + 1 ELSE aborts[m]]
    /\ UNCHANGED <<on, changes, outbox, subs, dead, mails>>

\* The worker dies, or pywebpush raises something that is no WebPushException.
Abort(w) ==
    /\ drain[w] # Batch0 /\ crashes < MaxAborts
    /\ crashes' = crashes + 1
    /\ drain' = [drain EXCEPT ![w] = Batch0]
    /\ RolledBack(w)

\* Two batches that each wait for a device the other one has deleted: the
\* database ends one of them, and the other gets the row it waits for.
DeadlockVictim(w) ==
    /\ \E v \in Workers \ {w} : \E d \in drain[w].left, e \in drain[v].left :
         /\ Expired(d) /\ d \in drain[v].gone
         /\ Expired(e) /\ e \in drain[w].gone
         /\ drain' = [drain EXCEPT ![w] = Batch0, ![v] = Passed(@, e, TRUE)]
    /\ RolledBack(w)
    /\ UNCHANGED crashes

----------------------------------------------------------------------------
\* PushSubscriptionService.subscribe: the upsert waits for a deletion under way.
Subscribe(d) ==
    /\ d \notin subs /\ ~Expired(d)
    /\ \A w \in Workers : d \notin drain[w].gone
    /\ subs' = subs \cup {d}
    /\ UNCHANGED <<on, changes, outbox, dead, drain, mails, aborts, crashes>>

\* PushSubscriptionService.unsubscribe.
Unsubscribe(d) ==
    /\ d \in subs
    /\ \A w \in Workers : d \notin drain[w].gone
    /\ subs' = subs \ {d}
    /\ UNCHANGED <<on, changes, outbox, dead, drain, mails, aborts, crashes>>

\* The push service gives an endpoint up, for good.
Expire(e) ==
    /\ e \notin dead
    /\ dead' = dead \cup {e}
    /\ UNCHANGED <<on, changes, outbox, subs, drain, mails, aborts, crashes>>

Take(w) == \E batch \in SUBSET Waiting :
             batch # {} /\ Cardinality(batch) <= BatchSize /\ Claim(w, batch)

Work(w) ==
    \/ \E m \in drain[w].todo : Send(w, m)
    \/ \E d \in drain[w].left : Push(w, d)
    \/ Finish(w)
    \/ DeadlockVictim(w)

Handlers ==
    \/ Create \/ Reschedule \/ Escalate \/ Rollback \/ Commit
    \/ \E s \in RequestStatus : Enter(s)
    \/ \E p \in Partners : Choose(p)

Browsers ==
    \/ \E d \in Devices : Subscribe(d) \/ Unsubscribe(d) \/ Expire(d[2])

Next ==
    \/ Handlers
    \/ \E m \in DOMAIN outbox : DrainWebhook(m) \/ DrainCallback(m)
    \/ \E w \in Workers : Take(w) \/ Work(w) \/ Abort(w)
    \/ Browsers

\* The scheduler triggers every drain again and again, and a drain that has
\* begun goes on: each of its calls has a timeout.
Fairness ==
    /\ WF_vars(\E m \in DOMAIN outbox : DrainWebhook(m) \/ DrainCallback(m))
    /\ \A w \in Workers : WF_vars(Take(w)) /\ WF_vars(Work(w))

Spec == Init /\ [][Next]_vars /\ Fairness
----------------------------------------------------------------------------
Rows == [state : {"PENDING", "DONE", "FAILED"}, attempts : 0 .. MaxAttempts]

RequestRow == [status : RequestStatus \cup {"ABSENT"}, partner : Partners \cup {NoPartner}]

TypeOK ==
    /\ on \in Deployments
    /\ request \in RequestRow /\ tx.row \in RequestRow
    /\ Len(log) + Len(tx.changes) <= MaxEvents
    /\ \A m \in DOMAIN outbox : outbox[m] \in Rows
    /\ DOMAIN mails = DOMAIN outbox /\ DOMAIN aborts = DOMAIN outbox
    /\ subs \subseteq Devices /\ dead \subseteq {d[2] : d \in Devices}
    /\ \A w \in Workers :
         LET b == drain[w]
         IN  /\ DOMAIN b.mem \subseteq DOMAIN outbox
             /\ \A m \in DOMAIN b.mem : b.mem[m] \in Rows
             /\ b.todo \subseteq DOMAIN b.mem /\ b.cur \subseteq DOMAIN b.mem
             /\ Cardinality(b.cur) <= 1
             /\ b.left \cup b.gone \subseteq Devices

\* What is announced is what was committed: the messages in the outbox are those
\* of the committed changes, one per kind and addressee, addressed to the partner
\* of that moment, whatever the handlers that failed half-way had prepared.
AnnouncedOnce == DOMAIN outbox = UNION {Emitted(n, log[n]) : n \in DOMAIN log}

\* A retry repeats no e-mail (and no push): the one channel that can put a notice
\* back, SMS, comes first, so only a batch that was rolled back is repeated.
MailNotRepeated == \A m \in DOMAIN mails : mails[m] <= 1 + aborts[m]

\* A device that is alive is forgotten by its owner's wish only; drains delete
\* none but those the push service has given up, whatever is registered,
\* removed and deleted by other batches meanwhile.
LiveDevicesKept ==
    [][\A d \in subs \ subs' : d[2] \in dead \/ drain' = drain]_vars

\* Every message is delivered or given up in the end, though two batches can
\* wait for each other in the table of devices and one of them is then undone.
EveryMessageSettles == <>[](\A m \in DOMAIN outbox : outbox[m].state # "PENDING")
============================================================================
