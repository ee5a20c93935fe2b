# Verification of kb-partners

kb-partners takes requests for household services, classifies them, picks a
partner, delivers the request over the partner's channels, follows the work
until the user accepts it, and hands settlement and claims to neighbouring
services. It is a FastAPI application over PostgreSQL; Dramatiq actors, triggered
periodically, drain a transactional outbox and scan for deadlines. Everything that
several processes share is in the database, and nearly every hard question about
the program is a question about what two transactions do to one row.

Paths below are relative to `src/backend/src/api/` unless they say otherwise.

- [1. The system](#1-the-system)
- [2. Modules](#2-modules)
- [3. Runs, bounds and fairness](#3-runs-bounds-and-fairness)
- [4. Proofs](#4-proofs)
- [5. Disagreements between code and documents](#5-disagreements-between-code-and-documents)
- [6. What is not modelled](#6-what-is-not-modelled)
- [7. Plan](#7-plan)

## 1. The system

### Components, state and operations

| Component | State it keeps | Operations |
|---|---|---|
| State machine (`requests/fsm.py`) | none: a table of 18 arrows and three terminal statuses | `can_transition`, `ensure_transition` |
| Request service (`requests/service.py`) | the `ServiceRequest` row, its `RequestHistory` | intake, `classify`, `assign`, `transition`, `cancel`, `reschedule`, messages, lists |
| Acceptance (`requests/acceptance.py`) | columns of the row; a settlement at rehome.one, a claim at kb-support | `accept`, `dispute`, `confirm_settlement` |
| Partner's answers (`requests/partner.py`) | the row, its `sla` column, estimates | `respond`, `add_estimate`; `advance_partner_status` is shared with the inbound channels |
| Dispatch (`channels/dispatch.py`) | `DispatchAttempt` rows, outbox messages of kind `dispatch` | endpoint with two commits, inline drain, worker drain, `execute_dispatch` |
| Timers (`automation/timers.py`) | outbox messages of kind `partner_fallback`; `fallback_chain`, `accept_deadline` of the row | accept-timeout scan, fallback drain, `redispatch_to_next` |
| Intake automation (`automation/pipeline.py`) | outbox messages of kind `automation_on_create` | classify → assign → dispatch, one message per request |
| Outbox (`outbox/`) | `outbox_messages`: status, attempts, `available_at` | `enqueue`, `claim_batch`, `mark_done`, `mark_failed_or_retry` |
| Inbound (`channels/inbound.py`, `channels/email_inbound.py`) | `inbound_events` (nonce per channel); `\Seen` flags at the IMAP server | signed webhook, mail handler, IMAP poll |
| Webhooks, notifications, concierge callbacks (`webhooks/`, `notifications/`, `agent/`) | outbox messages of their kinds | emit on transition, drain |
| Push subscriptions (`push/`) | one row per browser endpoint | subscribe, unsubscribe, delivery that deletes dead endpoints |
| SLA (`sla/`) | the `sla` column | business-hours calendar, deadlines, state on reading |
| Matcher, classifier (`matching/`, `classifier/`) | none | `rank`, `classify` |
| HTTP clients (`clients/`) | breaker state, cached answers and tokens, in memory | retry, breaker, cache-aside, token provider |
| Visibility and lists (`requests/access.py`, `requests/repository.py`, `requests/pagination.py`) | none | visibility predicate, keyset pages |
| Retention (`retention/worker.py`) | `raw_input` of the row | periodic anonymisation |
| Authentication (`auth/`) | JWKS cache | token verification, roles |
| Frontend (`src/frontend/`) | a session cookie | portal of the partner, desk of the operator |

### Interactions

All writers of a request meet at its row, taken with `SELECT … FOR UPDATE`:
endpoints, webhooks, mails, the pipeline's stages, the dispatch drains, the
timers. They hand work to each other through the outbox: the transition and the
message that follows from it are one commit, and a drain picks the message up
later, with `FOR UPDATE SKIP LOCKED`. A drain calls the outside world (channels
of partners, kb-platform, rehome.one) inside its transaction, so a crash can undo
what the database knows, never what the partner has received. The dispatch
endpoint, impatient, drains its own message in the same HTTP call after its
first commit.

Two facts about SQLAlchemy decide several of the results. The sessions are made with
`expire_on_commit=False`, and re-reading a row `FOR UPDATE` does not refresh an
object the session still holds: the endpoint's drain works on the row *as it was
at the first commit*. And a flush writes only columns that changed in memory, so a
stale session overwrites columns one by one, not the row.

### What is hard, and what makes it correct

* **Request row.** Every handler may follow several arrows in one transaction and
  also writes timestamps, audit rows and reasons. Correct means: the audit rows
  are one chain of arrows that ends at the status (`AuditTrail`), whoever is paid
  has done undisputed work (`PaidProvenance`), timestamps agree with the audit
  rows, no stage is entered twice, no neighbour is called for work that is not done,
  even if the commit is lost, and the first reason stands (`StampsAudited`,
  `EnteredOnce`, `OutsideCallsAfterWork`, `FirstReasonKept`: proved, not run). The
  second commit of the dispatch endpoint can break most of this (section 5, 1). Where
  it does, the statement names it as the exception, and `BackOnlyByDrain` says that
  there is no other way back.
* **Dispatch.** A message, a row, two drains, a deadline, a chain of partners, and
  anybody else on the row between two commits. Correct means: the status moves along
  the arrows when workers interleave (`FollowsLifecycle`), and what an old row can do
  beyond that is known (`OnlyStaleFailure`, `PerformLostOnlyByDrain`); attempts are numbered
  without gaps (`AttemptNumbersGapless`), a message is delivered once
  (`MessageDeliveredOnce`), a dispatched request has a deadline or a message that will
  deliver it, or a trace of why it has none (`DispatchIsWatched`), silence ends
  (`DispatchEnds`).
* **Intake and pipeline.** Retried calls, a race on a unique index, three commits
  per run and a message that is marked last. Correct means: one request per key
  (`OneRequestPerKey`), no request forgotten in NEW (`LeavesNew`), a repetition
  only after a failure (`DispatchedOncePerRun`).
* **Outbox.** Concurrent drains, crashes, a visibility timeout that may pass a slow
  worker. Correct means: duplicates are paid for by crashes
  (`DuplicatesOnlyByCrash`), results are final (`SettledForGood`), everything is
  settled (`EventuallySettled`), batches are disjoint, claims are invisible and
  attempts are bounded (proved, not run).
* **Inbound.** Duplicates, reordering, answers to an assignment that is over.
  Correct means: a message takes effect once (`AppliedOnce`), only the present
  partner's word moves the request (`OwnWord`), and a webhook that is repeated is
  heard in the end (`WebhookHeard`).
* **News of a request.** Written by handlers that may fail half-way, drained in
  batches that go to several channels and commit once. Correct means: announced is
  exactly what was committed (`AnnouncedOnce`), a retry repeats no mail
  (`MailNotRepeated`), no living device is deleted (`LiveDevicesKept`), every message
  is settled though batches may wait for each other (`EveryMessageSettles`).
* **Clients.** A token that is checked once and carried through retries, a breaker, a
  cache that a slow answer fills. Correct means: a cached token is sent expired only by a
  call that has used up the whole skew (`SkewCovers`), a broken neighbour is left alone for the whole pause
  (`BreakerQuiet`) and let back in (`Recovers`), no list is older than the TTL and one
  attempt (`ListFresh`).
* **Keys and roles.** Requests that refresh the signing keys at once; callers with several
  roles and two schemes of delegation. Correct means: `VerdictsSound`, `AccessSound`.
* **Calendar.** Deadlines over closed days, midnight and changes of the clock, and states
  computed on reading: `DeadlinesRight`, `StatesSound`.
* **Classifier and matcher.** Ambiguous texts, a model that is down, answers nonsense or
  raises, a registry with ties, gaps and repetitions: `CategoriesSound`, `MatchesSound`.
* **Lists, channels, retention.** Pages of a table that changes (`PagesSound`); lost answers
  and missing configuration of a channel (`DeliveriesReported`); workers, handlers and
  crashes at the same texts (`ForgottenOnce`).

The list `hazards` of `PROJECT.json` gives each of these its line in the code,
with the properties that cover it or the reason why none does.

## 2. Modules

```
RequestFsm            the table of arrows (pure)
  RequestLifecycle    abstract specification: a status that moves along the arrows, and
                      the late FAILED_DISPATCH of a request once dispatched
    implemented by    RequestService, OnCreate (Lifecycle!Spec)
                      Dispatch, Inbound        (its moves, from a later status on)
  RequestService      the handlers of one request, one action per handler
  OnCreate            intake under one key and the pipeline behind it
  Dispatch            delivery, drains, timers, fallback
  Inbound             webhooks, mails and portal answers for one request
Outbox                the message table, for both kinds of drain
  Fanout              what goes into it when a request changes, and out of it
                      (uses the arrows of RequestFsm)
MCServices            one run for the parts that share no state:
  Neighbours          a client at work: token, retries, breaker, cache
  SigningKeys         the cache of signing keys
  Lists               pages of a list that changes
  Retention           texts that are forgotten
  Sla, Selection,     questions with one answer: deadlines and states, category
  Access, Channels    and partner, who may do what, what a delivery reports
```

### RequestFsm, RequestLifecycle

`BaseTransitions`, `CanTransition`, `TERMINAL_STATUSES` are `_BASE_TRANSITIONS`,
`can_transition`, `TERMINAL_STATUSES` of `fsm.py`. `Leads` is what one
transaction may do: at most four arrows, the number the longest handler follows
(the accept-timeout fallback: DISPATCHED → MATCHING → ASSIGNED → DISPATCHED →
FAILED_DISPATCH). `RequestLifecycle` is the promise to an observer of committed
statuses. It has two steps: `Move`, along `Leads`, and `StaleFailure`, the FAILED_DISPATCH that
a drain of the dispatch endpoint writes from the row it loaded before its first commit.
An observer must expect the latter of any request that has been dispatched, even of a
cancelled one (section 5, 1); of a request never dispatched, terminal statuses are final.

### RequestService

State: the row (`status`, `partner`, dates, reasons, timestamps), the audit rows, the
calls made to rehome.one and kb-support, and for every API process the dispatch handler
between its two commits (`drains`: the partner it knows). One action per handler: a handler
holds the row lock from its first read to its commit, so nothing can come between its
steps, and each action carries all of them (`classify` follows up to three arrows).
The dispatch endpoint is the exception. `DispatchCall` goes to commit-1; commit-2 is
`DrainFails` (`Overwritten`: FAILED_DISPATCH over whatever the row has become, with
an audit row that says DISPATCHED → FAILED_DISPATCH), `DrainDelivers` (the partner
column, when the chain was used) or none (`DrainGone`).
`Transitioned` is `apply_transition`: the guard, the timestamp column and
the audit row. `accept` and `dispute` call a neighbour *before* the commit, so each has
a second outcome in which the call has been made and the commit is lost.
Left out: metrics, events queued by a transition (a message of the outbox
like any other), texts.

### OnCreate

State: the calls of the intake (`calls`), the committed requests under one
key, the messages, the runs of the workers with their position, their row lock
and their claim. A run is split where the code commits: `Classify`,
`Assign`, `DispatchStage`, `Drained`, `Mark`. The first commit of a run commits
the claim too (status PROCESSING, invisible until the timeout). A stage refused with
409 or 422 goes on with the row still locked, as the session is not rolled back;
`DeadlockVictim` is PostgreSQL ending one of two runs that wait for each other.
`Raise` is the exception branch of the drain (the partial change is
committed with the retry), `Crash` the process that dies, `Due` the visibility
timeout, `Others` everybody else who moves the request. How a delivery ends is
left to Dispatch. What the drain may write is not: `Drained`, with the row of the first
commit, writes nothing, another partner, or FAILED_DISPATCH over any status committed
meanwhile. `Others` may take every arrow of the free /transition, classify, assign, and,
once a request was dispatched, write what the drains and fallbacks of other processes write.

### Dispatch

State: the row, the attempts, the messages, and for every process its open
transaction `tx` with the row as it was read (`seen`) and as it has been changed in
memory (`work`). A transaction that calls partners is split at every delivery;
the others are one action each. `Merge` is the flush: only changed columns are
written. `Servers` are API processes that live to run the drain of their own
dispatch (one whose process dies between its commits is `DispatchCallCut`),
`Workers` the processes of the actors. `received` is what partners got,
including deliveries reported as failed: a lost answer is a failure to the code and an
order to the partner. A message has its `last_error` (`error`), which tells a request that fell
silent from one that is forgotten. Instants are replaced by the number of the dispatch a deadline was
computed from; `Tick` lets the oldest running window pass. The request starts
CLASSIFIED; every partner has the same number of channels.

### Outbox

State: per message its status, attempts, visibility time and results; per worker
its batch. `MidCommit` selects the kind of drain: FALSE for the drains that commit
once per batch (webhooks, notifications, callbacks, dispatch, fallback), TRUE for
the pipeline, whose stages commit in the middle. Time is counted in ticks:
a message has the ticks left until it is visible, a drain the ticks since it took
its `now`, both up to a horizon beyond which nothing depends on them.

### Inbound

State: the row (status, partner, number of the dispatch, late commits so far), what the
partners have said, the remembered nonces, the committed effects in their order, the
calls and polls in progress. `Receive` is a webhook up to `is_seen`, `Process` the
rest, from the row lock to the commit: between them another copy may commit,
and the unique index on (channel, nonce) decides. `Search`, `Fetch`, `HandleMail` are
the poll: the fetch sets `\Seen`, each mail is then handled in a transaction of its own,
and a mail whose transition is refused ends the loop. Signature, timestamp window and
parsing are preconditions of a message. All mails found are fetched in
one step: a poll that dies within it has, in the code, flagged some of them, which
is a mixture of the two deaths the model has, before and after the fetch. `Redispatch`
and `UserActs` stand for everyone else who writes the row under its lock, and `LateDrain`
for the second commit of each dispatch, whose row is stale (`channels/dispatch.py:175`): it
may put FAILED_DISPATCH over an accepted request, or another partner over the one at work.
`OwnWord` excepts the work so displaced (`displaced`), until it is dispatched again.

### Fanout

State: the committed row and its committed changes, the handler at work on it (`tx`:
its row, its changes, its messages), the outbox, the subscriptions, for every worker its
batch. `Enter` is `apply_transition` with its emitters, `Reschedule` and
`Escalate` the two that announce something else; `Commit` and `Rollback` end the
handler. A webhook or callback is one call per message (`DrainWebhook`,
`DrainCallback`). A batch of notices is taken (`Claim`), each notice goes out by SMS and
mail (`Send`) and then to the devices that were listed at that moment (`Push`), a device
answered by 404 or 410 is deleted, and the batch commits (`Finish`) or is
rolled back (`Abort`, `DeadlockVictim`). Rows a batch has deleted block the other
batches and the browsers until it ends. Locks and back-off of the messages are
Outbox's: here a pending message nobody holds may be due.

### Neighbours, SigningKeys

`Neighbours` is one client: the call at work (fetching its token, at an attempt, pausing), the
breaker, the token, the list of candidates the process shares, whether the
neighbour answers. `Begin`, `TokenArrives`, `TokenFails`, `Answered`, `Failed`, `Raised`,
`Again` are the path through `ClientCredentialsTokenProvider`, `ResilientHttpClient`,
`retry_async`; `Elsewhere` is another request of the process that fills the
cache. Every duration is what is left of it, so that time is bounded without a
bound. The timeout given to httpx bounds a *wait* (for the pool, the connection, a write,
the next bytes), not an attempt: `WaitsAnew` begins the next wait, and only `Longest`, a bound
of the model, ends an attempt or a token fetch as a whole. So no setting makes a token
outlive its call, and the module does not say so: it counts what a cached token's fetch
and the call have taken (`spent`) and states what the skew is worth.

`SigningKeys` is `JwksCache` under several requests: each verifies at once (`Accept`) or
fetches (`Fetch`, `Answer`, `Complete`, `Fail`), while Keycloak publishes and
withdraws keys.

### Lists, Retention

`Lists` walks the pages (`NextPage`, `StartOver`) while rows are inserted, older ones
behind newer ones, and while they enter and leave the list (`Insert`, `Change`).
`Retention` has workers that select and lock (`Select`), mask with an entry of
the history (`Anonymize`), or die, and handlers that hold rows (`Hold`). No handler
changes an age or puts a text back, so handlers need no more than their locks.

### Sla, Selection, Access, Channels

These parts wait for nothing and write nothing. Each module chooses an input from all
those its bounds give and states what the code makes of it, next to a reference
definition or a promise to compare it with: business hours counted one by one for `Sla`
(the code walks over windows), a ranking as an order of the places of the registry's list
for `Selection` (`rank` sorts by a key, and keeps an entry that is listed twice), five
promises about visibility, delegation and ownership for `Access`, attempts and what each of
them leaves at the partner for `Channels`.

Two inputs make the code raise. In `Selection` these are the replies of `Raising`: a body that
is no JSON, a completion whose text is null or no string (`text.strip()`, which
`_parse` does not guard), a confidence too large for `float()`. `Classify` is then empty. In
`Sla` they are columns with a string that is no date (`garbled`): `Evaluate` raises, and
`Overdue` finds nothing as long as one row has such a deadline (`Broken`), since the cast ends
the statement. A string that only one of `fromisoformat` and the SQL cast can read is not
among the inputs, nor is the scan's limit.

`MCServices` explores each part beside the initial state of the others (`part` says
which), because they share nothing: a product would only multiply states.

## 3. Runs, bounds and fairness

The `MC…` modules add symmetry sets, a view and the composition of section 2, nothing else.

| Run | Question | Bounds, and why they are enough |
|---|---|---|
| RequestService | Do the handlers in any mixture, with drains that commit late, keep audit trail and payment straight, go back in one way only, and implement RequestLifecycle? | Two partners, dates and reasons (the second to be confused with the first); two dispatch handlers between their commits; 16 audit rows: the longest way without repetition follows twelve arrows, so there is room for a loop through matching and dispatch, or for what follows a late drain. |
| Dispatch_worker | Two workers, drains, fallbacks and scan, partners that answer anything, an operator who cancels. | Two partners and a chain of one (an assignment, a fallback, an end of the chain); two dispatches by hand; two tries. No crash: a crash only rolls back, the next run has it. |
| Dispatch_inline | The endpoint's own drain against a worker, with a crash, exceptions and dispatches by hand: what is delivered, what is watched, what an old row does; liveness. | One server, one worker: a third process finds every message locked or settled. Two exceptions use up the tries of a message, or hit a fallback and what follows it. |
| Outbox_once | Safety of the drains that commit once. | Three messages and batches of two: batches that overlap, and a message left over. Two attempts, a crash. |
| Outbox_settles | Liveness of the drain that commits in the middle. | One message (messages do not interact there but through the batch), three attempts, a crash and a reclaim. |
| OnCreate | Intake and pipeline; liveness of LeavesNew. | Two calls, two workers, two tries; one crash, one exception, one expired timeout, in any order; every autonomy level. |
| Inbound | Once-only, own word, lifecycle, delivery of webhooks. | Two partners, two copies, two polls, two answers, the first of which may have been given at the start (asked, or at work), one re-dispatch, a late second commit of each dispatch, one death. |
| Fanout | Announcement, retries of a batch, deletion of devices; liveness. | One partner, two devices of the requester (two batches can meet in both, in opposite order), two workers, batches of two, two attempts; two changes, hence up to two messages, one abort; each kind of message alone, as they never meet; from intake and from a dispatched request. |
| Services | The nine parts of section 2 that stand alone. | *Clients*: three attempts, so a pause that is doubled and one that is capped; a threshold of two; an attempt drawn out beyond its timeout (`Longest` 3, one wait 2 or 1); a skew of 4 that a call of up to twelve ticks outlasts; a token that is never kept (lifetime 2) or for two ticks (6). *Keys*: two keys, two requests. *Lists*: four rows, two instants (ties), pages of two. *Retention*: three rows, two workers, batches of two. *Sla*: days of three hours in weeks of three days: every window, every set of days, every start of three days, a clock that goes either way at three instants; each stage with every mixture of garbled columns, alone or beside a row with a garbled deadline. *Selection*: up to two keywords of each category, confidences below, between and beyond, every reply that raises; registries of three entries, with and without a repetition. *Access*: every combination of kind, scopes and claims of two users, two partners and an agent. *Channels*: every configuration and every fate of three attempts. |
| Dispatch_TerminalStays, Dispatch_DeclinedNotAskedAgain, OnCreate_RestartIdempotent | Statements of the documents the code does not keep (section 5). | The smallest instance with a counterexample. |

`CHECK_DEADLOCK FALSE` stands where the system may come to rest: a terminal
request, settled messages, exhausted bounds. `WithoutRecords` (Dispatch) is a view
that drops `received` and `declined`, which no action reads and no property of
the runs that use it mentions.

Symmetry is used in the runs without liveness only.

**Fairness.** Dispatch and OnCreate: the periodic actors come back (the ops
checklist of `tasks/actors.py` demands a trigger for each), a process that
has not died goes on, time passes. Weak fairness everywhere. Nothing is assumed of
users, operators, partners, nor that a delivery succeeds or a server survives.
Outbox: drains are triggered, begun transactions end, time passes. Inbound: a
sender repeats a webhook that was not answered, and the server takes it up now
and then. That is strong fairness, since other calls may occupy the handlers
in between. Mails have no such guarantee and no liveness property.
Fanout: every drain is triggered again and again, and a batch goes on, since each of
its calls has a timeout; nothing is assumed of handlers, browsers and the push
service. Neighbours: httpx and asyncio end every wait and pause, no neighbour draws an answer
out for ever, and time passes; that the client goes on calling, that tokens can be fetched and that the
neighbour stays up are premises of `Recovers`, not fairness.

## 4. Proofs

Proof modules extend their component and hold for all values of the constants, from the
named assumptions of the components only.

* **RequestFsmProofs**: the fact the proofs about users of the table share: what is reached
  along at most three arrows is in `Leads`.
* **RequestServiceProofs**: every property the run RequestService checks, type correctness,
  the action property about reasons, the refinement of RequestLifecycle and, through it, how
  far terminal statuses are final and stages only go forward: but for the
  FAILED_DISPATCH of a request that has been dispatched (`TerminalIsFinal`,
  `StagesOnlyForward`), which `BackOnlyByDrainHolds` traces to a dispatch handler between
  its commits. The invariants are not inductive one by one: `PaidProvenance` needs to know
  what has followed the last dispatch in *every* status on the way to the payment,
  `EnteredOnce` that no audit row entered a later stage than the present one. `RowInv` is
  their strengthening: type, `Chained`, `Stamped`, `OnPath` (the rows since the last
  dispatch), and, while no drain has written over a later status, `StageIsLast`. The handlers
  enter the argument only once: each changes the row by a few applications of `Transitioned`
  and a change of columns no invariant reads, or by `Overwritten` (`EveryStepIsRowStep`), and
  two lemmas show that `Transitioned` along an arrow and `Overwritten` after a dispatch
  preserve `RowInv`.
* **DispatchProofs**: type, `AttemptNumbersGapless`, `MessageDeliveredOnce`,
  `OnlyStaleFailure`, `FollowsLifecycle`, `PerformLostOnlyByDrain`, `DispatchIsWatched`, for any
  partners, channels, processes and bounds. `IInv` says who holds what and what that is
  worth. `Locks`: one process at most holds the row, and one at most each message,
  which is pending. `Counted`: who holds the row has counted every attempt there is, which is
  why numbers have no gaps though they are read before the partner is called. `Knows`: who
  holds the row has read it as it is. That last one fails for the endpoint's drain,
  whose row is as old as its first commit; of it `Knows` says only that it was dispatched, and
  `Rises` that what it relies on (a partner, a number, an accept deadline) is never taken
  back. So the theorems hold of all processes and say what an old row does: what is written
  off the arrows is a FAILED_DISPATCH (`StaleFailureIsTheOnly`), and what is lost of the sla
  column is lost to a drain that read the row before the acceptance
  (`PerformLossIsTheDrains`). `DispatchedIsWatched` needs no hypothesis either:
  exceptions and dispatches by hand are cases of its statement. One theorem has a
  hypothesis, which its run has too: `WorkersFollowLifecycle` is about processes
  without endpoint drains (`Servers = {}`; section 5, 1).
* **OutboxProofs**: type, disjoint batches, invisible claims, bounded
  attempts, duplicates only by crash, final results, for the drains that commit once
  (`MidCommit = FALSE`). The inductive invariant ties each message's row to the
  batch that holds it, and its attempts to what has been delivered and lost.
* **OnCreateProofs**: type, one request per key, `DispatchedOncePerRun`, refinement of
  RequestLifecycle, with `IInv == TypeOK /\ IntakeInv /\ RunsInv`: `IntakeInv` says where each
  call stands relative to the unique index (at most one has flushed, and only while no
  request is committed), `RunsInv` that a run under way has a message. Each step of the
  pipeline is shown to be one step of the row (`RowStep`), the late FAILED_DISPATCH of the drain
  among them, which gives the refinement. The
  number of dispatches is bounded by a budget of chances: a run that has not come to its
  dispatch is one, a message that can be taken up is one, and what goes wrong (a death, an
  exception, an expired timeout) is the only thing that adds any.
* **InboundProofs**: type, `AppliedOnce`, `OwnWord`, `FollowsLifecycle`. The first
  three are inductive together. An accepted message is new (`AppliedOnce` gains one on
  both sides), comes from the partner of the row (it is itself the witness `OwnWord`
  asks for), and follows an arrow; everything else moves only the row, away from the
  stages of work or marked as displaced, or only calls and polls.
* **FanoutProofs**: type, `AnnouncedOnce`, `MailNotRepeated`, `LiveDevicesKept`. Three
  invariants that do not need each other. `ChangesInv`: the messages a handler has prepared are those
  of its changes, numbered behind the committed ones, so that a commit adds
  new messages and no others. `DeliveryInv`: a notice that a batch may still take
  was mailed at most as often as a batch with it was rolled back; batches are apart, and what a
  batch holds is pending. `DevicesInv`: what a batch deletes has expired.
* **ServicesProofs**: the parts of MCServices, of which each moves alone (`PartsStep`).
  * *Clients*: `SkewCovers`, `ListFresh`, `BreakerQuiet`, for any settings and any
    `Longest`: `NeighboursAssumption` relates no setting to another, only
    `Longest` to the waits it contains. None is inductive: each
    needs to know how much of its time is spent. `CallsInv` is therefore four budgets.
    `CallOK`: what a token from the cache has left to live and what has been spent of it make up
    at least the skew; `TokenOK`: a token outlives its place in the cache by the skew less
    the time it was on its way; `BreakerOK`: the rest of an open breaker and the time since
    the last failure make up the pause, and the breaker's counter is the length of the
    row of failures; `ListOK`: a list is outdated no longer than it has been kept,
    plus an attempt. `Tick` moves both sides of each by one.
  * *Keys*: `VerdictsSound` by budgets of the same kind: what is left of the cached keys and
    of a fetch under way pays for the age of what they hold (`KeysInv`).
  * *Lists*: `PagesSound`, for any table and limit. A row that has matched all the time is
    among those shown or behind the cursor (`PagesInv`). That a page in the order of the list
    exists at all is a lemma too (`OrderExists`, for any finite set and strict total order):
    a row is placed by the number of rows before it. `Lists` says `Ordered`, what the
    database promises of ORDER BY, and `Selection` `Ranked`, where the code calls `sorted`.
  * *Retention*: `ForgottenOnce`. Batches are apart from each other and from the rows handlers
    hold (`BatchesApart`), all rows of a batch are due and still personal
    (`BatchesDue`), and it is known which rows have a text (`TextsKnown`).
  * *Answers*: `AccessSound`, `DeadlinesRight`, `StatesSound`, `CategoriesSound`,
    `MatchesSound` and `DeliveriesReported` are about one question each; the invariant is that
    it is a question (`Questioned`), and the work is in the lemmas: for every caller a token
    can make; any calendar, start, amount and change of the clock; any instants of deadline,
    start, pauses and reading, garbled or not; any threshold, replies and numbers of keywords; a
    list of candidates of any length, ids and ratings repeated or not (`RankingRight`, of
    which the registry's three and the test partners are instances); any number of attempts with any
    fates.
  * *Deadlines* is the longest of these. `Business(c, a, b)` counts the business hours
    of the local clock between a and b. What the loop has spent before a day is that number
    up to the day (`SpentFound`), by looking at the least day for which it would not be. So
    the first day that may end the loop holds the hour that is looked for
    (`DeadlineFound`), and when no day may, the horizon has too few (`NoDeadline`). The clock
    comes last (`ClockRight`): the instants between start and deadline are the local
    hours between them but for the one a change skips or shows twice, in nine cases of
    start and deadline before and after the change.
  * Facts that the library states for operators only are had from its theorems about sets: a set
    of numbers has a least element because strict inclusion of finite sets is
    well-founded (`LeastExists`), which replaces an induction wherever one is needed, and
    a recursive function has a value because a solution is given (`PausedType`, `SpentFound`).

The theorems of RequestServiceProofs and OutboxProofs include seven statements no run
checks (`StampsAudited`, `EnteredOnce`, `OutsideCallsAfterWork`, `FirstReasonKept`,
`BatchesDisjoint`, `ClaimsInvisible`, `AttemptsBounded`), besides the type invariants: they hold for every
instance, so an instance would add nothing.

Only model-checked: every liveness property (`LeavesNew`, `EventuallySettled`,
`DispatchEnds`, `WebhookHeard`, `EveryMessageSettles`, `Recovers`), which is out of the prover's
reach. Every safety property that a passing run checks has a theorem.

## 5. Disagreements between code and documents

Each with a run that ends in a counterexample; the trace is the argument.

1. *Terminal statuses are left* (`fsm.py:29`). A cancellation committed between the
   endpoint's two commits is overwritten with FAILED_DISPATCH by its drain, which has
   the row in memory as it was (`Dispatch_TerminalStays`). The same drain can take back an
   acceptance, a payment or a dispute; the statements of the other modules name it as
   their exception.
2. *A partner who declined is asked again* (`timers.py:4-5`). A successful delivery to
   a partner of the chain leaves him in the chain
   (`Dispatch_DeclinedNotAskedAgain`).
3. *The restarted pipeline is not idempotent* (`pipeline.py:7-8`). It re-assigns and
   dispatches again what it has dispatched itself (`OnCreate_RestartIdempotent`).

Without a run in the project, but with a short trace in the model:

* *A repeated delivery duplicates the order* (terms of reference, line 407 of
  `docs/handoff/01_postanovka/01_TZ_kb_partners_v1.1.md`). The key counts deliveries
  (`dispatch.py:67`), and a batch commits the attempts made before an exception.
  `NoDuplicateOrder` of Dispatch states the contrary and fails with two partners,
  one channel, one worker, no server, a chain of one, one dispatch, two tries and one
  exception, without the view.
* *A request falls silent after an exception in the fallback* (`timers.py:185`). The
  exception is caught without rolling back, the batch commits DISPATCHED without
  deadline or message of its own. `DispatchIsWatched` names the trace this leaves, an error in
  `last_error` of the fallback's message; without that disjunct it fails in Dispatch_inline,
  whose two exceptions include this one.
* *A format error of the model is not always None* (docstring of `_parse`,
  `yandexgpt.py:96`: "Любая ошибка формата → None"). A completion whose text is null or no
  string raises AttributeError in `_strip_fences` (`yandexgpt.py:118`), which the
  `except` does not name; a confidence that is an integer beyond floats raises OverflowError;
  and a 2xx answer whose body is not JSON raises before `_parse` is reached
  (`yandexgpt.py:91`). `FormatErrorsDegrade` of MCServices states the docstring and fails
  with the constants of Services.

Read in the code while modelling:

*Request, dispatch, inbound*

* `transition` enters CANCELLED without the reason the terms of reference ask for
  (`service.py:456`).
* `execute_dispatch` sends no visit date, although `reschedule` counts on it
  for requests that are not dispatched yet (`dispatch.py:61`, `service.py:98-100`).
* A second dispatch begins with the accept deadline of the first, so the scan may
  fall back at once (`dispatch.py:168`).
* The inline drain writes the whole `sla` column and may remove a
  `perform_deadline` set since (`dispatch.py:132`, `partner.py:56`).
  `PerformLostOnlyByDrain` says that nothing else does.
* Going down the chain inside a dispatch changes the partner without a notice to the new
  one or the old (`dispatch.py:126`).
* A refused order (502) leaves the new `partner_id` in the session, and the
  pipeline's batch commit stores it (`service.py:815`: nothing is committed).
* The order's idempotency key is `assign:<request>`: a re-assignment gets the first
  partner's order back (`service.py:825`). Likewise the callback to the concierge
  has the same key for a second DISPATCHED of one request.
* A settlement that answers None is not asked for again (`acceptance.py:63`).
* An answer is correlated by its request alone: one to an earlier dispatch of the
  same partner counts for the present one (`inbound.py:103`).
* A poll that fails at one mail never handles the ones after it, already `\Seen`
  (`tasks/actors.py:250`); two copies of a webhook that race end in 500 for one
  of them instead of "duplicate" (`inbound.py:93`).
* A token that two channels share makes every webhook to them end in `MultipleResultsFound`
  (`channels/repository.py:23-25`; no unique index forbids it).

*Pipeline and batches*

* In the pipeline's drain a slow worker marks a message that a second one has
  settled (`pipeline.py:133`), delivers inside the visibility window of another
  (`repository.py:44-45`) and uses more attempts than allowed (`repository.py:59-63`, `80`).
  `SettledForGood` and `AttemptsBounded` are claimed for the other drains only.
* Several pipeline runs can take a request out of NEEDS_REVIEW without an
  operator (`pipeline.py:8`).
* An API channel without `endpoint` raises `KeyError` (`resolver.py:113`), which
  `_attempt_delivery` does not catch: the dispatch, or the whole scan with the
  fallbacks of the other requests (`timers.py:138`), is undone. `DeliveriesReported`
  names it as the one delivery that raises.
* Two batches that lock rows of several requests in different order can wait for each
  other (`dispatch.py:223`).

*Clients, keys, roles*

* The skew of 30 s (`oauth.py:56-68`) does not make a token outlive its call: httpx bounds
  each wait and not the attempt (`dependencies.py:113-115`, `resolver.py:88`), and a retry sends
  the header of the first attempt.
* A failure to fetch a token is not degraded by the adapters, whose docstrings promise
  that an unreachable neighbour is (`oauth.py`; `TokenFails`).
* An exception other than a transport error (a body that cannot be decoded, too many
  redirects) leaves the half-open probe without a verdict (`circuit_breaker.py:3-4`):
  `Stranded`, which `Recovers` has to except.
* Most clients build a breaker per call or per HTTP request (`resolver.py`,
  `dependencies.py`), so that it hardly ever opens.
* An agent that only its scope names as such, under the older scheme of delegation,
  files requests for its own account (`_resolve_requester` goes by the kind), where
  nobody finds them: the exception in `IntakeOwned`.

*Calendar, classifier, matcher*

* The module promises to be correct on days with a clock change (`sla/calendar.py:4-5`). A
  window is measured between two local times of one zone, hence in
  wall-clock seconds: a deadline is off by the hour when the changed hour is a
  business hour (`calendar.py:46`). `DeadlinesRight` states it exact otherwise. Zones change their
  clocks at night, outside the default window.
* A confidence that is no number counts as certain: `max(0.0, min(1.0, NaN))` is 1.0.
  A threshold of 0.4 or less lets guesses pass, and settings allow it (`config.py:204-207`);
  `CategoriesSound` says when a guess may pass. They also allow one above 0.9 (`config.py:204`), under which
  every text goes to an operator that the keywords decide alone, as rules are worth
  0.9 at most; `CategoriesSound` excepts it, which the attempt to prove it without brought to light. A rating that is text raises in `rank`.
* A partner the registry lists twice is twice in the chain, and so may be asked again
  after he has declined (`adapter.py:71-79`, `matching/engine.py:37-41`, `66`).
  `MatchesSound` says that nothing else repeats him.
* One DISPATCHED request whose `accept_deadline` is no date ends the timeout scan of all of them, each time
  (`requests/repository.py:142-144`), and raises on every card of it (`sla/engine.py:78`).

*Channels*

* A redirect counts as SENT, and nobody follows it. Bitrix24, amoCRM and the bots
  are sent no idempotency key, so a repeated POST may be a second order
  (`bot.py:59`).
* The seeds of the test partners (`clients/platform/fixtures.py:102-121`, `186-197`) have
  `bot_token_ref`, `to`, `base_url`, `auth_ref` where the adapters read `bot_token`, `email`,
  `endpoint`, `auth_token`, and nothing resolves the `ENV:` references: those
  partners can only be delivered to by a mock, against `scripts/README.md:7-8`.
* `healthcheck` and `parse_inbound` of the adapters are called by nothing in the
  backend, so the "choice among the healthy" of `enums.py:29` is not made.
* Two PATCHes of one channel at once each store the columns they were sent: the result may
  be a mixture that neither asked for.

## 6. What is not modelled

* Payloads, texts, logs and metrics: no property is about them. Message rows,
  attachments and the requester's context are in the models only as what a
  caller may read or write of them (`Access`).
* Signatures of tokens and webhooks, schemas of requests: what passes them is the input
  of the models.
* Batches over several requests in Dispatch: it has one request, hence neither the
  exception that rolls back a scan over several nor deadlocks between batches. (Outbox
  and Fanout have several messages and both.)
* Edits of the configuration of a channel: an operator's form over one row.
* The start of the application, error handlers, observability: no shared state.
* Settings but for the assumptions the modules make of them. `automation_time_based_enabled` and
  the on_create automation are taken as switched on.
* Migrations and seeds, frontend, scripts of the repository and tests of its
  architecture: run before, beside or after the system.

`PROJECT.json` lists every component with its status.

## 7. Plan

Done, the most shared state first: RequestFsm, RequestLifecycle, RequestService, Dispatch,
Outbox, OnCreate, Inbound, then Fanout, Neighbours, SigningKeys, Sla, Selection, Access,
Lists, Channels, Retention, and the proofs of section 4.

Next, by weight:

1. **Abstract specification of delivery**: a request offered to a sequence of partners,
   implemented by Dispatch.
2. **A scan over several requests**: what one that raises undoes for the others.
