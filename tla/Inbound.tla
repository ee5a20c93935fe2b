------------------------------- MODULE Inbound -------------------------------
(***************************************************************************)
(* The partner's answers on their way to one request: signed webhooks      *)
(* (channels/inbound.py), mails fetched from an IMAP box                   *)
(* (channels/email_inbound.py, tasks/actors.py) and the portal             *)
(* (requests/partner.py).  Webhooks are repeated until answered, mails can *)
(* be fetched by two polls at once, and any of them may arrive when the    *)
(* request has gone on to another partner, or come back to the same one.   *)
(*                                                                         *)
(* The webhook looks for its nonce before it waits for the row, so two     *)
(* copies can both pass; the unique index on (channel, nonce) decides at   *)
(* the commit.  The mail looks for its Message-ID with the row locked.     *)
(*                                                                         *)
(* Besides the answers, the row is written by those who dispatch it again, *)
(* by the user, and by the late second commit of the dispatch endpoint     *)
(* (channels/dispatch.py:175, the module Dispatch), whose row is stale.    *)
(***************************************************************************)
EXTENDS RequestFsm, Sequences, FiniteSets

CONSTANTS
    Partners,
    Handlers,     \* webhook calls in progress at once
    Pollers,      \* runs of the periodic IMAP actor
    MaxSent,      \* bound: answers the partners give
    MaxDispatches,\* bound: dispatches of the request
    MaxDrops      \* bound: calls and polls that die

ASSUME BoundsAssumption ==
    MaxSent \in Nat \ {0} /\ MaxDispatches \in Nat /\ MaxDrops \in Nat

VARIABLES
    req,        \* the row: status and partner; with it the number of its
                \* dispatch, how many of the dispatches have had their late
                \* second commit (drained), and whether one of these has since
                \* put another partner to work that was begun (displaced)
    sent,       \* what the partners have said: via, from, reply; the index is
                \* the nonce of a webhook, the Message-ID of a mail
    events,     \* inbound_events: the messages remembered as accepted
    applied,    \* messages whose effects (status, text, estimate) are
                \* committed, in this order
    calls,      \* webhook calls: 0, or the message that has passed is_seen
    unseen,     \* mails without the \Seen flag
    polls,      \* IMAP runs: pc and the mails they have still to handle
    room, drops \* answers still to be given, and deaths, within the bounds

vars == <<req, sent, events, applied, calls, unseen, polls, room, drops>>

PARTNER_STATUS_TARGET ==
    [accepted |-> "ACCEPTED", rejected |-> "MATCHING",
     in_progress |-> "IN_PROGRESS", done |-> "DONE"]

\* "estimate": an envelope without a status, only a price or a text.
Replies == DOMAIN PARTNER_STATUS_TARGET \cup {"estimate"}

Idle == [pc |-> "idle", mails |-> << >>]

\* What a partner at work has said last, by the portal.
Begun(p) == << [via |-> "portal", from |-> p, reply |-> "in_progress"] >>

First(p, s) ==
    [status |-> s, partner |-> p, dispatch |-> 1, drained |-> 0, displaced |-> FALSE]

\* Either the partner has just been asked, or he is at work.
Init ==
    /\ \E p \in Partners :
         \/ req = First(p, "DISPATCHED") /\ sent = << >>
         \/ req = First(p, "IN_PROGRESS") /\ sent = Begun(p)
    /\ room = MaxSent - Len(sent) /\ events = {} /\ applied = << >>
    /\ calls = [h \in Handlers |-> 0]
    /\ unseen = {} /\ polls = [q \in Pollers |-> Idle]
    /\ drops = 0

----------------------------------------------------------------------------
\* Mutant: the status is written without asking the table.
Allowed_always(reply) == reply = "estimate" \/ req.status \notin TERMINAL_STATUSES

\* advance_partner_status: the target again is no change, an arrow that the
\* table does not have is refused (409).
Allowed(reply) ==
    \/ reply = "estimate"
    \/ PARTNER_STATUS_TARGET[reply] = req.status
    \/ CanTransition(req.status, PARTNER_STATUS_TARGET[reply])

Advanced(reply) ==
    IF reply = "estimate" THEN req
    ELSE [req EXCEPT !.status = PARTNER_STATUS_TARGET[reply]]

\* Mutant: the sender is not compared with the partner of the locked row.
Mine_anyPartner(n) == TRUE

\* The sender is the partner the request is assigned to.
Mine(n) == req.partner = sent[n].from

\* Effects and memory of a message in one commit.
Accept(n) ==
    /\ req' = Advanced(sent[n].reply)
    /\ applied' = Append(applied, n)
    /\ events' = events \cup {n}

Nothing == UNCHANGED <<req, applied, events>>

\* The partner who is asked answers; a mail without a status is ignored.  The
\* answer may arrive at any later time.
Send(p, via, reply) ==
    /\ room > 0 /\ room' = room - 1 /\ (via = "mail" => reply # "estimate")
    /\ req.partner = p
    /\ sent' = Append(sent, [via |-> via, from |-> p, reply |-> reply])
    /\ unseen' = IF via = "mail" THEN unseen \cup {Len(sent')} ELSE unseen
    /\ UNCHANGED <<req, events, applied, calls, polls, drops>>

\* Mutant: the nonce is stored in a transaction of its own, before the effects.
Receive_remembers(h, n) ==
    /\ calls[h] = 0 /\ sent[n].via = "api" /\ n \notin events
    /\ calls' = [calls EXCEPT ![h] = n]
    /\ events' = events \cup {n}
    /\ UNCHANGED <<req, sent, applied, unseen, polls, drops, room>>

\* handle_api up to is_seen; a message that was seen is answered "duplicate".
Receive(h, n) ==
    /\ calls[h] = 0 /\ sent[n].via = "api" /\ n \notin events
    /\ calls' = [calls EXCEPT ![h] = n]
    /\ UNCHANGED <<req, sent, events, applied, unseen, polls, drops, room>>

\* Mutant: no unique index on (channel, nonce).
Process_noIndex(h) ==
    /\ calls[h] # 0
    /\ IF Mine(calls[h]) /\ Allowed(sent[calls[h]].reply) THEN Accept(calls[h]) ELSE Nothing
    /\ calls' = [calls EXCEPT ![h] = 0]
    /\ UNCHANGED <<sent, unseen, polls, drops, room>>

\* handle_api from the row lock to the commit: 404, 409, the violated index, or
\* accepted.
Process(h) ==
    /\ calls[h] # 0
    /\ IF /\ Mine(calls[h]) /\ Allowed(sent[calls[h]].reply)
          /\ calls[h] \notin events
       THEN Accept(calls[h]) ELSE Nothing
    /\ calls' = [calls EXCEPT ![h] = 0]
    /\ UNCHANGED <<sent, unseen, polls, drops, room>>

\* PartnerService.respond: answered at once, no nonce.
Portal(reply) ==
    /\ room > 0 /\ room' = room - 1
    /\ reply # "estimate" /\ Allowed(reply)
    /\ req' = Advanced(reply)
    /\ sent' = Append(sent, [via |-> "portal", from |-> req.partner, reply |-> reply])
    /\ UNCHANGED <<events, applied, calls, unseen, polls, drops>>

\* fetch_unseen: the search, then the fetch that sets \Seen.
Search(q) ==
    /\ polls[q] = Idle /\ unseen # {}
    /\ \E mails \in [1 .. Cardinality(unseen) -> unseen] :
         /\ \A i, j \in DOMAIN mails : i < j => mails[i] < mails[j]
         /\ polls' = [polls EXCEPT ![q] = [pc |-> "fetch", mails |-> mails]]
    /\ UNCHANGED <<req, sent, events, applied, calls, unseen, drops, room>>

Fetch(q) ==
    /\ polls[q].pc = "fetch"
    /\ unseen' = unseen \ {polls[q].mails[i] : i \in DOMAIN polls[q].mails}
    /\ polls' = [polls EXCEPT ![q].pc = "handle"]
    /\ UNCHANGED <<req, sent, events, applied, calls, drops, room>>

\* EmailInboundService.handle of the next mail, under the row lock.  A reply the
\* status does not allow raises out of the loop: the mails after it, already
\* flagged \Seen, are not handled any more.
HandleMail(q) ==
    /\ polls[q].pc = "handle"
    /\ LET n == Head(polls[q].mails)
           valid == Mine(n) /\ n \notin events
           rest == Tail(polls[q].mails)
       IN  /\ IF valid /\ Allowed(sent[n].reply) THEN Accept(n) ELSE Nothing
           /\ polls' = [polls EXCEPT ![q] =
                           IF rest = << >> \/ (valid /\ ~Allowed(sent[n].reply))
                           THEN Idle ELSE [@ EXCEPT !.mails = rest]]
    /\ UNCHANGED <<sent, calls, unseen, drops, room>>

\* A call or a poll dies.
Drop ==
    /\ drops < MaxDrops /\ drops' = drops + 1
    /\ \/ \E h \in Handlers : calls[h] # 0 /\ calls' = [calls EXCEPT ![h] = 0] /\ UNCHANGED polls
       \/ \E q \in Pollers : polls[q] # Idle /\ polls' = [polls EXCEPT ![q] = Idle]
                             /\ UNCHANGED calls
    /\ UNCHANGED <<req, sent, events, applied, unseen, room>>

\* Fallback and operators dispatch again, to another partner or the same one.
Redispatch(p) ==
    /\ req.status \in {"MATCHING", "DISPATCHED", "FAILED_DISPATCH"}
    /\ req.dispatch < MaxDispatches
    /\ req' = [req EXCEPT !.status = "DISPATCHED", !.partner = p, !.dispatch = @ + 1,
                          !.displaced = FALSE]
    /\ UNCHANGED <<sent, events, applied, calls, unseen, polls, drops, room>>

Working == {"ACCEPTED", "IN_PROGRESS", "DONE"}

\* Commit-2 of a dispatch, with the row of its commit-1: FAILED_DISPATCH over any
\* status, or another partner of the chain over the one who has the request.
LateDrain ==
    /\ req.drained < req.dispatch
    /\ \/ req' = [req EXCEPT !.status = "FAILED_DISPATCH", !.drained = @ + 1]
       \/ \E p \in Partners \ {req.partner} :
            req' = [req EXCEPT !.partner = p, !.drained = @ + 1,
                               !.displaced = @ \/ req.status \in Working]
    /\ UNCHANGED <<sent, events, applied, calls, unseen, polls, drops, room>>

\* The user cancels, or accepts the work.
UserActs(s) ==
    /\ CanTransition(req.status, s)
    /\ req' = [req EXCEPT !.status = s]
    /\ UNCHANGED <<sent, events, applied, calls, unseen, polls, drops, room>>

Next ==
    \/ \E p \in Partners, via \in {"api", "mail"}, reply \in Replies : Send(p, via, reply)
    \/ \E h \in Handlers, n \in DOMAIN sent : Receive(h, n)
    \/ \E h \in Handlers : Process(h)
    \/ \E reply \in Replies : Portal(reply)
    \/ \E q \in Pollers : Search(q) \/ Fetch(q) \/ HandleMail(q)
    \/ \E p \in Partners : Redispatch(p)
    \/ LateDrain
    \/ \E s \in {"CANCELLED", "ACCEPTED_BY_USER"} : UserActs(s)
    \/ Drop

Spec == Init /\ [][Next]_vars

\* The sender of a webhook repeats it, signed afresh with the same nonce, until
\* it is answered ok or duplicate, and the server takes it up now and then
\* (SF, since other calls may come between); a call that does not die ends.
Fairness ==
    /\ \A n \in 1 .. MaxSent : SF_vars(n \in DOMAIN sent /\ \E h \in Handlers : Receive(h, n))
    /\ \A h \in Handlers : WF_vars(Process(h))

FairSpec == Spec /\ Fairness

----------------------------------------------------------------------------
RequestRow ==
    [status : RequestStatus, partner : Partners, dispatch : Nat \ {0}, drained : Nat,
     displaced : BOOLEAN]
Answer == [via : {"api", "mail", "portal"}, from : Partners, reply : Replies]
Poll == [pc : {"idle", "fetch", "handle"}, mails : Seq(DOMAIN sent)]

TypeOK ==
    /\ req \in RequestRow /\ sent \in Seq(Answer)
    /\ events \subseteq DOMAIN sent /\ applied \in Seq(DOMAIN sent)
    /\ calls \in [Handlers -> {0} \cup DOMAIN sent]
    /\ unseen \subseteq DOMAIN sent
    /\ polls \in [Pollers -> Poll]
    /\ \A q \in Pollers : polls[q].pc # "idle" => polls[q].mails # << >>
    /\ drops \in 0 .. MaxDrops /\ room \in 0 .. MaxSent

Effective == {applied[i] : i \in DOMAIN applied}

\* A message takes effect once, and is remembered exactly when it has taken
\* effect: whatever copies are processed at once, and wherever a call dies
\* ("the repetition of a nonce is a no-op", handle_api).
AppliedOnce ==
    /\ Len(applied) = Cardinality(events)
    /\ Effective = events

\* Work stands accepted, begun or done only on the word of the partner the
\* request is with now: the late answer of a partner it has been taken from
\* moves nothing ("a partner moves only requests assigned to him").  Only a late
\* drain can put another partner to the work (displaced).
OwnWord ==
    (req.status \in Working /\ ~ req.displaced) =>
        \E n \in DOMAIN sent :
          /\ sent[n].from = req.partner
          /\ sent[n].reply # "estimate" /\ PARTNER_STATUS_TARGET[sent[n].reply] = req.status

Lifecycle == INSTANCE RequestLifecycle
                 WITH status <- req.status, dispatched <- req.dispatch # 0

\* Answers that arrive late, twice or in another order than they were given
\* still move the request along its lifecycle only, late FAILED_DISPATCH or not.
FollowsLifecycle == [][Lifecycle!Move \/ Lifecycle!StaleFailure]_(req.status)

\* A webhook its sender repeats is applied in the end, however many calls die,
\* unless the request has been taken from him or its status refuses the answer.
WebhookHeard ==
    \A n \in 1 .. MaxSent :
      (n \in DOMAIN sent /\ sent[n].via = "api") ~>
        /\ n \in DOMAIN sent
        /\ n \in Effective \/ ~ Mine(n) \/ ~ Allowed(sent[n].reply)
=============================================================================
