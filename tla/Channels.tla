------------------------------ MODULE Channels ------------------------------
(***************************************************************************)
(* channels/adapters/ and channels/resolver.py: what one delivery through  *)
(* a channel of a partner does to the partner and what is reported of it,  *)
(* how an answer of the partner is read and what a check of health says.   *)
(*                                                                         *)
(* A delivery is a row of attempts, of which ResilientHttpClient makes the *)
(* next only when the last has brought no answer; what becomes of each is  *)
(* up to the network and the partner.  Its order among the other channels  *)
(* of the request is the subject of the module Dispatch.                   *)
(***************************************************************************)
EXTENDS Integers, FiniteSets, Sequences, FiniteSetsExt

CONSTANT Attempts   \* client_retry_attempts

VARIABLE input  \* the question asked; {} before there is one

----------------------------------------------------------------------------
\* An adapter: what deliver looks for in the config of the channel (or, for mail, in
\* the settings) and what healthcheck looks for; the key its resolver needs for an
\* address; whether its health is a question to the other side; whether attempts are
\* repeated, and carry a key by which the receiver can tell that; and the references
\* it reads an answer by, the first that is there.
MockChannel ==
    [needed |-> {}, looked |-> {}, address |-> {}, asks |-> FALSE, repeated |-> FALSE, keyed |-> FALSE,
     refs |-> <<"request_ref">>]

\* The header Idempotency-Key.
PartnerApiChannel ==
    [needed |-> {}, looked |-> {}, address |-> {"endpoint"}, asks |-> TRUE, repeated |-> TRUE, keyed |-> TRUE,
     refs |-> <<"external_ref", "request_ref">>]

OursFirst == <<"request_ref", "external_ref">>

BotApiChannel ==
    [needed |-> {"bot_token", "chat_id"}, looked |-> {"bot_token"}, address |-> {}, asks |-> TRUE,
     repeated |-> TRUE, keyed |-> FALSE, refs |-> OursFirst]

EmailChannel ==
    [needed |-> {"notify_smtp_host", "notify_email_from", "email"},
     looked |-> {"notify_smtp_host", "notify_email_from"}, address |-> {}, asks |-> FALSE,
     repeated |-> FALSE, keyed |-> FALSE, refs |-> OursFirst]

Bitrix24Channel ==
    [needed |-> {"webhook_path"}, looked |-> {"webhook_path"}, address |-> {"endpoint"}, asks |-> TRUE,
     repeated |-> TRUE, keyed |-> FALSE, refs |-> OursFirst]

AmoCrmChannel ==
    [needed |-> {"access_token"}, looked |-> {"access_token"}, address |-> {"endpoint"}, asks |-> TRUE,
     repeated |-> TRUE, keyed |-> FALSE, refs |-> OursFirst]

\* The other side tells repetitions by external_ref.
RehomeCrmChannel ==
    [needed |-> {"service_key"}, looked |-> {"service_key"}, address |-> {"endpoint"}, asks |-> FALSE,
     repeated |-> TRUE, keyed |-> TRUE, refs |-> OursFirst]

ChannelType == {"MOCK", "API", "TELEGRAM", "MAX", "EMAIL", "CRM"}
CrmTypes    == {"rehome", "amocrm", "bitrix24", "unknown"}

\* HttpChannelResolver.resolve.
Resolve(type, crm) ==
    CASE type = "MOCK"                    -> MockChannel
      [] type = "API"                     -> PartnerApiChannel
      [] type \in {"TELEGRAM", "MAX"}     -> BotApiChannel
      [] type = "EMAIL"                   -> EmailChannel
      [] type = "CRM" /\ crm = "rehome"   -> RehomeCrmChannel
      [] type = "CRM" /\ crm = "amocrm"   -> AmoCrmChannel
      [] OTHER                            -> Bitrix24Channel

Channels == {Resolve(t, c) : t \in ChannelType, c \in CrmTypes}

\* What may become of an attempt: no connection, 5xx, taken with the answer lost,
\* 4xx, 3xx (httpx follows no redirect), 2xx.
Fates == {"unreachable", "error", "lost", "refused", "moved", "taken"}

Answered == {"refused", "moved", "taken"}

\* Mutant: every answer but 5xx counts as a delivery.
Outcome_anyAnswer(fate) == IF fate \in Answered THEN "SENT" ELSE "FAILED"

\* ExternalServiceError or a status of 400 and more; SMTPException or OSError.
Outcome(fate) == IF fate \in {"taken", "moved"} THEN "SENT" ELSE "FAILED"

\* The attempt that is the last: answered, or the last there is.
Last(c, fates) ==
    IF ~c.repeated THEN 1
    ELSE Min({Attempts} \cup {i \in DOMAIN fates : fates[i] \in Answered})

\* The orders that the partner has got by the first n attempts.
Orders(c, fates, n) ==
    LET came == Cardinality({i \in 1 .. n : fates[i] \in {"lost", "taken"}})
    IN  IF c.keyed THEN Min({came, 1}) ELSE came

\* resolve and deliver.  An API without an endpoint raises KeyError in the resolver,
\* which _attempt_delivery does not catch.
Deliver(c, config, fates) ==
    LET last == Last(c, fates)
    IN  IF c = PartnerApiChannel /\ ~(c.address \subseteq config) THEN [report |-> "raised", orders |-> 0]
        ELSE IF ~(c.needed \subseteq config) THEN [report |-> "FAILED", orders |-> 0]
        ELSE IF c = MockChannel THEN [report |-> "SENT", orders |-> 1]
        ELSE [report |-> Outcome(fates[last]), orders |-> Orders(c, fates, last)]

\* healthcheck, with the fate of its question.
Health(c, config, fate) ==
    IF ~(c.looked \subseteq config) THEN "UNHEALTHY"
    ELSE IF ~c.asks \/ Outcome(fate) = "SENT" THEN "HEALTHY"
    ELSE IF fate = "refused" THEN "DEGRADED" ELSE "UNHEALTHY"

----------------------------------------------------------------------------
\* An answer of the partner: the references it may carry and a word.
Answers ==
    [ref : [{"request_ref", "external_ref"} -> BOOLEAN],
     word : {"accepted", "delivered", "rejected", "failed", "other", "no text"}]

INBOUND_STATUS(word) ==
    CASE word = "accepted"  -> {"ACK"}
      [] word = "delivered" -> {"DELIVERED"}
      [] word \in {"rejected", "failed"} -> {"FAILED"}
      [] OTHER -> {}

\* parse_inbound: {} stands for None.  The mock reads an outcome for the word.
ParseInbound(c, answer) ==
    LET there == {i \in DOMAIN c.refs : answer.ref[c.refs[i]]}
    IN  IF there = {} THEN {}
        ELSE {[by |-> c.refs[Min(there)], outcome |-> o] : o \in INBOUND_STATUS(answer.word)}

----------------------------------------------------------------------------
\* A message comes through only where there is an address; no mail is redirected.
Possible(c, config, fate) ==
    /\ c.address \subseteq config \/ fate = "unreachable"
    /\ c.repeated \/ fate # "moved"

Deliveries ==
    UNION {{[of |-> "delivery", channel |-> c, config |-> config, fates |-> fates] :
               config \in SUBSET (c.needed \cup c.address),
               fates \in [1 .. Attempts -> Fates]} : c \in Channels}

Questions ==
    {q \in Deliveries : \A i \in 1 .. Attempts : Possible(q.channel, q.config, q.fates[i])}
      \cup [of : {"answer"}, channel : Channels, answer : Answers]

Init == input = {}
Next == /\ input = {}
        /\ \E q \in Questions : input' = {q}
Spec == Init /\ [][Next]_input
----------------------------------------------------------------------------
\* Attempts that are lost on the way there or back, partners that refuse, configs
\* that lack a part: SENT is reported only of a request that the partner has (or
\* answered by a redirect, which nobody follows) and that nothing was missing for; a
\* repetition leaves a second order only with a receiver that was given no key, and
\* only after an answer was lost; a report of FAILED may hide an order for the same
\* reason alone.  A channel found healthy fails only for the address it delivers to
\* or for the network.  An answer is read by a reference it carries, by ours unless
\* the API prefers the partner's, and as a failure for two words alone.
DeliveriesReported ==
    \A q \in input :
        LET c == q.channel
        IN  /\ q.of = "delivery" =>
                 LET d == Deliver(c, q.config, q.fates)
                     lost == {i \in 1 .. Attempts : q.fates[i] = "lost"}
                 IN  /\ d.report = "SENT" =>
                           /\ d.orders > 0 \/ q.fates[Last(c, q.fates)] = "moved"
                           /\ c.needed \cup c.address \subseteq q.config
                     /\ d.orders > 1 => ~c.keyed /\ lost # {}
                     /\ d.report # "SENT" /\ d.orders > 0 => lost # {}
                     /\ d.report = "raised" => c = PartnerApiChannel
                     /\ Health(c, q.config, "taken") = "HEALTHY" /\ q.fates[1] = "taken" /\ d.report # "SENT"
                          => ~({"chat_id", "email"} \cap c.needed \subseteq q.config)
            /\ q.of = "answer" =>
                 \A update \in ParseInbound(c, q.answer) :
                     /\ q.answer.ref[update.by]
                     /\ update.by = "external_ref" /\ q.answer.ref["request_ref"] => c = PartnerApiChannel
                     /\ update.outcome = "FAILED" <=> q.answer.word \in {"rejected", "failed"}
============================================================================
