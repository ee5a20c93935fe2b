---------------------------- MODULE InboundProofs ----------------------------
(***************************************************************************)
(* Proofs about Inbound, for any partners, handlers, pollers and bounds.   *)
(*                                                                         *)
(* The invariants checked are inductive together.  Three things can happen *)
(* to what they speak of: something is said (Said), a message takes effect *)
(* (AcceptIInv), or the row alone is changed (RowIInv); all other steps    *)
(* only move calls and polls along (QuietIInv).                            *)
(***************************************************************************)
EXTENDS Inbound, RequestFsmProofs, FiniteSetTheorems, SequenceTheorems, TLAPS

IInv == TypeOK /\ AppliedOnce /\ OwnWord

\* The variables of the bounds and of the calls and polls are of their types.
MovesOK ==
    /\ calls \in [Handlers -> {0} \cup DOMAIN sent]
    /\ unseen \subseteq DOMAIN sent
    /\ polls \in [Pollers -> Poll]
    /\ \A q \in Pollers : polls[q].pc # "idle" => polls[q].mails # << >>
    /\ drops \in 0 .. MaxDrops /\ room \in 0 .. MaxSent

RowMoves ==
    \/ req'.status = req.status
    \/ req'.status \in Leads[req.status]
    \/ req.dispatch # 0 /\ req'.status = "FAILED_DISPATCH"

----------------------------------------------------------------------------
LEMMA Targets ==
    /\ \A r \in Replies \ {"estimate"} : PARTNER_STATUS_TARGET[r] \in RequestStatus
    /\ \A s \in {"DISPATCHED", "IN_PROGRESS", "MATCHING", "ASSIGNED", "CANCELLED",
                 "ACCEPTED_BY_USER", "FAILED_DISPATCH"} : s \in RequestStatus
  BY DEF Replies, PARTNER_STATUS_TARGET, RequestStatus, PreAcceptance, TERMINAL_STATUSES

\* The row after an allowed reply.
LEMMA AdvancedRow ==
    ASSUME NEW reply \in Replies, Allowed(reply), req \in RequestRow, req' = Advanced(reply)
    PROVE  /\ req' \in RequestRow /\ req'.partner = req.partner
           /\ req'.displaced = req.displaced
           /\ reply = "estimate" => req' = req
           /\ reply # "estimate" => req'.status = PARTNER_STATUS_TARGET[reply]
           /\ RowMoves
<1>1. CASE reply = "estimate"
  BY <1>1 DEF Advanced, RowMoves
<1>2. CASE reply # "estimate"
  <2>1. PARTNER_STATUS_TARGET[reply] \in RequestStatus /\ req.status \in RequestStatus
    BY <1>2, Targets DEF RequestRow
  <2>2. /\ req' \in RequestRow /\ req'.partner = req.partner
        /\ req'.displaced = req.displaced
        /\ req'.status = PARTNER_STATUS_TARGET[reply]
    BY <1>2, <2>1 DEF Advanced, RequestRow
  <2> QED BY <1>2, <2>1, <2>2, LeadsAlong DEF Allowed, RowMoves
<1> QED BY <1>1, <1>2

\* One more answer has been given.
LEMMA Said ==
    ASSUME NEW a \in Answer, sent \in Seq(Answer), sent' = Append(sent, a)
    PROVE  /\ sent' \in Seq(Answer) /\ Len(sent') \in DOMAIN sent' /\ sent'[Len(sent')] = a
           /\ DOMAIN sent \subseteq DOMAIN sent'
           /\ \A n \in DOMAIN sent : sent'[n] = sent[n]
           /\ Seq(DOMAIN sent) \subseteq Seq(DOMAIN sent')
           /\ Poll \subseteq Poll'
<1>1. /\ sent' \in Seq(Answer) /\ Len(sent') = Len(sent) + 1 /\ sent'[Len(sent) + 1] = a
      /\ \A n \in 1 .. Len(sent) : sent'[n] = sent[n]
      /\ Len(sent) \in Nat /\ DOMAIN sent = 1 .. Len(sent) /\ DOMAIN sent' = 1 .. Len(sent')
  BY AppendProperties, LenProperties
<1>2. DOMAIN sent \subseteq DOMAIN sent'
  BY <1>1
<1>3. \A s \in Seq(DOMAIN sent) : s \in Seq(DOMAIN sent')
  BY <1>2, SeqMonotonic
<1> QED BY <1>1, <1>2, <1>3 DEF Poll

\* Once-only effects and own word survive while the answers only grow and the
\* row keeps its partner or loses its work.
LEMMA QuietIInv ==
    ASSUME IInv, UNCHANGED <<req, sent, events, applied>>, MovesOK'
    PROVE  IInv' /\ RowMoves
<1>1. TypeOK'
  BY DEF IInv, TypeOK, MovesOK
<1>2. AppliedOnce' /\ OwnWord'
  BY DEF IInv, AppliedOnce, Effective, OwnWord
<1> QED BY <1>1, <1>2 DEF IInv, RowMoves

LEMMA Moves == ASSUME IInv PROVE MovesOK
  BY DEF IInv, TypeOK, MovesOK

\* Only the row changes: the status to one no partner's word is needed for, or the
\* partner alone.
LEMMA RowIInv ==
    ASSUME IInv, UNCHANGED <<sent, events, applied, calls, unseen, polls, drops, room>>,
           req' \in RequestRow, RowMoves, req'.displaced \/ req'.status \notin Working
    PROVE  IInv' /\ RowMoves
<1>1. TypeOK'
  BY DEF IInv, TypeOK, Poll
<1>2. AppliedOnce' /\ OwnWord'
  BY DEF IInv, AppliedOnce, Effective, OwnWord
<1> QED BY <1>1, <1>2 DEF IInv, RowMoves

\* A message that is new, from the partner and allowed takes effect.
LEMMA AcceptIInv ==
    ASSUME IInv, NEW n \in DOMAIN sent, n \notin events, Mine(n), Allowed(sent[n].reply),
           Accept(n), UNCHANGED sent, MovesOK'
    PROVE  IInv' /\ RowMoves
<1>1. /\ sent \in Seq(Answer) /\ sent[n] \in Answer /\ sent[n].reply \in Replies
      /\ events \subseteq DOMAIN sent /\ applied \in Seq(DOMAIN sent) /\ req \in RequestRow
      /\ DOMAIN sent = 1 .. Len(sent) /\ Len(sent) \in Nat
  <2>1. sent \in Seq(Answer) /\ events \subseteq DOMAIN sent
        /\ applied \in Seq(DOMAIN sent) /\ req \in RequestRow
    BY DEF IInv, TypeOK
  <2>2. DOMAIN sent = 1 .. Len(sent) /\ Len(sent) \in Nat
    BY <2>1, LenProperties
  <2>3. sent[n] \in Answer
    BY <2>1, <2>2, ElementOfSeq
  <2> QED BY <2>1, <2>2, <2>3 DEF Answer
<1>2. /\ req' \in RequestRow /\ req'.partner = req.partner /\ RowMoves
      /\ req'.displaced = req.displaced
      /\ sent[n].reply = "estimate" => req' = req
      /\ sent[n].reply # "estimate" => req'.status = PARTNER_STATUS_TARGET[sent[n].reply]
  BY <1>1, AdvancedRow DEF Accept
<1>3. /\ applied' \in Seq(DOMAIN sent) /\ Len(applied') = Len(applied) + 1
      /\ applied'[Len(applied) + 1] = n
      /\ \A i \in 1 .. Len(applied) : applied'[i] = applied[i]
      /\ Len(applied) \in Nat /\ DOMAIN applied = 1 .. Len(applied)
      /\ DOMAIN applied' = 1 .. Len(applied) + 1
  BY <1>1, AppendProperties, LenProperties DEF Accept
<1>4. TypeOK'
  BY <1>1, <1>2, <1>3 DEF MovesOK, TypeOK, Accept
<1>5. AppliedOnce'
  <2>1. IsFiniteSet(1 .. Len(sent))
    BY <1>1, FS_Interval
  <2>2. IsFiniteSet(events)
    BY <1>1, <2>1, FS_Subset
  <2>3. Cardinality(events \cup {n}) = Cardinality(events) + 1
    BY <2>2, FS_AddElement
  <2>4. Effective' = Effective \cup {n}
    BY <1>3 DEF Effective
  <2> QED BY <1>3, <2>3, <2>4 DEF IInv, AppliedOnce, Accept
<1>6. OwnWord'
  <2>1. CASE sent[n].reply = "estimate"
    BY <1>2, <2>1 DEF IInv, OwnWord
  <2>2. CASE sent[n].reply # "estimate"
    BY <1>2, <2>2 DEF OwnWord, Mine
  <2> QED BY <2>1, <2>2
<1> QED BY <1>2, <1>4, <1>5, <1>6 DEF IInv

----------------------------------------------------------------------------
\* Something is said, by whatever way: nothing remembered is lost.
LEMMA SaidIInv ==
    ASSUME IInv, NEW a \in Answer, sent' = Append(sent, a), room > 0, room' = room - 1,
           unseen' \subseteq unseen \cup {Len(sent')}, req' \in RequestRow,
           UNCHANGED <<events, applied, calls, polls, drops>>
    PROVE  TypeOK' /\ AppliedOnce'
<1>1. /\ sent \in Seq(Answer) /\ events \subseteq DOMAIN sent /\ applied \in Seq(DOMAIN sent)
      /\ calls \in [Handlers -> {0} \cup DOMAIN sent] /\ unseen \subseteq DOMAIN sent
      /\ polls \in [Pollers -> Poll]
      /\ \A q \in Pollers : polls[q].pc # "idle" => polls[q].mails # << >>
      /\ drops \in 0 .. MaxDrops /\ room \in 0 .. MaxSent
  BY DEF IInv, TypeOK
<1>2. /\ sent' \in Seq(Answer) /\ Len(sent') \in DOMAIN sent'
      /\ DOMAIN sent \subseteq DOMAIN sent'
      /\ Seq(DOMAIN sent) \subseteq Seq(DOMAIN sent') /\ Poll \subseteq Poll'
  BY <1>1, Said
<1>3. room' \in 0 .. MaxSent
  BY <1>1, BoundsAssumption
<1>4. calls' \in [Handlers -> {0} \cup DOMAIN sent']
  BY <1>1, <1>2
<1>5. polls' \in [Pollers -> Poll']
  BY <1>1, <1>2
<1>6. unseen' \subseteq DOMAIN sent' /\ events' \subseteq DOMAIN sent'
      /\ applied' \in Seq(DOMAIN sent')
  BY <1>1, <1>2
<1>7. TypeOK'
  BY <1>1, <1>2, <1>3, <1>4, <1>5, <1>6 DEF TypeOK
<1> QED BY <1>7 DEF IInv, AppliedOnce, Effective

LEMMA SendIInv ==
    ASSUME IInv, NEW p \in Partners, NEW via \in {"api", "mail"}, NEW reply \in Replies,
           Send(p, via, reply)
    PROVE  IInv' /\ RowMoves
<1> DEFINE a == [via |-> via, from |-> p, reply |-> reply]
<1>1. a \in Answer
  BY DEF Answer
<1>2. sent \in Seq(Answer) /\ req \in RequestRow
  BY DEF IInv, TypeOK
<1>3. sent' = Append(sent, a)
  BY DEF Send
<1> HIDE DEF a
<1>4. TypeOK' /\ AppliedOnce'
  BY <1>1, <1>2, <1>3, SaidIInv DEF Send
<1>5. DOMAIN sent \subseteq DOMAIN sent' /\ \A n \in DOMAIN sent : sent'[n] = sent[n]
  BY <1>1, <1>2, <1>3, Said
<1>6. OwnWord'
  BY <1>5 DEF IInv, OwnWord, Send
<1> QED BY <1>4, <1>6 DEF IInv, RowMoves, Send

LEMMA PortalIInv ==
    ASSUME IInv, NEW reply \in Replies, Portal(reply)
    PROVE  IInv' /\ RowMoves
<1> DEFINE a == [via |-> "portal", from |-> req.partner, reply |-> reply]
<1>1. sent \in Seq(Answer) /\ req \in RequestRow
  BY DEF IInv, TypeOK
<1>2. a \in Answer /\ a.from = req.partner /\ a.reply = reply
  BY <1>1 DEF Answer, RequestRow
<1>3. sent' = Append(sent, a)
  BY DEF Portal
<1> HIDE DEF a
<1>4. /\ req' \in RequestRow /\ req'.partner = req.partner /\ RowMoves
      /\ req'.status = PARTNER_STATUS_TARGET[reply] /\ reply # "estimate"
  BY <1>1, AdvancedRow DEF Portal
<1>5. TypeOK' /\ AppliedOnce'
  BY <1>2, <1>3, <1>4, SaidIInv DEF Portal
<1>6. Len(sent') \in DOMAIN sent' /\ sent'[Len(sent')] = a
  BY <1>1, <1>2, <1>3, Said
<1>7. OwnWord'
  BY <1>2, <1>4, <1>6 DEF OwnWord
<1> QED BY <1>4, <1>5, <1>7 DEF IInv

LEMMA ReceiveIInv ==
    ASSUME IInv, NEW h \in Handlers, NEW n \in DOMAIN sent, Receive(h, n)
    PROVE  IInv' /\ RowMoves
<1>1. MovesOK'
  BY Moves DEF MovesOK, Receive, Poll
<1> QED BY <1>1, QuietIInv DEF Receive

LEMMA ProcessIInv ==
    ASSUME IInv, NEW h \in Handlers, Process(h)
    PROVE  IInv' /\ RowMoves
<1>1. MovesOK'
  BY Moves DEF MovesOK, Process, Poll
<1>2. calls[h] \in DOMAIN sent
  BY Moves DEF MovesOK, Process
<1>3. CASE Mine(calls[h]) /\ Allowed(sent[calls[h]].reply) /\ calls[h] \notin events
  BY <1>1, <1>2, <1>3, AcceptIInv DEF Process
<1>4. CASE ~(Mine(calls[h]) /\ Allowed(sent[calls[h]].reply) /\ calls[h] \notin events)
  BY <1>1, <1>4, QuietIInv DEF Process, Nothing
<1> QED BY <1>3, <1>4

----------------------------------------------------------------------------
LEMMA SearchIInv ==
    ASSUME IInv, NEW q \in Pollers, Search(q)
    PROVE  IInv' /\ RowMoves
<1>1. MovesOK /\ sent \in Seq(Answer)
  BY Moves DEF IInv, TypeOK
<1>2. DOMAIN sent = 1 .. Len(sent) /\ Len(sent) \in Nat
  BY <1>1, LenProperties
<1>3. IsFiniteSet(1 .. Len(sent))
  BY <1>2, FS_Interval
<1>4. IsFiniteSet(unseen)
  BY <1>1, <1>2, <1>3, FS_Subset DEF MovesOK
<1>5. Cardinality(unseen) \in Nat /\ Cardinality(unseen) # 0
  BY <1>4, FS_CardinalityType, FS_EmptySet DEF Search
<1>6. PICK mails \in [1 .. Cardinality(unseen) -> unseen] :
        polls' = [polls EXCEPT ![q] = [pc |-> "fetch", mails |-> mails]]
  BY DEF Search
<1>7. mails \in Seq(unseen) /\ mails # << >>
  <2>1. mails \in Seq(unseen)
    BY <1>5, SeqDef
  <2>2. DOMAIN mails = 1 .. Cardinality(unseen) /\ 1 \in 1 .. Cardinality(unseen)
    BY <1>5
  <2>3. DOMAIN << >> = {}
    OBVIOUS
  <2> QED BY <2>1, <2>2, <2>3
<1>8. mails \in Seq(DOMAIN sent)
  BY <1>1, <1>7, SeqMonotonic DEF MovesOK
<1>9. MovesOK'
  BY <1>1, <1>6, <1>7, <1>8 DEF MovesOK, Search, Poll
<1> QED BY <1>9, QuietIInv DEF Search

LEMMA FetchIInv ==
    ASSUME IInv, NEW q \in Pollers, Fetch(q)
    PROVE  IInv' /\ RowMoves
<1>1. MovesOK'
  BY Moves DEF MovesOK, Fetch, Poll
<1> QED BY <1>1, QuietIInv DEF Fetch

LEMMA HandleMailIInv ==
    ASSUME IInv, NEW q \in Pollers, HandleMail(q)
    PROVE  IInv' /\ RowMoves
<1> DEFINE n == Head(polls[q].mails)
           rest == Tail(polls[q].mails)
           next == [polls[q] EXCEPT !.mails = rest]
<1>1. MovesOK /\ polls[q] \in Poll /\ polls[q].mails # << >> /\ polls[q].pc = "handle"
  BY Moves DEF MovesOK, HandleMail
<1>2. n \in DOMAIN sent /\ rest \in Seq(DOMAIN sent)
  <2>1. polls[q].mails \in Seq(DOMAIN sent)
    BY <1>1 DEF Poll
  <2> QED BY <1>1, <2>1, HeadTailProperties
<1>3. Idle \in Poll /\ Idle.pc = "idle" /\ next \in Poll /\ next.mails = rest
  <2>1. next = [pc |-> polls[q].pc, mails |-> rest]
    BY <1>1 DEF Poll
  <2> QED BY <1>1, <1>2, <2>1, EmptySeq DEF Idle, Poll
<1>4. \/ polls' = [polls EXCEPT ![q] = Idle]
      \/ polls' = [polls EXCEPT ![q] = next] /\ rest # << >>
  BY DEF HandleMail
<1>5. \/ n \notin events /\ Mine(n) /\ Allowed(sent[n].reply) /\ Accept(n)
      \/ Nothing
  BY DEF HandleMail
<1>6. UNCHANGED <<sent, calls, unseen, drops, room>>
  BY DEF HandleMail
<1> HIDE DEF n, rest, next
<1>7. MovesOK'
  BY <1>1, <1>3, <1>4, <1>6 DEF MovesOK, Poll
<1> QED BY <1>2, <1>5, <1>6, <1>7, AcceptIInv, QuietIInv DEF Nothing

LEMMA DropIInv ==
    ASSUME IInv, Drop
    PROVE  IInv' /\ RowMoves
<1>1. Idle \in Poll /\ Idle.pc = "idle"
  BY EmptySeq DEF Idle, Poll
<1>2. MovesOK /\ drops' \in 0 .. MaxDrops
  BY Moves, BoundsAssumption DEF MovesOK, Drop
<1>3. /\ calls' = calls \/ \E h \in Handlers : calls' = [calls EXCEPT ![h] = 0]
      /\ polls' = polls \/ \E q \in Pollers : polls' = [polls EXCEPT ![q] = Idle]
      /\ UNCHANGED <<sent, unseen, room>>
  BY DEF Drop
<1>4. calls' \in [Handlers -> {0} \cup DOMAIN sent]
  BY <1>2, <1>3 DEF MovesOK
<1>5. /\ polls' \in [Pollers -> Poll]
      /\ \A q \in Pollers : polls'[q].pc # "idle" => polls'[q].mails # << >>
  BY <1>1, <1>2, <1>3 DEF MovesOK
<1>6. MovesOK'
  BY <1>2, <1>3, <1>4, <1>5 DEF MovesOK, Poll
<1> QED BY <1>6, QuietIInv DEF Drop

LEMMA RedispatchIInv ==
    ASSUME IInv, NEW p \in Partners, Redispatch(p)
    PROVE  IInv' /\ RowMoves
<1>1. req \in RequestRow /\ req.status \in RequestStatus /\ req.dispatch + 1 \in Nat \ {0}
  BY DEF IInv, TypeOK, RequestRow
<1>2. req' \in RequestRow /\ req'.status = "DISPATCHED"
  <2>1. "DISPATCHED" \in RequestStatus
    BY Targets
  <2> QED BY <1>1, <2>1 DEF Redispatch, RequestRow
<1>3. /\ CanTransition("DISPATCHED", "MATCHING") /\ CanTransition("MATCHING", "ASSIGNED")
      /\ CanTransition("ASSIGNED", "DISPATCHED") /\ CanTransition("FAILED_DISPATCH", "MATCHING")
  BY DEF CanTransition, BaseTransitions
<1>4. "DISPATCHED" \in Leads[req.status]
  BY <1>1, <1>3, Targets, LeadsAlong DEF Redispatch
<1>5. RowMoves /\ req'.status \notin Working
  BY <1>2, <1>4 DEF RowMoves, Working
<1> QED BY <1>2, <1>5, RowIInv DEF Redispatch

\* What a late drain writes needs no partner's word: it is FAILED_DISPATCH, or
\* another partner over work that stands displaced from then on.
LEMMA LateDrainIInv ==
    ASSUME IInv, LateDrain
    PROVE  IInv' /\ RowMoves
<1>1. req \in RequestRow /\ req.dispatch # 0 /\ req.drained + 1 \in Nat
  BY DEF IInv, TypeOK, RequestRow
<1>2. CASE req' = [req EXCEPT !.status = "FAILED_DISPATCH", !.drained = @ + 1]
  <2>1. req' \in RequestRow /\ req'.status = "FAILED_DISPATCH"
    BY <1>1, <1>2, Targets DEF RequestRow
  <2>2. RowMoves /\ req'.status \notin Working
    BY <1>1, <2>1 DEF RowMoves, Working
  <2> QED BY <2>1, <2>2, RowIInv DEF LateDrain
<1>3. ASSUME NEW p \in Partners \ {req.partner},
             req' = [req EXCEPT !.partner = p, !.drained = @ + 1,
                                !.displaced = @ \/ req.status \in Working]
      PROVE  IInv' /\ RowMoves
  <2>1. req' \in RequestRow /\ req'.status = req.status
    BY <1>1, <1>3 DEF RequestRow
  <2>2. req'.displaced \/ req'.status \notin Working
    BY <1>1, <1>3, <2>1 DEF RequestRow
  <2> QED BY <2>1, <2>2, RowIInv DEF RowMoves, LateDrain
<1> QED BY <1>2, <1>3 DEF LateDrain

LEMMA UserActsIInv ==
    ASSUME IInv, NEW s \in {"CANCELLED", "ACCEPTED_BY_USER"}, UserActs(s)
    PROVE  IInv' /\ RowMoves
<1>1. req \in RequestRow /\ req.status \in RequestStatus /\ s \in RequestStatus
  BY Targets DEF IInv, TypeOK, RequestRow
<1>2. req' \in RequestRow /\ req'.status = s
  BY <1>1 DEF UserActs, RequestRow
<1>3. s \in Leads[req.status]
  BY <1>1, LeadsAlong DEF UserActs
<1>4. RowMoves /\ req'.status \notin Working
  BY <1>2, <1>3 DEF RowMoves, Working
<1> QED BY <1>2, <1>4, RowIInv DEF UserActs

----------------------------------------------------------------------------
LEMMA InitIInv == ASSUME Init PROVE IInv
<1>1. PICK p \in Partners :
        /\ req.status \in {"DISPATCHED", "IN_PROGRESS"}
        /\ req = First(p, req.status)
        /\ \/ req.status = "DISPATCHED" /\ sent = << >>
           \/ req.status = "IN_PROGRESS" /\ sent = Begun(p)
  BY DEF Init, First
<1>2. req \in RequestRow /\ req.partner = p
  <2>1. First(p, req.status) \in RequestRow /\ First(p, req.status).partner = p
    <3>1. req.status \in RequestStatus
      BY <1>1, Targets
    <3> QED BY <3>1 DEF RequestRow, First
  <2> QED BY <1>1, <2>1
<1> DEFINE a == [via |-> "portal", from |-> p, reply |-> "in_progress"]
<1>3. a \in Answer /\ Begun(p) = << a >>
  BY DEF Answer, Replies, PARTNER_STATUS_TARGET, Begun
<1> HIDE DEF a
<1>4. sent \in Seq(Answer)
  <2>1. << a >> \in Seq(Answer)
    BY <1>3
  <2> QED BY <1>1, <1>3, <2>1, EmptySeq
<1>5. Idle \in Poll /\ Idle.pc = "idle"
  BY EmptySeq DEF Idle, Poll
<1>6. room \in 0 .. MaxSent
  <2>1. Len(sent) \in {0, 1}
    BY <1>1, <1>3
  <2>2. room = MaxSent - Len(sent) /\ MaxSent \in Nat /\ MaxSent >= 1
    BY BoundsAssumption DEF Init
  <2> QED BY <2>1, <2>2
<1>7. TypeOK
  BY <1>2, <1>4, <1>5, <1>6, BoundsAssumption DEF Init, TypeOK
<1>8. AppliedOnce
  BY FS_EmptySet DEF Init, AppliedOnce, Effective
<1>9. OwnWord
  <2>1. CASE req.status = "DISPATCHED"
    BY <2>1 DEF OwnWord, Working
  <2>2. CASE req.status = "IN_PROGRESS"
    <3>1. sent = << a >> /\ req.partner = p
      BY <1>1, <1>2, <1>3, <2>2
    <3>2. 1 \in DOMAIN sent /\ sent[1] = a
      BY <3>1
    <3>3. a.from = p /\ a.reply = "in_progress"
          /\ PARTNER_STATUS_TARGET["in_progress"] = "IN_PROGRESS"
      BY DEF a, PARTNER_STATUS_TARGET
    <3> QED BY <2>2, <3>1, <3>2, <3>3 DEF OwnWord
  <2> QED BY <1>1, <2>1, <2>2
<1> QED BY <1>7, <1>8, <1>9 DEF IInv

LEMMA StepIInv ==
    ASSUME IInv, [Next]_vars
    PROVE  IInv' /\ RowMoves
<1>1. CASE Next
  BY <1>1, SendIInv, ReceiveIInv, ProcessIInv, PortalIInv, SearchIInv, FetchIInv,
     HandleMailIInv, RedispatchIInv, LateDrainIInv, UserActsIInv, DropIInv DEF Next
<1>2. CASE UNCHANGED vars
  <2>1. MovesOK'
    BY <1>2, Moves DEF vars, MovesOK, Poll
  <2> QED BY <1>2, <2>1, QuietIInv DEF vars
<1> QED BY <1>1, <1>2

LEMMA InboundInvariant == Spec => []IInv
<1>1. Init => IInv
  BY InitIInv
<1>2. IInv /\ [Next]_vars => IInv'
  BY StepIInv
<1> QED BY <1>1, <1>2, PTL DEF Spec

\* The type invariant of the inbound channels.
THEOREM TypeCorrect == Spec => []TypeOK
<1>1. IInv => TypeOK
  BY DEF IInv
<1> QED BY <1>1, InboundInvariant, PTL

\* However many copies of however many messages are in progress and wherever calls
\* die: a message takes effect once, and is remembered exactly when it has.
THEOREM AppliedOnceHolds == Spec => []AppliedOnce
<1>1. IInv => AppliedOnce
  BY DEF IInv
<1> QED BY <1>1, InboundInvariant, PTL

\* Only the word of the partner who has the request accepts, begins or ends the
\* work, however late the answers of the others arrive, until a late drain puts
\* another partner in his place.
THEOREM OwnWordHolds == Spec => []OwnWord
<1>1. IInv => OwnWord
  BY DEF IInv
<1> QED BY <1>1, InboundInvariant, PTL

\* The table of the module and that of the lifecycle it follows.
LEMMA SameLeads == \A s \in RequestStatus : Lifecycle!Leads[s] = Leads[s]
<1>1. Lifecycle!TERMINAL_STATUSES = TERMINAL_STATUSES
  BY DEF Lifecycle!TERMINAL_STATUSES, TERMINAL_STATUSES
<1>2. Lifecycle!RequestStatus = RequestStatus
  BY <1>1 DEF Lifecycle!RequestStatus, RequestStatus, Lifecycle!PreAcceptance, PreAcceptance
<1>3. Lifecycle!BaseTransitions = BaseTransitions
  BY DEF Lifecycle!BaseTransitions, BaseTransitions
<1>4. \A a, b : Lifecycle!CanTransition(a, b) = CanTransition(a, b)
  BY <1>1, <1>2, <1>3 DEF Lifecycle!CanTransition, CanTransition
<1>5. \A S : Lifecycle!Hops(S) = Hops(S)
  BY <1>2, <1>4 DEF Lifecycle!Hops, Hops
<1>6. ASSUME NEW s \in RequestStatus PROVE Lifecycle!Leads[s] = Leads[s]
  <2>1. /\ Leads[s] = Hops(Hops(Hops(Hops({s}))))
        /\ Lifecycle!Leads[s]
             = Lifecycle!Hops(Lifecycle!Hops(Lifecycle!Hops(Lifecycle!Hops({s}))))
    BY <1>2 DEF Lifecycle!Leads, Leads
  <2> QED BY <2>1, <1>5
<1> QED BY <1>6

\* Late, doubled and reordered answers move the request along its lifecycle, but for
\* the late FAILED_DISPATCH of a drain.
THEOREM FollowsLifecycleHolds == Spec => FollowsLifecycle
<1>1. IInv /\ [Next]_vars => [Lifecycle!Move \/ Lifecycle!StaleFailure]_(req.status)
  <2> SUFFICES ASSUME IInv, [Next]_vars, req'.status # req.status
               PROVE  Lifecycle!Move \/ Lifecycle!StaleFailure
    OBVIOUS
  <2>1. \/ req'.status \in Leads[req.status]
        \/ req.dispatch # 0 /\ req'.status = "FAILED_DISPATCH"
    BY StepIInv DEF RowMoves
  <2>2. req.status \in RequestStatus
    BY DEF IInv, TypeOK, RequestRow
  <2> QED BY <2>1, <2>2, SameLeads DEF Lifecycle!Move, Lifecycle!StaleFailure
<1> QED BY <1>1, InboundInvariant, PTL DEF Spec, FollowsLifecycle
=============================================================================
