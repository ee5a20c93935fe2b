--------------------------- MODULE DispatchProofs ---------------------------
(***************************************************************************)
(* Proofs about Dispatch, for any partners, channels, processes and bounds.*)
(*                                                                         *)
(* Three facts carry everything.  At most one process holds the row, and   *)
(* at most one each message, which is pending (Locks).  Who holds the row  *)
(* has counted all the attempts there are (Counted) and, unless it is the  *)
(* endpoint's own drain, has read the row as it is (Knows).  A partner, a  *)
(* dispatch and an accept deadline, once there, stay (Rises).              *)
(***************************************************************************)
EXTENDS Dispatch, RequestFsmProofs, SequenceTheorems, TLAPS

Row == [no : Nat, msg : Nat, ok : BOOLEAN]
Box == [kind : {"dispatch", "partner_fallback"}, status : {"PENDING", "DONE", "FAILED"},
        tries : 0 .. MaxTries, error : BOOLEAN]
Order == [partner : Partners, key : Nat, dispatch : Nat]

Tx == [job : {"none", "inline", "dispatch", "partner_fallback", "scan"},
       pc : {"idle", "lock", "load", "deliver", "commit"},
       msg : Nat, seen : RequestRow, work : RequestRow, count : Nat, tried : Seq(Row)]

Types ==
    /\ req \in RequestRow /\ attempts \in Seq(Row) /\ outbox \in Seq(Box)
    /\ tx \in [Processes -> Tx]
    /\ received \subseteq Order /\ elapsed \in 0 .. req.dispatched /\ declined \subseteq Partners
    /\ byHand \in 0 .. req.dispatched

\* The transactions that hold the row, and those that hold their message.
HoldsRow(t) == t.pc \in {"deliver", "commit"}
HoldsMessage(t) == t.pc \in {"load", "deliver", "commit"} /\ t.job # "scan"

\* A transaction is on behalf of a message of its kind, or of none.
OnBehalf(t, box) ==
    /\ t.job = "none" <=> t.pc = "idle"
    /\ t.job = "none" => t.msg = 0
    /\ t.pc = "lock" => t.job = "inline"
    /\ t.pc = "load" => t.job \in {"inline", "dispatch", "partner_fallback"}
    /\ t.job = "scan" => t.msg = 0 /\ HoldsRow(t)
    /\ t.job \in {"inline", "dispatch", "partner_fallback"} =>
         /\ t.msg \in DOMAIN box
         /\ box[t.msg].kind = IF t.job = "inline" THEN "dispatch" ELSE t.job

\* Its attempts go on where the n committed ones stop, and none but the last has
\* succeeded.
Counted(t, n) ==
    HoldsRow(t) =>
        /\ t.count = n
        /\ t.pc = "commit" => t.tried # << >>
        /\ \A i \in DOMAIN t.tried :
             /\ t.tried[i].no = t.count + i /\ t.tried[i].msg = t.msg
             /\ t.tried[i].ok <=> (t.pc = "commit" /\ i = Len(t.tried))

\* What it has read, seen, and what it has made of it, work.
Knows(t, row) ==
    /\ HoldsRow(t) /\ t.job # "inline" => t.seen = row
    /\ t.job = "inline" =>
         /\ t.seen.status = "DISPATCHED" /\ t.seen.dispatched \in 1 .. row.dispatched
         /\ t.seen.partner # NoPartner /\ row.partner # NoPartner
         /\ t.seen.sla.accept # 0 => row.sla.accept # 0
    /\ HoldsRow(t) \/ t.job = "inline" =>
         /\ t.job \in {"dispatch", "inline"} =>
              t.work.status = t.seen.status /\ t.work.dispatched = t.seen.dispatched
         /\ t.job \in {"partner_fallback", "scan"} =>
              /\ t.seen.status = IF t.job = "scan" THEN "DISPATCHED" ELSE "MATCHING"
              /\ t.work.status = "DISPATCHED" /\ t.work.dispatched = t.seen.dispatched + 1
              /\ t.work.partner # NoPartner
         /\ t.job = "scan" => t.seen.partner # NoPartner
         /\ t.work.dispatched # 0
         /\ t.work.sla.perform = t.seen.sla.perform
         /\ IF t.pc = "commit"
            THEN t.work.sla.accept = t.work.dispatched /\ t.work.partner # NoPartner
            ELSE t.work.sla = t.seen.sla /\ (t.seen.partner # NoPartner => t.work.partner # NoPartner)

TxInv ==
    \A p \in Processes :
        OnBehalf(tx[p], outbox) /\ Counted(tx[p], Len(attempts)) /\ Knows(tx[p], req)

Locks ==
    /\ \A p, q \in Processes : HoldsRow(tx[p]) /\ HoldsRow(tx[q]) => p = q
    /\ \A p, q \in Processes :
         HoldsMessage(tx[p]) /\ HoldsMessage(tx[q]) /\ tx[p].msg = tx[q].msg => p = q
    /\ \A p \in Processes : HoldsMessage(tx[p]) => outbox[tx[p].msg].status = "PENDING"

\* The row: who has been dispatched has a number, and a deadline has a partner.
RowOK(row, box) ==
    /\ row.status = "DISPATCHED" \/ (\E m \in DOMAIN box : box[m].kind = "dispatch") =>
         row.dispatched # 0
    /\ row.sla.accept # 0 => row.partner # NoPartner

Delivers ==
    \A i \in DOMAIN attempts :
        attempts[i].ok /\ attempts[i].msg # 0 =>
            attempts[i].msg \in DOMAIN outbox /\ outbox[attempts[i].msg].status = "DONE"

Tries == \A m \in DOMAIN outbox : outbox[m].status = "PENDING" => outbox[m].tries < MaxTries

IInv ==
    /\ Types /\ TxInv /\ Locks /\ RowOK(req, outbox) /\ Delivers /\ Tries
    /\ AttemptNumbersGapless /\ MessageDeliveredOnce

\* What no commit takes back.
Rises(r, s) ==
    /\ r.dispatched <= s.dispatched
    /\ r.partner # NoPartner => s.partner # NoPartner
    /\ r.sla.accept # 0 => s.sla.accept # 0

----------------------------------------------------------------------------
\* The type invariant of the module follows.
LEMMA TypesTypeOK == ASSUME Types, TxInv PROVE TypeOK
<1>1. ASSUME NEW p \in Processes PROVE tx[p].msg \in 0 .. Len(outbox)
  <2>1. tx[p] \in Tx /\ DOMAIN outbox = 1 .. Len(outbox) /\ Len(outbox) \in Nat
    BY LenProperties DEF Types
  <2>2. tx[p].job = "none" => tx[p].msg \in 0 .. Len(outbox)
    BY <2>1 DEF TxInv, OnBehalf, Tx
  <2> QED BY <2>1, <2>2 DEF TxInv, OnBehalf, Tx
<1> QED BY <1>1 DEF Types, TypeOK, Tx, Row, Box, Order

----------------------------------------------------------------------------
\* What the steps make of a row.

LEMMA Statuses ==
    /\ \A s \in {"ASSIGNED", "DISPATCHED", "MATCHING", "FAILED_DISPATCH", "CLASSIFIED"} :
         s \in RequestStatus
    /\ ASSIGNABLE \subseteq RequestStatus
    /\ \A r \in Replies : PARTNER_STATUS_TARGET[r] \in {"ACCEPTED", "MATCHING", "IN_PROGRESS", "DONE"}
    /\ {"ACCEPTED", "MATCHING", "IN_PROGRESS", "DONE"} \subseteq RequestStatus
  BY InputsAssumption
  DEF RequestStatus, PreAcceptance, TERMINAL_STATUSES, ASSIGNABLE, PARTNER_STATUS_TARGET

\* A transition touches the status and, into DISPATCHED, the number of the dispatch.
LEMMA TransitionedRow ==
    ASSUME NEW r \in RequestRow, NEW s \in RequestStatus
    PROVE  /\ Transitioned(r, s) \in RequestRow /\ Transitioned(r, s).status = s
           /\ Transitioned(r, s).partner = r.partner /\ Transitioned(r, s).chain = r.chain
           /\ Transitioned(r, s).sla = r.sla
           /\ Transitioned(r, s).dispatched
                = IF s = "DISPATCHED" THEN r.dispatched + 1 ELSE r.dispatched
<1>1. CASE s = "DISPATCHED"
  <2>1. Transitioned(r, s) = [r EXCEPT !.status = s, !.dispatched = r.dispatched + 1]
    BY <1>1 DEF Transitioned, RequestRow
  <2>2. r.dispatched + 1 \in Nat
    BY DEF RequestRow
  <2>3. [r EXCEPT !.status = s, !.dispatched = r.dispatched + 1] \in RequestRow
    BY <2>2 DEF RequestRow
  <2> QED BY <1>1, <2>1, <2>3 DEF RequestRow
<1>2. CASE s # "DISPATCHED"
  <2>1. Transitioned(r, s) = [r EXCEPT !.status = s]
    BY <1>2 DEF Transitioned
  <2> QED BY <1>2, <2>1 DEF RequestRow
<1> QED BY <1>1, <1>2

LEMMA RedispatchedRow ==
    ASSUME NEW r \in RequestRow, r.chain # << >>
    PROVE  /\ Redispatched(r) \in RequestRow /\ Redispatched(r).status = "DISPATCHED"
           /\ Redispatched(r).partner \in Partners /\ Redispatched(r).sla = r.sla
           /\ Redispatched(r).dispatched = r.dispatched + 1
<1> DEFINE next == [r EXCEPT !.partner = Head(r.chain), !.chain = Tail(r.chain)]
<1>1. r.chain \in Seq(Partners) /\ Head(r.chain) \in Partners /\ Tail(r.chain) \in Seq(Partners)
  BY HeadTailProperties DEF RequestRow
<1>2. /\ next \in RequestRow /\ next.partner \in Partners /\ next.sla = r.sla
      /\ next.dispatched = r.dispatched
  BY <1>1 DEF RequestRow
<1> HIDE DEF next
<1>3. Redispatched(r) = Transitioned(next, "DISPATCHED")
  BY DEF Redispatched, next
<1>4. "DISPATCHED" \in RequestStatus
  BY Statuses
<1>5. /\ Transitioned(next, "DISPATCHED") \in RequestRow
      /\ Transitioned(next, "DISPATCHED").status = "DISPATCHED"
      /\ Transitioned(next, "DISPATCHED").partner = next.partner
      /\ Transitioned(next, "DISPATCHED").sla = next.sla
      /\ Transitioned(next, "DISPATCHED").dispatched = next.dispatched + 1
  BY <1>2, <1>4, TransitionedRow
<1> QED BY <1>2, <1>3, <1>5

LEMMA DeliveredRow ==
    ASSUME NEW r \in RequestRow, NEW q \in Partners
    PROVE  /\ Delivered(r, q) \in RequestRow /\ Delivered(r, q).status = r.status
           /\ Delivered(r, q).partner = q /\ Delivered(r, q).dispatched = r.dispatched
           /\ Delivered(r, q).sla.accept = r.dispatched
           /\ Delivered(r, q).sla.perform = r.sla.perform
  BY DEF Delivered, RequestRow, Sla

\* Every place of a route is a channel of a partner.
LEMMA RoutePartners ==
    ASSUME NEW r \in RequestRow
    PROVE  Len(Route(r)) \in Nat /\ \A k \in 1 .. Len(Route(r)) : Route(r)[k] \in Partners
<1> DEFINE c == Candidates(r)
<1>1. c \in Seq(Partners)
  <2>1. r.chain \in Seq(Partners) /\ r.partner \in Partners \cup {NoPartner}
    BY DEF RequestRow
  <2>2. CASE r.partner = NoPartner
    BY <2>1, <2>2, ConcatProperties, EmptySeq DEF Candidates
  <2>3. CASE r.partner \in Partners
    <3>1. <<r.partner>> \in Seq(Partners) /\ r.partner # NoPartner
      BY <2>3, ProcessesAssumption
    <3> QED BY <2>1, <3>1, ConcatProperties DEF Candidates
  <2> QED BY <2>1, <2>2, <2>3
<1>2. Len(c) \in Nat /\ DOMAIN c = 1 .. Len(c)
  BY <1>1, LenProperties
<1> HIDE DEF c
<1>3. Channels \in Nat /\ Channels * Len(c) \in Nat
  <2>1. \A a, b \in Nat : a * b \in Nat
    OBVIOUS
  <2> QED BY <1>2, <2>1, BoundsAssumption
<1>4. /\ Route(r) = [j \in 1 .. Channels * Len(c) |-> c[(j - 1) \div Channels + 1]]
      /\ Len(Route(r)) = Channels * Len(c)
  BY <1>3 DEF Route, c
<1>5. ASSUME NEW k \in 1 .. Len(Route(r)) PROVE Route(r)[k] \in Partners
  <2>1. k \in 1 .. Channels * Len(c) /\ Channels # 0
    BY <1>3, <1>4
  <2>2. (k - 1) \div Channels + 1 \in 1 .. Len(c)
    BY <1>2, <1>3, <2>1
  <2> QED BY <1>1, <1>2, <1>4, <2>1, <2>2, ElementOfSeq
<1> QED BY <1>3, <1>4, <1>5

----------------------------------------------------------------------------
\* What the steps make of the outbox.

\* Where the outbox has grown, every message that was there has kept its kind, the error
\* once noted, and its status, unless it is the one of number m.
Grows(old, new, m) ==
    /\ new \in Seq(Box) /\ DOMAIN old \subseteq DOMAIN new
    /\ \A n \in DOMAIN old : new[n].kind = old[n].kind /\ (old[n].error => new[n].error)
    /\ \A n \in DOMAIN old \ {m} : new[n].status = old[n].status
    /\ \A n \in DOMAIN new : n \notin DOMAIN old => new[n].status = "PENDING"
    /\ \A n \in DOMAIN new \ {m} : new[n].status = "PENDING" => new[n].tries < MaxTries

LEMMA SameBox == ASSUME outbox \in Seq(Box), Tries PROVE Grows(outbox, outbox, 0)
  BY DEF Grows, Tries

LEMMA AppendedBox ==
    ASSUME outbox \in Seq(Box), Tries, NEW kind \in {"dispatch", "partner_fallback"}
    PROVE  /\ Grows(outbox, Append(outbox, Message(kind)), 0)
           /\ \A n \in DOMAIN Append(outbox, Message(kind)) : n \notin DOMAIN outbox =>
                Append(outbox, Message(kind))[n] = Message(kind)
           /\ Len(Append(outbox, Message(kind))) \in DOMAIN Append(outbox, Message(kind))
           /\ Append(outbox, Message(kind))[Len(Append(outbox, Message(kind)))] = Message(kind)
<1> DEFINE new == Append(outbox, Message(kind))
<1>1. Message(kind) \in Box /\ Message(kind).status = "PENDING" /\ Message(kind).tries < MaxTries
  BY BoundsAssumption DEF Message, Box
<1>2. /\ new \in Seq(Box) /\ Len(new) = Len(outbox) + 1 /\ new[Len(outbox) + 1] = Message(kind)
      /\ \A n \in 1 .. Len(outbox) : new[n] = outbox[n]
      /\ Len(outbox) \in Nat /\ DOMAIN outbox = 1 .. Len(outbox)
      /\ DOMAIN new = 1 .. Len(new)
  BY <1>1, AppendProperties, LenProperties
<1> HIDE DEF new
<1>3. \A n \in DOMAIN new : n \in DOMAIN outbox \/ n = Len(outbox) + 1
  BY <1>2
<1>4. Grows(outbox, new, 0)
  BY <1>1, <1>2, <1>3 DEF Grows, Tries
<1>5. Len(new) \in DOMAIN new /\ new[Len(new)] = Message(kind)
  BY <1>2
<1>6. \A n \in DOMAIN new : n \notin DOMAIN outbox => new[n] = Message(kind)
  BY <1>2, <1>3
<1> QED BY <1>4, <1>5, <1>6 DEF new

LEMMA SettledBox ==
    ASSUME outbox \in Seq(Box), Tries, NEW m \in DOMAIN outbox, NEW claimed \in BOOLEAN,
           NEW status \in {"PENDING", "DONE", "FAILED"}, outbox[m].status = "PENDING"
    PROVE  /\ Grows(outbox, Settled(m, claimed, status), m)
           /\ Settled(m, claimed, status)[m].status = status
           /\ DOMAIN Settled(m, claimed, status) = DOMAIN outbox
           /\ Settled(m, claimed, status)[m].tries
                = IF claimed THEN outbox[m].tries + 1 ELSE outbox[m].tries
           /\ status # "DONE" => Settled(m, claimed, status)[m].error
<1> DEFINE new == Settled(m, claimed, status)
           tries == IF claimed THEN outbox[m].tries + 1 ELSE outbox[m].tries
           error == outbox[m].error \/ status # "DONE"
           row == [outbox[m] EXCEPT !.status = status, !.tries = tries, !.error = error]
<1>1. outbox[m] \in Box /\ outbox[m].tries < MaxTries /\ MaxTries \in Nat
  BY ElementOfSeq, LenProperties, BoundsAssumption DEF Tries
<1>2. /\ row \in Box /\ row.kind = outbox[m].kind /\ row.status = status
      /\ row.tries = tries /\ row.error = error
  <2>1. tries \in 0 .. MaxTries /\ error \in BOOLEAN
    BY <1>1 DEF Box
  <2> HIDE DEF tries, error
  <2> QED BY <1>1, <2>1 DEF Box
<1>3. new = [outbox EXCEPT ![m] = row]
  BY <1>1 DEF Settled, Box
<1> HIDE DEF row, new
<1>4. new \in Seq(Box) /\ Len(new) = Len(outbox)
  BY <1>2, <1>3, ExceptSeq, LenProperties
<1>5. DOMAIN new = DOMAIN outbox /\ new[m] = row /\ \A n \in DOMAIN outbox \ {m} : new[n] = outbox[n]
  BY <1>3
<1>6. Grows(outbox, new, m)
  BY <1>2, <1>4, <1>5 DEF Grows, Tries
<1> QED BY <1>2, <1>5, <1>6 DEF new

----------------------------------------------------------------------------
\* What the transactions know stays true.

\* A row that rises takes nothing from those who do not hold it.
LEMMA KnowsRises ==
    ASSUME NEW t \in Tx, NEW r \in RequestRow, NEW s \in RequestRow,
           Knows(t, r), Rises(r, s), HoldsRow(t) => s = r
    PROVE  Knows(t, s)
<1>1. CASE HoldsRow(t)
  BY <1>1
<1>2. CASE ~HoldsRow(t)
  <2>1. r.dispatched \in Nat /\ s.dispatched \in Nat /\ t.seen.dispatched \in Nat
    BY DEF RequestRow, Tx
  <2>2. t.job = "inline" =>
          /\ t.seen.status = "DISPATCHED" /\ t.seen.dispatched \in 1 .. s.dispatched
          /\ t.seen.partner # NoPartner /\ s.partner # NoPartner
          /\ t.seen.sla.accept # 0 => s.sla.accept # 0
    BY <2>1 DEF Knows, Rises
  <2> QED BY <1>2, <2>2 DEF Knows
<1> QED BY <1>1, <1>2

\* A transaction that a step leaves alone.
LEMMA Untouched ==
    ASSUME Types, TxInv, NEW q \in Processes, NEW m,
           tx'[q] = tx[q], req' \in RequestRow, Rises(req, req'), Grows(outbox, outbox', m),
           HoldsRow(tx[q]) => req' = req /\ attempts' = attempts
    PROVE  /\ OnBehalf(tx[q], outbox)' /\ Counted(tx[q], Len(attempts))'
           /\ Knows(tx[q], req)'
<1>1. tx[q] \in Tx /\ req \in RequestRow
  BY DEF Types
<1>2. OnBehalf(tx[q], outbox)'
  <2>1. OnBehalf(tx[q], outbox)
    BY DEF TxInv
  <2>2. OnBehalf(tx[q], outbox')
    BY <2>1 DEF OnBehalf, Grows
  <2> QED BY <2>2 DEF OnBehalf, HoldsRow
<1>3. Counted(tx[q], Len(attempts))'
  BY DEF TxInv, Counted, HoldsRow
<1>4. Knows(tx[q], req)'
  <2>1. Knows(tx[q], req')
    BY <1>1, KnowsRises DEF TxInv
  <2> QED BY <2>1 DEF Knows, HoldsRow
<1> QED BY <1>2, <1>3, <1>4

\* No attempt is recorded: what is true of the recorded ones stays true.
LEMMA SameAttempts ==
    ASSUME IInv, attempts' = attempts, NEW m, Grows(outbox, outbox', m),
           m \in DOMAIN outbox => outbox[m].status = "PENDING"
    PROVE  Delivers' /\ AttemptNumbersGapless' /\ MessageDeliveredOnce'
<1>1. Delivers'
  <2>1. ASSUME NEW i \in DOMAIN attempts, attempts[i].ok, attempts[i].msg # 0
        PROVE  attempts[i].msg \in DOMAIN outbox' /\ outbox'[attempts[i].msg].status = "DONE"
    BY <2>1 DEF IInv, Delivers, Grows
  <2> QED BY <2>1 DEF Delivers
<1> QED BY <1>1 DEF IInv, AttemptNumbersGapless, MessageDeliveredOnce

\* A transaction may take up the row when nobody holds it, and a message that is
\* pending when nobody holds that.
Takes(p, t, box) ==
    /\ HoldsRow(t) => HoldsRow(tx[p]) \/ ~RowLocked
    /\ HoldsMessage(t) =>
         /\ box[t.msg].status = "PENDING"
         /\ \A q \in Processes \ {p} : HoldsMessage(tx[q]) => tx[q].msg # t.msg

LEMMA TakesLocks ==
    ASSUME Types, TxInv, Locks, NEW p \in Processes, NEW t, tx' = [tx EXCEPT ![p] = t],
           NEW m, Grows(outbox, outbox', m), Takes(p, t, outbox'),
           \A q \in Processes \ {p} : HoldsMessage(tx[q]) => tx[q].msg # m
    PROVE  Locks'
<1>1. \A q \in Processes : tx'[q] = IF q = p THEN t ELSE tx[q]
  BY DEF Types
<1>2. \A q \in Processes : HoldsMessage(tx[q]) => tx[q].msg \in DOMAIN outbox
  BY DEF TxInv, OnBehalf, HoldsMessage, Types, Tx
<1>3. ASSUME NEW q \in Processes, NEW r \in Processes, HoldsRow(tx'[q]), HoldsRow(tx'[r])
      PROVE  q = r
  BY <1>1, <1>3 DEF Locks, Takes, RowLocked, HoldsRow
<1>4. ASSUME NEW q \in Processes, NEW r \in Processes, HoldsMessage(tx'[q]), HoldsMessage(tx'[r]),
             tx'[q].msg = tx'[r].msg
      PROVE  q = r
  BY <1>1, <1>4 DEF Locks, Takes
<1>5. ASSUME NEW q \in Processes, HoldsMessage(tx'[q])
      PROVE  outbox'[tx'[q].msg].status = "PENDING"
  <2>1. CASE q = p
    BY <1>1, <1>5, <2>1 DEF Takes
  <2>2. CASE q # p
    BY <1>1, <1>2, <1>5, <2>2 DEF Locks, Grows
  <2> QED BY <2>1, <2>2
<1> QED BY <1>3, <1>4, <1>5 DEF Locks, HoldsRow, HoldsMessage

\* A step of transaction p.
LEMMA StepTx ==
    ASSUME IInv, NEW p \in Processes, NEW t \in Tx, tx' = [tx EXCEPT ![p] = t],
           NEW m, Grows(outbox, outbox', m),
           m # 0 => /\ m \in DOMAIN outbox
                    /\ outbox'[m].status = "PENDING" => outbox'[m].tries < MaxTries,
           \A q \in Processes \ {p} : HoldsMessage(tx[q]) => tx[q].msg # m,
           (req' = req /\ attempts' = attempts) \/ \A q \in Processes \ {p} : ~HoldsRow(tx[q]),
           req' \in RequestRow, Rises(req, req'), RowOK(req', outbox'),
           attempts' \in Seq(Row), Delivers', AttemptNumbersGapless', MessageDeliveredOnce',
           received' \subseteq Order, elapsed' = elapsed, byHand' = byHand, declined' \subseteq Partners,
           OnBehalf(t, outbox'), Counted(t, Len(attempts')), Knows(t, req'), Takes(p, t, outbox')
    PROVE  IInv'
<1>1. \A q \in Processes : tx'[q] = IF q = p THEN t ELSE tx[q]
  BY DEF IInv, Types
<1>2. Types'
  <2>1. elapsed' \in 0 .. req'.dispatched /\ byHand' \in 0 .. req'.dispatched
    BY DEF IInv, Types, Rises, RequestRow
  <2>2. tx' \in [Processes -> Tx]
    BY DEF IInv, Types
  <2> QED BY <2>1, <2>2 DEF Types, Grows
<1>3. TxInv'
  <2> SUFFICES ASSUME NEW q \in Processes
               PROVE  /\ OnBehalf(tx[q], outbox)' /\ Counted(tx[q], Len(attempts))'
                      /\ Knows(tx[q], req)'
    BY DEF TxInv
  <2>1. CASE q = p
    <3>1. tx'[q] = t
      BY <1>1, <2>1
    <3>2. OnBehalf(tx'[q], outbox') /\ Counted(tx'[q], Len(attempts')) /\ Knows(tx'[q], req')
      BY <3>1
    <3> QED BY <3>2 DEF OnBehalf, Counted, Knows, HoldsRow
  <2>2. CASE q # p
    <3>1. tx'[q] = tx[q]
      BY <1>1, <2>2
    <3>2. HoldsRow(tx[q]) => req' = req /\ attempts' = attempts
      BY <2>2
    <3> QED BY <3>1, <3>2, Untouched DEF IInv
  <2> QED BY <2>1, <2>2
<1>4. Locks'
  BY TakesLocks DEF IInv
<1>5. RowOK(req, outbox)' /\ Tries'
  <2>1. 0 \notin DOMAIN outbox'
    BY LenProperties DEF Grows
  <2> QED BY <2>1 DEF RowOK, Tries, Grows
<1> QED BY <1>2, <1>3, <1>4, <1>5 DEF IInv

\* A step of transaction p that records nothing, on a row that is its own or free.
LEMMA QuietTx ==
    ASSUME IInv, NEW p \in Processes, NEW t \in Tx, tx' = [tx EXCEPT ![p] = t],
           attempts' = attempts, Grows(outbox, outbox', 0),
           req' \in RequestRow, req' = req \/ ~RowLocked, Rises(req, req'), RowOK(req', outbox'),
           received' \subseteq Order, elapsed' = elapsed, byHand' = byHand, declined' \subseteq Partners,
           OnBehalf(t, outbox'), Counted(t, Len(attempts)), Knows(t, req'), Takes(p, t, outbox')
    PROVE  IInv'
<1>1. 0 \notin DOMAIN outbox
  BY LenProperties DEF IInv, Types
<1>2. \A q \in Processes : HoldsMessage(tx[q]) => tx[q].msg # 0
  BY <1>1 DEF IInv, TxInv, OnBehalf, HoldsMessage, Types, Tx
<1>3. (req' = req /\ attempts' = attempts) \/ \A q \in Processes \ {p} : ~HoldsRow(tx[q])
  BY DEF RowLocked, HoldsRow
<1>4. Delivers' /\ AttemptNumbersGapless' /\ MessageDeliveredOnce'
  BY <1>1, SameAttempts
<1>5. attempts' \in Seq(Row)
  BY DEF IInv, Types
<1> QED BY <1>2, <1>3, <1>4, <1>5, StepTx

\* A step of an endpoint, or of time: no transaction moves.
LEMMA StepRow ==
    ASSUME IInv, tx' = tx, attempts' = attempts, Grows(outbox, outbox', 0),
           req' \in RequestRow, req' = req \/ ~RowLocked, Rises(req, req'), RowOK(req', outbox'),
           received' \subseteq Order, elapsed' \in 0 .. req'.dispatched, declined' \subseteq Partners,
           byHand' \in 0 .. req'.dispatched
    PROVE  IInv'
<1>0. 0 \notin DOMAIN outbox /\ 0 \notin DOMAIN outbox'
  BY LenProperties DEF Grows, IInv, Types
<1>1. Types'
  BY DEF IInv, Types, Grows
<1>2. TxInv'
  <2> SUFFICES ASSUME NEW q \in Processes
               PROVE  /\ OnBehalf(tx[q], outbox)' /\ Counted(tx[q], Len(attempts))'
                      /\ Knows(tx[q], req)'
    BY DEF TxInv
  <2>1. HoldsRow(tx[q]) => req' = req /\ attempts' = attempts
    BY DEF RowLocked, HoldsRow
  <2> QED BY <2>1, Untouched DEF IInv
<1>3. Locks'
  <2>1. \A q \in Processes : HoldsMessage(tx[q]) => tx[q].msg \in DOMAIN outbox
    BY DEF IInv, TxInv, OnBehalf, HoldsMessage, Types, Tx
  <2> QED BY <1>0, <2>1 DEF IInv, Locks, Grows, HoldsRow, HoldsMessage
<1>4. Delivers' /\ AttemptNumbersGapless' /\ MessageDeliveredOnce'
  BY <1>0, SameAttempts
<1>5. RowOK(req, outbox)' /\ Tries'
  BY <1>0 DEF RowOK, Tries, Grows
<1> QED BY <1>1, <1>2, <1>3, <1>4, <1>5 DEF IInv

\* What a commit makes of the row.
LEMMA MergedRow ==
    ASSUME NEW db \in RequestRow, NEW seen \in RequestRow, NEW work \in RequestRow
    PROVE  /\ Merge(db, seen, work) \in RequestRow
           /\ \A f \in DOMAIN db :
                Merge(db, seen, work)[f] = IF work[f] # seen[f] THEN work[f] ELSE db[f]
           /\ DOMAIN db = {"status", "partner", "chain", "dispatched", "sla"}
           /\ seen = db => Merge(db, seen, work) = work
  BY DEF Merge, RequestRow

\* The attempts of the transaction that holds the row follow the recorded ones; the
\* one that succeeded is the only one for its message.
LEMMA RecordedAttempts ==
    ASSUME IInv, NEW p \in Processes, HoldsRow(tx[p]), attempts' = attempts \o tx[p].tried,
           NEW m, Grows(outbox, outbox', m), tx[p].job # "scan" => m = tx[p].msg,
           tx[p].job = "scan" => m = 0,
           tx[p].pc = "commit" /\ tx[p].job # "scan" => outbox'[m].status = "DONE"
    PROVE  attempts' \in Seq(Row) /\ Delivers' /\ AttemptNumbersGapless' /\ MessageDeliveredOnce'
<1> DEFINE n == Len(attempts)
           t == tx[p]
           Recorded(a) == a.ok /\ a.msg # 0 => a.msg \in DOMAIN outbox' /\ outbox'[a.msg].status = "DONE"
<1>1. t \in Tx /\ t.tried \in Seq(Row) /\ attempts \in Seq(Row) /\ outbox \in Seq(Box)
  BY DEF IInv, Types, Tx
<1>2. /\ n \in Nat /\ Len(t.tried) \in Nat /\ DOMAIN attempts = 1 .. n
      /\ DOMAIN t.tried = 1 .. Len(t.tried) /\ 0 \notin DOMAIN outbox
  BY <1>1, LenProperties
<1>3. /\ attempts' \in Seq(Row) /\ DOMAIN attempts' = 1 .. (n + Len(t.tried))
      /\ \A i \in 1 .. n : attempts'[i] = attempts[i]
      /\ \A i \in DOMAIN attempts' \ (1 .. n) :
           \E k \in DOMAIN t.tried : i = n + k /\ attempts'[i] = t.tried[k]
  <2>1. /\ attempts' \in Seq(Row) /\ DOMAIN attempts' = 1 .. (n + Len(t.tried))
        /\ \A i \in 1 .. n : attempts'[i] = attempts[i]
        /\ \A i \in DOMAIN attempts' \ (1 .. n) : attempts'[i] = t.tried[i - n]
    BY <1>1, <1>2, ConcatProperties, LenProperties
  <2>2. \A i \in DOMAIN attempts' \ (1 .. n) : i - n \in DOMAIN t.tried /\ i = n + (i - n)
    BY <1>2, <2>1
  <2> QED BY <2>1, <2>2
<1>4. /\ OnBehalf(t, outbox) /\ t.count = n
      /\ \A i \in DOMAIN t.tried :
           /\ t.tried[i].no = n + i /\ t.tried[i].msg = t.msg
           /\ t.tried[i].ok <=> (t.pc = "commit" /\ i = Len(t.tried))
  BY DEF IInv, TxInv, Counted
<1>5. t.job # "scan" => t.msg \in DOMAIN outbox /\ outbox[t.msg].status = "PENDING"
  <2>1. t.job # "scan" => HoldsMessage(t) /\ t.job \in {"inline", "dispatch", "partner_fallback"}
    BY <1>1, <1>4 DEF OnBehalf, HoldsRow, HoldsMessage, Tx
  <2> QED BY <1>4, <2>1 DEF OnBehalf, IInv, Locks
<1>6. t.job = "scan" => t.msg = 0
  BY <1>4 DEF OnBehalf
<1>7. \A i \in 1 .. n : attempts[i].ok /\ attempts[i].msg # 0 =>
        /\ attempts[i].msg \in DOMAIN outbox /\ outbox[attempts[i].msg].status = "DONE"
        /\ attempts[i].msg # t.msg
  BY <1>2, <1>5, <1>6 DEF IInv, Delivers
<1> HIDE DEF n, t
<1>8. AttemptNumbersGapless'
  <2>1. \A i \in 1 .. n : attempts'[i].no = i
    BY <1>2, <1>3 DEF IInv, AttemptNumbersGapless
  <2>2. ASSUME NEW i \in DOMAIN attempts' \ (1 .. n) PROVE attempts'[i].no = i
    <3>1. PICK k \in DOMAIN t.tried : i = n + k /\ attempts'[i] = t.tried[k]
      BY <1>3
    <3> QED BY <1>4, <3>1
  <2> QED BY <2>1, <2>2 DEF AttemptNumbersGapless
<1>9. Delivers'
  <2>1. ASSUME NEW i \in 1 .. n PROVE Recorded(attempts'[i])
    <3>1. attempts[i].ok /\ attempts[i].msg # 0 => attempts[i].msg # m
      BY <1>2, <1>5, <1>6, <1>7 DEF t
    <3>2. attempts[i].ok /\ attempts[i].msg # 0 =>
            attempts[i].msg \in DOMAIN outbox' /\ outbox'[attempts[i].msg].status = "DONE"
      BY <1>7, <3>1 DEF Grows
    <3>3. attempts'[i] = attempts[i]
      BY <1>3
    <3> QED BY <3>2, <3>3
  <2>2. ASSUME NEW i \in DOMAIN attempts' \ (1 .. n) PROVE Recorded(attempts'[i])
    <3>0. PICK k \in DOMAIN t.tried : i = n + k /\ attempts'[i] = t.tried[k]
      BY <1>3
    <3>1. attempts'[i].ok => t.pc = "commit"
      BY <1>4, <3>0
    <3>2. attempts'[i].msg = t.msg
      BY <1>4, <3>0
    <3> QED BY <1>5, <1>6, <3>1, <3>2 DEF Grows, t
  <2> QED BY <2>1, <2>2 DEF Delivers
<1>10. MessageDeliveredOnce'
  <2> DEFINE Same(i, j) == /\ attempts'[i].msg # 0 /\ attempts'[i].msg = attempts'[j].msg
                           /\ attempts'[i].ok /\ attempts'[j].ok
  <2>1. ASSUME NEW i \in 1 .. n, NEW j \in 1 .. n, Same(i, j) PROVE i = j
    BY <1>2, <1>3, <2>1 DEF IInv, MessageDeliveredOnce
  <2>2. ASSUME NEW i \in 1 .. n, NEW j \in DOMAIN attempts' \ (1 .. n), Same(i, j) \/ Same(j, i)
        PROVE  FALSE
    <3>1. PICK k \in DOMAIN t.tried : j = n + k /\ attempts'[j] = t.tried[k]
      BY <1>3
    <3>2. attempts'[j].msg = t.msg
      BY <1>4, <3>1
    <3>3. attempts'[i] = attempts[i]
      BY <1>3
    <3> QED BY <1>7, <2>2, <3>2, <3>3
  <2>3. ASSUME NEW i \in DOMAIN attempts' \ (1 .. n), NEW j \in DOMAIN attempts' \ (1 .. n), Same(i, j)
        PROVE  i = j
    <3>1. PICK k \in DOMAIN t.tried : i = n + k /\ attempts'[i] = t.tried[k]
      BY <1>3
    <3>2. PICK l \in DOMAIN t.tried : j = n + l /\ attempts'[j] = t.tried[l]
      BY <1>3
    <3>3. k = Len(t.tried) /\ l = Len(t.tried)
      BY <1>4, <2>3, <3>1, <3>2
    <3> QED BY <3>1, <3>2, <3>3
  <2> HIDE DEF Same
  <2>4. \A i, j \in DOMAIN attempts' : Same(i, j) => i = j
    BY <2>1, <2>2, <2>3
  <2> QED BY <2>4 DEF MessageDeliveredOnce, Same
<1> QED BY <1>3, <1>8, <1>9, <1>10

\* What a commit writes over the row as it is.
LEMMA MergedRises ==
    ASSUME NEW t \in Tx, NEW r \in RequestRow, NEW box, NEW work \in RequestRow,
           HoldsRow(t), Knows(t, r), RowOK(r, box), t.job # "none",
           work.partner = t.work.partner, work.dispatched = t.work.dispatched,
           work.sla = t.work.sla
    PROVE  /\ Merge(r, t.seen, work) \in RequestRow /\ Rises(r, Merge(r, t.seen, work))
           /\ Merge(r, t.seen, work).dispatched # 0
           /\ Merge(r, t.seen, work).sla.accept # 0 => Merge(r, t.seen, work).partner # NoPartner
<1> DEFINE new == Merge(r, t.seen, work)
<1>1. /\ t.seen \in RequestRow /\ t.work \in RequestRow
      /\ t.job \in {"inline", "dispatch", "partner_fallback", "scan"}
      /\ r.dispatched \in Nat /\ t.seen.dispatched \in Nat /\ work.dispatched \in Nat
  BY DEF Tx, RequestRow
<1>2. /\ new \in RequestRow
      /\ t.seen = r => new = work
      /\ new.partner = IF work.partner # t.seen.partner THEN work.partner ELSE r.partner
      /\ new.dispatched = IF work.dispatched # t.seen.dispatched THEN work.dispatched ELSE r.dispatched
      /\ new.sla = IF work.sla # t.seen.sla THEN work.sla ELSE r.sla
  BY <1>1, MergedRow
<1> HIDE DEF new
<1>3. /\ t.seen.partner # NoPartner => work.partner # NoPartner
      /\ t.pc = "commit" => work.partner # NoPartner /\ work.sla.accept = work.dispatched
      /\ t.pc # "commit" => work.sla = t.seen.sla
      /\ work.dispatched # 0 /\ t.seen.dispatched <= work.dispatched
  BY <1>1 DEF Knows
<1>4. CASE t.job = "inline"
  <2>1. /\ t.seen.dispatched \in 1 .. r.dispatched /\ work.dispatched = t.seen.dispatched
        /\ r.partner # NoPartner /\ work.partner # NoPartner
    BY <1>3, <1>4 DEF Knows
  <2>2. new.dispatched = r.dispatched /\ r.dispatched # 0 /\ new.partner # NoPartner
    BY <1>1, <1>2, <2>1
  <2>3. r.sla.accept # 0 => new.sla.accept # 0
    BY <1>2, <1>3
  <2> QED BY <1>1, <1>2, <2>1, <2>2, <2>3 DEF Rises, new
<1>5. CASE t.job # "inline"
  <2>1. t.seen = r /\ new = work
    BY <1>2, <1>5 DEF Knows
  <2>2. new.sla.accept # 0 => new.partner # NoPartner
    BY <1>3, <2>1 DEF RowOK
  <2> QED BY <1>1, <1>2, <1>3, <2>1, <2>2 DEF Rises, new
<1> QED BY <1>4, <1>5

\* A process that has nothing in hand.
LEMMA IdleTx ==
    /\ NewRow \in RequestRow /\ Idle \in Tx /\ ~HoldsRow(Idle) /\ ~HoldsMessage(Idle)
    /\ \A box, n, row : OnBehalf(Idle, box) /\ Counted(Idle, n) /\ Knows(Idle, row)
<1>1. NewRow \in RequestRow
  BY Statuses DEF NewRow, RequestRow, Sla
<1>2. Idle \in Tx
  BY <1>1 DEF Idle, Tx
<1> QED BY <1>1, <1>2 DEF Idle, HoldsRow, HoldsMessage, OnBehalf, Counted, Knows

\* The end of a drain or of a scan.
LEMMA FinishKeeps ==
    ASSUME IInv, NEW p \in Processes, HoldsRow(tx[p]), NEW work \in RequestRow,
           NEW status \in {"PENDING", "DONE", "FAILED"}, Finish(p, work, status),
           work.partner = tx[p].work.partner, work.dispatched = tx[p].work.dispatched,
           work.sla = tx[p].work.sla,
           tx[p].pc = "commit" => status = "DONE",
           status = "PENDING" /\ tx[p].job # "scan" =>
               tx[p].job # "inline" /\ outbox[tx[p].msg].tries + 1 < MaxTries
    PROVE  IInv'
<1> DEFINE t == tx[p]
           m == IF t.job = "scan" THEN 0 ELSE t.msg
<1>1. /\ t \in Tx /\ t.seen \in RequestRow /\ req \in RequestRow /\ t.job # "none"
      /\ OnBehalf(t, outbox) /\ Knows(t, req) /\ RowOK(req, outbox)
  BY DEF IInv, Types, Tx, TxInv, OnBehalf, HoldsRow
<1>2. t.job # "scan" => t.msg \in DOMAIN outbox /\ outbox[t.msg].status = "PENDING"
  <2>1. t.job # "scan" => HoldsMessage(t) /\ t.job \in {"inline", "dispatch", "partner_fallback"}
    BY <1>1 DEF HoldsRow, HoldsMessage, Tx
  <2> QED BY <1>1, <2>1 DEF OnBehalf, IInv, Locks
<1>3. /\ Grows(outbox, outbox', m) /\ DOMAIN outbox' = DOMAIN outbox
      /\ m # 0 => /\ m \in DOMAIN outbox
                  /\ outbox'[m].status = "PENDING" => outbox'[m].tries < MaxTries
      /\ t.job # "scan" => outbox'[m].status = status
  <2>1. CASE t.job = "scan"
    BY <2>1, SameBox DEF Finish, IInv, Types
  <2>2. CASE t.job # "scan"
    <3>1. outbox' = Settled(m, t.job # "inline", status) /\ m = t.msg
      BY <2>2 DEF Finish
    <3>2. (t.job # "inline") \in BOOLEAN
      OBVIOUS
    <3> HIDE DEF m, t
    <3> QED BY <1>2, <2>2, <3>1, <3>2, SettledBox DEF IInv, Types, t
  <2> QED BY <2>1, <2>2
<1>4. \A q \in Processes \ {p} : ~HoldsRow(tx[q]) /\ (HoldsMessage(tx[q]) => tx[q].msg # m)
  <2>1. ASSUME NEW q \in Processes \ {p} PROVE ~HoldsRow(tx[q])
    BY DEF IInv, Locks
  <2>2. ASSUME NEW q \in Processes \ {p}, HoldsMessage(tx[q]) PROVE tx[q].msg # m
    <3>1. CASE t.job = "scan"
      <4>1. tx[q].msg \in DOMAIN outbox /\ 0 \notin DOMAIN outbox
        BY <2>2, LenProperties DEF IInv, TxInv, OnBehalf, HoldsMessage, Types, Tx
      <4> QED BY <3>1, <4>1
    <3>2. CASE t.job # "scan"
      <4>1. HoldsMessage(t)
        BY <3>2 DEF HoldsMessage, HoldsRow
      <4> QED BY <2>2, <3>2, <4>1 DEF IInv, Locks
    <3> QED BY <3>1, <3>2
  <2> QED BY <2>1, <2>2
<1>5. attempts' \in Seq(Row) /\ Delivers' /\ AttemptNumbersGapless' /\ MessageDeliveredOnce'
  <2>1. /\ t.job # "scan" => m = t.msg
        /\ t.job = "scan" => m = 0
        /\ t.pc = "commit" /\ t.job # "scan" => outbox'[m].status = "DONE"
    BY <1>3
  <2>2. attempts' = attempts \o tx[p].tried
    BY DEF Finish
  <2> HIDE DEF m
  <2> QED BY <1>3, <2>1, <2>2, RecordedAttempts
<1>6. req' \in RequestRow /\ Rises(req, req') /\ RowOK(req', outbox')
  <2>1. req' = Merge(req, t.seen, work)
    BY DEF Finish
  <2> HIDE DEF t
  <2>2. HoldsRow(t)
    BY DEF t
  <2>3. /\ work.partner = t.work.partner /\ work.dispatched = t.work.dispatched
        /\ work.sla = t.work.sla
    BY DEF t
  <2> QED BY <1>1, <2>1, <2>2, <2>3, MergedRises DEF RowOK
<1>7. declined' \subseteq Partners
  <2>1. t.job = "scan" => t.seen.partner \in Partners
    BY <1>1 DEF Knows, RequestRow
  <2> QED BY <2>1 DEF Finish, IInv, Types
<1>8. /\ received' \subseteq Order /\ elapsed' = elapsed /\ byHand' = byHand
      /\ tx' = [tx EXCEPT ![p] = Idle]
  BY DEF Finish, IInv, Types
<1>9. Takes(p, Idle, outbox')
  BY IdleTx DEF Takes
<1> HIDE DEF m, t
<1> QED BY <1>3, <1>4, <1>5, <1>6, <1>7, <1>8, <1>9, IdleTx, StepTx

\* The other end: everything is rolled back.
LEMMA RollbackKeeps ==
    ASSUME IInv, NEW p \in Processes, Rollback(p)
    PROVE  IInv'
<1>1. /\ outbox \in Seq(Box) /\ Tries /\ req \in RequestRow /\ RowOK(req, outbox)
      /\ received \subseteq Order /\ declined \subseteq Partners
  BY DEF IInv, Types
<1>2. /\ tx' = [tx EXCEPT ![p] = Idle] /\ req' = req /\ attempts' = attempts /\ outbox' = outbox
      /\ received' = received /\ elapsed' = elapsed /\ declined' = declined /\ byHand' = byHand
  BY DEF Rollback, world
<1>3. Rises(req, req)
  BY <1>1 DEF Rises, RequestRow
<1>4. Takes(p, Idle, outbox')
  BY IdleTx DEF Takes
<1> QED BY <1>1, <1>2, <1>3, <1>4, IdleTx, SameBox, QuietTx

----------------------------------------------------------------------------
\* The endpoints.

LEMMA ChainSeq ==
    ASSUME NEW p \in Partners, NEW chain \in Chains(p)
    PROVE  chain \in Seq(Partners)
<1>1. PICK n \in 0 .. MaxChain : chain \in [1 .. n -> Partners \ {p}]
  BY DEF Chains
<1>2. n \in Nat /\ chain \in [1 .. n -> Partners]
  BY <1>1, BoundsAssumption
<1> QED BY <1>2

LEMMA AssignKeeps ==
    ASSUME IInv, NEW p \in Partners, NEW chain \in Chains(p), Assign(p, chain)
    PROVE  IInv'
<1>1. /\ req \in RequestRow /\ req.dispatched \in Nat /\ req.sla \in Sla
      /\ outbox' = outbox /\ Grows(outbox, outbox', 0) /\ chain \in Seq(Partners)
      /\ p # NoPartner
  BY SameBox, ChainSeq, ProcessesAssumption DEF IInv, Types, Assign, RequestRow
<1>2. req' = [req EXCEPT !.status = "ASSIGNED", !.partner = p, !.chain = chain]
  BY DEF Assign
<1>3. /\ req' \in RequestRow /\ req'.status = "ASSIGNED" /\ req'.partner = p
      /\ req'.dispatched = req.dispatched /\ req'.sla = req.sla
  BY <1>1, <1>2, Statuses DEF RequestRow
<1>4. Rises(req, req') /\ RowOK(req', outbox')
  BY <1>1, <1>3 DEF Rises, RowOK, IInv
<1>5. /\ received' \subseteq Order /\ elapsed' \in 0 .. req'.dispatched /\ declined' \subseteq Partners
      /\ byHand' \in 0 .. req'.dispatched
      /\ tx' = tx /\ attempts' = attempts /\ ~RowLocked
  BY <1>1, <1>3 DEF Assign, IInv, Types
<1> QED BY <1>1, <1>3, <1>4, <1>5, StepRow

\* The transition and the message of the dispatch endpoint.
LEMMA DispatchRowKeeps ==
    ASSUME IInv, DispatchRow
    PROVE  /\ req' \in RequestRow /\ Rises(req, req') /\ RowOK(req', outbox')
           /\ req'.status = "DISPATCHED" /\ req'.dispatched = req.dispatched + 1
           /\ req'.partner = req.partner /\ req.partner # NoPartner /\ req'.sla = req.sla
           /\ Grows(outbox, outbox', 0) /\ Len(outbox') \in DOMAIN outbox'
           /\ Len(outbox') \notin DOMAIN outbox
           /\ outbox'[Len(outbox')] = Message("dispatch")
           /\ received' \subseteq Order /\ declined' \subseteq Partners
           /\ elapsed' \in 0 .. req'.dispatched /\ byHand' = byHand
           /\ byHand' \in 0 .. req'.dispatched
<1>1. req \in RequestRow /\ outbox \in Seq(Box) /\ Tries /\ req.dispatched \in Nat
  BY DEF IInv, Types, RequestRow
<1>2. /\ req' = Transitioned(req, "DISPATCHED") /\ outbox' = Append(outbox, Message("dispatch"))
      /\ req.partner # NoPartner
  BY DEF DispatchRow
<1>3. /\ req' \in RequestRow /\ req'.status = "DISPATCHED" /\ req'.dispatched = req.dispatched + 1
      /\ req'.partner = req.partner /\ req'.sla = req.sla
  BY <1>1, <1>2, Statuses, TransitionedRow
<1>4. Rises(req, req') /\ RowOK(req', outbox')
  BY <1>1, <1>2, <1>3 DEF Rises, RowOK, IInv
<1>5. /\ Grows(outbox, outbox', 0) /\ Len(outbox') \in DOMAIN outbox'
      /\ outbox'[Len(outbox')] = Message("dispatch")
  BY <1>1, <1>2, AppendedBox
<1>6. Len(outbox') \notin DOMAIN outbox
  <2>1. Message("dispatch") \in Box
    BY BoundsAssumption DEF Message, Box
  <2>2. Len(outbox') = Len(outbox) + 1 /\ Len(outbox) \in Nat /\ DOMAIN outbox = 1 .. Len(outbox)
    BY <1>1, <1>2, <2>1, AppendProperties, LenProperties
  <2> QED BY <2>2
<1>7. /\ received' \subseteq Order /\ declined' \subseteq Partners
      /\ elapsed' \in 0 .. req'.dispatched /\ byHand' = byHand
      /\ byHand' \in 0 .. req'.dispatched
  BY <1>1, <1>3 DEF DispatchRow, world, IInv, Types
<1> QED BY <1>2, <1>3, <1>4, <1>5, <1>6, <1>7

LEMMA DispatchCallCutKeeps == ASSUME IInv, DispatchCallCut PROVE IInv'
<1>1. DispatchRow /\ tx' = tx /\ attempts' = attempts /\ ~RowLocked
  BY DEF DispatchCallCut, DispatchRow
<1> QED BY <1>1, DispatchRowKeeps, StepRow

LEMMA DispatchCallKeeps == ASSUME IInv, NEW p \in Processes, DispatchCall(p) PROVE IInv'
<1> DEFINE t == [Idle EXCEPT !.job = "inline", !.pc = "lock", !.msg = Len(outbox'),
                             !.seen = req', !.work = req']
<1>1. DispatchRow /\ tx' = [tx EXCEPT ![p] = t] /\ attempts' = attempts /\ ~RowLocked
  BY DEF DispatchCall, DispatchRow
<1>2. /\ req' \in RequestRow /\ req'.status = "DISPATCHED" /\ req'.dispatched # 0
      /\ req'.dispatched \in 1 .. req'.dispatched /\ req'.partner # NoPartner
      /\ Len(outbox') \in DOMAIN outbox' /\ Len(outbox') \in Nat
      /\ outbox'[Len(outbox')].kind = "dispatch"
  <2>1. req'.dispatched \in Nat /\ req.dispatched \in Nat
    BY <1>1, DispatchRowKeeps DEF IInv, Types, RequestRow
  <2>2. Len(outbox') \in Nat
    BY <1>1, DispatchRowKeeps, LenProperties DEF Grows
  <2> QED BY <1>1, <2>1, <2>2, DispatchRowKeeps DEF Message
<1>3. /\ t \in Tx /\ t.job = "inline" /\ t.pc = "lock" /\ t.msg = Len(outbox')
      /\ t.seen = req' /\ t.work = req'
  BY <1>2, IdleTx DEF Idle, Tx
<1> HIDE DEF t
<1>4. OnBehalf(t, outbox') /\ Counted(t, Len(attempts)) /\ Takes(p, t, outbox')
  BY <1>2, <1>3 DEF OnBehalf, Counted, Takes, HoldsRow, HoldsMessage
<1>5. Knows(t, req')
  BY <1>2, <1>3 DEF Knows, HoldsRow
<1>6. elapsed' = elapsed
  BY <1>1 DEF DispatchRow, world
<1> QED BY <1>1, <1>3, <1>4, <1>5, <1>6, DispatchRowKeeps, QuietTx

LEMMA OperatorTransitionKeeps ==
    ASSUME IInv, NEW s \in OperatorTargets, OperatorTransition(s)
    PROVE  IInv'
<1>1. /\ req \in RequestRow /\ req.dispatched \in Nat /\ s \in RequestStatus
      /\ outbox' = outbox /\ Grows(outbox, outbox', 0)
  BY SameBox, InputsAssumption DEF IInv, Types, OperatorTransition, RequestRow
<1>2. /\ req' \in RequestRow /\ req'.status = s /\ req'.partner = req.partner /\ req'.sla = req.sla
      /\ req'.dispatched = IF s = "DISPATCHED" THEN req.dispatched + 1 ELSE req.dispatched
  BY <1>1, TransitionedRow DEF OperatorTransition
<1>3. Rises(req, req') /\ RowOK(req', outbox')
  BY <1>1, <1>2 DEF Rises, RowOK, IInv
<1>4. /\ received' \subseteq Order /\ elapsed' \in 0 .. req'.dispatched /\ declined' \subseteq Partners
      /\ byHand' \in 0 .. req'.dispatched
      /\ tx' = tx /\ attempts' = attempts /\ ~RowLocked
  BY <1>1, <1>2 DEF OperatorTransition, world, IInv, Types
<1> QED BY <1>1, <1>2, <1>3, <1>4, StepRow

LEMMA PartnerResponseKeeps ==
    ASSUME IInv, NEW reply \in Replies, PartnerResponse(reply)
    PROVE  IInv'
<1> DEFINE s == PARTNER_STATUS_TARGET[reply]
           moved == Transitioned(req, s)
<1>1. /\ req \in RequestRow /\ req.dispatched \in Nat /\ s \in RequestStatus /\ s # "DISPATCHED"
      /\ outbox \in Seq(Box) /\ Tries
  BY Statuses DEF IInv, Types, RequestRow
<1>2. /\ moved \in RequestRow /\ moved.status = s /\ moved.partner = req.partner
      /\ moved.sla = req.sla /\ moved.dispatched = req.dispatched
  BY <1>1, TransitionedRow
<1>3. req' = [moved EXCEPT !.sla.perform = (moved.sla.perform \/ s = "ACCEPTED")]
  <2>1. moved.sla \in Sla
    BY <1>2 DEF RequestRow
  <2> QED BY <1>2, <2>1 DEF PartnerResponse
<1> HIDE DEF moved
<1>4. /\ req' \in RequestRow /\ req'.status = s /\ req'.partner = req.partner
      /\ req'.dispatched = req.dispatched /\ req'.sla.accept = req.sla.accept
  <2>1. (moved.sla.perform \/ s = "ACCEPTED") \in BOOLEAN
    BY <1>2 DEF RequestRow, Sla
  <2> QED BY <1>2, <1>3, <2>1 DEF RequestRow, Sla
<1>5. Grows(outbox, outbox', 0)
  BY <1>1, SameBox, AppendedBox DEF PartnerResponse
<1>6. \A m \in DOMAIN outbox' : outbox'[m].kind = "dispatch" =>
        m \in DOMAIN outbox /\ outbox[m].kind = "dispatch"
  <2>1. CASE s = "MATCHING"
    <3>1. outbox' = Append(outbox, Message("partner_fallback"))
      BY <2>1 DEF PartnerResponse
    <3>2. \A m \in DOMAIN outbox' : m \notin DOMAIN outbox => outbox'[m] = Message("partner_fallback")
      BY <1>1, <3>1, AppendedBox
    <3> QED BY <1>5, <3>2 DEF Grows, Message
  <2>2. CASE s # "MATCHING"
    BY <2>2 DEF PartnerResponse
  <2> QED BY <2>1, <2>2
<1>7. Rises(req, req') /\ RowOK(req', outbox')
  BY <1>1, <1>4, <1>6 DEF Rises, RowOK, IInv
<1>8. /\ received' \subseteq Order /\ elapsed' \in 0 .. req'.dispatched /\ declined' \subseteq Partners
      /\ byHand' \in 0 .. req'.dispatched
      /\ tx' = tx /\ attempts' = attempts /\ ~RowLocked
  <2>1. req.partner \in Partners
    BY <1>1 DEF PartnerResponse, RequestRow
  <2> QED BY <1>4, <2>1 DEF PartnerResponse, IInv, Types
<1> QED BY <1>4, <1>5, <1>7, <1>8, StepRow

LEMMA TickKeeps == ASSUME IInv, Tick PROVE IInv'
<1>1. /\ req' = req /\ tx' = tx /\ attempts' = attempts /\ outbox' = outbox
      /\ received' = received /\ declined' = declined
      /\ elapsed' \in 0 .. req.dispatched /\ byHand' = byHand
  BY DEF Tick, IInv, Types, RequestRow
<1>2. Rises(req, req) /\ Grows(outbox, outbox, 0)
  BY SameBox DEF IInv, Types, Rises, RequestRow
<1> QED BY <1>1, <1>2, StepRow DEF IInv, Types

----------------------------------------------------------------------------
\* Taking up a message.

\* What the steps of a transaction that touch neither row nor outbox have in common.
LEMMA OnlyTx ==
    ASSUME IInv, NEW p \in Processes, NEW t \in Tx, tx' = [tx EXCEPT ![p] = t],
           UNCHANGED <<req, attempts, outbox, elapsed, declined, byHand>>, received' \subseteq Order,
           OnBehalf(t, outbox), Counted(t, Len(attempts)), Knows(t, req), Takes(p, t, outbox)
    PROVE  IInv'
<1>1. /\ outbox \in Seq(Box) /\ Tries /\ req \in RequestRow /\ RowOK(req, outbox)
      /\ declined' \subseteq Partners /\ Rises(req, req)
  BY DEF IInv, Types, Rises, RequestRow
<1> QED BY <1>1, SameBox, QuietTx

\* The facts about a transaction that has something in hand.
LEMMA Facts ==
    ASSUME IInv, NEW p \in Processes
    PROVE  /\ tx[p] \in Tx /\ OnBehalf(tx[p], outbox) /\ Counted(tx[p], Len(attempts))
           /\ Knows(tx[p], req) /\ req \in RequestRow /\ outbox \in Seq(Box)
           /\ attempts \in Seq(Row) /\ received \subseteq Order /\ declined \subseteq Partners
           /\ DOMAIN outbox \subseteq Nat \ {0} /\ Len(attempts) \in Nat
           /\ \A m \in DOMAIN outbox : outbox[m] \in Box
           /\ \A m \in DOMAIN outbox, q \in Processes :
                ~MessageLocked(m) /\ HoldsMessage(tx[q]) => tx[q].msg # m
<1>1. \A m \in DOMAIN outbox, q \in Processes :
        ~MessageLocked(m) /\ HoldsMessage(tx[q]) => tx[q].msg # m
  BY DEF MessageLocked, HoldsMessage
<1>2. outbox \in Seq(Box) /\ attempts \in Seq(Row)
  BY DEF IInv, Types
<1>3. /\ DOMAIN outbox \subseteq Nat \ {0} /\ Len(attempts) \in Nat
      /\ \A m \in DOMAIN outbox : outbox[m] \in Box
  BY <1>2, LenProperties, ElementOfSeq
<1> QED BY <1>1, <1>2, <1>3 DEF IInv, Types, TxInv

LEMMA LockMessageKeeps == ASSUME IInv, NEW p \in Processes, LockMessage(p) PROVE IInv'
<1> DEFINE t == tx[p]
           m == t.msg
           next == IF outbox[m].status \in {"DONE", "FAILED"} THEN Idle
                   ELSE [t EXCEPT !.pc = "load"]
<1>1. /\ t \in Tx /\ OnBehalf(t, outbox) /\ Knows(t, req) /\ t.pc = "lock" /\ t.job = "inline"
      /\ m \in DOMAIN outbox /\ outbox[m] \in Box /\ ~MessageLocked(m)
  BY Facts DEF LockMessage, OnBehalf
<1>2. /\ tx' = [tx EXCEPT ![p] = next] /\ received' \subseteq Order
      /\ UNCHANGED <<req, attempts, outbox, elapsed, declined, byHand>>
  BY Facts DEF LockMessage, world, IInv, Types
<1>3. CASE outbox[m].status \in {"DONE", "FAILED"}
  <2>1. next = Idle
    BY <1>3
  <2> HIDE DEF next
  <2> QED BY <1>2, <2>1, IdleTx, OnlyTx DEF Takes
<1>4. CASE outbox[m].status \notin {"DONE", "FAILED"}
  <2>1. /\ next \in Tx /\ next.pc = "load" /\ next.job = "inline" /\ next.msg = m
        /\ next.seen = t.seen /\ next.work = t.work /\ outbox[m].status = "PENDING"
    BY <1>1, <1>4 DEF Tx, Box
  <2> HIDE DEF next
  <2>2. OnBehalf(next, outbox) /\ Counted(next, Len(attempts)) /\ Knows(next, req)
    BY <1>1, <2>1 DEF OnBehalf, Counted, Knows, HoldsRow
  <2>3. Takes(p, next, outbox)
    BY <1>1, <2>1, Facts DEF Takes, HoldsRow
  <2> HIDE DEF t, m
  <2> QED BY <1>2, <2>1, <2>2, <2>3, OnlyTx
<1> QED BY <1>3, <1>4

LEMMA ClaimKeeps ==
    ASSUME IInv, NEW p \in Processes, NEW m \in DOMAIN outbox, Claim(p, m)
    PROVE  IInv'
<1> DEFINE next == [Idle EXCEPT !.job = outbox[m].kind, !.pc = "load", !.msg = m]
<1>1. /\ outbox[m] \in Box /\ m \in Nat \ {0} /\ ~MessageLocked(m) /\ outbox[m].status = "PENDING"
  BY Facts DEF Claim
<1>2. /\ tx' = [tx EXCEPT ![p] = next] /\ received' \subseteq Order
      /\ UNCHANGED <<req, attempts, outbox, elapsed, declined, byHand>>
  BY Facts DEF Claim, world
<1>3. /\ next \in Tx /\ next.pc = "load" /\ next.job = outbox[m].kind /\ next.msg = m
      /\ next.job \in {"dispatch", "partner_fallback"}
  BY <1>1, IdleTx DEF Idle, Tx, Box
<1> HIDE DEF next
<1>4. OnBehalf(next, outbox) /\ Counted(next, Len(attempts)) /\ Knows(next, req)
  BY <1>1, <1>3 DEF OnBehalf, Counted, Knows, HoldsRow
<1>5. Takes(p, next, outbox)
  BY <1>1, <1>3, Facts DEF Takes, HoldsRow
<1> QED BY <1>2, <1>3, <1>4, <1>5, OnlyTx

\* execute_dispatch begins with all the attempts counted.
LEMMA DeliveringTx ==
    ASSUME IInv, NEW job \in {"inline", "dispatch", "partner_fallback", "scan"}, NEW m \in Nat,
           NEW seen \in RequestRow, NEW work \in RequestRow
    PROVE  LET t == Delivering(job, m, seen, work)
           IN  /\ t \in Tx /\ HoldsRow(t) /\ t.pc = "deliver" /\ t.job = job /\ t.msg = m
               /\ t.seen = seen /\ t.work = work /\ Counted(t, Len(attempts))
<1>1. Len(attempts) \in Nat /\ << >> \in Seq(Row) /\ DOMAIN << >> = {}
  BY LenProperties, EmptySeq DEF IInv, Types
<1> QED BY <1>1 DEF Delivering, Tx, HoldsRow, Counted

LEMMA LoadForDispatchKeeps == ASSUME IInv, NEW p \in Processes, LoadForDispatch(p) PROVE IInv'
<1> DEFINE t == tx[p]
           seen == IF t.job = "inline" THEN t.seen ELSE req
           next == Delivering(t.job, t.msg, seen, seen)
<1>1. /\ t \in Tx /\ OnBehalf(t, outbox) /\ Knows(t, req) /\ t.pc = "load"
      /\ t.job \in {"inline", "dispatch"} /\ t.msg \in DOMAIN outbox /\ t.msg \in Nat
      /\ outbox[t.msg].kind = "dispatch" /\ outbox[t.msg].status = "PENDING" /\ ~RowLocked
      /\ seen \in RequestRow
  <2>1. HoldsMessage(t)
    BY DEF LoadForDispatch, HoldsMessage
  <2> QED BY <2>1, Facts DEF LoadForDispatch, OnBehalf, Tx, IInv, Locks
<1>2. /\ tx' = [tx EXCEPT ![p] = next] /\ received' \subseteq Order
      /\ UNCHANGED <<req, attempts, outbox, elapsed, declined, byHand>>
  BY Facts DEF LoadForDispatch, world
<1>3. /\ next \in Tx /\ HoldsRow(next) /\ next.pc = "deliver" /\ next.job = t.job
      /\ next.msg = t.msg /\ next.seen = seen /\ next.work = seen
      /\ Counted(next, Len(attempts))
  BY <1>1, DeliveringTx
<1>4. req.dispatched # 0
  BY <1>1 DEF IInv, RowOK
<1>5. Knows(next, req)
  <2>1. t.job = "inline" => seen = t.seen /\ seen.dispatched # 0
    BY <1>1 DEF Knows
  <2> HIDE DEF next
  <2> QED BY <1>1, <1>3, <1>4, <2>1 DEF Knows, HoldsRow
<1> HIDE DEF next
<1>6. OnBehalf(next, outbox)
  BY <1>1, <1>3 DEF OnBehalf, HoldsRow
<1>7. Takes(p, next, outbox)
  <2>1. HoldsMessage(t)
    BY <1>1 DEF HoldsMessage
  <2> QED BY <1>1, <1>3, <2>1 DEF Takes, IInv, Locks
<1> QED BY <1>2, <1>3, <1>5, <1>6, <1>7, OnlyTx

\* Who dispatches again knows the row and has moved it on.
LEMMA RedispatchingKnows ==
    ASSUME IInv, NEW job \in {"partner_fallback", "scan"}, NEW m \in Nat, req.chain # << >>,
           req.status = IF job = "scan" THEN "DISPATCHED" ELSE "MATCHING",
           job = "scan" => req.partner # NoPartner
    PROVE  LET t == Delivering(job, m, req, Redispatched(req))
           IN  /\ t \in Tx /\ HoldsRow(t) /\ t.pc = "deliver" /\ t.job = job /\ t.msg = m
               /\ Counted(t, Len(attempts)) /\ Knows(t, req)
<1> DEFINE next == Delivering(job, m, req, Redispatched(req))
<1>1. req \in RequestRow /\ req.dispatched \in Nat
  BY DEF IInv, Types, RequestRow
<1>2. /\ Redispatched(req) \in RequestRow /\ Redispatched(req).status = "DISPATCHED"
      /\ Redispatched(req).partner \in Partners /\ Redispatched(req).sla = req.sla
      /\ Redispatched(req).dispatched = req.dispatched + 1
  BY <1>1, RedispatchedRow
<1>3. /\ next \in Tx /\ HoldsRow(next) /\ next.pc = "deliver" /\ next.job = job
      /\ next.msg = m /\ next.seen = req /\ next.work = Redispatched(req)
      /\ Counted(next, Len(attempts))
  BY <1>1, <1>2, DeliveringTx
<1> HIDE DEF next
<1>4. Knows(next, req)
  <2>1. Redispatched(req).partner # NoPartner /\ Redispatched(req).dispatched # 0
    BY <1>1, <1>2, ProcessesAssumption
  <2> QED BY <1>2, <1>3, <2>1 DEF Knows
<1> QED BY <1>3, <1>4 DEF next

LEMMA LoadForFallbackKeeps == ASSUME IInv, NEW p \in Processes, LoadForFallback(p) PROVE IInv'
<1> DEFINE t == tx[p]
<1>1. /\ t \in Tx /\ OnBehalf(t, outbox) /\ t.pc = "load" /\ HoldsMessage(t)
      /\ t.job = "partner_fallback" /\ t.msg \in DOMAIN outbox /\ t.msg \in Nat \ {0}
      /\ outbox[t.msg] \in Box /\ outbox[t.msg].kind = "partner_fallback"
      /\ outbox[t.msg].status = "PENDING" /\ ~RowLocked
  <2>1. HoldsMessage(t)
    BY DEF LoadForFallback, HoldsMessage
  <2> QED BY <2>1, Facts DEF LoadForFallback, OnBehalf, Tx, IInv, Locks
<1>2. \A q \in Processes \ {p} : HoldsMessage(tx[q]) => tx[q].msg # t.msg
  BY <1>1 DEF IInv, Locks
<1>3. CASE req.status = "MATCHING" /\ req.chain # << >>
  <2> DEFINE next == Delivering("partner_fallback", t.msg, req, Redispatched(req))
  <2>1. /\ tx' = [tx EXCEPT ![p] = next] /\ received' \subseteq Order
        /\ UNCHANGED <<req, attempts, outbox, elapsed, declined, byHand>>
    BY <1>3, Facts DEF LoadForFallback, world
  <2>2. /\ next \in Tx /\ HoldsRow(next) /\ next.pc = "deliver" /\ next.job = "partner_fallback"
        /\ next.msg = t.msg /\ Counted(next, Len(attempts)) /\ Knows(next, req)
    BY <1>1, <1>3, RedispatchingKnows
  <2> HIDE DEF next
  <2>3. OnBehalf(next, outbox) /\ Takes(p, next, outbox)
    BY <1>1, <1>2, <2>2 DEF OnBehalf, Takes
  <2> QED BY <2>1, <2>2, <2>3, OnlyTx
<1>4. CASE ~(req.status = "MATCHING" /\ req.chain # << >>)
  <2> DEFINE m == t.msg
  <2>1. /\ tx' = [tx EXCEPT ![p] = Idle] /\ outbox' = Settled(m, TRUE, "DONE")
        /\ req' = req /\ attempts' = attempts /\ elapsed' = elapsed /\ declined' = declined
        /\ byHand' = byHand /\ received' \subseteq Order
    BY <1>4, Facts DEF LoadForFallback, world
  <2>2. /\ Grows(outbox, outbox', m) /\ outbox'[m].status = "DONE" /\ DOMAIN outbox' = DOMAIN outbox
        /\ m \in DOMAIN outbox /\ outbox[m].status = "PENDING"
    BY <1>1, <2>1, SettledBox, Facts DEF IInv
  <2>3. attempts' \in Seq(Row) /\ Delivers' /\ AttemptNumbersGapless' /\ MessageDeliveredOnce'
    BY <2>1, <2>2, SameAttempts, Facts
  <2>4. /\ req' \in RequestRow /\ Rises(req, req') /\ RowOK(req', outbox')
        /\ declined' \subseteq Partners
    <3>1. \A n \in DOMAIN outbox' : outbox'[n].kind = outbox[n].kind
      BY <2>2 DEF Grows
    <3>2. RowOK(req, outbox')
      BY <2>2, <3>1 DEF IInv, RowOK
    <3>3. req \in RequestRow /\ declined \subseteq Partners
      BY Facts
    <3>4. Rises(req, req)
      BY <3>3 DEF Rises, RequestRow
    <3> HIDE DEF m, t
    <3> QED BY <2>1, <3>2, <3>3, <3>4
  <2>5. Takes(p, Idle, outbox')
    BY IdleTx DEF Takes
  <2> HIDE DEF m, t
  <2>6. \A q \in Processes \ {p} : HoldsMessage(tx[q]) => tx[q].msg # m
    BY <1>2 DEF m
  <2> QED BY <2>1, <2>2, <2>3, <2>4, <2>5, <2>6, IdleTx, StepTx
<1> QED BY <1>3, <1>4

LEMMA ScanAcceptTimeoutsKeeps ==
    ASSUME IInv, NEW p \in Processes, ScanAcceptTimeouts(p)
    PROVE  IInv'
<1>1. /\ req \in RequestRow /\ req.status = "DISPATCHED" /\ req.sla.accept # 0 /\ ~RowLocked
      /\ req.partner # NoPartner /\ req.partner \in Partners
  BY DEF ScanAcceptTimeouts, Overdue, IInv, Types, RowOK, RequestRow
<1>2. CASE req.chain = << >>
  <2>1. /\ req' = Transitioned(req, "FAILED_DISPATCH") /\ declined' = declined \cup {req.partner}
        /\ UNCHANGED <<tx, attempts, outbox, received, elapsed, byHand>>
    BY <1>2 DEF ScanAcceptTimeouts
  <2>2. /\ req' \in RequestRow /\ req'.status = "FAILED_DISPATCH" /\ req'.partner = req.partner
        /\ req'.sla = req.sla /\ req'.dispatched = req.dispatched
    BY <1>1, <2>1, Statuses, TransitionedRow
  <2>3. Rises(req, req') /\ RowOK(req', outbox')
    BY <1>1, <2>1, <2>2 DEF Rises, RowOK, RequestRow, IInv
  <2>4. /\ received' \subseteq Order /\ elapsed' \in 0 .. req'.dispatched /\ declined' \subseteq Partners
      /\ byHand' \in 0 .. req'.dispatched
    BY <1>1, <2>1, <2>2 DEF IInv, Types
  <2> QED BY <1>1, <2>1, <2>2, <2>3, <2>4, StepRow, SameBox DEF IInv, Types
<1>3. CASE req.chain # << >>
  <2> DEFINE next == Delivering("scan", 0, req, Redispatched(req))
  <2>1. /\ tx' = [tx EXCEPT ![p] = next] /\ received' \subseteq Order
        /\ UNCHANGED <<req, attempts, outbox, elapsed, declined, byHand>>
    BY <1>3, Facts DEF ScanAcceptTimeouts
  <2>2. /\ next \in Tx /\ HoldsRow(next) /\ next.pc = "deliver" /\ next.job = "scan"
        /\ next.msg = 0 /\ Counted(next, Len(attempts)) /\ Knows(next, req)
    BY <1>1, <1>3, RedispatchingKnows
  <2> HIDE DEF next
  <2>3. OnBehalf(next, outbox) /\ Takes(p, next, outbox)
    BY <1>1, <2>2 DEF OnBehalf, Takes, HoldsMessage, HoldsRow
  <2> QED BY <2>1, <2>2, <2>3, OnlyTx
<1> QED BY <1>2, <1>3

----------------------------------------------------------------------------
\* Delivering.

LEMMA AttemptKeeps ==
    ASSUME IInv, NEW p \in Processes, NEW ok \in BOOLEAN, Attempt(p, ok)
    PROVE  IInv'
<1> DEFINE t == tx[p]
           n == Len(t.tried)
           to == Route(t.work)[n + 1]
           no == t.count + n + 1
           new == [no |-> no, msg |-> t.msg, ok |-> ok]
           tried == Append(t.tried, new)
           order == [partner |-> to, key |-> no, dispatch |-> t.work.dispatched]
           next == IF ok THEN [t EXCEPT !.tried = tried, !.pc = "commit",
                                        !.work = Delivered(t.work, to)]
                   ELSE [t EXCEPT !.tried = tried]
<1>1. /\ t \in Tx /\ OnBehalf(t, outbox) /\ Counted(t, Len(attempts)) /\ Knows(t, req)
      /\ t.pc = "deliver" /\ n < Len(Route(t.work)) /\ HoldsRow(t) /\ t.job # "none"
  BY Facts DEF Attempt, HoldsRow, OnBehalf
<1>2. /\ t.tried \in Seq(Row) /\ n \in Nat /\ DOMAIN t.tried = 1 .. n /\ t.work \in RequestRow
      /\ t.count \in Nat /\ t.msg \in Nat /\ t.work.dispatched \in Nat
      /\ t.seen \in RequestRow
  BY <1>1, LenProperties DEF Tx, RequestRow
<1>3. to \in Partners
  <2>1. Len(Route(t.work)) \in Nat
    BY <1>2, RoutePartners
  <2>2. n + 1 \in 1 .. Len(Route(t.work))
    BY <1>1, <1>2, <2>1
  <2> QED BY <1>2, <2>2, RoutePartners
<1>4. tx' = [tx EXCEPT ![p] = next] /\ received' \subseteq received \cup {order}
  BY DEF Attempt
<1>5. /\ tried \in Seq(Row) /\ Len(tried) = n + 1 /\ DOMAIN tried = 1 .. n + 1
      /\ tried[n + 1] = new /\ \A i \in 1 .. n : tried[i] = t.tried[i]
      /\ tried # << >>
  <2>1. new \in Row
    BY <1>2 DEF Row
  <2> HIDE DEF new, n
  <2>2. /\ tried \in Seq(Row) /\ Len(tried) = n + 1 /\ tried[n + 1] = new
        /\ \A i \in 1 .. n : tried[i] = t.tried[i]
    BY <1>2, <2>1, AppendProperties DEF n
  <2> HIDE DEF tried
  <2>3. DOMAIN tried = 1 .. n + 1
    BY <2>2, LenProperties
  <2>4. tried # << >>
    BY <1>2, <2>2
  <2> QED BY <2>2, <2>3, <2>4
<1>6. order \in Order
  BY <1>2, <1>3 DEF Order
<1>7. /\ Delivered(t.work, to) \in RequestRow /\ Delivered(t.work, to).status = t.work.status
      /\ Delivered(t.work, to).partner = to /\ Delivered(t.work, to).dispatched = t.work.dispatched
      /\ Delivered(t.work, to).sla.accept = t.work.dispatched
      /\ Delivered(t.work, to).sla.perform = t.work.sla.perform
  BY <1>2, <1>3, DeliveredRow
<1>8. /\ next \in Tx /\ next.job = t.job /\ next.msg = t.msg /\ next.seen = t.seen
      /\ next.count = t.count /\ next.tried = tried
      /\ next.pc = IF ok THEN "commit" ELSE "deliver"
      /\ next.work = IF ok THEN Delivered(t.work, to) ELSE t.work
  <2> HIDE DEF tried, to
  <2> QED BY <1>1, <1>5, <1>7 DEF Tx
<1> HIDE DEF next, order, to
<1>9. OnBehalf(next, outbox)
  BY <1>1, <1>8 DEF OnBehalf, HoldsRow
<1>10. Counted(next, Len(attempts))
  <2>1. /\ t.count = Len(attempts)
        /\ \A i \in 1 .. n : /\ t.tried[i].no = t.count + i /\ t.tried[i].msg = t.msg
                             /\ ~t.tried[i].ok
    BY <1>1, <1>2 DEF Counted
  <2> HIDE DEF tried, t, n
  <2>2. ASSUME NEW i \in DOMAIN tried
        PROVE  /\ tried[i].no = t.count + i /\ tried[i].msg = t.msg
               /\ tried[i].ok <=> (ok /\ i = n + 1)
    <3>1. CASE i = n + 1
      <4>1. tried[i] = new
        BY <1>5, <3>1
      <4>2. new.no = t.count + i /\ new.msg = t.msg
        BY <1>2, <3>1
      <4> QED BY <3>1, <4>1, <4>2
    <3>2. CASE i \in 1 .. n
      <4>1. tried[i] = t.tried[i] /\ i # n + 1
        BY <1>2, <1>5, <3>2
      <4> QED BY <2>1, <3>2, <4>1
    <3> QED BY <1>2, <1>5, <3>1, <3>2
  <2> QED BY <1>5, <1>8, <2>1, <2>2 DEF Counted
<1>11. Knows(next, req)
  BY <1>1, <1>3, <1>7, <1>8, ProcessesAssumption DEF Knows, HoldsRow
<1>12. Takes(p, next, outbox)
  <2>1. HoldsMessage(next) => HoldsMessage(t)
    BY <1>1, <1>8 DEF HoldsMessage, HoldsRow
  <2> QED BY <1>1, <1>8, <2>1 DEF Takes, IInv, Locks
<1>13. UNCHANGED <<req, attempts, outbox, elapsed, declined, byHand>> /\ received' \subseteq Order
  BY <1>4, <1>6, Facts DEF Attempt
<1> HIDE DEF t
<1> QED BY <1>4, <1>8, <1>9, <1>10, <1>11, <1>12, <1>13, OnlyTx

LEMMA CommitKeeps == ASSUME IInv, NEW p \in Processes, Commit(p) PROVE IInv'
<1>1. tx[p].work \in RequestRow /\ HoldsRow(tx[p]) /\ Finish(p, tx[p].work, "DONE")
  BY Facts DEF Commit, HoldsRow, Tx
<1> QED BY <1>1, FinishKeeps

\* A delivery that raises, or finds nothing to move to FAILED_DISPATCH.
LEMMA AbortKeeps ==
    ASSUME IInv, NEW p \in Processes, tx[p].pc = "deliver", Abort(p)
    PROVE  IInv'
<1> DEFINE m == tx[p].msg
           status == IF outbox[m].tries + 1 >= MaxTries THEN "FAILED" ELSE "PENDING"
<1>1. /\ tx[p].work \in RequestRow /\ HoldsRow(tx[p])
  BY Facts DEF HoldsRow, Tx
<1>2. CASE tx[p].job \in {"dispatch", "partner_fallback"}
  <2>1. Finish(p, tx[p].work, status) /\ status \in {"PENDING", "DONE", "FAILED"}
    BY <1>2 DEF Abort, RetryOrFail
  <2>2. status = "PENDING" => outbox[m].tries + 1 < MaxTries
    <3>1. m \in DOMAIN outbox /\ outbox[m].tries \in Nat /\ MaxTries \in Nat
      BY <1>2, Facts, BoundsAssumption DEF OnBehalf, Box
    <3> QED BY <3>1
  <2> HIDE DEF status
  <2> QED BY <1>1, <1>2, <2>1, <2>2, FinishKeeps
<1>3. CASE tx[p].job \notin {"dispatch", "partner_fallback"}
  BY <1>3, RollbackKeeps DEF Abort
<1> QED BY <1>2, <1>3

LEMMA ExhaustedKeeps == ASSUME IInv, NEW p \in Processes, Exhausted(p) PROVE IInv'
<1> DEFINE t == tx[p]
           work == Transitioned(t.work, "FAILED_DISPATCH")
<1>1. /\ t.work \in RequestRow /\ HoldsRow(t) /\ t.pc = "deliver"
  BY Facts DEF Exhausted, HoldsRow, Tx
<1>2. CASE CanTransition(t.work.status, "FAILED_DISPATCH")
  <2>1. Finish(p, work, "DONE")
    BY <1>2 DEF Exhausted
  <2>2. /\ work \in RequestRow /\ work.partner = t.work.partner /\ work.sla = t.work.sla
        /\ work.dispatched = t.work.dispatched
    <3>1. "FAILED_DISPATCH" \in RequestStatus
      BY Statuses
    <3> HIDE DEF t
    <3> QED BY <1>1, <3>1, TransitionedRow
  <2> HIDE DEF work
  <2> QED BY <1>1, <2>1, <2>2, FinishKeeps
<1>3. CASE ~CanTransition(t.work.status, "FAILED_DISPATCH")
  BY <1>1, <1>3, AbortKeeps DEF Exhausted
<1> QED BY <1>2, <1>3

LEMMA RaiseKeeps == ASSUME IInv, NEW p \in Processes, Raise(p) PROVE IInv'
  BY AbortKeeps DEF Raise

LEMMA CrashKeeps == ASSUME IInv, NEW p \in Processes, Crash(p) PROVE IInv'
  BY RollbackKeeps DEF Crash

----------------------------------------------------------------------------
LEMMA InitIInv == ASSUME Init PROVE IInv
<1>1. Types
  BY IdleTx, EmptySeq DEF Init, Types, NewRow
<1>2. TxInv /\ Locks
  BY IdleTx DEF Init, TxInv, Locks
<1>3. RowOK(req, outbox)
  BY DEF Init, RowOK, NewRow
<1> QED BY <1>1, <1>2, <1>3 DEF Init, IInv, Delivers, Tries, AttemptNumbersGapless, MessageDeliveredOnce

LEMMA NextIInv == ASSUME IInv, [Next]_vars PROVE IInv'
<1>1. ASSUME Endpoint PROVE IInv'
  <2>1. ASSUME NEW p \in Partners, NEW chain \in Chains(p), Assign(p, chain) PROVE IInv'
    BY <2>1, AssignKeeps
  <2>2. ASSUME NEW p \in Servers, DispatchCall(p) PROVE IInv'
    BY <2>2, DispatchCallKeeps DEF Processes
  <2>3. ASSUME NEW s \in OperatorTargets, OperatorTransition(s) PROVE IInv'
    BY <2>3, OperatorTransitionKeeps
  <2>4. ASSUME NEW reply \in Replies, PartnerResponse(reply) PROVE IInv'
    BY <2>4, PartnerResponseKeeps
  <2> QED BY <1>1, <2>1, <2>2, <2>3, <2>4, DispatchCallCutKeeps DEF Endpoint
<1>2. ASSUME NEW p \in Workers, Start(p) PROVE IInv'
  <2>1. p \in Processes
    BY DEF Processes
  <2> QED BY <1>2, <2>1, ClaimKeeps, ScanAcceptTimeoutsKeeps DEF Start
<1>3. ASSUME NEW p \in Processes, Continue(p) PROVE IInv'
  <2>1. ASSUME NEW ok \in BOOLEAN, Attempt(p, ok) PROVE IInv'
    BY <2>1, AttemptKeeps
  <2> QED BY <1>3, <2>1, LockMessageKeeps, LoadForDispatchKeeps, LoadForFallbackKeeps,
             CommitKeeps, ExhaustedKeeps DEF Continue
<1>4. ASSUME UNCHANGED vars PROVE IInv'
  <2>1. /\ UNCHANGED <<tx, attempts, outbox, req, received, elapsed, declined, byHand>>
    BY <1>4 DEF vars, world
  <2>2. Rises(req, req) /\ Grows(outbox, outbox, 0)
    BY SameBox DEF IInv, Types, Rises, RequestRow
  <2> QED BY <2>1, <2>2, StepRow DEF IInv, Types
<1> QED BY <1>1, <1>2, <1>3, <1>4, TickKeeps, RaiseKeeps, CrashKeeps DEF Next

\* Nobody breaks the inductive invariant, whatever the constants are.
THEOREM Invariant == Spec => []IInv
  BY InitIInv, NextIInv, PTL DEF Spec

----------------------------------------------------------------------------
\* What a step makes of the status.

\* The endpoint's own drain is in the hands of the API's processes.
InlineAtServers == \A p \in Processes : tx[p].job = "inline" => p \in Servers

LEMMA InlineKeeps == ASSUME IInv, InlineAtServers, [Next]_vars PROVE InlineAtServers'
<1> USE DEF InlineAtServers
<1>0. tx \in [Processes -> Tx] /\ Idle.job = "none"
  BY DEF IInv, Types, Idle
<1>1. ASSUME Endpoint PROVE InlineAtServers'
  BY <1>0, <1>1 DEF Endpoint, Assign, DispatchCall, DispatchCallCut, OperatorTransition,
                    PartnerResponse, Processes
<1>2. ASSUME NEW p \in Workers, Start(p) PROVE InlineAtServers'
  <2>1. ASSUME NEW m \in DOMAIN outbox, Claim(p, m) PROVE InlineAtServers'
    <3>1. outbox[m].kind \in {"dispatch", "partner_fallback"}
      BY Facts DEF Box, Processes
    <3> QED BY <1>0, <2>1, <3>1 DEF Claim, Idle
  <2> QED BY <1>0, <1>2, <2>1 DEF Start, ScanAcceptTimeouts, Delivering
<1>3. ASSUME NEW p \in Processes, LockMessage(p) \/ LoadForDispatch(p) \/ LoadForFallback(p)
      PROVE  InlineAtServers'
  <2>1. tx[p] \in Tx
    BY <1>0
  <2>2. tx'[p].job \in {tx[p].job, "none"} /\ \A q \in Processes \ {p} : tx'[q] = tx[q]
    <3>1. CASE LockMessage(p)
      <4>1. [tx[p] EXCEPT !.pc = "load"].job = tx[p].job
        BY <2>1 DEF Tx
      <4> QED BY <1>0, <3>1, <4>1 DEF LockMessage
    <3>2. CASE LoadForDispatch(p)
      <4>1. PICK seen : tx' = [tx EXCEPT ![p] = Delivering(tx[p].job, tx[p].msg, seen, seen)]
        BY <3>2 DEF LoadForDispatch
      <4> QED BY <1>0, <4>1 DEF Delivering
    <3>3. CASE LoadForFallback(p)
      <4>1. /\ tx[p].job = "partner_fallback"
            /\ \/ tx' = [tx EXCEPT ![p] = Idle]
               \/ tx' = [tx EXCEPT ![p] = Delivering("partner_fallback", tx[p].msg, req,
                                                    Redispatched(req))]
        BY <3>3 DEF LoadForFallback
      <4> QED BY <1>0, <4>1 DEF Delivering
    <3> QED BY <1>3, <3>1, <3>2, <3>3
  <2> QED BY <2>2
<1>4. ASSUME NEW p \in Processes, NEW ok \in BOOLEAN, Attempt(p, ok) PROVE InlineAtServers'
  <2>1. tx[p] \in Tx
    BY <1>0
  <2>2. ASSUME NEW w, NEW c, NEW a PROVE /\ [tx[p] EXCEPT !.tried = a, !.pc = c, !.work = w].job = tx[p].job
                                        /\ [tx[p] EXCEPT !.tried = a].job = tx[p].job
    BY <2>1 DEF Tx
  <2>3. tx'[p].job = tx[p].job /\ \A q \in Processes \ {p} : tx'[q] = tx[q]
    BY <1>0, <1>4, <2>2 DEF Attempt
  <2> QED BY <2>3
<1>5. ASSUME NEW p \in Processes, tx' = [tx EXCEPT ![p] = Idle] PROVE InlineAtServers'
  BY <1>0, <1>5
<1>6. ASSUME tx' = tx PROVE InlineAtServers'
  BY <1>6
<1>7. ASSUME NEW p \in Processes, Commit(p) \/ Exhausted(p) \/ Raise(p) \/ Crash(p)
      PROVE  tx' = [tx EXCEPT ![p] = Idle]
  BY <1>7 DEF Commit, Exhausted, Raise, Crash, Abort, RetryOrFail, Rollback, Finish
<1>8. ASSUME NEW p \in Processes, Continue(p) PROVE InlineAtServers'
  BY <1>3, <1>4, <1>5, <1>7, <1>8 DEF Continue
<1> QED BY <1>1, <1>2, <1>5, <1>6, <1>7, <1>8 DEF Next, Tick, vars

\* A status is one or several arrows from the one before, unless the endpoint's
\* drain has written what it made of an old row.
Along(s, t) == t \in Leads[s]

LEMMA OneArrow ==
    ASSUME NEW s \in RequestStatus, NEW t \in RequestStatus, CanTransition(s, t)
    PROVE  Along(s, t)
  BY LeadsAlong DEF Along

LEMMA Arrows ==
    /\ \A s \in RequestStatus : Along(s, s)
    /\ \A s \in ASSIGNABLE : Along(s, "ASSIGNED")
    /\ Along("ASSIGNED", "DISPATCHED") /\ Along("DISPATCHED", "FAILED_DISPATCH")
    /\ Along("MATCHING", "DISPATCHED") /\ Along("MATCHING", "FAILED_DISPATCH")
<1>1. /\ \A s \in ASSIGNABLE \ {"MATCHING"} : CanTransition(s, "MATCHING")
      /\ CanTransition("MATCHING", "ASSIGNED") /\ CanTransition("ASSIGNED", "DISPATCHED")
      /\ CanTransition("DISPATCHED", "FAILED_DISPATCH")
  <2>1. \A s \in ASSIGNABLE \ {"MATCHING", "CLASSIFIED"} : CanTransition(s, "MATCHING")
    BY DEF ASSIGNABLE, CanTransition, BaseTransitions
  <2> QED BY <2>1 DEF ASSIGNABLE, CanTransition, BaseTransitions
<1>2. /\ "ASSIGNED" \in RequestStatus /\ "DISPATCHED" \in RequestStatus
      /\ "MATCHING" \in RequestStatus /\ "FAILED_DISPATCH" \in RequestStatus
      /\ \A s \in ASSIGNABLE : s \in RequestStatus
  BY Statuses
<1>3. ASSUME NEW s \in ASSIGNABLE PROVE Along(s, "ASSIGNED")
  BY <1>1, <1>2, LeadsAlong DEF Along
<1> QED BY <1>1, <1>2, <1>3, LeadsAlong DEF Along

LEMMA FinishStatus ==
    ASSUME IInv, NEW p \in Processes, HoldsRow(tx[p]), NEW work \in RequestRow, NEW status,
           Finish(p, work, status),
           \/ work.status = tx[p].work.status
           \/ /\ work.status = "FAILED_DISPATCH"
              /\ CanTransition(tx[p].work.status, "FAILED_DISPATCH")
    PROVE  \/ Along(req.status, req'.status)
           \/ tx[p].job = "inline" /\ req'.status = "FAILED_DISPATCH"
<1> DEFINE t == tx[p]
<1>1. /\ t \in Tx /\ OnBehalf(t, outbox) /\ Knows(t, req) /\ req \in RequestRow
      /\ t.seen \in RequestRow /\ t.work \in RequestRow /\ t.job # "none"
      /\ req.status \in RequestStatus
  BY Facts DEF Tx, OnBehalf, HoldsRow, RequestRow
<1>2. /\ req' = Merge(req, t.seen, work)
      /\ req'.status = IF work.status # t.seen.status THEN work.status ELSE req.status
      /\ t.seen = req => req'.status = work.status
  BY <1>1, MergedRow DEF Finish
<1>3. CASE t.job = "inline"
  BY <1>1, <1>2, <1>3, Arrows DEF Knows
<1>4. CASE t.job = "dispatch"
  <2>1. t.seen = req /\ t.work.status = req.status
    BY <1>1, <1>4 DEF Knows
  <2> QED BY <1>1, <1>2, <2>1, Arrows, OneArrow, Statuses
<1>5. CASE t.job \in {"partner_fallback", "scan"}
  <2>1. t.seen = req /\ t.work.status = "DISPATCHED"
        /\ req.status = IF t.job = "scan" THEN "DISPATCHED" ELSE "MATCHING"
    BY <1>1, <1>5 DEF Knows
  <2> QED BY <1>1, <1>2, <2>1, Arrows
<1> QED BY <1>1, <1>3, <1>4, <1>5 DEF Tx

\* The statement of the last lemma for every step of the specification.
LEMMA StepStatus ==
    ASSUME IInv, [Next]_vars
    PROVE  \/ Along(req.status, req'.status)
           \/ (\E p \in Processes : tx[p].job = "inline") /\ req'.status = "FAILED_DISPATCH"
<1>0. req \in RequestRow /\ req.status \in RequestStatus
  BY DEF IInv, Types, RequestRow
<1>1. ASSUME Endpoint PROVE Along(req.status, req'.status)
  <2>1. ASSUME NEW p \in Partners, NEW chain \in Chains(p), Assign(p, chain)
        PROVE  Along(req.status, req'.status)
    <3>1. req'.status = "ASSIGNED" /\ req.status \in ASSIGNABLE
      BY <1>0, <2>1 DEF Assign, RequestRow
    <3> QED BY <3>1, Arrows
  <2>2. ASSUME DispatchRow PROVE Along(req.status, req'.status)
    <3>1. req'.status = "DISPATCHED" /\ req.status = "ASSIGNED"
      BY <2>2, DispatchRowKeeps DEF DispatchRow
    <3> QED BY <3>1, Arrows
  <2>3. ASSUME NEW s \in RequestStatus, CanTransition(req.status, s), req'.status = s
        PROVE  Along(req.status, req'.status)
    BY <1>0, <2>3, OneArrow
  <2>4. ASSUME NEW s \in OperatorTargets, OperatorTransition(s) PROVE Along(req.status, req'.status)
    <3>1. s \in RequestStatus /\ CanTransition(req.status, s) /\ req'.status = s
      BY <1>0, <2>4, TransitionedRow, InputsAssumption DEF OperatorTransition
    <3> QED BY <2>3, <3>1
  <2>5. ASSUME NEW reply \in Replies, PartnerResponse(reply) PROVE Along(req.status, req'.status)
    <3> DEFINE s == PARTNER_STATUS_TARGET[reply]
    <3>1. s \in RequestStatus /\ CanTransition(req.status, s)
      BY <2>5, Statuses DEF PartnerResponse
    <3>2. Transitioned(req, s) \in RequestRow /\ Transitioned(req, s).status = s
      BY <1>0, <3>1, TransitionedRow
    <3>3. req'.status = s
      BY <2>5, <3>2 DEF PartnerResponse, RequestRow
    <3> HIDE DEF s
    <3> QED BY <2>3, <3>1, <3>3
  <2> QED BY <1>1, <2>1, <2>2, <2>4, <2>5 DEF Endpoint, DispatchCall, DispatchCallCut
<1>2. ASSUME req' = req PROVE Along(req.status, req'.status)
  BY <1>0, <1>2, Arrows
<1>3. ASSUME NEW p \in Processes, ScanAcceptTimeouts(p) PROVE Along(req.status, req'.status)
  <2>1. CASE req.chain = << >>
    <3>1. /\ req.status = "DISPATCHED" /\ req' = Transitioned(req, "FAILED_DISPATCH")
          /\ "FAILED_DISPATCH" \in RequestStatus
      BY <1>3, <2>1, Statuses DEF ScanAcceptTimeouts, Overdue
    <3>2. req'.status = "FAILED_DISPATCH"
      BY <1>0, <3>1, TransitionedRow
    <3> QED BY <3>1, <3>2, Arrows
  <2>2. CASE req.chain # << >>
    BY <1>2, <1>3, <2>2 DEF ScanAcceptTimeouts
  <2> QED BY <2>1, <2>2
<1> DEFINE Either == \/ Along(req.status, req'.status)
                     \/ /\ \E p \in Processes : tx[p].job = "inline"
                        /\ req'.status = "FAILED_DISPATCH"
<1>4. ASSUME NEW p \in Processes, HoldsRow(tx[p]), NEW status, Finish(p, tx[p].work, status)
      PROVE  Either
  <2> DEFINE work == tx[p].work
  <2>1. work \in RequestRow /\ work.status = tx[p].work.status /\ Finish(p, work, status)
    BY <1>4, Facts DEF Tx
  <2> HIDE DEF Either, work
  <2>2. \/ Along(req.status, req'.status)
        \/ tx[p].job = "inline" /\ req'.status = "FAILED_DISPATCH"
    BY <1>4, <2>1, FinishStatus
  <2> QED BY <2>2 DEF Either
<1>5. ASSUME NEW p \in Processes, tx[p].pc = "deliver", Abort(p) PROVE Either
  <2>1. HoldsRow(tx[p])
    BY <1>5 DEF HoldsRow
  <2> QED BY <1>2, <1>4, <1>5, <2>1 DEF Abort, RetryOrFail, Rollback
<1>6. ASSUME NEW p \in Processes, Commit(p) PROVE Either
  <2>1. HoldsRow(tx[p])
    BY <1>6 DEF HoldsRow, Commit
  <2> QED BY <1>4, <1>6, <2>1 DEF Commit
<1>7. ASSUME NEW p \in Processes, Exhausted(p) PROVE Either
  <2>1. tx[p].pc = "deliver" /\ HoldsRow(tx[p]) /\ tx[p].work \in RequestRow
    BY <1>7, Facts DEF Exhausted, HoldsRow, Tx
  <2>2. CASE CanTransition(tx[p].work.status, "FAILED_DISPATCH")
    <3> DEFINE work == Transitioned(tx[p].work, "FAILED_DISPATCH")
    <3>0. "FAILED_DISPATCH" \in RequestStatus
      BY Statuses
    <3>1. work \in RequestRow /\ work.status = "FAILED_DISPATCH"
      BY <2>1, <3>0, TransitionedRow
    <3>2. Finish(p, work, "DONE")
      BY <1>7, <2>2 DEF Exhausted
    <3> HIDE DEF work
    <3> QED BY <2>1, <2>2, <3>1, <3>2, FinishStatus
  <2>3. CASE ~CanTransition(tx[p].work.status, "FAILED_DISPATCH")
    BY <1>5, <1>7, <2>1, <2>3 DEF Exhausted
  <2> QED BY <2>2, <2>3
<1>8. ASSUME NEW p \in Processes, Continue(p) PROVE Either
  BY <1>2, <1>6, <1>7, <1>8 DEF Continue, LockMessage, LoadForDispatch, LoadForFallback, Attempt
<1>9. ASSUME NEW p \in Processes, Raise(p) \/ Crash(p) PROVE Either
  BY <1>2, <1>5, <1>9 DEF Raise, Crash, Rollback
<1>10. ASSUME NEW p \in Workers, Start(p) PROVE Either
  BY <1>2, <1>3, <1>10 DEF Start, Claim, Processes
<1>11. ASSUME Tick \/ UNCHANGED vars PROVE Either
  BY <1>2, <1>11 DEF Tick, vars
<1> QED BY <1>1, <1>8, <1>9, <1>10, <1>11 DEF Next

\* The table of the module and that of the lifecycle it follows.
LEMMA SameLeads == \A s \in RequestStatus : Lifecycle!Leads[s] = Leads[s]
<1>1. Lifecycle!TERMINAL_STATUSES = TERMINAL_STATUSES
  BY DEF Lifecycle!TERMINAL_STATUSES, TERMINAL_STATUSES
<1>2. Lifecycle!RequestStatus = RequestStatus
  BY <1>1 DEF Lifecycle!RequestStatus, RequestStatus, Lifecycle!PreAcceptance, PreAcceptance
<1>3. Lifecycle!BaseTransitions = BaseTransitions
  BY DEF Lifecycle!BaseTransitions, BaseTransitions
<1>4. \A a, b : Lifecycle!CanTransition(a, b) = CanTransition(a, b)
  BY <1>1, <1>2, <1>3 DEF Lifecycle!CanTransition, CanTransition
<1>5. \A S : Lifecycle!Hops(S) = Hops(S)
  BY <1>2, <1>4 DEF Lifecycle!Hops, Hops
<1>6. ASSUME NEW s \in RequestStatus PROVE Lifecycle!Leads[s] = Leads[s]
  <2>1. /\ Leads[s] = Hops(Hops(Hops(Hops({s}))))
        /\ Lifecycle!Leads[s]
             = Lifecycle!Hops(Lifecycle!Hops(Lifecycle!Hops(Lifecycle!Hops({s}))))
    BY <1>2 DEF Lifecycle!Leads, Leads
  <2> QED BY <1>5, <2>1
<1> QED BY <1>6

LEMMA AlongMoves == ASSUME IInv, Along(req.status, req'.status) PROVE Lifecycle!Move
<1>1. req.status \in RequestStatus
  BY DEF IInv, Types, RequestRow
<1> QED BY <1>1, SameLeads DEF Along, Lifecycle!Move

----------------------------------------------------------------------------
\* The perform deadline.

PerformKept ==
    req.sla.perform /\ ~req'.sla.perform =>
        \E s \in Servers :
            /\ tx[s].job = "inline" /\ tx[s].pc = "commit" /\ tx'[s] = Idle
            /\ ~tx[s].seen.sla.perform

\* A transaction that ends writes the sla column only at a commit after a delivery, and
\* what the workers and the scan write there they have read under the lock.
LEMMA FinishPerform ==
    ASSUME IInv, InlineAtServers, NEW p \in Processes, HoldsRow(tx[p]), NEW work \in RequestRow,
           NEW status, Finish(p, work, status), work.sla = tx[p].work.sla
    PROVE  PerformKept
<1> DEFINE t == tx[p]
<1>1. /\ t \in Tx /\ Knows(t, req) /\ req \in RequestRow /\ t.seen \in RequestRow
      /\ t.work \in RequestRow
  BY Facts DEF Tx
<1>2. req'.sla = IF work.sla # t.seen.sla THEN work.sla ELSE req.sla
  BY <1>1, MergedRow DEF Finish
<1>3. t.work.sla.perform = t.seen.sla.perform
  BY <1>1 DEF Knows
<1>4. CASE t.pc # "commit"
  <2>1. work.sla = t.seen.sla
    BY <1>1, <1>4 DEF Knows
  <2> QED BY <1>2, <2>1 DEF PerformKept
<1>5. CASE t.job # "inline"
  <2>1. t.seen = req
    BY <1>1, <1>5 DEF Knows
  <2> QED BY <1>2, <1>3, <2>1 DEF PerformKept
<1>6. CASE t.pc = "commit" /\ t.job = "inline"
  <2>1. p \in Servers /\ tx'[p] = Idle
    BY <1>6 DEF InlineAtServers, Finish, IInv, Types
  <2>2. req.sla.perform /\ ~req'.sla.perform => ~t.seen.sla.perform
    BY <1>2, <1>3
  <2> QED BY <1>6, <2>1, <2>2 DEF PerformKept
<1> QED BY <1>4, <1>5, <1>6

LEMMA StepPerform == ASSUME IInv, InlineAtServers, [Next]_vars PROVE PerformKept
<1>0. req \in RequestRow
  BY DEF IInv, Types
<1>1. ASSUME req'.sla.perform = req.sla.perform PROVE PerformKept
  BY <1>1 DEF PerformKept
<1>2. ASSUME NEW s \in RequestStatus, req' = Transitioned(req, s) PROVE PerformKept
  BY <1>0, <1>1, <1>2, TransitionedRow
<1>3. ASSUME Endpoint PROVE PerformKept
  <2>1. ASSUME NEW p \in Partners, NEW chain \in Chains(p), Assign(p, chain) PROVE PerformKept
    <3>1. req'.sla = req.sla
      BY <1>0, <2>1 DEF Assign, RequestRow
    <3> QED BY <1>1, <3>1
  <2>2. ASSUME DispatchRow PROVE PerformKept
    BY <1>1, <2>2, DispatchRowKeeps
  <2>3. ASSUME NEW s \in OperatorTargets, OperatorTransition(s) PROVE PerformKept
    BY <1>2, <2>3, InputsAssumption DEF OperatorTransition
  <2>4. ASSUME NEW reply \in Replies, PartnerResponse(reply) PROVE PerformKept
    <3> DEFINE s == PARTNER_STATUS_TARGET[reply]
               moved == Transitioned(req, s)
    <3>1. s \in RequestStatus
      BY Statuses
    <3>2. moved \in RequestRow /\ moved.sla = req.sla /\ moved.sla \in Sla
      BY <1>0, <3>1, TransitionedRow DEF RequestRow
    <3>3. req' = [moved EXCEPT !.sla.perform = (moved.sla.perform \/ s = "ACCEPTED")]
      BY <2>4, <3>2 DEF PartnerResponse
    <3> HIDE DEF moved, s
    <3>4. req'.sla.perform = (req.sla.perform \/ s = "ACCEPTED")
      BY <3>2, <3>3 DEF RequestRow, Sla
    <3> QED BY <3>4 DEF PerformKept
  <2> QED BY <1>3, <2>1, <2>2, <2>3, <2>4 DEF Endpoint, DispatchCall, DispatchCallCut
<1>4. ASSUME req' = req PROVE PerformKept
  BY <1>1, <1>4
<1>5. ASSUME NEW p \in Processes, ScanAcceptTimeouts(p) PROVE PerformKept
  BY <1>2, <1>4, <1>5, Statuses DEF ScanAcceptTimeouts
<1>6. ASSUME NEW p \in Processes, HoldsRow(tx[p]), NEW status, Finish(p, tx[p].work, status)
      PROVE  PerformKept
  <2>1. tx[p].work \in RequestRow
    BY Facts DEF Tx
  <2> QED BY <1>6, <2>1, FinishPerform
<1>7. ASSUME NEW p \in Processes, tx[p].pc = "deliver", Abort(p) PROVE PerformKept
  <2>1. HoldsRow(tx[p])
    BY <1>7 DEF HoldsRow
  <2> QED BY <1>4, <1>6, <1>7, <2>1 DEF Abort, RetryOrFail, Rollback
<1>8. ASSUME NEW p \in Processes, Exhausted(p) PROVE PerformKept
  <2>1. tx[p].pc = "deliver" /\ HoldsRow(tx[p]) /\ tx[p].work \in RequestRow
    BY <1>8, Facts DEF Exhausted, HoldsRow, Tx
  <2>2. CASE CanTransition(tx[p].work.status, "FAILED_DISPATCH")
    <3> DEFINE work == Transitioned(tx[p].work, "FAILED_DISPATCH")
    <3>1. "FAILED_DISPATCH" \in RequestStatus
      BY Statuses
    <3>2. work \in RequestRow /\ work.sla = tx[p].work.sla
      BY <2>1, <3>1, TransitionedRow
    <3>3. Finish(p, work, "DONE")
      BY <1>8, <2>2 DEF Exhausted
    <3> HIDE DEF work
    <3> QED BY <2>1, <3>2, <3>3, FinishPerform
  <2>3. CASE ~CanTransition(tx[p].work.status, "FAILED_DISPATCH")
    BY <1>7, <1>8, <2>1, <2>3 DEF Exhausted
  <2> QED BY <2>2, <2>3
<1>9. ASSUME NEW p \in Processes, Continue(p) PROVE PerformKept
  <2>1. ASSUME Commit(p) PROVE PerformKept
    <3>1. HoldsRow(tx[p]) /\ Finish(p, tx[p].work, "DONE")
      BY <2>1 DEF Commit, HoldsRow
    <3> QED BY <1>6, <3>1
  <2> QED BY <1>4, <1>8, <1>9, <2>1 DEF Continue, LockMessage, LoadForDispatch, LoadForFallback, Attempt
<1>10. ASSUME NEW p \in Processes, Raise(p) \/ Crash(p) PROVE PerformKept
  BY <1>4, <1>7, <1>10 DEF Raise, Crash, Rollback
<1>11. ASSUME NEW p \in Workers, Start(p) PROVE PerformKept
  BY <1>4, <1>5, <1>11 DEF Start, Claim, Processes
<1>12. ASSUME Tick \/ UNCHANGED vars PROVE PerformKept
  BY <1>4, <1>12 DEF Tick, vars
<1> QED BY <1>3, <1>9, <1>10, <1>11, <1>12 DEF Next

----------------------------------------------------------------------------
\* Who delivers a dispatched request, or says why nobody does.

\* What is watched stays so as long as no dispatch message is touched: the deadline and
\* the noted errors are there for good.
LEMMA StaysWatched ==
    ASSUME IInv, DispatchIsWatched, NEW m, Grows(outbox, outbox', m),
           m \in DOMAIN outbox => outbox[m].kind # "dispatch",
           req' = req, byHand' = byHand
    PROVE  DispatchIsWatched'
<1>1. ASSUME NEW n \in DOMAIN outbox, outbox[n].kind = "dispatch", outbox[n].status = "PENDING"
      PROVE  n \in DOMAIN outbox' /\ outbox'[n].kind = "dispatch" /\ outbox'[n].status = "PENDING"
  BY <1>1 DEF Grows
<1>2. ASSUME NEW n \in DOMAIN outbox, Abandoned(n) PROVE n \in DOMAIN outbox' /\ Abandoned(n)'
  <2>1. /\ n \in DOMAIN outbox' /\ outbox'[n].kind = outbox[n].kind
        /\ outbox[n].error => outbox'[n].error
        /\ n # m => outbox'[n].status = outbox[n].status
    BY DEF Grows
  <2>2. n = m => outbox[n].kind = "partner_fallback"
    <3>1. outbox[n] \in Box
      BY ElementOfSeq, LenProperties DEF IInv, Types
    <3> QED BY <3>1 DEF Box
  <2> QED BY <1>2, <2>1, <2>2 DEF Abandoned
<1> QED BY <1>1, <1>2 DEF DispatchIsWatched

LEMMA SameRowWatched ==
    ASSUME IInv, DispatchIsWatched, req' = req, outbox' = outbox, byHand' = byHand
    PROVE  DispatchIsWatched'
  BY DEF DispatchIsWatched, Abandoned

\* A transaction that ends leaves a deadline, no dispatched request, or its error.
LEMMA FinishWatched ==
    ASSUME IInv, NEW p \in Processes, HoldsRow(tx[p]), NEW work \in RequestRow,
           NEW status \in {"PENDING", "DONE", "FAILED"}, Finish(p, work, status),
           work.sla = tx[p].work.sla,
           \/ tx[p].pc = "commit" /\ work.status = tx[p].work.status
           \/ work.status = "FAILED_DISPATCH"
           \/ tx[p].job \in {"dispatch", "partner_fallback"} /\ status # "DONE"
    PROVE  DispatchIsWatched'
<1> DEFINE t == tx[p]
<1>1. /\ t \in Tx /\ Knows(t, req) /\ req \in RequestRow /\ t.seen \in RequestRow
      /\ t.work \in RequestRow /\ t.job # "none" /\ OnBehalf(t, outbox)
      /\ t.job \in {"inline", "dispatch", "partner_fallback", "scan"}
  BY Facts DEF Tx, OnBehalf, HoldsRow
<1>2. /\ req' = Merge(req, t.seen, work)
      /\ req'.status = IF work.status # t.seen.status THEN work.status ELSE req.status
      /\ req'.sla = IF work.sla # t.seen.sla THEN work.sla ELSE req.sla
      /\ t.seen = req => req'.status = work.status
  BY <1>1, MergedRow DEF Finish
<1>3. CASE t.pc = "commit" /\ work.status = t.work.status
  <2>1. work.sla.accept = t.work.dispatched /\ t.work.dispatched # 0
    BY <1>1, <1>3 DEF Knows, HoldsRow
  <2>2. t.seen.sla.accept # 0 => req.sla.accept # 0
    BY <1>1 DEF Knows, HoldsRow
  <2> QED BY <1>2, <2>1, <2>2 DEF DispatchIsWatched
<1>4. CASE work.status = "FAILED_DISPATCH"
  <2>1. req'.status # "DISPATCHED"
    <3>1. CASE t.job = "inline"
      BY <1>1, <1>2, <1>4, <3>1 DEF Knows
    <3>2. CASE t.job # "inline"
      BY <1>1, <1>2, <1>4, <3>2 DEF Knows
    <3> QED BY <3>1, <3>2
  <2> QED BY <2>1 DEF DispatchIsWatched
<1>5. CASE t.job \in {"dispatch", "partner_fallback"} /\ status # "DONE"
  <2> DEFINE m == t.msg
  <2>1. m \in DOMAIN outbox /\ outbox[m].kind = t.job /\ outbox[m].status = "PENDING"
    BY <1>1, <1>5 DEF OnBehalf, IInv, Locks, HoldsRow, HoldsMessage
  <2>2. outbox' = Settled(m, t.job # "inline", status) /\ (t.job # "inline") \in BOOLEAN
    BY <1>5 DEF Finish
  <2> HIDE DEF m, t
  <2>3. /\ Grows(outbox, outbox', m) /\ m \in DOMAIN outbox'
        /\ outbox'[m].status = status /\ outbox'[m].error
    BY <1>5, <2>1, <2>2, SettledBox DEF IInv, Types
  <2>4. outbox'[m].kind = t.job
    BY <2>1, <2>3 DEF Grows
  <2>5. CASE status = "PENDING" /\ t.job = "dispatch"
    BY <2>3, <2>4, <2>5 DEF DispatchIsWatched
  <2>6. CASE status = "FAILED" \/ t.job = "partner_fallback"
    BY <2>3, <2>4, <2>6 DEF DispatchIsWatched, Abandoned
  <2> QED BY <1>5, <2>5, <2>6
<1> QED BY <1>3, <1>4, <1>5

LEMMA WatchedKeeps ==
    ASSUME IInv, DispatchIsWatched, [Next]_vars
    PROVE  DispatchIsWatched'
<1>0. /\ req \in RequestRow /\ req.status \in RequestStatus
  BY DEF IInv, Types, RequestRow
<1>1. ASSUME req'.status # "DISPATCHED" PROVE DispatchIsWatched'
  BY <1>1 DEF DispatchIsWatched
<1>2. ASSUME Endpoint PROVE DispatchIsWatched'
  <2>1. ASSUME NEW p \in Partners, NEW chain \in Chains(p), Assign(p, chain)
        PROVE  DispatchIsWatched'
    <3>1. req'.status = "ASSIGNED"
      BY <1>0, <2>1 DEF Assign, RequestRow
    <3> QED BY <1>1, <3>1
  <2>2. ASSUME DispatchRow PROVE DispatchIsWatched'
    <3>1. Len(outbox') \in DOMAIN outbox' /\ outbox'[Len(outbox')] = Message("dispatch")
      BY <2>2, DispatchRowKeeps
    <3> QED BY <3>1 DEF DispatchIsWatched, Message
  <2>3. ASSUME NEW s \in OperatorTargets, OperatorTransition(s) PROVE DispatchIsWatched'
    <3>1. s \in RequestStatus /\ req' = Transitioned(req, s)
      BY <2>3, InputsAssumption DEF OperatorTransition
    <3>2. req'.status = s
      BY <1>0, <3>1, TransitionedRow
    <3>3. s = "DISPATCHED" => byHand' = req'.dispatched
      BY <2>3 DEF OperatorTransition
    <3> QED BY <1>1, <3>2, <3>3 DEF DispatchIsWatched
  <2>4. ASSUME NEW reply \in Replies, PartnerResponse(reply) PROVE DispatchIsWatched'
    <3> DEFINE s == PARTNER_STATUS_TARGET[reply]
    <3>1. s \in RequestStatus /\ s # "DISPATCHED"
      BY Statuses
    <3>2. Transitioned(req, s) \in RequestRow /\ Transitioned(req, s).status = s
      BY <1>0, <3>1, TransitionedRow
    <3>3. req'.status = s
      BY <2>4, <3>2 DEF PartnerResponse, RequestRow
    <3> QED BY <1>1, <3>1, <3>3
  <2> QED BY <1>2, <2>1, <2>2, <2>3, <2>4 DEF Endpoint, DispatchCall, DispatchCallCut
<1>3. ASSUME NEW p \in Processes, ScanAcceptTimeouts(p) PROVE DispatchIsWatched'
  <2>1. CASE req.chain = << >>
    <3>1. req' = Transitioned(req, "FAILED_DISPATCH") /\ "FAILED_DISPATCH" \in RequestStatus
      BY <1>3, <2>1, Statuses DEF ScanAcceptTimeouts
    <3>2. req'.status = "FAILED_DISPATCH"
      BY <1>0, <3>1, TransitionedRow
    <3> QED BY <1>1, <3>2
  <2>2. CASE req.chain # << >>
    BY <1>3, <2>2, SameRowWatched DEF ScanAcceptTimeouts
  <2> QED BY <2>1, <2>2
<1>4. ASSUME NEW p \in Processes, LoadForFallback(p) PROVE DispatchIsWatched'
  <2>1. CASE req.status = "MATCHING" /\ req.chain # << >>
    BY <1>4, <2>1, SameRowWatched DEF LoadForFallback, world
  <2>2. CASE ~(req.status = "MATCHING" /\ req.chain # << >>)
    <3> DEFINE m == tx[p].msg
    <3>1. /\ outbox' = Settled(m, TRUE, "DONE") /\ req' = req /\ byHand' = byHand
          /\ m \in DOMAIN outbox /\ outbox[m].kind = "partner_fallback"
          /\ outbox[m].status = "PENDING"
      <4>1. HoldsMessage(tx[p])
        BY <1>4 DEF LoadForFallback, HoldsMessage
      <4> QED BY <1>4, <2>2, <4>1, Facts DEF LoadForFallback, OnBehalf, IInv, Locks, world
    <3> HIDE DEF m
    <3>2. Grows(outbox, outbox', m)
      BY <3>1, SettledBox DEF IInv, Types
    <3> QED BY <3>1, <3>2, StaysWatched
  <2> QED BY <2>1, <2>2
<1>5. ASSUME NEW p \in Processes, Commit(p) PROVE DispatchIsWatched'
  <2> DEFINE work == tx[p].work
  <2>1. /\ HoldsRow(tx[p]) /\ work \in RequestRow /\ work.status = tx[p].work.status
        /\ work.sla = tx[p].work.sla /\ tx[p].pc = "commit" /\ Finish(p, work, "DONE")
    BY <1>5, Facts DEF Commit, HoldsRow, Tx
  <2> HIDE DEF work
  <2> QED BY <2>1, FinishWatched
<1>6. ASSUME NEW p \in Processes, tx[p].pc = "deliver", Abort(p) PROVE DispatchIsWatched'
  <2>1. CASE tx[p].job \in {"dispatch", "partner_fallback"}
    <3> DEFINE work == tx[p].work
               status == IF outbox[tx[p].msg].tries + 1 >= MaxTries THEN "FAILED" ELSE "PENDING"
    <3>1. /\ HoldsRow(tx[p]) /\ work \in RequestRow /\ work.sla = tx[p].work.sla
          /\ Finish(p, work, status) /\ status \in {"PENDING", "DONE", "FAILED"}
          /\ status # "DONE"
      BY <1>6, <2>1, Facts DEF Abort, RetryOrFail, HoldsRow, Tx
    <3> HIDE DEF work, status
    <3> QED BY <2>1, <3>1, FinishWatched
  <2>2. CASE tx[p].job \notin {"dispatch", "partner_fallback"}
    BY <1>6, <2>2, SameRowWatched DEF Abort, Rollback, world
  <2> QED BY <2>1, <2>2
<1>7. ASSUME NEW p \in Processes, Exhausted(p) PROVE DispatchIsWatched'
  <2>1. /\ tx[p].pc = "deliver" /\ HoldsRow(tx[p]) /\ tx[p].work \in RequestRow
        /\ "FAILED_DISPATCH" \in RequestStatus
    BY <1>7, Facts, Statuses DEF Exhausted, HoldsRow, Tx
  <2>2. CASE CanTransition(tx[p].work.status, "FAILED_DISPATCH")
    <3> DEFINE work == Transitioned(tx[p].work, "FAILED_DISPATCH")
    <3>1. work \in RequestRow /\ work.status = "FAILED_DISPATCH" /\ work.sla = tx[p].work.sla
      BY <2>1, TransitionedRow
    <3>2. Finish(p, work, "DONE")
      BY <1>7, <2>2 DEF Exhausted
    <3> HIDE DEF work
    <3> QED BY <2>1, <3>1, <3>2, FinishWatched
  <2>3. CASE ~CanTransition(tx[p].work.status, "FAILED_DISPATCH")
    BY <1>6, <1>7, <2>1, <2>3 DEF Exhausted
  <2> QED BY <2>2, <2>3
<1>8. ASSUME NEW p \in Processes, Continue(p) PROVE DispatchIsWatched'
  BY <1>4, <1>5, <1>7, <1>8, SameRowWatched
  DEF Continue, LockMessage, LoadForDispatch, Attempt, world
<1>9. ASSUME NEW p \in Processes, Raise(p) \/ Crash(p) PROVE DispatchIsWatched'
  BY <1>6, <1>9, SameRowWatched DEF Raise, Crash, Rollback, world
<1>10. ASSUME NEW p \in Workers, Start(p) PROVE DispatchIsWatched'
  BY <1>3, <1>10, SameRowWatched DEF Start, Claim, Processes, world
<1>11. ASSUME Tick \/ UNCHANGED vars PROVE DispatchIsWatched'
  BY <1>11, SameRowWatched DEF Tick, vars, world
<1> QED BY <1>2, <1>8, <1>9, <1>10, <1>11 DEF Next

----------------------------------------------------------------------------
\* The results.

\* The state is always of its type: no drain, retry or crash leaves a request without
\* a status of the table, or a message with more tries than the configuration allows.
THEOREM TypeCorrect == Spec => []TypeOK
<1>1. IInv => TypeOK
  BY TypesTypeOK DEF IInv
<1> QED BY <1>1, Invariant, PTL

\* Attempt numbers, and the idempotency keys made of them, never leave a gap or
\* repeat, whichever processes deliver, die and retry.
THEOREM AttemptsAreGapless == Spec => []AttemptNumbersGapless
<1>1. IInv => AttemptNumbersGapless
  BY DEF IInv
<1> QED BY <1>1, Invariant, PTL

\* The endpoint's drain and the worker's never both record a delivery of one message.
THEOREM DeliveredAtMostOnce == Spec => []MessageDeliveredOnce
<1>1. IInv => MessageDeliveredOnce
  BY DEF IInv
<1> QED BY <1>1, Invariant, PTL

\* Whatever is committed between the transactions, the only status ever written off
\* the arrows is the FAILED_DISPATCH of a drain with an old row.
THEOREM StaleFailureIsTheOnly == Spec => OnlyStaleFailure
<1>1. IInv /\ [Next]_vars => [Lifecycle!Move \/ req.status' = "FAILED_DISPATCH"]_(req.status)
  BY StepStatus, AlongMoves
<1> QED BY <1>1, Invariant, PTL DEF Spec, OnlyStaleFailure

\* Only an API process drains for the endpoint.
LEMMA InlineInvariant == Spec => []InlineAtServers
<1>1. Init => InlineAtServers
  BY DEF Init, Idle, InlineAtServers
<1>2. IInv /\ InlineAtServers /\ [Next]_vars => InlineAtServers'
  BY InlineKeeps
<1> QED BY <1>1, <1>2, Invariant, PTL DEF Spec

\* As long as workers alone drain the messages, every commit moves the request along
\* the arrows: the dispatch implements the lifecycle from the classified request on.
THEOREM WorkersFollowLifecycle == ASSUME Servers = {} PROVE Spec => FollowsLifecycle
<1>1. IInv /\ InlineAtServers /\ [Next]_vars => [Lifecycle!Move]_(req.status)
  BY StepStatus, AlongMoves DEF InlineAtServers
<1> QED BY <1>1, InlineInvariant, Invariant, PTL DEF Spec, FollowsLifecycle

\* Whatever drains, scans, retries, operators and partners commit in between, a perform
\* deadline once started is lost only to the endpoint's drain that delivers with a row
\* from before the acceptance.
THEOREM PerformLossIsTheDrains == Spec => PerformLostOnlyByDrain
<1>1. IInv /\ InlineAtServers /\ [Next]_vars => [PerformKept]_vars
  BY StepPerform
<1> QED BY <1>1, InlineInvariant, Invariant, PTL DEF Spec, PerformLostOnlyByDrain, PerformKept

\* With any number of exceptions and with the free /transition: a dispatched request has
\* a pending message or a deadline, or what kept it from them can be read off.
THEOREM DispatchedIsWatched == Spec => []DispatchIsWatched
<1>1. Init => DispatchIsWatched
  BY DEF Init, NewRow, DispatchIsWatched
<1>2. IInv /\ DispatchIsWatched /\ [Next]_vars => DispatchIsWatched'
  BY WatchedKeeps
<1> QED BY <1>1, <1>2, Invariant, PTL DEF Spec
=============================================================================
