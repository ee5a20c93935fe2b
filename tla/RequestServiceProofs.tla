------------------------ MODULE RequestServiceProofs ------------------------
(***************************************************************************)
(* Proofs about RequestService, for every set of partners, dates, reasons  *)
(* and servers and every bound on the audit trail.                         *)
(*                                                                         *)
(* The argument: whatever the handler, the row changes only through        *)
(* Transitioned, at most three times in one commit, or through Overwritten *)
(* by a drain after its dispatch (EveryStepIsRowStep); both preserve       *)
(* RowInv (TransitionedKeepsRowInv, OverwrittenKeepsRowInv).  The          *)
(* invariants about the row are conjuncts of RowInv.  As long as no drain  *)
(* has written over a later status the stages only grow, and this is what  *)
(* the reasons rest on; what is true of broken trails too rests on the     *)
(* rows after the last dispatch (OnPath).                                  *)
(***************************************************************************)
EXTENDS RequestService, TLAPS

----------------------------------------------------------------------------
\* The finite facts about the table of arrows that the proofs rest on.

\* An arrow joins two statuses.
LEMMA ArrowType ==
    ASSUME NEW a, NEW b, CanTransition(a, b)
    PROVE  a \in RequestStatus /\ b \in RequestStatus
BY DEF CanTransition, BaseTransitions, RequestStatus, PreAcceptance, TERMINAL_STATUSES

\* The stage of a status is a number from 0 to 7.
LEMMA StageType == ASSUME NEW s PROVE Stage(s) \in 0 .. 7
BY DEF Stage, PreAcceptance

\* An arrow never leads back to an earlier stage, and past the partner's
\* acceptance it leads to a later one.
LEMMA ArrowStage ==
    ASSUME NEW a, NEW b, CanTransition(a, b)
    PROVE  /\ Stage(a) <= Stage(b)
           /\ Stage(a) > 0 => Stage(a) < Stage(b)
<1>1. CASE <<a, b>> \in BaseTransitions
  BY <1>1 DEF BaseTransitions, Stage, PreAcceptance
<1>2. CASE a \in RequestStatus \ TERMINAL_STATUSES /\ b = "CANCELLED"
  BY <1>2 DEF RequestStatus, TERMINAL_STATUSES, Stage, PreAcceptance
<1> QED BY <1>1, <1>2 DEF CanTransition

\* The arrows into the statuses between a dispatch and the payment.
LEMMA WorkArrows ==
    /\ DOMAIN Work = 1 .. 5
    /\ \A a : CanTransition(a, "DISPATCHED") => a = "ASSIGNED"
    /\ \A a : CanTransition(a, "FAILED_DISPATCH") => a = "DISPATCHED"
    /\ CanTransition("DISPATCHED", "FAILED_DISPATCH")
    /\ \A a : CanTransition(a, Work[1]) => a = "DISPATCHED"
    /\ \A a, k : k \in 2 .. 5 /\ CanTransition(a, Work[k]) => a = Work[k - 1]
    /\ \A k \in 1 .. 5 : Work[k] # "DISPATCHED" /\ Work[k] # "FAILED_DISPATCH"
    /\ \A k, l \in 1 .. 5 : Work[k] = Work[l] => k = l
<1>1. /\ \A a : CanTransition(a, "DISPATCHED") => a = "ASSIGNED"
      /\ \A a : CanTransition(a, "FAILED_DISPATCH") => a = "DISPATCHED"
      /\ \A a : CanTransition(a, "ACCEPTED") => a = "DISPATCHED"
      /\ \A a : CanTransition(a, "IN_PROGRESS") => a = "ACCEPTED"
      /\ \A a : CanTransition(a, "DONE") => a = "IN_PROGRESS"
      /\ \A a : CanTransition(a, "ACCEPTED_BY_USER") => a = "DONE"
      /\ \A a : CanTransition(a, "PAID") => a = "ACCEPTED_BY_USER"
      /\ CanTransition("DISPATCHED", "FAILED_DISPATCH")
  BY DEF CanTransition, BaseTransitions
<1>2. /\ DOMAIN Work = 1 .. 5
      /\ Work[1] = "ACCEPTED" /\ Work[2] = "IN_PROGRESS" /\ Work[3] = "DONE"
      /\ Work[4] = "ACCEPTED_BY_USER" /\ Work[5] = "PAID"
  BY DEF Work
<1>3. ASSUME NEW a, NEW k \in 2 .. 5, CanTransition(a, Work[k]) PROVE a = Work[k - 1]
  <2>1. CASE k = 2
    BY <1>1, <1>2, <1>3, <2>1
  <2>2. CASE k = 3
    BY <1>1, <1>2, <1>3, <2>2
  <2>3. CASE k = 4
    BY <1>1, <1>2, <1>3, <2>3
  <2>4. CASE k = 5
    BY <1>1, <1>2, <1>3, <2>4
  <2> QED BY <2>1, <2>2, <2>3, <2>4
<1>4. \A k \in 1 .. 5 : k = 1 \/ k = 2 \/ k = 3 \/ k = 4 \/ k = 5
  OBVIOUS
<1>5. /\ \A k \in 1 .. 5 : Work[k] # "DISPATCHED" /\ Work[k] # "FAILED_DISPATCH"
      /\ \A k, l \in 1 .. 5 : Work[k] = Work[l] => k = l
  BY <1>2, <1>4
<1> QED BY <1>1, <1>2, <1>3, <1>5

----------------------------------------------------------------------------
\* The last k audit rows, and no others, come after the last dispatch, and they
\* are the first k of the way to the payment.
Along(r, k) ==
    LET last == r.stamp["DISPATCHED"]
    IN  /\ last > 0 /\ Len(r.history) = last + k
        /\ \A i \in 1 .. k : r.history[last + i].to = Work[i]

OnPath(r) ==
    /\ r.status = "DISPATCHED" => Along(r, 0)
    /\ \A k \in 1 .. 5 : r.status = Work[k] => Along(r, k)
    /\ r.status = "FAILED_DISPATCH" => r.stamp["DISPATCHED"] > 0

\* No audit row entered a stage later than the present one.
StageIsLast(r) ==
    \A i \in 1 .. Len(r.history) : Stage(r.history[i].to) <= Stage(r.status)

RowInv(r) ==
    /\ r \in Row
    /\ Chained(r)
    /\ Stamped(r)
    /\ OnPath(r)
    /\ Unbroken(r) => StageIsLast(r) /\ StagesForward(r)

\* Row q is row r with one more audit row, e, and the status e leads to.
Extends(q, r, e) ==
    /\ q.history = Append(r.history, e)
    /\ q.status = e.to

\* What appending one audit row does to the trail.
LEMMA ExtendedHistory ==
    ASSUME NEW r \in Row, NEW q, NEW e \in Audit, Extends(q, r, e)
    PROVE  LET n == Len(r.history)
           IN  /\ n \in Nat
               /\ q.history \in Seq(Audit)
               /\ Len(q.history) = n + 1
               /\ q.history[n + 1] = e
               /\ \A i \in 1 .. n : q.history[i] = r.history[i]
               /\ Entered(q) = Entered(r) \cup {e.to}
<1> DEFINE n == Len(r.history)
           h == q.history
<1>1. r.history \in Seq(Audit) /\ n \in Nat
  BY DEF Row
<1>2. /\ h \in Seq(Audit)
      /\ Len(h) = n + 1
      /\ h[n + 1] = e
      /\ \A i \in 1 .. n : h[i] = r.history[i]
  BY <1>1 DEF Extends
<1>3. Entered(q) = Entered(r) \cup {e.to}
  <2>1. 1 .. Len(h) = (1 .. n) \cup {n + 1}
    BY <1>1, <1>2
  <2>2. {h[i].to : i \in 1 .. Len(h)} = {h[i].to : i \in 1 .. n} \cup {h[n + 1].to}
    BY <2>1
  <2>3. {h[i].to : i \in 1 .. n} = {r.history[i].to : i \in 1 .. n}
    BY <1>2
  <2> QED BY <2>2, <2>3, <1>2 DEF Entered
<1> QED BY <1>1, <1>2, <1>3

\* The status of a row is where its last audit row leads.
LEMMA LastStatus ==
    ASSUME NEW r \in Row, Chained(r)
    PROVE  LET n == Len(r.history)
           IN  r.status = IF n = 0 THEN "NEW" ELSE r.history[n].to
<1>1. r.history \in Seq(Audit)
  BY DEF Row
<1>2. CASE r.history = << >>
  BY <1>2 DEF Chained
<1>3. CASE r.history # << >>
  BY <1>1, <1>3 DEF Chained
<1> QED BY <1>2, <1>3

\* The trail stays a chain when the new row starts at the present status, or is
\* that of a drain after its dispatch; and it was unbroken before if it is now.
LEMMA ExtendedChain ==
    ASSUME NEW r \in Row, Chained(r), NEW q, NEW e \in Audit, Extends(q, r, e),
           CanTransition(e.from, e.to),
           \/ e.from = r.status
           \/ /\ e = [from |-> "DISPATCHED", to |-> "FAILED_DISPATCH"]
              /\ \E j \in 1 .. Len(r.history) : r.history[j].to = "DISPATCHED"
    PROVE  /\ Chained(q)
           /\ Unbroken(q) => Unbroken(r) /\ e.from = r.status
<1> DEFINE n == Len(r.history)
           h == q.history
<1>1. /\ n \in Nat
      /\ Len(h) = n + 1
      /\ h[n + 1] = e
      /\ \A i \in 1 .. n : h[i] = r.history[i]
  BY ExtendedHistory
<1>2. r.status = IF n = 0 THEN "NEW" ELSE r.history[n].to
  BY LastStatus
<1>3. h # << >>
  BY <1>1
<1> HIDE DEF n, h
<1>4. q.status = IF h = << >> THEN "NEW" ELSE h[Len(h)].to
  BY <1>1, <1>3 DEF Extends, h
<1>5. ASSUME NEW i \in 1 .. n
      PROVE  Joined(q, i) <=> Joined(r, i)
  <2>1. h[i] = r.history[i] /\ (i # 1 => h[i - 1] = r.history[i - 1])
    BY <1>1
  <2> QED BY <2>1 DEF Joined, h
<1>6. Joined(q, n + 1) <=> e.from = r.status
  <2>1. n # 0 => h[(n + 1) - 1] = r.history[n]
    BY <1>1
  <2> QED BY <1>1, <1>2, <2>1 DEF Joined, h
<1>7. ASSUME NEW i \in 1 .. n + 1
      PROVE  CanTransition(h[i].from, h[i].to) /\ (Joined(q, i) \/ Stale(q, i))
  <2>1. CASE i \in 1 .. n
    <3>1. CanTransition(r.history[i].from, r.history[i].to) /\ (Joined(r, i) \/ Stale(r, i))
      BY <2>1 DEF Chained, n
    <3>2. Stale(r, i) => Stale(q, i)
      <4>1. h[i] = r.history[i] /\ \A j \in 1 .. i - 1 : h[j] = r.history[j]
        BY <1>1, <2>1
      <4> QED BY <4>1 DEF Stale, h
    <3> QED BY <1>1, <1>5, <2>1, <3>1, <3>2
  <2>2. CASE i = n + 1
    <3>1. CASE e.from = r.status
      BY <1>1, <1>6, <2>2, <3>1
    <3>2. CASE /\ e = [from |-> "DISPATCHED", to |-> "FAILED_DISPATCH"]
               /\ \E j \in 1 .. n : r.history[j].to = "DISPATCHED"
      <4>1. PICK j \in 1 .. n : r.history[j].to = "DISPATCHED"
        BY <3>2
      <4>2. j \in 1 .. i - 1 /\ h[j].to = "DISPATCHED"
        BY <1>1, <2>2, <4>1
      <4>3. h[i] = [from |-> "DISPATCHED", to |-> "FAILED_DISPATCH"]
        BY <1>1, <2>2, <3>2
      <4>4. Stale(q, i)
        BY <4>2, <4>3 DEF Stale, h
      <4> QED BY <1>1, <2>2, <4>4
    <3> QED BY <3>1, <3>2 DEF n
  <2> QED BY <1>1, <2>1, <2>2
<1>8. Chained(q)
  BY <1>1, <1>4, <1>7 DEF Chained, h
<1>9. ASSUME Unbroken(q) PROVE Unbroken(r) /\ e.from = r.status
  <2>1. \A i \in 1 .. n + 1 : Joined(q, i)
    BY <1>1, <1>9 DEF Unbroken, h
  <2> QED BY <1>1, <1>5, <1>6, <2>1 DEF Unbroken, n
<1> QED BY <1>8, <1>9

\* The timestamp columns stay those of the last rows when the column of the new
\* row's status is set with it.
LEMMA ExtendedStamps ==
    ASSUME NEW r \in Row, Stamped(r), NEW q, NEW e \in Audit, Extends(q, r, e),
           q.stamp = IF e.to \in StampedStatuses
                     THEN [r.stamp EXCEPT ![e.to] = Len(r.history) + 1] ELSE r.stamp
    PROVE  Stamped(q)
<1> DEFINE n == Len(r.history)
           h == q.history
           t == e.to
<1>1. /\ n \in Nat
      /\ Len(h) = n + 1
      /\ h[n + 1] = e
      /\ \A i \in 1 .. n : h[i] = r.history[i]
  BY ExtendedHistory
<1>2. r.stamp \in [StampedStatuses -> Nat]
  BY DEF Row
<1> SUFFICES ASSUME NEW s \in StampedStatuses
             PROVE  /\ q.stamp[s] \in 0 .. n + 1
                    /\ q.stamp[s] > 0 => h[q.stamp[s]].to = s
                    /\ \A i \in 1 .. n + 1 : h[i].to = s => i <= q.stamp[s]
  BY <1>1 DEF Stamped
<1>3. /\ r.stamp[s] \in 0 .. n
      /\ r.stamp[s] > 0 => r.history[r.stamp[s]].to = s
      /\ \A i \in 1 .. n : r.history[i].to = s => i <= r.stamp[s]
  BY DEF Stamped
<1> HIDE DEF n, h
<1>4. CASE s = t
  <2>1. q.stamp[s] = n + 1
    BY <1>2, <1>4 DEF n
  <2> QED BY <1>1, <1>4, <2>1
<1>5. CASE s # t
  <2>1. q.stamp[s] = r.stamp[s]
    BY <1>2, <1>5
  <2>2. r.stamp[s] > 0 => h[r.stamp[s]].to = s
    BY <1>1, <1>3
  <2>3. ASSUME NEW i \in 1 .. n + 1, h[i].to = s PROVE i <= r.stamp[s]
    <3>1. i # n + 1
      BY <1>1, <1>5, <2>3
    <3> QED BY <1>1, <1>3, <2>3, <3>1
  <2> QED BY <1>1, <1>3, <2>1, <2>2, <2>3
<1> QED BY <1>4, <1>5

\* An arrow extends the row.
LEMMA TransitionedExtends ==
    ASSUME NEW r \in Row, NEW t, Legal(r, t)
    PROVE  LET q == Transitioned(r, t)
               e == [from |-> r.status, to |-> t]
           IN  /\ e \in Audit /\ CanTransition(e.from, e.to)
               /\ Extends(q, r, e)
               /\ q.status = t
               /\ q.stamp = IF t \in StampedStatuses
                             THEN [r.stamp EXCEPT ![t] = Len(r.history) + 1] ELSE r.stamp
               /\ q \in Row
<1> DEFINE q == Transitioned(r, t)
           e == [from |-> r.status, to |-> t]
<1>1. CanTransition(r.status, t) /\ r.status \in RequestStatus /\ t \in RequestStatus
  BY ArrowType DEF Legal
<1>2. e \in Audit /\ CanTransition(e.from, e.to)
  BY <1>1 DEF Audit
<1>3. Extends(q, r, e) /\ q.status = t
  BY DEF Extends, Transitioned
<1>4. q.stamp = IF t \in StampedStatuses
                THEN [r.stamp EXCEPT ![t] = Len(r.history) + 1] ELSE r.stamp
  BY DEF Transitioned
<1>5. q.history \in Seq(Audit) /\ Len(r.history) \in Nat
  BY <1>2, <1>3, ExtendedHistory
<1>6. q.stamp \in [StampedStatuses -> Nat]
  BY <1>4, <1>5 DEF Row
<1>7. q \in Row
  BY <1>1, <1>5, <1>6 DEF Row, Transitioned
<1> QED BY <1>2, <1>3, <1>4, <1>7

\* An arrow from a status on the way leads along it or off it, and none leads
\* into the middle of it.
LEMMA TransitionedOnPath ==
    ASSUME NEW r, RowInv(r), NEW t, Legal(r, t)
    PROVE  OnPath(Transitioned(r, t))
<1> DEFINE q == Transitioned(r, t)
           n == Len(r.history)
           e == [from |-> r.status, to |-> t]
           last == r.stamp["DISPATCHED"]
<1>1. r \in Row /\ CanTransition(r.status, t) /\ OnPath(r)
  BY DEF RowInv, Legal
<1>2. /\ e \in Audit /\ Extends(q, r, e) /\ q.status = t
      /\ q.stamp = IF t \in StampedStatuses THEN [r.stamp EXCEPT ![t] = n + 1] ELSE r.stamp
  BY <1>1, TransitionedExtends
<1> HIDE DEF q
<1>3. /\ n \in Nat /\ Len(q.history) = n + 1 /\ q.history[n + 1] = e
      /\ \A i \in 1 .. n : q.history[i] = r.history[i]
  BY <1>1, <1>2, ExtendedHistory
<1>4. r.stamp \in [StampedStatuses -> Nat] /\ "DISPATCHED" \in StampedStatuses
  BY <1>1 DEF Row, StampedStatuses
<1>5. t # "DISPATCHED" => q.stamp["DISPATCHED"] = last
  BY <1>2, <1>4
<1>6. t = "DISPATCHED" => Along(q, 0)
  BY <1>2, <1>3, <1>4 DEF Along
<1>7. t = "FAILED_DISPATCH" => q.stamp["DISPATCHED"] > 0
  BY <1>1, <1>5, WorkArrows DEF OnPath, Along
<1>8. ASSUME NEW k \in 1 .. 5, t = Work[k] PROVE Along(q, k)
  <2>1. Along(r, k - 1)
    <3>1. CASE k = 1
      BY <1>1, <1>8, <3>1, WorkArrows DEF OnPath
    <3>2. CASE k \in 2 .. 5
      <4>1. CanTransition(r.status, Work[k]) => r.status = Work[k - 1]
        BY <3>2, WorkArrows, Zenon
      <4>2. r.status = Work[k - 1] /\ k - 1 \in 1 .. 5
        BY <1>1, <1>8, <3>2, <4>1
      <4> QED BY <1>1, <4>2 DEF OnPath
    <3> QED BY <3>1, <3>2
  <2>2. /\ last > 0 /\ n = last + (k - 1) /\ last \in Nat
        /\ \A i \in 1 .. k - 1 : r.history[last + i].to = Work[i]
    BY <1>4, <2>1 DEF Along
  <2>3. q.stamp["DISPATCHED"] = last
    BY <1>5, <1>8, WorkArrows
  <2>4. ASSUME NEW i \in 1 .. k PROVE q.history[last + i].to = Work[i]
    <3>1. CASE i \in 1 .. k - 1
      <4>1. last + i \in 1 .. n
        BY <1>3, <2>2, <3>1
      <4> QED BY <1>3, <2>2, <3>1, <4>1
    <3>2. CASE i = k
      <4>1. last + i = n + 1
        BY <1>3, <2>2, <3>2
      <4> QED BY <1>3, <1>8, <3>2, <4>1
    <3> QED BY <3>1, <3>2
  <2> HIDE DEF last, n
  <2> QED BY <1>3, <2>2, <2>3, <2>4 DEF Along
<1> QED BY <1>2, <1>6, <1>7, <1>8 DEF OnPath, q

\* One legal arrow preserves everything the row promises.
LEMMA TransitionedKeepsRowInv ==
    ASSUME NEW r, RowInv(r), NEW t, Legal(r, t)
    PROVE  RowInv(Transitioned(r, t))
<1> DEFINE n == Len(r.history)
           q == Transitioned(r, t)
           h == q.history
           e == [from |-> r.status, to |-> t]
<1>1. r \in Row /\ CanTransition(r.status, t) /\ Chained(r) /\ Stamped(r)
  BY DEF RowInv, Legal
<1>2. /\ e \in Audit /\ CanTransition(e.from, e.to)
      /\ Extends(q, r, e) /\ q.status = t /\ q \in Row
      /\ q.stamp = IF t \in StampedStatuses THEN [r.stamp EXCEPT ![t] = n + 1] ELSE r.stamp
  BY <1>1, TransitionedExtends
<1>3. OnPath(q)
  BY TransitionedOnPath
<1> HIDE DEF q
<1>4. Chained(q) /\ (Unbroken(q) => Unbroken(r))
  BY <1>1, <1>2, ExtendedChain
<1>5. Stamped(q)
  BY <1>1, <1>2, ExtendedStamps
<1>6. /\ n \in Nat /\ Len(h) = n + 1 /\ h[n + 1] = e
      /\ \A i \in 1 .. n : h[i] = r.history[i]
  BY <1>1, <1>2, ExtendedHistory
<1> HIDE DEF n, h
<1>7. /\ Stage(r.status) \in 0 .. 7 /\ Stage(t) \in 0 .. 7
      /\ Stage(r.status) <= Stage(t)
      /\ Stage(r.status) > 0 => Stage(r.status) < Stage(t)
      /\ \A i \in 1 .. n : Stage(r.history[i].to) \in 0 .. 7
  BY <1>1, StageType, ArrowStage
<1>8. ASSUME Unbroken(q) PROVE StageIsLast(q) /\ StagesForward(q)
  <2>1. /\ \A i \in 1 .. n : Stage(r.history[i].to) <= Stage(r.status)
        /\ \A i, j \in 1 .. n : i < j /\ Stage(r.history[i].to) > 0
              => Stage(r.history[i].to) < Stage(r.history[j].to)
    BY <1>4, <1>8 DEF RowInv, StageIsLast, StagesForward, n
  <2>2. ASSUME NEW i \in 1 .. n + 1 PROVE Stage(h[i].to) <= Stage(t)
    <3>1. CASE i = n + 1
      BY <1>6, <1>7, <3>1
    <3>2. CASE i \in 1 .. n
      BY <1>6, <1>7, <2>1, <3>2
    <3> QED BY <1>6, <3>1, <3>2
  <2>3. ASSUME NEW i \in 1 .. n + 1, NEW j \in 1 .. n + 1, i < j, Stage(h[i].to) > 0
        PROVE  Stage(h[i].to) < Stage(h[j].to)
    <3>1. i \in 1 .. n /\ h[i] = r.history[i]
      BY <1>6, <2>3
    <3>2. CASE j \in 1 .. n
      BY <1>6, <2>1, <2>3, <3>1, <3>2
    <3>3. CASE j = n + 1
      BY <1>6, <1>7, <2>1, <2>3, <3>1, <3>3
    <3> QED BY <1>6, <3>2, <3>3
  <2> QED BY <1>2, <1>6, <2>2, <2>3 DEF StageIsLast, StagesForward, h
<1> QED BY <1>2, <1>3, <1>4, <1>5, <1>8 DEF RowInv, q

\* So does the write of a drain, once the request has been dispatched: on a row
\* still DISPATCHED it is an arrow, on any other it breaks the trail.
LEMMA OverwrittenKeepsRowInv ==
    ASSUME NEW r, RowInv(r), r.stamp["DISPATCHED"] > 0, Len(r.history) < MaxHistory
    PROVE  /\ RowInv(Overwritten(r))
           /\ Unbroken(Overwritten(r)) => r.status = "DISPATCHED" /\ Unbroken(r)
<1> DEFINE q == Overwritten(r)
           e == [from |-> "DISPATCHED", to |-> "FAILED_DISPATCH"]
<1>1. r \in Row /\ Chained(r) /\ Stamped(r)
  BY DEF RowInv
<1>2. e \in Audit /\ CanTransition(e.from, e.to)
  BY WorkArrows DEF Audit, RequestStatus, PreAcceptance
<1>3. /\ Extends(q, r, e) /\ q.status = "FAILED_DISPATCH" /\ q.stamp = r.stamp
      /\ r.stamp \in [StampedStatuses -> Nat]
  BY <1>1 DEF Overwritten, Extends, Row
<1>4. "FAILED_DISPATCH" \notin StampedStatuses /\ "DISPATCHED" \in StampedStatuses
  BY DEF StampedStatuses
<1>5. \E j \in 1 .. Len(r.history) : r.history[j].to = "DISPATCHED"
  <2>1. /\ r.stamp["DISPATCHED"] \in 0 .. Len(r.history)
        /\ r.history[r.stamp["DISPATCHED"]].to = "DISPATCHED"
    BY <1>1, <1>4 DEF Stamped
  <2> QED BY <1>1, <2>1 DEF Row
<1>6. q \in Row
  <2>1. q.history \in Seq(Audit)
    BY <1>1, <1>2, <1>3, ExtendedHistory
  <2> QED BY <1>1, <2>1 DEF Overwritten, Row, RequestStatus, PreAcceptance
<1> HIDE DEF q
<1>7. Chained(q) /\ (Unbroken(q) => Unbroken(r) /\ r.status = "DISPATCHED")
  BY <1>1, <1>2, <1>3, <1>5, ExtendedChain
<1>8. Stamped(q)
  BY <1>1, <1>2, <1>3, <1>4, ExtendedStamps
<1>9. OnPath(q)
  BY <1>3, WorkArrows DEF OnPath
<1>10. ASSUME Unbroken(q) PROVE StageIsLast(q) /\ StagesForward(q)
  <2>1. r.status = "DISPATCHED" /\ Legal(r, "FAILED_DISPATCH")
    BY <1>7, <1>10, WorkArrows DEF Legal
  <2>2. q = Transitioned(r, "FAILED_DISPATCH")
    BY <1>4, <2>1 DEF Transitioned, Overwritten, q
  <2> QED BY <1>10, <2>1, <2>2, TransitionedKeepsRowInv DEF RowInv
<1> QED BY <1>6, <1>7, <1>8, <1>9, <1>10 DEF RowInv, q

----------------------------------------------------------------------------
\* Types of the columns the rows of the audit trail do not show.
DetailsType ==
    /\ categorised \in BOOLEAN
    /\ partner \in Partners \cup {NoPartner}
    /\ visit \in Dates \cup {NoDate}
    /\ cancelReason \in Reasons \cup {NoReason}
    /\ disputeReason \in Reasons \cup {NoReason}
    /\ settled \in BOOLEAN /\ claimed \in BOOLEAN
    /\ drains \in [Servers -> Partners \cup {NoPartner}]

LEMMA StepKeepsDetailsType == ASSUME DetailsType, [Next]_vars PROVE DetailsType'
<1> USE DEF DetailsType
<1>1. ASSUME NEW c \in BOOLEAN, Classify(c) PROVE DetailsType'
  BY <1>1 DEF Classify, reasons, outside
<1>2. ASSUME NEW p \in Partners, Assign(p) PROVE DetailsType'
  BY <1>2 DEF Assign, reasons, outside
<1>3. CASE \/ ConfirmSettlement \/ UNCHANGED vars
           \/ \E t \in PartnerReplies : PartnerResponse(t)
           \/ \E t \in RequestStatus : Transition(t)
  BY <1>3 DEF ConfirmSettlement, PartnerResponse, Transition, vars, details, reasons, outside
<1>4. CASE Accept
  BY <1>4 DEF Accept, details, reasons
<1>5. ASSUME NEW why \in Reasons, Dispute(why) \/ Cancel(why) PROVE DetailsType'
  BY <1>5 DEF Dispute, Cancel, details, outside
<1>6. CASE CallLost
  BY <1>6 DEF CallLost, details, reasons
<1>7. ASSUME NEW d \in Dates, Reschedule(d) PROVE DetailsType'
  BY <1>7 DEF Reschedule, reasons, outside
<1>8. ASSUME NEW s \in Servers, DispatchCall(s) \/ DrainFails(s) \/ DrainGone(s) PROVE DetailsType'
  BY <1>8 DEF DispatchCall, DrainFails, DrainGone, details, reasons, outside
<1>9. ASSUME NEW s \in Servers, NEW p \in Partners, DrainDelivers(s, p) PROVE DetailsType'
  BY <1>9 DEF DrainDelivers, reasons, outside
<1> QED BY <1>1, <1>2, <1>3, <1>4, <1>5, <1>6, <1>7, <1>8, <1>9 DEF Next

----------------------------------------------------------------------------
\* At most one legal arrow; the end of a drain after its dispatch; and what a
\* step does to the row: at most three arrows, no DISPATCHED between them, or
\* the end of a drain.
RowHop(a, b) == b = a \/ \E t : Legal(a, t) /\ b = Transitioned(a, t)

Arrows ==
    /\ \E a, b : RowHop(row, a) /\ RowHop(a, b) /\ RowHop(b, row')
    /\ row'.stamp["DISPATCHED"] = row.stamp["DISPATCHED"] \/ row'.status = "DISPATCHED"

LateFailure ==
    /\ DrainEnds
    /\ row.stamp["DISPATCHED"] > 0 /\ Len(row.history) < MaxHistory
    /\ row' = Overwritten(row)

RowStep == Arrows \/ LateFailure

\* A drain comes after a dispatch.
DrainsInv ==
    \A s \in Servers : drains[s] # NoPartner => row.stamp["DISPATCHED"] > 0

\* The column of another status leaves dispatched_at alone.
LEMMA OtherStamp ==
    ASSUME NEW a, NEW t, t # "DISPATCHED"
    PROVE  Transitioned(a, t).stamp["DISPATCHED"] = a.stamp["DISPATCHED"]
<1>1. CASE t \in StampedStatuses
  <2>1. Transitioned(a, t).stamp = [a.stamp EXCEPT ![t] = Len(a.history) + 1]
    BY <1>1 DEF Transitioned
  <2>2. [a.stamp EXCEPT ![t] = Len(a.history) + 1]["DISPATCHED"] = a.stamp["DISPATCHED"]
    OBVIOUS
  <2> QED BY <2>1, <2>2
<1>2. CASE t \notin StampedStatuses
  BY <1>2 DEF Transitioned
<1> QED BY <1>1, <1>2

LEMMA NoArrow == ASSUME row' = row PROVE Arrows
BY DEF RowHop, Arrows

LEMMA OneArrow == ASSUME NEW t, Enter(t) PROVE Arrows
<1>1. RowHop(row, row') /\ RowHop(row', row')
  BY DEF Enter, RowHop
<1>2. row'.status = t /\ row' = Transitioned(row, t)
  BY DEF Enter, Transitioned
<1> QED BY <1>1, <1>2, OtherStamp DEF Arrows

\* AssignmentService.assign: one arrow from MATCHING, two from elsewhere.
LEMMA AssignIsArrows == ASSUME NEW p, Assign(p) PROVE Arrows
<1> DEFINE matching == IF row.status # "MATCHING" THEN Transitioned(row, "MATCHING") ELSE row
<1>1. RowHop(row, matching)
  BY DEF Assign, RowHop
<1>2. RowHop(matching, row') /\ row' = Transitioned(matching, "ASSIGNED")
  BY DEF Assign, RowHop
<1>3. RowHop(row', row')
  BY DEF RowHop
<1>4. matching.stamp["DISPATCHED"] = row.stamp["DISPATCHED"]
  BY OtherStamp
<1>5. row'.stamp["DISPATCHED"] = matching.stamp["DISPATCHED"]
  BY <1>2, OtherStamp
<1> QED BY <1>1, <1>2, <1>3, <1>4, <1>5 DEF Arrows

\* ClassificationService.classify: none, one, two or three arrows.
LEMMA ClassifyIsArrows == ASSUME NEW c, Classify(c) PROVE Arrows
<1> DEFINE classifying == Transitioned(row, "CLASSIFYING")
           classified  == Transitioned(classifying, "CLASSIFIED")
           At(r)       == r.stamp["DISPATCHED"]
<1>1. CASE row.status = "NEW"
  <2>1. RowHop(row, classifying) /\ RowHop(classifying, classified)
    BY <1>1 DEF Classify, RowHop
  <2>2. row' = classified \/ row' = Transitioned(classified, "NEEDS_REVIEW")
    BY <1>1 DEF Classify
  <2>3. RowHop(classified, row')
    BY <1>1 DEF Classify, RowHop
  <2>4. At(classifying) = At(row) /\ At(classified) = At(classifying)
        /\ At(Transitioned(classified, "NEEDS_REVIEW")) = At(classified)
    BY OtherStamp
  <2> HIDE DEF classifying, classified
  <2> QED BY <2>1, <2>2, <2>3, <2>4 DEF Arrows
<1>2. CASE row.status # "NEW"
  <2>1. RowHop(row, row) /\ RowHop(row, row')
    BY <1>2 DEF Classify, RowHop
  <2>2. row' = row \/ row' = Transitioned(row, "NEEDS_REVIEW")
    BY <1>2 DEF Classify
  <2> QED BY <2>1, <2>2, OtherStamp DEF Arrows
<1> QED BY <1>1, <1>2

\* The second commit of dispatch, when nobody took the request.
LEMMA DrainFailsIsLate ==
    ASSUME DetailsType, DrainsInv, NEW s \in Servers, DrainFails(s)
    PROVE  LateFailure
<1>1. drains'[s] = NoPartner
  BY DEF DrainFails, DetailsType
<1> QED BY <1>1 DEF DrainFails, DrainsInv, LateFailure, DrainEnds

\* Every step of every handler is a row step.
LEMMA EveryStepIsRowStep == ASSUME DetailsType, DrainsInv, [Next]_vars PROVE RowStep
<1> USE DEF RowStep
<1>1. ASSUME NEW c \in BOOLEAN, Classify(c) PROVE RowStep
  BY <1>1, ClassifyIsArrows
<1>2. ASSUME NEW p \in Partners, Assign(p) PROVE RowStep
  BY <1>2, AssignIsArrows
<1>3. ASSUME NEW s \in Servers, DispatchCall(s) PROVE RowStep
  BY <1>3, OneArrow DEF DispatchCall
<1>4. ASSUME NEW s \in Servers, DrainFails(s) PROVE RowStep
  BY <1>4, DrainFailsIsLate
<1>5. ASSUME NEW s \in Servers, NEW p \in Partners, DrainDelivers(s, p) PROVE RowStep
  BY <1>5, NoArrow DEF DrainDelivers
<1>6. ASSUME NEW s \in Servers, DrainGone(s) PROVE RowStep
  BY <1>6, NoArrow DEF DrainGone
<1>7. ASSUME NEW t \in PartnerReplies, PartnerResponse(t) PROVE RowStep
  BY <1>7, OneArrow DEF PartnerResponse
<1>8. CASE Accept
  BY <1>8, OneArrow DEF Accept
<1>9. ASSUME NEW why \in Reasons, Dispute(why) PROVE RowStep
  BY <1>9, OneArrow DEF Dispute
<1>10. ASSUME NEW why \in Reasons, Cancel(why) PROVE RowStep
  BY <1>10, OneArrow DEF Cancel
<1>11. CASE CallLost
  BY <1>11, NoArrow DEF CallLost
<1>12. CASE ConfirmSettlement
  BY <1>12, OneArrow DEF ConfirmSettlement
<1>13. ASSUME NEW d \in Dates, Reschedule(d) PROVE RowStep
  BY <1>13, NoArrow DEF Reschedule
<1>14. ASSUME NEW t \in RequestStatus, Transition(t) PROVE RowStep
  BY <1>14, OneArrow DEF Transition
<1>15. CASE UNCHANGED vars
  BY <1>15, NoArrow DEF vars
<1> QED BY <1>1, <1>2, <1>3, <1>4, <1>5, <1>6, <1>7, <1>8, <1>9, <1>10,
          <1>11, <1>12, <1>13, <1>14, <1>15 DEF Next

\* RowInv is preserved by every step.
LEMMA HopKeepsRowInv == ASSUME NEW a, NEW b, RowInv(a), RowHop(a, b) PROVE RowInv(b)
BY TransitionedKeepsRowInv DEF RowHop

LEMMA StepKeepsRowInv == ASSUME RowInv(row), RowStep PROVE RowInv(row')
<1>1. CASE Arrows
  <2>1. PICK a, b : RowHop(row, a) /\ RowHop(a, b) /\ RowHop(b, row')
    BY <1>1 DEF Arrows
  <2> QED BY <2>1, HopKeepsRowInv
<1>2. CASE LateFailure
  BY <1>2, OverwrittenKeepsRowInv DEF LateFailure
<1> QED BY <1>1, <1>2 DEF RowStep

\* A request once dispatched has been dispatched for ever.
LEMMA StepKeepsDispatched ==
    ASSUME RowInv(row'), RowStep, row.stamp["DISPATCHED"] > 0
    PROVE  row'.stamp["DISPATCHED"] > 0
<1>1. CASE Arrows
  BY <1>1 DEF Arrows, RowInv, OnPath, Along
<1>2. CASE LateFailure
  <2>1. row'.stamp = row.stamp
    BY <1>2 DEF LateFailure, Overwritten
  <2> QED BY <2>1
<1> QED BY <1>1, <1>2 DEF RowStep

LEMMA StepKeepsDrainsInv ==
    ASSUME DetailsType, DrainsInv, RowInv(row'), RowStep, [Next]_vars
    PROVE  DrainsInv'
<1>1. CASE UNCHANGED drains
  BY <1>1, StepKeepsDispatched DEF DrainsInv
<1>2. ASSUME NEW s \in Servers, DispatchCall(s) PROVE DrainsInv'
  <2>1. row'.stamp["DISPATCHED"] > 0
    BY <1>2 DEF RowInv, OnPath, Along, DispatchCall, Enter, Transitioned
  <2> QED BY <1>2, <2>1 DEF DrainsInv, DispatchCall, DetailsType
<1>3. ASSUME NEW s \in Servers,
             drains' = [drains EXCEPT ![s] = NoPartner]
      PROVE  DrainsInv'
  <2>1. \A q \in Servers : drains'[q] # NoPartner => drains[q] # NoPartner
    BY <1>3 DEF DetailsType
  <2> QED BY <1>3, <2>1, StepKeepsDispatched DEF DrainsInv
<1>4. \/ UNCHANGED drains
      \/ \E s \in Servers : DispatchCall(s) \/ drains' = [drains EXCEPT ![s] = NoPartner]
  BY DEF Next, vars, Classify, Assign, DispatchCall, DrainFails, DrainDelivers, DrainGone,
         PartnerResponse, Accept, Dispute, Cancel, CallLost, ConfirmSettlement, Reschedule,
         Transition
<1> QED BY <1>1, <1>2, <1>3, <1>4

LEMMA InitRowInv == ASSUME Init PROVE RowInv(row)
<1>1. row.history = << >> /\ row.status = "NEW" /\ Len(row.history) = 0
  BY DEF Init
<1>2. row \in Row
  BY DEF Init, Row, RequestStatus, PreAcceptance
<1>3. Chained(row) /\ StageIsLast(row) /\ StagesForward(row)
  BY <1>1 DEF Chained, StageIsLast, StagesForward
<1>4. Stamped(row)
  BY <1>1 DEF Init, Stamped
<1>5. OnPath(row)
  BY <1>1 DEF OnPath, Work
<1> QED BY <1>2, <1>3, <1>4, <1>5 DEF RowInv

\* The inductive invariant of the row and of the drains.
IInv == DetailsType /\ RowInv(row) /\ DrainsInv

LEMMA StepKeepsIInv == ASSUME IInv, [Next]_vars PROVE IInv' /\ RowStep
<1>1. RowStep
  BY EveryStepIsRowStep DEF IInv
<1>2. RowInv(row')
  BY <1>1, StepKeepsRowInv DEF IInv
<1>3. DetailsType' /\ DrainsInv'
  BY <1>1, <1>2, StepKeepsDetailsType, StepKeepsDrainsInv DEF IInv
<1> QED BY <1>1, <1>2, <1>3 DEF IInv

THEOREM RowInvariant == Spec => []IInv
<1>1. Init => IInv
  <2>1. Init => DetailsType /\ DrainsInv
    BY DEF Init, DetailsType, DrainsInv
  <2> QED BY <2>1, InitRowInv DEF IInv
<1>2. IInv /\ [Next]_vars => IInv'
  BY StepKeepsIInv
<1> QED BY <1>1, <1>2, PTL DEF Spec

\* Type correctness.
THEOREM TypeCorrect == Spec => []TypeOK
<1>1. IInv => TypeOK
  BY DEF IInv, RowInv, DetailsType, TypeOK
<1> QED BY <1>1, RowInvariant, PTL

\* The audit rows form one chain of arrows, broken by nothing but the late
\* FAILED_DISPATCH of a drain (RequestService!AuditTrail).
THEOREM AuditTrailHolds == Spec => []AuditTrail
<1>1. IInv => AuditTrail
  BY DEF IInv, RowInv, AuditTrail
<1> QED BY <1>1, RowInvariant, PTL

\* Every timestamp column belongs to the last audit row entering its status.
THEOREM StampsAuditedHolds == Spec => []StampsAudited
<1>1. IInv => StampsAudited
  BY DEF IInv, RowInv, StampsAudited
<1> QED BY <1>1, RowInvariant, PTL

\* From acceptance on, no status is entered twice while the trail is unbroken.
THEOREM EnteredOnceHolds == Spec => []EnteredOnce
<1>1. IInv => EnteredOnce
  BY DEF IInv, RowInv, EnteredOnce
<1> QED BY <1>1, RowInvariant, PTL

\* Since the last dispatch of a paid request: acceptance, work, the report of
\* its end, the user's acceptance, the payment, and nothing else.
THEOREM PaidProvenanceHolds == Spec => []PaidProvenance
<1>1. IInv => PaidProvenance
  <2> DEFINE last == row.stamp["DISPATCHED"]
  <2> SUFFICES ASSUME IInv, row.status = "PAID"
               PROVE  /\ last > 0 /\ row.history[last].from = "ASSIGNED"
                      /\ Len(row.history) = last + Len(Work)
                      /\ \A k \in DOMAIN Work : row.history[last + k].to = Work[k]
    BY DEF PaidProvenance
  <2>1. Work[5] = "PAID" /\ Len(Work) = 5 /\ DOMAIN Work = 1 .. 5
    BY DEF Work
  <2>2. /\ last > 0 /\ Len(row.history) = last + 5
        /\ \A k \in 1 .. 5 : row.history[last + k].to = Work[k]
    BY <2>1 DEF IInv, RowInv, OnPath, Along
  <2>3. last \in 1 .. Len(row.history) /\ row.history[last].to = "DISPATCHED"
    BY <2>2 DEF IInv, RowInv, Stamped, StampedStatuses
  <2>4. CanTransition(row.history[last].from, "DISPATCHED")
    BY <2>3 DEF IInv, RowInv, Chained
  <2> QED BY <2>1, <2>2, <2>4, WorkArrows
<1> QED BY <1>1, RowInvariant, PTL

----------------------------------------------------------------------------
\* The other columns.  As long as the trail is unbroken the stage only grows,
\* and the reasons are tied to it; what has been entered stays entered.
HopForward(a, b) ==
    /\ Stage(a.status) <= Stage(b.status)
    /\ a.status \in TERMINAL_STATUSES => b.status = a.status

LEMMA TerminalHasNoArrow ==
    ASSUME NEW a \in TERMINAL_STATUSES, NEW b PROVE ~CanTransition(a, b)
BY DEF TERMINAL_STATUSES, CanTransition, BaseTransitions

LEMMA HopIsForward ==
    ASSUME NEW a, NEW b, RowInv(a), RowHop(a, b)
    PROVE  /\ HopForward(a, b)
           /\ Entered(a) \subseteq Entered(b)
           /\ Unbroken(b) => Unbroken(a)
<1>1. CASE b = a
  BY <1>1, StageType DEF HopForward
<1>2. ASSUME NEW t, Legal(a, t), b = Transitioned(a, t)
      PROVE  HopForward(a, b) /\ Entered(a) \subseteq Entered(b) /\ (Unbroken(b) => Unbroken(a))
  <2> DEFINE e == [from |-> a.status, to |-> t]
  <2>1. a \in Row /\ Chained(a) /\ CanTransition(a.status, t)
    BY <1>2 DEF RowInv, Legal
  <2>2. e \in Audit /\ CanTransition(e.from, e.to) /\ Extends(b, a, e) /\ b.status = t
    BY <1>2, <2>1, TransitionedExtends
  <2>3. Unbroken(b) => Unbroken(a)
    BY <2>1, <2>2, ExtendedChain
  <2>4. Entered(a) \subseteq Entered(b)
    BY <2>1, <2>2, ExtendedHistory
  <2> QED BY <2>1, <2>2, <2>3, <2>4, ArrowStage, TerminalHasNoArrow DEF HopForward
<1> QED BY <1>1, <1>2 DEF RowHop

LEMMA ArrowsForward ==
    ASSUME RowInv(row), Arrows
    PROVE  /\ HopForward(row, row')
           /\ Entered(row) \subseteq Entered(row')
           /\ Unbroken(row') => Unbroken(row)
<1>1. PICK a, b : RowHop(row, a) /\ RowHop(a, b) /\ RowHop(b, row')
  BY DEF Arrows
<1>2. RowInv(a) /\ RowInv(b)
  BY <1>1, HopKeepsRowInv
<1>3. HopForward(row, a) /\ HopForward(a, b) /\ HopForward(b, row')
  BY <1>1, <1>2, HopIsForward
<1>4. /\ Stage(row.status) \in 0 .. 7 /\ Stage(a.status) \in 0 .. 7
      /\ Stage(b.status) \in 0 .. 7 /\ Stage(row'.status) \in 0 .. 7
  BY StageType
<1>5. HopForward(row, row')
  BY <1>3, <1>4 DEF HopForward
<1>6. /\ Entered(row) \subseteq Entered(a) /\ Entered(a) \subseteq Entered(b)
      /\ Entered(b) \subseteq Entered(row')
      /\ Unbroken(row') => Unbroken(b)
      /\ Unbroken(b) => Unbroken(a)
      /\ Unbroken(a) => Unbroken(row)
  BY <1>1, <1>2, HopIsForward
<1> QED BY <1>5, <1>6

LEMMA LateForward ==
    ASSUME RowInv(row), LateFailure
    PROVE  /\ Entered(row) \subseteq Entered(row')
           /\ Unbroken(row') => Unbroken(row) /\ row.status = "DISPATCHED"
<1> DEFINE e == [from |-> "DISPATCHED", to |-> "FAILED_DISPATCH"]
<1>1. row \in Row /\ e \in Audit /\ Extends(row', row, e)
  BY DEF RowInv, LateFailure, Overwritten, Extends, Audit, RequestStatus, PreAcceptance
<1>2. Entered(row) \subseteq Entered(row')
  BY <1>1, ExtendedHistory
<1> QED BY <1>2, OverwrittenKeepsRowInv DEF LateFailure

\* A request gets out of a terminal status, or back from a later stage, only by
\* the second commit of a dispatch handler.
THEOREM BackOnlyByDrainHolds == Spec => BackOnlyByDrain
<1> DEFINE Back == \/ row.status \in TERMINAL_STATUSES /\ row'.status # row.status
                   \/ Stage(row'.status) < Stage(row.status)
           Late == DrainEnds /\ row' = Overwritten(row)
<1>1. IInv /\ [Next]_vars => [Back => Late]_vars
  <2> SUFFICES ASSUME IInv, RowStep, Back PROVE Late
    BY StepKeepsIInv
  <2>1. ~Arrows
    <3>1. Stage(row.status) \in 0 .. 7 /\ Stage(row'.status) \in 0 .. 7
      BY StageType
    <3> QED BY <3>1, ArrowsForward DEF HopForward, IInv
  <2> QED BY <2>1 DEF RowStep, LateFailure
<1> QED BY <1>1, RowInvariant, PTL DEF Spec, BackOnlyByDrain

ReasonsInv ==
    Unbroken(row) =>
        /\ cancelReason # NoReason => row.status = "CANCELLED"
        /\ disputeReason # NoReason => Stage(row.status) >= 5

ColumnInv == ReasonsInv /\ OutsideCallsAfterWork

\* The arrows the two calling handlers and their reasons depend on.
LEMMA AfterWorkArrows ==
    /\ Stage("DONE") = 3 /\ Stage("ACCEPTED_BY_USER") = 4
    /\ Stage("DISPUTE") = 5 /\ Stage("CANCELLED") = 7
    /\ \A a : CanTransition(a, "ACCEPTED_BY_USER") => a = "DONE"
    /\ \A a : CanTransition(a, "DISPUTE") => a \in {"DONE", "ACCEPTED_BY_USER"}
    /\ "CANCELLED" \in TERMINAL_STATUSES
<1>1. \A a : CanTransition(a, "ACCEPTED_BY_USER") => a = "DONE"
  BY DEF CanTransition, BaseTransitions
<1>2. \A a : CanTransition(a, "DISPUTE") => a \in {"DONE", "ACCEPTED_BY_USER"}
  BY DEF CanTransition, BaseTransitions
<1>3. /\ Stage("DONE") = 3 /\ Stage("ACCEPTED_BY_USER") = 4
      /\ Stage("DISPUTE") = 5 /\ Stage("CANCELLED") = 7
  BY DEF Stage, PreAcceptance
<1> QED BY <1>1, <1>2, <1>3 DEF TERMINAL_STATUSES

\* Whoever may accept or dispute the work finds it reported done.
LEMMA DoneEntered ==
    ASSUME NEW r, RowInv(r), r.status \in {"DONE", "ACCEPTED_BY_USER"}
    PROVE  "DONE" \in Entered(r)
<1>1. Work[3] = "DONE" /\ Work[4] = "ACCEPTED_BY_USER"
  BY DEF Work
<1>2. PICK k \in 3 .. 4 : Along(r, k)
  BY <1>1 DEF RowInv, OnPath
<1>3. r.stamp["DISPATCHED"] \in Nat
  BY DEF RowInv, Row, StampedStatuses
<1>4. /\ r.stamp["DISPATCHED"] + 3 \in 1 .. Len(r.history)
      /\ r.history[r.stamp["DISPATCHED"] + 3].to = "DONE"
  BY <1>1, <1>2, <1>3 DEF Along
<1> QED BY <1>4 DEF Entered

\* What each handler does to the reasons and to the outside world.
ColumnStep ==
    \/ UNCHANGED <<reasons, outside>>
    \/ Accept
    \/ \E why \in Reasons : Dispute(why) \/ Cancel(why)
    \/ CallLost

LEMMA EveryStepIsColumnStep == ASSUME [Next]_vars PROVE ColumnStep
BY DEF Next, ColumnStep, vars, Classify, Assign, DispatchCall, DrainFails, DrainDelivers,
       DrainGone, PartnerResponse, ConfirmSettlement, Reschedule, Transition

\* The calls: only from statuses that have DONE behind them.
LEMMA StepKeepsOutside ==
    ASSUME IInv, ColumnInv, [Next]_vars
    PROVE  OutsideCallsAfterWork'
<1> USE DEF OutsideCallsAfterWork
<1>1. Entered(row) \subseteq Entered(row')
  BY StepKeepsIInv, ArrowsForward, LateForward DEF RowStep, IInv
<1>2. /\ CanTransition(row.status, "ACCEPTED_BY_USER") => "DONE" \in Entered(row)
      /\ CanTransition(row.status, "DISPUTE") => "DONE" \in Entered(row)
  BY AfterWorkArrows, DoneEntered DEF IInv
<1>3. CASE UNCHANGED outside \/ \E why \in Reasons : Cancel(why)
  BY <1>1, <1>3 DEF Cancel, outside, ColumnInv
<1>4. CASE Accept
  BY <1>1, <1>2, <1>4 DEF Accept, Enter, Legal
<1>5. ASSUME NEW why \in Reasons, Dispute(why) PROVE OutsideCallsAfterWork'
  BY <1>1, <1>2, <1>5 DEF Dispute, Enter, Legal
<1>6. CASE CallLost
  BY <1>1, <1>2, <1>6 DEF CallLost
<1> QED BY <1>3, <1>4, <1>5, <1>6, EveryStepIsColumnStep DEF ColumnStep

LEMMA StepKeepsReasons == ASSUME IInv, ColumnInv, [Next]_vars PROVE ReasonsInv'
<1> USE DEF ReasonsInv, ColumnInv
<1>1. /\ Stage(row.status) \in 0 .. 7 /\ Stage(row'.status) \in 0 .. 7
      /\ Stage("DISPATCHED") = 0 /\ "CANCELLED" # "DISPATCHED"
  BY StageType DEF Stage, PreAcceptance
<1> SUFFICES ASSUME Unbroken(row')
             PROVE  /\ cancelReason' # NoReason => row'.status = "CANCELLED"
                    /\ disputeReason' # NoReason => Stage(row'.status) >= 5
  OBVIOUS
<1>2. /\ cancelReason # NoReason => row.status = "CANCELLED"
      /\ disputeReason # NoReason => Stage(row.status) >= 5
  BY StepKeepsIInv, ArrowsForward, LateForward DEF RowStep, IInv
<1>3. \/ HopForward(row, row')
      \/ cancelReason = NoReason /\ disputeReason = NoReason
  BY <1>1, <1>2, StepKeepsIInv, ArrowsForward, LateForward DEF RowStep, IInv
<1>4. CASE UNCHANGED reasons
  BY <1>1, <1>2, <1>3, <1>4, AfterWorkArrows DEF HopForward, reasons
<1>5. ASSUME NEW why \in Reasons, Dispute(why)
      PROVE  /\ cancelReason' # NoReason => row'.status = "CANCELLED"
             /\ disputeReason' # NoReason => Stage(row'.status) >= 5
  <2>1. row'.status = "DISPUTE" /\ cancelReason' = cancelReason
    BY <1>5 DEF Dispute, Enter, Transitioned
  <2> QED BY <1>2, <1>3, <2>1, AfterWorkArrows DEF HopForward
<1>6. ASSUME NEW why \in Reasons, Cancel(why)
      PROVE  /\ cancelReason' # NoReason => row'.status = "CANCELLED"
             /\ disputeReason' # NoReason => Stage(row'.status) >= 5
  <2>1. row'.status = "CANCELLED"
    BY <1>6 DEF Cancel, Enter, Transitioned
  <2> QED BY <2>1, AfterWorkArrows
<1>7. CASE Accept \/ CallLost
  BY <1>4, <1>7 DEF Accept, CallLost
<1> QED BY <1>4, <1>5, <1>6, <1>7, EveryStepIsColumnStep DEF ColumnStep

THEOREM ColumnInvariant == Spec => []ColumnInv
<1>1. Init => ColumnInv
  BY DEF Init, ColumnInv, ReasonsInv, OutsideCallsAfterWork
<1>2. IInv /\ ColumnInv /\ [Next]_vars => ColumnInv'
  BY StepKeepsOutside, StepKeepsReasons DEF ColumnInv
<1> QED BY <1>1, <1>2, RowInvariant, PTL DEF Spec

\* No settlement and no claim before the work has been reported done, lost
\* commits and late drains included.
THEOREM OutsideCallsAfterWorkHolds == Spec => []OutsideCallsAfterWork
<1>1. ColumnInv => OutsideCallsAfterWork
  BY DEF ColumnInv
<1> QED BY <1>1, ColumnInvariant, PTL

\* The first reason of a cancellation or dispute is not overwritten as long as
\* the trail is unbroken.
THEOREM FirstReasonKeptHolds == Spec => FirstReasonKept
<1> DEFINE Kept == Unbroken(row) =>
                     /\ cancelReason # NoReason => cancelReason' = cancelReason
                     /\ disputeReason # NoReason => disputeReason' = disputeReason
<1>1. ColumnInv /\ [Next]_vars => [Kept]_vars
  <2> SUFFICES ASSUME ColumnInv, [Next]_vars PROVE Kept
    OBVIOUS
  <2>1. ASSUME NEW why \in Reasons, Dispute(why) PROVE Kept
    BY <2>1, AfterWorkArrows DEF Dispute, Enter, Legal, ColumnInv, ReasonsInv
  <2>2. ASSUME NEW why \in Reasons, Cancel(why) PROVE Kept
    BY <2>2 DEF Cancel, ColumnInv, ReasonsInv
  <2>3. CASE Accept \/ CallLost \/ UNCHANGED <<reasons, outside>>
    BY <2>3 DEF Accept, CallLost, reasons
  <2> QED BY <2>1, <2>2, <2>3, EveryStepIsColumnStep DEF ColumnStep
<1> QED BY <1>1, ColumnInvariant, PTL DEF Spec, FirstReasonKept

----------------------------------------------------------------------------
\* Refinement: a handler follows at most three arrows, the lifecycle allows
\* four in one step, and a drain is its exception.

\* Both modules draw the same table.
LEMMA SameTable ==
    /\ Lifecycle!RequestStatus = RequestStatus
    /\ \A a, b : Lifecycle!CanTransition(a, b) = CanTransition(a, b)
<1>1. Lifecycle!TERMINAL_STATUSES = TERMINAL_STATUSES
  BY DEF Lifecycle!TERMINAL_STATUSES, TERMINAL_STATUSES
<1>2. Lifecycle!RequestStatus = RequestStatus
  BY <1>1 DEF Lifecycle!RequestStatus, RequestStatus, Lifecycle!PreAcceptance, PreAcceptance
<1>3. Lifecycle!BaseTransitions = BaseTransitions
  BY DEF Lifecycle!BaseTransitions, BaseTransitions
<1> QED BY <1>1, <1>2, <1>3 DEF Lifecycle!CanTransition, CanTransition

LEMMA HopIsLifecycleHop ==
    ASSUME NEW a, NEW b, RowHop(a, b), NEW S, a.status \in S
    PROVE  b.status \in Lifecycle!Hops(S)
<1>1. CASE b = a
  BY <1>1 DEF Lifecycle!Hops
<1>2. ASSUME NEW t, Legal(a, t), b = Transitioned(a, t)
      PROVE  b.status \in Lifecycle!Hops(S)
  <2>1. b.status = t /\ CanTransition(a.status, t) /\ t \in RequestStatus
    BY <1>2, ArrowType DEF Transitioned, Legal
  <2> QED BY <2>1, SameTable DEF Lifecycle!Hops
<1> QED BY <1>1, <1>2 DEF RowHop

\* dispatched_at is set by the arrow into DISPATCHED and never cleared.
LEMMA ArrowsDispatched ==
    ASSUME RowInv(row), RowInv(row'), Arrows
    PROVE  (row'.stamp["DISPATCHED"] > 0) =
             (row.stamp["DISPATCHED"] > 0 \/ row'.status \in {"DISPATCHED", "FAILED_DISPATCH"})
<1>1. row'.status \in {"DISPATCHED", "FAILED_DISPATCH"} => row'.stamp["DISPATCHED"] > 0
  BY DEF RowInv, OnPath, Along
<1> QED BY <1>1 DEF Arrows

\* The handlers of the service implement the lifecycle promised to observers.
THEOREM ImplementsLifecycleHolds == Spec => ImplementsLifecycle
<1>1. Init => Lifecycle!Init
  BY DEF Init, Lifecycle!Init, StampedStatuses
<1>2. IInv /\ [Next]_vars => [Lifecycle!Next]_<<row.status, row.stamp["DISPATCHED"] > 0>>
  <2> SUFFICES ASSUME IInv, IInv', RowStep PROVE Lifecycle!Next
    BY StepKeepsIInv
  <2>1. CASE Arrows
    <3>1. PICK a, b : RowHop(row, a) /\ RowHop(a, b) /\ RowHop(b, row')
      BY <2>1 DEF Arrows
    <3>2. row'.status \in Lifecycle!Hops(Lifecycle!Hops(Lifecycle!Hops({row.status})))
      BY <3>1, HopIsLifecycleHop
    <3>3. row'.status \in
            Lifecycle!Hops(Lifecycle!Hops(Lifecycle!Hops(Lifecycle!Hops({row.status}))))
      BY <3>2 DEF Lifecycle!Hops
    <3>4. row.status \in Lifecycle!RequestStatus
      BY SameTable DEF IInv, RowInv, Row
    <3>5. Lifecycle!Move
      BY <3>3, <3>4 DEF Lifecycle!Move, Lifecycle!Leads
    <3> QED BY <2>1, <3>5, ArrowsDispatched DEF IInv, Lifecycle!Next
  <2>2. CASE LateFailure
    <3>1. /\ row'.status = "FAILED_DISPATCH" /\ row'.stamp = row.stamp
          /\ row.stamp["DISPATCHED"] > 0
      BY <2>2 DEF LateFailure, Overwritten
    <3> QED BY <3>1 DEF Lifecycle!Next, Lifecycle!StaleFailure
  <2> QED BY <2>1, <2>2 DEF RowStep
<1> QED BY <1>1, <1>2, RowInvariant, PTL DEF Spec, ImplementsLifecycle, Lifecycle!Spec

----------------------------------------------------------------------------
\* What every implementation of the lifecycle inherits from its only action.

\* Every status has a stage.
LEMMA LifecycleStage == \A s : Lifecycle!Stage(s) \in 0 .. 7
  BY DEF Lifecycle!Stage, Lifecycle!PreAcceptance

\* One hop never leads to an earlier stage and never leaves a terminal status.
LEMMA LeadForward ==
    ASSUME NEW S, NEW b \in Lifecycle!Hops(S)
    PROVE  \E a \in S : /\ Lifecycle!Stage(a) <= Lifecycle!Stage(b)
                        /\ a \in Lifecycle!TERMINAL_STATUSES => b = a
<1> USE DEF Lifecycle!TERMINAL_STATUSES, Lifecycle!PreAcceptance
<1>1. CASE b \in S
  BY <1>1, LifecycleStage
<1>2. ASSUME NEW a \in S, <<a, b>> \in Lifecycle!BaseTransitions
      PROVE  Lifecycle!Stage(a) <= Lifecycle!Stage(b) /\ a \notin Lifecycle!TERMINAL_STATUSES
  BY <1>2 DEF Lifecycle!BaseTransitions, Lifecycle!Stage
<1>3. ASSUME NEW a \in S, a \in Lifecycle!RequestStatus \ Lifecycle!TERMINAL_STATUSES, b = "CANCELLED"
      PROVE  Lifecycle!Stage(a) <= Lifecycle!Stage(b)
  BY <1>3 DEF Lifecycle!RequestStatus, Lifecycle!Stage
<1> QED BY <1>1, <1>2, <1>3 DEF Lifecycle!Hops, Lifecycle!CanTransition

\* Nor do several hops in one commit.
LEMMA MoveForward ==
    ASSUME Lifecycle!TypeOK, Lifecycle!Move
    PROVE  /\ Lifecycle!Stage(row.status) <= Lifecycle!Stage(row'.status)
           /\ row.status \in Lifecycle!TERMINAL_STATUSES => row'.status = row.status
           /\ row'.status \in Lifecycle!RequestStatus
<1> DEFINE At(s) == Lifecycle!Stage(s)
           Final(s) == s \in Lifecycle!TERMINAL_STATUSES
           H(S) == Lifecycle!Hops(S)
<1>1. row'.status \in H(H(H(H({row.status})))) /\ row'.status \in Lifecycle!RequestStatus
  BY DEF Lifecycle!Move, Lifecycle!Leads, Lifecycle!TypeOK, Lifecycle!Hops
<1>2. PICK z \in H(H(H({row.status}))) :
        At(z) <= At(row'.status) /\ (Final(z) => row'.status = z)
  BY <1>1, LeadForward
<1>3. PICK y \in H(H({row.status})) : At(y) <= At(z) /\ (Final(y) => z = y)
  BY LeadForward
<1>4. PICK x \in H({row.status}) : At(x) <= At(y) /\ (Final(x) => y = x)
  BY LeadForward
<1>5. At(row.status) <= At(x) /\ (Final(row.status) => x = row.status)
  BY LeadForward
<1> QED BY <1>1, <1>2, <1>3, <1>4, <1>5, LifecycleStage

LEMMA LifecycleType == Lifecycle!Spec => []Lifecycle!TypeOK
<1> DEFINE view == <<row.status, row.stamp["DISPATCHED"] > 0>>
<1>1. Lifecycle!Init => Lifecycle!TypeOK
  BY DEF Lifecycle!Init, Lifecycle!TypeOK, Lifecycle!RequestStatus, Lifecycle!PreAcceptance
<1>2. Lifecycle!TypeOK /\ [Lifecycle!Next]_view => Lifecycle!TypeOK'
  <2>1. ASSUME Lifecycle!TypeOK, UNCHANGED view PROVE Lifecycle!TypeOK'
    BY <2>1 DEF Lifecycle!TypeOK
  <2>2. ASSUME Lifecycle!TypeOK, Lifecycle!Next PROVE Lifecycle!TypeOK'
    BY <2>2, MoveForward DEF Lifecycle!Next, Lifecycle!StaleFailure, Lifecycle!TypeOK,
       Lifecycle!RequestStatus, Lifecycle!PreAcceptance
  <2> QED BY <2>1, <2>2
<1> QED BY <1>1, <1>2, PTL DEF Lifecycle!Spec

\* A terminal request (PAID, CANCELLED, REJECTED) changes its status only if it
\* has been dispatched, and then to FAILED_DISPATCH, whichever handlers run.
THEOREM TerminalIsFinal == Spec => Lifecycle!TerminalFinal
<1> DEFINE view == <<row.status, row.stamp["DISPATCHED"] > 0>>
           Final == row.status \in Lifecycle!TERMINAL_STATUSES /\ (row.status)' # row.status
                      => row.stamp["DISPATCHED"] > 0 /\ (row.status)' = "FAILED_DISPATCH"
<1>1. Lifecycle!TypeOK /\ [Lifecycle!Next]_view => [Final]_view
  BY MoveForward DEF Lifecycle!Next, Lifecycle!StaleFailure
<1> QED BY <1>1, LifecycleType, ImplementsLifecycleHolds, PTL
        DEF ImplementsLifecycle, Lifecycle!Spec, Lifecycle!TerminalFinal

\* The stages after the partner's acceptance are only passed forward, but for
\* the same exception.
THEOREM StagesOnlyForward == Spec => Lifecycle!StageForward
<1> DEFINE view == <<row.status, row.stamp["DISPATCHED"] > 0>>
           Forward == Lifecycle!Stage((row.status)') < Lifecycle!Stage(row.status)
                        => row.stamp["DISPATCHED"] > 0 /\ (row.status)' = "FAILED_DISPATCH"
<1>1. Lifecycle!TypeOK /\ [Lifecycle!Next]_view => [Forward]_view
  BY MoveForward, LifecycleStage DEF Lifecycle!Next, Lifecycle!StaleFailure
<1> QED BY <1>1, LifecycleType, ImplementsLifecycleHolds, PTL
        DEF ImplementsLifecycle, Lifecycle!Spec, Lifecycle!StageForward
=============================================================================
