--------------------------- MODULE OnCreateProofs ---------------------------
(***************************************************************************)
(* Proofs about OnCreate, for any number of callers, workers and partners: *)
(* the type invariant, one request per Idempotency-Key, and the lifecycle  *)
(* kept by the pipeline and by everybody who acts beside it.  The          *)
(* inductive invariant of the intake says what the unique index is worth:  *)
(* one call at most has an uncommitted row, and none has when a row with   *)
(* the key is committed.  That of the pipeline counts the chances of a     *)
(* dispatch: a run that has not come to it, and a message that can be      *)
(* taken up, are one each, and only what goes wrong makes more of them.    *)
(***************************************************************************)
EXTENDS OnCreate, RequestFsmProofs, SequenceTheorems, FiniteSetTheorems, TLAPS

RequestRow == [status : RequestStatus, partner : Partners \cup {NoPartner},
               category : BOOLEAN, dispatched : BOOLEAN]
MessageRow == [request : Nat, attempts : Nat, visible : BOOLEAN,
               status : {"PENDING", "PROCESSING", "DONE", "FAILED"}]
Run == [pc : {"idle", "classify", "assign", "dispatch", "drain", "mark"},
        msg : Nat, tries : Nat, held : BOOLEAN, lock : BOOLEAN,
        seen : Partners \cup {NoPartner}]
Call == [pc : {"idle", "flush", "flushed", "answered"}, answer : Nat]

IntakeInv ==
    /\ Len(requests) <= 1
    /\ \A c, d \in Callers : calls[c].pc = "flushed" /\ calls[d].pc = "flushed" => c = d
    /\ \A c \in Callers : calls[c].pc = "flushed" => requests = << >>
    /\ \A c \in Callers : calls[c].pc = "answered" => calls[c].answer = 1 /\ requests # << >>

\* A run that is on has a message.
RunsInv == \A w \in Workers : runs[w].pc # "idle" => runs[w].msg \in DOMAIN queue

\* A request in DISPATCHED or FAILED_DISPATCH has been dispatched, and so has that of
\* a run that has come to the drain.
DispatchedInv ==
    /\ \A r \in DOMAIN requests :
         requests[r].status \in {"DISPATCHED", "FAILED_DISPATCH"} => requests[r].dispatched
    /\ \A w \in Workers : runs[w].pc = "drain" =>
         requests # << >> /\ \A r \in DOMAIN requests : requests[r].dispatched

IInv == TypeOK /\ IntakeInv /\ RunsInv /\ DispatchedInv

\* What the lifecycle allows a row to become.
Goes(old, new) ==
    /\ new.status \in Leads[old.status] \/ (old.dispatched /\ new.status = "FAILED_DISPATCH")
    /\ new.dispatched = (old.dispatched \/ new.status \in {"DISPATCHED", "FAILED_DISPATCH"})

\* One step of the row: its columns stay of their type, and it goes where the
\* lifecycle leads.
RowStep ==
    \/ requests' = requests
    \/ \E r \in DOMAIN requests, row \in RequestRow :
         /\ requests' = [requests EXCEPT ![r] = row]
         /\ Goes(requests[r], row)

\* No run comes to the drain.
NoneToDrain == \A w \in Workers : runs'[w].pc = "drain" => runs[w].pc = "drain"

----------------------------------------------------------------------------
LEMMA Statuses ==
    /\ CLASSIFIABLE \subseteq RequestStatus /\ ASSIGNABLE \subseteq RequestStatus
    /\ \A s \in {"NEW", "CLASSIFIED", "NEEDS_REVIEW", "ASSIGNED", "DISPATCHED", "ACCEPTED",
                 "MATCHING", "FAILED_DISPATCH", "CANCELLED", "CLASSIFYING"} : s \in RequestStatus
  BY DEF CLASSIFIABLE, ASSIGNABLE, RequestStatus, PreAcceptance, TERMINAL_STATUSES

\* The arrows the stages and the others follow.
LEMMA Arrows ==
    /\ CanTransition("NEW", "CLASSIFYING") /\ CanTransition("CLASSIFYING", "CLASSIFIED")
    /\ CanTransition("CLASSIFIED", "NEEDS_REVIEW")
    /\ \A s \in ASSIGNABLE \ {"MATCHING"} : CanTransition(s, "MATCHING")
    /\ CanTransition("MATCHING", "ASSIGNED") /\ CanTransition("ASSIGNED", "DISPATCHED")
    /\ \A s \in {"ACCEPTED", "MATCHING", "FAILED_DISPATCH"} : CanTransition("DISPATCHED", s)
  BY DEF CanTransition, BaseTransitions, ASSIGNABLE

LEMMA ClassifyLeads ==
    ASSUME NEW s \in CLASSIFIABLE, NEW c \in BOOLEAN
    PROVE  ClassifiedAs(s, c) \in RequestStatus /\ ClassifiedAs(s, c) \in Leads[s]
<1>1. s \in RequestStatus BY Statuses
<1>2. CASE s = "NEW" BY <1>1, <1>2, Statuses, Arrows, LeadsAlong DEF ClassifiedAs
<1>3. CASE s = "CLASSIFIED" BY <1>1, <1>3, Statuses, Arrows, LeadsAlong DEF ClassifiedAs
<1>4. CASE s = "NEEDS_REVIEW" BY <1>1, <1>4, Statuses, LeadsAlong DEF ClassifiedAs
<1> QED BY <1>2, <1>3, <1>4 DEF CLASSIFIABLE

LEMMA AssignLeads == ASSUME NEW s \in ASSIGNABLE PROVE "ASSIGNED" \in Leads[s]
<1>1. s \in RequestStatus /\ "MATCHING" \in RequestStatus /\ "ASSIGNED" \in RequestStatus
  BY Statuses
<1> QED BY <1>1, Arrows, LeadsAlong

\* The rows the services leave, and the drains.
LEMMA RowOf ==
    ASSUME NEW row \in RequestRow, NEW s \in RequestStatus, NEW p \in Partners, NEW b \in BOOLEAN
    PROVE  /\ [row EXCEPT !.status = s] \in RequestRow
           /\ [row EXCEPT !.status = s].status = s
           /\ [row EXCEPT !.status = s].dispatched = row.dispatched
           /\ [row EXCEPT !.partner = p] \in RequestRow
           /\ [row EXCEPT !.partner = p].status = row.status
           /\ [row EXCEPT !.partner = p].dispatched = row.dispatched
           /\ [row EXCEPT !.status = s, !.category = b] \in RequestRow
           /\ [row EXCEPT !.status = s, !.category = b].status = s
           /\ [row EXCEPT !.status = s, !.category = b].dispatched = row.dispatched
           /\ [row EXCEPT !.status = s, !.dispatched = b] \in RequestRow
           /\ [row EXCEPT !.status = s, !.dispatched = b].status = s
           /\ [row EXCEPT !.status = s, !.dispatched = b].dispatched = b
           /\ [row EXCEPT !.status = s, !.partner = p] \in RequestRow
           /\ [row EXCEPT !.status = s, !.partner = p].status = s
           /\ [row EXCEPT !.status = s, !.partner = p].dispatched = row.dispatched
  BY DEF RequestRow

LEMMA ClassifiedRow ==
    ASSUME NEW row \in RequestRow, row.status \in CLASSIFIABLE, NEW c \in BOOLEAN
    PROVE  /\ Classified(row, c) \in RequestRow /\ Goes(row, Classified(row, c))
<1>1. row.status \in RequestStatus /\ row.dispatched \in BOOLEAN
  BY DEF RequestRow
<1>2. /\ ClassifiedAs(row.status, c) \in RequestStatus
      /\ ClassifiedAs(row.status, c) \in Leads[row.status]
  BY ClassifyLeads
<1>3. ClassifiedAs(row.status, c) \notin {"DISPATCHED", "FAILED_DISPATCH"}
  BY DEF ClassifiedAs
<1>4. Classified(row, c) = [row EXCEPT !.status = ClassifiedAs(row.status, c), !.category = TRUE]
  BY DEF Classified
<1>5. /\ Classified(row, c) \in RequestRow
      /\ Classified(row, c).status = ClassifiedAs(row.status, c)
      /\ Classified(row, c).dispatched = row.dispatched
  BY <1>2, <1>4 DEF RequestRow
<1> QED BY <1>1, <1>2, <1>3, <1>5 DEF Goes

LEMMA AssignedRow ==
    ASSUME NEW row \in RequestRow, row.status \in ASSIGNABLE, NEW p \in Partners
    PROVE  /\ Assigned(row, p) \in RequestRow /\ Goes(row, Assigned(row, p))
<1>1. "ASSIGNED" \in RequestStatus /\ "ASSIGNED" \in Leads[row.status] /\ row.dispatched \in BOOLEAN
  BY Statuses, AssignLeads DEF RequestRow
<1>2. /\ Assigned(row, p) \in RequestRow /\ Assigned(row, p).status = "ASSIGNED"
      /\ Assigned(row, p).dispatched = row.dispatched
  BY <1>1 DEF Assigned, RequestRow
<1> QED BY <1>1, <1>2 DEF Goes

\* An arrow of the table, or the failure of a drain; FAILED_DISPATCH is entered from
\* DISPATCHED only.
LEMMA MovedRow ==
    ASSUME NEW row \in RequestRow, NEW s \in RequestStatus,
           row.status \in {"DISPATCHED", "FAILED_DISPATCH"} => row.dispatched,
           CanTransition(row.status, s) \/ (row.dispatched /\ s = "FAILED_DISPATCH")
    PROVE  /\ Moved(row, s) \in RequestRow /\ Goes(row, Moved(row, s))
           /\ Moved(row, s).status = s
           /\ s = "DISPATCHED" => Moved(row, s).dispatched
<1>1. row.status \in RequestStatus /\ row.dispatched \in BOOLEAN
  BY DEF RequestRow
<1>2. /\ Moved(row, s) \in RequestRow /\ Moved(row, s).status = s
      /\ Moved(row, s).dispatched = (row.dispatched \/ s = "DISPATCHED")
  BY <1>1 DEF Moved, RequestRow
<1>3. s \in Leads[row.status] \/ (row.dispatched /\ s = "FAILED_DISPATCH")
  BY <1>1, LeadsAlong
<1>4. s = "FAILED_DISPATCH" => row.dispatched
  BY <1>1 DEF CanTransition, BaseTransitions, PreAcceptance
<1> QED BY <1>1, <1>2, <1>3, <1>4 DEF Goes

\* The fallback: FAILED_DISPATCH or DISPATCHED again, with another partner.
LEMMA FallbackRow ==
    ASSUME NEW row \in RequestRow, NEW s \in {"DISPATCHED", "FAILED_DISPATCH"}, NEW p \in Partners,
           row.dispatched, row.status \in {"MATCHING", "DISPATCHED"}
    PROVE  LET new == [Moved(row, s) EXCEPT !.partner = p]
           IN  new \in RequestRow /\ Goes(row, new)
<1>1. row.status \in RequestStatus /\ s \in RequestStatus
  BY Statuses DEF RequestRow
<1>2. /\ [Moved(row, s) EXCEPT !.partner = p] \in RequestRow
      /\ [Moved(row, s) EXCEPT !.partner = p].status = s
      /\ [Moved(row, s) EXCEPT !.partner = p].dispatched = TRUE
  BY <1>1 DEF Moved, RequestRow
<1>3. s = "DISPATCHED" => s \in Leads[row.status]
  <2>1. /\ CanTransition("DISPATCHED", "MATCHING") /\ CanTransition("MATCHING", "ASSIGNED")
        /\ CanTransition("ASSIGNED", "DISPATCHED")
    BY Arrows DEF ASSIGNABLE
  <2> QED BY <1>1, <2>1, Statuses, LeadsAlong
<1> HIDE DEF Moved
<1> QED BY <1>2, <1>3 DEF Goes

\* A row that only changes its partner.
LEMMA PartnerRow ==
    ASSUME NEW row \in RequestRow, NEW p \in Partners,
           row.status \in {"DISPATCHED", "FAILED_DISPATCH"} => row.dispatched
    PROVE  /\ [row EXCEPT !.partner = p] \in RequestRow
           /\ Goes(row, [row EXCEPT !.partner = p])
<1>1. row.status \in RequestStatus /\ row.dispatched \in BOOLEAN
  BY DEF RequestRow
<1>2. /\ [row EXCEPT !.partner = p] \in RequestRow
      /\ [row EXCEPT !.partner = p].status = row.status
      /\ [row EXCEPT !.partner = p].dispatched = row.dispatched
  BY DEF RequestRow
<1>3. row.status \in Leads[row.status]
  BY <1>1, LeadsAlong
<1> QED BY <1>1, <1>2, <1>3 DEF Goes

----------------------------------------------------------------------------
\* Steps of everybody but the intake.
LEMMA RowStepKeepsIntake ==
    ASSUME IInv, RowStep, UNCHANGED calls
    PROVE  /\ requests' \in Seq(RequestRow)
           /\ IntakeInv'
<1>1. requests \in Seq(RequestRow) /\ calls \in [Callers -> Call]
  BY DEF IInv, TypeOK, RequestRow, Call
<1>2. CASE requests' = requests
  BY <1>1, <1>2 DEF IInv, IntakeInv
<1>3. ASSUME NEW r \in DOMAIN requests, NEW row \in RequestRow,
             requests' = [requests EXCEPT ![r] = row]
      PROVE  requests' \in Seq(RequestRow) /\ IntakeInv'
  <2>1. requests' \in Seq(RequestRow) /\ Len(requests') = Len(requests)
    BY <1>1, <1>3, ExceptSeq
  <2>2. requests # << >> /\ requests' # << >>
    BY <1>1, <2>1
  <2> QED BY <2>1, <2>2 DEF IInv, IntakeInv
<1> QED BY <1>2, <1>3 DEF RowStep

\* What has been dispatched stays so, and is what a drain works on.
LEMMA DispatchedKept ==
    ASSUME IInv, RowStep, NoneToDrain
    PROVE  DispatchedInv'
<1>1. requests \in Seq(RequestRow) /\ DispatchedInv
  BY DEF IInv, TypeOK, RequestRow
<1>2. CASE requests' = requests
  BY <1>1, <1>2 DEF DispatchedInv, NoneToDrain
<1>3. ASSUME NEW r \in DOMAIN requests, NEW row \in RequestRow,
             requests' = [requests EXCEPT ![r] = row], Goes(requests[r], row)
      PROVE  DispatchedInv'
  <2>1. DOMAIN requests' = DOMAIN requests /\ requests' # << >>
    BY <1>1, <1>3
  <2>2. \A q \in DOMAIN requests : requests'[q] = IF q = r THEN row ELSE requests[q]
    BY <1>3
  <2>3. /\ row.status \in {"DISPATCHED", "FAILED_DISPATCH"} => row.dispatched
        /\ requests[r].dispatched => row.dispatched
    BY <1>3 DEF Goes
  <2> QED BY <1>1, <2>1, <2>2, <2>3 DEF DispatchedInv, NoneToDrain
<1> QED BY <1>2, <1>3 DEF RowStep

LEMMA MarkedQueue ==
    ASSUME NEW q \in Seq(MessageRow), NEW m \in DOMAIN q, NEW e \in MessageRow
    PROVE  /\ [q EXCEPT ![m] = e] \in Seq(MessageRow)
           /\ Len([q EXCEPT ![m] = e]) = Len(q)
           /\ DOMAIN [q EXCEPT ![m] = e] = DOMAIN q
           /\ \A n \in DOMAIN q : [q EXCEPT ![m] = e][n] \in MessageRow
<1>1. [q EXCEPT ![m] = e] \in Seq(MessageRow) /\ Len([q EXCEPT ![m] = e]) = Len(q)
  BY ExceptSeq
<1> QED BY <1>1

LEMMA ClaimedQueue ==
    ASSUME IInv, NEW w \in Workers, runs[w].pc # "idle"
    PROVE  /\ runs[w].msg \in DOMAIN queue
           /\ Claimed(w) \in Seq(MessageRow)
           /\ Len(Claimed(w)) = Len(queue) /\ DOMAIN Claimed(w) = DOMAIN queue
<1>1. queue \in Seq(MessageRow) /\ runs[w] \in Run /\ runs[w].msg \in DOMAIN queue
  BY DEF IInv, TypeOK, RunsInv, MessageRow, Run
<1>2. queue[runs[w].msg] \in MessageRow
  BY <1>1
<1> DEFINE e == [queue[runs[w].msg] EXCEPT !.status = "PROCESSING", !.visible = FALSE,
                                            !.attempts = runs[w].tries]
<1>3. e \in MessageRow
  BY <1>1, <1>2 DEF MessageRow, Run
<1>4. Claimed(w) = IF runs[w].held THEN [queue EXCEPT ![runs[w].msg] = e] ELSE queue
  BY DEF Claimed
<1> HIDE DEF e
<1> QED BY <1>1, <1>3, <1>4, MarkedQueue

\* A run goes on to another stage, or ends.
LEMMA RunsStep ==
    ASSUME IInv, NEW w \in Workers, NEW run \in Run, runs' = [runs EXCEPT ![w] = run],
           DOMAIN queue' = DOMAIN queue, Len(queue') = Len(queue),
           \/ run.msg = runs[w].msg /\ runs[w].pc # "idle"
           \/ run.msg = 0 /\ run.pc = "idle"
           \/ run.msg \in DOMAIN queue
    PROVE  /\ runs' \in [Workers -> Run]
           /\ \A x \in Workers : runs'[x].msg \in 0 .. Len(queue')
           /\ RunsInv'
           /\ run.pc # "drain" => NoneToDrain
<1>1. /\ runs \in [Workers -> Run] /\ queue \in Seq(MessageRow)
      /\ \A x \in Workers : runs[x].msg \in 0 .. Len(queue)
      /\ \A x \in Workers : runs[x].pc # "idle" => runs[x].msg \in DOMAIN queue
  BY DEF IInv, TypeOK, RunsInv, Run, MessageRow
<1>2. runs' \in [Workers -> Run]
  BY <1>1
<1>3. \A x \in Workers : runs'[x] = IF x = w THEN run ELSE runs[x]
  BY <1>1
<1>4. DOMAIN queue = 1 .. Len(queue) /\ Len(queue) \in Nat
  BY <1>1
<1>5. run.msg \in 0 .. Len(queue) /\ (run.pc # "idle" => run.msg \in DOMAIN queue)
  BY <1>1, <1>4
<1> QED BY <1>1, <1>2, <1>3, <1>5 DEF RunsInv, NoneToDrain

LEMMA Counters == ASSUME IInv PROVE {dispatches, crashes, raises, expiries} \subseteq Nat
  BY DEF IInv, TypeOK

\* What every step of a run, or of time, comes to.
LEMMA Assembled ==
    ASSUME IInv, UNCHANGED <<calls, autonomy>>, RowStep, queue' \in Seq(MessageRow),
           runs' \in [Workers -> Run], RunsInv',
           \A x \in Workers : runs'[x].msg \in 0 .. Len(queue'),
           {dispatches', crashes', raises', expiries'} \subseteq Nat,
           NoneToDrain \/ DispatchedInv'
    PROVE  IInv'
<1>1. requests' \in Seq(RequestRow) /\ IntakeInv'
  BY RowStepKeepsIntake
<1>2. TypeOK'
  BY <1>1 DEF IInv, TypeOK, RequestRow, MessageRow, Run
<1>3. DispatchedInv'
  BY DispatchedKept
<1> QED BY <1>1, <1>2, <1>3 DEF IInv

Stages == {"classify", "assign", "dispatch", "drain", "mark"}

LEMMA RunOf ==
    ASSUME IInv, NEW w \in Workers
    PROVE  /\ runs[w] \in Run /\ Idle \in Run
           /\ \A pc \in Stages :
                /\ [runs[w] EXCEPT !.pc = pc] \in Run
                /\ [runs[w] EXCEPT !.pc = pc, !.lock = TRUE] \in Run
                /\ \A p \in Partners \cup {NoPartner} :
                     /\ [runs[w] EXCEPT !.pc = pc, !.seen = p] \in Run
                     /\ [runs[w] EXCEPT !.pc = pc, !.held = FALSE, !.lock = FALSE, !.seen = p]
                          \in Run
<1>1. runs[w] \in Run
  BY DEF IInv, TypeOK, Run
<1>2. Idle \in Run
  BY DEF Idle, Run
<1> QED BY <1>1, <1>2 DEF Run, Stages

LEMMA CommitsIInv ==
    ASSUME IInv, NEW w \in Workers, NEW r \in DOMAIN requests, NEW row \in RequestRow,
           Goes(requests[r], row), NEW pc \in Stages, pc = "drain" => row.dispatched,
           runs[w].pc # "idle", Commits(w, r, row, pc), dispatches' \in Nat
    PROVE  IInv' /\ RowStep
<1> DEFINE seen == IF pc = "drain" THEN row.partner ELSE NoPartner
           run == [runs[w] EXCEPT !.pc = pc, !.held = FALSE, !.lock = FALSE, !.seen = seen]
<1>0. seen \in Partners \cup {NoPartner}
  BY DEF RequestRow
<1>1. run \in Run /\ run.msg = runs[w].msg /\ run.pc = pc
  <2>1. run \in Run /\ runs[w] \in Run
    BY <1>0, RunOf
  <2>2. run.msg = runs[w].msg /\ run.pc = pc
    BY <2>1 DEF Run
  <2> QED BY <2>1, <2>2
<1>2. runs \in [Workers -> Run]
  BY DEF IInv, TypeOK, Run
<1>3. runs' = [runs EXCEPT ![w] = run]
  BY <1>2 DEF Commits
<1>4. RowStep
  BY DEF Commits, RowStep
<1>5. /\ queue' \in Seq(MessageRow) /\ DOMAIN queue' = DOMAIN queue /\ Len(queue') = Len(queue)
  BY ClaimedQueue DEF Commits
<1> HIDE DEF run
<1>6. /\ runs' \in [Workers -> Run] /\ RunsInv'
      /\ \A x \in Workers : runs'[x].msg \in 0 .. Len(queue')
      /\ pc # "drain" => NoneToDrain
  BY <1>1, <1>3, <1>5, RunsStep
<1>7. {dispatches', crashes', raises', expiries'} \subseteq Nat
  BY Counters DEF Commits, faults
<1>8. ASSUME pc = "drain" PROVE DispatchedInv'
  <2>1. /\ requests \in Seq(RequestRow) /\ Len(requests) <= 1 /\ Len(requests) \in Nat
    BY DEF IInv, TypeOK, IntakeInv, RequestRow
  <2>2. DOMAIN requests = {r}
    <3>1. DOMAIN requests = 1 .. Len(requests)
      BY <2>1
    <3>2. r = 1 /\ Len(requests) = 1
      BY <2>1, <3>1
    <3> QED BY <3>1, <3>2
  <2>3. requests' = [requests EXCEPT ![r] = row]
    BY DEF Commits
  <2>4. DOMAIN requests' = {r} /\ requests'[r] = row
    BY <2>2, <2>3
  <2>5. requests' # << >>
    BY <2>4
  <2> QED BY <1>8, <2>4, <2>5 DEF DispatchedInv
<1> QED BY <1>4, <1>5, <1>6, <1>7, <1>8, Assembled DEF Commits

LEMMA PassesIInv ==
    ASSUME IInv, NEW w \in Workers, NEW pc \in Stages \ {"drain"}, runs[w].pc # "idle",
           Passes(w, pc)
    PROVE  IInv' /\ RowStep
<1> DEFINE run == [runs[w] EXCEPT !.pc = pc, !.lock = TRUE]
<1>1. run \in Run /\ run.msg = runs[w].msg /\ run.pc # "drain"
  <2>1. run \in Run /\ runs[w] \in Run
    BY RunOf
  <2>2. run.msg = runs[w].msg /\ run.pc = pc
    BY <2>1 DEF Run
  <2> QED BY <2>1, <2>2
<1>2. runs \in [Workers -> Run] /\ queue \in Seq(MessageRow)
  BY DEF IInv, TypeOK, Run, MessageRow
<1>3. runs' = [runs EXCEPT ![w] = run]
  BY <1>2 DEF Passes
<1>4. RowStep /\ queue' = queue
  BY DEF Passes, RowStep, intake
<1> HIDE DEF run
<1>5. /\ runs' \in [Workers -> Run] /\ RunsInv' /\ NoneToDrain
      /\ \A x \in Workers : runs'[x].msg \in 0 .. Len(queue')
  BY <1>1, <1>3, <1>4, RunsStep
<1>6. {dispatches', crashes', raises', expiries'} \subseteq Nat
  BY Counters DEF Passes, faults
<1> QED BY <1>2, <1>4, <1>5, <1>6, Assembled DEF Passes, intake

\* The end of a run, the message left with a status.
LEMMA EndsIInv ==
    ASSUME IInv, NEW w \in Workers, runs' = [runs EXCEPT ![w] = Idle], RowStep,
           UNCHANGED <<calls, autonomy>>, queue' \in Seq(MessageRow),
           DOMAIN queue' = DOMAIN queue, Len(queue') = Len(queue),
           {dispatches', crashes', raises', expiries'} \subseteq Nat
    PROVE  IInv'
<1>1. Idle.msg = 0 /\ Idle.pc = "idle"
  BY DEF Idle
<1>2. /\ runs' \in [Workers -> Run] /\ RunsInv' /\ NoneToDrain
      /\ \A x \in Workers : runs'[x].msg \in 0 .. Len(queue')
  BY <1>1, RunOf, RunsStep
<1> QED BY <1>2, Assembled

LEMMA RequestRows == ASSUME IInv, NEW r \in DOMAIN requests
                     PROVE  /\ requests[r] \in RequestRow /\ requests[r].status \in RequestStatus
                            /\ requests[r].dispatched \in BOOLEAN
                            /\ requests[r].status \in {"DISPATCHED", "FAILED_DISPATCH"}
                                 => requests[r].dispatched
<1>1. requests \in Seq(RequestRow)
  BY DEF IInv, TypeOK, RequestRow
<1>2. requests[r] \in RequestRow
  BY <1>1
<1> QED BY <1>2 DEF RequestRow, IInv, DispatchedInv

----------------------------------------------------------------------------
\* The actions.
LEMMA InitIInv == Init => IInv
<1> SUFFICES ASSUME Init PROVE IInv
  OBVIOUS
<1>1. TypeOK
  BY ConstantsAssumption DEF Init, TypeOK, Idle
<1>2. IntakeInv /\ RunsInv /\ DispatchedInv
  BY DEF Init, IntakeInv, RunsInv, DispatchedInv, Idle
<1> QED BY <1>1, <1>2 DEF IInv

\* A call of the intake moves: the row is there, or created, or still to come.
LEMMA CallsIInv ==
    ASSUME IInv, NEW c \in Callers, Lookup(c) \/ Flush(c) \/ CallAgain(c)
    PROVE  IInv' /\ requests' = requests
<1>1. calls \in [Callers -> Call] /\ TypeOK /\ IntakeInv /\ RunsInv
  BY DEF IInv, TypeOK, Call
<1>2. /\ UNCHANGED <<requests, queue, runs, autonomy, dispatches, faults>>
      /\ calls' \in [Callers -> Call]
      /\ \A d \in Callers \ {c} : calls'[d] = calls[d]
  <2>1. \A pc \in {"flush", "flushed"} : [calls[c] EXCEPT !.pc = pc] \in Call
    BY <1>1 DEF Call
  <2>2. [pc |-> "answered", answer |-> 1] \in Call /\ [pc |-> "idle", answer |-> 0] \in Call
    BY DEF Call
  <2> QED BY <1>1, <2>1, <2>2 DEF Lookup, Flush, CallAgain
<1>3. /\ calls'[c].pc = "answered" => calls'[c].answer = 1 /\ requests # << >>
      /\ calls'[c].pc = "flushed" =>
           requests = << >> /\ \A d \in Callers : calls[d].pc # "flushed"
  BY <1>1 DEF Lookup, Flush, CallAgain, Call
<1>4. TypeOK'
  BY <1>1, <1>2 DEF TypeOK, Call, faults
<1>5. IntakeInv' /\ RunsInv' /\ DispatchedInv'
  BY <1>1, <1>2, <1>3 DEF IInv, IntakeInv, RunsInv, DispatchedInv
<1> QED BY <1>2, <1>4, <1>5 DEF IInv

LEMMA CommitIntakeIInv ==
    ASSUME IInv, NEW c \in Callers, CommitIntake(c)
    PROVE  IInv' /\ requests = << >> /\ requests' = <<NewRequest>>
<1>1. /\ calls \in [Callers -> Call] /\ queue \in Seq(MessageRow) /\ calls[c].pc = "flushed"
      /\ TypeOK /\ IntakeInv /\ RunsInv
  BY DEF IInv, TypeOK, Call, MessageRow, CommitIntake
<1>2. requests = << >> /\ requests' = <<NewRequest>> /\ Len(requests') = 1
  <2>1. requests = << >>
    BY <1>1 DEF IntakeInv
  <2>2. requests' = Append(requests, NewRequest)
    BY DEF CommitIntake
  <2>3. Append(<< >>, NewRequest) = <<NewRequest>> /\ Len(<<NewRequest>>) = 1
    OBVIOUS
  <2> QED BY <2>1, <2>2, <2>3
<1>3. NewRequest \in RequestRow /\ Message(1) \in MessageRow
  BY Statuses DEF NewRequest, RequestRow, Message, MessageRow
<1>4. /\ queue' = Append(queue, Message(1))
      /\ calls' = [calls EXCEPT ![c] = [pc |-> "answered", answer |-> 1]]
      /\ UNCHANGED <<runs, autonomy, dispatches, faults>>
  BY <1>2 DEF CommitIntake
<1>5. /\ queue' \in Seq(MessageRow) /\ Len(queue') = Len(queue) + 1 /\ Len(queue) \in Nat
      /\ DOMAIN queue' = 1 .. Len(queue') /\ DOMAIN queue = 1 .. Len(queue)
  BY <1>1, <1>3, <1>4, AppendProperties
<1>6. calls' \in [Callers -> Call]
  BY <1>1, <1>4 DEF Call
<1>7. TypeOK'
  <2>1. requests' \in Seq(RequestRow)
    BY <1>2, <1>3
  <2> QED BY <1>1, <1>4, <1>5, <1>6, <2>1 DEF TypeOK, Call, RequestRow, MessageRow, faults
<1>8. IntakeInv'
  BY <1>1, <1>2, <1>4 DEF IntakeInv, Call
<1>9. RunsInv'
  BY <1>1, <1>4, <1>5 DEF RunsInv
<1>10. DispatchedInv'
  <2>1. DispatchedInv /\ DOMAIN requests' = {1} /\ requests'[1] = NewRequest
    BY <1>2 DEF IInv
  <2>2. \A w \in Workers : runs'[w].pc # "drain"
    BY <1>2, <1>4, <2>1 DEF DispatchedInv
  <2> QED BY <2>1, <2>2 DEF DispatchedInv, NewRequest
<1> QED BY <1>2, <1>7, <1>8, <1>9, <1>10 DEF IInv

LEMMA ClaimIInv ==
    ASSUME IInv, NEW w \in Workers, NEW m \in DOMAIN queue, Claim(w, m)
    PROVE  IInv' /\ requests' = requests
<1>1. queue \in Seq(MessageRow) /\ queue[m] \in MessageRow /\ m \in Nat
  <2>1. queue \in Seq(MessageRow)
    BY DEF IInv, TypeOK, MessageRow
  <2> QED BY <2>1
<1> DEFINE run == [pc |-> "classify", msg |-> m, held |-> TRUE, lock |-> FALSE,
                   tries |-> queue[m].attempts + 1, seen |-> NoPartner]
<1>2. run \in Run /\ run.msg = m /\ run.pc # "drain"
  BY <1>1 DEF Run, MessageRow
<1>3. runs' = [runs EXCEPT ![w] = run] /\ queue' = queue
  BY DEF Claim
<1> HIDE DEF run
<1>4. /\ runs' \in [Workers -> Run] /\ RunsInv' /\ NoneToDrain
      /\ \A x \in Workers : runs'[x].msg \in 0 .. Len(queue')
  BY <1>2, <1>3, RunsStep
<1>5. /\ RowStep /\ UNCHANGED <<calls, autonomy, requests>>
      /\ {dispatches', crashes', raises', expiries'} \subseteq Nat
  BY Counters DEF Claim, RowStep, faults
<1> QED BY <1>1, <1>3, <1>4, <1>5, Assembled

LEMMA ClassifyIInv ==
    ASSUME IInv, NEW w \in Workers, Classify(w)
    PROVE  IInv' /\ RowStep
<1>1. PICK r \in DOMAIN requests :
        /\ At(w, "classify", r)
        /\ \/ \E confident \in BOOLEAN, pc \in {"mark", AfterClassify} :
                /\ requests[r].status \in CLASSIFIABLE
                /\ Commits(w, r, Classified(requests[r], confident), pc)
                /\ UNCHANGED dispatches
           \/ Passes(w, AfterClassify)
  BY Zenon DEF Classify
<1>2. runs[w].pc # "idle" /\ {AfterClassify, "mark"} \subseteq Stages \ {"drain"}
  BY <1>1 DEF At, AfterClassify, Stages
<1>3. ASSUME requests[r].status \in CLASSIFIABLE, NEW confident \in BOOLEAN,
             NEW pc \in {"mark", AfterClassify},
             Commits(w, r, Classified(requests[r], confident), pc), UNCHANGED dispatches
      PROVE  IInv' /\ RowStep
  <2>1. /\ Classified(requests[r], confident) \in RequestRow
        /\ Goes(requests[r], Classified(requests[r], confident))
    BY <1>3, RequestRows, ClassifiedRow
  <2>2. dispatches' \in Nat /\ pc \in Stages /\ pc # "drain"
    BY <1>2, <1>3, Counters
  <2> QED BY <1>2, <1>3, <2>1, <2>2, CommitsIInv
<1>4. CASE Passes(w, AfterClassify)
  BY <1>2, <1>4, PassesIInv
<1> QED BY <1>1, <1>3, <1>4

LEMMA AssignIInv ==
    ASSUME IInv, NEW w \in Workers, Assign(w)
    PROVE  IInv' /\ RowStep
<1>1. PICK r \in DOMAIN requests :
        /\ At(w, "assign", r)
        /\ \/ \E p \in Partners :
                /\ Assignable(requests[r])
                /\ Commits(w, r, Assigned(requests[r], p), AfterAssign)
                /\ UNCHANGED dispatches
           \/ \E pc \in {"mark", AfterAssign} : Passes(w, pc)
  BY DEF Assign
<1>2. runs[w].pc # "idle" /\ {AfterAssign, "mark"} \subseteq Stages \ {"drain"}
  BY <1>1 DEF At, AfterAssign, Stages
<1>3. ASSUME Assignable(requests[r]), NEW p \in Partners,
             Commits(w, r, Assigned(requests[r], p), AfterAssign), UNCHANGED dispatches
      PROVE  IInv' /\ RowStep
  <2>1. Assigned(requests[r], p) \in RequestRow /\ Goes(requests[r], Assigned(requests[r], p))
    BY <1>3, RequestRows, AssignedRow DEF Assignable
  <2>2. dispatches' \in Nat
    BY <1>3, Counters
  <2> QED BY <1>2, <1>3, <2>1, <2>2, CommitsIInv
<1>4. ASSUME NEW pc \in {"mark", AfterAssign}, Passes(w, pc) PROVE IInv' /\ RowStep
  BY <1>2, <1>4, PassesIInv
<1> QED BY <1>1, <1>3, <1>4

LEMMA DispatchIInv ==
    ASSUME IInv, NEW w \in Workers, DispatchStage(w)
    PROVE  IInv' /\ RowStep
<1>1. PICK r \in DOMAIN requests :
        /\ At(w, "dispatch", r)
        /\ IF Dispatchable(requests[r])
           THEN /\ Commits(w, r, Moved(requests[r], "DISPATCHED"), "drain")
                /\ dispatches' = dispatches + 1
           ELSE Passes(w, "mark")
  BY DEF DispatchStage
<1>2. runs[w].pc # "idle" /\ "mark" \in Stages \ {"drain"} /\ "drain" \in Stages
  BY <1>1 DEF At, Stages
<1>3. ASSUME Dispatchable(requests[r]), dispatches' = dispatches + 1,
             Commits(w, r, Moved(requests[r], "DISPATCHED"), "drain")
      PROVE  IInv' /\ RowStep
  <2>1. CanTransition(requests[r].status, "DISPATCHED") /\ "DISPATCHED" \in RequestStatus
    BY <1>3, Statuses, Arrows DEF Dispatchable
  <2>2. /\ Moved(requests[r], "DISPATCHED") \in RequestRow
        /\ Goes(requests[r], Moved(requests[r], "DISPATCHED"))
        /\ Moved(requests[r], "DISPATCHED").dispatched
    BY <2>1, RequestRows, MovedRow
  <2>3. dispatches' \in Nat
    BY <1>3, Counters
  <2> QED BY <1>2, <1>3, <2>2, <2>3, CommitsIInv
<1>4. CASE Passes(w, "mark")
  BY <1>2, <1>4, PassesIInv
<1> QED BY <1>1, <1>3, <1>4

\* The drain: the run has dispatched, so its failure is one the lifecycle knows of.
LEMMA DrainedIInv ==
    ASSUME IInv, NEW w \in Workers, Drained(w)
    PROVE  IInv' /\ RowStep
<1> DEFINE run == [runs[w] EXCEPT !.pc = "mark", !.seen = NoPartner]
<1>1. PICK r \in DOMAIN requests :
        /\ At(w, "drain", r)
        /\ \/ UNCHANGED requests
           \/ \E p \in Partners : requests' = [requests EXCEPT ![r].partner = p]
           \/ requests' = [requests EXCEPT ![r].status = "FAILED_DISPATCH"]
        /\ runs' = [runs EXCEPT ![w].pc = "mark", ![w].seen = NoPartner]
        /\ UNCHANGED <<intake, autonomy, dispatches, faults>>
  BY DEF Drained
<1>2. run \in Run /\ run.msg = runs[w].msg /\ run.pc = "mark" /\ runs[w].pc = "drain"
  <2>1. run \in Run /\ runs[w] \in Run
    BY RunOf DEF Stages
  <2> QED BY <1>1, <2>1 DEF Run, At
<1>3. runs' = [runs EXCEPT ![w] = run] /\ queue' = queue
  <2>1. runs \in [Workers -> Run]
    BY DEF IInv, TypeOK, Run
  <2> QED BY <1>1, <2>1 DEF intake
<1> HIDE DEF run
<1>4. /\ runs' \in [Workers -> Run] /\ RunsInv' /\ NoneToDrain
      /\ \A x \in Workers : runs'[x].msg \in 0 .. Len(queue')
  BY <1>2, <1>3, RunsStep
<1>5. /\ requests[r] \in RequestRow /\ requests[r].dispatched
      /\ requests[r].status \in RequestStatus
  BY <1>2, RequestRows DEF IInv, DispatchedInv
<1>6. RowStep
  <2>1. CASE UNCHANGED requests
    BY <2>1 DEF RowStep
  <2>2. ASSUME NEW p \in Partners, requests' = [requests EXCEPT ![r].partner = p] PROVE RowStep
    <3>1. [requests[r] EXCEPT !.partner = p] \in RequestRow
          /\ Goes(requests[r], [requests[r] EXCEPT !.partner = p])
      BY <1>5, PartnerRow
    <3> QED BY <2>2, <3>1 DEF RowStep
  <2>3. CASE requests' = [requests EXCEPT ![r].status = "FAILED_DISPATCH"]
    <3> DEFINE row == [requests[r] EXCEPT !.status = "FAILED_DISPATCH"]
    <3>1. row \in RequestRow /\ row.status = "FAILED_DISPATCH" /\ row.dispatched
      BY <1>5, Statuses DEF RequestRow
    <3>2. Goes(requests[r], row)
      BY <1>5, <3>1 DEF Goes
    <3> QED BY <2>3, <3>1, <3>2 DEF RowStep
  <2> QED BY <1>1, <2>1, <2>2, <2>3
<1>7. /\ UNCHANGED <<calls, autonomy>> /\ queue' \in Seq(MessageRow)
      /\ {dispatches', crashes', raises', expiries'} \subseteq Nat
  BY <1>1, Counters DEF faults, intake, IInv, TypeOK, MessageRow
<1> QED BY <1>4, <1>6, <1>7, Assembled

\* The message of a run that ends, with the claim and a status.
LEMMA EndedQueue ==
    ASSUME IInv, NEW w \in Workers, runs[w].pc # "idle",
           NEW q \in Seq(MessageRow), q = Claimed(w),
           NEW st \in {"PENDING", "DONE", "FAILED"}
    PROVE  LET m == runs[w].msg
           IN  \A ended \in {[q EXCEPT ![m].status = st],
                             [q EXCEPT ![m].status = st, ![m].visible = FALSE]} :
                 /\ ended \in Seq(MessageRow)
                 /\ DOMAIN ended = DOMAIN queue /\ Len(ended) = Len(queue)
<1> DEFINE m == runs[w].msg
<1>1. m \in DOMAIN q /\ Len(q) = Len(queue) /\ DOMAIN q = DOMAIN queue
  BY ClaimedQueue
<1>2. q[m] \in MessageRow
  BY <1>1
<1>3. /\ [q[m] EXCEPT !.status = st] \in MessageRow
      /\ [q[m] EXCEPT !.status = st, !.visible = FALSE] \in MessageRow
  BY <1>2 DEF MessageRow
<1>4. /\ [q EXCEPT ![m].status = st] = [q EXCEPT ![m] = [q[m] EXCEPT !.status = st]]
      /\ [q EXCEPT ![m].status = st, ![m].visible = FALSE]
           = [q EXCEPT ![m] = [q[m] EXCEPT !.status = st, !.visible = FALSE]]
  BY <1>1
<1> QED BY <1>1, <1>3, <1>4, MarkedQueue

LEMMA MarkIInv ==
    ASSUME IInv, NEW w \in Workers, Mark(w)
    PROVE  IInv' /\ RowStep
<1>1. /\ runs[w].pc # "idle" /\ runs' = [runs EXCEPT ![w] = Idle]
      /\ queue' = [Claimed(w) EXCEPT ![runs[w].msg].status = "DONE"]
      /\ UNCHANGED <<calls, requests, autonomy, dispatches, faults>>
  BY DEF Mark
<1>2. Claimed(w) \in Seq(MessageRow)
  BY <1>1, ClaimedQueue
<1>3. queue' \in Seq(MessageRow) /\ DOMAIN queue' = DOMAIN queue /\ Len(queue') = Len(queue)
  BY <1>1, <1>2, EndedQueue
<1>4. RowStep /\ {dispatches', crashes', raises', expiries'} \subseteq Nat
  BY <1>1, Counters DEF RowStep, faults
<1> QED BY <1>1, <1>3, <1>4, EndsIInv

LEMMA RaiseIInv ==
    ASSUME IInv, NEW w \in Workers, Raise(w)
    PROVE  IInv' /\ RowStep
<1>1. /\ RetryOrFail(w) /\ raises' = raises + 1
      /\ UNCHANGED <<calls, autonomy, dispatches, crashes, expiries>>
      /\ \/ runs[w].pc \in {"classify", "assign", "dispatch", "drain"} /\ UNCHANGED requests
         \/ \E r \in DOMAIN requests, p \in Partners :
              At(w, "assign", r) /\ requests' = [requests EXCEPT ![r].partner = p]
  BY DEF Raise
<1>2. runs[w].pc # "idle"
  BY <1>1 DEF At
<1>3. Claimed(w) \in Seq(MessageRow)
  BY <1>2, ClaimedQueue
<1>4. PICK st \in {"PENDING", "DONE", "FAILED"} :
        queue' = [Claimed(w) EXCEPT ![runs[w].msg].status = st, ![runs[w].msg].visible = FALSE]
  BY <1>1 DEF RetryOrFail
<1>5. queue' \in Seq(MessageRow) /\ DOMAIN queue' = DOMAIN queue /\ Len(queue') = Len(queue)
  BY <1>2, <1>3, <1>4, EndedQueue
<1>6. RowStep
  <2>1. CASE UNCHANGED requests
    BY <2>1 DEF RowStep
  <2>2. ASSUME NEW r \in DOMAIN requests, NEW p \in Partners,
               requests' = [requests EXCEPT ![r].partner = p]
        PROVE  RowStep
    <3>1. [requests[r] EXCEPT !.partner = p] \in RequestRow
          /\ Goes(requests[r], [requests[r] EXCEPT !.partner = p])
      BY RequestRows, PartnerRow
    <3> QED BY <2>2, <3>1 DEF RowStep
  <2> QED BY <1>1, <2>1, <2>2
<1>7. runs' = [runs EXCEPT ![w] = Idle] /\ {dispatches', crashes', raises', expiries'} \subseteq Nat
  BY <1>1, Counters DEF RetryOrFail
<1> QED BY <1>1, <1>5, <1>6, <1>7, EndsIInv

\* A run that dies leaves everything as it was committed.
LEMMA LostIInv ==
    ASSUME IInv, NEW w \in Workers, Crash(w) \/ DeadlockVictim(w)
    PROVE  IInv' /\ RowStep
<1>1. runs' = [runs EXCEPT ![w] = Idle] /\ UNCHANGED <<calls, queue, requests, autonomy>>
  BY DEF Crash, DeadlockVictim, intake
<1>2. RowStep /\ queue' \in Seq(MessageRow)
  BY <1>1 DEF RowStep, IInv, TypeOK, MessageRow
<1>3. {dispatches', crashes', raises', expiries'} \subseteq Nat
  BY Counters DEF Crash, DeadlockVictim, faults
<1> QED BY <1>1, <1>2, <1>3, EndsIInv

LEMMA DueIInv ==
    ASSUME IInv, NEW m \in DOMAIN queue, Due(m)
    PROVE  IInv' /\ RowStep
<1>1. queue \in Seq(MessageRow) /\ runs \in [Workers -> Run]
      /\ \A x \in Workers : runs[x].msg \in 0 .. Len(queue)
  BY DEF IInv, TypeOK, MessageRow, Run
<1>2. queue[m] \in MessageRow
  BY <1>1
<1>3. [queue[m] EXCEPT !.visible = TRUE] \in MessageRow
  BY <1>2 DEF MessageRow
<1>4. queue' = [queue EXCEPT ![m] = [queue[m] EXCEPT !.visible = TRUE]]
  BY <1>1 DEF Due
<1>5. queue' \in Seq(MessageRow) /\ DOMAIN queue' = DOMAIN queue /\ Len(queue') = Len(queue)
  BY <1>1, <1>3, <1>4, MarkedQueue
<1>6. RunsInv' /\ NoneToDrain
  BY <1>5 DEF IInv, RunsInv, Due, NoneToDrain
<1>7. /\ RowStep /\ UNCHANGED <<calls, autonomy, runs>>
      /\ {dispatches', crashes', raises', expiries'} \subseteq Nat
  BY Counters DEF Due, RowStep
<1> QED BY <1>1, <1>5, <1>6, <1>7, Assembled

LEMMA OthersIInv == ASSUME IInv, Others PROVE IInv' /\ RowStep
<1>1. UNCHANGED <<calls, queue, runs, autonomy, dispatches, faults>>
  BY DEF Others, intake
<1>2. PICK r \in DOMAIN requests :
        \/ \E c \in BOOLEAN :
             /\ requests[r].status \in CLASSIFIABLE
             /\ requests' = [requests EXCEPT ![r] = Classified(requests[r], c)]
        \/ \E p \in Partners :
             /\ Assignable(requests[r])
             /\ requests' = [requests EXCEPT ![r] = Assigned(requests[r], p)]
        \/ \E s \in RequestStatus :
             /\ CanTransition(requests[r].status, s)
             /\ requests' = [requests EXCEPT ![r] = Moved(requests[r], s)]
        \/ \E p \in Partners, s \in {"DISPATCHED", "FAILED_DISPATCH"} :
             /\ requests[r].dispatched /\ requests[r].status \in {"MATCHING", "DISPATCHED"}
             /\ requests' = [requests EXCEPT ![r] = [Moved(requests[r], s) EXCEPT !.partner = p]]
        \/ /\ requests[r].dispatched
           /\ requests' = [requests EXCEPT ![r] = Moved(requests[r], "FAILED_DISPATCH")]
        \/ \E p \in Partners :
             requests' = [requests EXCEPT ![r] = [requests[r] EXCEPT !.partner = p]]
  BY DEF Others
<1>3. /\ requests[r] \in RequestRow /\ "FAILED_DISPATCH" \in RequestStatus
      /\ requests[r].status \in {"DISPATCHED", "FAILED_DISPATCH"} => requests[r].dispatched
  BY RequestRows, Statuses
<1>4. PICK row \in RequestRow : requests' = [requests EXCEPT ![r] = row] /\ Goes(requests[r], row)
  <2>1. ASSUME NEW c \in BOOLEAN, requests[r].status \in CLASSIFIABLE,
               requests' = [requests EXCEPT ![r] = Classified(requests[r], c)]
        PROVE  \E row \in RequestRow :
                 requests' = [requests EXCEPT ![r] = row] /\ Goes(requests[r], row)
    BY <1>3, <2>1, ClassifiedRow
  <2>2. ASSUME NEW p \in Partners, Assignable(requests[r]),
               requests' = [requests EXCEPT ![r] = Assigned(requests[r], p)]
        PROVE  \E row \in RequestRow :
                 requests' = [requests EXCEPT ![r] = row] /\ Goes(requests[r], row)
    BY <1>3, <2>2, AssignedRow DEF Assignable
  <2>3. ASSUME NEW s \in RequestStatus,
               \/ CanTransition(requests[r].status, s)
               \/ requests[r].dispatched /\ s = "FAILED_DISPATCH",
               requests' = [requests EXCEPT ![r] = Moved(requests[r], s)]
        PROVE  \E row \in RequestRow :
                 requests' = [requests EXCEPT ![r] = row] /\ Goes(requests[r], row)
    BY <1>3, <2>3, MovedRow
  <2>4. ASSUME NEW p \in Partners, NEW s \in {"DISPATCHED", "FAILED_DISPATCH"},
               requests[r].dispatched, requests[r].status \in {"MATCHING", "DISPATCHED"},
               requests' = [requests EXCEPT ![r] = [Moved(requests[r], s) EXCEPT !.partner = p]]
        PROVE  \E row \in RequestRow :
                 requests' = [requests EXCEPT ![r] = row] /\ Goes(requests[r], row)
    BY <1>3, <2>4, FallbackRow
  <2>5. ASSUME NEW p \in Partners,
               requests' = [requests EXCEPT ![r] = [requests[r] EXCEPT !.partner = p]]
        PROVE  \E row \in RequestRow :
                 requests' = [requests EXCEPT ![r] = row] /\ Goes(requests[r], row)
    BY <1>3, <2>5, PartnerRow
  <2> QED BY <1>2, <1>3, <2>1, <2>2, <2>3, <2>4, <2>5
<1>5. RowStep
  BY <1>4 DEF RowStep
<1>6. /\ queue' \in Seq(MessageRow) /\ runs' \in [Workers -> Run] /\ RunsInv' /\ NoneToDrain
      /\ \A x \in Workers : runs'[x].msg \in 0 .. Len(queue')
      /\ {dispatches', crashes', raises', expiries'} \subseteq Nat
  BY <1>1 DEF IInv, TypeOK, RunsInv, NoneToDrain, MessageRow, Run, faults
<1> QED BY <1>1, <1>5, <1>6, Assembled

----------------------------------------------------------------------------
Created == requests = << >> /\ requests' = <<NewRequest>>

LEMMA StepIInv == ASSUME IInv, [Next]_vars PROVE IInv' /\ (RowStep \/ Created)
<1>1. ASSUME NEW c \in Callers, Lookup(c) \/ Flush(c) \/ CallAgain(c)
      PROVE  IInv' /\ RowStep
  BY <1>1, CallsIInv DEF RowStep
<1>2. ASSUME NEW c \in Callers, CommitIntake(c) PROVE IInv' /\ Created
  BY <1>2, CommitIntakeIInv DEF Created
<1>3. ASSUME NEW w \in Workers, NEW m \in DOMAIN queue, Claim(w, m) PROVE IInv' /\ RowStep
  BY <1>3, ClaimIInv DEF RowStep
<1>4. ASSUME NEW w \in Workers, Step(w) PROVE IInv' /\ RowStep
  BY <1>4, ClassifyIInv, AssignIInv, DispatchIInv, DrainedIInv, MarkIInv DEF Step
<1>5. ASSUME NEW w \in Workers, Raise(w) \/ Crash(w) \/ DeadlockVictim(w)
      PROVE  IInv' /\ RowStep
  BY <1>5, RaiseIInv, LostIInv
<1>6. ASSUME NEW m \in DOMAIN queue, Due(m) PROVE IInv' /\ RowStep
  BY <1>6, DueIInv
<1>7. CASE Others
  BY <1>7, OthersIInv
<1>8. CASE UNCHANGED vars
  <2>1. RowStep
    BY <1>8 DEF RowStep, vars
  <2>2. TypeOK'
    BY <1>8 DEF IInv, TypeOK, vars, faults
  <2>3. IntakeInv'
    BY <1>8 DEF IInv, IntakeInv, vars
  <2>4. RunsInv'
    BY <1>8 DEF IInv, RunsInv, vars
  <2>5. DispatchedInv'
    BY <1>8 DEF IInv, DispatchedInv, vars
  <2> QED BY <2>1, <2>2, <2>3, <2>4, <2>5 DEF IInv
<1> QED BY <1>1, <1>2, <1>3, <1>4, <1>5, <1>6, <1>7, <1>8 DEF Next

\* Index, claim and lock keep the inductive invariant, whoever interleaves.
THEOREM OnCreateInvariant == Spec => []IInv
<1>1. IInv /\ [Next]_vars => IInv'
  BY StepIInv
<1> QED BY InitIInv, <1>1, PTL DEF Spec

\* Every variable keeps its type, whichever of the processes act.
THEOREM TypeCorrect == Spec => []TypeOK
<1>1. IInv => TypeOK
  BY DEF IInv
<1> QED BY <1>1, OnCreateInvariant, PTL

\* However many calls carry the key (_intake), one request is created and all
\* who are answered are answered with it.
THEOREM OneRequestPerKeyHolds == Spec => []OneRequestPerKey
<1>1. IInv => OneRequestPerKey
  <2> SUFFICES ASSUME IInv PROVE OneRequestPerKey
    OBVIOUS
  <2>1. requests \in Seq(RequestRow) /\ Len(requests) <= 1
    BY DEF IInv, TypeOK, IntakeInv, RequestRow
  <2>2. requests # << >> => 1 \in DOMAIN requests
    BY <2>1
  <2> QED BY <2>1, <2>2 DEF IInv, IntakeInv, OneRequestPerKey
<1> QED BY <1>1, OnCreateInvariant, PTL

\* The table of the module and that of the lifecycle it is to implement.
LEMMA SameLeads ==
    /\ Lifecycle!RequestStatus = RequestStatus
    /\ \A s \in RequestStatus : Lifecycle!Leads[s] = Leads[s]
<1>1. Lifecycle!TERMINAL_STATUSES = TERMINAL_STATUSES
  BY DEF Lifecycle!TERMINAL_STATUSES, TERMINAL_STATUSES
<1>2. Lifecycle!RequestStatus = RequestStatus
  BY <1>1 DEF Lifecycle!RequestStatus, RequestStatus, Lifecycle!PreAcceptance, PreAcceptance
<1>3. Lifecycle!BaseTransitions = BaseTransitions
  BY DEF Lifecycle!BaseTransitions, BaseTransitions
<1>4. \A a, b : Lifecycle!CanTransition(a, b) = CanTransition(a, b)
  BY <1>1, <1>2, <1>3 DEF Lifecycle!CanTransition, CanTransition
<1>5. \A S : Lifecycle!Hops(S) = Hops(S)
  BY <1>2, <1>4 DEF Lifecycle!Hops, Hops
<1>6. ASSUME NEW s \in RequestStatus PROVE Lifecycle!Leads[s] = Leads[s]
  <2>1. /\ Leads[s] = Hops(Hops(Hops(Hops({s}))))
        /\ Lifecycle!Leads[s]
             = Lifecycle!Hops(Lifecycle!Hops(Lifecycle!Hops(Lifecycle!Hops({s}))))
    BY <1>2 DEF Lifecycle!Leads, Leads
  <2> QED BY <2>1, <1>5
<1> QED BY <1>2, <1>6

\* Pipeline, operators, users, partners and the drains together only ever move the
\* request as RequestLifecycle promises: no stage, however often it is repeated, takes
\* back an acceptance or a cancellation, and what the drain of a dispatch does to a row
\* that has moved on is FAILED_DISPATCH and nothing else.
THEOREM ImplementsLifecycleHolds == Spec => ImplementsLifecycle
<1> DEFINE Seen == IF requests = << >> THEN FALSE ELSE requests[1].dispatched
<1>1. Init => Status = "NEW" /\ Seen = FALSE
  BY DEF Init, Status
<1>2. IInv /\ [Next]_vars =>
        \/ Status' = Status /\ Seen' = Seen
        \/ /\ Status' \in Lifecycle!Leads[Status] \/ (Seen /\ Status' = "FAILED_DISPATCH")
           /\ Seen' = (Seen \/ Status' \in {"DISPATCHED", "FAILED_DISPATCH"})
  <2> SUFFICES ASSUME IInv, [Next]_vars,
                      ~(Status' = Status /\ Seen' = Seen)
               PROVE  /\ \/ Status' \in Lifecycle!Leads[Status]
                         \/ Seen /\ Status' = "FAILED_DISPATCH"
                      /\ Seen' = (Seen \/ Status' \in {"DISPATCHED", "FAILED_DISPATCH"})
    OBVIOUS
  <2>1. IInv' /\ (RowStep \/ Created)
    BY StepIInv
  <2>2. requests \in Seq(RequestRow) /\ Len(requests) <= 1 /\ Len(requests) \in Nat
    BY DEF IInv, TypeOK, IntakeInv, RequestRow
  <2>3. ~Created
    <3> SUFFICES ASSUME Created PROVE Status' = Status /\ Seen' = Seen
      OBVIOUS
    <3>1. requests = << >> /\ requests' # << >> /\ requests'[1] = NewRequest
      BY DEF Created
    <3> QED BY <3>1 DEF Status, NewRequest
  <2>4. requests' # requests
    BY DEF Status
  <2>5. PICK r \in DOMAIN requests, row \in RequestRow :
          requests' = [requests EXCEPT ![r] = row] /\ Goes(requests[r], row)
    BY <2>1, <2>3, <2>4 DEF RowStep
  <2>6. r = 1 /\ requests # << >> /\ Len(requests) = 1
    <3>1. DOMAIN requests = 1 .. Len(requests)
      BY <2>2
    <3>2. r = 1 /\ Len(requests) = 1
      BY <2>2, <3>1
    <3> QED BY <3>2
  <2>7. requests' # << >> /\ requests'[1] = row
    <3> DEFINE changed == [requests EXCEPT ![r] = row]
    <3>1. changed \in Seq(RequestRow) /\ Len(changed) = 1 /\ changed[1] = row
      BY <2>2, <2>6, ExceptSeq
    <3>2. requests' = changed
      BY <2>5
    <3>3. changed # << >>
      BY <3>1
    <3> QED BY <3>1, <3>2, <3>3
  <2>8. /\ Status = requests[1].status /\ Status' = row.status
        /\ Seen = requests[1].dispatched /\ Seen' = row.dispatched
    BY <2>6, <2>7 DEF Status
  <2>9. Status \in RequestStatus
    BY <2>6, <2>8, RequestRows
  <2> QED BY <2>5, <2>6, <2>8, <2>9, SameLeads DEF Goes
<1>3. Init => Lifecycle!Init
  BY <1>1 DEF Lifecycle!Init
<1>4. IInv /\ [Next]_vars => [Lifecycle!Next]_<<Status, Seen>>
  BY <1>2 DEF Lifecycle!Next, Lifecycle!Move, Lifecycle!StaleFailure
<1> QED BY <1>3, <1>4, OnCreateInvariant, PTL DEF Spec, ImplementsLifecycle, Lifecycle!Spec
----------------------------------------------------------------------------
\* How often the pipeline dispatches.  A run that has not dispatched yet may still
\* do so, and so may the run that takes the message up next: nothing that the
\* others do, and no repetition, makes more of them without a death, an exception
\* or a timeout.

\* The runs that may still dispatch.
Ahead == {w \in Workers : runs[w].pc \in {"classify", "assign", "dispatch"}}

Open == {"PENDING", "PROCESSING"}

\* The message can be taken up without any further fault, if time passes.
Free ==
    \/ queue = << >>
    \/ /\ queue[1].status \in Open
       /\ IF queue[1].visible THEN \A w \in Workers : ~runs[w].held
                              ELSE \A w \in Workers : runs[w].pc = "idle"

Chance(run) == IF run.pc \in {"classify", "assign", "dispatch"} THEN 1 ELSE 0
Spare == IF Free THEN 1 ELSE 0
Paid == crashes + raises + expiries

\* The locks: one run at most has the row of the request, one the message; whoever
\* has the message and has come to a stage that answered 409 has both.
LocksInv ==
    /\ Len(queue) = Len(requests)
    /\ \A w \in Workers :
         /\ runs[w].pc = "idle" => runs[w] = Idle
         /\ runs[w].held => /\ runs[w].lock \/ runs[w].pc = "classify"
                            /\ queue[1].visible /\ queue[1].status \in Open
    /\ \A w, x \in Workers :
         (runs[w].lock /\ runs[x].lock) \/ (runs[w].held /\ runs[x].held) => w = x

Budget ==
    /\ IsFiniteSet(Ahead)
    /\ dispatches + Cardinality(Ahead) + Spare <= 1 + Paid

PipelineInv == LocksInv /\ Budget

\* A run that is on has the only message.
LEMMA TheMessage ==
    ASSUME IInv, LocksInv
    PROVE  /\ \A w \in Workers :
                runs[w].pc # "idle" =>
                  /\ runs[w].msg = 1 /\ DOMAIN queue = {1} /\ Len(queue) = 1 /\ queue # << >>
                  /\ DOMAIN requests = {1} /\ queue[1] \in MessageRow
           /\ \A w \in Workers : runs[w].held \/ runs[w].lock => runs[w].pc # "idle"
           /\ \A m \in DOMAIN queue : m = 1 /\ DOMAIN queue = {1} /\ Len(queue) = 1
                                        /\ queue # << >> /\ queue[1] \in MessageRow
<1>1. /\ queue \in Seq(MessageRow) /\ requests \in Seq(RequestRow)
      /\ Len(queue) = Len(requests) /\ Len(requests) <= 1
  BY DEF IInv, TypeOK, IntakeInv, LocksInv, MessageRow, RequestRow
<1>2. ASSUME NEW m \in DOMAIN queue
      PROVE  /\ m = 1 /\ DOMAIN queue = {1} /\ Len(queue) = 1 /\ queue # << >>
             /\ queue[1] \in MessageRow /\ DOMAIN requests = {1}
  <2>1. Len(queue) \in Nat /\ m \in 1 .. Len(queue)
    BY <1>1
  <2>2. m = 1 /\ Len(queue) = 1 /\ Len(requests) = 1
    BY <1>1, <2>1
  <2>3. DOMAIN queue = 1 .. 1 /\ DOMAIN requests = 1 .. 1
    BY <1>1, <2>2
  <2>4. 1 .. 1 = {1}
    OBVIOUS
  <2> QED BY <1>1, <1>2, <2>2, <2>3, <2>4
<1>3. Idle.held = FALSE /\ Idle.lock = FALSE
  BY DEF Idle
<1> QED BY <1>2, <1>3 DEF IInv, RunsInv, LocksInv

\* One run goes on: what becomes of those who may still dispatch.
LEMMA AheadStep ==
    ASSUME IsFiniteSet(Ahead), runs \in [Workers -> Run], NEW w \in Workers, NEW run \in Run,
           runs' = [runs EXCEPT ![w] = run]
    PROVE  /\ IsFiniteSet(Ahead')
           /\ Cardinality(Ahead) \in Nat /\ Cardinality(Ahead') \in Nat
           /\ Cardinality(Ahead') + Chance(runs[w]) = Cardinality(Ahead) + Chance(run)
<1> DEFINE rest == Ahead \ {w}
<1>1. IsFiniteSet(rest) /\ Cardinality(Ahead) \in Nat /\ Cardinality(rest) \in Nat
  BY FS_Subset, FS_CardinalityType
<1>2. Cardinality(Ahead) = Cardinality(rest) + Chance(runs[w])
  <2>1. CASE w \in Ahead
    <3>1. Cardinality(rest) = Cardinality(Ahead) - 1
      BY <2>1, FS_RemoveElement
    <3> QED BY <1>1, <2>1, <3>1 DEF Ahead, Chance
  <2>2. CASE w \notin Ahead
    <3>1. rest = Ahead /\ Chance(runs[w]) = 0
      BY <2>2 DEF Ahead, Chance
    <3> QED BY <1>1, <3>1
  <2> QED BY <2>1, <2>2
<1>3. IsFiniteSet(Ahead') /\ Cardinality(Ahead') = Cardinality(rest) + Chance(run)
  <2>1. runs'[w] = run /\ \A x \in Workers \ {w} : runs'[x] = runs[x]
    OBVIOUS
  <2>2. CASE run.pc \in {"classify", "assign", "dispatch"}
    <3>1. Ahead' = rest \cup {w} /\ w \notin rest /\ Chance(run) = 1
      BY <2>1, <2>2 DEF Ahead, Chance
    <3>2. IsFiniteSet(rest \cup {w}) /\ Cardinality(rest \cup {w}) = Cardinality(rest) + 1
      BY <1>1, <3>1, FS_AddElement
    <3> QED BY <3>1, <3>2
  <2>3. CASE run.pc \notin {"classify", "assign", "dispatch"}
    <3>1. Ahead' = rest /\ Chance(run) = 0
      BY <2>1, <2>3 DEF Ahead, Chance
    <3> QED BY <1>1, <3>1
  <2> QED BY <2>2, <2>3
<1>4. Chance(run) \in Nat /\ Chance(runs[w]) \in Nat
  BY DEF Chance
<1> HIDE DEF rest
<1> QED BY <1>1, <1>2, <1>3, <1>4

\* The arithmetic of the budget: a chance is passed on, or paid for, or used.
LEMMA BudgetKept ==
    ASSUME dispatches \in Nat, dispatches' \in Nat, Paid \in Nat, Paid' \in Nat,
           Cardinality(Ahead) \in Nat, Cardinality(Ahead') \in Nat,
           NEW x \in {0, 1}, NEW y \in {0, 1}, Spare \in {0, 1}, Spare' \in {0, 1},
           Cardinality(Ahead') + x = Cardinality(Ahead) + y,
           dispatches + Cardinality(Ahead) + Spare <= 1 + Paid,
           \/ Paid' = Paid /\ dispatches' = dispatches /\ y + Spare' <= x + Spare
           \/ Paid' = Paid + 1 /\ dispatches' = dispatches /\ y <= x
           \/ Paid' = Paid /\ dispatches' = dispatches + 1 /\ x = 1 /\ y = 0 /\ Spare' <= Spare
    PROVE  dispatches' + Cardinality(Ahead') + Spare' <= 1 + Paid'
<1>1. PICK d \in Nat, e \in Nat : d = dispatches /\ e = dispatches'
  OBVIOUS
<1>2. PICK a \in Nat, b \in Nat : a = Cardinality(Ahead) /\ b = Cardinality(Ahead')
  OBVIOUS
<1>3. PICK f \in {0, 1}, g \in {0, 1} : f = Spare /\ g = Spare'
  OBVIOUS
<1>4. PICK p \in Nat, q \in Nat : p = Paid /\ q = Paid'
  OBVIOUS
<1>5. /\ b + x = a + y /\ d + a + f <= 1 + p
      /\ \/ q = p /\ e = d /\ y + g <= x + f
         \/ q = p + 1 /\ e = d /\ y <= x
         \/ q = p /\ e = d + 1 /\ x = 1 /\ y = 0 /\ g <= f
  BY <1>1, <1>2, <1>3, <1>4
<1>6. e + b + g <= 1 + q
  BY <1>5
<1> QED BY <1>1, <1>2, <1>3, <1>4, <1>6

\* What a run's step has to leave in order.
LEMMA RunMoves ==
    ASSUME IInv, PipelineInv, IInv', NEW w \in Workers, NEW run \in Run,
           runs' = [runs EXCEPT ![w] = run],
           Len(queue') = Len(queue), Len(requests') = Len(requests),
           run.pc = "idle" => run = Idle,
           run.lock => \A x \in Workers \ {w} : ~runs[x].lock,
           run.held => /\ run.lock \/ run.pc = "classify"
                       /\ queue'[1].visible /\ queue'[1].status \in Open
                       /\ \A x \in Workers \ {w} : ~runs[x].held,
           (\E x \in Workers \ {w} : runs[x].held) => queue'[1] = queue[1],
           \/ /\ Paid' = Paid /\ dispatches' = dispatches
              /\ Chance(run) + Spare' <= Chance(runs[w]) + Spare
           \/ /\ Paid' = Paid + 1 /\ dispatches' = dispatches
              /\ Chance(run) <= Chance(runs[w])
           \/ /\ Paid' = Paid /\ dispatches' = dispatches + 1
              /\ Chance(runs[w]) = 1 /\ Chance(run) = 0 /\ Spare' <= Spare
    PROVE  PipelineInv'
<1>1. runs \in [Workers -> Run]
  BY DEF IInv, TypeOK, Run
<1>2. runs'[w] = run /\ \A x \in Workers \ {w} : runs'[x] = runs[x]
  BY <1>1
<1>3. LocksInv'
  BY <1>2 DEF PipelineInv, LocksInv
<1>4. /\ IsFiniteSet(Ahead') /\ Cardinality(Ahead) \in Nat /\ Cardinality(Ahead') \in Nat
      /\ Cardinality(Ahead') + Chance(runs[w]) = Cardinality(Ahead) + Chance(run)
  BY <1>1, AheadStep DEF PipelineInv, Budget
<1>5. dispatches + Cardinality(Ahead) + Spare <= 1 + Paid
  BY DEF PipelineInv, Budget
<1>6. dispatches \in Nat /\ dispatches' \in Nat /\ Paid \in Nat /\ Paid' \in Nat
  <2>1. /\ {dispatches, crashes, raises, expiries} \subseteq Nat
        /\ {dispatches', crashes', raises', expiries'} \subseteq Nat
    BY DEF IInv, TypeOK
  <2> QED BY <2>1 DEF Paid
<1>7. /\ Chance(run) \in {0, 1} /\ Chance(runs[w]) \in {0, 1}
      /\ Spare \in {0, 1} /\ Spare' \in {0, 1}
  BY DEF Chance, Spare
<1>8. dispatches' + Cardinality(Ahead') + Spare' <= 1 + Paid'
  BY <1>4, <1>5, <1>6, <1>7, BudgetKept
<1> QED BY <1>3, <1>4, <1>8 DEF PipelineInv, Budget

LEMMA SpareBit == Spare \in {0, 1} /\ Spare' \in {0, 1} /\ (Spare = 1 <=> Free) /\ (Spare' = 1 <=> Free')
  BY DEF Spare

\* A stage commits: the claim becomes visible, the locks are gone.
LEMMA CommitsPipeline ==
    ASSUME IInv, PipelineInv, IInv', Len(requests') = Len(requests), NEW w \in Workers,
           runs[w].pc \in {"classify", "assign", "dispatch"},
           NEW r \in DOMAIN requests, NEW row \in RequestRow, NEW pc \in Stages,
           Commits(w, r, row, pc),
           \/ dispatches' = dispatches
           \/ dispatches' = dispatches + 1 /\ pc = "drain"
    PROVE  PipelineInv'
<1> DEFINE seen == IF pc = "drain" THEN row.partner ELSE NoPartner
           run == [runs[w] EXCEPT !.pc = pc, !.held = FALSE, !.lock = FALSE, !.seen = seen]
<1>0. seen \in Partners \cup {NoPartner}
  BY DEF RequestRow
<1>1. /\ run \in Run /\ run.pc = pc /\ ~run.held /\ ~run.lock /\ run.pc # "idle"
  <2>1. run \in Run /\ runs[w] \in Run
    BY <1>0, RunOf
  <2>2. run.pc = pc /\ ~run.held /\ ~run.lock
    BY <2>1 DEF Run
  <2> QED BY <2>1, <2>2 DEF Stages
<1>2. /\ runs \in [Workers -> Run] /\ LocksInv /\ queue \in Seq(MessageRow)
      /\ runs[w].msg = 1 /\ queue # << >> /\ DOMAIN queue = {1}
  BY TheMessage DEF IInv, TypeOK, Run, PipelineInv, MessageRow
<1>3. runs' = [runs EXCEPT ![w] = run] /\ queue' = Claimed(w) /\ UNCHANGED faults
  BY <1>2 DEF Commits
<1> HIDE DEF run
<1>4. Len(queue') = Len(queue)
  BY <1>2, <1>3, ClaimedQueue
<1>5. ASSUME ~runs[w].held PROVE queue' = queue
  BY <1>3, <1>5 DEF Claimed
<1>6. ASSUME runs[w].held PROVE ~queue'[1].visible /\ queue' # << >>
  <2>1. queue[1] \in MessageRow
    BY <1>2
  <2>2. queue' = [queue EXCEPT ![1] = [queue[1] EXCEPT !.status = "PROCESSING", !.visible = FALSE,
                                                       !.attempts = runs[w].tries]]
    BY <1>2, <1>3, <1>6 DEF Claimed
  <2>3. queue'[1] = [queue[1] EXCEPT !.status = "PROCESSING", !.visible = FALSE,
                                     !.attempts = runs[w].tries]
    BY <1>2, <2>2
  <2> QED BY <1>2, <2>1, <2>2, <2>3 DEF MessageRow
<1>7. (\E x \in Workers \ {w} : runs[x].held) => queue'[1] = queue[1]
  BY <1>2, <1>5 DEF LocksInv
<1>8. Free' => Free
  <2> SUFFICES ASSUME Free' PROVE Free
    OBVIOUS
  <2>1. runs'[w].pc # "idle" /\ \A x \in Workers \ {w} : runs'[x] = runs[x]
    BY <1>1, <1>2, <1>3
  <2>2. CASE runs[w].held
    BY <1>6, <2>1, <2>2 DEF Free
  <2>3. CASE ~runs[w].held
    BY <1>2, <1>5, <2>1, <2>3 DEF Free
  <2> QED BY <2>2, <2>3
<1>9. Chance(runs[w]) = 1 /\ Chance(run) \in {0, 1} /\ (pc = "drain" => Chance(run) = 0)
  BY <1>1 DEF Chance
<1>10. Paid' = Paid
  BY <1>3 DEF faults, Paid
<1>11. Spare' <= Spare /\ Chance(run) + Spare' <= Chance(runs[w]) + Spare
  <2>1. Chance(runs[w]) = 1 /\ Chance(run) \in {0, 1} /\ Spare \in {0, 1} /\ Spare' \in {0, 1}
        /\ (Spare' = 1 => Spare = 1)
    BY <1>8, <1>9, SpareBit
  <2> QED BY <2>1
<1> QED BY <1>1, <1>2, <1>3, <1>4, <1>7, <1>9, <1>10, <1>11, RunMoves

\* A stage answers 409: the row stays locked, and nobody else had it.
LEMMA PassesPipeline ==
    ASSUME IInv, PipelineInv, IInv', Len(requests') = Len(requests), NEW w \in Workers,
           runs[w].pc \in {"classify", "assign", "dispatch"}, NEW r \in DOMAIN requests,
           r = queue[runs[w].msg].request, RowFree(w, r), NEW pc \in Stages, Passes(w, pc)
    PROVE  PipelineInv'
<1> DEFINE run == [runs[w] EXCEPT !.pc = pc, !.lock = TRUE]
<1>1. run \in Run /\ run.pc = pc /\ run.held = runs[w].held /\ run.lock /\ run.pc # "idle"
  <2>1. run \in Run /\ runs[w] \in Run
    BY RunOf
  <2>2. run.pc = pc /\ run.held = runs[w].held /\ run.lock
    BY <2>1 DEF Run
  <2> QED BY <2>1, <2>2 DEF Stages
<1>2. /\ runs \in [Workers -> Run] /\ LocksInv /\ runs[w].msg = 1
  BY TheMessage DEF IInv, TypeOK, Run, PipelineInv
<1>3. runs' = [runs EXCEPT ![w] = run] /\ queue' = queue /\ dispatches' = dispatches /\ Paid' = Paid
  BY <1>2 DEF Passes, intake, faults, Paid
<1> HIDE DEF run
<1>4. \A x \in Workers \ {w} : ~runs[x].lock
  <2>1. \A x \in Workers : runs[x].lock => runs[x].msg = 1
    BY <1>2, TheMessage
  <2> QED BY <1>2, <2>1 DEF RowFree
<1>5. run.held => queue'[1].visible /\ queue'[1].status \in Open
                  /\ \A x \in Workers \ {w} : ~runs[x].held
  BY <1>1, <1>2, <1>3 DEF LocksInv
<1>6. Free' => Free
  <2>1. runs'[w].pc # "idle" /\ runs'[w].held = runs[w].held
        /\ \A x \in Workers \ {w} : runs'[x] = runs[x]
    BY <1>1, <1>2, <1>3
  <2> QED BY <1>3, <2>1 DEF Free
<1>7. Chance(run) + Spare' <= Chance(runs[w]) + Spare
  <2>1. Chance(runs[w]) = 1 /\ Chance(run) \in {0, 1} /\ Spare \in {0, 1} /\ Spare' \in {0, 1}
        /\ (Spare' = 1 => Spare = 1)
    BY <1>6, SpareBit DEF Chance
  <2> QED BY <2>1
<1> QED BY <1>1, <1>2, <1>3, <1>4, <1>5, <1>7, RunMoves

\* A run is over, in whatever way: its locks go, and what it had ahead of it.
LEMMA EndsPipeline ==
    ASSUME IInv, PipelineInv, IInv', Len(requests') = Len(requests), Len(queue') = Len(queue),
           NEW w \in Workers, runs' = [runs EXCEPT ![w] = Idle], dispatches' = dispatches,
           (\E x \in Workers \ {w} : runs[x].held) => queue'[1] = queue[1],
           \/ Paid' = Paid + 1
           \/ Paid' = Paid /\ (Free' => Chance(runs[w]) = 1)
    PROVE  PipelineInv'
<1>1. Idle \in Run /\ ~Idle.lock /\ ~Idle.held /\ Idle.pc = "idle"
  BY DEF Idle, Run
<1>2. Chance(Idle) = 0 /\ Chance(runs[w]) \in {0, 1}
  BY <1>1 DEF Chance
<1>3. \/ Paid' = Paid + 1 /\ Chance(Idle) <= Chance(runs[w])
      \/ Paid' = Paid /\ Chance(Idle) + Spare' <= Chance(runs[w]) + Spare
  <2>1. Spare \in {0, 1} /\ Spare' \in {0, 1} /\ (Spare' = 1 <=> Free')
    BY SpareBit
  <2> QED BY <1>2, <2>1
<1> QED BY <1>1, <1>3, RunMoves

\* The actions.
LEMMA StagePipeline ==
    ASSUME IInv, PipelineInv, IInv', Len(requests') = Len(requests), NEW w \in Workers, Step(w)
    PROVE  PipelineInv'
<1>1. AfterClassify \in Stages /\ AfterAssign \in Stages /\ {"mark", "drain"} \subseteq Stages
  BY DEF AfterClassify, AfterAssign, Stages
<1>2. ASSUME NEW r \in DOMAIN requests, NEW pc \in Stages, Passes(w, pc),
             At(w, "classify", r) \/ At(w, "assign", r) \/ At(w, "dispatch", r)
      PROVE  PipelineInv'
  BY <1>2, PassesPipeline DEF At
<1>3. ASSUME NEW r \in DOMAIN requests, NEW row \in RequestRow, NEW pc \in Stages,
             Commits(w, r, row, pc),
             At(w, "classify", r) \/ At(w, "assign", r) \/ At(w, "dispatch", r),
             dispatches' = dispatches \/ (dispatches' = dispatches + 1 /\ pc = "drain")
      PROVE  PipelineInv'
  <2>1. runs[w].pc \in {"classify", "assign", "dispatch"}
    BY <1>3 DEF At
  <2> QED BY <1>3, <2>1, CommitsPipeline
<1>4. CASE Classify(w)
  <2>1. PICK r \in DOMAIN requests :
          /\ At(w, "classify", r)
          /\ \/ \E row \in RequestRow, pc \in Stages : Commits(w, r, row, pc) /\ UNCHANGED dispatches
             \/ Passes(w, AfterClassify)
    BY <1>1, <1>4, RequestRows, ClassifiedRow, Zenon DEF Classify
  <2> QED BY <1>1, <1>2, <1>3, <2>1
<1>5. CASE Assign(w)
  <2>1. PICK r \in DOMAIN requests :
          /\ At(w, "assign", r)
          /\ \/ \E row \in RequestRow, pc \in Stages : Commits(w, r, row, pc) /\ UNCHANGED dispatches
             \/ \E pc \in Stages : Passes(w, pc)
    BY <1>1, <1>5, RequestRows, AssignedRow DEF Assign, Assignable
  <2> QED BY <1>1, <1>2, <1>3, <2>1
<1>6. CASE DispatchStage(w)
  <2>1. PICK r \in DOMAIN requests :
          /\ At(w, "dispatch", r)
          /\ \/ /\ Dispatchable(requests[r]) /\ dispatches' = dispatches + 1
                /\ Commits(w, r, Moved(requests[r], "DISPATCHED"), "drain")
             \/ Passes(w, "mark")
    BY <1>6 DEF DispatchStage
  <2>2. Dispatchable(requests[r]) => Moved(requests[r], "DISPATCHED") \in RequestRow
    BY RequestRows, MovedRow, Statuses, Arrows DEF Dispatchable
  <2> QED BY <1>1, <1>2, <1>3, <2>1, <2>2
<1>7. CASE Drained(w)
  <2> DEFINE run == [runs[w] EXCEPT !.pc = "mark", !.seen = NoPartner]
  <2>1. /\ run \in Run /\ run.pc = "mark" /\ run.held = runs[w].held /\ run.lock = runs[w].lock
        /\ runs[w].pc = "drain"
    <3>1. run \in Run /\ runs[w] \in Run
      BY RunOf DEF Stages
    <3> QED BY <1>7, <3>1 DEF Run, Drained, At
  <2>2. /\ runs \in [Workers -> Run] /\ LocksInv
    BY DEF IInv, TypeOK, Run, PipelineInv
  <2>3. runs' = [runs EXCEPT ![w] = run] /\ queue' = queue /\ dispatches' = dispatches /\ Paid' = Paid
    BY <1>7, <2>2 DEF Drained, intake, faults, Paid
  <2> HIDE DEF run
  <2>4. /\ run.lock => \A x \in Workers \ {w} : ~runs[x].lock
        /\ run.held => /\ run.lock /\ queue'[1].visible /\ queue'[1].status \in Open
                       /\ \A x \in Workers \ {w} : ~runs[x].held
    BY <2>1, <2>2, <2>3 DEF LocksInv
  <2>5. Free' => Free
    <3>1. runs'[w].pc # "idle" /\ runs'[w].held = runs[w].held
          /\ \A x \in Workers \ {w} : runs'[x] = runs[x]
      BY <2>1, <2>2, <2>3
    <3> QED BY <2>3, <3>1 DEF Free
  <2>6. Chance(run) + Spare' <= Chance(runs[w]) + Spare
    <3>1. Chance(runs[w]) = 0 /\ Chance(run) = 0
      BY <2>1 DEF Chance
    <3>2. Spare \in {0, 1} /\ Spare' \in {0, 1} /\ (Spare' = 1 => Spare = 1)
      BY <2>5, SpareBit
    <3>3. CASE Spare' = 0
      BY <3>1, <3>2, <3>3
    <3>4. CASE Spare' = 1
      BY <3>1, <3>2, <3>4
    <3> QED BY <3>2, <3>3, <3>4
  <2> QED BY <2>1, <2>3, <2>4, <2>6, RunMoves
<1>8. CASE Mark(w)
  <2>1. /\ runs[w].pc = "mark" /\ MessageFree(w) /\ runs' = [runs EXCEPT ![w] = Idle]
        /\ queue' = [Claimed(w) EXCEPT ![runs[w].msg].status = "DONE"]
        /\ dispatches' = dispatches /\ Paid' = Paid
    BY <1>8 DEF Mark, faults, Paid
  <2>2. /\ Claimed(w) \in Seq(MessageRow) /\ Len(Claimed(w)) = Len(queue)
        /\ DOMAIN Claimed(w) = DOMAIN queue
    BY <2>1, ClaimedQueue
  <2>3. /\ runs[w].msg = 1 /\ DOMAIN queue = {1} /\ Len(queue) = 1 /\ LocksInv
        /\ \A x \in Workers : runs[x].held => runs[x].msg = 1
    BY <2>1, TheMessage DEF PipelineInv
  <2>4. Len(queue') = Len(queue) /\ queue'[1].status = "DONE"
    <3>1. Len(queue') = Len(queue)
      BY <2>1, <2>2, EndedQueue
    <3>2. Claimed(w)[1] \in MessageRow
      <4>1. 1 \in 1 .. Len(Claimed(w))
        BY <2>2, <2>3
      <4> QED BY <2>2, <4>1, ElementOfSeq
    <3>3. queue'[1] = [Claimed(w)[1] EXCEPT !.status = "DONE"]
      BY <2>1, <2>2, <2>3
    <3> QED BY <3>1, <3>2, <3>3 DEF MessageRow
  <2>5. ~Free'
    <3>1. queue' # << >>
      BY <2>3, <2>4
    <3> QED BY <2>4, <3>1 DEF Free, Open
  <2>6. \A x \in Workers \ {w} : ~runs[x].held
    BY <2>1, <2>3 DEF MessageFree, Holds
  <2> QED BY <2>1, <2>4, <2>5, <2>6, EndsPipeline
<1> QED BY <1>4, <1>5, <1>6, <1>7, <1>8 DEF Step

\* An exception, a death and a deadlock.
LEMMA FaultPipeline ==
    ASSUME IInv, PipelineInv, IInv', Len(requests') = Len(requests), NEW w \in Workers,
           Raise(w) \/ Crash(w) \/ DeadlockVictim(w)
    PROVE  PipelineInv'
<1>0. LocksInv /\ runs \in [Workers -> Run] /\ {crashes, raises, expiries} \subseteq Nat
  BY DEF PipelineInv, IInv, TypeOK, Run
<1>1. CASE Raise(w)
  <2>1. /\ RetryOrFail(w) /\ raises' = raises + 1 /\ UNCHANGED <<dispatches, crashes, expiries>>
        /\ runs[w].pc # "idle"
    BY <1>1 DEF Raise, At
  <2>2. /\ MessageFree(w) /\ runs' = [runs EXCEPT ![w] = Idle]
        /\ \E st \in {"PENDING", "DONE", "FAILED"} :
             queue' = [Claimed(w) EXCEPT ![runs[w].msg].status = st, ![runs[w].msg].visible = FALSE]
    BY <2>1 DEF RetryOrFail
  <2>3. Len(queue') = Len(queue)
    <3>1. Claimed(w) \in Seq(MessageRow)
      BY <2>1, ClaimedQueue
    <3>2. PICK st \in {"PENDING", "DONE", "FAILED"} :
            queue' = [Claimed(w) EXCEPT ![runs[w].msg].status = st, ![runs[w].msg].visible = FALSE]
      BY <2>2
    <3>3. runs[w].pc # "idle"
      BY <2>1
    <3>4. Len([Claimed(w) EXCEPT ![runs[w].msg].status = st, ![runs[w].msg].visible = FALSE])
            = Len(queue)
      BY <3>1, <3>3, EndedQueue
    <3> QED BY <3>2, <3>4
  <2>4. runs[w].msg = 1 /\ \A x \in Workers : runs[x].held => runs[x].msg = 1
    BY <1>0, <2>1, TheMessage
  <2>5. \A x \in Workers \ {w} : ~runs[x].held
    BY <2>2, <2>4 DEF MessageFree, Holds
  <2>6. Paid' = Paid + 1
    BY <1>0, <2>1 DEF Paid
  <2> QED BY <2>1, <2>2, <2>3, <2>5, <2>6, EndsPipeline
<1>2. CASE Crash(w)
  <2>1. /\ crashes' = crashes + 1 /\ runs' = [runs EXCEPT ![w] = Idle]
        /\ UNCHANGED <<queue, dispatches, raises, expiries>>
    BY <1>2 DEF Crash, intake
  <2>2. Paid' = Paid + 1
    BY <1>0, <2>1 DEF Paid
  <2> QED BY <2>1, <2>2, EndsPipeline
<1>3. CASE DeadlockVictim(w)
  <2>1. PICK x \in Workers \ {w} :
          LET m == runs[w].msg
          IN  /\ m # 0 /\ runs[x].msg = m
              /\ \/ runs[w].lock /\ Holds(x, m)
                 \/ runs[x].lock /\ Holds(w, m)
    BY <1>3 DEF DeadlockVictim
  <2>2. /\ runs' = [runs EXCEPT ![w] = Idle] /\ UNCHANGED <<queue, dispatches>> /\ Paid' = Paid
    BY <1>3 DEF DeadlockVictim, intake, faults, Paid
  <2>3. CASE runs[w].lock /\ runs[x].held
    <3>1. queue[1].visible /\ runs'[x].held /\ runs[x].pc # "idle" /\ queue # << >>
      BY <1>0, <2>2, <2>3, TheMessage DEF LocksInv
    <3>2. ~Free'
      BY <2>2, <3>1 DEF Free
    <3> QED BY <2>2, <3>2, EndsPipeline
  <2>4. CASE runs[x].lock /\ runs[w].held
    <3>1. ~runs[w].lock /\ runs[w].pc = "classify"
      BY <1>0, <2>4 DEF LocksInv
    <3>2. Chance(runs[w]) = 1
      BY <3>1 DEF Chance
    <3> QED BY <2>2, <3>2, EndsPipeline
  <2> QED BY <2>1, <2>3, <2>4 DEF Holds
<1> QED BY <1>1, <1>2, <1>3

LEMMA ClaimPipeline ==
    ASSUME IInv, PipelineInv, IInv', NEW w \in Workers, NEW m \in DOMAIN queue, Claim(w, m)
    PROVE  PipelineInv'
<1> DEFINE run == [pc |-> "classify", msg |-> m, held |-> TRUE, lock |-> FALSE,
                   tries |-> queue[m].attempts + 1, seen |-> NoPartner]
<1>1. /\ m = 1 /\ queue # << >> /\ queue[1] \in MessageRow /\ LocksInv /\ runs \in [Workers -> Run]
      /\ \A x \in Workers : runs[x].held => runs[x].msg = 1
  BY TheMessage DEF PipelineInv, IInv, TypeOK, Run
<1>2. /\ run \in Run /\ run.pc = "classify" /\ run.held /\ ~run.lock
  BY <1>1 DEF Run, MessageRow
<1>3. /\ runs[w] = Idle /\ Claimable(m) /\ runs' = [runs EXCEPT ![w] = run]
      /\ UNCHANGED <<requests, queue, dispatches>> /\ Paid' = Paid
  BY DEF Claim, faults, Paid
<1> HIDE DEF run
<1>4. /\ queue[1].visible /\ queue[1].status \in Open /\ \A x \in Workers : ~runs[x].held
  BY <1>1, <1>3 DEF Claimable, Holds, Open
<1>5. Free /\ ~Free'
  <2>1. runs'[w].held
    BY <1>1, <1>2, <1>3
  <2> QED BY <1>1, <1>3, <1>4, <2>1 DEF Free
<1>6. Chance(run) + Spare' <= Chance(runs[w]) + Spare
  <2>1. Chance(run) = 1 /\ Spare' = 0 /\ Spare = 1 /\ Chance(runs[w]) = 0
    BY <1>2, <1>3, <1>5 DEF Chance, Spare, Idle
  <2> QED BY <2>1
<1> QED BY <1>2, <1>3, <1>4, <1>6, RunMoves
\* Time passes for a message that is not visible: nobody has it locked, and a run
\* that is still on has outlived its visibility timeout.
LEMMA DuePipeline ==
    ASSUME IInv, PipelineInv, IInv', NEW m \in DOMAIN queue, Due(m)
    PROVE  PipelineInv'
<1>1. /\ m = 1 /\ DOMAIN queue = {1} /\ queue # << >> /\ queue[1] \in MessageRow /\ LocksInv
      /\ queue \in Seq(MessageRow) /\ {dispatches, crashes, raises, expiries} \subseteq Nat
      /\ \A x \in Workers : runs[x].pc # "idle" => runs[x].msg = 1
  BY TheMessage DEF PipelineInv, IInv, TypeOK, MessageRow
<1>2. /\ ~queue[1].visible /\ queue[1].status \in Open
      /\ UNCHANGED <<requests, runs, dispatches, crashes, raises>>
      /\ queue' = [queue EXCEPT ![1].visible = TRUE]
  BY <1>1 DEF Due, Open
<1>3. Len(queue') = Len(queue)
  <2> DEFINE e == [queue[1] EXCEPT !.visible = TRUE]
  <2>1. queue' = [queue EXCEPT ![1] = e] /\ e \in MessageRow
    BY <1>1, <1>2 DEF MessageRow
  <2> QED BY <1>1, <2>1, MarkedQueue
<1>4. \A x \in Workers : ~runs[x].held
  BY <1>1, <1>2 DEF LocksInv
<1>5. LocksInv' /\ Ahead' = Ahead
  BY <1>1, <1>2, <1>3, <1>4 DEF LocksInv, Ahead
<1>6. /\ dispatches + Cardinality(Ahead) + Spare <= 1 + Paid /\ IsFiniteSet(Ahead)
      /\ Cardinality(Ahead) \in Nat /\ dispatches \in Nat /\ Paid \in Nat
  BY <1>1, FS_CardinalityType DEF PipelineInv, Budget, Paid
<1>7. CASE \E x \in Workers : runs[x].msg = m
  <2>1. Paid' = Paid + 1
    BY <1>1, <1>2, <1>7 DEF Due, Paid
  <2>2. PICK d \in Nat, a \in Nat, p \in Nat : d = dispatches /\ a = Cardinality(Ahead) /\ p = Paid
    BY <1>6
  <2>3. PICK f \in {0, 1}, g \in {0, 1} : f = Spare /\ g = Spare'
    BY SpareBit
  <2>4. d + a + f <= 1 + p
    BY <1>6, <2>2, <2>3
  <2>5. d + a + g <= 1 + (p + 1)
    BY <2>4
  <2> QED BY <1>2, <1>5, <1>6, <2>1, <2>2, <2>3, <2>5 DEF PipelineInv, Budget
<1>8. CASE ~\E x \in Workers : runs[x].msg = m
  <2>1. Paid' = Paid
    BY <1>2, <1>8 DEF Due, Paid
  <2>2. \A x \in Workers : runs[x].pc = "idle"
    BY <1>1, <1>8
  <2>3. Spare = 1
    BY <1>1, <1>2, <2>2 DEF Free, Spare
  <2>4. PICK d \in Nat, a \in Nat, p \in Nat : d = dispatches /\ a = Cardinality(Ahead) /\ p = Paid
    BY <1>6
  <2>5. PICK g \in {0, 1} : g = Spare'
    BY SpareBit
  <2>6. d + a + 1 <= 1 + p
    BY <1>6, <2>3, <2>4
  <2>7. d + a + g <= 1 + p
    BY <2>6
  <2> QED BY <1>2, <1>5, <1>6, <2>1, <2>4, <2>5, <2>7 DEF PipelineInv, Budget
<1> QED BY <1>7, <1>8

\* The intake commits the first message of the key, and nobody has been at work.
LEMMA CommitIntakePipeline ==
    ASSUME IInv, PipelineInv, IInv', NEW c \in Callers, CommitIntake(c)
    PROVE  PipelineInv'
<1>1. requests = << >> /\ requests' = <<NewRequest>>
  BY CommitIntakeIInv
<1>2. /\ queue' = Append(queue, Message(Len(requests')))
      /\ UNCHANGED <<runs, dispatches, faults>> /\ Paid' = Paid
  BY DEF CommitIntake, faults, Paid
<1>3. /\ queue \in Seq(MessageRow) /\ LocksInv /\ RunsInv
      /\ {dispatches, crashes, raises, expiries} \subseteq Nat
  BY DEF PipelineInv, IInv, TypeOK, MessageRow
<1>4. queue = << >> /\ Len(requests') = 1 /\ Len(queue') = 1
  <2>1. Len(queue) = 0
    BY <1>1, <1>3 DEF LocksInv
  <2>2. queue = << >>
    BY <1>3, <2>1
  <2>3. Len(<<NewRequest>>) = 1 /\ Append(<< >>, Message(1)) = <<Message(1)>> /\ Len(<<Message(1)>>) = 1
    OBVIOUS
  <2> QED BY <1>1, <1>2, <2>2, <2>3
<1>5. \A w \in Workers : runs[w].pc = "idle" /\ ~runs[w].held /\ ~runs[w].lock
  <2>1. DOMAIN queue = {}
    BY <1>4
  <2> QED BY <1>3, <2>1 DEF RunsInv, LocksInv, Idle
<1>6. LocksInv' /\ Ahead' = Ahead
  BY <1>2, <1>3, <1>4, <1>5 DEF LocksInv, Ahead
<1>7. Spare = 1
  BY <1>4 DEF Spare, Free
<1>8. /\ dispatches + Cardinality(Ahead) + Spare <= 1 + Paid /\ IsFiniteSet(Ahead)
      /\ Cardinality(Ahead) \in Nat /\ dispatches \in Nat /\ Paid \in Nat
  BY <1>3, FS_CardinalityType DEF PipelineInv, Budget, Paid
<1>9. PICK d \in Nat, a \in Nat, p \in Nat : d = dispatches /\ a = Cardinality(Ahead) /\ p = Paid
  BY <1>8
<1>10. PICK g \in {0, 1} : g = Spare'
  BY SpareBit
<1>11. d + a + 1 <= 1 + p
  BY <1>7, <1>8, <1>9
<1>12. d + a + g <= 1 + p
  BY <1>11
<1> QED BY <1>2, <1>6, <1>8, <1>9, <1>10, <1>12 DEF PipelineInv, Budget

\* Whoever leaves messages and runs alone.
LEMMA AsidePipeline ==
    ASSUME PipelineInv, Len(requests') = Len(requests),
           UNCHANGED <<queue, runs, dispatches, crashes, raises, expiries>>
    PROVE  PipelineInv'
  BY DEF PipelineInv, LocksInv, Budget, Ahead, Spare, Free, Paid

LEMMA StepPipeline == ASSUME IInv, PipelineInv, [Next]_vars PROVE PipelineInv'
<1>1. IInv' /\ (RowStep \/ Created)
  BY StepIInv
<1>2. CASE \E c \in Callers : CommitIntake(c)
  BY <1>1, <1>2, CommitIntakePipeline
<1>3. ASSUME RowStep PROVE Len(requests') = Len(requests)
  <2>1. requests \in Seq(RequestRow)
    BY DEF IInv, TypeOK, RequestRow
  <2>2. ASSUME NEW r \in DOMAIN requests, NEW row \in RequestRow,
               requests' = [requests EXCEPT ![r] = row]
        PROVE  Len(requests') = Len(requests)
    BY <2>1, <2>2, ExceptSeq
  <2> QED BY <1>3, <2>2 DEF RowStep
<1>4. ASSUME NEW w \in Workers, Step(w) PROVE PipelineInv'
  <2>1. RowStep
    BY <1>4, ClassifyIInv, AssignIInv, DispatchIInv, DrainedIInv, MarkIInv DEF Step
  <2> QED BY <1>1, <1>3, <1>4, <2>1, StagePipeline
<1>5. ASSUME NEW w \in Workers, Raise(w) \/ Crash(w) \/ DeadlockVictim(w) PROVE PipelineInv'
  <2>1. RowStep
    BY <1>5, RaiseIInv, LostIInv
  <2> QED BY <1>1, <1>3, <1>5, <2>1, FaultPipeline
<1>6. ASSUME NEW w \in Workers, NEW m \in DOMAIN queue, Claim(w, m) PROVE PipelineInv'
  BY <1>1, <1>6, ClaimPipeline
<1>7. ASSUME NEW m \in DOMAIN queue, Due(m) PROVE PipelineInv'
  BY <1>1, <1>7, DuePipeline
<1>8. ASSUME NEW c \in Callers, Lookup(c) \/ Flush(c) \/ CallAgain(c) PROVE PipelineInv'
  BY <1>8, AsidePipeline DEF Lookup, Flush, CallAgain, faults
<1>9. CASE Others
  <2>1. Len(requests') = Len(requests)
    BY <1>3, <1>9, OthersIInv
  <2>2. UNCHANGED <<queue, runs, dispatches, crashes, raises, expiries>>
    BY <1>9 DEF Others, intake, faults
  <2> QED BY <2>1, <2>2, AsidePipeline
<1>10. CASE UNCHANGED vars
  BY <1>10, AsidePipeline DEF vars, faults
<1> QED BY <1>2, <1>4, <1>5, <1>6, <1>7, <1>8, <1>9, <1>10 DEF Next

\* However many workers drain, and whatever humans and partners do beside them, the
\* pipeline dispatches once for the intake and at most once more for each run that
\* died, raised or outlived its visibility timeout.
THEOREM DispatchedOncePerRunHolds == Spec => []DispatchedOncePerRun
<1>1. Init => PipelineInv
  <2> SUFFICES ASSUME Init PROVE PipelineInv
    OBVIOUS
  <2>1. Ahead = {} /\ Spare = 1 /\ Paid = 0 /\ dispatches = 0
    BY DEF Init, Idle, Ahead, Spare, Free, Paid
  <2>2. Budget
    BY <2>1, FS_EmptySet DEF Budget
  <2>3. LocksInv
    BY DEF Init, Idle, LocksInv
  <2> QED BY <2>2, <2>3 DEF PipelineInv
<1>2. IInv /\ PipelineInv => DispatchedOncePerRun
  <2> SUFFICES ASSUME IInv, PipelineInv PROVE DispatchedOncePerRun
    OBVIOUS
  <2>1. /\ dispatches + Cardinality(Ahead) + Spare <= 1 + Paid /\ Cardinality(Ahead) \in Nat
        /\ {dispatches, crashes, raises, expiries} \subseteq Nat
    BY FS_CardinalityType DEF PipelineInv, Budget, IInv, TypeOK
  <2>2. PICK d \in Nat, a \in Nat, f \in {0, 1} : d = dispatches /\ a = Cardinality(Ahead) /\ f = Spare
    BY <2>1, SpareBit
  <2>3. PICK p \in Nat : p = Paid
    BY <2>1 DEF Paid
  <2>4. d + a + f <= 1 + p
    BY <2>1, <2>2, <2>3
  <2>5. d <= 1 + p
    BY <2>4
  <2>6. dispatches <= 1 + (crashes + raises + expiries)
    BY <2>2, <2>3, <2>5 DEF Paid
  <2> QED BY <2>1, <2>6 DEF DispatchedOncePerRun
<1>3. IInv /\ PipelineInv /\ [Next]_vars => PipelineInv'
  BY StepPipeline
<1> QED BY <1>1, <1>2, <1>3, OnCreateInvariant, PTL DEF Spec
=============================================================================
