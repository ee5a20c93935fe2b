---------------------------- MODULE RequestFsm ----------------------------
(***************************************************************************)
(* The state machine of a service request (requests/fsm.py, paragraph 7 of *)
(* the terms of reference): the statuses, the table of allowed transitions *)
(* and the test every status change of the program goes through.  Pure     *)
(* data: the modules that model the services extend it.                    *)
(***************************************************************************)
EXTENDS Naturals

PreAcceptance ==
    {"NEW", "CLASSIFYING", "CLASSIFIED", "NEEDS_REVIEW", "MATCHING",
     "ASSIGNED", "DISPATCHED", "FAILED_DISPATCH"}

TERMINAL_STATUSES == {"PAID", "CANCELLED", "REJECTED"}

RequestStatus ==
    PreAcceptance
      \cup {"ACCEPTED", "IN_PROGRESS", "DONE", "ACCEPTED_BY_USER", "DISPUTE"}
      \cup TERMINAL_STATUSES

\* The arrows drawn in paragraph 7, CANCELLED not included.
BaseTransitions ==
    {<<"NEW", "CLASSIFYING">>, <<"CLASSIFYING", "CLASSIFIED">>,
     <<"CLASSIFIED", "MATCHING">>, <<"CLASSIFIED", "NEEDS_REVIEW">>,
     <<"NEEDS_REVIEW", "MATCHING">>, <<"MATCHING", "ASSIGNED">>,
     <<"ASSIGNED", "DISPATCHED">>, <<"DISPATCHED", "ACCEPTED">>,
     <<"DISPATCHED", "MATCHING">>, <<"DISPATCHED", "FAILED_DISPATCH">>,
     <<"FAILED_DISPATCH", "MATCHING">>, <<"ACCEPTED", "IN_PROGRESS">>,
     <<"IN_PROGRESS", "DONE">>, <<"DONE", "ACCEPTED_BY_USER">>,
     <<"DONE", "DISPUTE">>, <<"ACCEPTED_BY_USER", "PAID">>,
     <<"ACCEPTED_BY_USER", "DISPUTE">>, <<"DISPUTE", "REJECTED">>}

\* Mutant: a dispute may be settled by returning to the accepted work.
CanTransition_reopens(source, target) ==
    \/ <<source, target>> \in BaseTransitions \cup {<<"DISPUTE", "ACCEPTED_BY_USER">>}
    \/ source \in RequestStatus \ TERMINAL_STATUSES /\ target = "CANCELLED"

\* Every status that is not terminal may also be cancelled.
CanTransition(source, target) ==
    \/ <<source, target>> \in BaseTransitions
    \/ source \in RequestStatus \ TERMINAL_STATUSES /\ target = "CANCELLED"

\* The statuses at most one arrow away from S, and, for every status, those that
\* one transaction may lead to: at most four arrows away.
Hops(S) == S \cup {b \in RequestStatus : \E a \in S : CanTransition(a, b)}

Leads == [a \in RequestStatus |-> Hops(Hops(Hops(Hops({a}))))]

\* Status -> the timestamp column set on entering it (the column is named by
\* the status here): dispatched_at, accepted_at, done_at, ...
StampedStatuses == {"DISPATCHED", "ACCEPTED", "DONE", "ACCEPTED_BY_USER", "PAID"}

\* How far past the partner's acceptance a status is.  No arrow leads back.
Stage(s) ==
    CASE s \in PreAcceptance       -> 0
      [] s = "ACCEPTED"            -> 1
      [] s = "IN_PROGRESS"         -> 2
      [] s = "DONE"                -> 3
      [] s = "ACCEPTED_BY_USER"    -> 4
      [] s \in {"PAID", "DISPUTE"} -> 5
      [] s = "REJECTED"            -> 6
      [] OTHER                     -> 7
============================================================================
