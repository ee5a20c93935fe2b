-------------------------- MODULE RequestLifecycle --------------------------
(***************************************************************************)
(* What a request promises to those who watch it: its committed status     *)
(* starts at NEW and every commit moves it along the arrows of RequestFsm, *)
(* but for one.  One transaction may follow several arrows: the longest    *)
(* run of any handler is the accept-timeout fallback, DISPATCHED ->        *)
(* MATCHING -> ASSIGNED -> DISPATCHED -> FAILED_DISPATCH, four of them.    *)
(*                                                                         *)
(* The exception: the dispatch endpoint drains its own message with the    *)
(* row it loaded before its first commit, and when no channel takes the    *)
(* request it writes FAILED_DISPATCH over whatever has been committed      *)
(* since (channels/dispatch.py:135, from line 175).  Only a request that   *)
(* has been dispatched can be hit.                                         *)
(* RequestService and OnCreate implement this specification; Dispatch      *)
(* implements its moves.                                                   *)
(***************************************************************************)
EXTENDS RequestFsm

VARIABLES
    status,
    dispatched    \* dispatched_at is set: the request has been dispatched once

Init == status = "NEW" /\ dispatched = FALSE

Move == status' \in Leads[status]

StaleFailure == dispatched /\ status' = "FAILED_DISPATCH"

Next ==
    /\ Move \/ StaleFailure
    /\ dispatched' = (dispatched \/ status' \in {"DISPATCHED", "FAILED_DISPATCH"})

Spec == Init /\ [][Next]_<<status, dispatched>>

TypeOK == status \in RequestStatus /\ dispatched \in BOOLEAN

\* What fsm.py calls terminal, "no outgoing transitions", as far as it is true:
\* PAID, CANCELLED and REJECTED are final for a request never dispatched, and a
\* dispatched one leaves them for FAILED_DISPATCH only.
TerminalFinal ==
    [][ (status \in TERMINAL_STATUSES /\ status' # status)
          => dispatched /\ status' = "FAILED_DISPATCH" ]_<<status, dispatched>>

\* The stages from the partner's acceptance on are only passed forward: no
\* commit takes a request back to an earlier one but that FAILED_DISPATCH.
StageForward ==
    [][ Stage(status') < Stage(status)
          => dispatched /\ status' = "FAILED_DISPATCH" ]_<<status, dispatched>>
============================================================================
