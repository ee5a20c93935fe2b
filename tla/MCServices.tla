----------------------------- MODULE MCServices -----------------------------
(***************************************************************************)
(* The parts that share nothing with each other, explored in one run: each *)
(* beside the initial state of the others.  The calls of Neighbours wait   *)
(* and write, and so do SigningKeys, Lists and Retention; the other parts  *)
(* answer one question each, kept in input.                                *)
(***************************************************************************)
EXTENDS Neighbours

CONSTANTS
    Kids, Requests, Ttl, LongestFetch, MaxAge,
    Ids, Times, PageLimit,
    Rows, Workers, RetentionDays, BatchSize,
    DayHours, WeekDays, Horizon, Starts, MaxAmount, Changes, Instants,
    Confidences, NotANumber, ConfidenceThreshold, MaxHits,
    Subjects, Partners, Clients

VARIABLES
    published, gone, keys, left, verify, signing,
    table, cursor, pages, over, steady, met,
    texts, history, batch, held, personal,
    input, part

Keys       == INSTANCE SigningKeys WITH steady <- signing
List       == INSTANCE Lists
Forget     == INSTANCE Retention WITH Requests <- Rows
Deadlines  == INSTANCE Sla
Selecting  == INSTANCE Selection
Accessing  == INSTANCE Access
Delivering == INSTANCE Channels

ASSUME ServicesAssumption ==
    /\ Keys!SigningKeysAssumption /\ List!ListsAssumption /\ Forget!RetentionAssumption
    /\ Deadlines!SlaAssumption /\ Selecting!SelectionAssumption

keyVars == <<published, gone, keys, left, verify, signing>>
listVars == <<table, cursor, pages, over, steady, met>>
textVars == <<texts, history, batch, held, personal>>
all == <<vars, keyVars, listVars, textVars, input, part>>

Asked == {"sla", "selection", "access", "channels"}

MCInit ==
    /\ Init /\ Keys!Init /\ List!Init /\ Forget!Init /\ input = {}
    /\ part \in {"calls", "keys", "lists", "texts"} \cup Asked
    /\ part # "keys" => published = {}

Asking ==
    \/ part = "sla"       /\ Deadlines!Next
    \/ part = "selection" /\ Selecting!Next
    \/ part = "access"    /\ Accessing!Next
    \/ part = "channels"  /\ Delivering!Next

MCNext ==
    /\ UNCHANGED part
    /\ \/ part = "calls" /\ Next        /\ UNCHANGED <<keyVars, listVars, textVars, input>>
       \/ part = "keys"  /\ Keys!Next   /\ UNCHANGED <<vars, listVars, textVars, input>>
       \/ part = "lists" /\ List!Next   /\ UNCHANGED <<vars, keyVars, textVars, input>>
       \/ part = "texts" /\ Forget!Next /\ UNCHANGED <<vars, keyVars, listVars, input>>
       \/ Asking                        /\ UNCHANGED <<vars, keyVars, listVars, textVars>>

MCSpec == MCInit /\ [][MCNext]_all /\ Fairness

\* The state has the types that the modules declare.
TypesOK ==
    /\ TypeOK /\ Keys!TypeOK /\ List!TypeOK /\ Forget!TypeOK
    /\ part = "access" => Accessing!TypeOK

\* The properties of the instances, under their own names.
VerdictsSound  == Keys!VerdictsSound
PagesSound     == List!PagesSound
ForgottenOnce  == Forget!ForgottenOnce
DeadlinesRight == part = "sla" => Deadlines!DeadlinesRight
StatesSound    == part = "sla" => Deadlines!StatesSound
CategoriesSound == part = "selection" => Selecting!CategoriesSound
FormatErrorsDegrade == part = "selection" => Selecting!FormatErrorsDegrade
MatchesSound   == part = "selection" => Selecting!MatchesSound
AccessSound    == part = "access" => Accessing!AccessSound
DeliveriesReported == part = "channels" => Delivering!DeliveriesReported
============================================================================
