------------------------------- MODULE Access -------------------------------
(***************************************************************************)
(* auth/ and requests/access.py: what the claims of a verified token make  *)
(* of the caller, which requests he sees and what the endpoints of the     *)
(* router answer him.                                                      *)
(*                                                                         *)
(* An endpoint answers 404 for a request that does not exist or that the   *)
(* caller does not see, then 403 when he may not do what it is for; what   *)
(* it does after that is the subject of the other modules.                 *)
(***************************************************************************)
EXTENDS Integers, FiniteSets

CONSTANTS
    Subjects,   \* the subs: users, and the service accounts of agents
    Partners,   \* the collaborator ids
    Clients     \* the client ids of agents

VARIABLE input  \* the claims of the caller; {} before there is one

----------------------------------------------------------------------------
Kinds  == {"requester", "operator", "partner", "service", "agent"}
Scopes == {"operator", "partner", "agent", "staff_admin"}

AccessLevel == {"PUBLIC", "LOGGED", "AGENT", "STAFF", "LEGAL", "HR_RESTRICTED"}
AGENT_LEVELS == {"PUBLIC", "LOGGED", "AGENT"}
BASE_LEVELS  == {"PUBLIC", "LOGGED"}

\* A set of at most one element stands for a claim that may be missing; "malformed"
\* is a value of the wrong form, and an unknown kind is read as "requester".
Optional(S) == {{}} \cup {{x} : x \in S}

Claims ==
    [sub : Subjects \cup {"malformed"}, kbp_kind : Kinds, scope : SUBSET Scopes,
     kbp_partner_id : Optional(Partners), kbp_act_sub : Optional(Subjects \cup {"malformed"}),
     act : Optional(Clients), azp : Optional(Clients \cup {"malformed"})]

RequestRows == [access_level : AccessLevel, requester_id : Subjects, partner_id : Optional(Partners)]

\* claims_to_principal: {} stands for 401.
PrincipalOf(c) ==
    IF \/ c.sub = "malformed"
       \/ c.act # {} /\ c.kbp_act_sub # {}
       \/ c.act # {} /\ c.azp # {} /\ c.azp # c.act
    THEN {}
    ELSE {[user_id |-> c.sub, kind |-> c.kbp_kind, scopes |-> c.scope, partner_id |-> c.kbp_partner_id,
           on_behalf_of |-> c.kbp_act_sub \ {"malformed"}, acting_agent |-> c.act]}

IsOperator(p)   == p.kind = "operator" \/ "operator" \in p.scopes
IsPartner(p)    == p.kind = "partner" \/ "partner" \in p.scopes
IsAgent(p)      == p.kind = "agent" \/ p.acting_agent # {} \/ "agent" \in p.scopes
IsStaffAdmin(p) == "staff_admin" \in p.scopes

\* can_view_internal.
IsStaff(p) == IsOperator(p) \/ IsStaffAdmin(p)

VisibleAccessLevels(p) ==
    IF IsStaff(p) THEN AccessLevel ELSE IF IsAgent(p) THEN AGENT_LEVELS ELSE BASE_LEVELS

\* The user whose requests the caller owns.
User(p) == IF IsAgent(p) /\ p.on_behalf_of # {} THEN p.on_behalf_of ELSE {p.user_id}

\* Mutant: an agent is recognised before a partner.
Owns_agentFirst(p, r) ==
    \/ IsStaff(p)
    \/ ~IsStaff(p) /\ IsPartner(p) /\ ~IsAgent(p) /\ p.partner_id # {} /\ r.partner_id = p.partner_id
    \/ ~IsStaff(p) /\ (IsAgent(p) \/ ~(IsPartner(p) /\ p.partner_id # {})) /\ r.requester_id \in User(p)

\* ownership_condition.
Owns(p, r) ==
    \/ IsStaff(p)
    \/ ~IsStaff(p) /\ IsPartner(p) /\ p.partner_id # {} /\ r.partner_id = p.partner_id
    \/ ~IsStaff(p) /\ ~(IsPartner(p) /\ p.partner_id # {}) /\ r.requester_id \in User(p)

\* get_visible, over a request that may not exist.
Visible(p, there) == {r \in there : r.access_level \in VisibleAccessLevels(p) /\ Owns(p, r)}

CanSeeRawInput(p, r) ==
    IsStaff(p) \/ (~IsPartner(p) /\ r.requester_id \in User(p))

CanDriveLifecycle(p) == IsStaff(p) \/ IsAgent(p)

\* can_cancel, can_reschedule and can_user_action.
CanActAsUser(p) == ~IsPartner(p)

----------------------------------------------------------------------------
\* The endpoints of one request, with what each asks of the caller who sees it.
Reading    == {"get_request", "list_messages", "add_message"}
Driving    == {"transition", "classify", "assign", "dispatch"}
UserDoes   == {"accept", "dispute", "cancel", "reschedule"}
PartnerDoes == {"partner_response", "estimate"}

Endpoints == Reading \cup Driving \cup UserDoes \cup PartnerDoes
               \cup {"requester_context", "internal_note", "settlement"}

\* The check of the role in each handler.
Allowed(p, endpoint) ==
    CASE endpoint \in Driving     -> CanDriveLifecycle(p)
      [] endpoint \in UserDoes    -> CanActAsUser(p)
      [] endpoint \in PartnerDoes -> IsPartner(p)
      [] endpoint = "requester_context" -> IsOperator(p) \/ IsAgent(p)
      [] endpoint = "internal_note" -> IsStaff(p)
      [] OTHER -> TRUE

\* require_service_principal: the gate of settlement, from-chat and from-ticket.
RequireService(p) == p.kind = "service"

\* The settlement is for services only and looks at no visibility; every other
\* handler looks first, and only then at what the caller may do.
Answer(p, endpoint, there) ==
    IF endpoint = "settlement" /\ ~RequireService(p) THEN 403
    ELSE IF endpoint = "settlement" THEN IF there = {} THEN 404 ELSE 200
    ELSE IF Visible(p, there) = {} THEN 404
    ELSE IF ~Allowed(p, endpoint) THEN 403 ELSE 200

\* _resolve_requester, for a form that may name a requester: {} stands for 400.
ResolveRequester(p, provided) ==
    IF p.kind = "requester" THEN {p.user_id}
    ELSE IF provided # {} THEN provided
    ELSE IF p.on_behalf_of # {} THEN p.on_behalf_of
    ELSE IF p.kind = "service" THEN {} ELSE {p.user_id}

\* The actor that the history of a request names.
Actor(p) == IF p.on_behalf_of # {} THEN p.on_behalf_of ELSE {p.user_id}

\* build_detail, what a card shows of the request besides its status.
Card(p, r) ==
    (IF CanSeeRawInput(p, r) THEN {"raw_input"} ELSE {"raw_input_masked"})
      \cup (IF IsStaff(p) THEN {"match_trace", "fallback_chain"} ELSE {})

----------------------------------------------------------------------------
Init == input = {}
Next == /\ input = {}
        /\ \E c \in Claims : input' = {c}
Spec == Init /\ [][Next]_input
----------------------------------------------------------------------------
TypeOK == \A c \in input : c \in Claims

\* A request the caller may not see is answered like one that does not exist,
\* whatever he asks for.
NotTold(p) ==
    \A r \in RequestRows, e \in Endpoints \ {"settlement"} :
        Visible(p, {r}) = {} => Answer(p, e, {r}) = Answer(p, e, {})

\* A partner, who is no staff, never gets the text as it was written, the context of
\* the requester unless he is an agent too, or a request another was asked to do.
PartnerConfined(p) ==
    IsPartner(p) /\ ~IsStaff(p) =>
        \A r \in RequestRows :
            /\ "raw_input" \notin Card(p, r)
            /\ ~IsAgent(p) => Answer(p, "requester_context", {r}) # 200
            /\ p.partner_id # {} /\ (\E e \in Endpoints \ {"settlement"} : Answer(p, e, {r}) = 200)
                 => r.partner_id = p.partner_id

\* An agent reaches the requests of the user it acts for and leaves his name behind,
\* by either scheme of delegation.
DelegationConfined(p) ==
    IsAgent(p) /\ ~IsStaff(p) /\ ~IsPartner(p) =>
        \A r \in RequestRows, e \in Endpoints \ {"settlement"} :
            Answer(p, e, {r}) = 200 => r.requester_id \in Actor(p)

\* The work is never accepted by a caller who can report it done, and nobody sees
\* the requests of others without being staff, their partner or delegated by them.
NobodyElse(p) ==
    \A r \in RequestRows :
        /\ ~(Answer(p, "partner_response", {r}) = 200 /\ Answer(p, "accept", {r}) = 200)
        /\ ~IsStaff(p) /\ Visible(p, {r}) # {} =>
             \/ r.requester_id = p.user_id \/ r.requester_id \in p.on_behalf_of
             \/ IsPartner(p) /\ r.partner_id = p.partner_id /\ p.partner_id # {}

\* What a caller files without naming another requester is his, or his user's, to
\* follow.  Excepted are those who file it in the role of a partner, and an agent of
\* the older scheme that only its scope names as such: _resolve_requester goes by the
\* kind and gives the request to the account of the agent, where nobody finds it.
IntakeOwned(p) ==
    LET asPartner == IsPartner(p) /\ p.partner_id # {}
        misnamed  == p.on_behalf_of # {} /\ (~IsAgent(p) \/ p.kind = "requester")
    IN ~asPartner /\ ~misnamed =>
       \A u \in ResolveRequester(p, {}) :
           \A r \in [access_level : BASE_LEVELS, requester_id : {u}, partner_id : Optional(Partners)] :
               Visible(p, {r}) # {}

\* Callers of several roles at once, with either scheme of delegation, well formed or
\* not: the five promises above hold of whoever a token makes of them.
AccessSound ==
    \A c \in input : \A p \in PrincipalOf(c) :
        NotTold(p) /\ PartnerConfined(p) /\ DelegationConfined(p) /\ NobodyElse(p) /\ IntakeOwned(p)
============================================================================
