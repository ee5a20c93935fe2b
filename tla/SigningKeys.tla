---------------------------- MODULE SigningKeys ----------------------------
(***************************************************************************)
(* auth/: the signing keys of Keycloak in the memory of the process, and   *)
(* the requests whose tokens are verified with them.                       *)
(*                                                                         *)
(* One JwksCache serves all requests of the process.  A request that finds *)
(* the cache too old, or its key not in it, fetches the list of keys; the  *)
(* others go on meanwhile, and several may fetch at once.  What else a     *)
(* token has to satisfy, and whom it makes of the caller, is decided       *)
(* without waiting and is the module Access.                               *)
(***************************************************************************)
EXTENDS Integers, FiniteSets

CONSTANTS
    Kids,        \* the key ids Keycloak ever uses
    Requests,    \* requests that may be verified at the same time
    Ttl,         \* auth_jwks_cache_ttl
    LongestFetch,  \* bound: one fetch as a whole (its timeout bounds each wait)
    MaxAge       \* bound: a history of withdrawals is kept this long

SigningKeysAssumption ==
    /\ Ttl \in Nat \ {0} /\ LongestFetch \in Nat \ {0}
    /\ MaxAge \in Nat /\ MaxAge > Ttl + LongestFetch

VARIABLES
    published,  \* the keys Keycloak signs with
    gone,       \* history: how long ago each key was withdrawn; 0 while published
    keys,       \* the cache: its keys
    left,       \* and how long it is good for; 0 also before the first fetch
    verify,     \* each request: its key, its fetch and the answer to it
    steady      \* history: requests whose key has been published all the time

vars == <<published, gone, keys, left, verify, steady>>

Smaller(a, b) == IF a < b THEN a ELSE b

Free == [phase |-> "free", kid |-> {}, left |-> 0, answer |-> {}]

Init ==
    /\ published \in SUBSET Kids
    /\ gone = [k \in Kids |-> IF k \in published THEN 0 ELSE MaxAge]
    /\ keys = {} /\ left = 0
    /\ verify = [r \in Requests |-> Free] /\ steady = {}

\* JwksCache._expired.
Expired == left = 0

\* JwtVerifier.verify and get_key without a wait: the key is in a cache that is
\* good.
Accept(r, k) ==
    /\ verify[r] = Free /\ ~Expired /\ k \in keys
    /\ verify' = [verify EXCEPT ![r] = [Free EXCEPT !.phase = "accepted", !.kid = {k}]]
    /\ steady' = steady \ {r}
    /\ UNCHANGED <<published, gone, keys, left>>

\* get_key has to fetch.
Fetch(r, k) ==
    /\ verify[r] = Free /\ (Expired \/ k \notin keys)
    /\ verify' = [verify EXCEPT ![r] = [phase |-> "fetching", kid |-> {k}, left |-> LongestFetch,
                                        answer |-> {}]]
    /\ steady' = IF k \in published THEN steady \cup {r} ELSE steady \ {r}
    /\ UNCHANGED <<published, gone, keys, left>>

\* Keycloak answers with the keys of this moment; the answer is under way.
Answer(r) ==
    /\ verify[r].phase = "fetching"
    /\ verify' = [verify EXCEPT ![r].phase = "answered", ![r].answer = published]
    /\ UNCHANGED <<published, gone, keys, left, steady>>

\* Mutant: a refresh adds to the keys instead of replacing them.
Refreshed_merged(r) == keys \cup verify[r].answer

\* _refresh: what the cache holds after the answer to r.
Refreshed(r) == verify[r].answer

\* The rest of _refresh and get_key, without a wait in between: the cache is
\* replaced, possibly by an older answer than it holds, and the key looked up.
Complete(r) ==
    /\ verify[r].phase = "answered"
    /\ keys' = Refreshed(r) /\ left' = Ttl
    /\ verify' = [verify EXCEPT ![r] =
                    [Free EXCEPT !.phase = IF verify[r].kid \subseteq keys' THEN "accepted" ELSE "refused",
                                 !.kid = verify[r].kid]]
    /\ UNCHANGED <<published, gone, steady>>

\* The fetch fails: the request ends with 500, the cache stays.
Fail(r) ==
    /\ verify[r].phase \in {"fetching", "answered"}
    /\ verify' = [verify EXCEPT ![r] = Free]
    /\ steady' = steady \ {r}
    /\ UNCHANGED <<published, gone, keys, left>>

\* The verdict has been given.
Leave(r) ==
    /\ verify[r].phase \in {"accepted", "refused"}
    /\ verify' = [verify EXCEPT ![r] = Free]
    /\ steady' = steady \ {r}
    /\ UNCHANGED <<published, gone, keys, left>>

----------------------------------------------------------------------------
\* Keycloak rotates its keys; one withdrawn long ago is not told from a new one.
Publish(k) ==
    /\ k \notin published /\ gone[k] = MaxAge
    /\ published' = published \cup {k} /\ gone' = [gone EXCEPT ![k] = 0]
    /\ UNCHANGED <<keys, left, verify, steady>>

Withdraw(k) ==
    /\ k \in published
    /\ published' = published \ {k} /\ gone' = [gone EXCEPT ![k] = 0]
    /\ steady' = {r \in steady : k \notin verify[r].kid}
    /\ UNCHANGED <<keys, left, verify>>

Waiting == {r \in Requests : verify[r].phase \in {"fetching", "answered"}}

\* A verdict takes no time, and a fetch no longer than LongestFetch.
Tick ==
    /\ \A r \in Requests : verify[r].phase \notin {"accepted", "refused"}
    /\ \A r \in Waiting : verify[r].left > 0
    /\ left' = IF left > 0 THEN left - 1 ELSE 0
    /\ gone' = [k \in Kids |-> IF k \in published THEN 0 ELSE Smaller(gone[k] + 1, MaxAge)]
    /\ verify' = [r \in Requests |->
                    IF r \in Waiting THEN [verify[r] EXCEPT !.left = @ - 1] ELSE verify[r]]
    /\ UNCHANGED <<published, keys, steady>>

Next ==
    \/ \E r \in Requests :
         \/ \E k \in Kids : Accept(r, k) \/ Fetch(r, k)
         \/ Answer(r) \/ Complete(r) \/ Fail(r) \/ Leave(r)
    \/ \E k \in Kids : Publish(k) \/ Withdraw(k)
    \/ Tick

Spec == Init /\ [][Next]_vars
----------------------------------------------------------------------------
TypeOK ==
    /\ published \subseteq Kids /\ keys \subseteq Kids
    /\ gone \in [Kids -> 0 .. MaxAge] /\ left \in 0 .. Ttl
    /\ verify \in [Requests -> [phase : {"free", "fetching", "answered", "accepted", "refused"},
                               kid : SUBSET Kids, left : 0 .. LongestFetch, answer : SUBSET Kids]]
    /\ steady \subseteq Requests

\* Rotation of the keys, with several requests refreshing the cache at once and a
\* slow answer replacing a newer one: a token is accepted at most Ttl and one fetch
\* after its key was withdrawn, and never refused when its key was published all
\* the time.
VerdictsSound ==
    \A r \in Requests :
        /\ verify[r].phase = "accepted" => \A k \in verify[r].kid : gone[k] <= Ttl + LongestFetch
        /\ verify[r].phase = "refused" => r \notin steady
============================================================================
