----------------------------- MODULE Neighbours -----------------------------
(***************************************************************************)
(* One client of a neighbouring service at work: clients/ (the adapters    *)
(* over ResilientHttpClient, its circuit breaker, retries and caches) and  *)
(* the m2m token it carries.                                               *)
(*                                                                         *)
(* A client is built for one HTTP request or one batch and makes its calls *)
(* one after the other; only the cache of the partner registry is shared   *)
(* with the other requests of the process.  Time is a tick; every quantity *)
(* of time is what is left of it.                                          *)
(*                                                                         *)
(* The timeouts given to httpx.AsyncClient bound one wait: for the pool,   *)
(* the connection, a write, the next bytes.  Nothing in the code bounds an *)
(* attempt or a fetch as a whole; Longest is how long the neighbour can    *)
(* draw one out.                                                           *)
(***************************************************************************)
EXTENDS Integers

CONSTANTS
    Attempts,      \* client_retry_attempts
    Timeout,       \* client_timeout_seconds: one wait of an attempt
    BaseDelay,     \* client_retry_base_delay
    MaxDelay,      \* client_retry_max_delay
    Threshold,     \* client_breaker_failure_threshold
    ResetTimeout,  \* client_breaker_reset_timeout
    CacheTtl,      \* platform_cache_ttl_seconds
    FetchTime,     \* the timeout of the token endpoint: one wait of a fetch
    Longest,       \* bound: an attempt or a fetch as a whole
    Skew,          \* _EXPIRY_SKEW_SECONDS
    Lifetimes      \* the lifetimes Keycloak gives its tokens

Smaller(a, b) == IF a < b THEN a ELSE b

\* RetryPolicy.backoff: the pause after the n-th attempt.
Backoff(n) == Smaller(BaseDelay * 2^(n - 1), MaxDelay)

ASSUME NeighboursAssumption ==
    /\ Attempts \in Nat \ {0} /\ Threshold \in Nat \ {0}
    /\ Timeout \in Nat \ {0} /\ FetchTime \in Nat \ {0} /\ ResetTimeout \in Nat \ {0}
    /\ BaseDelay \in Nat \ {0} /\ MaxDelay \in Nat \ {0} /\ CacheTtl \in Nat \ {0}
    /\ Longest \in Nat /\ Timeout <= Longest /\ FetchTime <= Longest
    /\ Skew \in Nat /\ Lifetimes \subseteq Nat

VARIABLES
    call,      \* the call at work: phase, attempt, what is left of the wait and of the
               \* whole, its token, age of the answer
    breaker,   \* CircuitBreaker
    token,     \* ClientCredentialsTokenProvider: cached for, alive for; how long after
               \* it was issued it arrived
    cache,     \* the list of candidates: kept for, and how long it has been outdated
    up,        \* whether the neighbour answers
    streak,    \* history: failed calls in a row, up to Threshold
    since      \* history: time since the last of them, up to ResetTimeout

vars == <<call, breaker, token, cache, up, streak, since>>

Operations == {"search_candidates", "other"}

\* A list that is what the registry has now.
Current == -1

\* No token, or one just fetched: nothing is said of it.  For a token from the cache,
\* spent is what the fetch and the call have taken so far, up to Skew.
NoToken == [live |-> 0, kept |-> FALSE, spent |-> 0]

Idle   == [phase |-> "idle", op |-> "other", n |-> 0, left |-> 0, rest |-> 0, bearer |-> NoToken,
           old |-> Current]
Closed == [state |-> "CLOSED", failures |-> 0, rest |-> 0, trying |-> FALSE]

Init ==
    /\ call = Idle /\ breaker = Closed
    /\ token = [cached |-> 0, live |-> 0, took |-> 0]
    /\ cache = [left |-> 0, old |-> Current]
    /\ up = TRUE /\ streak = 0 /\ since = ResetTimeout

----------------------------------------------------------------------------
\* CircuitBreaker.acquire, when it lets the call through and when it does not.
Refused ==
    \/ breaker.state = "OPEN" /\ breaker.rest > 0
    \/ breaker.state = "HALF_OPEN" /\ breaker.trying

Acquired == IF breaker.state = "CLOSED" THEN breaker
            ELSE [breaker EXCEPT !.state = "HALF_OPEN", !.trying = TRUE]

\* Mutant: a probe that succeeds does not close the breaker.
Success_halfOpen == [breaker EXCEPT !.failures = 0, !.trying = FALSE]

\* CircuitBreaker.record_success.
Success == Closed

\* Mutant: a probe that fails does not start the pause again.
Failure_noPause ==
    LET n == IF breaker.state = "HALF_OPEN" THEN breaker.failures ELSE breaker.failures + 1
    IN  [state |-> IF n >= Threshold THEN "OPEN" ELSE "CLOSED", failures |-> n,
         rest |-> IF breaker.state = "CLOSED" /\ n >= Threshold THEN ResetTimeout ELSE breaker.rest,
         trying |-> FALSE]

\* Mutant: the breaker opens one failure late.
Failure_offByOne ==
    LET n    == IF breaker.state = "HALF_OPEN" THEN breaker.failures ELSE breaker.failures + 1
        open == breaker.state = "HALF_OPEN" \/ n > Threshold
    IN  [state |-> IF open THEN "OPEN" ELSE "CLOSED", failures |-> n,
         rest |-> IF open THEN ResetTimeout ELSE 0, trying |-> FALSE]

\* CircuitBreaker.record_failure.
Failure ==
    LET n    == IF breaker.state = "HALF_OPEN" THEN breaker.failures ELSE breaker.failures + 1
        open == breaker.state = "HALF_OPEN" \/ n >= Threshold
    IN  [state |-> IF open THEN "OPEN" ELSE "CLOSED", failures |-> n,
         rest |-> IF open THEN ResetTimeout ELSE 0, trying |-> FALSE]

\* ResilientHttpClient.request with a token: refused, or the first attempt.
Request(op, bearer) ==
    IF Refused
    THEN call' = Idle /\ UNCHANGED breaker
    ELSE /\ call' = [phase |-> "attempt", op |-> op, n |-> 1, left |-> Timeout, rest |-> Longest,
                     bearer |-> bearer, old |-> Current]
         /\ breaker' = Acquired

\* Mutant: a list that is read is kept for another TTL.
CacheHit_renews(op) ==
    /\ call = Idle /\ op = "search_candidates" /\ cache.left > 0
    /\ cache' = [cache EXCEPT !.left = CacheTtl]
    /\ UNCHANGED <<call, breaker, token, up, streak, since>>

\* _fetch_candidates: the list is in the cache.
CacheHit(op) ==
    /\ call = Idle /\ op = "search_candidates" /\ cache.left > 0
    /\ UNCHANGED vars

\* A method of an adapter: the token is in the cache, or has to be fetched.
Begin(op) ==
    /\ call = Idle /\ ~(op = "search_candidates" /\ cache.left > 0)
    /\ IF token.cached > 0
       THEN Request(op, [live |-> token.live, kept |-> TRUE, spent |-> Smaller(token.took, Skew)])
       ELSE /\ call' = [Idle EXCEPT !.phase = "token", !.op = op, !.left = FetchTime,
                                    !.rest = Longest]
            /\ UNCHANGED breaker
    /\ UNCHANGED <<token, cache, up, streak, since>>

\* Mutant: the token is kept for its whole lifetime.
Kept_noSkew(l) == l

\* How long a token of lifetime l is kept.
Kept(l) == IF l > Skew THEN l - Skew ELSE 0

\* get_token: issued at any moment of the fetch, kept from its end.
TokenArrives(l) ==
    /\ call.phase = "token"
    /\ \E took \in 0 .. Longest - call.rest :
         LET live == IF l > took THEN l - took ELSE 0
         IN  /\ token' = [cached |-> Kept(l), live |-> live, took |-> took]
             /\ Request(call.op, [NoToken EXCEPT !.live = live])
    /\ UNCHANGED <<cache, up, streak, since>>

\* _post_token raises; no adapter but kb-files' catches it.
TokenFails ==
    /\ call.phase = "token"
    /\ call' = Idle
    /\ UNCHANGED <<breaker, token, cache, up, streak, since>>

\* 2xx to 4xx.  The adapter caches a list, and nothing after a 4xx or a body it
\* cannot read; the list is what the registry had at some moment of the attempt.
Answered ==
    /\ call.phase = "attempt" /\ up
    /\ call' = Idle /\ breaker' = Success
    /\ \/ UNCHANGED cache
       \/ /\ call.op = "search_candidates"
          /\ \E age \in {Current, call.old} : cache' = [left |-> CacheTtl, old |-> age]
    /\ streak' = 0
    /\ UNCHANGED <<token, up, since>>

\* 5xx or a transport error: another attempt after the pause, or the failure of
\* the call.
Failed ==
    /\ call.phase = "attempt" /\ ~up
    /\ IF call.n < Attempts
       THEN /\ call' = [call EXCEPT !.phase = "wait", !.left = Backoff(call.n), !.rest = 0]
            /\ UNCHANGED <<breaker, streak, since>>
       ELSE /\ call' = Idle /\ breaker' = Failure
            /\ streak' = Smaller(streak + 1, Threshold) /\ since' = 0
    /\ UNCHANGED <<token, cache, up>>

\* Any other exception (httpx.DecodingError, TooManyRedirects) passes through
\* request without a word to the breaker.
Raised ==
    /\ call.phase = "attempt"
    /\ call' = Idle
    /\ UNCHANGED <<breaker, token, cache, up, streak, since>>

\* retry_async: the next attempt, with the same headers.
Again ==
    /\ call.phase = "wait" /\ call.left = 0
    /\ call' = [call EXCEPT !.phase = "attempt", !.n = @ + 1, !.left = Timeout,
                            !.rest = Longest, !.old = Current]
    /\ UNCHANGED <<breaker, token, cache, up, streak, since>>

\* A phase of the exchange is over, or some bytes have come: the next wait begins.
WaitsAnew ==
    /\ call.phase \in {"token", "attempt"}
    /\ call' = [call EXCEPT !.left = Smaller(IF call.phase = "token" THEN FetchTime ELSE Timeout,
                                             call.rest)]
    /\ UNCHANGED <<breaker, token, cache, up, streak, since>>

----------------------------------------------------------------------------
Less(n) == IF n > 0 THEN n - 1 ELSE 0

\* The age past which nothing tells outdated lists apart.
Stale    == CacheTtl + Longest + 1
Older(n) == IF n = Current THEN Current ELSE Smaller(n + 1, Stale)

Aged(bearer) == [bearer EXCEPT !.live = Less(@),
                               !.spent = IF bearer.kept THEN Smaller(@ + 1, Skew) ELSE @]

\* Time passes; neither a wait nor a pause outlasts its limit.
Tick ==
    /\ call # Idle => call.left > 0
    /\ call' = IF call = Idle THEN Idle
               ELSE [call EXCEPT !.left = @ - 1, !.rest = Less(@), !.bearer = Aged(@), !.old = Older(@)]
    /\ breaker' = [breaker EXCEPT !.rest = Less(@)]
    /\ token' = [token EXCEPT !.cached = Less(@), !.live = Less(@)]
    /\ cache' = IF cache.left <= 1 THEN [left |-> 0, old |-> Current]
                ELSE [left |-> cache.left - 1, old |-> Older(cache.old)]
    /\ since' = Smaller(since + 1, ResetTimeout)
    /\ UNCHANGED <<up, streak>>

\* kb-platform changes its registry: what was read before is outdated.
RegistryChanges ==
    /\ cache' = IF cache.left > 0 /\ cache.old = Current THEN [cache EXCEPT !.old = 0] ELSE cache
    /\ call' = IF call.phase = "attempt" /\ call.old = Current THEN [call EXCEPT !.old = 0] ELSE call
    /\ UNCHANGED <<breaker, token, up, streak, since>>

\* Another request of the process stores a list it has just read.
Elsewhere ==
    /\ \E age \in Current .. Longest : cache' = [left |-> CacheTtl, old |-> age]
    /\ UNCHANGED <<call, breaker, token, up, streak, since>>

Neighbour == up' = ~up /\ UNCHANGED <<call, breaker, token, cache, streak, since>>

Start == \E op \in Operations : CacheHit(op) \/ Begin(op)

Progress ==
    \/ \E l \in Lifetimes : TokenArrives(l)
    \/ TokenFails \/ Answered \/ Failed \/ Raised \/ Again

Next == Start \/ Progress \/ WaitsAnew \/ Tick \/ RegistryChanges \/ Elsewhere \/ Neighbour

\* httpx and asyncio end every wait and pause, no neighbour draws an answer out for
\* ever, and time passes.
Fairness == WF_vars(Progress) /\ WF_vars(Tick)

Spec == Init /\ [][Next]_vars /\ Fairness
----------------------------------------------------------------------------
TypeOK ==
    /\ call \in [phase : {"idle", "token", "attempt", "wait"}, op : Operations, n : 0 .. Attempts,
                 left : Nat, rest : 0 .. Longest, old : Current .. Stale,
                 bearer : [live : Nat, kept : BOOLEAN, spent : 0 .. Skew]]
    /\ breaker \in [state : {"CLOSED", "OPEN", "HALF_OPEN"}, failures : 0 .. Threshold,
                    rest : 0 .. ResetTimeout, trying : BOOLEAN]
    /\ token \in [cached : Nat, live : Nat, took : 0 .. Longest]
    /\ cache \in [left : 0 .. CacheTtl, old : Current .. Stale]
    /\ up \in BOOLEAN /\ streak \in 0 .. Threshold /\ since \in 0 .. ResetTimeout

\* What the skew is worth: a call that took its token from the cache sends an expired
\* one only after its attempts and pauses, together with the time the token was on its
\* way, have used up the whole skew.  (No timeout keeps a call from lasting longer, and
\* a retry sends the same token again.)
SkewCovers ==
    call.phase = "attempt" /\ call.bearer.kept /\ call.bearer.live = 0 => call.bearer.spent = Skew

\* A neighbour that has failed Threshold calls in a row gets no call before
\* ResetTimeout has passed since the last one, a probe that failed included.
BreakerQuiet ==
    [][call.phase # "attempt" /\ call'.phase = "attempt" /\ call'.n = 1
         => streak < Threshold \/ since = ResetTimeout]_vars

\* Whoever takes a list of candidates from the cache gets one that the registry
\* had at most CacheTtl and the one attempt that brought it ago: neither a late
\* answer nor another request of the process adds to that.
ListFresh == cache.left > 0 => cache.old < CacheTtl + Longest

\* A probe that ended with an exception nobody counts: the breaker waits for its
\* verdict and refuses every further call of this client.
Stranded == call = Idle /\ breaker.state = "HALF_OPEN" /\ breaker.trying

\* A client that goes on calling a neighbour that is up again gets through,
\* however long it was down and whatever the pauses: the breaker closes, unless a
\* probe was stranded.
Recovers ==
    (<>[]up /\ <>[][~TokenFails]_vars /\ []<><<\E op \in Operations : Begin(op)>>_vars)
        => []<>(breaker.state = "CLOSED" \/ Stranded)
============================================================================
