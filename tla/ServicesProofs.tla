---------------------------- MODULE ServicesProofs ----------------------------
(***************************************************************************)
(* Proofs about the parts that MCServices puts side by side, for any       *)
(* values of their constants:                                              *)
(*                                                                         *)
(*   calls   a client of a neighbour: breaker, attempts, token and cache;  *)
(*   keys    the signing keys and the requests verified with them;         *)
(*   lists   a walk through the pages of a list;                           *)
(*   texts   the workers that forget old texts;                            *)
(*   access  what a caller is answered;                                    *)
(*   sla     the deadline of a stage, and its state when it is read;       *)
(*   selection  what the classifier makes of a text, and the matcher of    *)
(*           the partners;                                                 *)
(*   channels   what a delivery does and what is reported of it.           *)
(*                                                                         *)
(* Each of the first four has an inductive invariant of its own, the       *)
(* others are about one question and hold of every question.  The last     *)
(* section puts them together.                                             *)
(***************************************************************************)
EXTENDS MCServices, FiniteSetTheorems, FunctionTheorems, SequenceTheorems,
        WellFoundedInduction, TLAPS

----------------------------------------------------------------------------
(***************************************************************************)
(* Calls.                                                                  *)
(***************************************************************************)
Bearers == [live : Nat, kept : BOOLEAN, spent : 0 .. Skew]
CallStates ==
    [phase : {"idle", "token", "attempt", "wait"}, op : Operations, n : 0 .. Attempts,
     left : Nat, rest : 0 .. Longest, old : Current .. Stale, bearer : Bearers]
Tokens == [cached : Nat, live : Nat, took : 0 .. Longest]

Breakers ==
    [state : {"CLOSED", "OPEN", "HALF_OPEN"}, failures : 0 .. Threshold,
     rest : 0 .. ResetTimeout, trying : BOOLEAN]

CachedLists == [left : 0 .. CacheTtl, old : Current .. Stale]

\* A token from the cache: what it has left and what has been spent make the skew.
BearerOK(b) == b.kept => b.live + b.spent >= Skew

\* The call at work: its attempt, the age of what it brings, and its token.
CallOK ==
    /\ call.phase = "attempt" =>
         /\ call.n \in 1 .. Attempts /\ call.left <= call.rest
         /\ call.old + call.rest <= Longest
    /\ call.phase = "wait" => call.n \in 1 .. Attempts - 1
    /\ BearerOK(call.bearer)

TokenOK == token.cached > 0 => token.live + token.took >= token.cached + Skew

BreakerOK ==
    /\ breaker.state = "CLOSED" => breaker.failures = streak /\ streak < Threshold
    /\ breaker.state # "CLOSED" => streak = Threshold
    /\ breaker.state = "HALF_OPEN" => breaker.trying
    /\ breaker.state = "OPEN" =>
         breaker.rest + since >= ResetTimeout /\ call.phase \notin {"attempt", "wait"}

ListOK == cache.left > 0 => cache.old + cache.left <= CacheTtl + Longest

CallsInv == TypeOK /\ CallOK /\ TokenOK /\ BreakerOK /\ ListOK

\* The step that BreakerQuiet speaks of.
Quiet ==
    call.phase # "attempt" /\ call'.phase = "attempt" /\ call'.n = 1
        => streak < Threshold \/ since = ResetTimeout

----------------------------------------------------------------------------
LEMMA CallTypes ==
    TypeOK <=> /\ call \in CallStates /\ breaker \in Breakers /\ token \in Tokens
               /\ cache \in CachedLists /\ up \in BOOLEAN
               /\ streak \in 0 .. Threshold /\ since \in 0 .. ResetTimeout
  BY DEF TypeOK, CallStates, Bearers, Tokens, Breakers, CachedLists

LEMMA Constants ==
    /\ Attempts \in Nat \ {0} /\ Threshold \in Nat \ {0} /\ Timeout \in Nat \ {0}
    /\ FetchTime \in Nat \ {0} /\ ResetTimeout \in Nat \ {0} /\ BaseDelay \in Nat \ {0}
    /\ MaxDelay \in Nat \ {0} /\ CacheTtl \in Nat \ {0} /\ Skew \in Nat
    /\ Longest \in Nat /\ Timeout <= Longest /\ FetchTime <= Longest
    /\ Stale \in Nat /\ Stale = CacheTtl + Longest + 1 /\ Current = -1
  BY NeighboursAssumption DEF Stale, Current

\* Two to the power n counts the subsets of 1 .. n.
LEMMA PowerType == ASSUME NEW n \in Nat PROVE 2 ^ n \in Nat
<1>1. IsFiniteSet(1 .. n) /\ Cardinality(1 .. n) = n
  BY FS_Interval
<1>2. IsFiniteSet(SUBSET (1 .. n)) /\ Cardinality(SUBSET (1 .. n)) = 2 ^ n
  BY <1>1, FS_SUBSET
<1> QED BY <1>2, FS_CardinalityType

\* RetryPolicy.backoff never exceeds its ceiling.
LEMMA BackoffBound ==
    ASSUME NEW n \in 1 .. Attempts PROVE Backoff(n) \in 0 .. MaxDelay
<1> DEFINE power == 2 ^ (n - 1)
<1>1. power \in Nat
  BY PowerType, Constants
<1> HIDE DEF power
<1>2. \A a, b \in Nat : a * b \in Nat
  OBVIOUS
<1>3. BaseDelay * power \in Nat
  BY <1>1, <1>2, Constants
<1>4. Backoff(n) = Smaller(BaseDelay * power, MaxDelay)
  BY DEF Backoff, power
<1> DEFINE product == BaseDelay * power
<1>5. product \in Nat /\ Backoff(n) = Smaller(product, MaxDelay)
  BY <1>3, <1>4
<1> HIDE DEF product
<1> QED BY <1>5, Constants DEF Smaller

LEMMA IdleType ==
    /\ NoToken \in Bearers /\ BearerOK(NoToken)
    /\ Idle \in CallStates /\ Idle.phase = "idle" /\ Idle.bearer = NoToken /\ Closed \in Breakers
  BY Constants DEF NoToken, Bearers, BearerOK, Idle, Closed, CallStates, Breakers, Operations

----------------------------------------------------------------------------
LEMMA InitCalls == ASSUME Init PROVE CallsInv
<1>1. TypeOK
  BY IdleType, CallTypes, Constants DEF Init, CachedLists, Tokens
<1>2. CallOK /\ TokenOK /\ ListOK
  BY IdleType DEF Init, CallOK, TokenOK, ListOK
<1>3. BreakerOK
  BY Constants DEF Init, Closed, BreakerOK
<1> QED BY <1>1, <1>2, <1>3 DEF CallsInv

\* A request with a token: it is refused, or begins an attempt, and then the breaker
\* was closed or its pause is over.
LEMMA RequestBegins ==
    ASSUME CallsInv, NEW op \in Operations, NEW bearer \in Bearers, BearerOK(bearer),
           call.phase \in {"idle", "token"}, Request(op, bearer), streak' = streak, since' = since
    PROVE  call' \in CallStates /\ breaker' \in Breakers /\ CallOK' /\ BreakerOK' /\ Quiet
<1>1. breaker \in Breakers /\ streak \in 0 .. Threshold /\ since \in 0 .. ResetTimeout
  BY CallTypes DEF CallsInv
<1>2. CASE Refused
  <2>1. call' = Idle /\ breaker' = breaker
    BY <1>2 DEF Request
  <2> QED BY <2>1, <1>1, IdleType DEF CallsInv, CallOK, BreakerOK, Quiet
<1>3. CASE ~Refused
  <2>1. call' = [phase |-> "attempt", op |-> op, n |-> 1, left |-> Timeout, rest |-> Longest,
                 bearer |-> bearer, old |-> Current]
        /\ breaker' = Acquired
    BY <1>3 DEF Request
  <2>2. call' \in CallStates
    BY <2>1, Constants DEF CallStates
  <2>3. CallOK'
    BY <2>1, Constants DEF CallOK
  <2>4. CASE breaker.state = "CLOSED"
    <3>1. breaker' = breaker
      BY <2>1, <2>4 DEF Acquired
    <3> QED BY <3>1, <2>2, <2>3, <2>4, <1>1 DEF CallsInv, BreakerOK, Quiet
  <2>5. CASE breaker.state # "CLOSED"
    <3>1. breaker' = [breaker EXCEPT !.state = "HALF_OPEN", !.trying = TRUE]
      BY <2>1, <2>5 DEF Acquired
    <3>2. /\ breaker' \in Breakers /\ breaker'.state = "HALF_OPEN" /\ breaker'.trying
      BY <3>1, <1>1 DEF Breakers
    <3>3. breaker.state = "OPEN" /\ breaker.rest = 0
      BY <1>1, <1>3, <2>5 DEF Refused, CallsInv, BreakerOK, Breakers
    <3>4. streak = Threshold /\ since = ResetTimeout
      BY <1>1, <3>3, Constants DEF CallsInv, BreakerOK, Breakers
    <3> QED BY <3>2, <3>4, <2>2, <2>3 DEF BreakerOK, Quiet
  <2> QED BY <2>4, <2>5
<1> QED BY <1>2, <1>3

----------------------------------------------------------------------------
LEMMA BeginCalls ==
    ASSUME CallsInv, NEW op \in Operations, Begin(op) PROVE CallsInv' /\ Quiet
<1> USE DEF CallsInv
<1>1. /\ token' = token /\ cache' = cache /\ up' = up /\ streak' = streak /\ since' = since
      /\ call.phase = "idle"
  BY DEF Begin, Idle
<1>2. token.cached \in Nat /\ token.live \in Nat /\ token.took \in 0 .. Longest
  BY CallTypes DEF Tokens
<1>3. CASE token.cached > 0
  <2> DEFINE bearer == [live |-> token.live, kept |-> TRUE, spent |-> Smaller(token.took, Skew)]
  <2>1. Request(op, bearer)
    BY <1>3 DEF Begin
  <2>2. Smaller(token.took, Skew) \in 0 .. Skew
    BY <1>2, Constants DEF Smaller
  <2>3. token.live + Smaller(token.took, Skew) >= Skew
    BY <1>2, <1>3, Constants DEF TokenOK, Smaller
  <2>4. bearer \in Bearers /\ BearerOK(bearer)
    BY <1>2, <2>2, <2>3 DEF Bearers, BearerOK
  <2> HIDE DEF bearer
  <2>5. call' \in CallStates /\ breaker' \in Breakers /\ CallOK' /\ BreakerOK' /\ Quiet
    BY <1>1, <2>1, <2>4, RequestBegins
  <2> QED BY <1>1, <2>5, CallTypes DEF TypeOK, CallStates, Bearers, Breakers, TokenOK, ListOK
<1>4. CASE ~(token.cached > 0)
  <2>1. /\ call' = [Idle EXCEPT !.phase = "token", !.op = op, !.left = FetchTime,
                                 !.rest = Longest]
        /\ breaker' = breaker
    BY <1>4 DEF Begin
  <2>2. call' \in CallStates /\ call'.phase = "token" /\ call'.bearer = NoToken
    <3>1. call' = [phase |-> "token", op |-> op, n |-> 0, left |-> FetchTime, rest |-> Longest,
                   bearer |-> NoToken, old |-> Current]
      BY <2>1 DEF Idle
    <3> QED BY <3>1, IdleType, Constants DEF CallStates
  <2> QED BY <1>1, <2>1, <2>2, IdleType, CallTypes
          DEF TypeOK, CallStates, Bearers, CallOK, TokenOK, BreakerOK, ListOK, Quiet
<1> QED BY <1>3, <1>4

LEMMA TokenArrivesCalls ==
    ASSUME CallsInv, NEW l \in Lifetimes, TokenArrives(l) PROVE CallsInv' /\ Quiet
<1> USE DEF CallsInv
<1>1. /\ cache' = cache /\ up' = up /\ streak' = streak /\ since' = since
      /\ call.phase = "token" /\ call.left \in Nat /\ call.op \in Operations
  BY CallTypes DEF TokenArrives, CallStates
<1>2. PICK took \in 0 .. Longest - call.rest :
        LET live == IF l > took THEN l - took ELSE 0
        IN  /\ token' = [cached |-> Kept(l), live |-> live, took |-> took]
            /\ Request(call.op, [NoToken EXCEPT !.live = live])
  BY DEF TokenArrives
<1> DEFINE live == IF l > took THEN l - took ELSE 0
           bearer == [NoToken EXCEPT !.live = live]
<1>3. l \in Nat /\ call.rest \in 0 .. Longest
  BY <1>1, NeighboursAssumption, CallTypes DEF CallStates
<1>4. took \in 0 .. Longest /\ live \in Nat /\ live + took >= l
  BY <1>2, <1>3, Constants
<1>5. token' = [cached |-> Kept(l), live |-> live, took |-> took] /\ Request(call.op, bearer)
  BY <1>2
<1>6. bearer \in Bearers /\ BearerOK(bearer)
  <2>1. NoToken \in Bearers /\ ~NoToken.kept
    BY Constants DEF NoToken, Bearers
  <2>2. live \in Nat
    BY <1>4
  <2> HIDE DEF live
  <2>3. bearer \in Bearers /\ ~bearer.kept
    BY <2>1, <2>2 DEF Bearers
  <2> QED BY <2>3 DEF BearerOK
<1>7. /\ Kept(l) \in Nat
      /\ Kept(l) > 0 => live + took >= Kept(l) + Skew
  BY <1>3, <1>4, Constants DEF Kept
<1> HIDE DEF live, bearer
<1>8. call' \in CallStates /\ breaker' \in Breakers /\ CallOK' /\ BreakerOK' /\ Quiet
  BY <1>1, <1>5, <1>6, RequestBegins
<1>9. token' \in Tokens /\ TokenOK'
  BY <1>4, <1>5, <1>7 DEF Tokens, TokenOK
<1> QED BY <1>1, <1>8, <1>9, CallTypes DEF TypeOK, CallStates, Bearers, Tokens, Breakers, ListOK

\* A call that ends without a word to the breaker.
LEMMA EndsCalls ==
    ASSUME CallsInv, TokenFails \/ Raised PROVE CallsInv' /\ Quiet
<1> USE DEF CallsInv
<1>1. /\ call' = Idle
      /\ UNCHANGED <<breaker, token, cache, up, streak, since>>
  BY DEF TokenFails, Raised
<1> QED
  BY <1>1, IdleType DEF TypeOK, CallStates, Bearers, CallOK, TokenOK, BreakerOK, ListOK, Quiet

LEMMA AnsweredCalls ==
    ASSUME CallsInv, Answered PROVE CallsInv' /\ Quiet
<1> USE DEF CallsInv
<1>1. /\ call' = Idle /\ breaker' = Closed /\ streak' = 0
      /\ UNCHANGED <<token, up, since>>
      /\ call.phase = "attempt"
  BY DEF Answered, Success
<1>2. call.old \in Current .. Stale /\ call.old <= Longest
  BY <1>1, CallTypes, Constants DEF CallOK, CallStates
<1>3. cache' \in CachedLists /\ ListOK'
  <2>1. CASE cache' = cache
    BY <2>1, CallTypes DEF ListOK
  <2>2. CASE \E age \in {Current, call.old} : cache' = [left |-> CacheTtl, old |-> age]
    BY <2>2, <1>2, Constants DEF CachedLists, ListOK
  <2> QED BY <2>1, <2>2 DEF Answered
<1>4. TypeOK'
  BY <1>1, <1>3, IdleType, Constants, CallTypes DEF TypeOK, CallStates, Bearers, Breakers, CachedLists
<1>5. CallOK' /\ TokenOK' /\ BreakerOK' /\ Quiet
  BY <1>1, IdleType, Constants DEF Closed, CallOK, TokenOK, BreakerOK, Quiet
<1> QED BY <1>3, <1>4, <1>5

\* An attempt that fails leaves the breaker alone; the last one counts.
LEMMA FailedCalls ==
    ASSUME CallsInv, Failed PROVE CallsInv' /\ Quiet
<1> USE DEF CallsInv
<1>1. /\ UNCHANGED <<token, cache, up>> /\ call.phase = "attempt" /\ call \in CallStates
      /\ breaker \in Breakers /\ streak \in 0 .. Threshold /\ since \in 0 .. ResetTimeout
      /\ call.n \in 1 .. Attempts /\ call.left \in Nat
  BY CallTypes DEF Failed, CallOK, CallStates
<1>2. CASE call.n < Attempts
  <2>1. /\ call' = [call EXCEPT !.phase = "wait", !.left = Backoff(call.n), !.rest = 0]
        /\ UNCHANGED <<breaker, streak, since>>
    BY <1>2 DEF Failed
  <2>2. Backoff(call.n) \in Nat /\ 0 \in 0 .. Longest
    BY <1>1, BackoffBound, Constants
  <2>3. call' \in CallStates /\ call'.phase = "wait" /\ call'.n = call.n /\ call'.bearer = call.bearer
    <3>1. call' = [phase |-> "wait", op |-> call.op, n |-> call.n, left |-> Backoff(call.n),
                   rest |-> 0, bearer |-> call.bearer, old |-> call.old]
      BY <1>1, <2>1 DEF CallStates
    <3> QED BY <1>1, <2>2, <3>1 DEF CallStates
  <2>4. call.n \in 1 .. Attempts - 1
    BY <1>1, <1>2, Constants
  <2>5. CallOK'
    BY <2>3, <2>4 DEF CallOK
  <2> QED BY <1>1, <2>1, <2>3, <2>5, CallTypes
          DEF TypeOK, CallStates, Bearers, TokenOK, BreakerOK, ListOK, Quiet
<1>3. CASE ~(call.n < Attempts)
  <2>1. /\ call' = Idle /\ breaker' = Failure
        /\ streak' = Smaller(streak + 1, Threshold) /\ since' = 0
    BY <1>3 DEF Failed
  <2>2. breaker.state \in {"CLOSED", "HALF_OPEN"}
    BY <1>1 DEF BreakerOK, Breakers
  <2>3. breaker' \in Breakers /\ BreakerOK' /\ streak' \in 0 .. Threshold
    <3>1. CASE breaker.state = "CLOSED"
      BY <3>1, <1>1, <2>1, Constants DEF Failure, Smaller, Breakers, BreakerOK, Idle
    <3>2. CASE breaker.state = "HALF_OPEN"
      BY <3>2, <1>1, <2>1, Constants DEF Failure, Smaller, Breakers, BreakerOK, Idle
    <3> QED BY <2>2, <3>1, <3>2
  <2>4. TypeOK'
    BY <1>1, <2>1, <2>3, IdleType, Constants, CallTypes DEF TypeOK, CallStates, Bearers, Breakers
  <2> QED BY <1>1, <2>1, <2>3, <2>4, IdleType DEF CallOK, TokenOK, ListOK, Quiet
<1> QED BY <1>2, <1>3

LEMMA AgainCalls ==
    ASSUME CallsInv, Again PROVE CallsInv' /\ Quiet
<1> USE DEF CallsInv
<1>1. /\ UNCHANGED <<breaker, token, cache, up, streak, since>>
      /\ call.phase = "wait" /\ call.left = 0 /\ call \in CallStates
      /\ call' = [call EXCEPT !.phase = "attempt", !.n = @ + 1, !.left = Timeout,
                              !.rest = Longest, !.old = Current]
  BY CallTypes DEF Again
<1>2. call.n \in 1 .. Attempts - 1
  BY <1>1 DEF CallOK
<1>3. /\ call' \in CallStates /\ call'.phase = "attempt" /\ call'.n = call.n + 1
      /\ call'.left = Timeout /\ call'.rest = Longest /\ call'.old = Current
      /\ call'.bearer = call.bearer
  <2>1. /\ call.n + 1 \in 0 .. Attempts /\ Timeout \in Nat /\ Longest \in 0 .. Longest
        /\ Current \in Current .. Stale
    BY <1>2, Constants
  <2>2. call' = [phase |-> "attempt", op |-> call.op, n |-> call.n + 1, left |-> Timeout,
                 rest |-> Longest, bearer |-> call.bearer, old |-> Current]
    BY <1>1 DEF CallStates
  <2> QED BY <1>1, <2>1, <2>2 DEF CallStates
<1>4. CallOK' /\ Quiet
  BY <1>1, <1>2, <1>3, Constants DEF CallOK, Quiet
<1> QED BY <1>1, <1>3, <1>4, CallTypes DEF TypeOK, CallStates, Bearers, TokenOK, BreakerOK, ListOK

\* The wait begins anew within what is left of the whole.
LEMMA WaitsCalls ==
    ASSUME CallsInv, WaitsAnew PROVE CallsInv' /\ Quiet
<1> USE DEF CallsInv
<1> DEFINE wait == Smaller(IF call.phase = "token" THEN FetchTime ELSE Timeout, call.rest)
<1>1. /\ UNCHANGED <<breaker, token, cache, up, streak, since>> /\ call \in CallStates
      /\ call.phase \in {"token", "attempt"} /\ call' = [call EXCEPT !.left = wait]
      /\ call.rest \in 0 .. Longest
  BY CallTypes DEF WaitsAnew, CallStates
<1>2. wait \in Nat /\ wait <= call.rest
  BY <1>1, Constants DEF Smaller
<1> HIDE DEF wait
<1>3. /\ call' \in CallStates /\ call'.phase = call.phase /\ call'.n = call.n
      /\ call'.left = wait /\ call'.rest = call.rest /\ call'.old = call.old
      /\ call'.bearer = call.bearer
  <2>1. call' = [phase |-> call.phase, op |-> call.op, n |-> call.n, left |-> wait,
                 rest |-> call.rest, bearer |-> call.bearer, old |-> call.old]
    BY <1>1 DEF CallStates
  <2> QED BY <1>1, <1>2, <2>1 DEF CallStates
<1>4. CallOK' /\ Quiet
  BY <1>2, <1>3 DEF CallOK, Quiet
<1> QED BY <1>1, <1>3, <1>4, CallTypes DEF TypeOK, CallStates, Bearers, TokenOK, BreakerOK, ListOK

LEMMA OutdatedAges ==
    ASSUME NEW n \in Current .. Stale
    PROVE  Older(n) \in Current .. Stale /\ Older(n) <= n + 1
  BY Constants DEF Older, Smaller

\* What a tick takes off the life of a token is spent.
LEMMA AgedBearer ==
    ASSUME NEW b \in Bearers, BearerOK(b) PROVE Aged(b) \in Bearers /\ BearerOK(Aged(b))
<1>1. b.live \in Nat /\ b.kept \in BOOLEAN /\ b.spent \in 0 .. Skew
  BY DEF Bearers
<1> DEFINE spent == IF b.kept THEN Smaller(b.spent + 1, Skew) ELSE b.spent
<1>2. Aged(b) = [live |-> Less(b.live), kept |-> b.kept, spent |-> spent]
  <2>1. b = [live |-> b.live, kept |-> b.kept, spent |-> b.spent]
    BY DEF Bearers
  <2>2. Aged(b) = [[b EXCEPT !.live = Less(@)] EXCEPT !.spent = spent]
    BY Zenon DEF Aged
  <2> HIDE DEF spent
  <2> QED BY <2>1, <2>2
<1>3. spent \in 0 .. Skew /\ Less(b.live) \in Nat
  BY <1>1, Constants DEF Smaller, Less
<1>4. b.kept => Less(b.live) + spent >= Skew
  BY <1>1, Constants DEF Smaller, Less, BearerOK
<1> HIDE DEF spent
<1> QED BY <1>1, <1>2, <1>3, <1>4 DEF Bearers, BearerOK

\* A tick takes one off everything that is left, and ages a list by one.
LEMMA TickCalls ==
    ASSUME CallsInv, Tick PROVE CallsInv' /\ Quiet
<1> USE DEF CallsInv
<1>1. /\ call \in CallStates /\ breaker \in Breakers /\ token \in Tokens
      /\ cache \in CachedLists /\ up \in BOOLEAN /\ streak \in 0 .. Threshold /\ since \in 0 .. ResetTimeout
      /\ up' = up /\ streak' = streak
  BY CallTypes DEF Tick
<1>2. /\ token' = [cached |-> Less(token.cached), live |-> Less(token.live), took |-> token.took]
      /\ token.cached \in Nat /\ token.live \in Nat /\ token.took \in 0 .. Longest
  BY <1>1 DEF Tick, Tokens
<1>3. token' \in Tokens /\ TokenOK'
  <2>1. Less(token.cached) \in Nat /\ Less(token.live) \in Nat
    BY <1>2 DEF Less
  <2>2. Less(token.cached) > 0 => Less(token.live) + token.took >= Less(token.cached) + Skew
    BY <1>2, Constants DEF Less, TokenOK
  <2> QED BY <1>2, <2>1, <2>2 DEF Tokens, TokenOK
<1>4. since' \in 0 .. ResetTimeout /\ since' = Smaller(since + 1, ResetTimeout)
  BY <1>1, Constants DEF Tick, Smaller
<1>5. /\ breaker' \in Breakers /\ breaker'.state = breaker.state /\ breaker'.failures = breaker.failures
      /\ breaker'.trying = breaker.trying /\ breaker'.rest = Less(breaker.rest)
  BY <1>1, Constants DEF Tick, Less, Breakers
<1>6. cache' \in CachedLists /\ ListOK'
  <2>1. cache.left \in 0 .. CacheTtl /\ cache.old \in Current .. Stale
    BY <1>1 DEF CachedLists
  <2>2. CASE cache.left <= 1
    BY <2>2, Constants DEF Tick, CachedLists, ListOK
  <2>3. CASE ~(cache.left <= 1)
    <3>1. cache' = [left |-> cache.left - 1, old |-> Older(cache.old)]
      BY <2>3 DEF Tick
    <3> QED BY <3>1, <2>1, <2>3, OutdatedAges, Constants DEF CachedLists, ListOK
  <2> QED BY <2>2, <2>3
<1>7. call' \in CallStates /\ CallOK' /\ call'.phase = call.phase
  <2>1. CASE call = Idle
    BY <2>1, IdleType DEF Tick, CallOK
  <2>2. CASE call # Idle
    <3>1. /\ call' = [call EXCEPT !.left = @ - 1, !.rest = Less(@), !.bearer = Aged(@),
                                  !.old = Older(@)]
          /\ call.left > 0 /\ call.left \in Nat /\ call.rest \in 0 .. Longest
          /\ call.bearer \in Bearers /\ call.old \in Current .. Stale
      BY <2>2, <1>1 DEF Tick, CallStates
    <3>2. /\ call'.phase = call.phase /\ call'.n = call.n /\ call'.left = call.left - 1
          /\ call'.rest = Less(call.rest) /\ call'.bearer = Aged(call.bearer)
          /\ call'.old = Older(call.old) /\ call' \in CallStates /\ BearerOK(call'.bearer)
      <4>1. /\ call.left - 1 \in Nat /\ Less(call.rest) \in 0 .. Longest
            /\ Older(call.old) \in Current .. Stale
            /\ Aged(call.bearer) \in Bearers /\ BearerOK(Aged(call.bearer))
        BY <3>1, OutdatedAges, AgedBearer, Constants DEF Less, CallOK
      <4>2. call' = [phase |-> call.phase, op |-> call.op, n |-> call.n, left |-> call.left - 1,
                     rest |-> Less(call.rest), bearer |-> Aged(call.bearer), old |-> Older(call.old)]
        BY <3>1, <1>1 DEF CallStates
      <4> QED BY <1>1, <4>1, <4>2 DEF CallStates
    <3>3. CASE call.phase = "attempt"
      <4>1. /\ call.n \in 1 .. Attempts /\ call.left <= call.rest
            /\ call.old + call.rest <= Longest
        BY <3>3 DEF CallOK
      <4>2. /\ call.left - 1 <= Less(call.rest)
            /\ Older(call.old) + Less(call.rest) <= Longest
        BY <3>1, <4>1, OutdatedAges, Constants DEF Less
      <4> QED BY <3>2, <3>3, <4>1, <4>2 DEF CallOK
    <3> QED BY <3>2, <3>3 DEF CallOK
  <2> QED BY <2>1, <2>2
<1>8. BreakerOK'
  <2>1. breaker.rest \in Nat
    BY <1>1, Constants DEF Breakers
  <2>2. breaker.rest + since >= ResetTimeout => breaker'.rest + since' >= ResetTimeout
    BY <1>1, <1>4, <1>5, <2>1, Constants DEF Less, Smaller
  <2> QED BY <1>1, <1>5, <1>7, <2>2 DEF BreakerOK
<1>9. TypeOK'
  BY <1>1, <1>3, <1>4, <1>5, <1>6, <1>7
     DEF TypeOK, CallStates, Bearers, Tokens, Breakers, CachedLists
<1>10. Quiet
  BY <1>7 DEF Quiet
<1> QED BY <1>3, <1>6, <1>7, <1>8, <1>9, <1>10

\* The registry, the other requests of the process and the neighbour.
LEMMA AroundCalls ==
    ASSUME CallsInv, RegistryChanges \/ Elsewhere \/ Neighbour PROVE CallsInv' /\ Quiet
<1> USE DEF CallsInv
<1>1. /\ breaker' = breaker /\ token' = token /\ streak' = streak /\ since' = since
      /\ call \in CallStates /\ cache \in CachedLists /\ up \in BOOLEAN /\ up' \in BOOLEAN
  BY CallTypes DEF RegistryChanges, Elsewhere, Neighbour
<1>2. call' \in CallStates /\ CallOK' /\ call'.phase = call.phase
  <2>1. CASE call' = call
    BY <2>1, <1>1 DEF CallOK
  <2>2. CASE call.phase = "attempt" /\ call' = [call EXCEPT !.old = 0]
    <3>1. /\ call' \in CallStates /\ call'.phase = call.phase /\ call'.n = call.n /\ call'.left = call.left
          /\ call'.rest = call.rest /\ call.rest \in 0 .. Longest
          /\ call'.bearer = call.bearer /\ call'.old = 0 /\ call.left \in Nat
      BY <2>2, <1>1, Constants DEF CallStates
    <3> QED BY <2>2, <3>1, Constants DEF CallOK
  <2> QED BY <2>1, <2>2 DEF RegistryChanges, Elsewhere, Neighbour
<1>3. cache' \in CachedLists /\ ListOK'
  <2>1. CASE cache' = cache
    BY <2>1, <1>1 DEF ListOK
  <2>2. CASE cache' = [cache EXCEPT !.old = 0]
    BY <2>2, <1>1, Constants DEF CachedLists, ListOK
  <2>3. CASE \E age \in Current .. Longest : cache' = [left |-> CacheTtl, old |-> age]
    BY <2>3, Constants DEF CachedLists, ListOK
  <2> QED BY <2>1, <2>2, <2>3 DEF RegistryChanges, Elsewhere, Neighbour
<1>4. TypeOK'
  BY <1>1, <1>2, <1>3, CallTypes DEF TypeOK, CallStates, Bearers, Breakers, CachedLists
<1>5. TokenOK' /\ BreakerOK' /\ Quiet
  BY <1>1, <1>2 DEF TokenOK, BreakerOK, Quiet
<1> QED BY <1>2, <1>3, <1>4, <1>5

LEMMA StepCalls == ASSUME CallsInv, [Next]_vars PROVE CallsInv' /\ [Quiet]_vars
<1>1. CASE UNCHANGED vars
  BY <1>1 DEF vars, CallsInv, TypeOK, CallOK, TokenOK, BreakerOK, ListOK
<1>2. ASSUME NEW op \in Operations, CacheHit(op) PROVE UNCHANGED vars
  BY <1>2 DEF CacheHit
<1> QED
  BY <1>1, <1>2, BeginCalls, TokenArrivesCalls, EndsCalls, AnsweredCalls, FailedCalls, AgainCalls,
     WaitsCalls, TickCalls, AroundCalls DEF Next, Start, Progress

----------------------------------------------------------------------------
(***************************************************************************)
(* Keys.  An answer is never older than the fetch that brought it, and while the *)
(* cache is good its age and what is left of it make no more than both times. *)
(***************************************************************************)
Phases == {"free", "fetching", "answered", "accepted", "refused"}
Check == [phase : Phases, kid : SUBSET Kids, left : 0 .. LongestFetch, answer : SUBSET Kids]

\* A key is on the clock from its withdrawal on.
PublishedKeys == \A k \in published : gone[k] = 0

\* What is left of the cache and of the fetch pays for the age of their keys.
CacheFresh == left > 0 => \A k \in keys : gone[k] + left <= Ttl + LongestFetch
AnswersFresh ==
    \A r \in Requests : verify[r].phase = "answered" =>
        \A k \in verify[r].answer : gone[k] + verify[r].left <= LongestFetch

\* A request whose key has been published all the time finds it in its answer.
SteadyKnown ==
    \A r \in signing :
        /\ verify[r].kid \subseteq published
        /\ verify[r].phase = "answered" => verify[r].kid \subseteq verify[r].answer

KeysInv ==
    /\ Keys!TypeOK /\ PublishedKeys /\ CacheFresh /\ AnswersFresh /\ SteadyKnown
    /\ VerdictsSound

LEMMA KeyConstants ==
    ASSUME ServicesAssumption
    PROVE  /\ Ttl \in Nat \ {0} /\ LongestFetch \in Nat \ {0}
           /\ MaxAge \in Nat /\ MaxAge > Ttl + LongestFetch
BY DEF ServicesAssumption, Keys!SigningKeysAssumption

LEMMA FreeRecord == ASSUME ServicesAssumption PROVE Keys!Free \in Check
BY KeyConstants DEF Keys!Free, Check, Phases

LEMMA InitKeys == ASSUME ServicesAssumption, Keys!Init PROVE KeysInv
<1>1. Keys!TypeOK
  <2>1. gone \in [Kids -> 0 .. MaxAge]
    BY KeyConstants DEF Keys!Init
  <2> QED BY <2>1, KeyConstants DEF Keys!Init, Keys!Free, Keys!TypeOK
<1>2. PublishedKeys /\ CacheFresh /\ AnswersFresh /\ SteadyKnown /\ VerdictsSound
  BY DEF Keys!Init, Keys!Free, PublishedKeys, CacheFresh, AnswersFresh, SteadyKnown, VerdictsSound,
         Keys!VerdictsSound
<1> QED BY <1>1, <1>2 DEF KeysInv

\* A step of one request.
LEMMA OneRequest ==
    ASSUME KeysInv, NEW r \in Requests, NEW v \in Check,
           verify' = [verify EXCEPT ![r] = v]
    PROVE  /\ verify' \in [Requests -> Check] /\ verify'[r] = v
           /\ \A q \in Requests \ {r} : verify'[q] = verify[q]
BY DEF KeysInv, Keys!TypeOK, Check, Phases

LEMMA AcceptKeys ==
    ASSUME ServicesAssumption, KeysInv, NEW r \in Requests, NEW k \in Kids, Keys!Accept(r, k)
    PROVE  KeysInv'
<1> USE DEF KeysInv
<1> DEFINE v == [Keys!Free EXCEPT !.phase = "accepted", !.kid = {k}]
<1>1. /\ v \in Check /\ v.phase = "accepted" /\ v.kid = {k} /\ verify' = [verify EXCEPT ![r] = v]
  <2>1. v \in Check
    BY FreeRecord DEF Check, Phases
  <2>2. v.phase = "accepted" /\ v.kid = {k}
    BY FreeRecord DEF Check
  <2> QED BY <2>1, <2>2 DEF Keys!Accept
<1> HIDE DEF v
<1>2. /\ verify' \in [Requests -> Check] /\ verify'[r] = v
      /\ \A q \in Requests \ {r} : verify'[q] = verify[q]
  BY <1>1, OneRequest
<1>3. /\ published' = published /\ gone' = gone /\ keys' = keys /\ left' = left
      /\ signing' = signing \ {r}
  BY DEF Keys!Accept
<1>4. Keys!TypeOK'
  BY <1>2, <1>3 DEF Keys!TypeOK, Check, Phases
<1>5. gone[k] <= Ttl + LongestFetch
  <2>1. left > 0 /\ k \in keys /\ gone[k] \in Nat /\ left \in Nat
    BY KeyConstants DEF Keys!Accept, Keys!Expired, Keys!TypeOK
  <2> QED BY <2>1, KeyConstants DEF CacheFresh
<1>6. PublishedKeys' /\ CacheFresh' /\ AnswersFresh'
  BY <1>1, <1>2, <1>3 DEF PublishedKeys, CacheFresh, AnswersFresh
<1>7. SteadyKnown'
  BY <1>2, <1>3 DEF SteadyKnown, Keys!TypeOK
<1>8. VerdictsSound'
  BY <1>1, <1>2, <1>3, <1>5 DEF VerdictsSound, Keys!VerdictsSound
<1> QED BY <1>4, <1>6, <1>7, <1>8

LEMMA FetchKeys ==
    ASSUME ServicesAssumption, KeysInv, NEW r \in Requests, NEW k \in Kids, Keys!Fetch(r, k)
    PROVE  KeysInv'
<1> USE DEF KeysInv
<1> DEFINE v == [phase |-> "fetching", kid |-> {k}, left |-> LongestFetch, answer |-> {}]
<1>1. /\ v \in Check /\ v.phase = "fetching" /\ v.kid = {k} /\ verify' = [verify EXCEPT ![r] = v]
  BY KeyConstants DEF Keys!Fetch, Check, Phases
<1> HIDE DEF v
<1>2. /\ verify' \in [Requests -> Check] /\ verify'[r] = v
      /\ \A q \in Requests \ {r} : verify'[q] = verify[q]
  BY <1>1, OneRequest
<1>3. /\ published' = published /\ gone' = gone /\ keys' = keys /\ left' = left
      /\ signing' = IF k \in published THEN signing \cup {r} ELSE signing \ {r}
  BY DEF Keys!Fetch
<1>4. Keys!TypeOK'
  BY <1>2, <1>3 DEF Keys!TypeOK, Check, Phases
<1>6. PublishedKeys' /\ CacheFresh' /\ AnswersFresh'
  BY <1>1, <1>2, <1>3 DEF PublishedKeys, CacheFresh, AnswersFresh
<1>7. SteadyKnown'
  BY <1>1, <1>2, <1>3 DEF SteadyKnown, Keys!TypeOK
<1>8. VerdictsSound'
  BY <1>1, <1>2, <1>3 DEF VerdictsSound, Keys!VerdictsSound
<1> QED BY <1>4, <1>6, <1>7, <1>8

\* The answer holds the keys of this moment, the key of a steady request too.
LEMMA AnswerKeys ==
    ASSUME ServicesAssumption, KeysInv, NEW r \in Requests, Keys!Answer(r)
    PROVE  KeysInv'
<1> USE DEF KeysInv
<1> DEFINE v == [verify[r] EXCEPT !.phase = "answered", !.answer = published]
<1>0. verify[r] \in Check
  BY DEF Keys!TypeOK, Check, Phases
<1>1. /\ v \in Check /\ v.phase = "answered" /\ v.kid = verify[r].kid
      /\ v.left = verify[r].left /\ v.answer = published /\ verify' = [verify EXCEPT ![r] = v]
  <2>1. v \in Check /\ v.phase = "answered" /\ v.kid = verify[r].kid /\ v.left = verify[r].left
    BY <1>0 DEF Check, Phases, Keys!TypeOK
  <2>2. v.answer = published
    BY <1>0 DEF Check
  <2>3. verify' = [verify EXCEPT ![r] = v]
    BY DEF Keys!Answer, Keys!TypeOK
  <2> QED BY <2>1, <2>2, <2>3
<1> HIDE DEF v
<1>2. /\ verify' \in [Requests -> Check] /\ verify'[r] = v
      /\ \A q \in Requests \ {r} : verify'[q] = verify[q]
  BY <1>1, OneRequest
<1>3. /\ published' = published /\ gone' = gone /\ keys' = keys /\ left' = left
      /\ signing' = signing
  BY DEF Keys!Answer
<1>4. Keys!TypeOK'
  BY <1>2, <1>3 DEF Keys!TypeOK, Check, Phases
<1>5. verify[r].left \in 0 .. LongestFetch
  BY <1>0 DEF Check
<1>6. PublishedKeys' /\ CacheFresh'
  BY <1>3 DEF PublishedKeys, CacheFresh
<1>7. AnswersFresh'
  <2> SUFFICES ASSUME NEW q \in Requests, verify'[q].phase = "answered", NEW k \in verify'[q].answer
               PROVE  gone[k] + verify'[q].left <= LongestFetch
    BY <1>3 DEF AnswersFresh
  <2>1. CASE q = r
    BY <2>1, <1>1, <1>2, <1>5, KeyConstants DEF PublishedKeys
  <2>2. CASE q # r
    BY <2>2, <1>2 DEF AnswersFresh
  <2> QED BY <2>1, <2>2
<1>8. SteadyKnown'
  BY <1>1, <1>2, <1>3 DEF SteadyKnown, Keys!TypeOK
<1>9. VerdictsSound'
  BY <1>1, <1>2, <1>3 DEF VerdictsSound, Keys!VerdictsSound
<1> QED BY <1>4, <1>6, <1>7, <1>8, <1>9

\* An answer may be older than the cache it replaces, but not older than a fetch.
LEMMA CompleteKeys ==
    ASSUME ServicesAssumption, KeysInv, NEW r \in Requests, Keys!Complete(r)
    PROVE  KeysInv'
<1> USE DEF KeysInv
<1> DEFINE v == [Keys!Free EXCEPT
                   !.phase = IF verify[r].kid \subseteq keys' THEN "accepted" ELSE "refused",
                   !.kid = verify[r].kid]
<1>0. verify[r] \in Check /\ verify[r].phase = "answered"
  BY DEF Keys!TypeOK, Check, Phases, Keys!Complete
<1>1. /\ published' = published /\ gone' = gone /\ signing' = signing
      /\ keys' = verify[r].answer /\ left' = Ttl
  BY DEF Keys!Complete, Keys!Refreshed
<1>2. /\ v \in Check /\ v.phase \in {"accepted", "refused"} /\ v.kid = verify[r].kid
      /\ v.phase = "accepted" <=> verify[r].kid \subseteq verify[r].answer
      /\ verify' = [verify EXCEPT ![r] = v]
  <2>1. v.phase = (IF verify[r].kid \subseteq verify[r].answer THEN "accepted" ELSE "refused")
    BY <1>1 DEF Keys!Free
  <2>2. v \in Check
    BY <1>0, FreeRecord DEF Check, Phases
  <2>0. v.kid = verify[r].kid
    BY FreeRecord DEF Check
  <2>3. verify' = [verify EXCEPT ![r] = v]
    BY DEF Keys!Complete
  <2> QED BY <2>0, <2>1, <2>2, <2>3
<1> HIDE DEF v
<1>3. /\ verify' \in [Requests -> Check] /\ verify'[r] = v
      /\ \A q \in Requests \ {r} : verify'[q] = verify[q]
  BY <1>2, OneRequest
<1>4. Keys!TypeOK'
  BY <1>0, <1>1, <1>3, KeyConstants DEF Keys!TypeOK, Check, Phases
<1>5. \A k \in verify[r].answer : gone[k] <= LongestFetch
  <2> SUFFICES ASSUME NEW k \in verify[r].answer PROVE gone[k] <= LongestFetch
    OBVIOUS
  <2>1. gone[k] \in Nat /\ verify[r].left \in Nat
    BY <1>0, KeyConstants DEF Keys!TypeOK, Check
  <2>2. gone[k] + verify[r].left <= LongestFetch
    BY <1>0 DEF AnswersFresh
  <2> QED BY <2>1, <2>2, KeyConstants
<1>6. \A k \in verify[r].answer : gone[k] + Ttl <= Ttl + LongestFetch /\ gone[k] <= Ttl + LongestFetch
  <2> SUFFICES ASSUME NEW k \in verify[r].answer
               PROVE  gone[k] + Ttl <= Ttl + LongestFetch /\ gone[k] <= Ttl + LongestFetch
    OBVIOUS
  <2>1. gone[k] \in Nat /\ gone[k] <= LongestFetch
    BY <1>0, <1>5, KeyConstants DEF Keys!TypeOK, Check
  <2> QED BY <2>1, KeyConstants
<1>7. PublishedKeys' /\ CacheFresh'
  BY <1>1, <1>6 DEF PublishedKeys, CacheFresh
<1>8. AnswersFresh'
  BY <1>1, <1>2, <1>3 DEF AnswersFresh
<1>9. SteadyKnown'
  BY <1>1, <1>2, <1>3 DEF SteadyKnown, Keys!TypeOK
<1>10. VerdictsSound'
  <2> SUFFICES ASSUME NEW q \in Requests
               PROVE  /\ verify'[q].phase = "accepted" => \A k \in verify'[q].kid : gone[k] <= Ttl + LongestFetch
                      /\ verify'[q].phase = "refused" => q \notin signing
    BY <1>1 DEF VerdictsSound, Keys!VerdictsSound
  <2>1. CASE q = r
    BY <2>1, <1>0, <1>2, <1>3, <1>6 DEF SteadyKnown
  <2>2. CASE q # r
    BY <2>2, <1>3 DEF VerdictsSound, Keys!VerdictsSound
  <2> QED BY <2>1, <2>2
<1> QED BY <1>4, <1>7, <1>8, <1>9, <1>10

\* A fetch that fails, and a verdict that has been given, leave nothing behind.
LEMMA FreeKeys ==
    ASSUME ServicesAssumption, KeysInv, NEW r \in Requests, Keys!Fail(r) \/ Keys!Leave(r)
    PROVE  KeysInv'
<1> USE DEF KeysInv
<1>1. Keys!Free \in Check /\ Keys!Free.phase = "free" /\ verify' = [verify EXCEPT ![r] = Keys!Free]
  BY KeyConstants DEF Keys!Fail, Keys!Leave, Keys!Free, Check, Phases
<1>2. /\ verify' \in [Requests -> Check] /\ verify'[r] = Keys!Free
      /\ \A q \in Requests \ {r} : verify'[q] = verify[q]
  BY <1>1, OneRequest
<1>3. /\ published' = published /\ gone' = gone /\ keys' = keys /\ left' = left
      /\ signing' = signing \ {r}
  BY DEF Keys!Fail, Keys!Leave
<1>4. Keys!TypeOK'
  BY <1>2, <1>3 DEF Keys!TypeOK, Check, Phases
<1>5. PublishedKeys' /\ CacheFresh' /\ AnswersFresh'
  BY <1>1, <1>2, <1>3 DEF PublishedKeys, CacheFresh, AnswersFresh
<1>6. SteadyKnown'
  BY <1>2, <1>3 DEF SteadyKnown, Keys!TypeOK
<1>7. VerdictsSound'
  BY <1>1, <1>2, <1>3 DEF VerdictsSound, Keys!VerdictsSound
<1> QED BY <1>4, <1>5, <1>6, <1>7

\* A key that is published, or withdrawn this moment, has the age 0.
LEMMA RotateKeys ==
    ASSUME ServicesAssumption, KeysInv, NEW k \in Kids, Keys!Publish(k) \/ Keys!Withdraw(k)
    PROVE  KeysInv'
<1> USE DEF KeysInv
<1>1. /\ gone' = [gone EXCEPT ![k] = 0] /\ keys' = keys /\ left' = left /\ verify' = verify
      /\ published' \in {published \cup {k}, published \ {k}}
      /\ signing' \subseteq signing
      /\ \A r \in signing' : verify[r].kid \subseteq published => verify[r].kid \subseteq published'
  BY DEF Keys!Publish, Keys!Withdraw
<1>2. /\ gone' \in [Kids -> 0 .. MaxAge] /\ gone'[k] = 0
      /\ \A o \in Kids \ {k} : gone'[o] = gone[o]
  BY <1>1, KeyConstants DEF Keys!TypeOK
<1>3. Keys!TypeOK'
  BY <1>1, <1>2 DEF Keys!TypeOK
<1>4. left \in 0 .. Ttl /\ keys \subseteq Kids /\ published \subseteq Kids
  BY DEF Keys!TypeOK
<1>5. PublishedKeys'
  BY <1>1, <1>2, <1>4 DEF PublishedKeys
<1>6. CacheFresh'
  <2> SUFFICES ASSUME left > 0, NEW o \in keys PROVE gone'[o] + left <= Ttl + LongestFetch
    BY <1>1 DEF CacheFresh
  <2>1. CASE o = k
    BY <2>1, <1>2, <1>4, KeyConstants
  <2>2. CASE o # k
    BY <2>2, <1>2, <1>4 DEF CacheFresh
  <2> QED BY <2>1, <2>2
<1>7. AnswersFresh'
  <2> SUFFICES ASSUME NEW r \in Requests, verify[r].phase = "answered", NEW o \in verify[r].answer
               PROVE  gone'[o] + verify[r].left <= LongestFetch
    BY <1>1 DEF AnswersFresh
  <2>1. verify[r].left \in 0 .. LongestFetch /\ o \in Kids
    BY DEF Keys!TypeOK
  <2>2. CASE o = k
    BY <2>1, <2>2, <1>2, KeyConstants
  <2>3. CASE o # k
    BY <2>1, <2>3, <1>2 DEF AnswersFresh
  <2> QED BY <2>2, <2>3
<1>8. SteadyKnown'
  BY <1>1 DEF SteadyKnown
<1>9. VerdictsSound'
  <2> SUFFICES ASSUME NEW r \in Requests
               PROVE  /\ verify[r].phase = "accepted" => \A o \in verify[r].kid : gone'[o] <= Ttl + LongestFetch
                      /\ verify[r].phase = "refused" => r \notin signing'
    BY <1>1 DEF VerdictsSound, Keys!VerdictsSound
  <2>1. verify[r].kid \subseteq Kids
    BY DEF Keys!TypeOK
  <2>2. verify[r].phase = "refused" => r \notin signing'
    BY <1>1 DEF VerdictsSound, Keys!VerdictsSound
  <2>3. ASSUME verify[r].phase = "accepted", NEW o \in verify[r].kid
        PROVE  gone'[o] <= Ttl + LongestFetch
    <3>1. gone[o] <= Ttl + LongestFetch
      BY <2>3 DEF VerdictsSound, Keys!VerdictsSound
    <3> QED BY <3>1, <2>1, <1>2, KeyConstants
  <2> QED BY <2>2, <2>3
<1> QED BY <1>3, <1>5, <1>6, <1>7, <1>8, <1>9

\* Time costs the cache and the fetches what it adds to the ages.
LEMMA TickKeys ==
    ASSUME ServicesAssumption, KeysInv, Keys!Tick PROVE KeysInv'
<1> USE DEF KeysInv
<1>1. /\ published' = published /\ keys' = keys /\ signing' = signing
      /\ left' = IF left > 0 THEN left - 1 ELSE 0
      /\ left \in 0 .. Ttl /\ keys \subseteq Kids /\ published \subseteq Kids
  BY DEF Keys!Tick, Keys!TypeOK
<1>2. ASSUME NEW k \in Kids
      PROVE  /\ gone'[k] \in 0 .. MaxAge /\ gone'[k] <= gone[k] + 1
             /\ k \in published => gone'[k] = 0
  <2>1. gone[k] \in 0 .. MaxAge
    BY DEF Keys!TypeOK
  <2>2. gone'[k] = IF k \in published THEN 0 ELSE Keys!Smaller(gone[k] + 1, MaxAge)
    BY DEF Keys!Tick
  <2> QED BY <2>1, <2>2, KeyConstants DEF Keys!Smaller
<1>3. gone' \in [Kids -> 0 .. MaxAge]
  BY <1>2 DEF Keys!Tick
<1>4. ASSUME NEW r \in Requests
      PROVE  /\ verify'[r] \in Check /\ verify'[r].phase = verify[r].phase
             /\ verify'[r].kid = verify[r].kid /\ verify'[r].answer = verify[r].answer
             /\ verify[r].phase = "answered" => verify'[r].left = verify[r].left - 1
  <2>0. verify[r] \in Check
    BY DEF Keys!TypeOK, Check, Phases
  <2>1. CASE r \in Keys!Waiting
    <3>1. verify'[r] = [verify[r] EXCEPT !.left = verify[r].left - 1]
      BY <2>1 DEF Keys!Tick
    <3>2. verify[r].left - 1 \in 0 .. LongestFetch
      <4>1. verify[r].left \in 0 .. LongestFetch /\ verify[r].left > 0
        BY <2>0, <2>1 DEF Keys!Tick, Check
      <4> QED BY <4>1, KeyConstants
    <3>3. verify'[r] = [phase |-> verify[r].phase, kid |-> verify[r].kid, left |-> verify[r].left - 1,
                        answer |-> verify[r].answer]
      BY <2>0, <3>1 DEF Check
    <3> QED BY <2>0, <3>2, <3>3 DEF Check
  <2>2. CASE r \notin Keys!Waiting
    <3>1. verify'[r] = verify[r] /\ verify[r].phase # "answered"
      BY <2>2 DEF Keys!Tick, Keys!Waiting
    <3> QED BY <2>0, <3>1
  <2> QED BY <2>1, <2>2
<1>5. verify' \in [Requests -> Check]
  BY <1>4 DEF Keys!Tick
<1>6. Keys!TypeOK'
  <2>1. left' \in 0 .. Ttl
    BY <1>1, KeyConstants
  <2> QED BY <1>1, <1>3, <1>5, <2>1 DEF Keys!TypeOK, Check, Phases
<1>7. PublishedKeys'
  BY <1>1, <1>2 DEF PublishedKeys
<1>8. CacheFresh'
  <2> SUFFICES ASSUME left' > 0, NEW k \in keys PROVE gone'[k] + left' <= Ttl + LongestFetch
    BY <1>1 DEF CacheFresh
  <2>1. left > 0 /\ left' = left - 1 /\ left \in Nat
    BY <1>1, KeyConstants
  <2>2. gone[k] \in Nat /\ gone'[k] \in Nat /\ gone'[k] <= gone[k] + 1
    BY <1>1, <1>2, KeyConstants DEF Keys!TypeOK
  <2>3. gone[k] + left <= Ttl + LongestFetch
    BY <2>1 DEF CacheFresh
  <2> QED BY <2>1, <2>2, <2>3, KeyConstants
<1>9. AnswersFresh'
  <2> SUFFICES ASSUME NEW r \in Requests, verify'[r].phase = "answered", NEW k \in verify'[r].answer
               PROVE  gone'[k] + verify'[r].left <= LongestFetch
    BY DEF AnswersFresh
  <2>1. /\ verify[r].phase = "answered" /\ k \in verify[r].answer
        /\ verify'[r].left = verify[r].left - 1
    BY <1>4
  <2>2. k \in Kids /\ verify[r].left \in Nat
    BY <2>1, KeyConstants DEF Keys!TypeOK
  <2>3. gone[k] \in Nat /\ gone'[k] \in Nat /\ gone'[k] <= gone[k] + 1
    BY <2>2, <1>2, KeyConstants DEF Keys!TypeOK
  <2>4. gone[k] + verify[r].left <= LongestFetch
    BY <2>1 DEF AnswersFresh
  <2> QED BY <2>1, <2>2, <2>3, <2>4, KeyConstants
<1>10. SteadyKnown'
  BY <1>1, <1>4 DEF SteadyKnown, Keys!TypeOK
<1>11. VerdictsSound'
  <2>1. \A r \in Requests : verify'[r].phase \notin {"accepted", "refused"}
    BY <1>4 DEF Keys!Tick
  <2> QED BY <2>1 DEF VerdictsSound, Keys!VerdictsSound
<1> QED BY <1>6, <1>7, <1>8, <1>9, <1>10, <1>11

LEMMA StepKeys ==
    ASSUME ServicesAssumption, KeysInv, [Keys!Next]_keyVars PROVE KeysInv'
<1>1. CASE UNCHANGED keyVars
  BY <1>1 DEF keyVars, KeysInv, Keys!TypeOK, PublishedKeys, CacheFresh, AnswersFresh, SteadyKnown,
              VerdictsSound, Keys!VerdictsSound
<1>2. CASE Keys!Next
  BY <1>2, AcceptKeys, FetchKeys, AnswerKeys, CompleteKeys, FreeKeys, RotateKeys, TickKeys
     DEF Keys!Next
<1> QED BY <1>1, <1>2

----------------------------------------------------------------------------
(***************************************************************************)
(* Lists.  A page goes on where the last one ended, so whatever matches all the *)
(* time is shown already or still lies behind the cursor.                  *)
(***************************************************************************)
LEMMA ListConstants ==
    ASSUME ServicesAssumption
    PROVE  Ids \subseteq Int /\ Times \subseteq Int /\ PageLimit \in Nat \ {0}
BY DEF ServicesAssumption, List!ListsAssumption

Place == [at : Times, id : Ids]

\* The order of a list is strict and total.
LEMMA NewerOrders ==
    ASSUME ServicesAssumption
    PROVE  /\ \A a \in Place : ~List!Newer(a, a)
           /\ \A a, b, c \in Place : List!Newer(a, b) /\ List!Newer(b, c) => List!Newer(a, c)
           /\ \A a, b \in Place : List!Newer(a, b) \/ List!Newer(b, a) \/ a = b
           /\ \A a, b \in Place : ~(List!Newer(a, b) /\ List!Newer(b, a))
<1>1. \A a \in Place : a.at \in Int /\ a.id \in Int /\ a = [at |-> a.at, id |-> a.id]
  BY ListConstants DEF Place
<1>2. \A a, b \in Place : a.at = b.at /\ a.id = b.id => a = b
  BY <1>1
<1> QED BY <1>1, <1>2 DEF List!Newer

InOrder(s) == \A m, n \in DOMAIN s : m < n => List!Newer(s[m], s[n])

\* A finite set can be put in any strict total order: each element goes behind as
\* many as are before it.
LEMMA OrderExists ==
    ASSUME NEW S, IsFiniteSet(S), NEW R,
           \A a \in S : <<a, a>> \notin R,
           \A a, b, c \in S : <<a, b>> \in R /\ <<b, c>> \in R => <<a, c>> \in R,
           \A a, b \in S : <<a, b>> \in R \/ <<b, a>> \in R \/ a = b
    PROVE  \E s \in [1 .. Cardinality(S) -> S] :
              /\ \A m, n \in 1 .. Cardinality(S) : m < n => <<s[m], s[n]>> \in R
              /\ \A i, j \in 1 .. Cardinality(S) : i # j => s[i] # s[j]
<1> DEFINE N == Cardinality(S)
           Ahead(x) == {y \in S : <<y, x>> \in R}
           rank == [x \in S |-> Cardinality(Ahead(x)) + 1]
<1>1. N \in Nat
  BY FS_CardinalityType
<1>2. ASSUME NEW x \in S
      PROVE  /\ Ahead(x) \in SUBSET S /\ x \notin Ahead(x)
             /\ IsFiniteSet(Ahead(x)) /\ Cardinality(Ahead(x)) \in Nat
             /\ Cardinality(Ahead(x) \cup {x}) = Cardinality(Ahead(x)) + 1
             /\ rank[x] = Cardinality(Ahead(x)) + 1
  <2>1. Ahead(x) \in SUBSET S /\ x \notin Ahead(x)
    OBVIOUS
  <2>2. IsFiniteSet(Ahead(x)) /\ Cardinality(Ahead(x)) \in Nat
    BY <2>1, FS_Subset, FS_CardinalityType
  <2> HIDE DEF Ahead
  <2>3. Cardinality(Ahead(x) \cup {x}) = Cardinality(Ahead(x)) + 1
    BY <2>1, <2>2, FS_AddElement
  <2> QED BY <2>1, <2>2, <2>3
<1>3. ASSUME NEW x \in S, NEW y \in S, <<x, y>> \in R
      PROVE  Ahead(x) \cup {x} \in SUBSET Ahead(y)
  BY <1>3
<1> HIDE DEF Ahead, rank
<1>4. ASSUME NEW x \in S, NEW y \in S, <<x, y>> \in R PROVE rank[x] < rank[y]
  <2>1. Cardinality(Ahead(x) \cup {x}) <= Cardinality(Ahead(y))
    BY <1>2, <1>3, <1>4, FS_Subset
  <2>2. /\ Cardinality(Ahead(x)) \in Nat /\ rank[x] = Cardinality(Ahead(x)) + 1
        /\ Cardinality(Ahead(x) \cup {x}) = Cardinality(Ahead(x)) + 1
    BY <1>2
  <2>3. Cardinality(Ahead(y)) \in Nat /\ rank[y] = Cardinality(Ahead(y)) + 1
    BY <1>2
  <2> QED BY <2>1, <2>2, <2>3
<1>5. ASSUME NEW x \in S PROVE rank[x] \in 1 .. N
  <2>1. Ahead(x) \cup {x} \in SUBSET S
    BY <1>2
  <2>2. Cardinality(Ahead(x) \cup {x}) <= N
    BY <2>1, FS_Subset
  <2> QED BY <1>1, <1>2, <2>2
<1>6. \A x, y \in S : rank[x] = rank[y] => x = y
  <2> SUFFICES ASSUME NEW x \in S, NEW y \in S, rank[x] = rank[y] PROVE x = y
    OBVIOUS
  <2>1. <<x, y>> \notin R /\ <<y, x>> \notin R
    BY <1>4, <1>5, <1>1
  <2> QED BY <2>1
<1>7. \A n \in 1 .. N : \E x \in S : rank[x] = n
  <2>1. rank \in [S -> 1 .. N]
    BY <1>5 DEF rank
  <2>2. rank \in Injection(S, 1 .. N)
    BY <1>6, <2>1, Fun_IsInj
  <2>3. IsFiniteSet(1 .. N) /\ Cardinality(1 .. N) = N
    BY <1>1, FS_Interval
  <2>4. rank \in Surjection(S, 1 .. N)
    BY <2>2, <2>3, FS_Injection
  <2> QED BY <2>4, Fun_SurjectionProperties
<1> DEFINE s == [n \in 1 .. N |-> CHOOSE x \in S : rank[x] = n]
<1>8. \A n \in 1 .. N : s[n] \in S /\ rank[s[n]] = n
  BY <1>7
<1>9. s \in [1 .. N -> S]
  BY <1>8
<1> HIDE DEF s
<1>10. \A i, j \in 1 .. N : i # j => s[i] # s[j]
  BY <1>8
<1>11. \A m, n \in 1 .. N : m < n => <<s[m], s[n]>> \in R
  <2> SUFFICES ASSUME NEW m \in 1 .. N, NEW n \in 1 .. N, m < n PROVE <<s[m], s[n]>> \in R
    OBVIOUS
  <2>1. s[m] \in S /\ s[n] \in S /\ s[m] # s[n] /\ rank[s[m]] = m /\ rank[s[n]] = n
    BY <1>8, <1>10
  <2>2. <<s[n], s[m]>> \notin R
    BY <1>1, <1>4, <2>1
  <2> QED BY <2>1, <2>2
<1> QED BY <1>9, <1>10, <1>11

LEMMA OnceEach ==
    ASSUME NEW S, IsFiniteSet(S), NEW s \in [1 .. Cardinality(S) -> S],
           \A i, j \in 1 .. Cardinality(S) : i # j => s[i] # s[j]
    PROVE  /\ s \in Seq(S) /\ Len(s) = Cardinality(S) /\ DOMAIN s = 1 .. Len(s)
           /\ \A x \in S : \E n \in 1 .. Len(s) : s[n] = x
<1> DEFINE N == Cardinality(S)
<1>1. N \in Nat
  BY FS_CardinalityType
<1>2. s \in Seq(S) /\ Len(s) = N
  BY <1>1
<1>3. s \in Surjection(1 .. N, S)
  <2>1. s \in Injection(1 .. N, S)
    BY Fun_IsInj
  <2>2. IsFiniteSet(1 .. N) /\ Cardinality(1 .. N) = N
    BY <1>1, FS_Interval
  <2> QED BY <2>1, <2>2, FS_Injection
<1>4. \A x \in S : \E n \in 1 .. Len(s) : s[n] = x
  BY <1>2, <1>3, Fun_SurjectionProperties
<1> QED BY <1>2, <1>4

\* The rows of a list come in their order, each once.
LEMMA OrderedRows ==
    ASSUME ServicesAssumption, NEW S \in SUBSET Place, IsFiniteSet(S)
    PROVE  /\ List!Ordered(S) \in Seq(S) /\ InOrder(List!Ordered(S))
           /\ \A x \in S : \E n \in 1 .. Len(List!Ordered(S)) : List!Ordered(S)[n] = x
<1> DEFINE N == Cardinality(S)
           s == List!Ordered(S)
           R == {p \in S \X S : List!Newer(p[1], p[2])}
<1>1. List!Cardinality(S) = N
  BY DEF List!Cardinality, Cardinality
<1>2. List!SetToSeqs(S) = {f \in [1 .. N -> S] : \A i, j \in 1 .. N : i # j => f[i] # f[j]}
  BY <1>1 DEF List!SetToSeqs
<1>3. \A a, b \in S : <<a, b>> \in R <=> List!Newer(a, b)
  OBVIOUS
<1>4. PICK f \in [1 .. N -> S] : /\ \A m, n \in 1 .. N : m < n => <<f[m], f[n]>> \in R
                                 /\ \A i, j \in 1 .. N : i # j => f[i] # f[j]
  <2>1. /\ \A a \in S : <<a, a>> \notin R
        /\ \A a, b, c \in S : <<a, b>> \in R /\ <<b, c>> \in R => <<a, c>> \in R
        /\ \A a, b \in S : <<a, b>> \in R \/ <<b, a>> \in R \/ a = b
    <3> HIDE DEF R
    <3> QED BY <1>3, NewerOrders
  <2> HIDE DEF R
  <2> QED BY <2>1, OrderExists
<1>5. f \in List!SetToSeqs(S) /\ InOrder(f)
  <2>1. \A m \in 1 .. N : f[m] \in S
    OBVIOUS
  <2> HIDE DEF R, N
  <2> QED BY <1>2, <1>3, <1>4, <2>1 DEF InOrder
<1>6. s \in List!SetToSeqs(S) /\ InOrder(s)
  BY <1>5 DEF List!Ordered, InOrder
<1>7. s \in [1 .. N -> S] /\ \A i, j \in 1 .. N : i # j => s[i] # s[j]
  BY <1>2, <1>6
<1> HIDE DEF s
<1>8. s \in Seq(S) /\ \A x \in S : \E n \in 1 .. Len(s) : s[n] = x
  BY <1>7, OnceEach
<1> QED BY <1>6, <1>8 DEF s

\* A walk knows what it has met, and its rows are few.
TableMet == IsFiniteSet(DOMAIN table) /\ List!Matching(table) \subseteq met

\* The cursor is the last row shown: a walk without one has shown nothing or is over.
CursorLast ==
    /\ cursor = {} => pages = <<>> \/ over
    /\ over => cursor = {}
    /\ \A c \in cursor : \A n \in DOMAIN pages : pages[n] = c \/ List!Newer(pages[n], c)

\* What matches all the time is shown or lies behind the cursor.
SteadyAhead ==
    \A i \in steady :
        /\ i \in List!Matching(table)
        /\ over \/ ~List!Behind(i) => \E n \in DOMAIN pages : pages[n].id = i

ShownMet == \A n \in DOMAIN pages : pages[n].id \in met

PagesInv ==
    List!TypeOK /\ TableMet /\ InOrder(pages) /\ CursorLast /\ SteadyAhead /\ ShownMet

LEMMA PagesInvSound == ASSUME PagesInv PROVE PagesSound
BY DEF PagesInv, PagesSound, List!PagesSound, InOrder, SteadyAhead, ShownMet

LEMMA InitPages == ASSUME List!Init PROVE PagesInv
<1>1. DOMAIN table = {} /\ List!Matching(table) = {}
  BY DEF List!Init, List!Matching
<1>2. List!TypeOK
  <2>1. table \in [DOMAIN table -> [at : Times, matches : BOOLEAN]]
    <3>1. <<>> \in Seq([at : Times, matches : BOOLEAN]) /\ Len(<<>>) = 0
      OBVIOUS
    <3>2. <<>> \in [1 .. 0 -> [at : Times, matches : BOOLEAN]]
      BY <3>1, LenProperties
    <3> QED BY <1>1, <3>2 DEF List!Init
  <2>2. pages \in Seq([at : Times, id : Ids])
    BY DEF List!Init
  <2> QED BY <1>1, <2>1, <2>2 DEF List!Init, List!TypeOK
<1>3. TableMet
  BY <1>1, FS_EmptySet DEF TableMet
<1> QED
  BY <1>2, <1>3 DEF List!Init, PagesInv, InOrder, CursorLast, SteadyAhead, ShownMet

\* What one page takes off the rows that are left.
Left == {List!Key(i) : i \in {j \in List!Matching(table) : List!Behind(j)}}
Taken == IF Len(List!Ordered(Left)) > PageLimit THEN PageLimit ELSE Len(List!Ordered(Left))

LEMMA LeftRows ==
    ASSUME ServicesAssumption, PagesInv
    PROVE  /\ Left \in SUBSET Place /\ IsFiniteSet(Left)
           /\ \A x \in Left : x.id \in List!Matching(table) /\ x = List!Key(x.id)
           /\ \A x \in Left : \A c \in cursor : List!Newer(c, x)
<1>1. DOMAIN table \subseteq Ids /\ \A i \in DOMAIN table : table[i].at \in Times
  BY DEF PagesInv, List!TypeOK
<1>2. List!Matching(table) \in SUBSET DOMAIN table
  BY DEF List!Matching
<1>3. Left \in SUBSET Place
  BY <1>1, <1>2 DEF Left, List!Key, Place
<1>4. IsFiniteSet(Left)
  <2> DEFINE R == {j \in List!Matching(table) : List!Behind(j)}
  <2>1. IsFiniteSet(R)
    BY <1>2, FS_Subset DEF PagesInv, TableMet
  <2> DEFINE f == [i \in R |-> List!Key(i)]
  <2>2. f \in Surjection(R, Left)
    <3>1. f \in [R -> Left] /\ \A x \in Left : \E i \in R : f[i] = x
      BY DEF Left
    <3> HIDE DEF f, R
    <3> QED BY <3>1, Fun_IsSurj
  <2> HIDE DEF f, R
  <2> QED BY <2>1, <2>2, FS_Surjection
<1>5. \A x \in Left : x.id \in List!Matching(table) /\ x = List!Key(x.id)
  BY DEF Left, List!Key
<1>6. \A x \in Left : \A c \in cursor : List!Newer(c, x)
  BY DEF Left, List!Behind
<1> QED BY <1>3, <1>4, <1>5, <1>6

LEMMA PageTaken ==
    ASSUME ServicesAssumption, PagesInv, List!NextPage
    PROVE  \E rows \in Seq(Left), items \in Seq(Left) :
             /\ InOrder(rows) /\ \A x \in Left : \E n \in 1 .. Len(rows) : rows[n] = x
             /\ Len(items) = IF Len(rows) > PageLimit THEN PageLimit ELSE Len(rows)
             /\ \A n \in 1 .. Len(items) : items[n] = rows[n]
             /\ pages' = pages \o items
             /\ cursor' = IF Len(rows) > PageLimit THEN {items[PageLimit]} ELSE {}
             /\ over' = (Len(rows) <= PageLimit)
<1> DEFINE rows == List!Ordered(Left)
           N == Len(rows)
           L == SubSeq(rows, 1, IF N > PageLimit THEN PageLimit + 1 ELSE N)
           items == SubSeq(L, 1, IF Len(L) > PageLimit THEN PageLimit ELSE Len(L))
<1>1. /\ rows \in Seq(Left) /\ InOrder(rows)
      /\ \A x \in Left : \E n \in 1 .. Len(rows) : rows[n] = x
  BY LeftRows, OrderedRows
<1>2. /\ pages' = pages \o items
      /\ cursor' = IF Len(L) > PageLimit THEN {items[Len(items)]} ELSE {}
      /\ over' = (Len(L) <= PageLimit)
  BY DEF List!NextPage, List!ListVisible, Left
<1> HIDE DEF rows
<1>3. N \in Nat /\ \A n \in 1 .. N : rows[n] \in Left
  BY <1>1
<1>4. /\ L \in Seq(Left) /\ Len(L) = IF N > PageLimit THEN PageLimit + 1 ELSE N
      /\ \A n \in 1 .. Len(L) : L[n] = rows[n]
  <2> DEFINE e == IF N > PageLimit THEN PageLimit + 1 ELSE N
  <2>1. e \in Nat /\ e <= N
    BY <1>3, ListConstants
  <2>2. \A n \in 1 .. e : rows[n] \in Left
    BY <1>3, <2>1
  <2> HIDE DEF e, N
  <2>3. /\ SubSeq(rows, 1, e) \in Seq(Left) /\ Len(SubSeq(rows, 1, e)) = e
        /\ \A n \in 1 .. e : SubSeq(rows, 1, e)[n] = rows[n]
    BY <2>1, <2>2, SubSeqProperties
  <2> QED BY <2>3 DEF e
<1> HIDE DEF L
<1>5. /\ items \in Seq(Left) /\ Len(items) = IF N > PageLimit THEN PageLimit ELSE N
      /\ \A n \in 1 .. Len(items) : items[n] = L[n] /\ n \in 1 .. Len(L)
  <2> DEFINE e == IF Len(L) > PageLimit THEN PageLimit ELSE Len(L)
  <2>1. e \in Nat /\ e <= Len(L) /\ e = IF N > PageLimit THEN PageLimit ELSE N
    BY <1>3, <1>4, ListConstants
  <2>2. \A n \in 1 .. e : L[n] \in Left
    BY <1>4, <2>1
  <2> HIDE DEF e
  <2>3. /\ SubSeq(L, 1, e) \in Seq(Left) /\ Len(SubSeq(L, 1, e)) = e
        /\ \A n \in 1 .. e : SubSeq(L, 1, e)[n] = L[n]
    BY <2>1, <2>2, SubSeqProperties
  <2>4. \A n \in 1 .. e : n \in 1 .. Len(L)
    BY <1>4, <2>1
  <2> QED BY <2>1, <2>3, <2>4 DEF e
<1> HIDE DEF items
<1>6. Len(L) > PageLimit <=> N > PageLimit
  BY <1>3, <1>4, ListConstants
<1>7. cursor' = IF N > PageLimit THEN {items[PageLimit]} ELSE {}
  BY <1>2, <1>5, <1>6
<1>8. over' = (N <= PageLimit)
  BY <1>2, <1>3, <1>4, <1>6, ListConstants
<1>9. \A n \in 1 .. Len(items) : items[n] = rows[n]
  BY <1>4, <1>5
<1> QED BY <1>1, <1>2, <1>5, <1>7, <1>8, <1>9

LEMMA SeqOfMore == ASSUME NEW S, NEW T, S \subseteq T, NEW s \in Seq(S) PROVE s \in Seq(T)
<1>1. Len(s) \in Nat /\ s \in [1 .. Len(s) -> T]
  BY LenProperties
<1> QED BY <1>1

LEMMA Joined ==
    ASSUME NEW S, NEW a \in Seq(S), NEW b \in Seq(S)
    PROVE  /\ a \o b \in Seq(S) /\ DOMAIN (a \o b) = 1 .. Len(a) + Len(b)
           /\ \A n \in 1 .. Len(a) + Len(b) : (a \o b)[n] = IF n <= Len(a) THEN a[n] ELSE b[n - Len(a)]
OBVIOUS

\* A page goes on where the last one ended, and ends where the next one will go on.
LEMMA NextPagePages ==
    ASSUME ServicesAssumption, PagesInv, List!NextPage PROVE PagesInv'
<1> USE DEF PagesInv
<1> PICK rows \in Seq(Left), items \in Seq(Left) :
             /\ InOrder(rows) /\ \A x \in Left : \E n \in 1 .. Len(rows) : rows[n] = x
             /\ Len(items) = IF Len(rows) > PageLimit THEN PageLimit ELSE Len(rows)
             /\ \A n \in 1 .. Len(items) : items[n] = rows[n]
             /\ pages' = pages \o items
             /\ cursor' = IF Len(rows) > PageLimit THEN {items[PageLimit]} ELSE {}
             /\ over' = (Len(rows) <= PageLimit)
  BY PageTaken
<1>1. /\ ~over /\ table' = table /\ steady' = steady /\ met' = met
  BY DEF List!NextPage
<1>2. /\ Left \in SUBSET Place
      /\ \A x \in Left : x.id \in List!Matching(table) /\ x = List!Key(x.id)
      /\ \A x \in Left : \A c \in cursor : List!Newer(c, x)
  BY LeftRows
<1>0. pages \in Seq(Place) /\ items \in Seq(Place)
  <2>1. pages \in Seq(Place)
    BY DEF List!TypeOK, Place
  <2> QED BY <1>2, <2>1, SeqOfMore
<1> PICK old \in Seq(Place) : old = pages
  BY <1>0
<1> PICK P \in Nat, M \in Nat, N \in Nat : P = Len(old) /\ M = Len(items) /\ N = Len(rows)
  OBVIOUS
<1>3. DOMAIN rows = 1 .. N /\ DOMAIN items = 1 .. M /\ DOMAIN pages = 1 .. P
  OBVIOUS
<1>4. /\ M <= N /\ (N > PageLimit => M = PageLimit /\ M > 0)
      /\ N <= PageLimit => M = N
      /\ over' = (N <= PageLimit)
      /\ N > PageLimit => cursor' = {items[M]}
      /\ N <= PageLimit => cursor' = {}
      /\ N > PageLimit \/ N <= PageLimit
  BY ListConstants
<1> PICK new : new = pages'
  OBVIOUS
<1>5. /\ new \in Seq(Place) /\ DOMAIN new = 1 .. P + M
      /\ \A n \in 1 .. P + M : new[n] = IF n <= P THEN old[n] ELSE items[n - P]
  <2>1. new = old \o items
    OBVIOUS
  <2> QED BY <1>0, <2>1, Joined
<1>6. /\ \A n \in 1 .. P : old[n] \in Place
      /\ \A n \in 1 .. M : items[n] \in Left /\ items[n] \in Place /\ items[n] = rows[n]
  BY <1>2, <1>3
<1>7. /\ \A n \in 1 .. P : n \in 1 .. P + M /\ new[n] = old[n]
      /\ \A n \in 1 .. M : P + n \in 1 .. P + M /\ new[P + n] = items[n]
      /\ \A n \in 1 .. P + M : n \in 1 .. P \/ \E k \in 1 .. M : n = P + k
  <2>1. \A n \in 1 .. P : n \in 1 .. P + M /\ new[n] = old[n]
    BY <1>5
  <2>2. ASSUME NEW n \in 1 .. M PROVE P + n \in 1 .. P + M /\ new[P + n] = items[n]
    <3>1. P + n \in 1 .. P + M /\ ~(P + n <= P) /\ (P + n) - P = n
      OBVIOUS
    <3> QED BY <1>5, <3>1
  <2>3. ASSUME NEW n \in 1 .. P + M, n \notin 1 .. P PROVE \E k \in 1 .. M : n = P + k
    <3>1. n - P \in 1 .. M /\ n = P + (n - P)
      BY <2>3
    <3> QED BY <3>1
  <2> QED BY <2>1, <2>2, <2>3
<1>8. ASSUME NEW n \in 1 .. P, NEW x \in Left PROVE List!Newer(old[n], x)
  <2>1. pages # <<>>
    BY <1>3
  <2>2. PICK c : c \in cursor
    BY <1>1, <2>1 DEF CursorLast
  <2>3. (old[n] = c \/ List!Newer(old[n], c)) /\ List!Newer(c, x) /\ c \in Place
    BY <1>2, <1>3, <2>2 DEF CursorLast, List!TypeOK, Place
  <2> QED BY <1>2, <1>6, <2>3, NewerOrders
<1>9. ASSUME NEW m \in 1 .. M, NEW n \in 1 .. M, m < n PROVE List!Newer(items[m], items[n])
  <2>1. m \in DOMAIN rows /\ n \in DOMAIN rows
    BY <1>3, <1>4
  <2> QED BY <1>6, <1>9, <2>1 DEF InOrder
<1>10. List!TypeOK'
  <2>1. cursor' = {} \/ \E at \in Times, i \in Ids : cursor' = {[at |-> at, id |-> i]}
    <3>1. CASE N > PageLimit
      <4>1. cursor' = {items[M]} /\ M \in 1 .. M
        BY <1>4, <3>1
      <4>2. items[M] \in Place
        BY <1>6, <4>1
      <4>3. items[M] = [at |-> items[M].at, id |-> items[M].id]
        BY <4>2 DEF Place
      <4>4. items[M].at \in Times /\ items[M].id \in Ids
        BY <4>2 DEF Place
      <4> QED BY <4>1, <4>3, <4>4
    <3> QED BY <1>4, <3>1
  <2>2. over' \in BOOLEAN
    BY <1>4
  <2> QED BY <1>1, <1>5, <2>1, <2>2 DEF List!TypeOK, Place
<1>11. TableMet'
  BY <1>1 DEF TableMet, List!Matching
<1>12. InOrder(new)
  <2> SUFFICES ASSUME NEW m \in 1 .. P + M, NEW n \in 1 .. P + M, m < n
               PROVE  List!Newer(new[m], new[n])
    BY <1>5 DEF InOrder
  <2>1. CASE n \in 1 .. P
    <3>1. m \in 1 .. P
      BY <2>1
    <3>2. List!Newer(old[m], old[n])
      BY <1>3, <2>1, <3>1 DEF InOrder
    <3> QED BY <1>7, <2>1, <3>1, <3>2
  <2>2. ASSUME NEW l \in 1 .. M, n = P + l PROVE List!Newer(new[m], new[n])
    <3>1. CASE m \in 1 .. P
      BY <1>6, <1>7, <1>8, <2>2, <3>1
    <3>2. ASSUME NEW k \in 1 .. M, m = P + k PROVE List!Newer(new[m], new[n])
      <4>1. k < l
        BY <2>2, <3>2
      <4> QED BY <1>7, <1>9, <2>2, <3>2, <4>1
    <3> QED BY <1>7, <3>1, <3>2
  <2> QED BY <1>7, <2>1, <2>2
<1>13. CursorLast'
  <2>1. (cursor' = {} => over') /\ (over' => cursor' = {})
    <3>1. CASE N > PageLimit
      <4>1. ~(N <= PageLimit) /\ cursor' # {}
        BY <1>4, <3>1, ListConstants
      <4> QED BY <1>4, <4>1
    <3>2. CASE N <= PageLimit
      BY <1>4, <3>2
    <3> QED BY <1>4, <3>1, <3>2
  <2>2. ASSUME NEW c \in cursor', NEW n \in 1 .. P + M
        PROVE  new[n] = c \/ List!Newer(new[n], c)
    <3>1. c = items[M] /\ M \in 1 .. M
      BY <1>4, <2>2
    <3>2. c \in Left
      BY <1>6, <3>1
    <3>3. CASE n \in 1 .. P
      BY <1>7, <1>8, <3>2, <3>3
    <3>4. ASSUME NEW k \in 1 .. M, n = P + k PROVE new[n] = c \/ List!Newer(new[n], c)
      <4>1. new[n] = items[k] /\ (k = M \/ k < M)
        BY <1>7, <3>4
      <4> QED BY <1>9, <3>1, <4>1
    <3> QED BY <1>7, <3>3, <3>4
  <2> QED BY <1>5, <2>1, <2>2 DEF CursorLast
<1>14. SteadyAhead'
  <2> SUFFICES ASSUME NEW i \in steady,
                      over' \/ \E c \in cursor' : ~List!Newer(c, List!Key(i))
               PROVE  \E n \in 1 .. P + M : new[n].id = i
    BY <1>1, <1>5 DEF SteadyAhead, List!Behind, List!Matching, List!Key
  <2>1. i \in List!Matching(table)
    BY DEF SteadyAhead
  <2>2. CASE ~List!Behind(i)
    <3>1. PICK n \in 1 .. P : old[n].id = i
      BY <1>3, <2>2 DEF SteadyAhead
    <3> QED BY <1>7, <3>1
  <2>3. CASE List!Behind(i)
    <3>1. List!Key(i) \in Left /\ List!Key(i).id = i
      BY <2>1, <2>3 DEF Left, List!Key
    <3>2. PICK n \in 1 .. N : rows[n] = List!Key(i)
      BY <3>1
    <3>3. n <= M
      <4>1. CASE N > PageLimit
        <5>1. cursor' = {items[M]} /\ M \in 1 .. M /\ M \in 1 .. N
          BY <1>4, <4>1
        <5>0. ~over'
          <6>1. ~(N <= PageLimit)
            BY <4>1, ListConstants
          <6> QED BY <1>4, <6>1
        <5>2. ~List!Newer(rows[M], rows[n])
          BY <1>6, <3>2, <5>0, <5>1
        <5>3. ~(M < n)
          BY <1>3, <5>1, <5>2 DEF InOrder
        <5> QED BY <5>3
      <4>2. CASE N <= PageLimit
        BY <1>4, <4>2
      <4> QED BY <1>4, <4>1, <4>2
    <3>4. n \in 1 .. M
      BY <3>3
    <3>5. new[P + n].id = i
      <4>1. new[P + n] = items[n] /\ items[n] = rows[n]
        BY <1>6, <1>7, <3>4
      <4> QED BY <3>1, <3>2, <4>1
    <3> QED BY <1>7, <3>4, <3>5
  <2> QED BY <2>2, <2>3
<1>15. ShownMet'
  <2> SUFFICES ASSUME NEW n \in 1 .. P + M PROVE new[n].id \in met
    BY <1>1, <1>5 DEF ShownMet
  <2>1. CASE n \in 1 .. P
    BY <1>3, <1>7, <2>1 DEF ShownMet
  <2>2. ASSUME NEW k \in 1 .. M, n = P + k PROVE new[n].id \in met
    BY <1>2, <1>6, <1>7, <2>2 DEF TableMet
  <2> QED BY <1>7, <2>1, <2>2
<1>16. InOrder(pages')
  BY <1>12
<1> QED BY <1>10, <1>11, <1>13, <1>14, <1>15, <1>16

LEMMA StartOverPages ==
    ASSUME ServicesAssumption, PagesInv, List!StartOver PROVE PagesInv'
<1> USE DEF PagesInv
<1>1. /\ cursor' = {} /\ pages' = <<>> /\ over' = FALSE /\ table' = table
      /\ steady' = List!Matching(table) /\ met' = List!Matching(table)
  BY DEF List!StartOver
<1>2. List!Matching(table) \subseteq DOMAIN table
  BY DEF List!Matching
<1>3. List!TypeOK'
  <2>1. pages' \in Seq([at : Times, id : Ids])
    BY <1>1
  <2>2. steady' \subseteq met' /\ met' \subseteq Ids /\ over' \in BOOLEAN
    BY <1>1, <1>2 DEF List!TypeOK
  <2> QED BY <1>1, <2>1, <2>2 DEF List!TypeOK
<1>4. TableMet' /\ CursorLast' /\ SteadyAhead'
  BY <1>1 DEF TableMet, CursorLast, SteadyAhead, List!Matching, List!Behind
<1>5. InOrder(pages') /\ ShownMet'
  BY <1>1 DEF InOrder, ShownMet
<1> QED BY <1>3, <1>4, <1>5

\* A new row changes nothing for those that are there.
LEMMA InsertPages ==
    ASSUME ServicesAssumption, PagesInv, NEW i \in Ids, NEW at \in Times, List!Insert(i, at)
    PROVE  PagesInv'
<1> USE DEF PagesInv
<1>1. /\ i \notin DOMAIN table /\ DOMAIN table' = DOMAIN table \cup {i}
      /\ table'[i] = [at |-> at, matches |-> TRUE]
      /\ \A j \in DOMAIN table : table'[j] = table[j]
      /\ table' = [j \in DOMAIN table \cup {i} |-> table'[j]]
      /\ met' = met \cup {i} /\ cursor' = cursor /\ pages' = pages /\ over' = over /\ steady' = steady
  BY DEF List!Insert
<1>2. List!TypeOK'
  <2>1. \A j \in DOMAIN table : table[j] \in [at : Times, matches : BOOLEAN]
    BY DEF List!TypeOK
  <2>2. table'[i] \in [at : Times, matches : BOOLEAN]
    BY <1>1
  <2>3. \A j \in DOMAIN table \cup {i} : table'[j] \in [at : Times, matches : BOOLEAN]
    BY <1>1, <2>1, <2>2
  <2>4. table' \in [DOMAIN table' -> [at : Times, matches : BOOLEAN]]
    BY <1>1, <2>3
  <2> QED BY <1>1, <2>4 DEF List!TypeOK
<1>3. List!Matching(table') = List!Matching(table) \cup {i}
  BY <1>1 DEF List!Matching
<1>4. TableMet'
  BY <1>1, <1>3, FS_AddElement DEF TableMet
<1>5. CursorLast' /\ InOrder(pages') /\ ShownMet'
  BY <1>1 DEF CursorLast, ShownMet
<1>6. SteadyAhead'
  BY <1>1, <1>3 DEF SteadyAhead, List!Behind, List!Key, List!Matching
<1> QED BY <1>2, <1>4, <1>5, <1>6

\* Nor does a change, but for the row itself.
LEMMA ChangePages ==
    ASSUME ServicesAssumption, PagesInv, NEW i \in Ids, List!Change(i)
    PROVE  PagesInv'
<1> USE DEF PagesInv
<1>1. /\ i \in DOMAIN table /\ DOMAIN table' = DOMAIN table
      /\ table'[i] = [table[i] EXCEPT !.matches = ~@]
      /\ \A j \in DOMAIN table \ {i} : table'[j] = table[j]
      /\ met' = met \cup {i} /\ steady' = steady \ {i}
      /\ cursor' = cursor /\ pages' = pages /\ over' = over
  BY DEF List!Change, List!TypeOK
<1>2. List!TypeOK'
  <2>1. table' \in [DOMAIN table -> [at : Times, matches : BOOLEAN]]
    BY DEF List!Change, List!TypeOK
  <2> QED BY <1>1, <2>1 DEF List!TypeOK
<1>3. List!Matching(table') \subseteq List!Matching(table) \cup {i}
  BY <1>1 DEF List!Matching
<1>4. TableMet'
  BY <1>1, <1>3 DEF TableMet
<1>5. CursorLast' /\ InOrder(pages') /\ ShownMet'
  BY <1>1 DEF CursorLast, ShownMet
<1>6. SteadyAhead'
  BY <1>1 DEF SteadyAhead, List!Behind, List!Key, List!Matching
<1> QED BY <1>2, <1>4, <1>5, <1>6

LEMMA StepPages ==
    ASSUME ServicesAssumption, PagesInv, [List!Next]_listVars PROVE PagesInv'
<1>1. CASE UNCHANGED listVars
  <2>1. InOrder(pages') <=> InOrder(pages)
    BY <1>1 DEF listVars
  <2> QED BY <1>1, <2>1 DEF listVars, PagesInv, List!TypeOK, TableMet, CursorLast, SteadyAhead, ShownMet,
                 List!Matching, List!Behind, List!Key
<1>2. CASE List!Next
  BY <1>2, NextPagePages, StartOverPages, InsertPages, ChangePages DEF List!Next
<1> QED BY <1>1, <1>2

----------------------------------------------------------------------------
(***************************************************************************)
(* Texts.  A worker writes what it has selected some time before.  That this is *)
(* still what is to be written rests on the locks: the batches share no row, so *)
(* a row of a batch keeps its text until that worker is done, and it only grows *)
(* older.                                                                  *)
(***************************************************************************)
\* What a worker holds is still to be forgotten.
BatchesDue ==
    \A w \in Workers : \A r \in batch[w] : texts[r].raw /\ texts[r].age > RetentionDays

BatchesApart ==
    \A v, w \in Workers : v # w => batch[v] \cap batch[w] = {}

\* Personal texts were written at intake, and none other.
TextsKnown ==
    \A r \in Rows :
        /\ texts[r].raw => r \in personal
        /\ r \in personal => texts[r].age >= 0

TextsInv == Forget!TypeOK /\ BatchesDue /\ BatchesApart /\ TextsKnown /\ ForgottenOnce

Text == [age : -1 .. RetentionDays + 2, raw : BOOLEAN]

LEMMA InitTexts ==
    ASSUME ServicesAssumption, Forget!Init PROVE TextsInv
<1>1. Forget!TypeOK
  BY DEF ServicesAssumption, Forget!RetentionAssumption, Forget!Init, Forget!Absent, Forget!TypeOK
<1>2. BatchesDue /\ BatchesApart
  BY DEF Forget!Init, BatchesDue, BatchesApart
<1>3. TextsKnown /\ ForgottenOnce
  BY DEF Forget!Init, Forget!Absent, TextsKnown, ForgottenOnce, Forget!ForgottenOnce
<1> QED BY <1>1, <1>2, <1>3 DEF TextsInv

\* A selection finds only rows that nobody has and whose time has come.
LEMMA SelectTexts ==
    ASSUME TextsInv, NEW w \in Workers, Forget!Select(w) PROVE TextsInv'
<1> USE DEF TextsInv
<1> PICK s \in Forget!Selections \ {{}} : batch' = [batch EXCEPT ![w] = s]
  BY DEF Forget!Select
<1>1. s \subseteq Rows /\ \A r \in s : Forget!Expired(r)
  BY DEF Forget!Selections
<1>2. /\ batch' \in [Workers -> SUBSET Rows] /\ batch'[w] = s
      /\ \A v \in Workers \ {w} : batch'[v] = batch[v]
  BY <1>1 DEF Forget!TypeOK
<1>3. texts' = texts /\ history' = history /\ held' = held /\ personal' = personal
  BY DEF Forget!Select
<1>4. Forget!TypeOK'
  BY <1>2, <1>3 DEF Forget!TypeOK
<1>5. BatchesDue'
  BY <1>1, <1>2, <1>3 DEF BatchesDue, Forget!Expired
<1>6. BatchesApart'
  <2>1. \A v \in Workers : s \cap batch[v] = {}
    BY <1>1 DEF Forget!Expired, Forget!Locked
  <2> QED BY <2>1, <1>2 DEF BatchesApart
<1> QED BY <1>3, <1>4, <1>5, <1>6 DEF TextsKnown, ForgottenOnce, Forget!ForgottenOnce

\* A worker that writes forgets texts that are all still there and old enough, and
\* none that another holds.
LEMMA AnonymizeTexts ==
    ASSUME ServicesAssumption, TextsInv, NEW w \in Workers, Forget!Anonymize(w) PROVE TextsInv'
<1> USE DEF TextsInv
<1>1. /\ batch' \in [Workers -> SUBSET Rows] /\ batch'[w] = {}
      /\ \A v \in Workers \ {w} : batch'[v] = batch[v]
      /\ held' = held /\ personal' = personal
  BY DEF Forget!Anonymize, Forget!TypeOK
<1>2. ASSUME NEW r \in Rows
      PROVE  /\ texts'[r] \in Text /\ texts'[r].age = texts[r].age
             /\ texts'[r].raw <=> texts[r].raw /\ r \notin batch[w]
             /\ history'[r] = IF r \in batch[w] THEN history[r] + 1 ELSE history[r]
  <2>1. texts[r] \in Text /\ history[r] \in Nat
    BY DEF Forget!TypeOK, Text
  <2>2. CASE r \in batch[w]
    <3>1. texts'[r] = [texts[r] EXCEPT !.raw = FALSE] /\ history'[r] = history[r] + 1
      BY <2>2 DEF Forget!Anonymize
    <3> QED BY <2>1, <2>2, <3>1 DEF Text
  <2>3. CASE r \notin batch[w]
    <3>1. texts'[r] = texts[r] /\ history'[r] = history[r]
      BY <2>3 DEF Forget!Anonymize
    <3> QED BY <2>1, <2>3, <3>1 DEF Text
  <2> QED BY <2>2, <2>3
<1>3. Forget!TypeOK'
  <2>1. \A r \in Rows : texts'[r] \in Text /\ history'[r] \in Nat
    BY <1>2 DEF Forget!TypeOK
  <2>2. texts' = [r \in Rows |-> texts'[r]] /\ history' = [r \in Rows |-> history'[r]]
    BY DEF Forget!Anonymize
  <2>3. texts' \in [Rows -> Text]
    BY <2>1, <2>2
  <2>4. history' \in [Rows -> Nat]
    BY <2>1, <2>2
  <2> QED BY <1>1, <2>3, <2>4 DEF Forget!TypeOK, Text
<1>4. BatchesApart'
  BY <1>1 DEF BatchesApart
<1>5. BatchesDue'
  <2> SUFFICES ASSUME NEW v \in Workers, NEW r \in batch'[v]
               PROVE  texts'[r].raw /\ texts'[r].age > RetentionDays
    BY DEF BatchesDue
  <2>1. v # w /\ r \in batch[v] /\ r \notin batch[w] /\ r \in Rows
    BY <1>1 DEF BatchesApart, Forget!TypeOK
  <2> QED BY <2>1, <1>2 DEF BatchesDue
<1>6. TextsKnown'
  BY <1>1, <1>2 DEF TextsKnown
<1>7. ForgottenOnce'
  <2> SUFFICES ASSUME NEW r \in Rows
               PROVE  /\ history'[r] = IF r \in personal' /\ ~texts'[r].raw THEN 1 ELSE 0
                      /\ history'[r] = 1 => texts'[r].age > RetentionDays
    BY DEF ForgottenOnce, Forget!ForgottenOnce
  <2>1. /\ history[r] = IF r \in personal /\ ~texts[r].raw THEN 1 ELSE 0
        /\ history[r] = 1 => texts[r].age > RetentionDays
    BY DEF ForgottenOnce, Forget!ForgottenOnce
  <2>2. CASE r \in batch[w]
    <3>1. texts[r].raw /\ texts[r].age > RetentionDays /\ r \in personal
      BY <2>2 DEF BatchesDue, TextsKnown
    <3>2. history[r] = 0 /\ r \in personal' /\ history'[r] = history[r] + 1
      BY <1>1, <1>2, <2>1, <2>2, <3>1
    <3>3. ~texts'[r].raw /\ texts'[r].age > RetentionDays
      BY <1>2, <2>2, <3>1
    <3> QED BY <3>2, <3>3
  <2>3. CASE r \notin batch[w]
    BY <1>1, <1>2, <2>1, <2>3
  <2> QED BY <2>2, <2>3
<1> QED BY <1>3, <1>4, <1>5, <1>6, <1>7

\* A worker that dies gives up its rows.
LEMMA CrashTexts ==
    ASSUME TextsInv, NEW w \in Workers, Forget!Crash(w) PROVE TextsInv'
<1> USE DEF TextsInv
<1>1. /\ batch' \in [Workers -> SUBSET Rows] /\ batch'[w] = {}
      /\ \A v \in Workers \ {w} : batch'[v] = batch[v]
  BY DEF Forget!Crash, Forget!TypeOK
<1>2. texts' = texts /\ history' = history /\ held' = held /\ personal' = personal
  BY DEF Forget!Crash
<1>3. Forget!TypeOK'
  BY <1>1, <1>2 DEF Forget!TypeOK
<1>4. BatchesDue' /\ BatchesApart'
  BY <1>1, <1>2 DEF BatchesDue, BatchesApart
<1> QED BY <1>2, <1>3, <1>4 DEF TextsKnown, ForgottenOnce, Forget!ForgottenOnce

LEMMA IntakeTexts ==
    ASSUME ServicesAssumption, TextsInv, NEW r \in Rows, NEW raw \in BOOLEAN, Forget!Intake(r, raw)
    PROVE  TextsInv'
<1> USE DEF TextsInv
<1>1. /\ texts[r].age = -1 /\ ~texts[r].raw /\ r \notin personal /\ history[r] = 0
      /\ \A w \in Workers : r \notin batch[w]
  <2>1. texts[r].age = -1 /\ ~texts[r].raw
    BY DEF Forget!Intake, Forget!Absent
  <2>2. r \notin personal
    BY <2>1 DEF TextsKnown
  <2> QED BY <2>1, <2>2 DEF BatchesDue, ForgottenOnce, Forget!ForgottenOnce
<1>2. /\ history' = history /\ batch' = batch /\ held' = held
      /\ personal' = personal \cup (IF raw THEN {r} ELSE {})
  BY DEF Forget!Intake
<1>3. /\ texts'[r] = [age |-> 0, raw |-> raw]
      /\ \A q \in Rows \ {r} : texts'[q] = texts[q]
      /\ texts' \in [Rows -> Text]
  BY DEF ServicesAssumption, Forget!RetentionAssumption, Forget!Intake, Forget!TypeOK, Text
<1>4. Forget!TypeOK'
  BY <1>2, <1>3 DEF Forget!TypeOK, Text
<1>5. BatchesDue' /\ BatchesApart'
  BY <1>1, <1>2, <1>3 DEF BatchesDue, BatchesApart, Forget!TypeOK
<1>6. TextsKnown'
  BY <1>1, <1>2, <1>3 DEF TextsKnown
<1>7. ForgottenOnce'
  <2> SUFFICES ASSUME NEW q \in Rows
               PROVE  /\ history'[q] = IF q \in personal' /\ ~texts'[q].raw THEN 1 ELSE 0
                      /\ history'[q] = 1 => texts'[q].age > RetentionDays
    BY DEF ForgottenOnce, Forget!ForgottenOnce
  <2>1. CASE q = r
    BY <1>1, <1>2, <1>3, <2>1
  <2>2. CASE q # r
    BY <1>2, <1>3, <2>2 DEF ForgottenOnce, Forget!ForgottenOnce
  <2> QED BY <2>1, <2>2
<1> QED BY <1>4, <1>5, <1>6, <1>7

\* TextsInv only grow older.
LEMMA DayTexts ==
    ASSUME ServicesAssumption, TextsInv, Forget!Day PROVE TextsInv'
<1> USE DEF TextsInv
<1>1. history' = history /\ batch' = batch /\ held' = held /\ personal' = personal
  BY DEF Forget!Day
<1>2. ASSUME NEW r \in Rows
      PROVE  /\ texts'[r] \in Text /\ texts'[r].raw = texts[r].raw
             /\ texts'[r].age >= texts[r].age
  <2>1. texts[r] \in Text /\ RetentionDays \in Nat
    BY DEF Forget!TypeOK, Text, ServicesAssumption, Forget!RetentionAssumption
  <2>2. CASE texts[r] # Forget!Absent /\ texts[r].age < RetentionDays + 2
    <3>1. texts'[r] = [texts[r] EXCEPT !.age = @ + 1]
      BY <2>2 DEF Forget!Day
    <3>2. texts'[r] = [age |-> texts[r].age + 1, raw |-> texts[r].raw]
      BY <2>1, <3>1 DEF Text
    <3> QED BY <2>1, <2>2, <3>2 DEF Text
  <2>3. CASE ~(texts[r] # Forget!Absent /\ texts[r].age < RetentionDays + 2)
    <3>1. texts'[r] = texts[r]
      BY <2>3 DEF Forget!Day
    <3> QED BY <2>1, <3>1 DEF Text
  <2> QED BY <2>2, <2>3
<1>3. texts' \in [Rows -> Text]
  BY <1>2 DEF Forget!Day
<1>4. Forget!TypeOK'
  BY <1>1, <1>3 DEF Forget!TypeOK, Text
<1>5. \A r \in Rows : texts[r] \in Text
  BY DEF Forget!TypeOK, Text
<1>6. BatchesDue' /\ BatchesApart'
  BY <1>1, <1>2, <1>5 DEF BatchesDue, BatchesApart, Forget!TypeOK, Text, ServicesAssumption, Forget!RetentionAssumption
<1>7. TextsKnown'
  BY <1>1, <1>2, <1>5 DEF TextsKnown, Text
<1>8. ForgottenOnce'
  BY <1>1, <1>2, <1>5 DEF ForgottenOnce, Forget!ForgottenOnce, Text, ServicesAssumption, Forget!RetentionAssumption
<1> QED BY <1>4, <1>6, <1>7, <1>8

LEMMA StepTexts ==
    ASSUME ServicesAssumption, TextsInv, [Forget!Next]_textVars PROVE TextsInv'
<1>1. CASE UNCHANGED textVars
  BY <1>1 DEF textVars, TextsInv, Forget!TypeOK, BatchesDue, BatchesApart, TextsKnown, ForgottenOnce, Forget!ForgottenOnce
<1>2. ASSUME NEW r \in Rows, Forget!Hold(r) \/ Forget!Release(r) PROVE TextsInv'
  BY <1>2 DEF Forget!Hold, Forget!Release, TextsInv, Forget!TypeOK, BatchesDue, BatchesApart, TextsKnown, ForgottenOnce, Forget!ForgottenOnce
<1> QED
  BY <1>1, <1>2, SelectTexts, AnonymizeTexts, CrashTexts, IntakeTexts, DayTexts DEF Forget!Next

----------------------------------------------------------------------------
(***************************************************************************)
(* Access.                                                                 *)
(***************************************************************************)
\* An endpoint that looks at visibility answers 404 for what is not seen, and grants
\* nothing that the role does not allow.
LEMMA AnsweredOnlyWhatIsSeen ==
    ASSUME NEW p, NEW r, NEW e \in Accessing!Endpoints \ {"settlement"},
           Accessing!Answer(p, e, {r}) = 200
    PROVE  Accessing!Owns(p, r) /\ Accessing!Allowed(p, e)
BY DEF Accessing!Answer, Accessing!Visible

LEMMA NotToldHolds == ASSUME NEW p PROVE Accessing!NotTold(p)
<1> SUFFICES ASSUME NEW r \in Accessing!RequestRows, NEW e \in Accessing!Endpoints \ {"settlement"},
                    Accessing!Visible(p, {r}) = {}
             PROVE  Accessing!Answer(p, e, {r}) = Accessing!Answer(p, e, {})
  BY DEF Accessing!NotTold
<1>1. Accessing!Visible(p, {}) = {}
  BY DEF Accessing!Visible
<1> QED BY <1>1 DEF Accessing!Answer

LEMMA PartnerConfinedHolds == ASSUME NEW p PROVE Accessing!PartnerConfined(p)
<1> SUFFICES ASSUME Accessing!IsPartner(p), ~Accessing!IsStaff(p), NEW r \in Accessing!RequestRows
             PROVE  /\ "raw_input" \notin Accessing!Card(p, r)
                    /\ ~Accessing!IsAgent(p) => Accessing!Answer(p, "requester_context", {r}) # 200
                    /\ p.partner_id # {} /\ (\E e \in Accessing!Endpoints \ {"settlement"} :
                                                Accessing!Answer(p, e, {r}) = 200)
                         => r.partner_id = p.partner_id
  BY DEF Accessing!PartnerConfined
<1>1. "raw_input" \notin Accessing!Card(p, r)
  BY DEF Accessing!Card, Accessing!CanSeeRawInput
<1>2. ASSUME ~Accessing!IsAgent(p), Accessing!Answer(p, "requester_context", {r}) = 200 PROVE FALSE
  <2>1. "requester_context" \in Accessing!Endpoints \ {"settlement"}
    BY DEF Accessing!Endpoints
  <2>2. Accessing!Allowed(p, "requester_context")
    BY <1>2, <2>1, AnsweredOnlyWhatIsSeen
  <2>3. Accessing!IsOperator(p) \/ Accessing!IsAgent(p)
    BY <2>2 DEF Accessing!Allowed, Accessing!Driving, Accessing!UserDoes, Accessing!PartnerDoes
  <2> QED BY <1>2, <2>3 DEF Accessing!IsStaff
<1>3. ASSUME p.partner_id # {}, NEW e \in Accessing!Endpoints \ {"settlement"},
             Accessing!Answer(p, e, {r}) = 200
      PROVE  r.partner_id = p.partner_id
  <2>1. Accessing!Owns(p, r)
    BY <1>3, AnsweredOnlyWhatIsSeen
  <2> QED BY <1>3, <2>1 DEF Accessing!Owns
<1> QED BY <1>1, <1>2, <1>3

LEMMA DelegationConfinedHolds == ASSUME NEW p PROVE Accessing!DelegationConfined(p)
<1> SUFFICES ASSUME Accessing!IsAgent(p), ~Accessing!IsStaff(p), ~Accessing!IsPartner(p),
                    NEW r \in Accessing!RequestRows, NEW e \in Accessing!Endpoints \ {"settlement"},
                    Accessing!Answer(p, e, {r}) = 200
             PROVE  r.requester_id \in Accessing!Actor(p)
  BY DEF Accessing!DelegationConfined
<1>1. Accessing!Owns(p, r)
  BY AnsweredOnlyWhatIsSeen
<1>2. r.requester_id \in Accessing!User(p)
  BY <1>1 DEF Accessing!Owns
<1> QED BY <1>2 DEF Accessing!User, Accessing!Actor

LEMMA NobodyElseHolds == ASSUME NEW p PROVE Accessing!NobodyElse(p)
<1> SUFFICES ASSUME NEW r \in Accessing!RequestRows
             PROVE  /\ ~(Accessing!Answer(p, "partner_response", {r}) = 200 /\ Accessing!Answer(p, "accept", {r}) = 200)
                    /\ ~Accessing!IsStaff(p) /\ Accessing!Visible(p, {r}) # {} =>
                         \/ r.requester_id = p.user_id \/ r.requester_id \in p.on_behalf_of
                         \/ Accessing!IsPartner(p) /\ r.partner_id = p.partner_id /\ p.partner_id # {}
  BY DEF Accessing!NobodyElse
<1>1. ASSUME Accessing!Answer(p, "partner_response", {r}) = 200, Accessing!Answer(p, "accept", {r}) = 200
      PROVE  FALSE
  <2>1. {"partner_response", "accept"} \subseteq Accessing!Endpoints \ {"settlement"}
    BY DEF Accessing!Endpoints, Accessing!UserDoes, Accessing!PartnerDoes
  <2>2. Accessing!Allowed(p, "partner_response") /\ Accessing!Allowed(p, "accept")
    BY <1>1, <2>1, AnsweredOnlyWhatIsSeen
  <2>3. Accessing!IsPartner(p) /\ Accessing!CanActAsUser(p)
    BY <2>2 DEF Accessing!Allowed, Accessing!Driving, Accessing!UserDoes, Accessing!PartnerDoes
  <2> QED BY <2>3 DEF Accessing!CanActAsUser
<1>2. ASSUME ~Accessing!IsStaff(p), Accessing!Visible(p, {r}) # {}
      PROVE  \/ r.requester_id = p.user_id \/ r.requester_id \in p.on_behalf_of
             \/ Accessing!IsPartner(p) /\ r.partner_id = p.partner_id /\ p.partner_id # {}
  <2>1. Accessing!Owns(p, r)
    BY <1>2 DEF Accessing!Visible
  <2> QED BY <1>2, <2>1 DEF Accessing!Owns, Accessing!User
<1> QED BY <1>1, <1>2

\* Every caller sees a request of the lowest levels that is his own.
LEMMA IntakeOwnedHolds == ASSUME NEW p PROVE Accessing!IntakeOwned(p)
<1> DEFINE Owned(u) == [access_level : Accessing!BASE_LEVELS, requester_id : {u},
                        partner_id : Accessing!Optional(Partners)]
<1> SUFFICES ASSUME ~(Accessing!IsPartner(p) /\ p.partner_id # {}),
                    ~(p.on_behalf_of # {} /\ (~Accessing!IsAgent(p) \/ p.kind = "requester")),
                    NEW u \in Accessing!ResolveRequester(p, {}), NEW r \in Owned(u)
             PROVE  Accessing!Visible(p, {r}) # {}
  BY DEF Accessing!IntakeOwned
<1>1. r.access_level \in Accessing!BASE_LEVELS /\ r.requester_id = u
  OBVIOUS
<1>2. r.access_level \in Accessing!VisibleAccessLevels(p)
  BY <1>1 DEF Accessing!VisibleAccessLevels, Accessing!BASE_LEVELS, Accessing!AGENT_LEVELS,
              Accessing!AccessLevel
<1>3. u \in Accessing!User(p)
  BY DEF Accessing!ResolveRequester, Accessing!User
<1>4. Accessing!Owns(p, r)
  BY <1>1, <1>3 DEF Accessing!Owns
<1> QED BY <1>2, <1>4 DEF Accessing!Visible

LEMMA PromisesKept == Accessing!AccessSound
BY NotToldHolds, PartnerConfinedHolds, DelegationConfinedHolds, NobodyElseHolds, IntakeOwnedHolds
   DEF Accessing!AccessSound


----------------------------------------------------------------------------
(***************************************************************************)
(* Deadlines: what the calendar answers, for any calendar, change of the   *)
(* clock, start and amount.  The hours the loop has spent before a day are *)
(* the business hours up to it, so the first day that can end the loop     *)
(* holds the hour that is looked for; what the change of the clock moves   *)
(* is counted in the end.                                                  *)
(***************************************************************************)
\* A set of numbers has a least one: the least of the intervals that end in it.
LEMMA LeastExists ==
    ASSUME NEW n \in Nat, NEW T \in SUBSET (0 .. n), T # {}
    PROVE  \E x \in T : \A y \in T : x <= y
<1> DEFINE Heads == {0 .. k : k \in T}
           R == StrictSubsetOrdering(0 .. n)
<1>1. IsFiniteSet(0 .. n)
  BY FS_Interval
<1>2. IsWellFoundedOn(R, SUBSET (0 .. n))
  BY <1>1, FS_StrictSubsetOrderingWellFounded, FS_FiniteSubsetsOfFinite
<1>3. Heads \subseteq SUBSET (0 .. n) /\ Heads # {}
  <2>1. ASSUME NEW k \in T PROVE 0 .. k \in SUBSET (0 .. n)
    <3>1. k \in 0 .. n
      OBVIOUS
    <3> QED BY <3>1
  <2>2. Heads # {}
    OBVIOUS
  <2> QED BY <2>1, <2>2
<1>4. \E h \in Heads : \A other \in Heads : <<other, h>> \notin R
  <2> HIDE DEF Heads, R
  <2> QED BY <1>2, <1>3, WFMin
<1>5. PICK x \in T : \A y \in T : <<0 .. y, 0 .. x>> \notin R
  BY <1>4
<1>6. ASSUME NEW y \in T PROVE x <= y
  <2>1. x \in 0 .. n /\ y \in 0 .. n
    OBVIOUS
  <2>2. 0 .. x \in SUBSET (0 .. n) /\ 0 .. y \in SUBSET (0 .. n)
    BY <2>1
  <2>3. ASSUME NEW a \in SUBSET (0 .. n), NEW b \in SUBSET (0 .. n), <<a, b>> \notin R
        PROVE  ~(a \subseteq b /\ a # b)
    BY <2>3 DEF StrictSubsetOrdering
  <2>4. ~(0 .. y \subseteq 0 .. x /\ 0 .. y # 0 .. x)
    <3> HIDE DEF R
    <3> QED BY <1>5, <2>2, <2>3
  <2>5. ASSUME y < x PROVE 0 .. y \subseteq 0 .. x /\ x \in 0 .. x /\ x \notin 0 .. y
    BY <2>1, <2>5
  <2> QED BY <2>1, <2>4, <2>5
<1> QED BY <1>6

\* The business hours of the local clock from a to b, and their number.
BusinessHours(c, a, b) == {l \in a .. b - 1 : Deadlines!BusinessHour(c, l)}
Business(c, a, b) == Cardinality(BusinessHours(c, a, b))

LEMMA BusinessType ==
    ASSUME NEW c, NEW a \in Int, NEW b \in Int
    PROVE  IsFiniteSet(BusinessHours(c, a, b)) /\ Business(c, a, b) \in Nat
<1>1. IsFiniteSet(a .. b - 1)
  BY FS_Interval
<1> QED BY <1>1, FS_Subset, FS_CardinalityType DEF BusinessHours, Business

\* They add up.
LEMMA BusinessAdds ==
    ASSUME NEW c, NEW a \in Int, NEW m \in Int, NEW b \in Int, a <= m, m <= b
    PROVE  Business(c, a, b) = Business(c, a, m) + Business(c, m, b)
<1> DEFINE S == BusinessHours(c, a, m)
           T == BusinessHours(c, m, b)
<1>1. IsFiniteSet(S) /\ IsFiniteSet(T) /\ Cardinality(S) \in Nat /\ Cardinality(T) \in Nat
  BY BusinessType DEF Business
<1>2. BusinessHours(c, a, b) = S \cup T /\ S \cap T = {}
  BY DEF BusinessHours
<1> HIDE DEF S, T
<1>3. Cardinality(S \cup T) = Cardinality(S) + Cardinality(T) - Cardinality({})
  BY <1>1, <1>2, FS_Union
<1>4. Cardinality({}) = 0
  BY FS_EmptySet
<1> QED BY <1>1, <1>2, <1>3, <1>4 DEF Business, S, T

LEMMA BusinessNone ==
    ASSUME NEW c, NEW a \in Int, NEW b \in Int, \A l \in a .. b - 1 : ~Deadlines!BusinessHour(c, l)
    PROVE  Business(c, a, b) = 0
<1>1. BusinessHours(c, a, b) = {}
  BY DEF BusinessHours
<1> QED BY <1>1, FS_EmptySet DEF Business

LEMMA BusinessAll ==
    ASSUME NEW c, NEW a \in Int, NEW b \in Int, a <= b, \A l \in a .. b - 1 : Deadlines!BusinessHour(c, l)
    PROVE  Business(c, a, b) = b - a
<1>1. BusinessHours(c, a, b) = a .. b - 1
  BY DEF BusinessHours
<1>2. Cardinality(a .. b - 1) = IF a > b - 1 THEN 0 ELSE (b - 1) - a + 1
  BY FS_Interval
<1> QED BY <1>1, <1>2 DEF Business

----------------------------------------------------------------------------
\* Days and hours.
LEMMA Division ==
    ASSUME NEW D \in Nat \ {0}, NEW l \in Int
    PROVE  l \div D \in Int /\ l % D \in 0 .. D - 1 /\ l = D * (l \div D) + (l % D)
OBVIOUS

LEMMA Product == ASSUME NEW D \in Nat, NEW j \in Int, NEW k \in Int PROVE j * D \in Int /\ (j <= k => j * D <= k * D)
<1>1. j * D \in Int /\ k * D \in Int
  OBVIOUS
<1>2. k * D = j * D + (k - j) * D
  OBVIOUS
<1>3. j <= k => (k - j) * D >= 0
  OBVIOUS
<1> QED BY <1>1, <1>2, <1>3

LEMMA DayFound ==
    ASSUME NEW D \in Nat \ {0}, NEW l \in Int, NEW j \in Int
    PROVE  /\ j * D \in Int /\ (j + 1) * D = j * D + D
           /\ (j * D <= l /\ l < j * D + D) => l \div D = j /\ l % D = l - j * D
           /\ l \div D = j => j * D <= l /\ l < j * D + D
<1> DEFINE q == l \div D
<1>1. q \in Int /\ l % D \in 0 .. D - 1 /\ l = D * q + (l % D)
  BY Division
<1> HIDE DEF q
<1>2. D * q = q * D /\ q * D \in Int /\ j * D \in Int
  BY <1>1
<1>3. (j + 1) * D = j * D + D /\ (q + 1) * D = q * D + D
  BY <1>1
<1>4. j < q => j * D + D <= q * D
  <2>1. j + 1 \in Int /\ (j < q => j + 1 <= q)
    BY <1>1
  <2> QED BY <1>1, <1>2, <1>3, <2>1, Product
<1>5. q < j => q * D + D <= j * D
  <2>1. q + 1 \in Int /\ (q < j => q + 1 <= j)
    BY <1>1
  <2> QED BY <1>1, <1>2, <1>3, <2>1, Product
<1>6. ASSUME j * D <= l, l < j * D + D PROVE q = j /\ l % D = l - j * D
  <2> DEFINE x == j * D
             y == q * D
             r == l % D
  <2>1. x \in Int /\ y \in Int /\ r \in 0 .. D - 1 /\ l = y + r
    BY <1>1, <1>2
  <2>2. (j < q => x + D <= y) /\ (q < j => y + D <= x) /\ x <= l /\ l < x + D
    BY <1>4, <1>5, <1>6
  <2> HIDE DEF x, y, r
  <2>3. ~(j < q) /\ ~(q < j)
    BY <2>1, <2>2
  <2>4. q = j
    BY <1>1, <2>3
  <2>5. r = l - x
    BY <2>1, <2>4 DEF x, y
  <2> QED BY <2>4, <2>5 DEF x, r
<1>7. ASSUME q = j PROVE j * D <= l /\ l < j * D + D
  <2> DEFINE x == j * D
             r == l % D
  <2>1. x \in Int /\ r \in 0 .. D - 1 /\ l = x + r
    BY <1>1, <1>2, <1>7
  <2> HIDE DEF x, r
  <2> QED BY <2>1 DEF x
<1> QED BY <1>1, <1>2, <1>3, <1>6, <1>7 DEF q

LEMMA Greater ==
    \A a, b \in Int : Deadlines!Max({a, b}) = IF a >= b THEN a ELSE b
<1> TAKE a, b \in Int
<1>1. \E x \in {a, b} : \A y \in {a, b} : x >= y
  OBVIOUS
<1>2. Deadlines!Max({a, b}) \in {a, b} /\ \A y \in {a, b} : Deadlines!Max({a, b}) >= y
  BY <1>1 DEF Deadlines!Max
<1> QED BY <1>2

\* The business hours of one day are those of its window.
LEMMA OfDay ==
    ASSUME DayHours \in Nat \ {0}, NEW c \in Deadlines!Calendars, NEW j \in Int, NEW l \in Int,
           j * DayHours <= l, l < j * DayHours + DayHours
    PROVE  Deadlines!BusinessHour(c, l) <=>
             /\ Deadlines!BusinessDay(c, j)
             /\ j * DayHours + c.open <= l /\ l < Deadlines!CloseOf(c, j)
<1> DEFINE x == j * DayHours
<1>1. l \div DayHours = j /\ l % DayHours = l - x /\ x \in Int
  BY DayFound
<1>2. c.open \in Int /\ c.close \in Int
  BY DEF Deadlines!Calendars
<1>3. Deadlines!BusinessHour(c, l) <=> Deadlines!BusinessDay(c, j) /\ l - x \in c.open .. c.close - 1
  BY <1>1 DEF Deadlines!BusinessHour
<1>4. Deadlines!CloseOf(c, j) = x + c.close
  BY DEF Deadlines!CloseOf
<1> HIDE DEF x
<1>5. l - x \in c.open .. c.close - 1 <=> x + c.open <= l /\ l < x + c.close
  BY <1>1, <1>2
<1> QED BY <1>3, <1>4, <1>5 DEF x

\* The k-th day of a stage that starts at s, and where it begins for the stage.
Day(s, k) == (s \div DayHours) + k
From(s, k) == IF k = 0 THEN s ELSE (s \div DayHours + k) * DayHours

LEMMA FromOrder ==
    ASSUME DayHours \in Nat \ {0}, NEW s \in Int, NEW k \in Nat
    PROVE  LET j == s \div DayHours + k
           IN  /\ j \in Int /\ j * DayHours \in Int /\ From(s, k) \in Int
               /\ From(s, k + 1) = j * DayHours + DayHours
               /\ s <= From(s, k) /\ j * DayHours <= From(s, k) /\ From(s, k) < From(s, k + 1)
               /\ From(s, k) = s \/ From(s, k) = j * DayHours
<1> DEFINE f == s \div DayHours
           j == f + k
           x == j * DayHours
<1>1. f \in Int /\ j \in Int
  BY Division
<1>2. f * DayHours \in Int /\ f * DayHours <= s /\ s < f * DayHours + DayHours
  BY <1>1, DayFound
<1>3. x \in Int /\ (j + 1) * DayHours = x + DayHours
  BY <1>1, DayFound
<1>4. From(s, k + 1) = x + DayHours
  <2>1. k + 1 # 0 /\ f + (k + 1) = j + 1
    BY <1>1
  <2> QED BY <1>3, <2>1 DEF From
<1>5. CASE k = 0
  <2>1. From(s, k) = s /\ j = f
    BY <1>1, <1>5 DEF From
  <2>2. x = f * DayHours
    BY <2>1
  <2> HIDE DEF x, j, f
  <2> QED BY <1>1, <1>2, <1>3, <1>4, <2>1, <2>2 DEF x, j, f
<1>6. CASE k # 0
  <2>1. From(s, k) = x
    BY <1>6 DEF From
  <2>2. f * DayHours + DayHours <= x
    <3>1. f + 1 \in Int /\ f + 1 <= j
      BY <1>1, <1>6
    <3>2. (f + 1) * DayHours <= j * DayHours
      BY <1>1, <3>1, Product
    <3>3. (f + 1) * DayHours = f * DayHours + DayHours
      BY <1>1, DayFound
    <3> QED BY <3>2, <3>3
  <2>3. s <= x
    <3> HIDE DEF x
    <3> QED BY <1>2, <1>3, <2>2
  <2>4. x < x + DayHours
    <3> HIDE DEF x
    <3> QED BY <1>3
  <2> QED BY <1>1, <1>3, <1>4, <2>1, <2>3, <2>4
<1> QED BY <1>5, <1>6

\* What a stage can use of its k-th day.
LEMMA DayCounted ==
    ASSUME DayHours \in Nat \ {0}, NEW c \in Deadlines!Calendars, NEW s \in Int, NEW k \in Nat
    PROVE  LET available == Deadlines!Available(c, s, Day(s, k))
               b == Deadlines!SegmentStart(c, s, Day(s, k))
           IN  /\ available \in Nat /\ Business(c, From(s, k), From(s, k + 1)) = available
               /\ available > 0 =>
                    /\ b \in Int /\ s <= b /\ From(s, k) <= b
                    /\ \A l \in b .. b + available - 1 : Deadlines!BusinessHour(c, l)
                    /\ \A x \in b .. b + available : Business(c, From(s, k), x) = x - b
<1> DEFINE j == Day(s, k)
           d == j * DayHours
           a == From(s, k)
           e == From(s, k + 1)
           b == Deadlines!SegmentStart(c, s, j)
           close == Deadlines!CloseOf(c, j)
           available == Deadlines!Available(c, s, j)
<1>1. /\ j \in Int /\ d \in Int /\ a \in Int /\ e = d + DayHours /\ s <= a /\ d <= a /\ a < e
      /\ a = s \/ a = d
  BY FromOrder DEF Day
<1> HIDE DEF j
<1>2. /\ c.open \in Nat /\ c.close \in Nat /\ c.close <= DayHours
  BY DEF Deadlines!Calendars
<1>3. close = d + c.close
  BY DEF Deadlines!CloseOf
<1>4. b = IF s >= d + c.open THEN s ELSE d + c.open
  <2> HIDE DEF d
  <2>1. d + c.open \in Int
    BY <1>1, <1>2
  <2> QED BY <2>1, Greater DEF Deadlines!SegmentStart, d
<1>5. \A l \in a .. e - 1 :
        Deadlines!BusinessHour(c, l) <=> Deadlines!BusinessDay(c, j) /\ d + c.open <= l /\ l < close
  <2> TAKE l \in a .. e - 1
  <2>1. l \in Int /\ d <= l /\ l < d + DayHours
    <3> HIDE DEF d, a, e
    <3> QED BY <1>1
  <2> QED BY <1>1, <2>1, OfDay
<1>6. available = IF Deadlines!BusinessDay(c, j) THEN (IF close >= b THEN close - b ELSE 0) ELSE 0
  <2>1. close - b \in Int
    <3> HIDE DEF d, close, b
    <3> QED BY <1>1, <1>2, <1>3, <1>4
  <2>2. Deadlines!Max({close - b, 0}) = IF close - b >= 0 THEN close - b ELSE 0
    BY <2>1, Greater
  <2>3. close - b >= 0 <=> close >= b
    <3> HIDE DEF d, close, b
    <3> QED BY <1>1, <1>2, <1>3, <1>4
  <2> QED BY <2>2, <2>3 DEF Deadlines!Available
<1> HIDE DEF d, a, e, b, close, available
<1>7. /\ b \in Int /\ close \in Int /\ s <= b /\ a <= b /\ close <= e /\ available \in Nat
  BY <1>1, <1>2, <1>3, <1>4, <1>6
<1>8. \A l \in a .. e - 1 :
        Deadlines!BusinessHour(c, l) <=> Deadlines!BusinessDay(c, j) /\ b <= l /\ l < close
  BY <1>1, <1>2, <1>4, <1>5
<1>9. CASE available = 0
  <2>1. \A l \in a .. e - 1 : ~Deadlines!BusinessHour(c, l)
    BY <1>6, <1>7, <1>8, <1>9
  <2>2. e \in Int
    BY <1>1
  <2>3. Business(c, a, e) = 0
    BY <1>1, <2>1, <2>2, BusinessNone
  <2> QED BY <1>7, <1>9, <2>3 DEF a, b, e, j, available
<1>10. CASE available > 0
  <2>1. Deadlines!BusinessDay(c, j) /\ b < close /\ available = close - b /\ close = b + available
    BY <1>6, <1>7, <1>10
  <2>2. e \in Int
    BY <1>1
  <2>3. \A l \in b .. close - 1 : Deadlines!BusinessHour(c, l)
    BY <1>1, <1>7, <1>8, <2>1
  <2>4. \A l \in a .. b - 1 : ~Deadlines!BusinessHour(c, l)
    BY <1>1, <1>7, <1>8, <2>1
  <2>5. \A l \in close .. e - 1 : ~Deadlines!BusinessHour(c, l)
    BY <1>1, <1>7, <1>8, <2>1
  <2>6. \A x \in b .. close : Business(c, a, x) = x - b
    <3> TAKE x \in b .. close
    <3>1. Business(c, a, b) = 0
      BY <1>1, <1>7, <2>4, BusinessNone
    <3>2. x \in Int /\ b <= x /\ \A l \in b .. x - 1 : l \in b .. close - 1
      BY <1>7
    <3>3. Business(c, b, x) = x - b
      BY <1>7, <2>3, <3>2, BusinessAll
    <3>4. Business(c, a, x) = Business(c, a, b) + Business(c, b, x)
      BY <1>1, <1>7, <3>2, BusinessAdds
    <3> QED BY <1>7, <3>1, <3>2, <3>3, <3>4
  <2>7. Business(c, a, e) = available
    <3>1. Business(c, close, e) = 0
      BY <1>7, <2>2, <2>5, BusinessNone
    <3>2. close \in b .. close
      BY <1>7, <2>1
    <3>3. Business(c, a, close) = close - b
      BY <2>6, <3>2
    <3>4. Business(c, a, e) = Business(c, a, close) + Business(c, close, e)
      BY <1>1, <1>7, <2>1, <2>2, BusinessAdds
    <3> QED BY <1>7, <2>1, <3>1, <3>3, <3>4
  <2>8. /\ \A l \in b .. b + available - 1 : Deadlines!BusinessHour(c, l)
        /\ \A x \in b .. b + available : Business(c, a, x) = x - b
    <3>1. \A l \in b .. b + available - 1 : l \in b .. close - 1
      BY <1>7, <2>1
    <3>2. \A x \in b .. b + available : x \in b .. close
      BY <1>7, <2>1
    <3> QED BY <2>3, <2>6, <3>1, <3>2
  <2> QED BY <1>7, <2>7, <2>8 DEF a, b, e, j, available
<1> QED BY <1>7, <1>9, <1>10

LEMMA DayAdds ==
    ASSUME DayHours \in Nat \ {0}, NEW c \in Deadlines!Calendars, NEW s \in Int, NEW m \in Nat
    PROVE  LET available == Deadlines!Available(c, s, Day(s, m))
           IN  /\ available \in Nat
               /\ Business(c, s, From(s, m + 1)) = Business(c, s, From(s, m)) + available
<1> DEFINE available == Deadlines!Available(c, s, Day(s, m))
<1>2. available \in Nat /\ Business(c, From(s, m), From(s, m + 1)) = available
  BY DayCounted
<1>3. From(s, m) \in Int /\ From(s, m + 1) \in Int /\ s <= From(s, m) /\ From(s, m) <= From(s, m + 1)
  <2>1. From(s, m) \in Int /\ s <= From(s, m) /\ From(s, m) < From(s, m + 1)
    BY FromOrder
  <2>2. From(s, m + 1) \in Int
    BY FromOrder
  <2> QED BY <2>1, <2>2
<1>4. Business(c, s, From(s, m + 1)) = Business(c, s, From(s, m)) + available
  BY <1>2, <1>3, BusinessAdds
<1> QED BY <1>2, <1>4

----------------------------------------------------------------------------
\* The recursion of the loop over the days.
SpentStep(c, s, f) ==
    [k \in 0 .. Horizon |->
        IF k = 0 THEN 0 ELSE f[k - 1] + Deadlines!Available(c, s, s \div DayHours + k - 1)]

LEMMA SpentStepDays ==
    ASSUME DayHours \in Nat \ {0}, NEW c, NEW s \in Int, NEW f, NEW k \in 0 .. Horizon
    PROVE  SpentStep(c, s, f)[k] =
             IF k = 0 THEN 0 ELSE f[k - 1] + Deadlines!Available(c, s, Day(s, k - 1))
<1>1. s \div DayHours \in Int
  BY Division
<1>2. s \div DayHours + k - 1 = Day(s, k - 1)
  BY <1>1 DEF Day
<1> QED BY Zenon, <1>2 DEF SpentStep

Spent(c, s) == CHOOSE f : f = SpentStep(c, s, f)

Ends(c, s, n) == Deadlines!DaysThatEnd(c, s, Spent(c, s), n)

LocalDeadline(c, s, n) ==
    LET last == Deadlines!Min(Ends(c, s, n))
    IN  Deadlines!SegmentStart(c, s, s \div DayHours + last) + n - Spent(c, s)[last]

LEMMA AddUnfolded ==
    ASSUME NEW c, NEW u, NEW n
    PROVE  Deadlines!AddBusinessHours(c, u, n) =
             LET s == Deadlines!Local(c, u)
             IN  IF ~Deadlines!Valid(c) \/ n < 0 \/ Ends(c, s, n) = {} THEN {}
                 ELSE {Deadlines!Utc(c, LocalDeadline(c, s, n))}
BY Zenon DEF Deadlines!AddBusinessHours, Ends, LocalDeadline, Spent, SpentStep

\* The hours spent before the k-th day are the business hours up to it.
LEMMA SpentFound ==
    ASSUME DayHours \in Nat \ {0}, Horizon \in Nat, NEW c \in Deadlines!Calendars, NEW s \in Int,
           NEW k \in 0 .. Horizon
    PROVE  Spent(c, s)[k] = Business(c, s, From(s, k))
<1> DEFINE sum == [i \in 0 .. Horizon |-> Business(c, s, From(s, i))]
           spent == Spent(c, s)
<1>1. Business(c, s, From(s, 0)) = 0
  <2>1. From(s, 0) = s
    BY DEF From
  <2>2. \A l \in s .. s - 1 : ~Deadlines!BusinessHour(c, l)
    OBVIOUS
  <2> QED BY <2>1, <2>2, BusinessNone
<1>2. ASSUME NEW i \in 0 .. Horizon, i # 0
      PROVE  /\ i - 1 \in 0 .. Horizon
             /\ Business(c, s, From(s, i))
                  = Business(c, s, From(s, i - 1)) + Deadlines!Available(c, s, Day(s, i - 1))
  <2>1. i - 1 \in Nat /\ (i - 1) + 1 = i
    BY <1>2
  <2>2. \A h \in Nat : Business(c, s, From(s, h + 1))
                        = Business(c, s, From(s, h)) + Deadlines!Available(c, s, Day(s, h))
    BY DayAdds
  <2>3. Business(c, s, From(s, (i - 1) + 1))
          = Business(c, s, From(s, i - 1)) + Deadlines!Available(c, s, Day(s, i - 1))
    BY <2>1, <2>2
  <2>4. i - 1 \in 0 .. Horizon
    BY <2>1
  <2> QED BY Zenon, <2>1, <2>3, <2>4
<1>3. sum = SpentStep(c, s, sum)
  <2>1. ASSUME NEW i \in 0 .. Horizon PROVE sum[i] = SpentStep(c, s, sum)[i]
    <3>1. CASE i = 0
      BY <1>1, <3>1 DEF SpentStep
    <3>2. CASE i # 0
      <4>1. SpentStep(c, s, sum)[i] = sum[i - 1] + Deadlines!Available(c, s, Day(s, i - 1))
        <5> HIDE DEF sum
        <5> QED BY <3>2, SpentStepDays
      <4>2. sum[i - 1] = Business(c, s, From(s, i - 1))
        BY <1>2, <3>2
      <4> QED BY <1>2, <3>2, <4>1, <4>2
    <3> QED BY <3>1, <3>2
  <2> QED BY <2>1 DEF SpentStep
<1>4. spent = SpentStep(c, s, spent)
  <2> HIDE DEF sum
  <2> QED BY <1>3 DEF Spent
<1> HIDE DEF spent
<1>5. spent[0] = 0
  BY <1>4 DEF SpentStep
<1>6. \A i \in 0 .. Horizon : i # 0 => spent[i] = spent[i - 1] + Deadlines!Available(c, s, Day(s, i - 1))
  <2> TAKE i \in 0 .. Horizon
  <2>1. SpentStep(c, s, spent)[i] = IF i = 0 THEN 0 ELSE spent[i - 1] + Deadlines!Available(c, s, Day(s, i - 1))
    BY SpentStepDays
  <2> QED BY Zenon, <1>4, <2>1
<1> DEFINE Wrong == {i \in 0 .. Horizon : spent[i] # Business(c, s, From(s, i))}
<1>7. Wrong = {}
  <2> SUFFICES ASSUME Wrong # {} PROVE FALSE
    OBVIOUS
  <2>1. Wrong \in SUBSET (0 .. Horizon)
    OBVIOUS
  <2>2. PICK i \in Wrong : \A x \in Wrong : i <= x
    <3> HIDE DEF Wrong
    <3> QED BY <2>1, LeastExists
  <2>3. i # 0
    BY <1>1, <1>5
  <2>4. i - 1 \in 0 .. Horizon /\ i - 1 \notin Wrong
    BY <2>2, <2>3
  <2>5. spent[i - 1] = Business(c, s, From(s, i - 1))
    BY <2>4
  <2> QED BY <1>2, <1>6, <2>3, <2>5
<1> QED BY <1>7 DEF spent

\* As long as no day has ended the loop, less has been spent than is to be found.
LEMMA SpentBefore ==
    ASSUME DayHours \in Nat \ {0}, Horizon \in Nat, NEW c \in Deadlines!Calendars, NEW s \in Int,
           NEW n \in Nat, NEW m \in 0 .. Horizon, \A i \in 0 .. m - 1 : i \notin Ends(c, s, n)
    PROVE  Spent(c, s)[m] \in Nat /\ Spent(c, s)[m] < IF n > 0 THEN n ELSE 1
<1> DEFINE bound == IF n > 0 THEN n ELSE 1
           spent == Spent(c, s)
           Wrong == {i \in 0 .. m : ~(spent[i] < bound)}
<1>1. \A i \in 0 .. Horizon : spent[i] = Business(c, s, From(s, i)) /\ spent[i] \in Nat
  <2> TAKE i \in 0 .. Horizon
  <2>1. From(s, i) \in Int
    BY FromOrder
  <2> QED BY <2>1, SpentFound, BusinessType
<1>2. spent[0] = 0
  <2>1. From(s, 0) = s
    BY DEF From
  <2>2. \A l \in s .. s - 1 : ~Deadlines!BusinessHour(c, l)
    OBVIOUS
  <2>3. Business(c, s, s) = 0
    BY <2>2, BusinessNone
  <2> QED BY <1>1, <2>1, <2>3
<1>3. \A i \in Nat : i + 1 \in 0 .. Horizon =>
        /\ Deadlines!Available(c, s, Day(s, i)) \in Nat
        /\ spent[i + 1] = spent[i] + Deadlines!Available(c, s, Day(s, i))
  <2> TAKE i \in Nat
  <2> SUFFICES ASSUME i + 1 \in 0 .. Horizon
               PROVE  /\ Deadlines!Available(c, s, Day(s, i)) \in Nat
                      /\ spent[i + 1] = spent[i] + Deadlines!Available(c, s, Day(s, i))
    OBVIOUS
  <2>1. /\ Deadlines!Available(c, s, Day(s, i)) \in Nat
        /\ Business(c, s, From(s, i + 1)) = Business(c, s, From(s, i)) + Deadlines!Available(c, s, Day(s, i))
    BY DayAdds
  <2>2. i \in 0 .. Horizon
    OBVIOUS
  <2> QED BY <1>1, <2>1, <2>2
<1> HIDE DEF spent
<1>4. Wrong = {}
  <2> SUFFICES ASSUME Wrong # {} PROVE FALSE
    OBVIOUS
  <2>1. Wrong \in SUBSET (0 .. m) /\ m \in Nat
    OBVIOUS
  <2>2. PICK i \in Wrong : \A x \in Wrong : i <= x
    <3> HIDE DEF Wrong
    <3> QED BY <2>1, LeastExists
  <2>3. i # 0
    BY <1>2
  <2>4. PICK h \in Nat : h + 1 = i
    <3>1. i - 1 \in Nat /\ (i - 1) + 1 = i
      BY <2>3
    <3> QED BY <3>1
  <2>5. h \in 0 .. m - 1 /\ h \in 0 .. m /\ h \notin Wrong /\ h + 1 \in 0 .. Horizon /\ h \in 0 .. Horizon
    BY <2>2, <2>4
  <2> DEFINE available == Deadlines!Available(c, s, Day(s, h))
  <2>6. available \in Nat /\ spent[h + 1] = spent[h] + available /\ spent[h] \in Nat
    BY <1>1, <1>3, <2>5
  <2>7. spent[h] < bound /\ ~(spent[h + 1] < bound)
    BY <2>4, <2>5
  <2>8. ~(available > 0 /\ n - spent[h] <= available)
    <3>1. h \in 0 .. Horizon - 1
      BY <2>5
    <3>2. h \notin Deadlines!DaysThatEnd(c, s, spent, n)
      BY <2>5 DEF Ends, spent
    <3>3. s \div DayHours + h = Day(s, h)
      BY DEF Day
    <3> HIDE DEF available
    <3>4. available = Deadlines!Available(c, s, s \div DayHours + h)
      BY <3>3 DEF available
    <3> QED BY Zenon, <3>1, <3>2, <3>4 DEF Deadlines!DaysThatEnd
  <2> HIDE DEF available
  <2> QED BY <2>6, <2>7, <2>8
<1>5. m \in 0 .. m /\ spent[m] \in Nat
  BY <1>1
<1> QED BY <1>4, <1>5 DEF spent

\* The deadline on the local clock leaves exactly the business hours promised, and
\* is not later than it must be.
LEMMA DeadlineFound ==
    ASSUME DayHours \in Nat \ {0}, Horizon \in Nat, NEW c \in Deadlines!Calendars, NEW s \in Int,
           NEW n \in Nat, Ends(c, s, n) # {}
    PROVE  LET l == LocalDeadline(c, s, n)
           IN  /\ l \in Int /\ s <= l /\ Business(c, s, l) = n
               /\ n > 0 => s < l /\ Deadlines!BusinessHour(c, l - 1)
               /\ n = 0 => Deadlines!BusinessHour(c, l)
<1> DEFINE T == Ends(c, s, n)
           last == Deadlines!Min(T)
           spent == Spent(c, s)[last]
           available == Deadlines!Available(c, s, Day(s, last))
           b == Deadlines!SegmentStart(c, s, Day(s, last))
           l == LocalDeadline(c, s, n)
<1>1. T \in SUBSET (0 .. Horizon) /\ T \in SUBSET (0 .. Horizon - 1) /\ T # {}
  BY DEF Ends, Deadlines!DaysThatEnd
<1>2. last \in T /\ \A k \in T : last <= k
  <2>1. \E x \in T : \A y \in T : x <= y
    <3> HIDE DEF T, last, spent, available, b, l
    <3> QED BY <1>1, LeastExists
  <2> QED BY Zenon, <2>1 DEF Deadlines!Min
<1>3. last \in 0 .. Horizon /\ last \in Nat /\ last + 1 \in 0 .. Horizon
  <2> HIDE DEF T, last
  <2> QED BY <1>1, <1>2
<1>4. \A k \in 0 .. last - 1 : k \notin T
  <2> HIDE DEF T, last
  <2> QED BY <1>2, <1>3
<1>5. available > 0 /\ n - spent <= available
  <2>1. last \in Deadlines!DaysThatEnd(c, s, Spent(c, s), n)
    BY <1>2 DEF Ends
  <2>2. s \div DayHours + last = Day(s, last)
    BY DEF Day
  <2> HIDE DEF last, T
  <2>3. available = Deadlines!Available(c, s, s \div DayHours + last)
    BY Zenon, <2>2
  <2> HIDE DEF available
  <2> QED BY Zenon, <2>1, <2>3 DEF Deadlines!DaysThatEnd
<1>6. l = b + n - spent
  <2>1. s \div DayHours + last = Day(s, last)
    BY DEF Day
  <2> QED BY Zenon, <2>1 DEF LocalDeadline
<1> HIDE DEF T, last, l
<1>7. spent \in Nat /\ spent < IF n > 0 THEN n ELSE 1
  BY <1>3, <1>4, SpentBefore DEF T
<1>8. spent = Business(c, s, From(s, last))
  BY <1>3, SpentFound
<1>9. From(s, last) \in Int /\ s <= From(s, last)
  BY <1>3, FromOrder
<1>10. /\ available \in Nat
       /\ b \in Int /\ s <= b /\ From(s, last) <= b
       /\ \A h \in b .. b + available - 1 : Deadlines!BusinessHour(c, h)
       /\ \A x \in b .. b + available : Business(c, From(s, last), x) = x - b
  BY <1>3, <1>5, DayCounted
<1> HIDE DEF spent, available, b
<1>11. l \in Int /\ l \in b .. b + available /\ l - b = n - spent
  BY <1>5, <1>6, <1>7, <1>10
<1>12. Business(c, s, l) = n
  <2>1. Business(c, s, l) = Business(c, s, From(s, last)) + Business(c, From(s, last), l)
    BY <1>9, <1>10, <1>11, BusinessAdds
  <2> QED BY <1>7, <1>8, <1>10, <1>11, <2>1
<1>13. n > 0 => s < l /\ Deadlines!BusinessHour(c, l - 1)
  <2>1. n > 0 => s < l /\ l - 1 \in b .. b + available - 1
    BY <1>7, <1>10, <1>11
  <2> QED BY <1>10, <2>1
<1>14. n = 0 => Deadlines!BusinessHour(c, l)
  <2>1. n = 0 => l \in b .. b + available - 1
    BY <1>5, <1>7, <1>10, <1>11
  <2> QED BY <1>10, <2>1
<1>15. s <= l
  BY <1>10, <1>11
<1> QED BY <1>11, <1>12, <1>13, <1>14, <1>15 DEF l

\* There is no deadline only when the horizon has too few business hours.
LEMMA NoDeadline ==
    ASSUME DayHours \in Nat \ {0}, Horizon \in Nat, NEW c \in Deadlines!Calendars, NEW s \in Int,
           NEW n \in Nat, Ends(c, s, n) = {}
    PROVE  Business(c, s, From(s, Horizon)) < IF n > 0 THEN n ELSE 1
<1>1. Horizon \in 0 .. Horizon /\ \A i \in 0 .. Horizon - 1 : i \notin Ends(c, s, n)
  OBVIOUS
<1>2. Spent(c, s)[Horizon] < IF n > 0 THEN n ELSE 1
  BY <1>1, SpentBefore
<1>3. Spent(c, s)[Horizon] = Business(c, s, From(s, Horizon))
  BY <1>1, SpentFound
<1> QED BY <1>2, <1>3

----------------------------------------------------------------------------
\* The hours a partner can work, counted on the clock of the zone.
WorkedHours(c, u, d) == {h \in u .. d - 1 : Deadlines!BusinessHour(c, Deadlines!Local(c, h))}

\* The instance counts as FiniteSets does.
LEMMA SameHours == \A S : Deadlines!Cardinality(S) = Cardinality(S)
BY Zenon DEF Deadlines!Cardinality, Cardinality

LEMMA ClockType ==
    ASSUME Changes \subseteq Nat, NEW c \in Deadlines!Calendars
    PROVE  /\ c.change \in Nat /\ c.by \in {-1, 0, 1}
           /\ \A u \in Int : Deadlines!Local(c, u) = IF u < c.change THEN u ELSE u + c.by
           /\ \A l \in Int : Deadlines!Utc(c, l) = IF c.by = 1
                                THEN IF l <= c.change THEN l ELSE l - 1
                                ELSE IF l < c.change THEN l ELSE l - c.by
<1>1. c.change \in Nat /\ c.by \in {-1, 0, 1}
  BY DEF Deadlines!Calendars
<1>2. Deadlines!Max({c.by, 0}) = IF c.by = 1 THEN 1 ELSE 0
  <2>1. c.by \in Int /\ 0 \in Int
    BY <1>1
  <2>2. Deadlines!Max({c.by, 0}) = IF c.by >= 0 THEN c.by ELSE 0
    BY <2>1, Greater
  <2> QED BY <1>1, <2>2
<1>3. \A u \in Int : Deadlines!Local(c, u) = IF u < c.change THEN u ELSE u + c.by
  BY DEF Deadlines!Local
<1>4. \A l \in Int : Deadlines!Utc(c, l) = IF c.by = 1
                                THEN IF l <= c.change THEN l ELSE l - 1
                                ELSE IF l < c.change THEN l ELSE l - c.by
  BY <1>1, <1>2 DEF Deadlines!Utc
<1> QED BY <1>1, <1>3, <1>4

\* Before the change the clock is that of the instants, after it it is ahead.
LEMMA WorkedBefore ==
    ASSUME Changes \subseteq Nat, NEW c \in Deadlines!Calendars, NEW u \in Int, NEW d \in Int,
           d <= c.change
    PROVE  Deadlines!Worked(c, u, d) = Business(c, u, d)
<1>1. \A h \in u .. d - 1 : Deadlines!Local(c, h) = h
  BY ClockType
<1>2. WorkedHours(c, u, d) = BusinessHours(c, u, d)
  BY <1>1 DEF WorkedHours, BusinessHours
<1> QED BY Zenon, <1>2, SameHours DEF Deadlines!Worked, WorkedHours, Business

LEMMA WorkedAfter ==
    ASSUME Changes \subseteq Nat, NEW c \in Deadlines!Calendars, NEW u \in Int, NEW d \in Int,
           c.change <= u
    PROVE  Deadlines!Worked(c, u, d) = Business(c, u + c.by, d + c.by)
<1> DEFINE S == WorkedHours(c, u, d)
           T == BusinessHours(c, u + c.by, d + c.by)
           shift == [h \in S |-> h + c.by]
<1>1. c.by \in Int /\ \A h \in u .. d - 1 : Deadlines!Local(c, h) = h + c.by
  BY ClockType
<1>2. shift \in Bijection(S, T)
  <2>1. \A h \in S : h \in Int /\ shift[h] \in T
    BY <1>1 DEF WorkedHours, BusinessHours
  <2>2. \A h, k \in S : shift[h] = shift[k] => h = k
    BY <1>1, <2>1
  <2>3. ASSUME NEW l \in T PROVE \E h \in S : shift[h] = l
    <3>1. l \in Int /\ u + c.by <= l /\ l <= d + c.by - 1 /\ Deadlines!BusinessHour(c, l)
      BY <1>1 DEF BusinessHours
    <3>2. l - c.by \in u .. d - 1 /\ (l - c.by) + c.by = l
      BY <1>1, <3>1
    <3>3. l - c.by \in S
      BY <1>1, <3>1, <3>2 DEF WorkedHours
    <3> QED BY <3>2, <3>3
  <2> HIDE DEF S, T
  <2>4. shift \in [S -> T]
    BY <2>1
  <2> HIDE DEF shift
  <2> QED BY <2>2, <2>3, <2>4 DEF Bijection, Injection, Surjection, IsInjective
<1>3. IsFiniteSet(S)
  <2>1. S \subseteq u .. d - 1
    BY DEF WorkedHours
  <2> QED BY <2>1, FS_Interval, FS_Subset
<1>4. Cardinality(S) = Cardinality(T)
  <2> HIDE DEF S, T, shift
  <2> QED BY <1>2, <1>3, FS_Bijection DEF ExistsBijection
<1> QED BY Zenon, <1>4, SameHours DEF Deadlines!Worked, WorkedHours, Business

LEMMA WorkedAcross ==
    ASSUME Changes \subseteq Nat, NEW c \in Deadlines!Calendars, NEW u \in Int, NEW d \in Int,
           u <= c.change, c.change <= d
    PROVE  Deadlines!Worked(c, u, d) = Business(c, u, c.change) + Business(c, c.change + c.by, d + c.by)
<1> DEFINE x == c.change
           S == WorkedHours(c, u, x)
           T == WorkedHours(c, x, d)
<1>1. x \in Int
  BY ClockType
<1>2. WorkedHours(c, u, d) = S \cup T /\ S \cap T = {}
  BY <1>1 DEF WorkedHours
<1>3. IsFiniteSet(S) /\ IsFiniteSet(T)
  <2>1. S \subseteq u .. x - 1 /\ T \subseteq x .. d - 1
    BY DEF WorkedHours
  <2>2. IsFiniteSet(u .. x - 1) /\ IsFiniteSet(x .. d - 1)
    BY <1>1, FS_Interval
  <2> QED BY <2>1, <2>2, FS_Subset
<1>4. Cardinality(S) = Deadlines!Worked(c, u, x) /\ Cardinality(T) = Deadlines!Worked(c, x, d)
       /\ Cardinality(WorkedHours(c, u, d)) = Deadlines!Worked(c, u, d)
  BY Zenon, SameHours DEF Deadlines!Worked, WorkedHours
<1>5. Deadlines!Worked(c, u, x) = Business(c, u, x)
  BY <1>1, WorkedBefore
<1>6. Deadlines!Worked(c, x, d) = Business(c, x + c.by, d + c.by)
  BY <1>1, WorkedAfter
<1> HIDE DEF S, T
<1>7. Cardinality(S \cup T) = Cardinality(S) + Cardinality(T) - Cardinality({})
  BY <1>2, <1>3, FS_Union
<1>8. Cardinality({}) = 0 /\ Cardinality(S) \in Nat /\ Cardinality(T) \in Nat
  BY <1>3, FS_EmptySet, FS_CardinalityType
<1> QED BY <1>2, <1>4, <1>5, <1>6, <1>7, <1>8 DEF x

LEMMA OneHour ==
    ASSUME NEW c, NEW h \in Int
    PROVE  Business(c, h, h + 1) = IF Deadlines!BusinessHour(c, h) THEN 1 ELSE 0
<1>1. \A l \in h .. (h + 1) - 1 : l = h
  OBVIOUS
<1>2. CASE Deadlines!BusinessHour(c, h)
  <2>1. Business(c, h, h + 1) = (h + 1) - h
    BY <1>1, <1>2, BusinessAll
  <2> QED BY <1>2, <2>1
<1>3. CASE ~Deadlines!BusinessHour(c, h)
  <2>1. Business(c, h, h + 1) = 0
    BY <1>1, <1>3, BusinessNone
  <2> QED BY <1>3, <2>1
<1> QED BY <1>2, <1>3

\* What is promised of the deadline d of a stage of n hours that starts at u.
Promised(c, u, n, d) ==
    LET worked == Deadlines!Worked(c, u, d)
    IN  IF c.by # 0 /\ Deadlines!BusinessHour(c, Deadlines!ChangedHour(c))
        THEN worked - n \in -1 .. 1
        ELSE /\ worked = n /\ d >= u
             /\ IF n > 0 THEN Deadlines!BusinessHour(c, Deadlines!Local(c, d - 1))
                         ELSE Deadlines!BusinessHour(c, Deadlines!Local(c, d))

\* The deadline of the local clock, told as an instant.
LEMMA ClockRight ==
    ASSUME Changes \subseteq Nat, NEW c \in Deadlines!Calendars, NEW u \in Nat, NEW n \in Nat,
           NEW l \in Int, Deadlines!Local(c, u) <= l, Business(c, Deadlines!Local(c, u), l) = n,
           n > 0 => Deadlines!Local(c, u) < l /\ Deadlines!BusinessHour(c, l - 1),
           n = 0 => Deadlines!BusinessHour(c, l)
    PROVE  Promised(c, u, n, Deadlines!Utc(c, l))
<1> DEFINE x == c.change
           by == c.by
           s == Deadlines!Local(c, u)
           d == Deadlines!Utc(c, l)
           hour(h) == Deadlines!BusinessHour(c, h)
           local(h) == Deadlines!Local(c, h)
           worked == Deadlines!Worked(c, u, d)
           changed == Deadlines!ChangedHour(c)
<1>1. /\ x \in Nat /\ by \in {-1, 0, 1}
      /\ \A h \in Int : local(h) = IF h < x THEN h ELSE h + by
      /\ d = IF by = 1 THEN IF l <= x THEN l ELSE l - 1 ELSE IF l < x THEN l ELSE l - by
  BY ClockType
<1>2. s \in Int /\ d \in Int /\ s = IF u < x THEN u ELSE u + by
  BY <1>1
<1>3. changed = IF by = 1 THEN x ELSE x - 1
  BY DEF Deadlines!ChangedHour
<1>4. /\ s <= l /\ Business(c, s, l) = n
      /\ n > 0 => s < l /\ hour(l - 1)
      /\ n = 0 => hour(l)
  OBVIOUS
<1>5. \A a, b \in Int : Business(c, a, b) \in Nat
  BY BusinessType
<1>6. \A a, m, b \in Int : a <= m /\ m <= b => Business(c, a, b) = Business(c, a, m) + Business(c, m, b)
  BY BusinessAdds
<1>7. \A h \in Int : Business(c, h, h + 1) = IF hour(h) THEN 1 ELSE 0
  BY OneHour
<1>8. d <= x => worked = Business(c, u, d)
  BY <1>1, <1>2, WorkedBefore
<1>9. x <= u => worked = Business(c, u + by, d + by)
  BY <1>1, <1>2, WorkedAfter
<1>10. u <= x /\ x <= d => worked = Business(c, u, x) + Business(c, x + by, d + by)
  BY <1>1, <1>2, WorkedAcross
<1>14. u \in Int /\ x \in Int /\ x + 1 \in Int /\ x - 1 \in Int /\ l \in Int /\ d \in Int
  BY <1>1, <1>2
<1> SUFFICES IF by # 0 /\ hour(changed) THEN worked - n \in -1 .. 1
             ELSE worked = n /\ d >= u /\ IF n > 0 THEN hour(local(d - 1)) ELSE hour(local(d))
  BY DEF Promised
<1> HIDE DEF x, by, s, d, hour, local, worked, changed
<1>11. CASE by = 1
  <2>1. CASE u < x /\ l <= x
    <3>1. d = l /\ s = u /\ worked = n
      BY <1>1, <1>2, <1>4, <1>8, <1>11, <2>1
    <3>2. local(d - 1) = l - 1 /\ (l # x => local(d) = l)
      BY <1>1, <1>2, <1>11, <2>1, <3>1
    <3> QED BY <1>2, <1>3, <1>4, <1>11, <2>1, <3>1, <3>2
  <2>2. CASE u < x /\ x < l
    <3>1. d = l - 1 /\ s = u /\ worked = Business(c, u, x) + Business(c, x + 1, l)
      <4>1. d = l - 1 /\ s = u /\ x <= d /\ d + 1 = l
        BY <1>1, <1>2, <1>11, <2>2
      <4> QED BY <1>10, <1>11, <1>14, <2>2, <4>1
    <3>2. n = Business(c, u, x) + Business(c, x, x + 1) + Business(c, x + 1, l)
      <4>1. Business(c, u, l) = Business(c, u, x) + Business(c, x, l)
        BY <1>1, <1>6, <2>2
      <4>2. Business(c, x, l) = Business(c, x, x + 1) + Business(c, x + 1, l)
        <5>1. x \in Int /\ x + 1 \in Int /\ x <= x + 1 /\ x + 1 <= l
          BY <1>1, <2>2
        <5> QED BY <1>6, <5>1
      <4>3. Business(c, u, x) \in Nat /\ Business(c, x, x + 1) \in Nat /\ Business(c, x + 1, l) \in Nat
        BY <1>5, <1>14
      <4> QED BY <1>4, <3>1, <4>1, <4>2, <4>3
    <3>3. Business(c, u, x) \in Nat /\ Business(c, x + 1, l) \in Nat
      BY <1>5, <1>14
    <3>4. Business(c, x, x + 1) = IF hour(x) THEN 1 ELSE 0
      BY <1>1, <1>7
    <3>5. worked = n - (IF hour(x) THEN 1 ELSE 0)
      BY <3>1, <3>2, <3>3, <3>4
    <3>6. local(d) = l /\ (x + 1 < l => local(d - 1) = l - 1)
      BY <1>1, <1>2, <1>11, <2>2, <3>1
    <3>7. CASE hour(x)
      BY <1>3, <1>11, <3>5, <3>7
    <3>8. CASE ~hour(x)
      <4>1. n > 0 => x + 1 < l
        <5>1. l = x + 1 => l - 1 = x
          BY <1>1
        <5> QED BY <1>1, <1>4, <2>2, <3>8, <5>1
      <4>2. worked = n /\ d >= u
        BY <1>1, <2>2, <3>1, <3>5, <3>8
      <4> QED BY <1>3, <1>4, <1>11, <3>6, <3>8, <4>1, <4>2
    <3> QED BY <3>7, <3>8
  <2>3. CASE x <= u
    <3>1. s = u + 1 /\ x < l /\ d = l - 1 /\ d + 1 = l /\ d >= u
      BY <1>1, <1>2, <1>4, <1>11, <2>3
    <3>2. worked = n
      BY <1>4, <1>9, <1>11, <2>3, <3>1
    <3>3. local(d) = l /\ (n > 0 => local(d - 1) = l - 1)
      BY <1>1, <1>2, <1>4, <1>11, <2>3, <3>1
    <3> QED BY <1>4, <3>1, <3>2, <3>3
  <2> QED BY <1>1, <2>1, <2>2, <2>3
<1>12. CASE by = -1
  <2>1. CASE u < x /\ l < x
    <3>1. d = l /\ s = u /\ worked = n /\ d >= u
      BY <1>1, <1>2, <1>4, <1>8, <1>12, <2>1
    <3>2. local(d - 1) = l - 1 /\ local(d) = l
      BY <1>1, <1>2, <2>1, <3>1
    <3> QED BY <1>4, <3>1, <3>2
  <2>2. CASE u < x /\ x <= l
    <3>1. d = l + 1 /\ s = u /\ worked = Business(c, u, x) + Business(c, x - 1, l)
      <4>1. d = l + 1 /\ s = u /\ x <= d /\ d + by = l /\ x + by = x - 1
        BY <1>1, <1>2, <1>12, <2>2
      <4> QED BY <1>10, <1>14, <2>2, <4>1
    <3>2. n = Business(c, u, x) + Business(c, x, l)
      BY <1>1, <1>4, <1>6, <2>2, <3>1
    <3>3. Business(c, x - 1, l) = Business(c, x - 1, x) + Business(c, x, l)
      <4>1. x \in Int /\ x - 1 \in Int /\ x - 1 <= x
        BY <1>1
      <4> QED BY <1>6, <2>2, <4>1
    <3>4. Business(c, x - 1, x) = IF hour(x - 1) THEN 1 ELSE 0
      <4>1. x - 1 \in Int /\ (x - 1) + 1 = x
        BY <1>1
      <4> QED BY <1>7, <4>1
    <3>5. Business(c, u, x) \in Nat /\ Business(c, x, l) \in Nat
      BY <1>5, <1>14
    <3>6. worked = n + (IF hour(x - 1) THEN 1 ELSE 0)
      BY <3>1, <3>2, <3>3, <3>4, <3>5
    <3>7. local(d) = l /\ local(d - 1) = l - 1
      BY <1>1, <1>2, <1>12, <2>2, <3>1
    <3>8. CASE hour(x - 1)
      BY <1>3, <1>12, <3>6, <3>8
    <3>9. CASE ~hour(x - 1)
      BY <1>1, <1>3, <1>4, <1>12, <2>2, <3>1, <3>6, <3>7, <3>9
    <3> QED BY <3>8, <3>9
  <2>3. CASE x <= u /\ l < x
    <3>1. s = u - 1 /\ l = s /\ u = x /\ d = x - 1 /\ l = x - 1
      BY <1>1, <1>2, <1>4, <1>12, <2>3
    <3>2. n = 0 /\ hour(x - 1)
      BY <1>4, <3>1
    <3>3. worked = 0
      <4>1. \A h \in u .. d - 1 : ~Deadlines!BusinessHour(c, h)
        BY <1>1, <3>1
      <4>2. Business(c, u, d) = 0
        BY <1>2, <4>1, BusinessNone
      <4> QED BY <1>1, <1>8, <3>1, <4>2
    <3> QED BY <1>3, <1>12, <3>2, <3>3
  <2>4. CASE x <= u /\ x <= l
    <3>1. s = u - 1 /\ d = l + 1 /\ d + by = l /\ u + by = s /\ d >= u
      BY <1>1, <1>2, <1>4, <1>12, <2>4
    <3>2. worked = n
      BY <1>4, <1>9, <2>4, <3>1
    <3>3. local(d) = l
      BY <1>1, <1>2, <1>12, <2>4, <3>1
    <3>4. local(d - 1) = l - 1
      BY <1>1, <1>2, <1>12, <2>4, <3>1
    <3> QED BY <1>4, <3>1, <3>2, <3>3, <3>4
  <2> QED BY <1>1, <2>1, <2>2, <2>3, <2>4
<1>13. CASE by = 0
  <2>1. d = l /\ s = u /\ d >= u /\ \A h \in Int : local(h) = h
    BY <1>1, <1>2, <1>4, <1>13
  <2>2. worked = Business(c, u, d)
    <3>1. CASE d <= x
      BY <1>8, <3>1
    <3>2. CASE x <= u
      <4>1. u + by = u /\ d + by = d
        BY <1>2, <1>13
      <4> QED BY <1>9, <3>2, <4>1
    <3>3. CASE u <= x /\ x <= d
      <4>1. x + by = x /\ d + by = d
        BY <1>1, <1>2, <1>13
      <4> QED BY <1>1, <1>2, <1>6, <1>10, <3>3, <4>1
    <3> QED BY <1>1, <1>2, <3>1, <3>2, <3>3
  <2> QED BY <1>2, <1>4, <1>13, <2>1, <2>2
<1> QED BY <1>1, <1>11, <1>12, <1>13

LEMMA DeadlinesKept ==
    ASSUME Deadlines!SlaAssumption, input \subseteq Deadlines!Questions
    PROVE  Deadlines!DeadlinesRight
<1> SUFFICES ASSUME NEW q \in input, q.of = "deadline",
                    Deadlines!Valid(q.calendar), q.amount >= 0
             PROVE  LET c == q.calendar
                        deadlines == Deadlines!AddBusinessHours(c, q.start, q.amount)
                    IN  /\ deadlines = {} => Deadlines!Reachable(c, Deadlines!Local(c, q.start))
                                               < Deadlines!Max({q.amount, 1})
                        /\ \A d \in deadlines : Promised(c, q.start, q.amount, d)
  BY Zenon DEF Deadlines!DeadlinesRight, Promised
<1> DEFINE c == q.calendar
           u == q.start
           n == q.amount
           s == Deadlines!Local(c, u)
<1>1. /\ DayHours \in Nat \ {0} /\ Horizon \in Nat \ {0} /\ Starts \subseteq Nat
      /\ MaxAmount \in Nat /\ Changes \subseteq Nat
  BY DEF Deadlines!SlaAssumption
<1>2. c \in Deadlines!Calendars /\ u \in Nat /\ n \in Nat
  <2>1. q \in [of : {"deadline"}, calendar : Deadlines!Calendars, start : Starts, amount : -1 .. MaxAmount]
    BY DEF Deadlines!Questions
  <2>2. c \in Deadlines!Calendars /\ u \in Starts /\ n \in -1 .. MaxAmount
    BY <2>1
  <2>3. n \in Int /\ n >= 0
    BY <1>1, <2>2
  <2> HIDE DEF c, u, n, s
  <2>4. u \in Nat
    BY Zenon, <1>1, <2>2
  <2>5. n \in Nat
    BY <2>3
  <2> QED BY <2>2, <2>4, <2>5
<1>3. s \in Int
  BY <1>1, <1>2, ClockType
<1>4. Deadlines!AddBusinessHours(c, u, n)
        = IF Ends(c, s, n) = {} THEN {} ELSE {Deadlines!Utc(c, LocalDeadline(c, s, n))}
  <2>1. Deadlines!Valid(c) /\ ~(n < 0)
    BY <1>2
  <2> HIDE DEF c, u, n
  <2> QED BY Zenon, <2>1, AddUnfolded DEF s
<1>5. CASE Ends(c, s, n) = {}
  <2>1. Deadlines!Reachable(c, s) = Business(c, s, From(s, Horizon))
    <3>1. Horizon # 0
      BY <1>1
    <3>2. From(s, Horizon) = (s \div DayHours + Horizon) * DayHours
      BY Zenon, <3>1 DEF From
    <3> HIDE DEF c, s
    <3> QED BY Zenon, <3>2, SameHours DEF Deadlines!Reachable, Business, BusinessHours
  <2>2. Business(c, s, From(s, Horizon)) < IF n > 0 THEN n ELSE 1
    <3> HIDE DEF c, s, n
    <3> QED BY <1>1, <1>2, <1>3, <1>5, NoDeadline
  <2>3. Deadlines!Max({n, 1}) = IF n >= 1 THEN n ELSE 1
    BY <1>2, Greater
  <2> HIDE DEF c, u, n, s
  <2>4. Deadlines!Reachable(c, s) < Deadlines!Max({n, 1})
    BY <1>2, <2>1, <2>2, <2>3
  <2> QED BY <1>4, <1>5, <2>4 DEF c, u, n, s
<1>6. CASE Ends(c, s, n) # {}
  <2> DEFINE l == LocalDeadline(c, s, n)
  <2>1. /\ l \in Int /\ s <= l /\ Business(c, s, l) = n
        /\ n > 0 => s < l /\ Deadlines!BusinessHour(c, l - 1)
        /\ n = 0 => Deadlines!BusinessHour(c, l)
    <3> HIDE DEF c, s, n
    <3> QED BY <1>1, <1>2, <1>3, <1>6, DeadlineFound
  <2>2. Promised(c, u, n, Deadlines!Utc(c, l))
    <3> HIDE DEF c, u, n, l
    <3> QED BY <1>1, <1>2, <2>1, ClockRight DEF s
  <2> HIDE DEF c, u, n, s, l
  <2>3. Deadlines!AddBusinessHours(c, u, n) = {Deadlines!Utc(c, l)}
    BY <1>4, <1>6 DEF l
  <2> QED BY <2>2, <2>3 DEF c, u, n, s
<1> QED BY <1>5, <1>6


----------------------------------------------------------------------------
(***************************************************************************)
(* Stages: the state that is computed of a stage when it is read, for any  *)
(* instants of its deadline, start, pauses and reading.                    *)
(***************************************************************************)
\* The hours of one pause of a column.
PauseHours(column, i) ==
    IF Deadlines!Len(column.paused[i]) = 2
    THEN Deadlines!Max({0, column.paused[i][2] - column.paused[i][1]}) ELSE 0

LEMMA PauseType ==
    ASSUME Instants \subseteq Nat, NEW column \in Deadlines!Columns, NEW i \in DOMAIN column.paused
    PROVE  PauseHours(column, i) \in Nat
<1>1. \A d \in Int : Deadlines!Max({0, d}) \in Nat
  <2> TAKE d \in Int
  <2>1. \E x \in {0, d} : \A y \in {0, d} : x >= y
    OBVIOUS
  <2>2. Deadlines!Max({0, d}) \in {0, d} /\ \A y \in {0, d} : Deadlines!Max({0, d}) >= y
    BY <2>1 DEF Deadlines!Max
  <2> QED BY <2>2
<1>2. column.paused[i] = <<>> \/ column.paused[i] = <<0, 1>> \/ column.paused[i] \in Instants \X Instants
  BY DEF Deadlines!Columns, Deadlines!Pauses
<1>3. CASE column.paused[i] = <<>>
  BY <1>3 DEF PauseHours
<1>4. CASE column.paused[i] = <<0, 1>> \/ column.paused[i] \in Instants \X Instants
  <2>1. \A p \in Instants \X Instants : p[1] \in Instants /\ p[2] \in Instants
    OBVIOUS
  <2>2. column.paused[i][2] - column.paused[i][1] \in Int
    <3>1. CASE column.paused[i] = <<0, 1>>
      BY <3>1
    <3>2. CASE column.paused[i] \in Instants \X Instants
      <4>1. column.paused[i][1] \in Instants /\ column.paused[i][2] \in Instants
        BY Zenon, <2>1, <3>2
      <4>2. \A a, b \in Instants : b - a \in Int
        OBVIOUS
      <4> QED BY Zenon, <4>1, <4>2
    <3> QED BY <1>4, <3>1, <3>2
  <2> QED BY <1>1, <2>2 DEF PauseHours
<1> QED BY <1>2, <1>3, <1>4

\* The pauses of a column add up: the recursion of the fold has a solution, the sum of
\* the shares, and whichever is chosen is made of what the pauses have.
LEMMA PausedType ==
    ASSUME Instants \subseteq Nat, NEW column \in Deadlines!Columns
    PROVE  /\ Deadlines!PausedHours(column) \in Nat
           /\ column.paused = <<>> => Deadlines!PausedHours(column) = 0
<1> DEFINE D == DOMAIN column.paused
           Hours(i) == PauseHours(column, i)
           Share(s, i) == IF i \in s THEN Hours(i) ELSE 0
           Step(f) == [s \in SUBSET D |->
                        IF s = {} THEN 0
                        ELSE LET x == CHOOSE x \in s : TRUE IN f[s \ {x}] + Hours(x)]
           iter == CHOOSE f : f = Step(f)
           sum == [s \in SUBSET D |-> Share(s, 1) + Share(s, 2)]
<1>1. Deadlines!PausedHours(column) = iter[D]
  BY Zenon DEF Deadlines!PausedHours, Deadlines!FoldSet, Deadlines!MapThenFoldSet, PauseHours
<1>2. D \subseteq {1, 2} /\ (column.paused = <<>> => D = {})
  BY DEF Deadlines!Columns
<1>3. \A i \in D : Hours(i) \in Nat
  BY PauseType
<1> HIDE DEF Hours, D
<1>4. \A s \in SUBSET D : \A i \in {1, 2} : Share(s, i) \in Nat
  BY <1>3
<1>5. ASSUME NEW s \in SUBSET D, NEW x \in s
      PROVE  Share(s, 1) + Share(s, 2) = Share(s \ {x}, 1) + Share(s \ {x}, 2) + Hours(x)
  <2>1. CASE x = 1
    BY <1>2, <1>3, <1>4, <2>1
  <2>2. CASE x = 2
    BY <1>2, <1>3, <1>4, <2>2
  <2> QED BY <1>2, <2>1, <2>2
<1>6. sum = Step(sum)
  <2>1. ASSUME NEW s \in SUBSET D PROVE sum[s] = Step(sum)[s]
    <3>1. CASE s = {}
      BY <3>1
    <3>2. CASE s # {}
      <4>1. PICK x \in s : x = CHOOSE y \in s : TRUE
        BY <3>2
      <4>2. s \ {x} \in SUBSET D
        OBVIOUS
      <4>3. Step(sum)[s] = sum[s \ {x}] + Hours(x)
        BY <3>2, <4>1
      <4>4. sum[s \ {x}] = Share(s \ {x}, 1) + Share(s \ {x}, 2)
        BY <4>2
      <4> QED BY <1>5, <4>3, <4>4
    <3> QED BY <3>1, <3>2
  <2> QED BY <2>1
<1>7. iter = Step(iter)
  <2> HIDE DEF sum, Step
  <2> QED BY <1>6
<1> HIDE DEF iter
<1>8. iter[{}] = 0
  BY <1>7
<1>9. \A s \in SUBSET D : s # {} => \E x \in s : iter[s] = iter[s \ {x}] + Hours(x)
  <2> TAKE s \in SUBSET D
  <2> SUFFICES ASSUME s # {} PROVE \E x \in s : iter[s] = iter[s \ {x}] + Hours(x)
    OBVIOUS
  <2>1. PICK x \in s : x = CHOOSE y \in s : TRUE
    OBVIOUS
  <2>2. Step(iter)[s] = iter[s \ {x}] + Hours(x)
    BY <2>1
  <2> QED BY <1>7, <2>1, <2>2
<1>10. \A i \in D : iter[{i}] \in Nat
  <2> TAKE i \in D
  <2>1. PICK x \in {i} : iter[{i}] = iter[{i} \ {x}] + Hours(x)
    BY <1>9
  <2>2. {i} \ {x} = {} /\ x = i
    OBVIOUS
  <2> QED BY <1>3, <1>8, <2>1, <2>2
<1>11. D # {} => iter[D] \in Nat
  <2> SUFFICES ASSUME D # {} PROVE iter[D] \in Nat
    OBVIOUS
  <2>1. PICK x \in D : iter[D] = iter[D \ {x}] + Hours(x)
    BY <1>9
  <2>2. PICK rest : rest = D \ {x}
    OBVIOUS
  <2>3. rest = {} \/ \E i \in D : rest = {i}
    BY <1>2, <2>2
  <2>4. iter[rest] \in Nat
    <3>1. CASE rest = {}
      <4>1. iter[rest] = 0
        BY Zenon, <1>8, <3>1
      <4> QED BY <4>1
    <3>2. CASE \E i \in D : rest = {i}
      BY Zenon, <1>10, <3>2
    <3> QED BY <2>3, <3>1, <3>2
  <2>5. iter[D] = iter[rest] + Hours(x)
    BY <2>1, <2>2
  <2> QED BY <1>3, <2>4, <2>5
<1> HIDE DEF Step, sum
<1>12. iter[D] \in Nat /\ (D = {} => iter[D] = 0)
  <2>1. CASE D = {}
    <3>1. iter[D] = 0
      BY <1>8, <2>1
    <3> QED BY <3>1
  <2> QED BY <1>11, <2>1
<1> QED BY <1>1, <1>2, <1>12

\* A later reading and a pause taken away, against the deadline that pauses have moved.
LEMMA LaterReading ==
    ASSUME Deadlines!SlaAssumption, NEW column \in Deadlines!Columns, NEW now \in Instants
    PROVE  LET states == {"RAISES", "ON_TRACK", "AT_RISK", "BREACHED"}
               state  == Deadlines!Evaluate(column, now)
               later  == Deadlines!Evaluate(column, now + 1)
               bare   == Deadlines!Evaluate([column EXCEPT !.paused = <<>>], now)
           IN  /\ state \in states /\ later \in states /\ bare \in states
               /\ Deadlines!Severity[state] <= Deadlines!Severity[later]
               /\ Deadlines!Severity[state] <= Deadlines!Severity[bare]
               /\ state = "RAISES" \/ later = "RAISES" => column.garbled # {}
               /\ state = "BREACHED" => /\ "deadline" \notin column.garbled
                                        /\ \E d \in column.deadline : d < now + 1
<1> DEFINE bare == [column EXCEPT !.paused = <<>>]
           hours == Deadlines!PausedHours(column)
           start(d) == Deadlines!StageStart(column, d)
           late == "started" \in column.garbled
<1>2. bare \in Deadlines!Columns /\ bare.paused = <<>> /\ bare.deadline = column.deadline
      /\ bare.started = column.started /\ bare.garbled = column.garbled
  BY DEF Deadlines!Columns
<1>3. Instants \subseteq Nat /\ DayHours \in Nat
  BY DEF Deadlines!SlaAssumption
<1>4. hours \in Nat /\ Deadlines!PausedHours(bare) = 0
  BY <1>2, <1>3, PausedType
<1>5. CASE "deadline" \in column.garbled
  BY <1>2, <1>5 DEF Deadlines!Evaluate, Deadlines!Severity
<1>6. CASE "deadline" \notin column.garbled /\ column.deadline = {}
  BY <1>2, <1>6 DEF Deadlines!Evaluate, Deadlines!Severity
<1>7. CASE "deadline" \notin column.garbled /\ column.deadline # {}
  <2>1. PICK d \in Instants : column.deadline = {d}
    BY <1>7 DEF Deadlines!Columns
  <2>2. start(d) \in Int /\ Deadlines!StageStart(bare, d) = start(d)
    <3>1. column.started = {} \/ \E i \in Instants : column.started = {i}
      BY DEF Deadlines!Columns
    <3> QED BY <1>2, <1>3, <3>1 DEF Deadlines!StageStart
  <2> DEFINE state(effective, t) ==
               IF t >= effective THEN "BREACHED"
               ELSE IF late THEN "RAISES"
               ELSE IF effective - start(d) > 0 /\ 5 * (t - start(d)) >= 4 * (effective - start(d))
                    THEN "AT_RISK" ELSE "ON_TRACK"
  <2>3. \A t : Deadlines!Evaluate(column, t) = state(d + hours, t)
    BY <1>7, <2>1 DEF Deadlines!Evaluate
  <2>4. \A t : Deadlines!Evaluate(bare, t) = state(d, t)
    <3>1. (CHOOSE x \in bare.deadline : TRUE) = d /\ bare.deadline # {}
      BY <1>2, <2>1
    <3>2. d + Deadlines!PausedHours(bare) = d
      BY <1>3, <1>4
    <3>3. "deadline" \notin bare.garbled /\ ("started" \in bare.garbled <=> late)
      BY <1>2, <1>7
    <3> HIDE DEF bare, late
    <3> QED BY <2>2, <3>1, <3>2, <3>3 DEF Deadlines!Evaluate
  <2>5. now \in Nat /\ d \in Nat
    BY <1>3
  <2> DEFINE s == start(d)
  <2>6. /\ Deadlines!Severity[state(d + hours, now)] <= Deadlines!Severity[state(d + hours, now + 1)]
        /\ Deadlines!Severity[state(d + hours, now)] <= Deadlines!Severity[state(d, now)]
    <3>1. s \in Int
      BY <2>2
    <3> HIDE DEF s, hours, late
    <3> QED BY <1>4, <2>5, <3>1 DEF Deadlines!Severity, s
  <2>7. state(d + hours, now) = "BREACHED" => d < now + 1
    <3> HIDE DEF hours, late
    <3> QED BY <1>4, <2>5
  <2>8. \A e, t : /\ state(e, t) \in {"RAISES", "ON_TRACK", "AT_RISK", "BREACHED"}
                  /\ state(e, t) = "RAISES" => column.garbled # {}
    OBVIOUS
  <2> HIDE DEF state, bare
  <2> QED BY <1>7, <2>1, <2>3, <2>4, <2>6, <2>7, <2>8 DEF bare
<1> QED BY <1>5, <1>6, <1>7

LEMMA StatesRight ==
    ASSUME Deadlines!SlaAssumption, input \subseteq Deadlines!Questions
    PROVE  Deadlines!StatesSound
<1> DEFINE StageKept(q, now) ==
             LET column == q.column
                 rows   == {column} \cup q.beside
                 state  == Deadlines!Evaluate(column, now)
             IN  /\ \A before, after \in BOOLEAN : (before => after) =>
                      Deadlines!NoBetter(Deadlines!AcceptState(column, before, now),
                                         Deadlines!AcceptState(column, after, now + 1))
                 /\ \A before, after, done, finished \in BOOLEAN :
                      (before => after) /\ (done => finished) /\ column.garbled = {} =>
                        Deadlines!NoBetter(Deadlines!PerformState(column, before, done, now),
                                           Deadlines!PerformState(column, after, finished, now + 1))
                 /\ Deadlines!Severity[state]
                      <= Deadlines!Severity[Deadlines!Evaluate([column EXCEPT !.paused = <<>>], now)]
                 /\ state = "RAISES" => column.garbled # {}
                 /\ state = "BREACHED" =>
                      IF q.beside # {} THEN Deadlines!Overdue(rows, now + 1) = {}
                      ELSE \E found \in Deadlines!Overdue(rows, now + 1) : column \in found
<1> SUFFICES ASSUME NEW q \in input, q.of = "stage", NEW now \in Instants PROVE StageKept(q, now)
  BY Zenon DEF Deadlines!StatesSound
<1> DEFINE column == q.column
           rows == {column} \cup q.beside
           states == {"RAISES", "ON_TRACK", "AT_RISK", "BREACHED"}
           state == Deadlines!Evaluate(column, now)
           later == Deadlines!Evaluate(column, now + 1)
           bare == Deadlines!Evaluate([column EXCEPT !.paused = <<>>], now)
<1>1. column \in Deadlines!Columns /\ q.beside \in {{}, {Deadlines!Broken}}
  BY DEF Deadlines!Questions
<1>2. /\ state \in states /\ later \in states
      /\ Deadlines!Severity[state] <= Deadlines!Severity[later]
      /\ Deadlines!Severity[state] <= Deadlines!Severity[bare]
      /\ state = "RAISES" \/ later = "RAISES" => column.garbled # {}
      /\ state = "BREACHED" => "deadline" \notin column.garbled /\ \E d \in column.deadline : d < now + 1
  <2> HIDE DEF column
  <2> QED BY <1>1, LaterReading
<1> HIDE DEF column, state, later, bare
<1>3. ASSUME NEW before \in BOOLEAN, NEW after \in BOOLEAN, before => after
      PROVE  Deadlines!NoBetter(Deadlines!AcceptState(column, before, now),
                                Deadlines!AcceptState(column, after, now + 1))
  BY <1>2, <1>3 DEF Deadlines!NoBetter, Deadlines!AcceptState, state, later
<1>4. ASSUME NEW before \in BOOLEAN, NEW after \in BOOLEAN, NEW done \in BOOLEAN, NEW finished \in BOOLEAN,
             before => after, done => finished, column.garbled = {}
      PROVE  Deadlines!NoBetter(Deadlines!PerformState(column, before, done, now),
                                Deadlines!PerformState(column, after, finished, now + 1))
  <2>1. Deadlines!PerformState(column, before, done, now)
          = IF done THEN "MET" ELSE IF before THEN state ELSE "ON_TRACK"
    BY DEF Deadlines!PerformState, state
  <2>2. Deadlines!PerformState(column, after, finished, now + 1)
          = IF finished THEN "MET" ELSE IF after THEN later ELSE "ON_TRACK"
    BY DEF Deadlines!PerformState, later
  <2>3. state # "RAISES" /\ later # "RAISES" /\ state # "MET"
    BY <1>2, <1>4
  <2> QED BY <1>2, <1>4, <2>1, <2>2, <2>3 DEF Deadlines!NoBetter, Deadlines!Severity
<1>5. ASSUME state = "BREACHED", q.beside # {} PROVE Deadlines!Overdue(rows, now + 1) = {}
  <2>1. Deadlines!Broken \in rows /\ "deadline" \in Deadlines!Broken.garbled
    BY <1>1, <1>5 DEF Deadlines!Broken
  <2> QED BY <2>1 DEF Deadlines!Overdue
<1>6. ASSUME state = "BREACHED", q.beside = {}
      PROVE  \E found \in Deadlines!Overdue(rows, now + 1) : column \in found
  <2>1. rows = {column} /\ "deadline" \notin column.garbled /\ \E d \in column.deadline : d < now + 1
    BY <1>2, <1>6
  <2> QED BY <2>1 DEF Deadlines!Overdue
<1> QED BY <1>2, <1>3, <1>4, <1>5, <1>6 DEF column, state, bare

----------------------------------------------------------------------------
(***************************************************************************)
(* Categories: what a text and a reply of the model are made into, for any *)
(* threshold, any confidences and any number of keywords.                  *)
(***************************************************************************)
\* The order of the rules.
LEMMA RulesKnown ==
    /\ DOMAIN Selecting!Rules = 1 .. 4
    /\ Selecting!Category = {Selecting!Rules[i] : i \in 1 .. 4} \cup {"OTHER"}
    /\ \A i, j \in 1 .. 4 : Selecting!Rules[i] = Selecting!Rules[j] => i = j
    /\ \A i \in 1 .. 4 : Selecting!Rules[i] # "OTHER"
<1>1. DOMAIN Selecting!Rules = 1 .. 4
  BY DEF Selecting!Rules
<1>2. /\ Selecting!Rules[1] = "CLEANING" /\ Selecting!Rules[2] = "MOVING"
      /\ Selecting!Rules[3] = "REPAIR" /\ Selecting!Rules[4] = "KEY_DELIVERY"
  BY DEF Selecting!Rules
<1>3. Selecting!Category = {Selecting!Rules[i] : i \in 1 .. 4} \cup {"OTHER"}
  BY <1>1 DEF Selecting!Category, Selecting!ToSet
<1> QED BY <1>1, <1>2, <1>3

\* The text has a keyword of the category, or of that one alone; the model names it.
Of(hits, category) == \E i \in 1 .. 4 : Selecting!Rules[i] = category /\ hits[i] > 0

Alone(hits, category) ==
    Of(hits, category) /\ \A other \in Selecting!Category \ {category} : ~Of(hits, other)

Named(reply, category) == reply.status = "completion" /\ reply.category = category

\* The keywords decide alone exactly when those found are of one category.
LEMMA AloneMatched ==
    ASSUME NEW hits \in [1 .. 4 -> Nat], NEW i \in 1 .. 4
    PROVE  Alone(hits, Selecting!Rules[i]) <=> Selecting!Matched(hits) = {i}
<1>1. Selecting!Matched(hits) = {j \in 1 .. 4 : hits[j] > 0}
  BY RulesKnown DEF Selecting!Matched
<1>2. \A j \in 1 .. 4 : Of(hits, Selecting!Rules[j]) <=> hits[j] > 0
  BY RulesKnown DEF Of
<1>3. \A j \in 1 .. 4 : Selecting!Rules[j] \in Selecting!Category
  BY RulesKnown
<1>4. ~Of(hits, "OTHER")
  BY RulesKnown DEF Of
<1>5. ASSUME Alone(hits, Selecting!Rules[i]) PROVE Selecting!Matched(hits) = {i}
  BY <1>1, <1>2, <1>3, <1>5, RulesKnown DEF Alone
<1>6. ASSUME Selecting!Matched(hits) = {i} PROVE Alone(hits, Selecting!Rules[i])
  <2>1. Of(hits, Selecting!Rules[i])
    BY <1>1, <1>2, <1>6
  <2>2. ASSUME NEW other \in Selecting!Category \ {Selecting!Rules[i]} PROVE ~Of(hits, other)
    <3>1. CASE other = "OTHER"
      BY <1>4, <3>1
    <3>2. ASSUME NEW j \in 1 .. 4, other = Selecting!Rules[j] PROVE ~Of(hits, other)
      BY <1>1, <1>2, <1>6, <3>2
    <3> QED BY <3>1, <3>2, RulesKnown
  <2> QED BY <2>1, <2>2 DEF Alone
<1> QED BY <1>5, <1>6

\* max over the categories found: there is one with most hits, and it is the first.
LEMMA BestFound ==
    ASSUME NEW hits \in [1 .. 4 -> Nat], Selecting!Matched(hits) # {}
    PROVE  /\ Selecting!Best(hits) \in 1 .. 4
           /\ \A j \in 1 .. 4 : hits[j] <= hits[Selecting!Best(hits)]
<1> DEFINE First(i) == \A j \in Selecting!Matched(hits) :
                          hits[j] < hits[i] \/ (hits[j] = hits[i] /\ i <= j)
<1>1. Selecting!Matched(hits) = {j \in 1 .. 4 : hits[j] > 0}
  BY RulesKnown DEF Selecting!Matched
<1>2. \E i \in Selecting!Matched(hits) : First(i)
  <2>1. PICK a, b, c, d : a = hits[1] /\ b = hits[2] /\ c = hits[3] /\ d = hits[4]
    OBVIOUS
  <2>2. a \in Nat /\ b \in Nat /\ c \in Nat /\ d \in Nat
    BY <2>1
  <2>3. \A j \in 1 .. 4 : j = 1 \/ j = 2 \/ j = 3 \/ j = 4
    OBVIOUS
  <2>4. CASE a > 0 /\ b <= a /\ c <= a /\ d <= a
    BY <1>1, <2>1, <2>2, <2>3, <2>4
  <2>5. CASE b > 0 /\ a < b /\ c <= b /\ d <= b
    BY <1>1, <2>1, <2>2, <2>3, <2>5
  <2>6. CASE c > 0 /\ a < c /\ b < c /\ d <= c
    BY <1>1, <2>1, <2>2, <2>3, <2>6
  <2>7. CASE d > 0 /\ a < d /\ b < d /\ c < d
    BY <1>1, <2>1, <2>2, <2>3, <2>7
  <2>8. a > 0 \/ b > 0 \/ c > 0 \/ d > 0
    BY <1>1, <2>1, <2>3
  <2> QED BY <2>2, <2>4, <2>5, <2>6, <2>7, <2>8
<1>3. Selecting!Best(hits) \in Selecting!Matched(hits) /\ First(Selecting!Best(hits))
  BY <1>2 DEF Selecting!Best
<1> HIDE DEF First
<1> QED
  <2>1. \A j \in Selecting!Matched(hits) : hits[j] <= hits[Selecting!Best(hits)]
    BY <1>1, <1>3 DEF First
  <2> QED BY <1>1, <1>3, <2>1

\* What CategoriesSound says of one outcome.
Decided(hits, reply, o) ==
    /\ Selecting!Confident(o) =>
         \/ Alone(hits, o.category)
         \/ /\ \/ Named(reply, o.category)
               \/ Of(hits, o.category) /\ ConfidenceThreshold <= Selecting!AMBIGUOUS_CONFIDENCE
            /\ \A c \in Selecting!Category : ~Alone(hits, c)
    /\ Alone(hits, o.category) /\ ConfidenceThreshold <= Selecting!RULES_CONFIDENCE
         => Selecting!Confident(o)
    /\ ~Named(reply, o.category) /\ o.category # "OTHER"
         => \E i \in 1 .. 4 :
              Selecting!Rules[i] = o.category /\ \A j \in 1 .. 4 : hits[j] <= hits[i]

\* Each way through the engine: one category found, the model, the best guess, nothing.
LEMMA CategoryRight ==
    ASSUME ServicesAssumption, NEW hits \in [1 .. 4 -> 0 .. MaxHits], NEW reply \in Selecting!Replies
    PROVE  /\ Selecting!Classify(hits, reply) = {} =>
                reply.status \in Selecting!Raising /\ \A c \in Selecting!Category : ~Alone(hits, c)
           /\ \A o \in Selecting!Classify(hits, reply) : Decided(hits, reply, o)
<1> DEFINE matched == Selecting!Matched(hits)
           outcomes == Selecting!Classify(hits, reply)
<1>1. hits \in [1 .. 4 -> Nat]
  BY DEF ServicesAssumption, Selecting!SelectionAssumption
<1>2. ConfidenceThreshold \in 0 .. 100
  BY DEF ServicesAssumption, Selecting!SelectionAssumption
<1>3. matched = {j \in 1 .. 4 : hits[j] > 0}
  BY RulesKnown DEF Selecting!Matched
<1>4. CASE \E i \in matched : matched = {i}
  <2>1. PICK i \in 1 .. 4 : matched = {i}
    BY <1>3, <1>4
  <2> DEFINE o == [category |-> Selecting!Rules[i], confidence |-> Selecting!RULES_CONFIDENCE]
  <2>2. outcomes = {o}
    BY <2>1, <1>4 DEF Selecting!Classify
  <2>3. Decided(hits, reply, o)
    <3>1. Alone(hits, Selecting!Rules[i])
      BY <1>1, <2>1, AloneMatched
    <3>2. \A j \in 1 .. 4 : hits[j] <= hits[i]
      BY <1>1, <1>3, <2>1
    <3>3. ConfidenceThreshold <= Selecting!RULES_CONFIDENCE => Selecting!Confident(o)
      BY <1>2, RulesKnown DEF Selecting!Confident, Selecting!RULES_CONFIDENCE
    <3> QED BY <3>1, <3>2, <3>3 DEF Decided
  <2> QED BY <2>2, <2>3
<1>5. CASE ~\E i \in matched : matched = {i}
  <2>1. \A c \in Selecting!Category : ~Alone(hits, c)
    <3>1. \A i \in 1 .. 4 : ~Alone(hits, Selecting!Rules[i])
      BY <1>1, <1>5, AloneMatched
    <3>2. ~Alone(hits, "OTHER")
      BY RulesKnown DEF Alone, Of
    <3> QED BY <3>1, <3>2, RulesKnown
  <2>2. CASE reply.status \in Selecting!Raising
    <3>1. outcomes = {}
      BY <1>5, <2>2 DEF Selecting!Classify
    <3> QED BY <2>1, <2>2, <3>1
  <2>3. CASE reply.status \notin Selecting!Raising /\ Selecting!Parsed(reply) # {}
    <3>1. reply.status = "completion" /\ reply.category \in Selecting!Category
      BY <2>3 DEF Selecting!Parsed
    <3> DEFINE o == [category |-> reply.category, confidence |-> Selecting!Clamped(reply.confidence)]
    <3>2. outcomes = {o}
      BY <1>5, <2>3, <3>1 DEF Selecting!Classify, Selecting!Parsed
    <3>3. Named(reply, o.category)
      BY <3>1 DEF Named
    <3> QED BY <2>1, <3>1, <3>2, <3>3 DEF Decided
  <2>4. CASE reply.status \notin Selecting!Raising /\ Selecting!Parsed(reply) = {} /\ matched # {}
    <3> DEFINE best == Selecting!Best(hits)
               o == [category |-> Selecting!Rules[best], confidence |-> Selecting!AMBIGUOUS_CONFIDENCE]
    <3>1. outcomes = {o}
      BY <1>5, <2>4 DEF Selecting!Classify
    <3>2. best \in 1 .. 4 /\ \A j \in 1 .. 4 : hits[j] <= hits[best]
      BY <1>1, <2>4, BestFound
    <3>3. Selecting!Rules[best] \in Selecting!Category
      BY <3>2, RulesKnown
    <3>4. /\ Selecting!Confident(o) => ConfidenceThreshold <= Selecting!AMBIGUOUS_CONFIDENCE
          /\ Of(hits, o.category)
      <4>1. hits[best] > 0
        BY <1>1, <1>3, <2>4, <3>2
      <4> QED BY <1>2, <3>2, <4>1 DEF Selecting!Confident, Selecting!AMBIGUOUS_CONFIDENCE, Of
    <3> QED BY <2>1, <3>1, <3>2, <3>3, <3>4 DEF Decided
  <2>5. CASE reply.status \notin Selecting!Raising /\ Selecting!Parsed(reply) = {} /\ matched = {}
    <3> DEFINE o == [category |-> "OTHER", confidence |-> 0]
    <3>1. outcomes = {o}
      BY <1>5, <2>5 DEF Selecting!Classify
    <3>2. ~Selecting!Confident(o) /\ ~Alone(hits, "OTHER")
      BY RulesKnown DEF Selecting!Confident, Alone, Of
    <3> QED BY <3>1, <3>2 DEF Decided
  <2> QED BY <2>2, <2>3, <2>4, <2>5
<1> QED BY <1>4, <1>5

LEMMA CategoriesDecided ==
    ASSUME ServicesAssumption, input \subseteq Selecting!Questions
    PROVE  Selecting!CategoriesSound
<1> SUFFICES ASSUME NEW q \in input, q.of = "category"
             PROVE  /\ Selecting!Classify(q.hits, q.reply) = {} =>
                         /\ q.reply.status \in Selecting!Raising
                         /\ \A c \in Selecting!Category : ~Alone(q.hits, c)
                    /\ \A o \in Selecting!Classify(q.hits, q.reply) : Decided(q.hits, q.reply, o)
  BY RulesKnown DEF Selecting!CategoriesSound, Decided, Alone, Named, Of
<1>1. q.hits \in [1 .. 4 -> 0 .. MaxHits] /\ q.reply \in Selecting!Replies
  BY RulesKnown DEF Selecting!Questions
<1> QED BY <1>1, CategoryRight

----------------------------------------------------------------------------
(***************************************************************************)
(* Matching: the order of any partners, and what the registry and the test *)
(* partners make of it.                                                    *)
(***************************************************************************)
\* Any list of partners, by their places in it; one may be in it more than once.
Rated(C) ==
    /\ IsFiniteSet(DOMAIN C) /\ DOMAIN C \subseteq Int
    /\ \A i \in DOMAIN C : C[i].id \in Int /\ Selecting!Rating(C[i]) \in Int

\* The entry at i is asked before the one at j.
Comes(C, i, j) ==
    \/ Selecting!Before(C[i], C[j])
    \/ ~Selecting!Before(C[j], C[i]) /\ i < j

\* The places come in their order, each once.
LEMMA RankedRight ==
    ASSUME NEW C, Rated(C), NEW S \in SUBSET DOMAIN C
    PROVE  LET s == Selecting!Ranked(C, S)
           IN  /\ s \in Selecting!SetToSeqs(S)
               /\ s \in Seq(S) /\ Len(s) = Cardinality(S) /\ DOMAIN s = 1 .. Len(s)
               /\ \A i, j \in 1 .. Len(s) : i < j => Comes(C, s[i], s[j])
               /\ \A i, j \in 1 .. Len(s) : i # j => s[i] # s[j]
               /\ \A x \in S : \E n \in 1 .. Len(s) : s[n] = x
<1> DEFINE N == Cardinality(S)
           s == Selecting!Ranked(C, S)
           R == {p \in S \X S : Comes(C, p[1], p[2])}
<1>0. IsFiniteSet(S)
  BY FS_Subset DEF Rated
<1>1. Selecting!Cardinality(S) = N
  BY Zenon DEF Selecting!Cardinality, Cardinality
<1>2. Selecting!SetToSeqs(S) = {f \in [1 .. N -> S] : \A i, j \in 1 .. N : i # j => f[i] # f[j]}
  BY <1>1 DEF Selecting!SetToSeqs
<1>3. \A a, b \in S : <<a, b>> \in R <=> Comes(C, a, b)
  OBVIOUS
<1>4. PICK f \in [1 .. N -> S] : /\ \A m, n \in 1 .. N : m < n => <<f[m], f[n]>> \in R
                                 /\ \A i, j \in 1 .. N : i # j => f[i] # f[j]
  <2>1. \A a \in S : a \in Int /\ C[a].id \in Int /\ Selecting!Rating(C[a]) \in Int
    BY DEF Rated
  <2>2. /\ \A a \in S : ~Comes(C, a, a)
        /\ \A a, b, c \in S : Comes(C, a, b) /\ Comes(C, b, c) => Comes(C, a, c)
        /\ \A a, b \in S : Comes(C, a, b) \/ Comes(C, b, a) \/ a = b
    BY <2>1 DEF Comes, Selecting!Before
  <2>3. /\ \A a \in S : <<a, a>> \notin R
        /\ \A a, b, c \in S : <<a, b>> \in R /\ <<b, c>> \in R => <<a, c>> \in R
        /\ \A a, b \in S : <<a, b>> \in R \/ <<b, a>> \in R \/ a = b
    <3> HIDE DEF R
    <3> QED BY <1>3, <2>2
  <2> HIDE DEF R
  <2> QED BY <1>0, <2>3, OrderExists
<1>5. f \in Selecting!SetToSeqs(S) /\ \A i, j \in DOMAIN f : i < j => Comes(C, f[i], f[j])
  <2>1. \A m \in 1 .. N : f[m] \in S
    OBVIOUS
  <2> HIDE DEF R, N
  <2> QED BY <1>2, <1>3, <1>4, <2>1
<1>6. s \in Selecting!SetToSeqs(S) /\ \A i, j \in DOMAIN s : i < j => Comes(C, s[i], s[j])
  BY <1>5 DEF Selecting!Ranked, Comes
<1>7. s \in [1 .. N -> S] /\ \A i, j \in 1 .. N : i # j => s[i] # s[j]
  BY <1>2, <1>6
<1> HIDE DEF s
<1>8. /\ s \in Seq(S) /\ Len(s) = N /\ DOMAIN s = 1 .. Len(s)
      /\ \A x \in S : \E n \in 1 .. Len(s) : s[n] = x
  BY <1>0, <1>7, OnceEach
<1> QED BY <1>6, <1>7, <1>8 DEF s

\* Ranking holds of any such list.
LEMMA RankingRight ==
    ASSUME NEW C, Rated(C), NEW category, NEW area
    PROVE  /\ Selecting!Ranking(C, category, area)
           /\ \A m \in Selecting!Rank(C, category, area) :
                \E i \in DOMAIN C : Selecting!Eligible(C[i], category, area) /\ C[i].id = m.partner_id
           /\ \A m \in Selecting!Rank(C, category, area) :
                LET line == <<m.partner_id>> \o m.fallback_chain
                    fit  == Selecting!Fit(C, category, area)
                IN  /\ Len(line) = Cardinality(fit)
                    /\ \A c \in fit : (\A d \in fit \ {c} : Comes(C, d, c)) => line[Len(line)] = C[c].id
<1> DEFINE fit == Selecting!Fit(C, category, area)
           s == Selecting!Ranked(C, fit)
           results == Selecting!Rank(C, category, area)
           chain == [i \in 1 .. Len(s) - 1 |-> C[s[i + 1]].id]
           line == <<C[s[1]].id>> \o chain
<1>0. fit \in SUBSET DOMAIN C
  BY DEF Selecting!Fit
<1>1. \A i \in fit : C[i].id \in Int /\ Selecting!Rating(C[i]) \in Int
  BY <1>0 DEF Rated
<1>2. results = IF s = <<>> THEN {}
                ELSE {[partner_id |-> C[s[1]].id, delivery_channel |-> C[s[1]].channels[1],
                       fallback_chain |-> chain]}
  BY Zenon DEF Selecting!Rank
<1>3. /\ s \in Selecting!SetToSeqs(fit)
      /\ s \in Seq(fit) /\ Len(s) = Cardinality(fit) /\ DOMAIN s = 1 .. Len(s)
      /\ \A i, j \in 1 .. Len(s) : i < j => Comes(C, s[i], s[j])
      /\ \A i, j \in 1 .. Len(s) : i # j => s[i] # s[j]
      /\ \A x \in fit : \E n \in 1 .. Len(s) : s[n] = x
  <2> HIDE DEF fit, results, chain, line
  <2> QED BY Zenon, <1>0, RankedRight
<1> HIDE DEF results, s
<1>4. Len(s) \in Nat /\ \A i \in 1 .. Len(s) : s[i] \in fit /\ C[s[i]].id \in Int
  <2> HIDE DEF fit
  <2> QED BY <1>1, <1>3
<1>5. s = <<>> <=> fit = {}
  <2> HIDE DEF fit
  <2> QED BY <1>3, <1>4
<1>6. CASE fit = {}
  <2>1. results = {}
    BY <1>2, <1>5, <1>6
  <2> QED BY <1>6, <2>1 DEF Selecting!Ranking, results
<1>7. CASE fit # {}
  <2> HIDE DEF fit
  <2>1. Len(s) >= 1 /\ results = {[partner_id |-> C[s[1]].id, delivery_channel |-> C[s[1]].channels[1],
                                    fallback_chain |-> chain]}
    <3>1. Len(s) # 0
      BY <1>3, <1>5, <1>7
    <3> QED BY <1>2, <1>4, <1>5, <1>7, <3>1
  <2>2. line \in Seq(Int) /\ Len(line) = Len(s) /\ \A i \in 1 .. Len(s) : line[i] = C[s[i]].id
    <3>1. chain \in Seq(Int) /\ Len(chain) = Len(s) - 1 /\ \A i \in 1 .. Len(s) - 1 : chain[i] = C[s[i + 1]].id
      <4>1. Len(s) - 1 \in Nat /\ \A i \in 1 .. Len(s) - 1 : i + 1 \in 1 .. Len(s)
        BY <1>4, <2>1
      <4> QED BY <1>4, <4>1
    <3>2. <<C[s[1]].id>> \in Seq(Int) /\ C[s[1]].id \in Int
      BY <1>4, <2>1
    <3> HIDE DEF chain
    <3>3. line \in Seq(Int) /\ Len(line) = Len(s)
      BY <1>4, <3>1, <3>2
    <3>4. line[1] = C[s[1]].id
      BY <3>1, <3>2
    <3>5. ASSUME NEW i \in 2 .. Len(s) PROVE line[i] = C[s[i]].id
      <4>1. i - 1 \in 1 .. Len(s) - 1 /\ (i - 1) + 1 = i
        BY <1>4
      <4>2. line[i] = chain[i - 1]
        BY <1>4, <3>1, <3>2
      <4> QED BY <3>1, <4>1, <4>2
    <3> HIDE DEF line
    <3> QED BY <1>4, <3>3, <3>4, <3>5
  <2> HIDE DEF line
  <2>3. DOMAIN line = 1 .. Len(s)
    BY <1>4, <2>2
  <2>4. \A i, j \in DOMAIN line : i < j => Selecting!Rating(C[s[i]]) >= Selecting!Rating(C[s[j]])
    <3> SUFFICES ASSUME NEW i \in 1 .. Len(s), NEW j \in 1 .. Len(s), i < j
                 PROVE  Selecting!Rating(C[s[i]]) >= Selecting!Rating(C[s[j]])
      BY <2>3
    <3>1. Selecting!Rating(C[s[i]]) \in Int /\ Selecting!Rating(C[s[j]]) \in Int
      BY <1>1, <1>4
    <3>2. Comes(C, s[i], s[j])
      BY <1>3
    <3> QED BY <3>1, <3>2 DEF Comes, Selecting!Before
  <2>5. Selecting!IsInjective(line) <=> \A i, j \in fit : C[i].id = C[j].id => i = j
    <3>1. Selecting!IsInjective(line)
            <=> \A m, n \in 1 .. Len(s) : C[s[m]].id = C[s[n]].id => m = n
      BY <2>2, <2>3 DEF Selecting!IsInjective
    <3>2. ASSUME \A i, j \in fit : C[i].id = C[j].id => i = j, NEW m \in 1 .. Len(s), NEW n \in 1 .. Len(s),
                 C[s[m]].id = C[s[n]].id
          PROVE  m = n
      BY <1>3, <1>4, <3>2
    <3>3. ASSUME \A m, n \in 1 .. Len(s) : C[s[m]].id = C[s[n]].id => m = n, NEW i \in fit, NEW j \in fit,
                 C[i].id = C[j].id
          PROVE  i = j
      <4>1. PICK m \in 1 .. Len(s) : s[m] = i
        BY <1>3
      <4>2. PICK n \in 1 .. Len(s) : s[n] = j
        BY <1>3
      <4> QED BY <3>3, <4>1, <4>2
    <3> QED BY <3>1, <3>2, <3>3
  <2> DEFINE result == [partner_id |-> C[s[1]].id, delivery_channel |-> C[s[1]].channels[1],
                        fallback_chain |-> chain]
  <2>6. line = <<result.partner_id>> \o result.fallback_chain
        /\ result.delivery_channel = C[s[1]].channels[1] /\ result.partner_id = C[s[1]].id
    BY DEF line
  <2>7. results = {result}
    BY <2>1
  <2> HIDE DEF result, chain
  <2>8. Selecting!Ranking(C, category, area)
    <3>1. DOMAIN s = DOMAIN line /\ \A n \in DOMAIN line : line[n] = C[s[n]].id
      BY <1>3, <2>2, <2>3
    <3>2. \A m \in results : m = result /\ <<m.partner_id>> \o m.fallback_chain = line
      BY Zenon, <2>6, <2>7
    <3>3. results = {} <=> fit = {}
      BY Zenon, <1>7, <2>7
    <3>4. result.delivery_channel = C[s[1]].channels[1]
      BY <2>6
    <3>5. \E order \in Selecting!SetToSeqs(fit) :
            /\ DOMAIN order = DOMAIN line
            /\ \A n \in DOMAIN line : line[n] = C[order[n]].id
            /\ \A n, o \in DOMAIN line : n < o =>
                 Selecting!Rating(C[order[n]]) >= Selecting!Rating(C[order[o]])
            /\ result.delivery_channel = C[order[1]].channels[1]
      <4> HIDE DEF line
      <4>1. s \in Selecting!SetToSeqs(fit)
        BY <1>3
      <4> QED BY Zenon, <2>4, <3>1, <3>4, <4>1
    <3> HIDE DEF line
    <3> QED BY Zenon, <2>5, <3>2, <3>3, <3>5 DEF Selecting!Ranking, fit, results
  <2>9. ASSUME NEW c \in fit, \A d \in fit \ {c} : Comes(C, d, c)
        PROVE  line[Len(line)] = C[c].id
    <3>1. PICK n \in 1 .. Len(s) : s[n] = c
      BY <1>3
    <3>2. ASSUME n < Len(s) PROVE FALSE
      <4>1. Len(s) \in 1 .. Len(s) /\ s[Len(s)] # c
        BY <1>3, <1>4, <2>1, <3>1, <3>2
      <4>2. Comes(C, c, s[Len(s)]) /\ Comes(C, s[Len(s)], c)
        BY <1>3, <1>4, <2>9, <3>1, <3>2, <4>1
      <4>3. c \in Int /\ s[Len(s)] \in Int /\ s[Len(s)] \in fit
        BY <1>0, <1>4, <4>1 DEF Rated
      <4> QED BY <1>1, <4>2, <4>3 DEF Comes, Selecting!Before
    <3>3. n = Len(s)
      BY <1>4, <3>2
    <3> QED BY <2>1, <2>2, <3>1, <3>3
  <2>10. Len(line) = Cardinality(fit)
    BY <1>3, <2>2
  <2>11. \E i \in DOMAIN C : Selecting!Eligible(C[i], category, area) /\ C[i].id = result.partner_id
    <3>1. s[1] \in fit
      BY <1>4, <2>1
    <3> QED BY <2>6, <3>1 DEF Selecting!Fit, fit
  <2> QED BY Zenon, <2>6, <2>7, <2>8, <2>9, <2>10, <2>11 DEF fit, results
<1> QED BY <1>6, <1>7

LEMMA EntriesKnown ==
    ASSUME NEW id, NEW e \in Selecting!Entries(id)
    PROVE  /\ e.id = id /\ e.whole \in BOOLEAN
           /\ e.is_active \in {{}, {TRUE}} /\ e.available \in {{TRUE}, {FALSE}}
           /\ e.rating \in {{}, {0}, {3}, {5}} /\ e.channels \in {<<>>, <<"api", "email">>, <<"email">>}
<1> DEFINE good == Selecting!Entry(id, {3}, {"msk"})
<1>1. /\ good.id = id /\ good.whole = TRUE /\ good.is_active = {TRUE} /\ good.available = {TRUE}
      /\ good.rating = {3} /\ good.channels = <<"api", "email">>
      /\ DOMAIN good = {"id", "whole", "category", "is_active", "available", "rating", "service_areas", "channels"}
  BY DEF Selecting!Entry
<1> DEFINE Plain == {Selecting!Entry(id, r, a) : r \in {{}, {0}, {5}}, a \in {{}, {"msk"}, {"spb"}}}
           Odd == {[good EXCEPT !.whole = FALSE], [good EXCEPT !.category = "REPAIR"],
                   [good EXCEPT !.is_active = {}], [good EXCEPT !.available = {FALSE}],
                   [good EXCEPT !.channels = <<>>], [good EXCEPT !.channels = <<"email">>]}
<1>2. Selecting!Entries(id) = Plain \cup Odd
  BY DEF Selecting!Entries
<1>3. CASE e \in Plain
  <2>1. PICK r \in {{}, {0}, {5}}, a \in {{}, {"msk"}, {"spb"}} : e = Selecting!Entry(id, r, a)
    BY <1>3
  <2> QED BY <2>1 DEF Selecting!Entry
<1>4. CASE e \in Odd
  <2> HIDE DEF good
  <2> QED BY <1>1, <1>4
<1> HIDE DEF Plain, Odd
<1> QED BY Zenon, <1>2, <1>3, <1>4

\* Any category and area: the aggregator of the test partners is behind another one.
LEMMA FixturesRanked ==
    ASSUME NEW category \in Selecting!Category, NEW area \in {{}, {"msk"}, {"spb"}}
    PROVE  LET candidates == Selecting!FixtureCandidates(category)
           IN  /\ Selecting!Ranking(candidates, category, area)
               /\ \A m \in Selecting!Rank(candidates, category, area) :
                    LET line == <<m.partner_id>> \o m.fallback_chain
                    IN  Len(line) > 1 /\ line[Len(line)] = Selecting!PROFI_AGGREGATOR_ID
<1> DEFINE C == Selecting!FixtureCandidates(category)
           fit == Selecting!Fit(C, category, area)
           T == Selecting!TEST_PARTNERS
           offered == category \in {"CLEANING", "MOVING", "REPAIR"}
           Own(i) == /\ T[i].id = i /\ T[i].rating = (IF i = 5 THEN {3} ELSE {5})
                     /\ T[i].is_active /\ T[i].available /\ T[i].channels # <<>>
                     /\ DOMAIN T[i] = {"id", "category", "is_active", "available", "rating", "service_areas",
                                       "channels"}
<1>1. /\ DOMAIN T = 1 .. 5
      /\ Own(1) /\ T[1].category = "CLEANING" /\ T[1].service_areas = {"msk", "spb"}
      /\ Own(2) /\ T[2].category = "MOVING" /\ T[2].service_areas = {"msk"}
      /\ Own(3) /\ T[3].category = "MOVING" /\ T[3].service_areas = {"spb"}
      /\ Own(4) /\ T[4].category = "REPAIR" /\ T[4].service_areas = {"spb", "msk"}
      /\ Own(5) /\ T[5].service_areas = {"msk", "spb"}
  <2>1. /\ DOMAIN T = 1 .. 5
        /\ T[1] = Selecting!TestPartner(1, "CLEANING", {"msk", "spb"}, 5, <<"telegram", "email">>)
        /\ T[2] = Selecting!TestPartner(2, "MOVING", {"msk"}, 5, <<"telegram", "email">>)
        /\ T[3] = Selecting!TestPartner(3, "MOVING", {"spb"}, 5, <<"telegram", "email">>)
        /\ T[4] = Selecting!TestPartner(4, "REPAIR", {"spb", "msk"}, 5, <<"telegram", "email">>)
        /\ T[5] = Selecting!TestPartner(5, "CLEANING", {"msk", "spb"}, 3, <<"api">>)
    BY DEF Selecting!TEST_PARTNERS, Selecting!PROFI_AGGREGATOR_ID
  <2> HIDE DEF T
  <2> QED BY <2>1 DEF Selecting!TestPartner
<1>2. \A i \in 1 .. 5 : Own(i)
  <2>1. \A i \in 1 .. 5 : i = 1 \/ i = 2 \/ i = 3 \/ i = 4 \/ i = 5
    OBVIOUS
  <2> HIDE DEF T, Own
  <2> QED BY <1>1, <2>1
<1>3. /\ DOMAIN C = {n \in 1 .. 5 : IF n = 5 THEN offered ELSE T[n].category = category}
      /\ \A n \in DOMAIN C : C[n] = [T[n] EXCEPT !.category = category]
  <2> DEFINE D == {n \in DOMAIN T : IF T[n].id = 5 THEN offered ELSE T[n].category = category}
  <2>1. C = [i \in D |-> [T[i] EXCEPT !.category = category]]
    BY DEF Selecting!FixtureCandidates, Selecting!PROFI_AGGREGATOR_ID, Selecting!PROFI_AGGREGATOR_CATEGORIES
  <2>2. D = {n \in 1 .. 5 : IF n = 5 THEN offered ELSE T[n].category = category}
    <3>1. \A n \in 1 .. 5 : T[n].id = n
      BY <1>2
    <3> HIDE DEF T, offered
    <3> QED BY <1>1, <3>1
  <2> HIDE DEF T, C, D, offered
  <2> QED BY <2>1, <2>2
<1>4. \A n \in DOMAIN C :
        /\ n \in 1 .. 5 /\ C[n].id = n /\ C[n].category = category
        /\ C[n].is_active /\ C[n].available /\ C[n].channels # <<>>
        /\ C[n].service_areas = T[n].service_areas /\ C[n].rating = (IF n = 5 THEN {3} ELSE {5})
  <2> SUFFICES ASSUME NEW n \in DOMAIN C
               PROVE  /\ n \in 1 .. 5 /\ C[n].id = n /\ C[n].category = category
                      /\ C[n].is_active /\ C[n].available /\ C[n].channels # <<>>
                      /\ C[n].service_areas = T[n].service_areas /\ C[n].rating = (IF n = 5 THEN {3} ELSE {5})
    OBVIOUS
  <2>1. n \in 1 .. 5 /\ C[n] = [T[n] EXCEPT !.category = category]
    BY <1>3
  <2>2. Own(n)
    BY <1>2, <2>1
  <2> HIDE DEF C, T
  <2> QED BY <2>1, <2>2
<1> HIDE DEF C
<1>5. fit = {n \in DOMAIN C : area \subseteq T[n].service_areas}
  <2>1. \A n \in DOMAIN C : Selecting!Eligible(C[n], category, area) <=> area \subseteq T[n].service_areas
    <3> SUFFICES ASSUME NEW n \in DOMAIN C
                 PROVE  Selecting!Eligible(C[n], category, area) <=> area \subseteq T[n].service_areas
      OBVIOUS
    <3>1. n \in 1 .. 5
      BY <1>4
    <3>2. T[n].service_areas # {}
      <4>1. n = 1 \/ n = 2 \/ n = 3 \/ n = 4 \/ n = 5
        BY <3>1
      <4> HIDE DEF T
      <4> QED BY <1>1, <4>1
    <3> HIDE DEF T
    <3> QED BY <1>4, <3>2 DEF Selecting!Eligible
  <2> HIDE DEF T
  <2> QED BY <2>1 DEF Selecting!Fit
<1> HIDE DEF T, Own
<1>6. fit # {} => 5 \in fit /\ \E c \in fit : c # 5
  <2> SUFFICES ASSUME fit # {} PROVE 5 \in fit /\ \E c \in fit : c # 5
    OBVIOUS
  <2>1. offered
    <3>1. PICK n \in DOMAIN C : TRUE
      BY <1>5
    <3>2. n \in 1 .. 5 /\ IF n = 5 THEN offered ELSE T[n].category = category
      BY <1>3
    <3>3. n = 1 \/ n = 2 \/ n = 3 \/ n = 4 \/ n = 5
      BY <3>2
    <3> QED BY <1>1, <3>2, <3>3
  <2>2. 5 \in fit
    BY <1>1, <1>3, <1>5, <2>1
  <2>3. \A n \in 1 .. 4 : T[n].category = category /\ area \subseteq T[n].service_areas => n \in fit /\ n # 5
    BY <1>3, <1>5
  <2>4. \E n \in 1 .. 4 : T[n].category = category /\ area \subseteq T[n].service_areas
    <3>1. 1 \in 1 .. 4 /\ 2 \in 1 .. 4 /\ 3 \in 1 .. 4 /\ 4 \in 1 .. 4
      OBVIOUS
    <3> QED BY <1>1, <2>1, <3>1
  <2> HIDE DEF fit
  <2> QED BY <2>2, <2>3, <2>4
<1>7. \A n \in DOMAIN C : Selecting!Rating(C[n]) = (IF n = 5 THEN 3 ELSE 5)
  <2>1. \A c : /\ c.rating = {5} => Selecting!Rating(c) = 5
               /\ c.rating = {3} => Selecting!Rating(c) = 3
    BY DEF Selecting!Rating
  <2> QED BY <1>4, <2>1
<1>8. Rated(C)
  <2>1. DOMAIN C \subseteq 1 .. 5
    BY <1>4
  <2>2. IsFiniteSet(DOMAIN C)
    <3>1. PICK n \in Nat : n = 5
      OBVIOUS
    <3>2. n \in Int /\ 1 \in Int
      OBVIOUS
    <3>3. IsFiniteSet(1 .. n)
      BY <3>2, FS_Interval
    <3> QED BY <2>1, <3>1, <3>3, FS_Subset
  <2>3. \A n \in DOMAIN C : n \in Int /\ C[n].id \in Int /\ Selecting!Rating(C[n]) \in Int
    BY <1>4, <1>7
  <2> QED BY <2>2, <2>3 DEF Rated
<1>9. fit \subseteq DOMAIN C
  BY <1>5
<1> HIDE DEF fit
<1>10. 5 \in fit => \A d \in fit \ {5} : Comes(C, d, 5)
  BY <1>7, <1>9 DEF Comes, Selecting!Before
<1>11. fit # {} => Cardinality(fit) > 1
  <2>1. IsFiniteSet(fit)
    BY <1>8, <1>9, FS_Subset DEF Rated
  <2>2. Cardinality(fit) \in Nat /\ (Cardinality(fit) = 0 => fit = {})
    BY <2>1, FS_CardinalityType, FS_EmptySet
  <2>3. Cardinality(fit) = 1 => \E x : fit = {x}
    BY <2>1, FS_Singleton
  <2>4. fit # {} => \A x : fit # {x}
    BY <1>6
  <2> QED BY <2>2, <2>3, <2>4
<1>12. ASSUME NEW m \in Selecting!Rank(C, category, area)
       PROVE  LET line == <<m.partner_id>> \o m.fallback_chain
              IN  Len(line) > 1 /\ line[Len(line)] = Selecting!PROFI_AGGREGATOR_ID
  <2> DEFINE line == <<m.partner_id>> \o m.fallback_chain
  <2>1. \E i \in DOMAIN C : Selecting!Eligible(C[i], category, area)
    BY <1>8, <1>12, RankingRight
  <2>2. fit # {} /\ 5 \in fit
    BY <1>6, <2>1 DEF Selecting!Fit, fit
  <2>3. /\ Len(line) = Cardinality(fit)
        /\ \A c \in fit : (\A d \in fit \ {c} : Comes(C, d, c)) => line[Len(line)] = C[c].id
    BY <1>8, <1>12, RankingRight DEF fit
  <2> HIDE DEF line
  <2>4. line[Len(line)] = 5
    BY <1>4, <1>9, <1>10, <2>2, <2>3
  <2> QED BY <1>11, <2>2, <2>3, <2>4 DEF line, Selecting!PROFI_AGGREGATOR_ID
<1>13. Selecting!Ranking(C, category, area)
  BY <1>8, RankingRight
<1> QED BY <1>12, <1>13 DEF C

LEMMA MatchesFound ==
    ASSUME input \subseteq Selecting!Questions
    PROVE  Selecting!MatchesSound
<1> DEFINE Awake(e, id) == /\ e.id = id /\ e.whole
                           /\ e.is_active = {TRUE} /\ e.available = {TRUE} /\ e.channels # <<>>
<1> SUFFICES ASSUME NEW q \in input
             PROVE  /\ q.of = "registry" =>
                         /\ Selecting!Ranking(Selecting!Candidates(q.entries), "MOVING", q.area)
                         /\ \A m \in Selecting!Rank(Selecting!Candidates(q.entries), "MOVING", q.area) :
                              \E i \in DOMAIN q.entries : Awake(q.entries[i], m.partner_id)
                    /\ q.of = "fixtures" =>
                         LET candidates == Selecting!FixtureCandidates(q.category)
                         IN  /\ Selecting!Ranking(candidates, q.category, q.area)
                             /\ \A m \in Selecting!Rank(candidates, q.category, q.area) :
                                  LET line == <<m.partner_id>> \o m.fallback_chain
                                  IN  Len(line) > 1 /\ line[Len(line)] = Selecting!PROFI_AGGREGATOR_ID
  BY Zenon DEF Selecting!MatchesSound
<1>1. CASE q.of = "registry"
  <2> DEFINE Known(e) == /\ e.id \in 1 .. 3 /\ e.whole \in BOOLEAN
                         /\ e.is_active \in {{}, {TRUE}} /\ e.available \in {{TRUE}, {FALSE}}
                         /\ e.rating \in {{}, {0}, {3}, {5}}
             C == Selecting!Candidates(q.entries)
             category == "MOVING"
             area == q.area
  <2>1. PICK a \in Selecting!Entries(2), b \in Selecting!Entries(1),
             c \in Selecting!Entries(1) \cup Selecting!Entries(3) : q.entries = <<a, b, c>>
    BY <1>1 DEF Selecting!Questions
  <2>2. DOMAIN q.entries = 1 .. 3 /\ \A i \in 1 .. 3 : Known(q.entries[i])
    <3>1. \A id \in 1 .. 3 : \A e \in Selecting!Entries(id) : Known(e)
      BY EntriesKnown
    <3>2. 1 \in 1 .. 3 /\ 2 \in 1 .. 3 /\ 3 \in 1 .. 3
      OBVIOUS
    <3> HIDE DEF Known
    <3>4. Known(a) /\ Known(b) /\ Known(c)
      BY Zenon, <2>1, <3>1, <3>2
    <3>3. \A i \in 1 .. 3 : i = 1 \/ i = 2 \/ i = 3
      OBVIOUS
    <3> QED BY <2>1, <3>3, <3>4
  <2>3. /\ DOMAIN C = {n \in DOMAIN q.entries : q.entries[n].whole}
        /\ \A n \in DOMAIN C : C[n] = Selecting!Candidate(q.entries[n])
    BY DEF Selecting!Candidates
  <2> HIDE DEF C
  <2>4. ASSUME NEW n \in DOMAIN C
        PROVE  LET e == q.entries[n]
               IN  /\ n \in 1 .. 3 /\ Known(e) /\ e.whole
                   /\ C[n].id = e.id /\ C[n].rating = e.rating /\ C[n].channels = e.channels
                   /\ C[n].is_active = (TRUE \in e.is_active) /\ C[n].available = (TRUE \in e.available)
    <3>1. n \in 1 .. 3 /\ Known(q.entries[n]) /\ q.entries[n].whole
      BY <2>2, <2>3
    <3>2. C[n] = Selecting!Candidate(q.entries[n])
      BY <2>3
    <3> HIDE DEF Known
    <3> QED BY <3>1, <3>2 DEF Selecting!Candidate
  <2>5. Rated(C)
    <3>1. DOMAIN C \subseteq 1 .. 3
      BY <2>4
    <3>2. IsFiniteSet(DOMAIN C)
      <4>1. PICK n \in Nat : n = 3
        OBVIOUS
      <4>2. n \in Int /\ 1 \in Int
        OBVIOUS
      <4>3. IsFiniteSet(1 .. n)
        BY <4>2, FS_Interval
      <4> QED BY <3>1, <4>1, <4>3, FS_Subset
    <3>3. ASSUME NEW n \in DOMAIN C PROVE n \in Int /\ C[n].id \in Int /\ Selecting!Rating(C[n]) \in Int
      <4>1. C[n].rating \in {{}, {0}, {3}, {5}} /\ C[n].id \in 1 .. 3 /\ n \in 1 .. 3
        BY <2>4
      <4> QED BY <4>1 DEF Selecting!Rating
    <3> QED BY <3>2, <3>3 DEF Rated
  <2> HIDE DEF category, area
  <2>6. /\ Selecting!Ranking(C, category, area)
        /\ \A m \in Selecting!Rank(C, category, area) :
             \E i \in DOMAIN C : Selecting!Eligible(C[i], category, area) /\ C[i].id = m.partner_id
    BY <2>5, RankingRight
  <2>7. ASSUME NEW m \in Selecting!Rank(C, "MOVING", q.area)
        PROVE  \E i \in DOMAIN q.entries : Awake(q.entries[i], m.partner_id)
    <3>1. PICK i \in DOMAIN C : Selecting!Eligible(C[i], "MOVING", q.area) /\ C[i].id = m.partner_id
      BY <2>6 DEF category, area
    <3>2. i \in DOMAIN q.entries
      BY <2>2, <2>4
    <3>3. C[i].is_active /\ C[i].available /\ C[i].channels # <<>>
      BY <3>1 DEF Selecting!Eligible
    <3>4. Awake(q.entries[i], m.partner_id)
      BY <2>4, <3>1, <3>3
    <3> QED BY <3>2, <3>4
  <2>8. Selecting!Ranking(C, "MOVING", q.area)
    BY <2>6 DEF category, area
  <2> QED BY <1>1, <2>7, <2>8 DEF C
<1>2. CASE q.of = "fixtures"
  <2>1. q.category \in Selecting!Category /\ q.area \in {{}, {"msk"}, {"spb"}}
    BY <1>2 DEF Selecting!Questions
  <2> QED BY <1>2, <2>1, FixturesRanked
<1> QED BY <1>1, <1>2

----------------------------------------------------------------------------
(***************************************************************************)
(* Channels: a delivery with any number of attempts, whatever becomes of   *)
(* each, and an answer.                                                    *)
(***************************************************************************)
LEMMA LeastFound ==
    ASSUME NEW n \in Nat, NEW T \in SUBSET (1 .. n), T # {}
    PROVE  Delivering!Min(T) \in T /\ \A y \in T : Delivering!Min(T) <= y
<1>1. T \in SUBSET (0 .. n)
  OBVIOUS
<1>2. \E x \in T : \A y \in T : x <= y
  BY <1>1, LeastExists
<1> QED BY Zenon, <1>2 DEF Delivering!Min

\* The instance counts as FiniteSets does.
LEMMA SameCount == \A S : Delivering!Cardinality(S) = Cardinality(S)
  BY Zenon DEF Delivering!Cardinality, Cardinality

----------------------------------------------------------------------------
\* The channels, and what their adapters have in common.
Adapters ==
    {Delivering!MockChannel, Delivering!PartnerApiChannel, Delivering!BotApiChannel,
     Delivering!EmailChannel, Delivering!Bitrix24Channel, Delivering!AmoCrmChannel,
     Delivering!RehomeCrmChannel}

LEMMA ChannelsKnown ==
    ASSUME NEW c \in Delivering!Channels
    PROVE  /\ c \in Adapters
           /\ c.repeated \in BOOLEAN /\ c.keyed \in BOOLEAN
           /\ c.needed \ c.looked \subseteq {"chat_id", "email"}
           /\ c = Delivering!MockChannel => c.needed = {} /\ c.address = {}
           /\ c.refs = <<"external_ref", "request_ref">> => c = Delivering!PartnerApiChannel
           /\ c.refs \in {<<"request_ref">>, <<"external_ref", "request_ref">>,
                         <<"request_ref", "external_ref">>}
<1>1. c \in Adapters
  BY DEF Delivering!Channels, Delivering!Resolve, Adapters
<1>2. CASE c = Delivering!MockChannel
  BY <1>1, <1>2 DEF Delivering!MockChannel
<1>3. CASE c = Delivering!PartnerApiChannel
  BY <1>1, <1>3 DEF Delivering!PartnerApiChannel, Delivering!MockChannel
<1>4. CASE c = Delivering!BotApiChannel
  BY <1>1, <1>4 DEF Delivering!BotApiChannel, Delivering!MockChannel, Delivering!OursFirst
<1>5. CASE c = Delivering!EmailChannel
  BY <1>1, <1>5 DEF Delivering!EmailChannel, Delivering!MockChannel, Delivering!OursFirst
<1>6. CASE c = Delivering!Bitrix24Channel
  BY <1>1, <1>6 DEF Delivering!Bitrix24Channel, Delivering!MockChannel, Delivering!OursFirst
<1>7. CASE c = Delivering!AmoCrmChannel
  BY <1>1, <1>7 DEF Delivering!AmoCrmChannel, Delivering!MockChannel, Delivering!OursFirst
<1>8. CASE c = Delivering!RehomeCrmChannel
  BY <1>1, <1>8 DEF Delivering!RehomeCrmChannel, Delivering!MockChannel, Delivering!OursFirst
<1> QED BY <1>1, <1>2, <1>3, <1>4, <1>5, <1>6, <1>7, <1>8 DEF Adapters

\* The last attempt is the first that is answered, if one is.
LEMMA LastFound ==
    ASSUME Attempts \in Nat \ {0}, NEW c \in Delivering!Channels,
           NEW fates \in [1 .. Attempts -> Delivering!Fates]
    PROVE  /\ Delivering!Last(c, fates) \in 1 .. Attempts
           /\ \A i \in 1 .. Delivering!Last(c, fates) :
                fates[i] \in Delivering!Answered => i = Delivering!Last(c, fates)
           /\ fates[1] = "taken" => Delivering!Last(c, fates) = 1
<1> DEFINE T == {Attempts} \cup {i \in DOMAIN fates : fates[i] \in Delivering!Answered}
<1>1. CASE ~c.repeated
  BY <1>1 DEF Delivering!Last
<1>2. CASE c.repeated
  <2>1. T \in SUBSET (1 .. Attempts) /\ T # {}
    OBVIOUS
  <2>2. Delivering!Last(c, fates) = Delivering!Min(T)
    BY <1>2 DEF Delivering!Last
  <2>3. Delivering!Last(c, fates) \in T /\ \A y \in T : Delivering!Last(c, fates) <= y
    <3>1. Attempts \in Nat
      OBVIOUS
    <3> HIDE DEF T
    <3>2. Delivering!Min(T) \in T /\ \A y \in T : Delivering!Min(T) <= y
      BY <2>1, <3>1, LeastFound
    <3> QED BY <2>2, <3>2
  <2>4. \A i \in 1 .. Attempts : fates[i] \in Delivering!Answered => i \in T
    OBVIOUS
  <2>5. "taken" \in Delivering!Answered
    BY DEF Delivering!Answered
  <2> DEFINE last == Delivering!Last(c, fates)
  <2> HIDE DEF T, last
  <2>6. last \in 1 .. Attempts /\ \A i \in 1 .. Attempts : i \in T => last <= i
    BY <2>1, <2>3 DEF last
  <2>7. \A i \in 1 .. last : fates[i] \in Delivering!Answered => i = last
    BY <2>4, <2>6
  <2>8. fates[1] = "taken" => last = 1
    BY <2>4, <2>5, <2>6
  <2> QED BY <2>6, <2>7, <2>8 DEF last
<1> QED BY <1>1, <1>2

\* The least of a number and one.
LEMMA AtMostOne == \A a \in Nat : Delivering!Min({a, 1}) = IF a = 0 THEN 0 ELSE 1
<1> TAKE a \in Nat
<1>1. \E x \in {a, 1} : \A y \in {a, 1} : x <= y
  OBVIOUS
<1>2. Delivering!Min({a, 1}) \in {a, 1} /\ \A y \in {a, 1} : Delivering!Min({a, 1}) <= y
  BY <1>1 DEF Delivering!Min
<1> QED BY <1>2

\* The orders of a delivery that got as far as its attempts: there is one if the last
\* was taken; there are others only where an answer was lost.
LEMMA OrdersFound ==
    ASSUME Attempts \in Nat \ {0}, NEW c \in Delivering!Channels,
           NEW fates \in [1 .. Attempts -> Delivering!Fates], NEW last,
           last = Delivering!Last(c, fates)
    PROVE  /\ Delivering!Orders(c, fates, last) \in Nat
           /\ fates[last] = "taken" => Delivering!Orders(c, fates, last) > 0
           /\ c.keyed => Delivering!Orders(c, fates, last) <= 1
           /\ (\A i \in 1 .. Attempts : fates[i] # "lost") =>
                /\ Delivering!Orders(c, fates, last) <= 1
                /\ Delivering!Orders(c, fates, last) > 0 => fates[last] = "taken"
<1> DEFINE S == {i \in 1 .. last : fates[i] \in {"lost", "taken"}}
           came == Delivering!Cardinality(S)
<1>1. /\ last \in 1 .. Attempts
      /\ \A i \in 1 .. last : fates[i] \in Delivering!Answered => i = last
  BY LastFound
<1>2. IsFiniteSet(S) /\ came = Cardinality(S) /\ came \in Nat
  <2>1. IsFiniteSet(1 .. last)
    BY <1>1, FS_Interval
  <2>2. IsFiniteSet(S) /\ Cardinality(S) \in Nat
    BY <2>1, FS_Subset, FS_CardinalityType
  <2> QED BY <2>2, SameCount
<1>3. came = 0 <=> S = {}
  <2> HIDE DEF S
  <2> QED BY <1>2, FS_EmptySet, SameCount
<1>4. fates[last] = "taken" => S # {}
  BY <1>1
<1>5. ASSUME \A i \in 1 .. Attempts : fates[i] # "lost" PROVE came <= 1 /\ (S # {} => fates[last] = "taken")
  <2>1. \A i \in S : i = last /\ fates[last] = "taken"
    BY <1>1, <1>5 DEF Delivering!Answered
  <2>2. S = {} \/ S = {last}
    <3> HIDE DEF S
    <3> QED BY <2>1
  <2>3. came <= 1
    <3>1. CASE S = {}
      BY <3>1, <1>3
    <3>2. CASE S = {last}
      <4>1. Cardinality({last}) = 1
        BY FS_Singleton
      <4> HIDE DEF S, came
      <4> QED BY <3>2, <4>1, <1>2
    <3> QED BY <2>2, <3>1, <3>2
  <2> QED BY <2>1, <2>3
<1>6. Delivering!Orders(c, fates, last) = IF c.keyed THEN Delivering!Min({came, 1}) ELSE came
  BY DEF Delivering!Orders
<1>7. Delivering!Orders(c, fates, last) = IF c.keyed /\ came # 0 THEN 1 ELSE came
  <2> HIDE DEF came
  <2> QED BY <1>2, <1>6, AtMostOne
<1> HIDE DEF came, S
<1> QED BY <1>2, <1>3, <1>4, <1>5, <1>7

----------------------------------------------------------------------------
\* What DeliveriesReported says of a delivery, and of an answer.
Reported(c, config, fates, d) ==
    /\ d.report = "SENT" =>
         /\ d.orders > 0 \/ fates[Delivering!Last(c, fates)] = "moved"
         /\ c.needed \cup c.address \subseteq config
    /\ d.orders > 1 => ~c.keyed /\ {i \in 1 .. Attempts : fates[i] = "lost"} # {}
    /\ d.report # "SENT" /\ d.orders > 0 => {i \in 1 .. Attempts : fates[i] = "lost"} # {}
    /\ d.report = "raised" => c = Delivering!PartnerApiChannel
    /\ Delivering!Health(c, config, "taken") = "HEALTHY" /\ fates[1] = "taken" /\ d.report # "SENT"
         => ~({"chat_id", "email"} \cap c.needed \subseteq config)

\* What a channel that is healthy lacks, if it lacks anything, is the address.
LEMMA HealthyLacks ==
    ASSUME NEW c \in Delivering!Channels, NEW config, Delivering!Health(c, config, "taken") = "HEALTHY",
           ~(c.needed \subseteq config)
    PROVE  ~({"chat_id", "email"} \cap c.needed \subseteq config)
<1>1. c.looked \subseteq config
  BY DEF Delivering!Health
<1>2. c.needed \ c.looked \subseteq {"chat_id", "email"}
  BY ChannelsKnown
<1> QED BY <1>1, <1>2

\* Nothing to deliver to, a config that lacks something, the mock, the attempts.
LEMMA DeliveryRight ==
    ASSUME Attempts \in Nat \ {0}, NEW c \in Delivering!Channels, NEW config,
           NEW fates \in [1 .. Attempts -> Delivering!Fates],
           \A i \in 1 .. Attempts : Delivering!Possible(c, config, fates[i])
    PROVE  Reported(c, config, fates, Delivering!Deliver(c, config, fates))
<1> DEFINE d == Delivering!Deliver(c, config, fates)
           last == Delivering!Last(c, fates)
           orders == Delivering!Orders(c, fates, last)
           lost == {i \in 1 .. Attempts : fates[i] = "lost"}
<1>1. last \in 1 .. Attempts /\ (fates[1] = "taken" => last = 1)
  BY LastFound
<1>2. /\ orders \in Nat /\ (fates[last] = "taken" => orders > 0) /\ (c.keyed => orders <= 1)
      /\ lost = {} => orders <= 1 /\ (orders > 0 => fates[last] = "taken")
  BY OrdersFound
<1>3. c.address \subseteq config \/ \A i \in 1 .. Attempts : fates[i] = "unreachable"
  BY DEF Delivering!Possible
<1>4. 1 \in 1 .. Attempts
  OBVIOUS
<1>5. CASE c = Delivering!PartnerApiChannel /\ ~(c.address \subseteq config)
  <2>1. d = [report |-> "raised", orders |-> 0]
    BY <1>5 DEF Delivering!Deliver
  <2>2. fates[1] # "taken"
    BY <1>3, <1>4, <1>5
  <2> HIDE DEF d, last, orders
  <2> QED BY <1>5, <2>1, <2>2 DEF Reported, d
<1>6. CASE /\ ~(c = Delivering!PartnerApiChannel /\ ~(c.address \subseteq config))
           /\ ~(c.needed \subseteq config)
  <2>1. d = [report |-> "FAILED", orders |-> 0]
    BY <1>6 DEF Delivering!Deliver
  <2> HIDE DEF d, last, orders
  <2> QED BY <1>6, <2>1, HealthyLacks DEF Reported, d
<1>7. CASE /\ ~(c = Delivering!PartnerApiChannel /\ ~(c.address \subseteq config))
           /\ c.needed \subseteq config /\ c = Delivering!MockChannel
  <2>1. d = [report |-> "SENT", orders |-> 1]
    BY <1>7 DEF Delivering!Deliver
  <2>2. c.address = {}
    BY <1>7, ChannelsKnown
  <2> HIDE DEF d, last, orders
  <2> QED BY <1>7, <2>1, <2>2 DEF Reported, d
<1>8. CASE /\ ~(c = Delivering!PartnerApiChannel /\ ~(c.address \subseteq config))
           /\ c.needed \subseteq config /\ c # Delivering!MockChannel
  <2>1. d.report = Delivering!Outcome(fates[last]) /\ d.orders = orders
    BY <1>8 DEF Delivering!Deliver
  <2>2. /\ d.report = "SENT" => fates[last] \in {"taken", "moved"}
        /\ d.report # "SENT" => fates[last] \notin {"taken", "moved"}
        /\ d.report # "raised"
    BY <2>1 DEF Delivering!Outcome
  <2> HIDE DEF d, last, orders
  <2>3. d.report = "SENT" => c.address \subseteq config
    BY <1>1, <1>3, <2>2
  <2>4. fates[1] = "taken" => d.report = "SENT"
    BY <1>1, <2>2
  <2>5. d.report = "SENT" => d.orders > 0 \/ fates[last] = "moved"
    BY <1>2, <2>1, <2>2
  <2>6. d.orders > 1 => ~c.keyed /\ lost # {}
    <3> HIDE DEF lost
    <3> QED BY <1>2, <2>1
  <2>7. d.report # "SENT" /\ d.orders > 0 => lost # {}
    <3> HIDE DEF lost
    <3> QED BY <1>2, <2>1, <2>2
  <2> QED BY <1>8, <2>2, <2>3, <2>4, <2>5, <2>6, <2>7 DEF Reported, d, last
<1> QED BY <1>5, <1>6, <1>7, <1>8

\* An answer is read by a reference it carries, ours before theirs but for the API.
LEMMA AnswerRight ==
    ASSUME NEW c \in Delivering!Channels, NEW answer \in Delivering!Answers,
           NEW update \in Delivering!ParseInbound(c, answer)
    PROVE  /\ answer.ref[update.by]
           /\ update.by = "external_ref" /\ answer.ref["request_ref"]
                => c = Delivering!PartnerApiChannel
           /\ update.outcome = "FAILED" <=> answer.word \in {"rejected", "failed"}
<1> DEFINE there == {i \in DOMAIN c.refs : answer.ref[c.refs[i]]}
           least == Delivering!Min(there)
<1>1. PICK o \in Delivering!INBOUND_STATUS(answer.word) :
        there # {} /\ update = [by |-> c.refs[least], outcome |-> o]
  BY DEF Delivering!ParseInbound
<1>2. there \in SUBSET (1 .. 2)
  BY ChannelsKnown
<1>3. least \in there /\ \A i \in there : least <= i
  <2> HIDE DEF there
  <2> QED BY <1>1, <1>2, LeastFound
<1>4. answer.ref[update.by]
  BY <1>1, <1>3
<1>5. ASSUME update.by = "external_ref", answer.ref["request_ref"], c # Delivering!PartnerApiChannel
      PROVE  FALSE
  <2>1. c.refs \in {<<"request_ref">>, <<"request_ref", "external_ref">>}
    BY <1>5, ChannelsKnown
  <2>2. 1 \in DOMAIN c.refs /\ c.refs[1] = "request_ref"
    BY <2>1
  <2>3. 1 \in there
    BY <1>5, <2>2
  <2>4. least = 1
    <3> HIDE DEF there, least
    <3> QED BY <1>2, <1>3, <2>3
  <2> QED BY <1>1, <1>5, <2>2, <2>4
<1>6. update.outcome = "FAILED" <=> answer.word \in {"rejected", "failed"}
  BY <1>1 DEF Delivering!INBOUND_STATUS, Delivering!Answers
<1> QED BY <1>4, <1>5, <1>6

LEMMA QuestionsKnown ==
    ASSUME NEW q \in Delivering!Questions
    PROVE  /\ q.channel \in Delivering!Channels
           /\ q.of = "delivery" =>
                /\ q.fates \in [1 .. Attempts -> Delivering!Fates]
                /\ \A i \in 1 .. Attempts : Delivering!Possible(q.channel, q.config, q.fates[i])
           /\ q.of = "answer" => q.answer \in Delivering!Answers
<1>1. CASE q \in Delivering!Deliveries
  <2>1. PICK c \in Delivering!Channels :
          q \in {[of |-> "delivery", channel |-> c, config |-> config, fates |-> fates] :
                    config \in SUBSET (c.needed \cup c.address),
                    fates \in [1 .. Attempts -> Delivering!Fates]}
    BY <1>1 DEF Delivering!Deliveries
  <2>2. q.channel = c /\ q.of = "delivery" /\ q.fates \in [1 .. Attempts -> Delivering!Fates]
    BY <2>1
  <2>3. \A i \in 1 .. Attempts : Delivering!Possible(q.channel, q.config, q.fates[i])
    BY <2>2 DEF Delivering!Questions
  <2> QED BY <2>1, <2>2, <2>3
<1>2. CASE q \in [of : {"answer"}, channel : Delivering!Channels, answer : Delivering!Answers]
  BY <1>2
<1> QED BY <1>1, <1>2 DEF Delivering!Questions

LEMMA DeliveriesTold ==
    ASSUME Attempts \in Nat \ {0}, input \subseteq Delivering!Questions
    PROVE  Delivering!DeliveriesReported
<1> SUFFICES ASSUME NEW q \in input
             PROVE  /\ q.of = "delivery" =>
                         Reported(q.channel, q.config, q.fates,
                                  Delivering!Deliver(q.channel, q.config, q.fates))
                    /\ q.of = "answer" =>
                         \A update \in Delivering!ParseInbound(q.channel, q.answer) :
                           /\ q.answer.ref[update.by]
                           /\ update.by = "external_ref" /\ q.answer.ref["request_ref"]
                                => q.channel = Delivering!PartnerApiChannel
                           /\ update.outcome = "FAILED" <=> q.answer.word \in {"rejected", "failed"}
  BY DEF Delivering!DeliveriesReported, Reported
<1>1. q \in Delivering!Questions
  OBVIOUS
<1> QED BY <1>1, QuestionsKnown, DeliveryRight, AnswerRight

----------------------------------------------------------------------------
(***************************************************************************)
(* The parts side by side.                                                 *)
(***************************************************************************)

\* Each part moves alone.
LEMMA PartsStep ==
    ASSUME [MCNext]_all
    PROVE  /\ [Next]_vars /\ [Keys!Next]_keyVars /\ [List!Next]_listVars /\ [Forget!Next]_textVars
           /\ part' = part
BY DEF MCNext, Asking, all, vars, keyVars, listVars, textVars

\* What is asked is a question of its part: about access, the claims a token can have.
Questioned ==
    /\ part = "access" => Accessing!TypeOK
    /\ part = "sla" => input \subseteq Deadlines!Questions
    /\ part = "selection" => input \subseteq Selecting!Questions
    /\ part = "channels" => input \subseteq Delivering!Questions

LEMMA QuestionedStep == ASSUME Questioned, [MCNext]_all PROVE Questioned'
<1>1. CASE UNCHANGED all
  BY <1>1 DEF all, Questioned, Accessing!TypeOK
<1>2. CASE MCNext
  <2>1. CASE part = "access"
    BY <1>2, <2>1 DEF MCNext, Asking, Asked, Accessing!Next, Accessing!TypeOK, Questioned
  <2>2. CASE part = "selection"
    BY <1>2, <2>2 DEF MCNext, Asking, Asked, Selecting!Next, Questioned
  <2>3. CASE part = "channels"
    BY <1>2, <2>3 DEF MCNext, Asking, Asked, Delivering!Next, Questioned
  <2>4. CASE part = "sla"
    BY <1>2, <2>4 DEF MCNext, Asking, Asked, Deadlines!Next, Questioned
  <2>5. CASE part \notin Asked
    BY <1>2, <2>5 DEF MCNext, Asked, Questioned
  <2> QED BY <2>1, <2>2, <2>3, <2>4, <2>5 DEF Asked
<1> QED BY <1>1, <1>2

Invariant == CallsInv /\ KeysInv /\ PagesInv /\ TextsInv /\ Questioned

LEMMA ServicesInvariant == MCSpec => []Invariant
<1>1. MCInit => Invariant
  <2> SUFFICES ASSUME MCInit PROVE Invariant
    OBVIOUS
  <2>1. CallsInv /\ KeysInv /\ PagesInv /\ TextsInv
    BY InitCalls, InitKeys, InitPages, InitTexts, ServicesAssumption DEF MCInit
  <2>2. Questioned
    BY DEF MCInit, Questioned, Accessing!TypeOK
  <2> QED BY <2>1, <2>2 DEF Invariant
<1>2. Invariant /\ [MCNext]_all => Invariant'
  BY PartsStep, StepCalls, StepKeys, StepPages, StepTexts, QuestionedStep, ServicesAssumption
     DEF Invariant
<1> QED BY <1>1, <1>2, PTL DEF MCSpec

\* The state has its types, for any values of the settings.
THEOREM TypeCorrect == MCSpec => []TypesOK
<1>1. Invariant => TypesOK
  BY DEF Invariant, CallsInv, KeysInv, PagesInv, TextsInv, Questioned, TypesOK
<1> QED BY <1>1, ServicesInvariant, PTL

\* Whatever the lifetimes, the timeouts and the length of fetches and calls: a token from
\* the cache expires under a call no earlier than when fetch and call have used up the
\* skew.
THEOREM SkewCoversHolds == MCSpec => []SkewCovers
<1>1. CallsInv => SkewCovers
  <2> SUFFICES ASSUME CallsInv, call.bearer.kept, call.bearer.live = 0
               PROVE  call.bearer.spent = Skew
    BY DEF SkewCovers
  <2>1. call.bearer \in Bearers /\ BearerOK(call.bearer)
    BY CallTypes DEF CallsInv, CallOK, CallStates
  <2> QED BY <2>1, Constants DEF Bearers, BearerOK
<1>2. Invariant => CallsInv
  BY DEF Invariant
<1> QED BY <1>1, <1>2, ServicesInvariant, PTL

\* A list from the cache is outdated for less than the time it is kept and the longest
\* attempt, whatever other requests store and however late an answer comes.
THEOREM ListFreshHolds == MCSpec => []ListFresh
<1>1. CallsInv => ListFresh
  <2>1. ASSUME CallsInv PROVE cache.left \in 0 .. CacheTtl /\ cache.old \in Current .. Stale
    BY <2>1, CallTypes DEF CallsInv, CachedLists
  <2> QED BY <2>1, Constants DEF CallsInv, ListOK, ListFresh
<1>2. Invariant => CallsInv
  BY DEF Invariant
<1> QED BY <1>1, <1>2, ServicesInvariant, PTL

\* A neighbour that keeps failing is left alone for the whole pause, however calls,
\* pauses and probes follow each other.
THEOREM BreakerQuietHolds == MCSpec => BreakerQuiet
<1>1. Invariant /\ [MCNext]_all => [Quiet]_vars
  BY PartsStep, StepCalls DEF Invariant
<1> QED BY <1>1, ServicesInvariant, PTL DEF MCSpec, BreakerQuiet, Quiet

\* However keys are rotated and answers overtake each other: a token is not accepted
\* longer than the cache and one fetch allow, and none is refused whose key was there
\* all the time.
THEOREM VerdictsSoundHolds == MCSpec => []VerdictsSound
<1>1. Invariant => VerdictsSound
  BY DEF Invariant, KeysInv
<1> QED BY <1>1, ServicesInvariant, PTL

\* A walk through any table, with any limit and whatever is inserted and changed on
\* the way, shows its rows in order, each once, and every one that matched throughout.
THEOREM PagesSoundHolds == MCSpec => []PagesSound
<1>1. Invariant => PagesSound
  BY PagesInvSound DEF Invariant
<1> QED BY <1>1, ServicesInvariant, PTL

\* However many workers race, die and meet the handlers: a personal text is gone
\* exactly when its one entry of the history says so, and never before its time.
THEOREM ForgottenOnceHolds == MCSpec => []ForgottenOnce
<1>1. Invariant => ForgottenOnce
  BY DEF Invariant, TextsInv
<1> QED BY <1>1, ServicesInvariant, PTL

\* The five promises of Access hold of every caller a token can make, for any users,
\* partners and agents.
THEOREM AccessSoundHolds == MCSpec => []AccessSound
<1>1. AccessSound
  BY PromisesKept DEF AccessSound
<1> QED BY <1>1, PTL

\* Whatever the instants of a stage and of its pauses and whichever columns are garbled:
\* neither waiting nor progress makes a card better but for a stage that is done, a pause
\* never makes it worse, and a breach is seen by the scan one instant later, unless a
\* deadline that is no date ends the scan.
THEOREM StatesSoundHolds == MCSpec => []StatesSound
<1>1. Invariant => StatesSound
  BY StatesRight, ServicesAssumption DEF Invariant, Questioned, StatesSound
<1> QED BY <1>1, ServicesInvariant, PTL

\* Whatever the model answers, however many keywords of each kind a text has and for any
\* threshold: the pipeline goes on by itself only with the category that all keywords
\* are of or with the one the model named, and with a guess if the threshold is no
\* higher than what a guess is worth; nothing comes out only of the replies that raise.
THEOREM CategoriesSoundHolds == MCSpec => []CategoriesSound
<1>1. Invariant => CategoriesSound
  BY CategoriesDecided, ServicesAssumption DEF Invariant, Questioned, CategoriesSound
<1> QED BY <1>1, ServicesInvariant, PTL

\* With any number of attempts, whatever becomes of each on the way there and back:
\* SENT is reported only of what the partner has or answered by a redirect, and an
\* order that is repeated or unreported is the work of a lost answer.
THEOREM DeliveriesReportedHolds == MCSpec => []DeliveriesReported
<1>1. Invariant => DeliveriesReported
  BY DeliveriesTold, Constants DEF Invariant, Questioned, DeliveriesReported
<1> QED BY <1>1, ServicesInvariant, PTL

\* For every calendar with hours and days, any start, amount and horizon, and a clock
\* that is changed at any instant or not at all: a deadline leaves exactly the business
\* hours promised and is not later than it must be, off by at most the changed hour
\* when that is a business hour; and none is given only when the horizon is too short.
THEOREM DeadlinesRightHolds == MCSpec => []DeadlinesRight
<1>1. Invariant => DeadlinesRight
  BY DeadlinesKept, ServicesAssumption DEF Invariant, Questioned, DeadlinesRight
<1> QED BY <1>1, ServicesInvariant, PTL

\* Any entries of the registry, any category and area of the test partners, by way of
\* a ranking that is right for any number of partners: a partner and a chain that are
\* all who could take the request, each as often as the list has it, the better one
\* never behind.
THEOREM MatchesSoundHolds == MCSpec => []MatchesSound
<1>1. Invariant => MatchesSound
  BY MatchesFound DEF Invariant, Questioned, MatchesSound
<1> QED BY <1>1, ServicesInvariant, PTL
=============================================================================
