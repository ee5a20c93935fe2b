----------------------------- MODULE Selection -----------------------------
(***************************************************************************)
(* classifier/ and matching/: which category a text gets and how sure that *)
(* is, and which partner a request of a category gets and who comes next.  *)
(*                                                                         *)
(* A text is the number of keywords of each category found in it.  The     *)
(* model (YandexGPT) and the registry (kb-platform, or the test partners   *)
(* of clients/platform/fixtures.py) may answer anything.                   *)
(***************************************************************************)
EXTENDS Integers, Sequences, SequencesExt

CONSTANTS
    Confidences,  \* what the model may call its confidence, in per cent
    NotANumber,   \* and the NaN that json.loads lets through
    ConfidenceThreshold,  \* classifier_confidence_threshold, in per cent
    MaxHits       \* bound: keywords found of one category

VARIABLE input  \* the question asked; {} before there is one

\* The keys of _KEYWORDS in their order.
Rules == <<"CLEANING", "MOVING", "REPAIR", "KEY_DELIVERY">>
Category == ToSet(Rules) \cup {"OTHER"}

RULES_CONFIDENCE == 90
AMBIGUOUS_CONFIDENCE == 40

SelectionAssumption ==
    /\ ConfidenceThreshold \in 0 .. 100
    /\ Confidences \subseteq Int /\ NotANumber \in Int /\ MaxHits \in Nat

----------------------------------------------------------------------------
\* The replies that raise out of the provider: a body that is not JSON, a completion
\* whose text is null or no string (text.strip() of _strip_fences), and one whose
\* confidence is an integer too large for float(); _parse catches none of these.
Raising == {"not_json", "no_text", "too_large"}

\* A reply of the model: no provider configured, no answer or one of 400 and more, one
\* that raises, one of another shape, or a completion with a category and a confidence.
Replies ==
    [status : {"unconfigured", "unavailable", "misshapen"} \cup Raising]
      \cup [status : {"completion"}, category : Category \cup {"unknown"},
            confidence : Confidences \cup {NotANumber}]

\* max(0.0, min(1.0, confidence)): a NaN is not below 1.0.
Clamped(c) == IF c = NotANumber \/ c > 100 THEN 100 ELSE IF c < 0 THEN 0 ELSE c

\* YandexGptProvider.classify and _parse, NullLLMProvider, of a reply that does not raise.
Parsed(reply) ==
    IF reply.status = "completion" /\ reply.category \in Category
    THEN {[category |-> reply.category, confidence |-> Clamped(reply.confidence)]} ELSE {}

\* Mutant: the rules decide when one category is ahead of the others.
Matched_ahead(hits) ==
    LET found == {i \in DOMAIN Rules : hits[i] > 0}
        ahead == {i \in found : \A j \in found \ {i} : hits[j] < hits[i]}
    IN  IF ahead # {} THEN ahead ELSE found

\* The categories that the text has a keyword of.
Matched(hits) == {i \in DOMAIN Rules : hits[i] > 0}

\* max over matched: the first of those with most hits.
Best(hits) ==
    CHOOSE i \in Matched(hits) :
        \A j \in Matched(hits) : hits[j] < hits[i] \/ (hits[j] = hits[i] /\ i <= j)

\* ClassifierEngine.classify; {} stands for an exception of the provider.
Classify(hits, reply) ==
    LET matched == Matched(hits)
        rules(category, confidence) == {[category |-> category, confidence |-> confidence]}
    IN  IF \E i \in matched : matched = {i}
        THEN rules(Rules[CHOOSE i \in matched : TRUE], RULES_CONFIDENCE)
        ELSE IF reply.status \in Raising THEN {}
        ELSE IF Parsed(reply) # {} THEN Parsed(reply)
        ELSE IF matched # {} THEN rules(Rules[Best(hits)], AMBIGUOUS_CONFIDENCE)
        ELSE rules("OTHER", 0)

\* ClassificationService.classify: whether the pipeline goes on by itself.
Confident(outcome) == outcome.confidence >= ConfidenceThreshold /\ outcome.category # "OTHER"

----------------------------------------------------------------------------
\* An entry of the registry as it is sent: flags and the rating may be missing, an
\* entry without id, name or category is malformed.
Entry(id, rating, areas) ==
    [id |-> id, whole |-> TRUE, category |-> "MOVING", is_active |-> {TRUE}, available |-> {TRUE},
     rating |-> rating, service_areas |-> areas, channels |-> <<"api", "email">>]

Entries(id) ==
    LET good == Entry(id, {3}, {"msk"})
    IN  {Entry(id, r, a) : r \in {{}, {0}, {5}}, a \in {{}, {"msk"}, {"spb"}}}
          \cup {[good EXCEPT !.whole = FALSE], [good EXCEPT !.category = "REPAIR"],
                [good EXCEPT !.is_active = {}], [good EXCEPT !.available = {FALSE}],
                [good EXCEPT !.channels = <<>>], [good EXCEPT !.channels = <<"email">>]}

\* _map_candidate.
Candidate(e) ==
    [id |-> e.id, category |-> e.category, is_active |-> TRUE \in e.is_active,
     available |-> TRUE \in e.available, rating |-> e.rating, service_areas |-> e.service_areas,
     channels |-> e.channels]

\* search_candidates: the list of the registry, entry by entry, by their places in it; a
\* malformed entry is passed over, one that comes twice is kept twice.
Candidates(entries) == [i \in {n \in DOMAIN entries : entries[n].whole} |-> Candidate(entries[i])]

\* TEST_PARTNERS; their names in alphabetical order are the ids.
TestPartner(id, category, areas, rating, channels) ==
    [id |-> id, category |-> category, is_active |-> TRUE, available |-> TRUE, rating |-> {rating},
     service_areas |-> areas, channels |-> channels]

PROFI_AGGREGATOR_ID == 5
PROFI_AGGREGATOR_CATEGORIES == {"CLEANING", "MOVING", "REPAIR"}

TEST_PARTNERS ==
    <<TestPartner(1, "CLEANING", {"msk", "spb"}, 5, <<"telegram", "email">>),
      TestPartner(2, "MOVING", {"msk"}, 5, <<"telegram", "email">>),
      TestPartner(3, "MOVING", {"spb"}, 5, <<"telegram", "email">>),
      TestPartner(4, "REPAIR", {"spb", "msk"}, 5, <<"telegram", "email">>),
      TestPartner(PROFI_AGGREGATOR_ID, "CLEANING", {"msk", "spb"}, 3, <<"api">>)>>

\* FixturePlatformClient.search_candidates: the aggregator is offered under the
\* category that is asked for.
FixtureCandidates(category) ==
    [i \in {n \in DOMAIN TEST_PARTNERS :
              IF TEST_PARTNERS[n].id = PROFI_AGGREGATOR_ID
              THEN category \in PROFI_AGGREGATOR_CATEGORIES ELSE TEST_PARTNERS[n].category = category}
       |-> [TEST_PARTNERS[i] EXCEPT !.category = category]]

\* Matcher._is_eligible; the area asked for may be {}.
Eligible(c, category, area) ==
    /\ c.category = category
    /\ c.is_active /\ c.available
    /\ c.channels # <<>>
    /\ c.service_areas = {} \/ area \subseteq c.service_areas

Rating(c) == IF c.rating = {} THEN 0 ELSE CHOOSE r \in c.rating : TRUE

\* Mutant: the better rating comes last.
Before_worst(c, d) == Rating(c) < Rating(d) \/ (Rating(c) = Rating(d) /\ c.id < d.id)

\* The sort key of rank.
Before(c, d) == Rating(c) > Rating(d) \/ (Rating(c) = Rating(d) /\ c.id < d.id)

\* sorted: the places in their order, entries of one key as they come in the list.
Ranked(candidates, places) ==
    CHOOSE s \in SetToSeqs(places) :
        \A m, n \in DOMAIN s : m < n =>
            \/ Before(candidates[s[m]], candidates[s[n]])
            \/ ~Before(candidates[s[n]], candidates[s[m]]) /\ s[m] < s[n]

Fit(candidates, category, area) ==
    {i \in DOMAIN candidates : Eligible(candidates[i], category, area)}

\* Matcher.rank: {} stands for None.
Rank(candidates, category, area) ==
    LET ranked == Ranked(candidates, Fit(candidates, category, area))
        id(n)  == candidates[ranked[n]].id
    IN  IF ranked = <<>> THEN {}
        ELSE {[partner_id |-> id(1), delivery_channel |-> candidates[ranked[1]].channels[1],
               fallback_chain |-> [n \in 1 .. Len(ranked) - 1 |-> id(n + 1)]]}

----------------------------------------------------------------------------
Questions ==
    [of : {"category"}, hits : [DOMAIN Rules -> 0 .. MaxHits], reply : Replies]
      \cup [of : {"registry"}, area : {{}, {"msk"}},
            entries : {<<a, b, c>> : a \in Entries(2), b \in Entries(1), c \in Entries(1) \cup Entries(3)}]
      \cup [of : {"fixtures"}, category : Category, area : {{}, {"msk"}, {"spb"}}]

Init == input = {}
Next == /\ input = {}
        /\ \E q \in Questions : input' = {q}
Spec == Init /\ [][Next]_input
----------------------------------------------------------------------------
\* Texts that speak of two things, a model that is down, answers nonsense or is sure
\* of itself beyond measure: a text of one thing is classified whatever the model does,
\* and any text when the reply is none of Raising; the pipeline goes on without a human
\* only when all the keywords of the text are of the category it got, or the model has
\* named it, or the threshold is so low that a guess passes; a text of one thing needs no
\* human, unless the threshold is beyond what rules are worth; and a category but OTHER
\* that the model has not named is one of which the text has most keywords.
CategoriesSound ==
    \A q \in input : q.of = "category" =>
        LET outcomes == Classify(q.hits, q.reply)
            of(category) == \E i \in DOMAIN Rules : Rules[i] = category /\ q.hits[i] > 0
            alone(category) == of(category) /\ \A other \in Category \ {category} : ~of(other)
            named(category) == q.reply.status = "completion" /\ q.reply.category = category
            guessed(category) == of(category) /\ ConfidenceThreshold <= AMBIGUOUS_CONFIDENCE
        IN  /\ outcomes = {} => q.reply.status \in Raising /\ \A c \in Category : ~alone(c)
            /\ \A o \in outcomes :
                 /\ Confident(o) =>
                      \/ alone(o.category)
                      \/ (named(o.category) \/ guessed(o.category)) /\ \A c \in Category : ~alone(c)
                 /\ alone(o.category) /\ ConfidenceThreshold <= RULES_CONFIDENCE => Confident(o)
                 /\ ~named(o.category) /\ o.category # "OTHER"
                      => \E i \in DOMAIN Rules :
                           Rules[i] = o.category /\ \A j \in DOMAIN Rules : q.hits[j] <= q.hits[i]

\* The docstring of _parse, "Любая ошибка формата -> None" (any error of the format is
\* None): no reply of the model raises, and every text gets a category.
FormatErrorsDegrade ==
    \A q \in input : q.of = "category" => Classify(q.hits, q.reply) # {}

\* The promise of a ranking: a partner and a chain that are the entries which could take
\* the request, each as often as the list has it, no better one behind a worse, and the
\* first channel of the very entry that is asked first; so a partner is in it twice
\* exactly when the list has him twice among those who could.
Ranking(candidates, category, area) ==
    LET fit     == Fit(candidates, category, area)
        results == Rank(candidates, category, area)
    IN  /\ results = {} <=> fit = {}
        /\ \A m \in results :
             LET line == <<m.partner_id>> \o m.fallback_chain
             IN  /\ \E order \in SetToSeqs(fit) :
                      /\ DOMAIN order = DOMAIN line
                      /\ \A n \in DOMAIN line : line[n] = candidates[order[n]].id
                      /\ \A n, o \in DOMAIN line : n < o =>
                           Rating(candidates[order[n]]) >= Rating(candidates[order[o]])
                      /\ m.delivery_channel = candidates[order[1]].channels[1]
                 /\ IsInjective(line) <=>
                      \A i, j \in fit : candidates[i].id = candidates[j].id => i = j

\* Registries with partners that are asleep, without a channel, without a rating, of
\* another area, malformed or listed twice: Ranking holds, whatever is missing in an
\* entry, and whoever is asked has an entry that is whole, awake and has a channel; and
\* the aggregator of the test partners is asked last, and never alone.
MatchesSound ==
    \A q \in input :
        /\ q.of = "registry" =>
             /\ Ranking(Candidates(q.entries), "MOVING", q.area)
             /\ \A m \in Rank(Candidates(q.entries), "MOVING", q.area) :
                  \E i \in DOMAIN q.entries :
                      LET e == q.entries[i]
                      IN  /\ e.id = m.partner_id
                          /\ e.whole /\ e.is_active = {TRUE} /\ e.available = {TRUE} /\ e.channels # <<>>
        /\ q.of = "fixtures" =>
             LET candidates == FixtureCandidates(q.category)
             IN  /\ Ranking(candidates, q.category, q.area)
                 /\ \A m \in Rank(candidates, q.category, q.area) :
                      LET line == <<m.partner_id>> \o m.fallback_chain
                      IN  Len(line) > 1 /\ line[Len(line)] = PROFI_AGGREGATOR_ID
============================================================================
