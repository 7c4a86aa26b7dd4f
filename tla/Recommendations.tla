--------------------------- MODULE Recommendations ---------------------------
(***************************************************************************)
(* GET /me/recommendations: RecommendationService.recommend reads the       *)
(* candidates and the company's signals in statements of their own, embeds  *)
(* the signals' texts through the process's LRU cache, searches the titles, *)
(* scores every candidate and answers the best of each title.  Requests     *)
(* overlap, in threads that share the cache.                                *)
(* A text's vector is the text; scores are integers in units of 1 / Unit    *)
(* (the code uses floats and rounds the total to six places).               *)
(***************************************************************************)
EXTENDS BidTables

CONSTANTS
    Requests,
    Limits,        \* the numbers of bids clients ask for
    Cosine(_, _),  \* the search's score of a text for a title, 0: no hit
    PerSource,     \* _MAX_PER_SOURCE
    MaxSignals,    \* _MAX_SIGNALS
    CacheSize,     \* _EMBEDDING_CACHE_SIZE
    TicksPerDay,
    BlankTitle     \* a title of blanks

(* What signals and titles say.                                             *)
Phrases ==
    ({content.title : content \in Contents} \ {Null})
    \cup UNION {ToSet(p.contracts) \cup p.items \cup p.licenses : p \in Profiles}

SourceNames == {"scraps", "performance", "items", "licenses"}

ASSUME RecommendationsAssumption ==
    /\ {PerSource, MaxSignals, CacheSize, TicksPerDay} \subseteq Nat \ {0}
    /\ Limits \subseteq Nat \ {0}
    /\ \A x, y \in Phrases : Cosine(x, y) \in Nat
    /\ Null \notin [score : Nat, source : SourceNames]

VARIABLES
    cache,  \* _store: texts with their vectors, the least recently used first
    ask     \* the requests

askVars == <<cache, ask>>

Unit == 1000

Sources == <<"scraps", "performance", "items", "licenses">>
(* SIGNAL_WEIGHT in tenths.                                                 *)
Weight(source) ==
    CASE source = "scraps" -> 10 [] source = "performance" -> 7
      [] source = "items" -> 5 [] source = "licenses" -> 4

(* The SELECTs: the candidates, the four sources, the codes, the amounts.   *)
Selects == 1..7
AskType ==
    [phase : {"new", "reading", "looking", "embedding", "searching", "scoring", "done",
              "unavailable"},
     limit : Limits \cup {0}, at : 0..MaxTime, select : Selects,
     candidates : UNION {[D -> [bid : Contents, match : Judgements]] : D \in SUBSET Bids},
     signals : Seq([text : Phrases, source : SourceNames]),
     codes : UNION {SUBSET p.codes : p \in Profiles},
     amounts : UNION {SUBSET p.amounts : p \in Profiles},
     vectors : Seq(Phrases \cup {Null}), missing : Seq(Phrases),
     answer : Seq([bid : Bids, score : Int, source : SourceNames \cup {Null}])]

AsksOK ==
    /\ cache \in Seq([text : Phrases, vector : Phrases])
    /\ ask \in [Requests -> AskType]

New == [phase |-> "new", limit |-> 0, at |-> 0, select |-> 1, candidates |-> <<>>,
        signals |-> <<>>, codes |-> {}, amounts |-> {}, vectors |-> <<>>, missing |-> <<>>,
        answer |-> <<>>]

AskInit ==
    /\ cache = <<>>
    /\ ask = [r \in Requests |-> New]

-----------------------------------------------------------------------------
(* RecommendationRepository.                                                *)

(* list_eligible_candidates.                                                *)
Candidate(b, t) ==
    /\ matches[b] # Null /\ matches[b].verdict # "infeasible"
    /\ Visible(b) /\ OpenAt(b, t)
    /\ bids[b].title # Null
    /\ b \notin ToSet(scraps)

Candidates(t) ==
    [b \in {c \in Bids : Candidate(c, t)} |-> [bid |-> bids[b], match |-> matches[b]]]

FirstOf(s) == SubSeq(s, 1, Min({PerSource, Len(s)}))

(* LIMIT without ORDER BY: any of them.                                     *)
SomeOf(S) == {FirstOf(s) : s \in SetToSeqs(S)}

(* The titles of the scraped bids, the latest first.                        *)
ScrapTitles ==
    FoldLeft(LAMBDA titles, b : IF bids[b] = Null \/ bids[b].title = Null THEN titles
                                ELSE Append(titles, bids[b].title),
             <<>>, Reverse(scraps))

(* dict.fromkeys of what is not out.                                        *)
Distinct(s, out) ==
    FoldLeft(LAMBDA seen, x : IF x \in ToSet(seen) \cup out THEN seen ELSE Append(seen, x),
             <<>>, s)

(* The texts of a source, as its SELECT may return them.                    *)
Texts(source) ==
    CASE source = "scraps" -> {FirstOf(ScrapTitles)}
      [] source = "performance" -> {FirstOf(profile.contracts)}
      [] source = "items" -> SomeOf(profile.items)
      [] source = "licenses" -> SomeOf(profile.licenses)

(* _clean, and the source of each text.                                     *)
Signals(texts, source) ==
    LET clean == Distinct(texts, {BlankTitle})
    IN  [i \in DOMAIN clean |-> [text |-> clean[i], source |-> source]]

-----------------------------------------------------------------------------
(* recommendation_scoring: what a candidate is worth.                       *)

Least(a, b) == Min({a, b})
Most(a, b) == Max({a, b})

Interest(hit) == IF hit = Null THEN 0 ELSE (Least(Unit, hit.score) * Weight(hit.source)) \div 10

Eligibility(match) ==
    LET base == CASE match.verdict = "feasible" -> Unit
                  [] match.verdict = "fixable" -> (6 * Unit) \div 10
                  [] OTHER -> Unit \div 4
    IN  IF match.required = 0 THEN base
        ELSE (base + Least(Unit, (match.satisfied * Unit) \div match.required)) \div 2

Capability(codes, required) ==
    IF required = {} THEN Unit \div 2
    ELSE (Cardinality(codes \cap required) * Unit) \div Cardinality(required)

Scale(budget, amounts) ==
    IF budget \in {Null, 0} \/ amounts = {} THEN Unit \div 2
    ELSE LET capacity == Max(amounts)
         IN  IF 10 * budget < 3 * capacity
             THEN Most((3 * Unit) \div 10, (10 * budget * Unit) \div (3 * capacity))
             ELSE IF budget <= 2 * capacity THEN Unit
             ELSE Most(0, Unit - ((budget - 2 * capacity) * Unit) \div (8 * capacity))

Freshness(closes, t) ==
    LET left == closes - t
    IN  IF closes = Null THEN Unit \div 2
        ELSE IF left < 0 THEN 0
        ELSE IF left <= 2 * TicksPerDay THEN (3 * Unit) \div 10
        ELSE IF left <= 14 * TicksPerDay THEN Unit
        ELSE Most((4 * Unit) \div 10,
                  Unit - ((left - 14 * TicksPerDay) * Unit) \div (60 * TicksPerDay))

(* score_bid: the weighted sum, in hundredths of a unit.                    *)
Score(a, b, hit) ==
    LET bid == a.candidates[b].bid
    IN    35 * Interest(hit) + 25 * Eligibility(a.candidates[b].match)
        + 20 * Capability(a.codes, bid.licenses) + 10 * Scale(bid.budget, a.amounts)
        + 10 * Freshness(bid.closes, a.at)

-----------------------------------------------------------------------------
(* RecommendationService.                                                   *)

(* By falling score, then bid_id.                                           *)
Ahead(score, b, c) == score[b] > score[c] \/ (score[b] = score[c] /\ b < c)

(* search_titles_many: for a vector, the best candidates up to its width.   *)
Width(a) == Least(Cardinality(DOMAIN a.candidates), Most(5 * Most(3 * a.limit, 30), 50))
Hits(a, vector) ==
    LET score == [b \in DOMAIN a.candidates |-> Cosine(vector, a.candidates[b].bid.title)]
        found == {b \in DOMAIN score : score[b] > 0}
    IN  {b \in found : Cardinality({c \in found : Ahead(score, c, b)}) < Width(a)}

(* _best_interest: the strongest signal that found a bid, the first of      *)
(* equals, with its score.                                                  *)
BestHitUnweighted(a, b) ==   \* mutant
    FoldLeftDomain(LAMBDA best, i :
        LET hit == [score |-> Cosine(a.vectors[i], a.candidates[b].bid.title),
                    source |-> a.signals[i].source]
        IN  IF b \notin Hits(a, a.vectors[i]) THEN best
            ELSE IF best = Null \/ hit.score > best.score THEN hit ELSE best,
        Null, a.signals)

BestHit(a, b) ==
    FoldLeftDomain(LAMBDA best, i :
        LET hit == [score |-> Cosine(a.vectors[i], a.candidates[b].bid.title),
                    source |-> a.signals[i].source]
        IN  IF b \notin Hits(a, a.vectors[i]) THEN best
            ELSE IF best = Null \/ hit.score * Weight(hit.source) > best.score * Weight(best.source)
            THEN hit ELSE best,
        Null, a.signals)

(* recommend: by falling score, then bid_id; one bid of each title.         *)
Ranked(a, score) ==
    CHOOSE s \in SetToSeqs(DOMAIN a.candidates) :
        \A i, j \in DOMAIN s : i < j => Ahead(score, s[i], s[j])

ItemsOfTheFirst(a, ranked) ==   \* mutant
    LET title(b) == a.candidates[b].bid.title
        add(items, b) == IF title(b) # BlankTitle
                              /\ \E i \in DOMAIN items : title(items[i]) = title(b)
                         THEN items ELSE Append(items, b)
    IN  FoldLeft(add, <<>>, SubSeq(ranked, 1, Least(a.limit, Len(ranked))))

Items(a, ranked) ==
    LET title(b) == a.candidates[b].bid.title
        add(items, b) == IF \/ Len(items) >= a.limit
                            \/ /\ title(b) # BlankTitle
                               /\ \E i \in DOMAIN items : title(items[i]) = title(b)
                         THEN items ELSE Append(items, b)
    IN  FoldLeft(add, <<>>, ranked)

Answer(a) ==
    LET hit == [b \in DOMAIN a.candidates |-> BestHit(a, b)]
        score == [b \in DOMAIN a.candidates |-> Score(a, b, hit[b])]
        items == Items(a, Ranked(a, score))
    IN  [i \in DOMAIN items |-> [bid |-> items[i], score |-> score[items[i]],
                                 source |-> IF hit[items[i]] = Null THEN Null
                                            ELSE hit[items[i]].source]]

-----------------------------------------------------------------------------
(* _EmbeddingCache, under its lock.                                         *)

Cached == {cache[i].text : i \in DOMAIN cache}
VectorOf(text) == cache[SelectInSeq(cache, LAMBDA e : e.text = text)].vector

(* move_to_end.                                                             *)
Use(store, text, vector) ==
    Append(RemoveFirstMatch(store, LAMBDA e : e.text = text), [text |-> text, vector |-> vector])

Touch(texts) ==
    FoldLeft(LAMBDA store, t : IF t \in Cached THEN Use(store, t, VectorOf(t)) ELSE store,
             cache, texts)

Put(texts, vectors) ==
    LET all == FoldLeftDomain(LAMBDA store, i : Use(store, texts[i], vectors[i]), cache, texts)
    IN  SubSeq(all, Most(1, Len(all) - CacheSize + 1), Len(all))

-----------------------------------------------------------------------------
(* A request.                                                               *)

Set(r, a) == ask' = [ask EXCEPT ![r] = a]

(* Without candidates the answer is empty, and nothing else is read.        *)
Begin(r, limit) ==
    LET a == [New EXCEPT !.limit = limit, !.at = now, !.candidates = Candidates(now)]
    IN  /\ ask[r].phase = "new"
        /\ Set(r, IF a.candidates = <<>> THEN [a EXCEPT !.phase = "done"]
                  ELSE [a EXCEPT !.phase = "reading", !.select = 2])
        /\ UNCHANGED <<cache, tableVars>>

SelectTexts(r) ==
    LET a == ask[r]
        source == Sources[a.select - 1]
    IN  /\ a.phase = "reading" /\ a.select <= 5
        /\ \E texts \in Texts(source) :
              Set(r, [a EXCEPT !.select = @ + 1, !.signals = @ \o Signals(texts, source)])
        /\ UNCHANGED <<cache, tableVars>>

SelectCodes(r) ==
    /\ ask[r].phase = "reading" /\ ask[r].select = 6
    /\ Set(r, [ask[r] EXCEPT !.select = 7, !.codes = profile.codes,
                   !.signals = SubSeq(@, 1, Least(MaxSignals, Len(@)))])
    /\ UNCHANGED <<cache, tableVars>>

(* An amount of 0 counts as none.                                           *)
SelectAmounts(r) ==
    /\ ask[r].phase = "reading" /\ ask[r].select = 7
    /\ Set(r, [ask[r] EXCEPT !.phase = IF ask[r].signals = <<>> THEN "scoring" ELSE "looking",
                             !.amounts = profile.amounts \ {0}])
    /\ UNCHANGED <<cache, tableVars>>

TextsOf(a) == [i \in DOMAIN a.signals |-> a.signals[i].text]

(* get_many: what is cached is taken over, the rest is asked for, once.     *)
LookUp(r) ==
    LET texts == TextsOf(ask[r])
        missing == Distinct(texts, Cached)
    IN  /\ ask[r].phase = "looking"
        /\ cache' = Touch(texts)
        /\ Set(r, [ask[r] EXCEPT
               !.vectors = [i \in DOMAIN texts |-> IF texts[i] \in Cached THEN VectorOf(texts[i])
                                                   ELSE Null],
               !.missing = missing,
               !.phase = IF missing = <<>> THEN "searching" ELSE "embedding"])
        /\ UNCHANGED tableVars

EmbedReadsBack(r) ==   \* mutant
    LET a == ask[r]
        texts == TextsOf(a)
    IN  /\ a.phase = "embedding"
        /\ cache' = Put(a.missing, a.missing)
        /\ Set(r, [a EXCEPT
               !.vectors = [i \in DOMAIN texts |->
                              IF \E e \in ToSet(cache') : e.text = texts[i] THEN texts[i]
                              ELSE Null],
               !.missing = <<>>, !.phase = "searching"])
        /\ UNCHANGED tableVars

(* The API answers one vector for each text; put_many.                      *)
Embed(r) ==
    LET a == ask[r]
        texts == TextsOf(a)
    IN  /\ a.phase = "embedding"
        /\ cache' = Put(a.missing, a.missing)
        /\ Set(r, [a EXCEPT
               !.vectors = [i \in DOMAIN texts |->
                              IF texts[i] \in ToSet(a.missing)
                              THEN a.missing[SelectInSeq(a.missing, LAMBDA t : t = texts[i])]
                              ELSE @[i]],
               !.missing = <<>>, !.phase = "searching"])
        /\ UNCHANGED tableVars

SearchTitles(r) ==
    /\ ask[r].phase = "searching"
    /\ Set(r, [ask[r] EXCEPT !.phase = "scoring"])
    /\ UNCHANGED <<cache, tableVars>>

(* Either service fails or answers something else: 503.                     *)
SearchFails(r) ==
    /\ ask[r].phase \in {"embedding", "searching"}
    /\ Set(r, [ask[r] EXCEPT !.phase = "unavailable"])
    /\ UNCHANGED <<cache, tableVars>>

Reply(r) ==
    /\ ask[r].phase = "scoring"
    /\ Set(r, [ask[r] EXCEPT !.phase = "done", !.answer = Answer(ask[r])])
    /\ UNCHANGED <<cache, tableVars>>

AskStep(r) ==
    \/ SelectTexts(r) \/ SelectCodes(r) \/ SelectAmounts(r)
    \/ LookUp(r) \/ Embed(r) \/ SearchTitles(r) \/ SearchFails(r) \/ Reply(r)

AskBegins == \E r \in Requests, limit \in Limits : Begin(r, limit)

-----------------------------------------------------------------------------
(* Properties.                                                              *)

(* Whatever other requests put into the cache or push out of it between     *)
(* the lookup and the put, a request searches with the vector of each of    *)
(* its texts, in their order; and the cache keeps its bound and holds every *)
(* text once, with its own vector.                                          *)
EmbedExact ==
    /\ \A r \in Requests : ask[r].phase \in {"searching", "scoring", "done"} =>
          ask[r].vectors = TextsOf(ask[r])
    /\ Len(cache) <= CacheSize
    /\ Cardinality(Cached) = Len(cache)
    /\ \A i \in DOMAIN cache : cache[i].vector = cache[i].text

(* The answer is the best: sorted by score and bid_id, without two bids of  *)
(* one title, and a candidate is left out only for a better one with its    *)
(* title, or because the limit is filled by better ones.                    *)
AnswerIsBest ==
    \A r \in Requests : ask[r].phase = "done" /\ ask[r].candidates # <<>> =>
        LET a == ask[r]
            items == a.answer
            title(b) == a.candidates[b].bid.title
            score == [b \in DOMAIN a.candidates |-> Score(a, b, BestHit(a, b))]
            beats(x, y) == score[x] > score[y] \/ (score[x] = score[y] /\ x < y)
            chosen == {items[i].bid : i \in DOMAIN items}
        IN  /\ \A i, j \in DOMAIN items : i < j => beats(items[i].bid, items[j].bid)
            /\ \A x, y \in chosen : title(x) = title(y) /\ title(x) # BlankTitle => x = y
            /\ Len(items) <= a.limit
            /\ \A c \in DOMAIN a.candidates \ chosen :
                  \/ title(c) # BlankTitle
                     /\ \E x \in chosen : title(x) = title(c) /\ beats(x, c)
                  \/ Len(items) = a.limit /\ \A x \in chosen : beats(x, c)

(* "A weak signal does not cover a strong one": the source shown with a bid *)
(* is that of the signal that, weighted, found it best; of equals, of the   *)
(* first.                                                                   *)
StrongestSignal ==
    \A r \in Requests : ask[r].phase = "done" =>
        \A i \in DOMAIN ask[r].answer :
            LET a == ask[r]
                b == a.answer[i].bid
                weighted(n) == Cosine(a.signals[n].text, a.candidates[b].bid.title)
                               * Weight(a.signals[n].source)
                finding == {n \in DOMAIN a.signals : b \in Hits(a, a.signals[n].text)}
                best == {n \in finding : \A m \in finding :
                            weighted(m) < weighted(n) \/ (weighted(m) = weighted(n) /\ n <= m)}
            IN  IF finding = {} THEN a.answer[i].source = Null
                ELSE \E n \in best : a.signals[n].source = a.answer[i].source
=============================================================================
