------------------------------- MODULE BidLists -------------------------------
(***************************************************************************)
(* The lists: GET /bids, /bids/search, /me/matches and /me/scraps.  Each    *)
(* answers one page with two statements, a count and a page, that share the *)
(* clock reading but no snapshot.  A client walks from page to page until   *)
(* the total is shown.  ORDER BY leaves rows with equal keys in any order.  *)
(***************************************************************************)
EXTENDS BidTables

CONSTANTS
    PageSize,    \* of every list: PAGE_SIZE, SEARCH_PAGE_SIZE
    Categories,
    Keywords,
    Queries,     \* what clients ask for
    DayLength,   \* ticks in a day
    All, Blank   \* no filter; a keyword of blanks

ASSUME ListsAssumption ==
    /\ PageSize \in Nat \ {0} /\ DayLength \in Nat \ {0}
    /\ Blank \notin Keywords /\ All \notin Categories \cup Keywords

VARIABLE walk   \* one client's walk through a list

listVars == <<walk>>

Home(category, today) == [list |-> "bids", category |-> category, today |-> today]
Search(category, sort, keyword, closed) ==
    [list |-> "search", category |-> category, sort |-> sort, keyword |-> keyword,
     closed |-> closed]

Query ==
    {Home(c, today) : c \in Categories \cup {All}, today \in BOOLEAN}
    \cup {Search(c, sort, k, closed) : c \in Categories \cup {All}, closed \in BOOLEAN,
                sort \in {"deadline", "recent"}, k \in Keywords \cup {All, Blank}}
    \cup [list : {"matches"}, sort : {"deadline", "recent", "recommended"}, all : BOOLEAN]
    \cup [list : {"scraps"}]

ASSUME QueriesAssumption == Queries \subseteq Query

ListsOK ==
    walk = Null \/ walk \in [query : Queries, phase : {"counted", "shown", "done"}, at : 0..MaxTime,
                             total : 0..Cardinality(Bids), pages : Seq(Seq(Bids)),
                             began : (0..MaxTime) \X Nat, counted : Nat]

ListsInit == walk = Null

-----------------------------------------------------------------------------
(* WHERE.                                                                   *)

InCategory(q, b) == q.category = All \/ bids[b].category = q.category

(* Posted on the day of the clock reading.                                  *)
PostedToday(b, t) ==
    bids[b].posted # Null /\ bids[b].posted \div DayLength = t \div DayLength

(* A blank keyword is no keyword.                                           *)
HasKeyword(q, b) == q.keyword \in {All, Blank} \/ q.keyword \in bids[b].names

Actionable(b) == matches[b].verdict \in {"feasible", "fixable"}

Listed(q, t) ==
    {b \in Bids :
        \/ /\ q.list = "bids"
           /\ Visible(b) /\ InCategory(q, b) /\ OpenAt(b, t) /\ (q.today => PostedToday(b, t))
        \/ /\ q.list = "search"
           /\ Visible(b) /\ InCategory(q, b) /\ HasKeyword(q, b) /\ (q.closed \/ OpenAt(b, t))
        \/ /\ q.list = "matches"
           /\ matches[b] # Null /\ Visible(b) /\ OpenAt(b, t) /\ (q.all \/ Actionable(b))
        \/ q.list = "scraps" /\ b \in ToSet(scraps) /\ Merged(b)}

TotalOfAllScraps(q, t) ==   \* mutant
    IF q.list = "scraps" THEN Len(scraps) ELSE Cardinality(Listed(q, t))

(* count and search_count.                                                  *)
Total(q, t) == Cardinality(Listed(q, t))

-----------------------------------------------------------------------------
(* ORDER BY: rows are compared by tuples of numbers, in order.              *)

(* NULLS LAST: a flag comes before the number.                              *)
Flag(p) == IF p THEN 1 ELSE 0
Num(x) == IF x = Null THEN 0 ELSE x

Before(x, y) == \E i \in DOMAIN x : x[i] < y[i] /\ \A j \in 1..(i - 1) : x[j] = y[j]

(* _deadline_order: active, closed, undated; the closed ones latest first.  *)
DeadlineKeyByDate(b, t) ==   \* mutant
    LET closes == bids[b].closes
    IN  <<IF closes = Null THEN 2 ELSE IF closes <= t THEN 1 ELSE 0,
          IF closes = Null THEN 0 ELSE IF closes < t THEN -closes ELSE closes, b>>

DeadlineKey(b, t) ==
    LET closes == bids[b].closes
    IN  <<IF closes = Null THEN 2 ELSE IF closes < t THEN 1 ELSE 0,
          IF closes = Null THEN 0 ELSE IF closes < t THEN -closes ELSE closes, b>>

VerdictRank(b) ==
    CASE matches[b].verdict = "feasible" -> 0
      [] matches[b].verdict = "fixable" -> 1
      [] OTHER -> 2

(* satisfied / required in 2520ths, exact for up to ten axes.               *)
Ratio(b) == IF matches[b].required = 0 THEN Null
            ELSE (2520 * matches[b].satisfied) \div matches[b].required

MatchKeyUntied(q, b) ==   \* mutant
    LET bid == bids[b]
        undated == Flag(bid.closes = Null)
    IN  CASE q.sort = "recent" -> <<undated, VerdictRank(b), Flag(bid.posted = Null),
                                    -Num(bid.posted)>>
          [] q.sort = "deadline" -> <<undated, VerdictRank(b), Num(bid.closes)>>
          [] q.sort = "recommended" -> <<undated, Flag(Ratio(b) = Null), -Num(Ratio(b)),
                                         -matches[b].required, Num(bid.closes)>>

(* MatchRepository.list_page: undated ones last, then the sort.             *)
MatchKey(q, b) ==
    LET bid == bids[b]
        undated == Flag(bid.closes = Null)
    IN  CASE q.sort = "recent" -> <<undated, VerdictRank(b), Flag(bid.posted = Null),
                                    -Num(bid.posted), b>>
          [] q.sort = "deadline" -> <<undated, VerdictRank(b), Num(bid.closes), b>>
          [] q.sort = "recommended" -> <<undated, Flag(Ratio(b) = Null), -Num(Ratio(b)),
                                         -matches[b].required, Num(bid.closes), b>>

Key(q, b, t) ==
    LET bid == bids[b]
    IN  CASE q.list = "bids" -> <<Flag(bid.closes = Null), Num(bid.closes), b>>
          [] q.list = "search" /\ q.sort = "recent" ->
                <<Flag(bid.posted = Null), -Num(bid.posted), b>>
          [] q.list = "search" /\ q.sort = "deadline" -> DeadlineKey(b, t)
          [] q.list = "matches" -> MatchKey(q, b)
          [] q.list = "scraps" -> <<-SelectInSeq(scraps, LAMBDA a : a = b), b>>

(* The orders in which the database may return the rows.                    *)
Orders(q, t) ==
    LET key == [b \in Listed(q, t) |-> Key(q, b, t)]
    IN  {s \in SetToSeqs(Listed(q, t)) :
            \A i, j \in DOMAIN s : i < j => ~Before(key[s[j]], key[s[i]])}

-----------------------------------------------------------------------------
(* A page: the count, then the page with the same clock reading.            *)

Count(q) ==
    /\ walk = Null
    /\ walk' = [query |-> q, phase |-> "counted", at |-> now, total |-> Total(q, now),
                pages |-> <<>>, began |-> <<now, changes>>, counted |-> changes]
    /\ UNCHANGED tableVars

CountNext ==
    /\ walk # Null /\ walk.phase = "shown"
    /\ walk' = [walk EXCEPT !.phase = "counted", !.at = now, !.total = Total(walk.query, now),
                            !.counted = changes]
    /\ UNCHANGED tableVars

(* LIMIT and OFFSET; the client goes on while the total promises more.      *)
ShowPage ==
    LET offset == PageSize * Len(walk.pages)
    IN  /\ walk # Null /\ walk.phase = "counted"
        /\ \E s \in Orders(walk.query, walk.at) :
              walk' = [walk EXCEPT
                 !.pages = Append(@, SubSeq(s, offset + 1, Min({offset + PageSize, Len(s)}))),
                 !.phase = IF offset + PageSize < walk.total THEN "shown" ELSE "done"]
        /\ UNCHANGED tableVars

ListsNext == (\E q \in Queries : Count(q)) \/ CountNext \/ ShowPage

-----------------------------------------------------------------------------
(* Properties.                                                              *)

(* "No row is repeated or missed at a page's edge": a walk during which     *)
(* nothing is committed and no time passes shows every row of the list in   *)
(* one place, whatever order the database gives to rows its keys leave equal. *)
PagesPartition ==
    walk # Null /\ walk.phase = "done" /\ walk.began = <<now, changes>> =>
        LET places == UNION {{<<page, i>> : i \in DOMAIN walk.pages[page]} :
                             page \in DOMAIN walk.pages}
            row(place) == walk.pages[place[1]][place[2]]
        IN  /\ Listed(walk.query, now) = {row(place) : place \in places}
            /\ \A p1, p2 \in places : row(p1) = row(p2) => p1 = p2

(* The total and the page of one answer agree when nothing was committed    *)
(* between the two statements, even if a deadline passed in between: the    *)
(* page is as long as the total says.                                       *)
TotalFits ==
    walk # Null /\ walk.phase # "counted" /\ walk.counted = changes =>
        LET before == PageSize * (Len(walk.pages) - 1)
        IN  Len(Last(walk.pages)) =
              IF walk.total <= before THEN 0 ELSE Min({PageSize, walk.total - before})

(* The home page and the search are written twice.  A deadline search       *)
(* without keyword lists what the home page would list, in its order;       *)
(* closed bids, if they are asked for, come between the dated and the       *)
(* undated, the last to close first.                                        *)
SearchExtendsHome ==
    /\ walk # Null /\ walk.phase = "counted" /\ walk.query.list = "search"
    /\ walk.query.sort = "deadline" /\ walk.query.keyword \in {All, Blank}
    => \A home \in Orders(Home(walk.query.category, FALSE), walk.at),
          found \in Orders(walk.query, walk.at) :
            /\ ToSet(home) = {b \in ToSet(found) : OpenAt(b, walk.at)}
            /\ walk.query.closed \/ ToSet(found) = ToSet(home)
            /\ \A i, j \in DOMAIN found : i < j =>
                  LET a == found[i]
                      b == found[j]
                  IN  /\ OpenAt(a, walk.at) /\ OpenAt(b, walk.at) =>
                            \E k, l \in DOMAIN home : k < l /\ home[k] = a /\ home[l] = b
                      /\ ~OpenAt(a, walk.at) =>
                            IF OpenAt(b, walk.at) THEN bids[b].closes = Null
                            ELSE bids[a].closes >= bids[b].closes
                      /\ ~OpenAt(b, walk.at) => bids[a].closes # Null
=============================================================================
