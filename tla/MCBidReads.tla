------------------------------ MODULE MCBidReads ------------------------------
EXTENDS BidReads, TLC
CONSTANTS n1, n2

Sym == Permutations(Requests)

MCNumber == <<n1, n2, n2>>

Bid(category, title, posted, closes, budget, licenses) ==
    [merged |-> TRUE, canceled |-> FALSE, category |-> category, title |-> title,
     names |-> {title} \ {Null}, posted |-> posted, closes |-> closes, budget |-> budget,
     licenses |-> licenses]

Road == Bid("works", "road", 0, 2, 4, {"civil"})
Past == [Road EXCEPT !.posted = 2, !.closes = 0, !.budget = 30]
Bridge == Bid("works", "bridge", 1, 1, 1, {"civil", "steel"})
Untitled == Bid("services", BlankTitle, Null, Null, Null, {})
Pending == [Bridge EXCEPT !.merged = FALSE, !.title = Null]
Canceled == [Past EXCEPT !.canceled = TRUE]

MCContents == {Road, Past, Bridge, Untitled, Pending, Canceled}

Full == [verdict |-> "feasible", required |-> 2, satisfied |-> 2]
Half == [verdict |-> "fixable", required |-> 2, satisfied |-> 1]
Unclear == [verdict |-> "unclear", required |-> 0, satisfied |-> 0]
No == [verdict |-> "infeasible", required |-> 1, satisfied |-> 0]
MCJudgements == {Full, Half, Unclear, No}

Nobody == [contracts |-> <<>>, items |-> {}, licenses |-> {}, codes |-> {}, amounts |-> {}]
Builder == [contracts |-> <<"bridge", "road", "bridge">>, items |-> {"road"},
            licenses |-> {"civil works", " "}, codes |-> {"civil"}, amounts |-> {0, 4}]
MCProfiles == {Nobody, Builder}

MCStarts == {
    [now |-> 1, bids |-> <<Road, Road, Bridge>>, matches |-> <<Half, Full, Half>>,
     scraps |-> <<>>, profile |-> Builder],
    [now |-> 1, bids |-> <<Untitled, Bridge, Road>>, matches |-> <<Full, Half, Unclear>>,
     scraps |-> <<2, 1>>, profile |-> Nobody],
    [now |-> 1, bids |-> <<Untitled, Pending, Past>>, matches |-> <<Full, Null, Full>>,
     scraps |-> <<2>>, profile |-> Builder] }

MCQueries ==
    {Home("works", FALSE), Home(All, TRUE), Search(All, "deadline", Blank, TRUE),
     Search("works", "deadline", All, FALSE), Search(All, "recent", "road", FALSE),
     [list |-> "scraps"]}
    \cup [list : {"matches"}, sort : {"deadline", "recent", "recommended"}, all : BOOLEAN]

MCCosine(text, title) ==
    CASE text = title -> 1000
      [] {text, title} = {"road", "bridge"} -> 800
      [] text = "civil works" /\ title \in {"road", "bridge"} -> 900
      [] OTHER -> 0
=============================================================================
