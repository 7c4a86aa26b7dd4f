SPECIFICATION Spec
CONSTANTS
  n1 = n1
  n2 = n2
  Bids = {1, 2, 3}
  Number <- MCNumber
  Contents <- MCContents
  Judgements <- MCJudgements
  Profiles <- MCProfiles
  Starts <- MCStarts
  Scrappers = {s1}
  MaxTime = 2
  MaxChanges = 1
  Null = Null
  PageSize = 2
  Categories = {"works"}
  Keywords = {"road"}
  Queries <- MCQueries
  DayLength = 2
  All = All
  Blank = Blank
  Requests = {r1, r2}
  Limits = {2}
  Cosine <- MCCosine
  PerSource = 2
  MaxSignals = 3
  CacheSize = 2
  TicksPerDay = 1
  BlankTitle = " "
SYMMETRY Sym
INVARIANTS PagesPartition TotalFits SearchExtendsHome EmbedExact AnswerIsBest StrongestSignal
