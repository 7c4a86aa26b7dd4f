------------------------------ MODULE BidTables ------------------------------
(***************************************************************************)
(* What the read paths read: the rows of bid_table, one company's rows of   *)
(* match_results and company_bid_scraps, its profile, and the clock.  The   *)
(* pipeline and other requests commit changes between any two statements.   *)
(* The scraps are written here (ScrapRepository): resolve the bid, then     *)
(* insert or delete.  A bid is its bid_id; rows of one announcement number  *)
(* are its versions, and one of them may be its cancellation.               *)
(***************************************************************************)
EXTENDS Integers, FiniteSets, SequencesExt

CONSTANTS
    Bids,        \* bid_ids, numbers for their order
    Number,      \* bid_ntce_no of each
    Contents,    \* what the pipeline writes into a row
    Judgements,  \* what the refresher writes into match_results
    Profiles,
    Starts,      \* the tables a behaviour starts with
    Scrappers,   \* concurrent POST and DELETE /me/scraps
    MaxTime,     \* bound: the clock stops here
    MaxChanges,  \* bound: commits of the pipeline and of others
    Null         \* NULL; no row

(* A row's "names" are the keywords found in its title and institutions; a  *)
(* title is what strip and casefold leave of it.                            *)
ASSUME TablesAssumption ==
    /\ Bids \subseteq Nat /\ IsFiniteSet(Bids)
    /\ DOMAIN Number = Bids
    /\ \A content \in Contents :
          /\ DOMAIN content = {"merged", "canceled", "category", "title", "names", "posted",
                               "closes", "budget", "licenses"}
          /\ {content.posted, content.closes, content.budget} \subseteq Nat \cup {Null}
          /\ IsFiniteSet(content.licenses)
    /\ Judgements \subseteq [verdict : {"feasible", "fixable", "unclear", "infeasible"},
                            required : Nat, satisfied : Nat]
    /\ \A p \in Profiles :
          /\ p.contracts \in Seq(ToSet(p.contracts))
          /\ IsFiniteSet(p.items) /\ IsFiniteSet(p.licenses) /\ IsFiniteSet(p.codes)
          /\ IsFiniteSet(p.amounts) /\ p.amounts \subseteq Nat
    /\ {MaxTime, MaxChanges} \subseteq Nat
    /\ \A start \in Starts :
          /\ start.now \in 0..MaxTime /\ start.profile \in Profiles
          /\ start.bids \in [Bids -> Contents \cup {Null}]
          /\ start.matches \in [Bids -> Judgements \cup {Null}]
          /\ start.scraps \in Seq(Bids) /\ IsInjective(start.scraps)

VARIABLES
    now,
    bids,      \* bid_table
    matches,   \* match_results of the company
    scraps,    \* company_bid_scraps of the company, oldest first
    profile,   \* the company's profile
    scrap,     \* the scrap requests
    changes    \* counts the commits

tableVars == <<now, bids, matches, scraps, profile, scrap, changes>>

TablesOK ==
    /\ now \in 0..MaxTime
    /\ bids \in [Bids -> Contents \cup {Null}]
    /\ matches \in [Bids -> Judgements \cup {Null}]
    /\ scraps \in Seq(Bids) /\ IsInjective(scraps)
    /\ profile \in Profiles
    /\ scrap \in [Scrappers -> [phase : {"new", "resolved", "done"}, op : {"add", "remove"},
                                bid : Bids \cup {Null}]]
    /\ changes \in 0..MaxChanges

TablesInit ==
    \E start \in Starts :
        /\ now = start.now
        /\ bids = start.bids /\ matches = start.matches
        /\ scraps = start.scraps /\ profile = start.profile
        /\ scrap = [s \in Scrappers |-> [phase |-> "new", op |-> "add", bid |-> Null]]
        /\ changes = 0

-----------------------------------------------------------------------------
(* The gates every query repeats.                                           *)

Merged(b) == bids[b] # Null /\ bids[b].merged

(* not_canceled_clause: a cancellation hides every version of its number.   *)
NotCanceled(b) == \A a \in Bids : Number[a] = Number[b] /\ bids[a] # Null => ~bids[a].canceled

Visible(b) == Merged(b) /\ NotCanceled(b)

(* bid_clse_dt >= clse_after, or NULL.                                      *)
OpenAt(b, t) == bids[b].closes = Null \/ bids[b].closes >= t

-----------------------------------------------------------------------------
(* POST and DELETE /me/scraps.                                              *)

Resolve(s, op, b) ==
    /\ scrap[s].phase = "new"
    /\ scrap' = [scrap EXCEPT ![s] = IF Merged(b) THEN [phase |-> "resolved", op |-> op, bid |-> b]
                                     ELSE [phase |-> "done", op |-> op, bid |-> Null]]
    /\ UNCHANGED <<now, bids, matches, scraps, profile, changes>>

Commit ==
    /\ changes < MaxChanges
    /\ changes' = changes + 1

(* INSERT ... ON CONFLICT DO NOTHING, or DELETE of the one row.             *)
ScrapWrite(s) ==
    /\ scrap[s].phase = "resolved"
    /\ scraps' = IF scrap[s].op = "remove" THEN RemoveFirst(scraps, scrap[s].bid)
                 ELSE IF scrap[s].bid \in ToSet(scraps) THEN scraps
                 ELSE Append(scraps, scrap[s].bid)
    /\ scrap' = [scrap EXCEPT ![s].phase = "done"]
    /\ Commit
    /\ UNCHANGED <<now, bids, matches, profile>>

-----------------------------------------------------------------------------
(* Everybody else.                                                          *)

(* The pipeline inserts a row or updates one.                               *)
Collect(b, content) ==
    /\ Commit
    /\ bids' = [bids EXCEPT ![b] = content]
    /\ bids' # bids
    /\ UNCHANGED <<now, matches, scraps, profile, scrap>>

Judge(b, j) ==
    /\ Commit
    /\ bids[b] # Null
    /\ matches' = [matches EXCEPT ![b] = j]
    /\ matches' # matches
    /\ UNCHANGED <<now, bids, scraps, profile, scrap>>

SaveProfile(p) ==
    /\ Commit
    /\ profile' = p
    /\ profile' # profile
    /\ UNCHANGED <<now, bids, matches, scraps, scrap>>

Tick ==
    /\ now < MaxTime
    /\ now' = now + 1
    /\ UNCHANGED <<bids, matches, scraps, profile, scrap, changes>>

TablesNext ==
    \/ \E s \in Scrappers, b \in Bids, op \in {"add", "remove"} : Resolve(s, op, b)
    \/ \E s \in Scrappers : ScrapWrite(s)
    \/ \E b \in Bids, content \in Contents : Collect(b, content)
    \/ \E b \in Bids, j \in Judgements : Judge(b, j)
    \/ \E p \in Profiles : SaveProfile(p)
    \/ Tick
=============================================================================
