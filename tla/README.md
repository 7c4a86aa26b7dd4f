# Verification of the BidFriend backend

TLA+ models of the stateful parts of this repository, checked with TLC and, where
it matters most, proved with TLAPS. The paths below are relative to the
repository (`app/...`, `deploy/...`).

To check a configuration: `tlc -workers 2 -config <cfg> <module>` in this
directory; to check the proofs: `tlapm <module>` for `ChatSession_proofs`,
`ChatLimits_proofs`, `MatchRefresh_proofs`, `EventSink_proofs`, `CompanyIdentity_proofs`,
`ProfileReplace_proofs`, `BidReads_proofs` and `BlueGreenDeploy_proofs`. `PROJECT.json` lists the runs, the lines each definition
models, the hazards and the findings.

## 1. Inventory

| component | state it keeps | operations | hard behaviour |
|---|---|---|---|
| Chat sessions `app/agents/chat_service.py`, `app/infra/db/repositories/chat_repository.py`, `app/api/v1/agents.py`, `app/api/v1/sessions.py` | `_inflight` (process memory); `chat_sessions`, `chat_messages` (Postgres) | a turn (guard, count, open, agent call, close), delete a session, undo the last turn, list/detail | three transactions per turn; a slow agent call between them; guard per process while two slots drain; undo does not take the guard |
| Chat limits `app/api/deps.py` (`enforce_chat_limits`), `app/agents/chat_rate_limit.py`, `.../chat_usage_repository.py` | hits and active slots (process memory), `chat_daily_usage` | minute check, acquire, daily upsert, release | clock read outside the lock; many exits between acquire and release; restarts forget memory and keep rows |
| Match refresh `app/services/match_refresh.py`, `.../match_repository.py`, `app/api/v1/profile.py`, task started by `app/main.py` | `match_results`, `last_full_date` of the loop | hook recompute, incremental upserts, nightly full | overlapping READ COMMITTED transactions; a global lower bound; failure or restart half way |
| Company identity `.../company_repository.py`, `app/api/deps.py`, `app/api/v1/auth.py`, `app/infra/auth/cognito.py` | `companies` (sub, email, deleted_at) | JIT creation, link by verified email, withdraw | check-then-act between parallel first requests, link and withdrawal |
| Company profile `app/services/company_profile_service.py`, `.../company_profile_repository.py` | eight section tables | full replace, load | two replaces of a company overlap |
| Event sink `app/infra/s3/event_sink.py`, `app/services/event_service.py` | buffer and flusher thread | add, flush, requeue, stop | upload outside the lock, order, loss at the bound and at stop |
| Recommendations `app/services/recommendation_*.py`, `app/infra/search/recommendation_search.py` | embedding cache (LRU) | embed, search, score, order | concurrent misses and evictions |
| Bids, match lists, stats, masters, scraps | read-only queries; one small table of scraps | pages, counts, idempotent add/remove | page and count are two snapshots |
| Agent HTTP client `app/agents/agent_client.py` | connection pool | one POST with a timeout | every failure must reach the caller |
| Blue/Green deployment `deploy/deploy-blue-green.sh` | Nginx link, state file, containers | switch, drain, rollback | failure or reboot between any two steps |
| Lifespan, configuration `app/main.py`, `app/config.py` | the two background tasks | start, stop, fail-fast validation | order of shutdown |

Interactions: `POST /agent/chat` runs `enforce_chat_limits` (ChatLimits) around
`AgentChatService.chat` (ChatSession), which calls the agent over HTTP.
`PUT /me/profile` saves a profile and calls the same recompute as the nightly
cycle (MatchRefresh). Everything shares one Postgres in READ COMMITTED; two API
processes (blue, green) share it while one of them drains, and each runs its own
refresher and its own in-memory guards. Every request has one SQLAlchemy session
(`autoflush=False`, `expire_on_commit=False`), so what was read before a commit
is used after it.

What makes each component correct, and what a test hardly reaches, is the list
of hazards in `PROJECT.json`.

## 2. Plan

Modules in order of importance:

1. **ChatSession** and its proofs (done: types, guard, isolation, cap, deletion; contexts,
   transcript and undo for one process and a client that waits).
2. **ChatLimits** and its proofs (done: types, slots, day, both sides of the window).
3. **MatchRefresh** and its proofs (done: types, `NoGap`, `PutReflected`, and `CycleCovers`
   for one refresher).
4. **EventSink** as a refinement of **BestEffortQueue**, and its proofs (done:
   types, ownership, the refinement, stop).
5. **CompanyIdentity** and its proofs (done: types and all four invariants).
6. **ProfileReplace** and its proofs (done: types and all three properties).
7. **BlueGreenDeploy** and its proofs (done: types, all three invariants, the
   action property).
8. **BidTables**, **BidLists**, **Recommendations**, composed in **BidReads**, and the
   proofs of the composition (done: types and all six properties).
9. **ChatEndpoint**: ChatLimits composed with ChatSession (a turn runs only while
   its request holds a slot). Left, with the further abstract specifications below.

Abstract specifications: a best-effort queue (events, done); worth stating still: a
lock per session (for one process, `_inflight` implements it), a counter with
holders (slots), a register per company that a recompute replaces (match rows).

## 3. What is modelled

Definitions ending in the comment `\* mutant` are deliberately broken variants
of the operator defined right after them. They are used nowhere; each documents a
plausible bug that a named property catches.

### ChatSession

One action per stretch of code between two commits, or between two points where
another request can run:

| action | code |
|---|---|
| `EnterTurn`, `RejectBusy` | `_one_turn`: test and set of `_inflight`, 409 |
| `CountTurns` | `count_turns` and the cap; 404 on a foreign or deleted session |
| `OpenTurnRead`, `OpenTurnCommit` | `open_turn` before and after its first write; the INSERT of a session another request has created meanwhile fails on the primary key and ends in 502 |
| `CloseTurn` | `close_turn`: assistant message and context, or no context if the answer has none |
| `TurnFails` | any exception of a held turn: 502, rollback, guard dropped |
| `Crash` | the process dies: turns and `_inflight` are gone, committed rows stay |
| `DeleteSession` | `soft_delete_session` |
| `UndoRead`, `UndoCommit` | `delete_last_turn` around the point where another commit can come in |

Data: a context is the turn that produced it; a message is its session, role,
turn and a serial number per session which stands for `(created_at, id)`. Serial
numbers are given at commit. A session id has one spelling (upper and lower case
spellings of a UUID are one row but two entries of `_inflight`; the clients send
what the server generated). `UndoCommit` writes the context only if it had read
one, since the ORM emits no UPDATE for a column set to the value it already has.
`Undoers`, `Turns` bound the requests of a behaviour, and every turn is sent once:
a retry is another turn. `ClientWaits` is the front end's waiting UI, which
`app/api/v1/agents.py:48` mentions: with it an undo and a turn of one session never
overlap.

Properties: `GuardExact`, `CapHolds`, `Isolation`, `DeletedStaysQuiet`,
`NoContextRace`, `NoGhostContext`, `Transcript`, `UndoTakesLastTurn`, `SessionUnlocks`.

### ChatLimits

`ReadClock`, `CheckMinute`, `Acquire`, `CountDay`, `CountDayFails`, `Release`
are the steps of `enforce_chat_limits`; each takes the guard's lock at most once
or commits once. Instants are kept as ages in ticks. `Tick` makes everything older;
ages saturate at `Horizon = Window + MaxLag`, beyond which the code's comparisons no
longer tell them apart. `MaxLag` bounds how long a thread waits between
reading the clock and taking the lock (`chat_rate_limit.py:36-37`), which is what
makes hits end up out of order. An invalid body is refused after the dependencies
ran, because the framework validates the body's fields last (a body that is not JSON at all is
refused before and never reaches the model). `recent` and `served` are history
variables; `recent` has the checks that passed within `Horizon`. `UsageBound` bounds the
requests of a day.

The minute limit is stated from both sides. `WindowBound`: in a window shortened by the lag never
more than `PerMinute` checks pass. `RefusedOnlyWhenFull`: whoever is refused has had that many
pass in a window lengthened by it. What lies between is the price of hits that are out of order.

Properties: `SlotsExact`, `DailyBound`, `WindowBound`, `RefusedOnlyWhenFull`, `SlotsDrain`.

### EventSink and BestEffortQueue

Every thread that can call `flush` is in `pc`: the request threads (`Adders`), the
flusher and the thread that runs the shutdown.

| action | code |
|---|---|
| `Add` | `add` under the lock: append, trim, decide whether a flush is due |
| `Take` | `flush`, first critical section: nothing to do, or the whole buffer |
| `EncodeFails` | line 66 raises: the batch is a local variable and is gone |
| `PutOk`, `PutFails` | `put_object` returns, or raises with the object stored or not, and the batch goes back in front |
| `Wake` | `_stop.wait` returns in `_run` |
| `BeginStop`, `Join` | `stop`: set, join (which times out only on an upload), then its own `Take` |
| `ProcessEnds`, `Exit` | crash at any point, or the end after `stop`; the next process starts empty |

An event is its serial number in the order of `add`. `Unencodable` are the events
whose text cannot be written as UTF-8. Uvicorn waits up to 30 s (`Dockerfile:57`) for running
requests before it shuts the application down, and `add` does not look at `_stop`: a request that
outlives this can add an event while stop runs or after it. The model lets it at any time.
`StopDrains` therefore speaks of the events that were there when stop made its own flush
(`swept`); a later one is nobody's any more.

`BestEffortQueue` has neither threads nor a list: accepted events wait, are sent as one batch,
and wait again when it fails. An event may be lost with the process (`Die`), over the bound
(`Shed`), or in a batch that cannot be encoded (`Spoil`). `Shed` says what "oldest first" of
`event_sink.py:11` comes to: exactly `Bound` events remain, a batch that returns costs no event
that was waiting, and those dropped are older than those kept, until a failed batch is put back in front of
older events than its own (`overtaken`), which only overlapping uploads that fail can do. `Promised` is
the same queue without `Spoil`, which is what the comments of lines 58 and 61 say; the code does
not implement it (`event_promise`). Under the refinement mapping, what waits is the
buffer, and the batches are those of the threads that upload.

Properties: `OneOwner`, `BestEffort` (the refinement), `StopDrains`,
`EventsDrain`; refuted: `FailedBatchesReturn`.

### MatchRefresh

Every writer of `match_results` is a transaction in `tx`, split where Postgres
lets another one in: a recompute is `StartRecompute` (snapshot of the DELETE),
`ComputeRows` (it has its locks, the INSERT has its snapshot) and
`CommitRecompute`, `ConflictRecompute` or `FailTx`; an upsert is `StartUpsert`
and `CommitUpsert`. READ COMMITTED is modelled by what it does here: a DELETE
waits for rows another transaction is deleting and then finds them gone, it does
not see rows inserted after its snapshot, and an INSERT of a key it did not
delete fails. `computed_at` is the start of the transaction. `cycle` is
`run_once` for each refresher, company after company; `fullDone` is
`last_full_date = today`. `Normalize` and `Close` are the pipeline outside this
repository (`compute_match_results` too: a DB function, modelled as one row per
normalized open bid carrying the profile version it read).

A PUT of the profile is one step that bumps the version; how two saves
overlap is in ProfileReplace. Companies are constant: a withdrawal during a cycle
is not modelled.

Properties: `PutReflected`, `NoGap`, `CycleCovers`, `NightlyHeals`; refuted:
`NewBidsReflected`.

### CompanyIdentity

One action per statement of a request, since another request may commit between
any two of them:

| action | code |
|---|---|
| `Anonymous`, `RejectToken`, `AcceptToken` | bearer token and `verify_id_token`: absent, refused (401, 503), accepted |
| `RefuseWithdrawn` | `is_withdrawn_sub`, 401 |
| `FindBySub`, `FindByEmail`, `Link` | `get_or_create`: the two lookups and the UPDATE of the row read before |
| `Insert`, `Converge` | INSERT and commit; on the unique `cognito_sub` roll back and look once more |
| `Browse`, `GetMe` | a public endpoint, `GET /me` |
| `FindToDelete`, `SoftDelete` | `DELETE /me`: the SELECT and the UPDATE by id |

The account (`account`) is what Cognito knows: an email, verified or not, in all four
spellings that the claim comes in. The table may hold one company that was entered by hand,
with an email and no sub. Ids are given out in order and run out (`Slots`). `gone` and
`withdrawn` are history variables.

Properties: `NoInheritance`, `WithdrawalFinal`, `EmailsProved`,
`FirstRequestsConverge`. The last two conditions of the code's promise hold for an
account that is alone with its verified email (`Alone`): see the remarks in section 5.

### ProfileReplace

| action | code |
|---|---|
| `Refuse`, `Begin` | `save_profile` before it writes: limits of the schema, duplicate codes, unknown codes |
| `LookupRaises` | the look-up of a code that the driver cannot send, 500 |
| `Delete`, `DeleteResumes` | one of the eight DELETEs, at once or after it waited |
| `Insert`, `InsertFails` | one row of the flush; an IntegrityError, 422 |
| `InsertRaises` | a value that its column cannot hold: a DataError, which `_save_or_422` does not catch, 500 |
| `Deadlock` | Postgres ends one of two PUTs that wait for each other, 500 |
| `Commit`, `Load` | commit; the SELECTs of the response, table by table |

What Postgres does is stated in the module's head. The flush turns to the tables in
any order, since the ORM orders unrelated tables by itself, but finishes one before
the next; it sends the rows of a table together, so that a value out of range in any of them
is noticed when it turns to that table. `Codes` has a known code of each section, an unknown one, an empty one,
none, and one with a NUL (`BadCode`), since the layers treat them differently. `fits` says of a row's other
values whether the columns can hold them: the schema bounds a headcount and the amounts from
below only (`schemas/profile.py:134`, `139`, `147`), their columns are SMALLINT and BIGINT, and a text may have a NUL.

Properties: `NoHalfProfile`, `AloneExact`, `ReplacesWhatItFound`.

### BidTables, BidLists, Recommendations and BidReads

`BidTables` is what the read paths share: bids, one company's matches, scraps and
profile, and the clock, which the pipeline and other requests change between any
two statements. It has the gates that every query repeats (merged, not canceled,
still open) and the writes of the scraps (`Resolve`, `Commit`, `ScrapWrite`).

`BidLists` is a client that walks through one of the four lists (home, search,
matches, scraps): `Count`, `ShowPage`, `CountNext`. A query is the set it lists and the tuple of
numbers it sorts by, where a flag before a number puts NULL last; `Orders` has every
order the database may choose among equal keys. A page and its count share a clock reading and no snapshot. `list_bids` reads
the clock a second time for its filter on today; the model reads it once.

`Recommendations` is a request for recommendations: `Begin` (the candidates),
`SelectTexts`, `SelectCodes`, `SelectAmounts` (six SELECTs), `LookUp` and `Embed` (the
LRU cache before and after the call to the embedding service), `SearchTitles`,
`SearchFails`, `Reply` (score, order, one bid of each title). A vector is the text it
embeds; `Cosine` gives the search's score; scores are integers in thousandths, rounded down where the code
uses floats. `Width` is how many titles a search returns; of equal scores at that edge
the smaller ids are taken, since nothing in the repository says which. The titles of scraps come
from a join, so a scrap whose bid is not in the table, or has no title, gives no signal.

`BidReads` composes them over the same tables. A behaviour has a walk or
recommendations, and one request reads its rows before the next begins (they meet in
the cache afterwards); neither writes a table, so nothing is lost but combinations.

Properties: `PagesPartition`, `TotalFits`, `SearchExtendsHome`, `EmbedExact`,
`AnswerIsBest`, `StrongestSignal`.

### BlueGreenDeploy

Every command of `deploy/deploy-blue-green.sh` that changes the machine is an action:

| action | code |
|---|---|
| `TakeLock`, `ReadState` | `flock -n`; the link, the state file, the active container |
| `Prepare`, `RemoveCandidate`, `RunCandidate`, `Verify` | configurations, migration, the candidate slot, `/health`, `/ready` and the role's credentials |
| `MoveLink`, `TestLink`, `StopLegacy`, `EnableNginx`, `Reload` | the rename of the link, `link_changed=true` and `nginx -t`, the switch |
| `SmokeTest`, `RecordSlot`, `DisableLegacy`, `StopOld` | the checks through Nginx, the state file, the old unit, the drained slot |
| `Fail` | a command fails: the ERR trap |
| `UndoStart` to `UndoRun` | the commands of `rollback()` in order |
| `Kill`, `Reboot` | a signal, which no trap catches; the host restarts |

Docker, systemd and Nginx are modelled as the script uses them: a container that ran is
restarted by a boot, a stopped one is not; Nginx serves the configuration of its last
reload, whatever the link says by now. `verified`, `damage` and `served` are history variables.
`damage` names what went wrong without ending the script. `rollback()` runs with `set +e`, and
`docker rm` of the candidate ends in `|| true` at line 261 too: every one of these commands may fail,
and the next one runs all the same.

| damage | what failed |
|---|---|
| `stray` | nothing; Nginx was left off the link |
| `unstarted`, `unlinked` | `docker start` of the old slot (166), restoring the link (170-173) |
| `refused`, `nginx` | `nginx -t` on the restored link (176), the stop or reload of Nginx (179, 181) |
| `legacy`, `state`, `candidate` | the old unit (186-187), the state file (191-194), the candidate's removal (198) |

A property excepts only those on which what it promises depends: `StaysUp` the first three, `RebootServes`
and `NextCanStart` the second and third, and each part of `FailureRestores` the commands that restore that
part. The state file alone, the old unit alone or a candidate left behind break none of the invariants.
Section 5 says how `stray` and `refused` come about.

Properties: `StaysUp`, `RebootServes`, `NextCanStart`, `FailureRestores`.

## 4. The runs

| run | instance | shows |
|---|---|---|
| `chat_single` | 1 process, 2 sessions, 3 turns, 1 undoer, cap 2, client waits | guard, contexts, transcript and undo; sessions unlock |
| `chat_drain` | 2 processes, 2 companies, 1 session, 3 turns, cap 1, client does not wait | cap with slack one, isolation, deletion |
| `chat_undo_race` | 1 process, 2 turns, client does not wait | refutes `NoGhostContext` |
| `chat_limits` | 3 request slots reused, 2 a minute, 1 at a time, 1 a day, window 4 ticks, lag 1 | slots, day, window from both sides; slots drain |
| `event_sink` | 2 request threads, flusher, stop, 4 events, flush at 2, bound 2, one event unencodable | best-effort queue, ownership, stop, draining |
| `event_promise` | 1 request thread, flusher, stop, 2 events, the second unencodable | refutes `FailedBatchesReturn` |
| `match_refresh` | 2 companies, 1 bid, 1 hook, 1 refresher, 1 failure, fair | profile reflected, no gap, a cycle covers every company, the night heals both |
| `match_watermark` | 2 companies, 1 bid, no failure | refutes `NewBidsReflected` |
| `identity` | 2 accounts, 1 email, 2 requests at a time, 3 ids | who acts for which company |
| `profile` | 2 PUTs, 2 companies, 11 profiles | full replace, all or nothing |
| `bid_reads` | 3 bids of 2 numbers, 3 starting tables, 1 change, 1 tick, pages of 2, 2 requests for recommendations, cache of 2 | pages, totals, the two statements of one list; cache, ranking |
| `deploy` | 2 deployments, any number of failures, kills and reboots | zero downtime, reboot, next start, rollback |

Why the bounds are enough to be interesting. A race of the chat needs two turns
of a session; the third one meets what the first two left (a full cap, a
remembered context, a deleted session). With the cap at one or two it is
reached. Two companies suffice for isolation, two processes for the drain. Three
requests meet a limit of two, one slot and one call a day from every side, and a
window of four ticks with a lag of one has hits in and out of order. Two
clock values separate "before" and "after" a lower bound with an overlap of one;
one failure falls between any two steps. With a bound of two, a batch of two that comes back
to a full buffer overflows it by two, and three batches can be in the air. The two-process case of the limits is
covered by the theorems, which hold for any number of processes.

Identity: two accounts that share one email, or do not, and a company entered by hand are all
the ways in which one company can be taken for another; request slots are reused, so that two at a time
make any sequence of requests until the third id is given out. Profile: the eleven
profiles are the empty one, three that collide in one table or in two in opposite
orders (which is what a deadlock takes), and one for each way to be refused or to fail. Bid
reads: three bids are more than a page and one more than the cache; the starting tables have ties,
NULLs, a cancellation and a version not merged yet; one change falls between a count and
its page or between two SELECTs. Deploy: a deployment is not bounded otherwise, so the
run covers any sequence of them; the second one is there for the lock. The limits' history
reaches back over the whole horizon of five ticks, so that a refusal can be justified by the
oldest hit the code may still keep.

Symmetry is used in safety runs only: sessions, turns, companies, processes; accounts and requests;
PUTs; requests for recommendations; deployments. `CHECK_DEADLOCK FALSE` stands in
the chat runs, where all turns of a behaviour may be over, and in `identity`, where the
ids run out; the others run with deadlock checked (`Finished` is the end of a
behaviour in `profile` and `bid_reads`).

`TypeOK` is an invariant of the sink's run, where it says that the buffer keeps its bound. In the
other modules it documents the state: it is proved for each of them, and left out of the runs
in favour of what could really be wrong.

**Fairness.** `ChatSession!FairSpec`: the thread of a turn takes its next step or
fails; the agent call ends at `agent_timeout_sec` (60 s) at the latest.
`ChatLimits!FairSpec`: a request takes its next step, for the same reason.
`EventSink!FairSpec`: the flusher wakes, `flush` goes on, every upload ends (the
client has timeouts), and uploads of a thread succeed again and again (strong fairness: the
bucket is not unavailable for ever). The request threads add finitely many events, so that
in the end the flusher alone retries what is left.
`MatchRefresh!FairSpec`: database statements return, the loop goes on
(it catches every exception), nights come and go, and a
cycle begins in a night again and again (strong fairness: the loop wakes every
300 s and the night lasts an hour). `DayBreaks` waits for an incremental cycle
that would outlast the whole hour; this is the assumption that an increment is
shorter than that.

## 5. The findings

Three statements of the repository are refuted by a run each; the quoted lines
and the explanation are in `PROJECT.json`:

1. an undo during a turn leaves a context whose turn was deleted (`chat_undo_race`);
2. a PUT of one company moves the lower bound of everybody's increments past bids
   the others do not have, until the night (`match_watermark`);
3. a batch with an event that cannot be encoded is lost, not put back (`event_promise`).

Further remarks came up while the code was modelled. None has a run of its own. The models behave as
described here, and the properties say where they make an exception for it.

Documentation that says otherwise:

- `deploy/CD.md:122-124` says that chat sessions live in process memory and are lost by
  a deployment; they are in Postgres.
- `app/api/deps.py:260` and `app/config.py:85` say that a 422 is not counted. The
  framework solves the dependencies before it validates the fields of the body, so it is
  counted; only a body that is not JSON is not.
- `app/infra/s3/event_sink.py:11` says that the oldest events are dropped at the bound: when two
  batches fail in the order they were taken, the older one stands behind the newer one,
  and it is the newer events that are dropped (`overtaken`).
- `app/services/match_refresh.py:16-18` says that the writers are last-writer-wins. Of
  two overlapping recomputes of a company the first one wins: the second fails on the primary key.
- `app/services/recommendation_service.py:71` says that the first row of a repeated
  `bid_id` is kept; a dict keeps the last (the key is unique, so nothing comes of it).
- `app/api/v1/schemas/recommendation.py` calls `score` the score of the search; it is
  the weighted total.
- `app/agents/chat_rate_limit.py:21` truncates `Retry-After`, so it may end up to a second
  before the hit it waits for expires.

Behaviour worth knowing:

- A headcount of 40000, an amount beyond 64 bits or a NUL in a text passes the schema and
  raises a DataError in the flush (a NUL in a code already in the look-up). Nothing is stored, but
  the answer is 500: `_save_or_422` catches only the IntegrityError, while its docstring
  (`company_profile_service.py:183-184`) speaks of constraint violations only.
- Two overlapping PUTs of a profile may leave the union of both (tables in which no
  key collides, and the performance records, which have keys of their own), although
  `app/api/v1/schemas/profile.py:155` calls the request the desired final state; and
  two flushes that wait for each other end in a 500.
- Two accounts with the same verified email share a company: a link reads the row and
  later overwrites its `cognito_sub`, whatever happened in between. If the owner
  withdraws at that moment, the other account is the one that counts as withdrawn.
- `DELETE /me/scraps` of a bid that is not merged at the moment answers 204 and removes
  nothing, since it resolves the bid like a POST does.
- The candidates, signals, licenses and amounts of a recommendation are separate
  snapshots. A bid that is scrapped in between is recommended, with its own title as
  the reason.
- Two processes that refresh at once (a Blue/Green switch) do not only repeat each other:
  an upsert whose snapshot is older may commit last and bring back the row of an older
  normalization, whose bid neither cycle then looks at again until the night, although
  `match_refresh.py:17-18` calls the overlap harmless. TLC shows it with a second
  refresher, one company, one bid and no hooks (`MaxTime` 3). This is why
  `CycleCovers` speaks of cycles beside hooks and `match_refresh` has one refresher.
- A deployment that dies between the rename of the link (line 293) and the reload (303)
  leaves Nginx on the old slot and the link on the new one. Nothing is broken yet, and
  a reboot is fine; but the next deployment believes the link (line 102), takes the
  slot that serves for its candidate and removes it (261). This is `stray`.
- Both configurations are overwritten at lines 242-243 and not put back. If the one of
  the old slot is invalid, the rollback's `nginx -t` fails (`refused`), Nginx stays on the
  candidate, and the rollback removes the candidate (198): nothing answers any more. A reload
  of Nginx that fails (181, `nginx`) ends the same way. No property catches this: it is
  what the code does, and they make the exception.
- `docker start` of the old slot may fail in a rollback, which goes on (`unstarted`).
- The rollback of the first cutover stops Nginx (179) and starts it for nobody else
  again: the listener for the agent on port 8010 is gone too.

## 6. What is proved

The eight proof modules hold for every value of the constants that satisfies the named
assumptions (finitely many processes, turns, requests and deployments, positive limits, a
lag below the window, ids that are numbers, null values outside their types), and of the
hypotheses a theorem states itself.

- **ChatSession, `TypeCorrect`, `GuardCorrect`**: `TypeOK` is inductive, and with it
  `GuardExact`: every action changes the guard and the turn's `pc` together.
- **`IsolationCorrect`**: `Isolation` is not inductive, because what a turn will
  write depends on checks it made transactions ago. The strengthening
  `IsolationInv` adds that a session with messages or a context has an owner, and
  that a turn past `open_turn` works for the owner of its session, or is about to
  insert the row.
- **`CapCorrect`**: `CapHolds` counts committed questions; the strengthening counts
  them with the turns *admitted* but not yet inserted. By `GuardExact` there is at most
  one such turn per process, and a turn is admitted only below the cap, which
  bounds the sum by `MaxTurns + |Procs| - 1`.
- **`DeletionCorrect`**: an action property, from the fact that a deleted session
  has a row, so no turn that would insert it can commit.
- **`GhostCorrect`, `TranscriptCorrect`, `ContextRaceCorrect`**: under `OneAtATime`, which is one
  process and a client that waits for its answer before it undoes; without it
  `chat_undo_race` refutes the first of them. `TalkInv` says that a turn which waits for the agent
  finds its question last in its session and its context untouched (only turns and
  undos write there, `GuardExact` keeps the other turns out and the client the undos), and that
  what an undo has read is still true when it commits. Then an answer lands right
  behind its question, and an undo takes away the last question together with the context.
- **`UndoCorrect`**, under the same assumption: `OnceInv` says that a turn asks once and answers
  once, so that the messages from the last question on are those of one turn; what the undo
  has read is still all of it when it deletes (`TalkInv`).
- **ChatLimits, `TypeCorrect`**: includes what the expiry loop returns
  (`DropOlderPrefix`, by least element), so that hits stay sequences of ages.
- **`SlotsCorrect`**: the counter equals the cardinality of the set of holders,
  which each action changes by at most one element, or empties in a crash.
- **`DailyCorrect`**: `DailyBound` is inductive, since a run is counted in the step that admits it.
- **`WindowCorrect`, `RefusalCorrect`**: the properties count checks that passed, the code counts hits
  that have not expired, and the two lists age differently. `WindowInv` relates them: counted from
  the newest, the n-th check and the n-th hit are of one request, the hit older by at most
  `MaxLag`; a check younger than `Window - MaxLag` still has its hit, and a hit younger than
  `Horizon` its check. So the expiry loop, which drops from the front and stops at the first
  live hit, never drops the hit of a recent check (`ExpiryKeepsMatched`); and when it stops, the live hit
  vouches for all those behind it, which passed later, even if their readings have expired.
- **MatchRefresh, `TypeCorrect`, `NoGapCorrect`, `PutCorrect`**, for any number of
  companies, bids, hooks and refreshers: `PutInv` says that rows belong to normalized
  bids, that no two recomputes hold the same row, and that the INSERT of a recompute
  puts back every open row its DELETE removed; hence `NoGap`. For `PutReflected` the
  hard case is an open bid for which the recompute has no row: it was normalized
  after the snapshot, so the row that is there, or that another writer is about to
  commit, was computed later and from a profile at least as new (`LateInv`).
- **`CoverCorrect`**, for one refresher (`OneRefresher`; section 5 says what two do). `CoverInv`: what
  the cycle's transaction is about to write is at least as new as the cycle's beginning,
  and so is the row of each company it has done. A hook's recompute may have read the bids
  before the cycle began and commit after it. If it deleted no row for the bid, its INSERT fails
  on the row of the cycle; if it did, the cycle's writer waited for it, and then overwrote its
  row or failed on it. Hence the last conjunct: a recompute that will *replace* a row of a
  company that is done has computed a fresh one.
- **EventSink, `TypeCorrect`, `OwnerCorrect`**: the lists of all threads and the buffer
  are disjoint and without repetition; the new event is fresh because events in
  memory are below `added`. `TrimKeeps` and `Concatenation` are what the trimming
  and the requeue do to a list.
- **`BestEffortCorrect`**: every step of the sink is a step of `BestEffortQueue` or a
  stutter. That a loss at the bound leaves `MaxBuffer` events is a matter of counting:
  a full buffer without repetition has that many members (`CountMembers`). That the oldest go
  needs a buffer in order, which it is as long as no batch was overtaken.
- **`StopCorrect`**: `StopDrains` is not inductive; `StopInv` adds that the buffer has only events
  newer than stop's own flush once stop has made it, as long as nothing fails.

- **CompanyIdentity, `InheritanceCorrect`, `EmailsCorrect`**: from one strengthening,
  `OwnerInv`. Rows: no two have the same sub, a deleted row has one, and the email of
  a row with an owner is the verified email of that owner. Requests: the company that a request has found
  is in the table, has its email if it is about to be linked, and is none of those deleted when
  the request began (a deleted row stays deleted, and no lookup returns one).
- **`WithdrawalCorrect`, `ConvergeCorrect`**: for an account that is alone with its
  email nobody else is ever linked to its row. `WithdrawnInv` says that it has a deleted row exactly when it
  withdrew; since subs are unique, it then has no other. `SoleInv` says that at most one row is its
  own or has its email, and that an INSERT it lost was lost to its own row, which is
  active unless it withdrew: the second look finds it.
- **ProfileReplace, `TypeCorrect`, `HalfCorrect`, `AloneCorrect`, `ReplaceCorrect`**: one inductive
  invariant, `ReplaceInv`. What a reader sees is committed (`RowsInv`). Of the rows a PUT found when it
  began, those that are still there are among the ones it has deleted, in each section it has
  passed, or among the ones it waits for (`OwnInv`): a row that another PUT deletes is locked, so that nobody
  passes it by. For `HalfCorrect` each PUT has a witness (`WholeOf`): the tables hold what it found, or
  all rows of some PUT that has committed since; a commit of the same company makes itself the
  witness. For `AloneCorrect`, `FlushInv` says how far the flush has come in each section, and
  `AloneInv` that a PUT nobody overlaps has deleted every row of its company there: an INSERT
  can then fail only on a key its payload repeats, which the first layer refuses,
  on a constraint, or on a value no column holds (`WritesInv`: what is written fits).
- **BidReads, `TotalCorrect`, `PagesCorrect`, `SearchCorrect`**: `WalkInv` relates each page to
  some order of the list at the walk's clock as long as nothing was committed. Each of the
  sort keys ends in the unique `bid_id`, so that only one order is left and two pages cannot be
  cut from different ones (`MatchKeyUntied`, the mutant, is what this excludes). The two ways of
  writing the deadline list are compared key by key.
- **`EmbedCorrect`**: `AskInv`. The cache holds each text once with its own vector, which
  `Use`, `Touch` and `Put` keep (a new entry replaces the old one of its text, and eviction cuts
  off the front); a request that waits for the embedding service holds the vector of each text it
  did not ask for, whatever is evicted meanwhile.
- **`AnswerCorrect`, `StrongestCorrect`**: `Ahead` is a strict total order, so a ranking exists and is
  the only one (a bid's place is the number of bids ahead of it, plus one). What the loops over
  signals, titles and ranked bids compute is stated of every stage of the fold: of the first *k*
  signals the first of the strongest; of the first *k* bids each is chosen, or beaten by a chosen
  one of its title, or the limit is full. The folds of the community modules are defined
  by a recursion that the provers cannot unfold by themselves: `FoldExists` and `Stages` show that such
  a function exists and takes one step for each element, by least counterexample, with the step
  given as a function.
- **BlueGreenDeploy, `UpCorrect`, `StartCorrect`, `RebootCorrect`, `RestoreCorrect`**: one
  inductive invariant. `LockInv`: only the holder of the lock runs. `MachineInv` is what
  the disk, Docker and the units say at any moment, whoever was cut short: the slot the
  link names is verified and runs, the state file never goes before the link, what
  serves is started by a boot. `ScriptInv` is what the script knows at each of its
  positions: whose slot the link names, that candidate and old slot run,
  what Nginx still serves, what a rollback will put back unless the command for it has failed.
  There is one lemma per command.
  A kill keeps `MachineInv` because every command keeps it; that is why it must hold
  between any two commands and not only at the end.

Only model-checked: the liveness properties (`SessionUnlocks`, `SlotsDrain`,
`EventsDrain`, `NightlyHeals`), which are out of the prover's reach. Every other property of
a passing run has a theorem. Those with a hypothesis of their own say nothing beyond it:
`NoGhostContext`, `Transcript`, `UndoTakesLastTurn` and `NoContextRace` are for one process and a client that waits,
`CycleCovers` is for one refresher.

## 7. What is not modelled, and why

- Read paths that are one lookup or one aggregate: the detail of a bid, the daily count,
  the summary of matches, the list and detail of chat sessions, the statistics (over
  materialized views of the pipeline), the search of the master tables.
- In BidReads: companies other than one (the queries take their company from the
  request, and nothing else relates two); search results that are not candidates, which
  the code filters out defensively; a search width above the number of bids.
- In BlueGreenDeploy: the checks of the script's inputs before the lock, `docker image
  prune`, and whether a migration is compatible with the slot that still serves. The
  host's bootstrap script runs once by hand, and its result is `Init`.
- In MatchRefresh: companies that join or withdraw while the refresher runs.
- Token verification is a library's; its outcomes are modelled. The agent and the embedding service are
  other systems; their outcomes are modelled.
- The validation of the settings, DTOs, ORM mappings, migrations, observability, CI and
  scripts have no behaviour a state machine would show.
