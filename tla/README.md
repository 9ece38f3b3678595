# Home_Compass: a verification development

Home_Compass advises on housing support in Korea. A FastAPI server decides by
rules that people approve, from market data that batches collect; two browser
applications sit in front of it. This directory holds TLA+ models of its
stateful parts, the TLC runs that check them and TLAPS proofs about them. Paths
below are relative to `src/backend/src/home_compass/` unless they start with
`src/`.

## 1. The system and its parts

| Part | Code | State it keeps | Operations |
|---|---|---|---|
| Rule approval | `main.py` 2135-2427, 3043-3108 | none of its own; a request's locals | approve, reject, batch-approve |
| Rule store | `store/sqlite_store.py`, `store/sqlite_schema.py` | `rule_draft`, `rule_version`, `approval_record`, `audit_event` | claim_pending, set_status, add, supersede, active, append |
| Other tables | same files | `region`, `model_constant`, `app_user`, `anomaly_report`, `policy_source`, `rule_span_mapping` | upsert, put, add, list |
| Seeding | `store/seed.py`, `src/scripts/start_server.py` | the same tables | seed_policies, seed_demo_queue on every start |
| Sessions and authorization | `auth.py`, `main.py` 1361-1435, 2732-2810 | `SessionStore`: sessions in memory | login, logout, authorize, expiry |
| Extraction | `ingest/extraction.py`, `extraction_verify.py`, `llm/extraction.py` | drafts, spans, failures | extract_one, retry with an LLM, verify, store or mark failed |
| Market batch | `ingest/market/pipeline.py`, `source.py` | regions, audit events | collect, commit per region, mark stale |
| Policy sources | `ingest/sources.py` | `policy_source` | fetch, verify, add |
| Decision engines | `engines/*.py` | none | eligibility, affordability, risk, tco |
| Analysis API | `main.py` 1635-1862, 2642-2717 | none | analyze, grade_facts |
| Draft detail and impact | `main.py` 1828-2110, 2438-2550, 2918-3040 | none | merge, table of changes, marked text, verdicts of the regression profiles |
| Chat | `llm/agent.py`, `main.py` chat endpoint | none; the conversation travels with the request | chat with tool calls, retry, fallback |
| Reports | `main.py` 2835-2889 | `anomaly_report` | create_report |
| Citizen client | `src/frontend/app.js`, `local_engine.js` | form, last result | analyze, offline fallback |
| Review client | `src/admin/app.js` | queue, selection, session | list, decide, batch |
| Scripts | `src/scripts/*.py` | files | coordination, contracts, packaging |

How they interact:

* Every request opens its own SQLite connection (`store_from_env`). FastAPI runs
  the `def` endpoints on a thread pool, so between any two store calls of one
  request any other request may run. SQLite serialises writers; a store call
  that commits is the unit of atomicity, and no transaction spans two calls.
* Approval writes four ledgers in order: the draft's status (the claim), the
  `ApprovalRecord`, the `RuleVersion`, the `AuditEvent`.
* The engines see rules only through `rule_versions.active(at)`.
* Extraction adds pending drafts to the queue that approval empties; both write
  `rule_draft.status`.
* The citizen's page answers from its own copy of the engines, over artifacts
  generated from a seeded store, when the server does not; the chat's tools call
  the server's engines.
* The windows of one browser share the session cookie, while each page keeps its
  own idea of who is logged in.
* `start_server.py` seeds on every start and then runs one uvicorn process, so a
  restart loses sessions and every request in flight, and nothing repairs what
  those requests left half done.

What is hard: two drafts of one policy approved at once; a claim that must be
given back on every way out; a `now` that is older than what it is compared
with; failures between the four ledgers; batches of batches; restarts; answers that
arrive after the page has given up, in another order, or under another session;
two implementations of the same rules that may drift apart. The
hazards are listed one by one in `PROJECT.json`.

What makes each part correct:

* Approval and store: exactly one version of a policy is in force at any
  instant; a version never changes but to be closed once; a draft has one
  decider; the ledgers agree; no thread keeps a claim for ever, and one that lets
  go has decided the draft or given it back, up to the failures section 5 names.
* Sessions: an ended session authorizes nothing and never comes back; work is
  done only under a session that entitled it; the audit trail tells every
  session's life in order. (That activity keeps a session alive is what a test
  says and the code does not always keep.)
* Extraction: a draft is stored whole or marked failed; every target of a batch
  is accounted for once on the trail, failures included; a batch never touches a
  decision a person has made; only a batch that overlapped another process is
  stopped by a numbering collision; stored evidence is in the text, letter by
  letter.
* Draft detail and impact: the marked text is exactly the evidence, the rule an
  approval makes is the one that was announced, and nothing known is forgotten
  because a draft did not find it.
* Market batch: a value never wears another run's lineage; a batch commits every
  region or none; a failure changes no value and improves no grade; the audit
  event that closes a run tells the truth about it. (The second and third hold
  only while batches do not overlap, and nothing keeps them apart.) The
  values are made of every row the services hold, of the contracts that count
  alone, and no complex has more than one vote in a ratio.
* Seeding: the server takes requests only over a complete catalogue, however many
  starts died on the way; no start undoes a decision.
* Engines and analysis: server and browser give the same answer; the engines of
  one answer speak of the same facts; a plan leaves the household its buffer; a
  verdict can be reproduced from the versions it names; more income never
  qualifies.
* Chat and citizen page: one reply per question; every number carries its source
  and is computed for the asker; nothing internal is shown once its session has
  ended, but for an answer that was on its way (section 5); what the page calls
  sent is stored; everything the user sets off comes to an end.
* Review page: a decision is made in the name on the screen, what is called
  decided is decided, and a reviewer who waits decides the draft he reads.

## 2. Modules

| Module | What it is |
|---|---|
| `RuleTimeline` | abstract: each policy has a timeline of rules; a rule enters once, after all others |
| `RuleStore` | the tables an approval touches and the store calls on them |
| `Approval` | the three decision endpoints run by concurrent workers, with faults and restarts |
| `MCApproval` | the small instance for TLC |
| `ApprovalProofs` | types, exclusive claims, audited decisions, windows, chain, immutability, refinement of `RuleTimeline`, agreement of the four ledgers |
| `SessionLease` | abstract: a session is issued once, admits requests while live, ends for good |
| `Sessions` | the ledger of `auth.py` and the endpoints around it, with faults and restarts |
| `MCSessions` | the small instance for TLC |
| `SessionsProofs` | types, the ledger, entitlement, the trail, refinement of `SessionLease` |
| `MarketBatch` | the market batch and the seeding of regions as processes on one store |
| `MCMarketBatch` | the small instance for TLC |
| `MarketStatistics` | rows to values: normalisation, medians, ratios of paired cells, outliers, as pure operators |
| `MarketSource` | one collection page by page, region after region, up to those values; extends `MarketStatistics` |
| `MCMarketSource` | the markets for TLC |
| `MarketBatchProofs` | of `MarketBatch`: types, lineage, the closing of runs, all or nothing, failures that only downgrade; of `MarketSource`: no row is lost, and the values are those of the market |
| `Startup` | what the server's start seeds after the regions, one store call per step; extends `RuleStore` |
| `Extraction` | extraction batches on the store of `Startup`, with start-ups, reviewers and deaths between their steps |
| `MCExtraction` | the small instances for TLC |
| `ExtractionProofs` | types, the catalogue, decisions, spans, the account of a batch, a lone batch |
| `ExtractionVerify` | the check of the language model's answer and the location of its quotes, as pure operators |
| `ReviewDetail` | drafts of one policy from the answer to the rule version, with the detail and the impact the server computes of them; extends `ExtractionVerify` |
| `MCReviewDetail` | a text, answers sound and spoilt, for TLC |
| `ReviewDetailProofs` | evidence, the marked text, the merge, the screen against the approval |
| `ModelConstants` | the registered constants, and what both engines rely on in them |
| `Lists` | keeping the elements of a list that satisfy a condition |
| `Engines` | the server's four engines as pure operators |
| `LocalEngine` | the browser's copy of them, translated from its own source |
| `Analysis` | the analysis endpoint over a store that changes, beside the browser answering alone; extends both engines |
| `MCAnalysis` | the registered constants, five seeded policies, four seeded regions, and the forms |
| `AnalysisProofs` | reproducible verdicts, income, the buffer, the four engines with each other, the browser with the server |
| `Chat` | the loop of the chat agent: rounds, tool calls, attempts, the offline template |
| `CitizenPage` | the citizen's page with the endpoints it calls; extends `Chat` |
| `MCCitizenPage` | the small instance for TLC |
| `CitizenPageProofs` | every safety property of the chat and of the page |
| `ReviewDesk` | the reviewer's page with the server, other reviewers and other windows |
| `MCReviewDesk` | the small instance for TLC |
| `ReviewDeskProofs` | decisions, and what a patient reviewer is told |

### Correspondence with the code

`RuleStore` keeps one variable per column that the properties tell apart:
`rows`, `from`, `until`, `prior` are the ids, `effective_from`, `effective_to`
and `supersedes` of `rule_version`; `draftStatus` is `rule_draft.status`;
`approvals` and `audited` count rows of `approval_record` and of the decision
events. Ids are not strings: `approval:<draft>` is the draft, `seed:<policy>`
the policy. Payloads, provenance, reasons and actors are left out: no guard on
the paths modelled reads them. A `Can...` predicate is everything a call checks
before it commits, in Python, in a CHECK or in a trigger; a check that Python
makes early and the transaction makes again is one check at the commit.

`Approval` has one action per store call. `pc` is the place in the handler:

| Action | Code |
|---|---|
| `Begin` | the endpoint up to `request_now()` and `authorize` |
| `CheckPending`, `CheckRefused` | `_pending_draft_or_error`, and the collision check of a batch |
| `Claim`, `ClaimLost` | `claim_pending` in `_decide` and in the loop of `_batch_approve` |
| `Preflight` | `_approval_preflight`, draft by draft |
| `ReadPrevious` | `read_active_rule_versions` in `_apply_decision` |
| `AddRecord` | `approvals.add` |
| `WriteVersion`, `WriteRefused` | `rule_versions.add` / `supersede`, done or raising |
| `WriteAudit` | `record` |
| `Release` | one `set_status(pending)` of `_release_claims` or of `_decide`'s handler |
| `StoreFault` | any store call raising for a reason of its own |
| `Restart` | the process dies and `start_server.py` starts it again |
| `DraftAdded` | the extraction batch stores a draft |

Departures from the code, each towards more behaviours: the preflight reads one
draft in one step although it makes two reads; `ReadPrevious` may take any
active version where the code takes the first by rowid; a fault may hit any
call. A store call that commits and then fails on its own read-back is a fault
after the commit, which a restart at that point covers. A refused batch (empty,
or the same draft twice) never touches the store and is not an action.
Authorization stands in front and is modelled by `Sessions`.

`Sessions` keeps `SessionStore._sessions` in `ledger` and, as history, what every
session ever was (`life`), whose cookies were sent (`delivered`) and whose login
and logout are on the trail. The lock makes a visit to the ledger one action; the
clock is read in `Begin`, before it. The CSRF token is one per session, so a
token is named by its session; the role is its user's, because no code changes a
role.

| Action | Code |
|---|---|
| `Begin` | a request arrives and calls `request_now()` |
| `LogIn`, `LoginRefused` | `login_endpoint` from the password check to `SESSIONS.create` or the refusal |
| `Authorize` | `resolve_session` in `authorize` or `optional_session`; then role and CSRF |
| `Deny` | `_record_denial`, or the failed login's event |
| `Serve` | the endpoint's own work, under the session it was accepted with |
| `LogOut` | `SESSIONS.delete` in `logout_endpoint` |
| `RecordLogin`, `RecordLogout` | the audit event and the answer with its cookies |
| `StoreFault` | a store call raises |
| `Restart` | the process is replaced; the ledger was its memory |
| `Tick` | time passes |

`LookupReason` follows `resolve` check by check, `Verdict` follows `authorize`.
Browsers may send any cookie ever delivered, or none, with any token ever
delivered. Ids never repeat (`token_urlsafe(32)`). Session timeouts are constants:
they are read from the store once, at start-up.

`MarketBatch` keeps the region table (`region`), the market's audit events
(`audit`) and, per process, its place and its memory (`pc`, `job`). A field's
value is the number of the collection that derived it and its lineage names a
collection and a grade, so that a value that wears the wrong lineage can be
seen. The eight fields fall into three groups that are treated alike: always
derived, derived when enough cells pair, without a counterpart in the data. What
a collection yields is chosen from `Results`: every kind of failure (the source,
the deadline, too small a sample, a statistic that cannot be derived) leads to
the same handler and is one result; the other results differ in what was derived
and in what the outliers made of the grade.

| Action | Code |
|---|---|
| `Begin`, `Seed` | `seed_all` at the head of `run` and in `start_server.py`: `seed_regions`, upsert by upsert |
| `Collect` | `collect_market` from `regions.list()` to the decision of what it will do |
| `BeginCommit`, `BeginFlags`, `BeginFailed`, `BeginRun` | `len(store.audit.list())`, read before the events numbered from it |
| `Upsert`, `AppendIngest` | the two calls of `_commit` per region |
| `AppendOutlier` | the loop over outliers |
| `ListForStale`, `MarkStale`, `AppendFailed` | `_mark_stale`: read all, upsert what changes, audit |
| `AppendRun` | `_record_run`; then the next of the program's three collections, or its end |
| `Collide` | `append` meets its primary key |
| `Die` | a store call raises (nothing catches it) or the process is killed |
| `OtherEvent` | the server appends an event of its own |

Departures: regions are taken in any order where the code takes them by rowid,
which allows more; a region has at most one outlier, since a second one differs
in its number only; the third collection of the program always fails, as the
program breaks it on purpose; the checks the program prints change nothing and
are left out. `disturbed` is history: the processes that began while another ran.

`MarketSource` is what `Collect` does in one step, and `MarketStatistics` what it
computes: they tell which result a collection yields, where `MarketBatch` allows
any. A service's rows for a month are a list that does not change while it is
read. Lists of rows are functions from positions, since no statistic looks at
their order; a median is given doubled and a percentage in hundredths, so that
all arithmetic is exact (a ratio of floats is exact here). Time is only whether
the deadline is over.

| Action | Code |
|---|---|
| `StartRegion` | the head of the loop of `collect_market`: the deadline, then the next region |
| `ResolveKey`, `KeyMissing` | `resolve_api_key` in `fetch` |
| `TransportFails` | one attempt of `_request` raising; repeated up to `max_attempts` |
| `BadAnswer` | `_root`, `_raise_for_envelope`: an answer that is no page, which is not repeated |
| `ReadPage` | one turn of the loop of `fetch` |
| `MonthCollected` | one turn of the loop of `_collect_raw` |
| `Derive` | the rest of the region: `derive`, or `MarketFieldMappingError`, which leaves `collect_market` |

`derive` has no `derivation_failed`: medians of a sample that is large enough exist,
and a ratio has a value as soon as one cell has one, so the branch of the code cannot
be reached while `ingest.market_min_sample_count` is positive.

`Startup` and `Extraction` share `RuleStore`'s tables and add the sources, the
spans and the audit trail. A draft's id is the code's: its number and its policy,
and the number is the length of a list read earlier, which is what makes ids
collide. `AuditLength` counts the trail and the events on decisions
(`DecisionEvents`), which are kept as counters; `deciding` holds the decisions
between their claim and their audit event.

| Action | Code |
|---|---|
| `SeedPolicy`, `SeedPolicyAudit`, `SeedSources` | `seed_policies`, `seed_policy_sources` |
| `SeedDraft`, `InsertDemoDraft`, `SeedSpan`, `SeedDraftAudit` | `seed_demo_queue` |
| `Serve`, `Boot`, `GoDown` | `start_server.py` replaces itself by the server; starts; dies |
| `StartBatch`, `LoadSource`, `LoadAudit` | `extract_cli.run`, the loader's writes per source |
| `ReadSource`, `CallModel` | `extract_one` up to the model's answer and the verification of its quotes |
| `NumberDraft`, `InsertDraft`, `InsertFailed`, `InsertSpan` | the draft and its spans, each with its own commit |
| `MarkFailed`, `SpanRefused` | a span the store refuses, and `set_status(extraction_failed)` |
| `NumberEvent`, `LogExtraction` | the audit event, numbered before it is appended |
| `BatchStops` | the process is killed |
| `Claim`, `ReflectApproval`, `ReflectRejection`, `GiveBack` | a reviewer as ingestion meets him; the steps in between are `Approval`'s |

`ReviewDetail` follows the drafts of one policy with their content, which the other
modules leave out. A text and a quote are sequences of letters, a place in a draft
is the tokens of its JSON Pointer, a payload is a function from places to values.
`Extraction` has the numbers, retries and events of a batch, `Approval` the other
steps of a decision.

| Action of `ReviewDetail` | Code |
|---|---|
| `ExtractOne` | `extract_one` after its last attempt: `call_extraction`, `verify`, and the draft or the failure |
| `AddSpan` | `add_span`, with its own commit |
| `BatchStops` | the batch dies between two spans, or a span is refused and the draft marked failed |
| `ReadEvidence`, `ShowDetail` | `admin_draft_detail_endpoint`: the draft with its spans; the rule in force, merge, `_field_changes`, `_span_view`, `_highlight_segments` |
| `ShowImpact` | `admin_draft_impact_endpoint`: `_approval_impact` over the regression profiles |
| `Claim`, `ReadPrevious`, `WriteVersion`, `GiveBack` | a decision as far as it concerns the payload: the claim, the version read, `supersede` with `_merged_payload`, the release |

What the model answers is chosen from `Answers`, and what `analyze` says of a
profile is a constant (`Judge`): the properties compare two of its verdicts. The
endpoint reads the draft before its spans; what a draft says is written once, so
the model takes it with the later read. One request for a detail is under way at
a time, as one detail is looked at. The code also marks an empty
`rateRangePct` as wiped (`main.py` 2059); the schema lets no draft have one.

`Engines` and `LocalEngine` follow their sources function by function, in the
source's names. Money is in units of 1000 won and rates in the units the
constants are registered in. A number the code rounds once is rounded once here,
from the exact fraction: the loan caps, the costs of a scenario, its monthly
cost, its `npv`. The exception is the fit score of a scenario (`tco.py` 202-229):
the code rounds the sum of three floats once, the model takes each share down to
hundredths before that, because the common denominator is beyond TLC's integers.
Both copies are translated so, and `OfflineAgrees` compares the scores only up to that. What floats
add to exact fractions is left out. The code's sentences are reduced to the
alternative and the loan they name, and the `valuePct` of a risk factor is left
out. A helper takes the values computed before it as parameters, as the code's
functions do.

| Action of `Analysis` | Code |
|---|---|
| `Edit` | the citizen changes one field of the form |
| `ReadRegions`, `ReadRules`, `Answer` | `analyze_endpoint`: regions; rules in force and the session; engines, lineage, grade, internal part |
| `AnswerOffline` | `local_engine.js` over the generated artifacts |
| `Supersede`, `Collect`, `Tick` | an approval, a market batch, time |

`Chat` gives every question a thread of the server; what the provider says is
free (text, calls of tools with any region of the environment, an error, an
empty answer). A question without text, which `chat` answers with a prompt to ask
something (`llm/agent.py` 737), and the error answer of the endpoint are not
modelled: the page sends no empty question, and `chat` raises nothing.
`CitizenPage` keeps `STATE` of `app.js` in variables of the same names.

| Action of `CitizenPage` | Code |
|---|---|
| `StaffClick`, `UseDialog` | `doLogin`, `doLogout`, `submitReport`; opening and closing the login and the report dialog |
| `Serve` | the session, login, logout and report endpoints, with the audit append that may fail |
| `ComesBack` | the callbacks: `SessionArrives`, `LoginArrives`, `LogoutArrives`, `ReportArrives`, `CallFails` |
| `Boots` | the requests of `init` answered or failing |
| `Diagnose` | `analyze` with its timeout, the endpoint, the fallback, and `renderAll` |
| `Converse` | `sendChat`, the request's thread (`ChatThread` runs `Chat`), `localChatReply` |
| `Elsewhere` | another window logs in or out, a session expires |

In both pages session *i* is the *i*-th one created and stands for its user and
its CSRF token too. An answer whose headers arrived is taken to arrive whole, and
the generated artifacts to be there (section 5 names what happens otherwise).

| Action of `ReviewDesk` | Code |
|---|---|
| `Clicks` | `openDraft`, `toggleSelected`, `decide`, `batchApprove`, `login`, `logout` |
| `Serve` | the endpoints; a decision takes effect at once (`Approval` has its steps), a batch may stop part way |
| `Arrives` | what each callback does with its answer: session, queue, reports, detail, impact, decision |
| `Refused`, `Lost` | an error answer; no answer |
| `Elsewhere` | another reviewer decides, another window logs in, the session ends |

## 3. Runs

| Run | Question | Bounds |
|---|---|---|
| `decisions` | do races, a store failure or a restart break the claim, the ledgers or the timeline? | 2 workers, 3 requests, batches of 2, 2 instants, 3 drafts of 2 policies, the policy with two drafts seeded and the other not, one draft appearing late, 1 failure, 1 restart |
| `live` | is the version table an implementation of the timeline, and does every claim end in a decision or a release? | 2 workers, 2 requests, 2 instants, all drafts queued, both policies seeded, 1 failure |
| `batch_partial` | SPEC 4.6 calls a batch atomic; is it? | 2 workers, 3 requests, 2 instants, no failure; a violation is found |
| `gate` | do races, expiry, faults and restarts break the session's promise? | 2 workers, 2 accounts (one of each role), 2 sessions, 4 requests, 3 ticks, idle 2 and absolute 3, 1 failure, 1 restart; a staff, a manager and an optional endpoint |
| `market` | does a batch keep its word when nothing meets it, and what survives when something does? | 2 processes, 2 programs, 2 collections (one that fails, one whose outliers exceed), 2 regions, 1 event of the server, 1 death |
| `collection` | is a row lost, and are the values those of the market? | 2 regions, 2 months, pages of 2 rows and at most 2 pages, 2 attempts, 1 fault, a deadline; 108 markets |
| `ingest_together` | do batches, a start and a reviewer disturb each other when nothing fails? | 2 batches (limits 2 and 1), 2 policies, 4 drafts of which 1 demo draft, 2 spans, 2 attempts, 1 decision |
| `ingest_faults` | and when spans are refused and processes die? | 1 batch, 3 drafts, 1 decision, 2 mishaps |
| `screen` | does evidence stay real from the answer to the screen, and is the rule what the screen announced? | a text of 4 letters, 2 drafts of 1 policy, a criterion, a scalar and a check, 3 sound and 21 spoilt answers, 3 profiles, 1 mishap |
| `decision` | do the two copies of the engines and the four engines agree? | 12 forms (3 households), one of 10 edits, 5 policies, 4 regions, 1 change of the store, 2 answers, 2 instants |
| `page` | does the citizen's page tell the truth whatever is lost, late or refused? | 2 questions, 2 profiles, one with a region only the artifacts know, 2 clicks of staff, 1 surprise, 2 tool rounds, 2 attempts; a visit diagnoses and either logs in and reports or converses |
| `desk` | does the reviewer's page? | 2 drafts, 3 clicks, 2 pieces of work at once, 1 surprise |

In `gate`, four requests are a login, a second login or a use, a logout and a late
request; with idle 2 and absolute 3 both expiries occur within three ticks, and a
use at 1 or 2 lets the absolute one come first.

Why the bounds are enough for approval: every hazard listed needs at most two requests at
once, three in all (lose, win, retry), two drafts of one policy and one of
another, two instants (equal and later `now`) and one failure. Requests are a
batch of at most two because the loop treats the third draft as the second.
The proofs remove the bounds for every safety property.

For the market batch two regions tell "one of them" from "all of them", and two
processes are all that can meet in one step. A program may be cut short by the
bound (`Stop`), which only ends a process that could have gone on. Two collections
are the first two sections of the program; the third is a collection that fails,
which the first two may do as well, and the proofs cover it.
`AllOrNothing` and `FailureOnlyDowngrades` say in themselves that no process met
another or (the first) died (`disturbed`), so one run with overlapping processes
checks them beside the properties that hold for every process.

In `collection` one region varies and the other is quiet: months of less than a
page, of exactly two full pages and of more than the pages take; rows that are
unreadable, too large, cancelled or have unknown names; two complexes, of which
one may be louder; one lease that is an outlier; services that count their rows
and one that does not. One fault reaches every way out of a request. `phase =
"done"` ends a collection, so deadlock is not checked; `screen` ends when both
drafts are decided.

In `screen` the quote `ab` stands twice in the text and `bab` overlaps both, so that
a place is ambiguous, found by search or given by offsets, and spans touch and
overlap; each
spoilt answer breaks one of the conditions `verify` names. Two drafts are a draft
and the one that becomes the rule in between.

For ingestion two spans tell a draft stored whole from one stored in part, two
batches are what can collide on a number, the first of them taking two targets so
that it can collide on its second; two mishaps allow a death and a death of the
start that follows. In `ingest_together` nothing fails because its properties say
so: after a death a draft may wait without its spans (section 5).

For the decision run the fields take values on both sides of every threshold the
five policies set, the regions are two of one city with a guarantee, one of
another and one without a guarantee, and each edit moves one field across a
threshold or out of its range. One change of the store between two steps of a
request, and two answers, are what the properties compare.

On the page two questions are needed for a late answer to meet a newer question;
two clicks of staff are a login and a logout, or a login and a report; one surprise
is another window's login or an audit append that fails. The review desk has also been
run to completion with four clicks (7.5 million states) and with two
surprises (7.9 million); both pass, and the smaller instance is kept.
`desk` and `page` do not check deadlock because a page where nobody clicks and
nothing is on its way has really stopped, and neither does `decision`, where
the questions end.

Drafts of the desk and of the screen, workers, session ids, processes and regions
are interchangeable, so the runs that check invariants of them use symmetry; `live`
does not. A server with nothing to do waits (`Waiting`), which keeps deadlock
checking on for handlers in flight.

The type invariants and a few properties that follow from others are in no run's
list (`TypeOK`, `ActiveIsInForce`, and `LedgerIsTrue` and `TrailIsOrdered`, which are the two
parts of `SessionsAreAccountedFor`): each is a theorem.

Fairness:

* `live`: weak fairness of each worker's own handler steps. A thread that has
  started a handler is scheduled again; nothing is assumed of clients, of the
  clock or of failures. A restart ends every claim's request but not its status
  and is excluded from that run.
* `ingest_faults`: weak fairness of each batch's steps: a process that runs goes
  on running. That the attempts of one target are bounded is the code's.
* `page`: weak fairness of the diagnosis, the question and each chat thread once
  they are on their way: the browser's timers fire, its callbacks run, and every
  call of a provider has a timeout. Nothing is assumed of the user, of other
  windows, or of requests being answered.

The other runs check safety only and assume no fairness.

What the violation run shows: SPEC 4.6 calls a batch atomic, and two requests
suffice against it. Another approval closes the version between the preflight
and the second draft's write, and the first draft's rule stays.

## 4. Proofs

### Approval

Proved for every set of workers, policies and drafts and every bound, from
`IdsAssumption` (draft and policy ids differ, a draft has a policy) and
`BoundsAssumption` (the bounds are naturals):

* `TypeCorrect`, with `HandlerOK`: where a handler is determines what `k` and
  `upto` may be; no request names a draft twice.
* `ClaimIsExclusive`. The argument is `ClaimStep`: a step takes a pending draft,
  gives back one it holds, adds a draft, or changes no status and holds no more.
  The early pending check plays no part.
* `AuditedDecisionHolds`, by `AuditInv`: a draft somebody holds has no event,
  and a handler that is about to audit an approval has written its version.
* `OneVersionIsInForce`, by `WindowInv`: windows of a seeded policy are disjoint
  and cover all of time, unwritten rows are open, and what a handler remembers
  of its read (`PreviousOK`) is still a row of its policy. The property alone is
  not inductive: a handler could remember nothing and `add` a second open row.
* `VersionsNeverChange`, `SupersedesChain`, `ActiveAgreesWithTimeline` and
  `ApprovalImplementsTimeline`, from the same invariant.
* `ClaimsAreAlwaysSettled`, the half of `ClaimsEnd` that a step can break, from the
  same invariants: a thread lets go of a draft at its audit event, at its release,
  or where it is cut off, and those are the failures named (`NextSettles`).
* `LedgersStayInAgreement`, by `LedgerInv`: a held draft has no version and no
  rejection on record until the store call before its audit event; and by
  `RecordInv`: a draft has the records it is due, one if it is a rule or on the
  way to be one, and more only if another draft of its policy has become a rule
  (`Outrun`). A refused write shows that: the version it read was closed, or began
  no earlier than the request and so is no seeded one, or the policy had none and
  has one now.

### Sessions

Proved for every set of workers, accounts, sessions and endpoints, any positive
timeouts and any bounds, from `AccountsAssumption` and `LimitsAssumption`:
`SessionsTypeCorrect`, `LedgerStaysTrue`, `TrailStaysOrdered` and both together,
`SessionsStayAccountedFor`; `WorkStaysEntitled`, `SessionsImplementLease`.

The inductive invariant is `IInv`: types, `LedgerIsTrue`, `TrailIsOrdered`,
`LifeOK` (no use is older than the creation or in the future) and, for each
handler, `HandlerOK`. The properties alone are not inductive: a cookie that waits
for the lock must be known to come from a login older than the request
(`SentBefore`), or the lookup could put the idle clock before the login, and a
handler about to record a logout must be known to have ended the session.
`Onward` says what any step means to the handlers that do not move (sessions stay
created and ended, cookies stay sent, time goes on); `OthersKeep` uses it once
for all actions. `VerdictEntitles` is where the checks of `authorize` pay.
For the refinement, `leaseState` and `leaseHolder` map the ledger and the handlers
at work; a login is an `Issue`, an accepted lookup an `Accept`, and every way to
end a session or a request a `Close`.

### Market batch

Proved for every set of processes and regions and every bound, from
`InstanceAssumption`: `MarketTypeCorrect`, `LineageAlwaysTravels`,
`RunsAlwaysCloseTruly`, `BatchIsAllOrNothing`, `FailuresOnlyDowngrade`.

* Lineage: what a process writes is what it read, changed in a way that keeps
  value and lineage together (`UpdatedLineage`, `DowngradedLineage`). So the
  invariant speaks of the memories (`job[p].snap`) as well as of the table.
* The trail: `TrailInv` adds to the property that two running processes never
  have the same collection (`OwnNumbers`), that a run in progress has no closing
  event (`RunOK`), and what each stage knows of its own events (`CommitOK`: the
  regions not to do any more have an ingest event; `FailOK`: no ingest event, and
  a failure before the closing). The property alone says nothing of runs that
  are not closed yet. `AppendKeeps` is the argument once for every event: it
  belongs to one run, and that run is open.

`AllOrNothing` and `FailureOnlyDowngrades` speak of processes that met nobody,
and rest on a second invariant, `AloneInv`, which supposes the same and keeps four
things about them: only one is at work (`OneAtATime`); its next number is beyond
every number on the trail, so that nothing collides and no upsert is left without
its event (`NumbersInv`); what `_mark_stale` is about to write back is still what
the table holds (`FreshReading`); and which regions are done and which are not
(`EvenInv`). The first three are needed even for the last: without them a run
could end half way, and a failure could undo a value.

### The collection

Proved for any market, regions, months, page size, number of pages, attempts and
faults, from `SourceAssumption` (regions, months and each month's rows are lists; a
row names a complex and an area that is blank or not negative; the limits are
positive) and `SettingsAssumption` (the registered settings have the types and signs
the statistics take for granted, and blank and no value are no numbers).

* `NothingIsEverLost`, by `CollectionInv`. Its parts follow the three loops: `LoopsInv`
  says where the batch is, `ItemsInv` that the rows of the month so far are its first
  pages, all full but the last, `RawInv` that the months behind are complete, and
  `OutcomesInv` that each outcome is of the whole market. Of a service that counts
  its rows, a page that is last leaves no row behind (`LastPage`); of one that does
  not, only months shorter than a page are claimed.
* `ValuesAreAlwaysOfTheMarket` is about the operators. That uncounted rows have no
  part is `normalize` twice being `normalize` once. That copies change nothing rests on
  the median: the amount at a rank asks only how many amounts are below, both
  numbers double when every row comes twice, and the two middle ranks of the
  doubled list are the two of the list (`HalfRank`). The same doubling leaves the
  share of outliers. For one vote per complex, a cell whose rows all come twice has
  the medians it had, the other cells have not changed, and a ratio is a
  function of its cell.

### Extraction and the start-up

Proved for every set of policies and batches, any number of spans and attempts
and any bounds, from `DocumentsAssumption` and `BatchAssumption` (the demo drafts
are numbered by their place in the file, every policy is seeded once, a batch has
each target once: what the JSON files and `default_targets` have). The
invariants, each on top of those before it:

* `TypeInv` for `TypesHold`: beside the types, what a place in a handler says of
  the lists (`StartupPlace`, `BatchPlace`), and `OneGiver`: a draft that is being
  given spans has one giver, the batch or the start that inserted it.
* `CatalogueInv` for `CatalogueIsComplete`: a seeded row is open until the one
  approval that closes it (`Windows`), and a start has seeded every policy it
  has gone past (`SeededSoFar`), including those it found.
* `DecisionInv` for `DecisionsSurvive`: a decision between claim and audit event is
  the status of its draft and on no trail; afterwards it is there once.
* `GroundInv` for `WaitingIsGrounded`: every draft that did not fail has its
  spans unless somebody is at it. The property speaks of pending drafts only,
  which a release of a claim would break.
* `AccountInv` for `BatchIsAccounted`: how many drafts a batch has written at each
  place, and which of them the trail has been told of.
* `AloneInv`, `NumbersInv` and `SourcesInv` for `LoneBatchEnds`: no draft's number is
  beyond the number of drafts, so the next one is free for a batch that is
  alone; and the events on the texts are of sources that are loaded, or of a
  loader that is still ahead. This is where counting is needed: the length of
  the trail only grows, and by one event at a time.

### From the answer to the rule

Proved for any text, answers, payloads, profiles and verdicts, any number of drafts
and mishaps, from `NamesAssumption` and `DetailAssumption` (names and special values
differ, the seeded payload has values) and `AnswersAssumption` (an answer whose
shape was checked has the types that were checked): `EvidenceStaysReal`,
`HighlightStaysExact`, `NothingIsErasedUnasked`, `ScreenStaysTruthful`.

The inductive invariant is `Inv`:

* `DraftsInv`: a draft has no content, or what it says has passed `verify`, and every
  span, stored or still in the batch's hands, is evidence for its place; together
  they are all it needs unless its batch stopped.
* `VersionsInv`, `DecidingInv`: every version after the first is `merged_payload` of one
  draft, as it still is, over the version before it. That the draft has not changed
  is why content must be written once (`ExtractOne` needs an absent draft), and that
  the version is the one before is the condition of `supersede`.
* `ReadingInv`: the spans a request for a detail has read are evidence of its draft,
  which they stay, since spans are only added and quotes do not change.
* `ScreenInv`, `ImpactInv`: what is looked at was computed from a draft and a version
  that are still the same. With `VersionsInv` this makes the screen and the approval
  two readings of one merge.
* `HighlightIsExact` itself, which no step but `ShowDetail` touches: between the greatest
  cut not above a letter and the least one above it there is no cut, so that piece
  has the letter and no other has, and a span holds the whole piece or none of it.

### Chat and the citizen's page

Proved for any number of questions, windows, sessions and clicks, any providers
and tool requests, from `ChatAssumption`, `PageAssumption`: `OneReply`, `Labelled`,
`InternalLeaves`, `ReportsHold`, `ToolsAreForTheAsker`, `AnswersAreAccounted`, all from
one inductive invariant, `PageInv`. Its parts: the types of what steps look at;
`ChatInv`, in which every call of a thread is a result of `execute_tool` for the
thread's own profile and belongs to the attempt that is on; `TalkInv`, the
alternation together with which thread the open question has; `LabelInv`, for the
result on the page and the one about to be drawn; `CallsInv`, what each request in
flight has been answered and in whose name; and `LeftInv`. The last is the one the
property hides: that only a diagnosis the logout overtook (`overtaken`) can bring an
internal part back needs that the server is through with every session the page
has left, so that it answers nothing more in its name (`Over`).

### Review page

Proved for any drafts, clicks, pieces of work at a time and surprises, from
`DeskAssumption`.

* `DecisionsHold`, by `LedgerInv` (a decision taken is never taken again) and
  `TakenInv` (what has been answered to a piece of work is so for good, until the
  page says it).
* `PatientHolds`, by `PatientInv`. While the reviewer has waited there is one piece
  of work at most, and it is about the draft he has open (`Steady`). The case
  that makes the invariant long is a draft that cannot be opened because the
  session has ended elsewhere: then the page shows the old draft under the new
  title, and the property holds only because the decision will be refused for the
  same reason (`Cut`), which has to be kept through every step in between.

### Analysis and the engines

Proved for every form, any regions, rules and model constants, any number of
answers, edits and changes, from

* `FormsAssumption`, `StoreAssumption`: the types of the form and of the schema,
  one seeded version of each policy, and that a rule is superseded by a rule of
  its own policy;
* `ConstantsAssumption`: what both engines take for granted of the registered
  constants: units and horizons are positive, a scale has one factor more than
  it has bounds and its bounds rise, the guarantee rates have a bracket without
  a bound, and the keys the server lists as used are those the artifacts mark;
* `DepositsAssumption`: a deposit is nothing or at least a unit, and the fee for
  a unit is visible in units of 1000 won. Only `EnginesSpeakOfTheSameFacts` needs
  it; TLC evaluates all of them on the registered values.

The inductive invariant is `Inv` (`InvHolds`): versions are numbered by their place
and only closed, with at most one in force for a policy (`VersionsOK`); a request
that has read its rules holds versions that are still in the table, or were
closed since (`ReadOK`); each answer on the screen is what the engines make of
such a reading (`OnlineOK`, `OfflineOK`). The other five theorems are about what
the engines make of a reading, so most of the module is lemmas about operators:

* *Lists.* `Kept` and the two stable sorts are rearrangements, and a sort is
  determined by its order: `Ranks` (in a finite set under a strict order every
  rank is taken once), by induction on the size of a set, then `Positions`.
* `VerdictsReproducible`: the version the lineage names is the one the verdict came
  from, because no two versions a request was given are of one policy.
* `MoreIncomeIsNoHelp`: more income only adds failures, or turns an income caveat
  on and never off below the cap (`CloseStaysClose`, `IncomeOnlyLowers`).
* `PlansLeaveTheBuffer`: E1's cap is below what remains after the buffer, flooring
  only lowers it, and a scenario's verdict compares with it (`MaxCostFacts`,
  `AffordFacts`, `ScenarioFacts`).
* `EnginesSpeakOfTheSameFacts`: E3 and E4 put the same question of a deposit, and a
  loan is the first of the usable products in E2's own list (`LoanOption`).
* `EnginesHaveNotDrifted`: each function of `LocalEngine` equals the one of `Engines`
  on the arguments it is called with (`SameAfford`, `SameVerdict`, `SamePolicies`,
  `SameRate`, `SameScenario`, `SameWays`, `SameRisk`, `SameLoan`, `SameCaveat`,
  `SameSummary`, `SameRegion`, `SameGrade`, `SameLineage`). The loop over the
  priorities (`priority.forEach`) is a recursive function there and a choice of
  the best in the server's text; they agree by the loop's own invariant, that
  what is kept after *k* products is the best of the first *k* (`BestKept`).

### Not proved

Only model-checked:

* `BatchesEnd`, `ComesToRest`, and of `ClaimsEnd` that every claim ends: liveness under
  fairness is outside the prover. That a claim ends well is
  `ClaimsAreAlwaysSettled`.

Every other property of a passing run is a theorem.

`VersionsNeverChange` is a theorem that no run checks: it says of each step what
`OneVersionInForce` and `SupersedesIsAChain` say of the states.

## 5. Known limits of the code

Met while modelling, and kept out of the properties by what their statements
assume. Each is a step of a model above that anyone can follow in the source.

* *Approval.* The approval record is committed before the version, so the loser
  of a race on one policy leaves a record without a rule, and its retry writes
  another. When the audit append fails after the version was written, the draft
  is pending again and can be rejected with its rule in force. The claim loop of a
  batch catches two exceptions; any other, there, in the preflight or in a release,
  leaves drafts approved without a version, as a death of the process does, and
  nobody can decide them again; `ClaimsEnd` names these doors and no others. Of a
  policy without a seeded version two approvals leave both versions open.
* *Sessions.* `resolve` writes the request's own `now` over a later
  `last_seen_at`: a request that reads the clock early and the lock late puts the
  idle clock back. What remains true is `LedgerIsTrue`: never before the login.
* *Market batch.* `_mark_stale` reads all regions and then writes whole records
  back. A batch that commits in between loses what it wrote to a run that failed.
  No lock keeps two processes apart.
* *Market source.* After `MAX_PAGES` full pages the rest of a month is dropped without
  an error, and an answer without `totalCount` ends the month after its first
  page, full or not (`source.py` 232-241). `NothingIsLost` is said of what is left.
  Rows under unknown names raise out of `collect_market`, so that a run ends
  without its closing event.
* *Extraction.* A draft is committed as pending before its spans, so a death in
  between leaves a draft in the queue whose quotes are missing, and nothing
  repairs it.
* *Review page.* A detail that arrives late is drawn over a newer one while the
  buttons decide `currentId`. A batch that includes the open draft leaves its
  buttons enabled (`src/admin/app.js` 1116). The message of a failed batch says
  nothing was reflected, whatever happened (1120). A logout that fails looks like
  one that worked (1155). A selected draft decided elsewhere stays selected, in a
  box that cannot be unchecked (317).
* *Citizen page.* A diagnosis the server answered before a logout and the page draws
  after it shows the internal part of the ended session again, until the next
  diagnosis or logout (`src/frontend/app.js` 1147). The timer of a request is
  cleared when the headers arrive, so a body that stalls hangs the page (904);
  without the generated contract no request is sent at all (33). Any failed
  diagnosis sets the connection to local, and only one that succeeds sets it back.

## 6. Plan

Done: approval with its store and the content of drafts and versions, sessions, the
market batch with its collection and its statistics, ingestion with the start-up
and the check of the model's quotes, the engines and the analysis, chat with the
citizen's page, the review page; and every safety property of all of them as a
theorem.

What would come next: the text a page keeps while a body stalls, the status
indicators, and a composition of `MarketSource` with `MarketBatch` in which the
result of a collection is the outcome of its pages.

## 7. Not modelled

* The status indicators: they count what the tables above hold and change nothing.
* The spelling of amounts, dates and sources in the rows and the lineage, and the
  reading of XML: a row is readable or not, an answer is a page or not.
* Rows that change while they are being read: the services are external.
* The order in which the evidence of a draft is numbered, and the order of the rows
  of the table on the screen.
* The list of regions: a read that feeds no state.
* Prompts, texts, validation messages, drawing, printing, HTML and CSS.
* Password hashing, cookie attributes, the command that adds a user.
* Configuration, the value types and schema generation: nothing in them changes
  while the system runs.
* The scripts for coordination, contracts and packaging, and generated files.
