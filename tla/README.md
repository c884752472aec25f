# iPermit in TLA+

iPermit answers which environmental and land-use permits a project needs. A FastAPI service
keeps tenants, projects, billing, rule publications and an audit log in PostgreSQL; a rules
engine evaluates versioned rule files against the facts of a project, resolves conflicts
between the rules that fired and puts them in an order of work. This directory models the
parts of it whose correctness depends on the order in which things happen, and the algorithms
whose results the rest relies on, model-checks them with TLC and proves the main results with
TLAPS.

All paths below are relative to `src/`. `api/` stands for `services/api/ipermit_api/`,
`engine/` for `services/rules-engine/ipermit_engine/`. `PROJECT.json` has the exact map from
every definition to the lines it models, every run, every mutant and every hazard.

## 1. The system

### Parts and state

| Part | Code | State it keeps | Operations |
|---|---|---|---|
| Audit log | `api/audit.py`, the append-only trigger of its migration | `audit_log` rows (id, prev_hash, hash) | `append_audit`, called by every handler that changes something |
| Billing | `api/billing.py`, `api/routers/billing.py` | one `tenant_billing` row per tenant, `processed_webhook_events` | checkout, portal, Stripe webhook |
| Team | `api/routers/team.py`, `_require_team_admin` | memberships with an admin flag | add, update, remove, invite |
| Invitations | `api/invitations.py`, `api/routers/invitations.py` | invitation rows (token hash, expiry, consumed) | mint, mail, preview, accept |
| Publications, feedback | `api/routers/publications.py`, `api/routers/feedback.py` | proposals with status and decider; feedback items | propose, approve, reject, roll back; submit, disposition |
| Identity | `api/auth.py`, `api/oidc.py`, `api/routers/auth.py` | users, cached signing keys | login, token checks |
| Entitlement and usage | `api/entitlements.py`, `api/usage.py` | usage events | the gate before an evaluation or export |
| Projects, evaluations, exports, uploads | `api/routers/projects.py`, `evaluate.py`, `matrix.py`, `export.py`, `routers/uploads.py`, `storage.py` | projects, evaluations, stored files | create, evaluate, read the latest, export, upload |
| Login limiter | `api/middleware.py` | a deque of hits per address | admit or refuse |
| Rules engine | `engine/` | none: functions of their input | evaluate triggers, resolve conflicts, sequence, explain |
| Regulatory knowledge | `packages/regulatory-models` | sources, rule versions, freshness | ingest, select by date, score |
| Jurisdictions | `packages/jurisdiction-models` | a tree by parent links | walk to the root |
| GIS | `services/gis-engine` | detections, confirmations | ingest a boundary, detect, confirm, override |
| AI assistant, web applications, schemas, scripts, infrastructure | `services/ai-assistant`, `apps/`, `packages/shared-schemas`, `infrastructure/` | none that decides anything | |

### How they interact

- A request is a synchronous handler that runs in a thread pool with one SQLAlchemy session
  (`api/db.py:31-37`), at PostgreSQL's default isolation level READ COMMITTED, with no
  explicit lock anywhere. Several instances run at once (`api_desired_count` is 2 in
  `infrastructure/terraform/variables.tf`). What two requests share is the database, and the
  only things that order them are row locks taken by UPDATE and DELETE, unique indexes, and
  the moment of commit.
- Every handler that writes calls `append_audit` in its own transaction: the row and its
  audit record are committed together or not at all.
- Billing has a second party. Stripe keeps customers and subscriptions of its own, sends
  events at least once and in no order, and repeats one until it has an answer.
- Team and invitations write the same membership and account tables, from two sides.
- `simulate_project` hands the rules that fired to `resolve_conflicts` and then, the same
  list, to `sequence_rules`; a cyclic dependency found by the second loses what the first did.

### What is hard

Reads that are stale when used (a count, a status, a tip, a right), inserts whose ids are
handed out before the commit, deliveries repeated while the first is still running, answers
lost after the commit, calls of Stripe and of the mail server that the database cannot roll
back, and row locks taken in an order the callers choose. In the engine nothing runs
concurrently; what is hard is data nobody wrote a test for: cycles among part of the rules,
prerequisites that are repeated or did not fire, paths that tie, references to versions that
did not fire. `PROJECT.json` lists each of these at its line under `hazards`, with the
properties that would catch it.

### What makes each part correct

| Part | Properties |
|---|---|
| Audit log | links resolve, backwards; the log forks only where requests overlapped; it implements an append-only tree |
| Limiter | one process never admits more than the limit in any window |
| Identity | who is let in was let in by a key of the issuer's within its lifetimes, and by the account as it is now |
| Entitlement | the gate grants what was paid for, once the events are handled |
| Deliverables | a record names what is stored; the latest evaluation is one nobody overtook |
| Triggers, evaluation | an error exactly on a rule with a defect; every gap is disclosed; explanations are of the rules that fired |
| Versions | both selections agree with the one definition of what governs on a date |
| Edge cases, diff | a contradiction is reported exactly when no value satisfies both; the changes rebuild the tree |
| Confirmation | the log replays from the detection to what was confirmed |
| Sources | no failure of a source is hidden by a score, a state or a later check of another |
| Rule files | what a load leaves behind is valid, whether it ends or stops |
| Jurisdictions | the walk ends and follows the parents as they are |
| GIS stores, footprints | the two stores cannot be told apart; a footprint is what the file says |
| Billing | an event takes effect once; Stripe is told 200 only after the commit; entitlement comes from events only; the row shows the last audit record; every event is eventually processed |
| Team | who may decide, what the trail must say, when a tenant can become empty or locked out, no circular wait |
| Invitations | one account and one membership per address, whatever races |
| Governance | separation of duties; the trail is the history; the lifecycle |
| Sequencing | raise exactly on cycles, earliest stages, a longest path |
| Conflict resolution | nothing goes missing silently; adding a rule takes nothing away |

## 2. Modules

| Module | Models | Composes |
|---|---|---|
| `AppendOnlyTree` | abstract: one action, which adds a record linked to one present | |
| `AuditLog` | `append_audit` in concurrent transactions | implements `AppendOnlyTree` |
| `Billing` | checkout, webhook, ledger, Stripe as environment | |
| `Team` | the four handlers of `team.py` that write memberships | |
| `Invitations` | invite, mail, expiry, accept | extends `Team`, whose actions interleave with its own |
| `Governance` | publications and feedback | |
| `Sequencing` | `sequence_rules`, one action per loop body | |
| `Conflict` | `resolve_conflicts`, as operators | |
| `Simulation` | `simulate_project` after evaluation | extends `Sequencing` and `Conflict` |
| `Lists` | sorted lists, in a form the prover can use as well as TLC | |
| `Triggers` | operators, trees, the decision of a rule, as operators | extends `Lists` |
| `Versions` | selection by date, in the store and in the engine, the overlay | |
| `Reports` | explanation, known unknowns, quality report, matrix | extends `Triggers`, `Versions`, `Conflict` |
| `EdgeCases` | the four analyses of a rule set | extends `Triggers`, `Conflict` |
| `RuleDiff` | changes between two versions of a rule | extends `Triggers`, `Versions` |
| `Confirmation` | detection, overrides, log, inputs of the engine | extends `Conflict` |
| `Evaluation` | one evaluation from confirmed detection to matrix | extends `Simulation`, `Reports`, `EdgeCases`, `RuleDiff`, `Confirmation` |
| `Platform` | the constants the service modules share | |
| `Clock` | a bounded clock | extends `Platform` |
| `LoginLimiter` | the window of each process and address | extends `Clock` |
| `Identity` | login, tokens of either issuer, key cache, tenant choice, capabilities | extends `Clock` |
| `Entitlement` | the gate and the billing row behind it, with Stripe's side | extends `Clock` |
| `Deliverables` | projects, evaluations, exports, uploads, usage, as concurrent transactions | |
| `SourceHealth` | checks of sources, freshness, citation and portal reports | |
| `RuleIngest` | loading rule files row by row | |
| `Jurisdictions` | records, parent edits, the walk to the root | |
| `GeometryStores` | the store in memory next to the one over PostGIS | |
| `Footprints` | from an uploaded file to a footprint | extends `Lists` |
| `MCAudit`, `MCBilling`, `MCTeam`, `MCGovernance`, `MCSimulation`, `MCEvaluation` | constants for TLC | |
| `MCOperations` | constants for TLC, and the next-state relation over the nine service components | extends all nine |
| `AuditLogProofs`, `BillingProofs`, `GovernanceProofs`, `InvitationsProofs`, `SimulationProofs`, `ServiceProofs`, `EvaluationProofs` | theorems | each extends the modules it is about |
| `ListsProofs` | the lemmas on numbers and lists that the last three share | extends `Lists` |

Definitions called *Faulty variant* are plausible bugs of the definition they precede; no
specification uses them. Each shows that one property would notice.

### AuditLog

A request is `running`, has `read` the tip, has `inserted` its row, and is `committed` or
`failed`. `ReadTip` is `_latest_hash` (it sees committed rows only, the greatest id first),
`Insert` takes the next id of the sequence, `Commit` makes the row visible, `Fail` rolls back and loses
the id. A hash is represented by the id of the record it was computed over, so `prev = 0` is
the genesis. `seen` and `pos` are history variables: how many commits a request had seen when
it read the tip, and which commit its own was. That records are never changed or deleted is
the trigger's doing; the abstract tree has therefore a single action.

### Billing

`billing` is the table of rows by tenant, `ledger` the processed event ids, `trail` the audit
records. On Stripe's side `customers`, `sessions`, `events` and `acked`. A worker
runs a webhook (`Receive` consults the ledger, `Load` loads the row and changes it in memory,
`Flush`, `Record` inserts the event id, `CommitWebhook`, `Respond`) or a checkout
(`BeginCheckout` loads the row, `CreateCustomer`, `Flush`, `CreateSession`,
`CommitCheckout`). A flush writes only the columns that differ from what was loaded; the row a
request merges into may have changed since, and the model keeps `loaded` and `row` apart for
that. The unique key of the ledger makes the second inserter of an event id wait for the
first and fail if it commits. A failure ends a request at any stage, and the loss of an answer
after the commit is one of them. `ChangeSubscription` stands for every later subscription
event, its status included in the translation table (`MapStatus`, from `_STATUS_MAP`).

### Team and Invitations

A request is admitted (`Authenticate`), passes `_require_team_admin` (`Authorize`, with the
promotion of a sole member, which is flushed and therefore locks the member's row), makes the
handler's checks (`Check`), writes (`Write`) and commits. `HoldsRow` says which rows a
transaction has locked: another that writes the same row waits, as PostgreSQL makes it. A
DELETE that finds no row any more still commits and is audited; an UPDATE that finds none
fails. Membership rows have keys, so that a member removed and added again is not mistaken
for the same row. `Invitations` adds the token's life: mailed before the commit that stores
it (`outbox` may hold a token no row answers to), expiring at any time, and accepted in the
two steps lookup and registration, where the unique index on the email decides races.

### Governance

Both routers have the same shape: load the row, check, flush, append an audit record, commit.
`ProposePublication` and `SubmitFeedback` insert; `Decide` loads and checks a publication
(`_decide` with its `require_from` and `enforce_sod`) and `Disposition` an item of feedback;
`Write` is the flush, which waits for another writer of that row; `Commit` makes both
visible. `Merged` keeps the columns that the request did not change.

### Sequencing, Conflict, Simulation

`Sequencing` follows `sequence_rules` with a `phase` for the point the code has reached.
`BuildGraph` makes edges and in-degrees from the prerequisites, `Detect` is an iteration of
Kahn's algorithm, `RaiseCycle` the error with what was not processed, `StartStages` and
`AddStage` the layers, `StartPaths` and `Relax` the longest-path pass in topological order,
`Finish` the return. `Conflict` states the resolver's results as sets: which rules are
superseded, which requirements remain, who governs each, which conflicts are reported.
`Simulation` calls one and then the other.

### Evaluation and the modules it is made of

`Evaluation` is one call of the platform, in the order of the code. `Confirm` applies the
overrides to the detection (`confirm_detection`), `Select` picks the rules: all of them, those
that govern on the date, or the working set with the overlay. `Evaluate` decides every rule
with `evaluate_rule`, and a defect in one ends the call as the Python exception does; `Explain`
builds the explanations and known unknowns of the rules that fired, `Simulate` takes the steps
of `Simulation` on them, `BuildMatrix` makes the matrix. `Review` is the analyst's side: edge
cases, quality report and diffs of the same rules. `call` is the next step, or how it ended.

`Triggers` gives a value its Python type, because the operators do: `True` equals 1 but is no
number to an ordered comparison, a string is a list of characters to `contains`, a date
compares with a date only. A composite evaluates all its children. What the code does by recursion
over a tree is a recursive function over the triggers nested at most `MaxNesting` deep, as are the
two sides of a diff and the overrides of a log; the model of a tree is therefore a set, level by
level, and the theorems are about any depth. `Versions` holds the store's
selection (`temporal.py`, which refuses ties) and the engine's copy (which takes one), so that
a property can compare them. `Reports`, `EdgeCases` and `RuleDiff` keep which rule and which field is named
and drop the wording.

### The service modules

- `LoginLimiter`: `hits` per process and address. `Recent` drops what has left the window, and a
  refused attempt is appended all the same. It cuts off a beginning, as the list is in the order
  of time. A restart empties a process.
- `Identity`: the issuer rotates `published` keys and may be out of reach; a process fetches
  them when its cache has expired, and an issuer it cannot reach then is an error, not a pass.
  A token is judged by key and signature or by its lifetime, then by the account, the
  memberships, the role and the capabilities as they are. Accounts are edited between requests.
- `Entitlement`: subscriptions and their events on Stripe's side, `RowAfterEvent` and `_is_active`
  on the platform's. Events come in order here, so that what it shows is the gate's doing;
  `Billing` has the disorder.
- `Deliverables`: requests of workers in their stages (load, compute, put the file, flush with its
  time, commit), with failures between. `History` is the committed evaluations of a project,
  `Newest` the first of them by flush time.
- `SourceHealth`: checks of the citations of one rule and days that pass; `freshness` with its
  penalties, `latest_check`, review flag, citation states and portal report are operators.
- `RuleIngest`: rows of a file are normalised, validated and added one by one; a failing row
  stops the load, and the caller may commit or roll back. `Normalized` says for each kind of cell
  what becomes of it: `sequencing` comes from a JSON cell that is dropped if it cannot be read and
  left to the schema otherwise; an optional list (`supersedes`, `known_unknowns`, `advisories`,
  `tags`) is dropped also if it can be read and is no list, and only its items are left to the schema.
- `Jurisdictions`: `ancestors` is the loop with its `seen` set, over parents edited at will.
- `GeometryStores`: each call is made on both stores. The one over PostGIS flushes to the caller's
  session; an id its column (`String(64)`) has no room for fails the flush, which gives up what was
  not committed, and the session refuses everything until the caller rolls back. Memory has no limit
  and no transactions, so it goes on; `Parted` says it has taken such an id, and `StoresAgree` what
  holds before and after. Answers to queries depend on what a store holds alone, but for their order.
- `Footprints`: an upload is refused or its tree is collected and validated. Elements are
  of a set that holds with an element those in it; each is higher than those, so that documents are
  finite. `FootprintsComeFromTheFile` speaks of `Places`, where an element lies in a document, since
  the same element may lie in several.

## 3. Runs

Every run but the ones marked *violation* finds no error. States are distinct states.

| Run | States | What it asks |
|---|---|---|
| `audit` | 38,921 | links resolve, forks only from overlap, refinement of the tree |
| `audit_chain` | violation | is the log one chain? |
| `billing` | 195,008 | effects once, answers after the commit, row and trail agree, entitlement from events only, events are eventually processed |
| `billing_customer` | violation | is a Stripe customer created at most once per tenant? |
| `team` | 770,048 | who decides, what is audited, empty and locked-out tenants, one account per address, no circular wait |
| `team_last_member` | violation | does the last member stay? |
| `governance` | 803,242 | separation of duties, trail and rows, lifecycle |
| `governance_ends` | violation | do rejected and rolled-back publications stay so? |
| `simulation` | 142,612 | cycles, stages, critical path, additions, accounting of contenders |
| `simulation_references` | violation | is a reference to a version that did not fire a no-op? |
| `evaluation` | 106,281 | errors, gaps, explanations, selection, overrides, contradictions, diffs |
| `operations` | 622,985 | the nine service components, each moving alone |

Bounds, and why they are enough:

- `audit`: four requests. A fork needs two, a fork below a fork needs three, and with four a
  request can start after both branches exist.
- `billing`: two tenants, two workers, two events, two checkouts, one failure, the plan `pro`
  and Stripe's status `unpaid`, which is not its own translation. Redelivery and concurrent
  delivery of one event need one event and two workers; two events of one tenant, or an event
  and a checkout on one row, need the second. A second tenant shows that nothing leaks.
- `team`: two users, two workers, three requests, one failure, two invitations. Two removals
  empty a tenant of two; the third request makes the removal of an admin whose own request is
  under way, and the return of a removed member, possible. An invitation may be out at the
  start, so that an acceptance costs no request to mint it.
- `governance`: two cases, four decisions, two workers. An approval, its roll-back and a
  decision that loaded the proposal before them are three; the fourth lets a second case
  interleave.
- `simulation`: every graph of four fired rules with up to two prerequisites each, a rule
  itself allowed (14,641 graphs: cycles of every length up to four, with rules before, after
  and beside them); lists with repeated and unfired prerequisites on three rules; two rules of
  every mix of three levels (one of them unknown), permits and references; three rules on two
  levels. Lead times are 1, 1, 2, 0, so that paths tie and one rule adds nothing.
- `evaluation`: eight catalogues, one for each question, of trees at most three deep
  (`MaxNesting`): a leaf, a composite of leaves, and one that a composite or a `not` encloses; the
  theorems have the deeper ones. `Operators`: every operator, one unheard of
  included, against every type of value on both sides. `TreeArguments`: every pair of six children
  (true, false, missing, refusing its value, malformed, empty) under all, any and not, nested once;
  a rule in another jurisdiction and one of another project type. `OnOneField`: every pair of
  comparisons at three thresholds, so that intervals overlap, touch, nest and part. `Historical`:
  two versions around the same days, open and closed windows, equal keys, equal days; `Direct`: two
  versions evaluated as they come, or after an overlay of empty lists. `Overlaid`: every pair of thirteen trees as old and new version.
  `Overridden`: up to two overrides on each list, of what was and was not detected. `Several`: three
  rules with prerequisites, cycles, supersession, unreadable and late verification dates, an unknown
  level in the chain.
- `operations`: one behaviour moves one component (`focus`). The components share no variable but
  the clock and call none of each other's operations, so every behaviour of all of them together is,
  seen from one component, a behaviour of that one alone; since each property speaks of one
  component, nothing is lost. Limiter: two addresses, two hits a minute, five attempts over two and
  a half windows (a window slides over a full one), one restart. Identity: one user, one key that is
  rotated in and out, lifetimes of one tick, two edits, of the account, the keys or the issuer's
  reach. Entitlement: two tenants, periods of two ticks, four changes, which is what subscribing,
  ending and subscribing again needs. Deliverables: two workers, three requests, one failure; an
  evaluation overtaken by another, and a third that reads. Sources: two citations, one of them
  linked, two checks, the days around 90, 180 and 365. Ingest: files with one odd cell, of every kind a
  field can have, in the second of three rows, which is a draft or effective, or archived without a
  start date; duplicates, comments, two loads. Jurisdictions: three without foreign keys, every
  function of parents, dangling ones included. Stores: two ids, the empty one and one
  that is too long, two cells, a valid, a repairable, a hopeless and an empty geometry. Footprints: each pair of shapes, malformed ones among them (a polygon
  with points but no boundary, with two outer boundaries or only an inner one, a shape whose first
  text is unreadable or empty), archives with up to two members.

Symmetry is used for interchangeable people, workers and cases in `team`, `governance` and
`operations`, where no liveness is checked. Deadlock is checked in `simulation` and `evaluation`;
the other systems may stop, since all requests end and nobody has to send one.

Fairness. Only `billing` states it, for `EventsAreProcessed`: weak fairness on the steps of
each worker (a thread that has begun a request finishes it, and waits for a row or key end
with the transaction that holds it), and strong fairness on delivering each event Stripe has
no answer to (Stripe repeats it). Failures are bounded, since an event whose every delivery
fails is never processed. Nothing is assumed about users: they need not pay, cancel or check
out. `Team` has a safety property, `NoStandoff`, in place of a liveness one: two requests
never wait for each other's rows, although the handlers lock rows in an order that their
callers choose.

## 4. Where the code and what is said of it differ

Shown by a run (`PROJECT.json`, `findings`):

- **The audit log is a tree, not a chain.** `append_audit` reads the tip under no lock. Two
  overlapping requests link to the same record, and later ones extend one branch
  (`audit_chain`). What does hold is `ForksOnlyFromOverlap` and the refinement.
- **A tenant can have two Stripe customers** after two first checkouts at once, or after a
  retry of one that failed between the call of Stripe and the commit (`billing_customer`).
- **The last member can be removed** by two removals at once (`team_last_member`); they are
  the only way (`EmptyOnlyAfterOverlap`).
- **A rejected publication can become approved**, because the status was checked on a row
  loaded before the rejection (`governance_ends`). Separation of duties survives the same race.
- **A reference to a version that did not fire is not a no-op**: the version is dropped and the
  fired rule of that id is superseded, the rule that carries the reference included
  (`simulation_references`).

Noticed while reading, not the subject of a run:

- `api/billing.py:29-31` says that trialing and unpaid map to incomplete; the table below it
  maps them to active and past_due.
- `engine/conflict.py:100-101` says that an unknown level never outranks a known one; its rank is
  the largest, and the largest rank governs. The schema of rule files refuses such a level.
- A superseded rule whose permit no surviving rule requires leaves without a conflict record;
  two rules that supersede each other both leave. `EveryContenderIsAccountedFor` therefore
  speaks of requirements that survive.
- `engine/sequencing.py:162` says that what is not processed is part of a cycle; it also
  lists the rules downstream of one. `CycleIsReported` states what is listed: the largest set
  of rules each of which waits for another of the set.
- `engine/sequencing.py:256` and `docs/specs/dependency-sequencing.md` §9.1 promise all
  critical paths of equal length; one predecessor is kept, so one path is reported.
  `CriticalPathIsLongest` states that it is a longest one.
- `packages/regulatory-models/ipermit_regulatory/freshness.py:93,116`: a verification dated in the
  future gives a score above 100. One failed check of a source takes 30 points off at most, so a
  rule verified today whose link is dead is called aging where the docstring says stale. A later
  manual check, which did not try the link, clears the failure. The portal report counts 365 days
  for every tier.
- `api/routers/billing.py:199-213` grants an active entitlement at checkout, but the period end of
  an earlier subscription stays in place, and the gate refuses until the next event (the exception
  in `ExportsWereEntitled`).
- `docs/specs/explainability.md:211-213` wants what the engine found missing among the known
  unknowns of an explanation; `build_explanation` lists the rule's own, and a field that is present
  and null is reported as not provided. `rule_status_at_evaluation` calls a draft rule effective.
- `RuleDiff.is_empty` says the versions are equivalent; it looks at the fields the diff covers,
  and an item whose key stays the same has not changed.
- `packages/regulatory-models/ipermit_regulatory/ingest.py`: a cell of optional JSON that cannot be
  read is dropped, and so is an optional list that is a number, a text or an object; a date that does
  not exist ends the load with an error other than `IngestError`, which a dry run does not predict.
  A level in a JSON file that is not a text ends it, and a dry run, with an `AttributeError`.
- `services/gis-engine/ipermit_gis/store.py:20-25` calls the swap to PostGIS a drop-in, and
  `store.py:88-90` relies on the order of the ids. `store.py:106` sorts by code point;
  `postgis.py:108` by the database's collation, which nothing in the repository sets (under `en_US`,
  `ellis` comes before `el-paso`, by code point after it). `postgis.py:55` has room for ids of 64
  characters where memory takes any, and `geometry_ref`, which the ids are, has room for 200
  (`packages/jurisdiction-models/ipermit_jurisdictions/models.py:51`). `StoresAgree` is about the
  second; the order is not modelled.
- `packages/jurisdiction-models/ipermit_jurisdictions/repository.py:146`: the walk ends without
  notice at a parent that is missing.
- `api/middleware.py`'s `_FixedWindowLimiter` is a sliding log, and refused attempts count.
- A damaged member of an archive is answered 500, and a polygon without an outer ring is made
  of an inner one. A jurisdiction level of the user's own in a chain is answered 500 as well.

## 5. Proofs

Each theorem holds for every value of the constants.

- **`AuditLogProofs`** (any set of requests). `Invariance` proves `IInv`:
  ids are fresh (`IdsFromSequence`), the tip a request read is a visible record
  (`TipsAreVisible`) and was the greatest id of all commits before it (`TipsAreLatest`).
  `LinksResolve` alone is not inductive: a link is made two steps before it is committed, and
  only freshness of ids says that it points backwards. `ForksNeedOverlap` follows from
  `TipsAreLatest`: of two records with one predecessor, had either committed before the other read, the other
  would have read a tip at least as great. `ImplementsTree` maps a commit to the tree's
  action and every other step to a stutter.
- **`GovernanceProofs`** (any people, capabilities, cases, workers). The invariant adds to the
  four properties what a request under way knows: its insert is of a key nobody else has, its
  update was admitted by the row it loaded (`UpdateIsChecked`), and that row is stale only if
  a record about its case was committed since (`StaleOnlyIfOverlapped`). The column merge is
  what makes it delicate: an approval that leaves out an unchanged decider could keep another
  person's, which `ProposalsAreUndecided` and the checks on the loaded row exclude.
- **`SimulationProofs`** (any set of rules, any finite fired list, repeated and unfired prerequisites
  included), about `Sequencing`, `Conflict` and `Simulation`. The counts are those of the edges from rules not dealt with (`EdgesSplit`,
  `ReleasedCounts`), and no set of rules that wait for each other meets the processed ones
  (`ProcessedIsAcyclic`). From these, `CyclesAreReported` in both directions, and
  `StagesRespectPrerequisites`: a rule is in the stage after the last of its prerequisites.
  `LongestPathIsReported` adds the relaxation (`PathInv`): a distance is what the predecessor hands on
  (`HandedOn`), and no rule dealt with can improve another (`Settled`), which the order by
  stages keeps true. The predecessors then lead back along a way whose sum is the distance
  and whose rules are the chain (`EveryRuleIsReached`, by the stage); stages go up along a way, so it repeats
  no rule and is a path (`WaysArePaths`); no path is longer than the distance it ends at
  (`NoPathIsLonger`).
  `RunsTheSequencer` shows that every behaviour of the composition is
  one of the sequencer, so that its theorems carry over. `AdditionsKeep` and
  `ContendersAreAccountedFor` are about the resolver's operators; the governing rule exists
  by a minimum over a finite set of pairs (`LeastNatural`).
- **`BillingProofs`** (any tenants, plans and workers, any events Stripe may send). The properties relate
  rows, ledger and trail; none is inductive alone, since a request decides what it will
  commit several steps before. The invariant says what a request has established
  at its stage: a webhook that is to commit is about an event the ledger does not have, one that responds
  about an event it has (`WebhookOK`); a checkout keeps the entitlement it found
  (`CheckoutOK`); a row in memory names a customer of the tenant, and the row it was
  loaded from is still there (`RowOK`); it is the committed one, but for records that came
  since (`SeenOK`). `Compatible` is what the unique keys and the row locks give: two
  requests never hold the same ledger key or row. `TrailOK` makes trail and ledger one to one.
  From these, `EventsTakeEffectOnce`, `AnswersFollowCommits`, `TrailTellsTheRow`,
  `CustomersStayWithTheirTenant`, and the action property `OnlyEventsEntitle`.
- **`InvitationsProofs`** (any finite set of users, any platform administrators, any workers). The
  invariant says of each request what it has checked, or which record of the trail took it away since:
  that the caller is an administrator (`RightsOK`), that whoever is to be removed is not
  the last member (`RemovalOK`); and what a lock keeps as it was checked: the
  target's row (`TargetOK`), a caller promoted on the way (`PromotedOK`), the invitation
  (`InviteOK`). `Compatible` says that two requests hold no row, no email and no token together.
  A commit does one of five things to the rows (`Commits`, `Effect`), so that each property
  needs five cases and not one for every stage of every endpoint. From these,
  `EmptinessTakesOverlap`, `AccountsComeFromOneInvitation`, `RequestsNeverStandOff`, and the
  action properties of `TrailTellsEveryChange`, `AdminsDecideChanges` and `NoWayBackIn`. The last
  one was false as first stated: a platform administrator passes `_require_team_admin` by her
  role, member or not, so `LockedOut` also asks that no such request is being authorised.
- **`ServiceProofs`** (any users, keys, tenants, files, workers, processes, limits, citations, any
  period and last moment of the clock). An invariant for each of nine modules.
  `Identity`: a cache was filled at some moment, at or after which every key in it was
  published and every other key absent (`CacheOK`); `KeysServeWithinLifetime` follows for both
  answers, since it relates the moment of the answer to that of the fetch.
  `Entitlement`: the gate sees the row only, so the invariant says what the row owes to the events:
  the last event in the outbox says what Stripe has, or the row shows it when there is none
  (`UpToDate`), and a plan that is not paid yet has its checkout first in the queue (`PlanIsPaid`).
  `GateGrantsWhatWasPaid` follows, with its exception, since a checkout carries no period.
  `RuleIngest`: a load has added every rule it has read, none of them bad, and has stopped at a
  bad one or at the end (`LoadOK`); a stored rule is a good row of its file (`RulesOK`).
  `LoadsStoreValidRules` also takes that a good row has cells the schema accepts and lacks only
  what may be lost (`GoodRow`).
  `Deliverables`: evaluations have ids of their own and times in order (`EvaluationsOK`); each has
  one usage and one audit record (`RecordsOK`); a request knows what it has established at
  its stage (`WorkOK`) and what was the latest when it read it (`ServedOK`); a file nobody names
  took a failure, one each (`LostOK`). From these, `RecordsOfRequestsAgree`, with two
  lemmas that count (`BilledOnce`, `PeriodsAddUp`), and `LatestWasServed`.
  `LoginLimiter`: the list is the tail of the attempts, in the order of time, and what it no longer
  has is out of the window of the last (`ListOK`). `NewList` shows that its length after a cut is the
  number of attempts in the window, `NoMinuteAdmitsMore` that the last attempt admitted in a window
  would have been refused had there been more. `LimitHolds` is about every attempt ever made.
  `SourceHealth`: no check is of a day after the next (`DatesOK`), so that every maximum of dates
  exists. `latest_check` is the check no other of its citation is after (`LatestIsLast`), the
  one the history ends with, and a check that does not supersede it leaves it so
  (`LatestStays`). The score is at most the base of the rule's own date less the penalty
  (`ScoreIsBaseLessPenalty`); `FailuresStayVisible` proves all four parts of the property.
  `GeometryStores`: a session has failed only if memory has taken an id that is too long, and
  what the parts of a call leave side by side (`Beside`) is kept by every addition (`AddsAgree`):
  both refuse, both take, or the stores part. A list of two is two additions (`ExtendedByTwo`).
  `Jurisdictions`: after n turns the walk has gone n steps over distinct ids, or has ended
  (`WalkGoesOn`), and since ids are finitely many it ends in time (`WalkIsShort`). At a root, what is above
  a record is what the walk met after it (`AboveIsLater`), so nothing is above itself; at a record seen
  before, that record is. `AncestorsAreAbove` follows for both answers.
  `Footprints`: the functions over elements exist because they read lower elements only
  (`TreeFunctionsExist`); what they go over lies in the element they were called with
  (`DescendantsAreWithin`). A text that is read gives its readable tokens in order
  (`ReadingOfText`), a boundary a closed ring of them (`RingOfBoundary`), a polygon one ring for each
  boundary (`RingsOfPolygon`). Geometries and places to be drawn then correspond one to one, list by
  list (`DrawnTogether`, `DrawnInOrder`), up to the document (`ElementsAreDrawnOnce`).
  `FootprintsAreOfTheFile` was false as first stated, for malformed documents only: the
  points of a shape need not be in the first text it has, and what lies in a polygon outside its
  boundaries is not drawn. The property now says so, asks for one geometry a place, and holds of
  archives too.
- **`EvaluationProofs`** (any requests, rules, overrides and contexts, trees of any depth). The
  invariant (`EvaluationInv`) says that what each stage left behind is what the operators make of
  the request and of what was confirmed, and that nothing a later stage reads has changed since. Each property is
  then a fact about operators, for every argument they can be given. Most of them are recursive:
  such a function exists because it reads its argument one level below only (`MadeExists`, and
  `CountedExists` for one over a list), and what it computes is shown for the least level at which
  it would not hold.
  `SelectionsAlwaysAgree`: the rows of the store and the dicts of the engine have the same windows
  (`RowsAndDictsAgree`). `OverridesAreAlwaysReplayable`: by the length of the list, an entry names
  who stood at the path before it, and what stands at the end is what the last one left (`LogAccounts`).
  `ErrorsAlwaysExactlyOnDefects`: a leaf raises on a defect of its own and a composite when a child
  does, evaluated or decided (`TreeRaises`), and every selection hands on a list of rules the request
  has (`WorkingIsRuleList`). `ExplanationsAreOfWhatFired` and `GapsAreAlwaysDisclosed` relate the
  trace to the tree it was evaluated from, leaf by leaf in order (`EvaluatedAsDeep`, `GapsAreEvaluated`).
  `ContradictionsAreAlwaysExact`: the interval of two comparisons is empty exactly when its bounds
  cross or touch at an open end (`EmptyIntervals`), the tighter bound of two is one of them
  (`TighterLowerBound`, `TighterUpperBound`), and the report has the pair in the order of the two rules
  (`PairIsReported`). `ChangesAlwaysRebuildTheTree`: a diff lists changes at paths below the one it
  was called with, parents before children (`DiffIsOK`), and applying them in that order rebuilds
  the new tree (`PatchRebuilds`); trees equal up to what Python's `==` confuses decide alike
  (`TreesDecideAlike`), which is what a rule without changes needs.

- **`ListsProofs`**. The least natural of a set (`LeastNatural`); a list sorted by a strict total
  order has every element once, in that order (`ListInOrder`, `ListIsInOrder`, `PickedInOrder`); a
  list of lists joined step by step (`FlattenSteps`, `FlattenKeeps`).

The assumptions are the named ASSUMEs of the modules: bounds are naturals, users are finitely
many, the null values are none of the data, a fired list is finite and made of well-formed
rules, a file is a sequence of rows over the kinds of cells the reader tells apart, the lifetime of
a cached key set is a natural, a rule has finitely many citations, jurisdictions are finitely many
and the error is none of their chains; the nesting of trees is a natural (`NestingAssumption`), and
what an evaluation is asked has lists of rules and of overrides, triggers that are trees and contexts
of values (`ArgumentsAssumption`); an element of a document is higher than those in it, and heights are
bounded by some natural (`ElementsAssumption`); the geometries offered are geometries (`OffersAssumption`); a file holds documents of such elements, and its
archive has a list of members (`UploadsAssumption`). TLC evaluates them in the runs.

Arms of a CASE that overlap are an arbitrary choice in TLA+, where TLC takes the first; the
definitions that translate a chain of ifs say IF and ELSE, so that the theorems are about the
choice TLC makes.

The library's induction theorems take an operator as parameter, which the installed provers
cannot instantiate. Where a proof needs induction over naturals it takes the least
counterexample instead (`LeastNatural` and `MinIsElement`, as in `SumsExist` and `LaterIsAbove`).

Every invariant and action property that a passing run checks is also stated by a theorem, and the
refinement of `AppendOnlyTree` is one. Only model-checked: liveness (`EventsAreProcessed`), which the
prover does not reach, no more than ENABLED; and, by their nature, the five runs that find a
violation.

## 6. What the model leaves out

- Timestamps, notes, messages, amounts and names, where no decision depends on them.
- The identity map of a session: rows are loaded once per request, and CPython frees a row
  nobody refers to, so that a second load reads it again.
- In `Team`, the SELECT and the count of one check are a step, as is the promotion with its flush.
- In `Sequencing`, the bottleneck records and parallel hints copied into the result; in
  `Conflict`, the order of the lists and the wording of rationales. Fired rules have distinct
  ids, and the permits of a rule are a set.
- In `Triggers`, datetimes, NaN and nested lists; dates have one form. In `EdgeCases`, lists of
  values are not ordered; rules taken without a date have one version that fires for each id.
- In `Billing`, the 400 of a delivery whose signature is wrong, and in `Entitlement`, the 403 of a
  caller without a tenant: neither changes anything.
- In `Invitations`, `Lookup` has the SELECT of the invitation and that of the account in one step.
- In `Deliverables`, all instances read one clock. `created_at` is of the clock of the instance that
  flushes (`packages/tenancy-models/ipermit_tenancy/models.py:194`): with skewed clocks the latest
  evaluation may be another one.
- In `RuleIngest`, the four optional lists are one field, as are the scalars; a scalar is taken as
  its text, whatever it was. A row of a JSON file that is no object ends the load like a level that
  is no text.
- In `GeometryStores`, queries and the order of their answers, and rollbacks the caller makes of its
  own accord, after which memory has what the rows lost.
- In `SourceHealth`, verification dates in the future. In `Footprints`, the type of the union, bytes, XML, shapefile records
  and floating point, which are libraries' doing; in `Identity`, the formats of tokens and the
  JWKS client's own cache.

### Not modelled

Rendering of exports, prompts and the model service of the AI assistant, user interfaces, generated
schemas, deployment, the test harness for benchmarks and the loaders that read a directory of
rule files keep no state the system decides on. Endpoints that only read compute their answer
with operators that are modelled. `PROJECT.json` gives the reason for each component.

## 7. Plan

Done: the transactions of the platform (`AuditLog`, `Billing`, `Team` with `Invitations`,
`Governance`, `Deliverables`), the engine (`Sequencing`, `Conflict`, `Simulation`, `Evaluation`
with its parts), the services around them, and the proofs of section 5, which cover every property
of the passing runs but `EventsAreProcessed`. What is left is outside what the models say: the one
hazard without a property (events that arrive in another order than Stripe sent them), other things
of which the code makes no promise (a second removal of a member is audited and removes nothing; the
limiter never forgets an address; rules evaluated in several versions, without selection or overlay,
are explained with the data of the last), and the data of section 6.
