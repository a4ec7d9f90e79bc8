# The news board, specified

TLA+ specifications of the news-board service (`src/`): a FastAPI application in
which managers of an energy community publish Markdown posts and polls, and
members vote. State lives in two PostgreSQL databases, a local one (posts,
options, votes) and a shared CRM database (members, audit log, notifications).

## 1. Inventory

| Part | Code | State | Operations | Hard behaviour |
|---|---|---|---|---|
| News board | `api/news/{routes,service,repository}.py`, `shared/models/local_models.py`, `scripts/sql/schema.sql` | tables `post`, `post_poll`, `post_poll_vote`; one SQLAlchemy session per request | create, update, delete, cast, retract; list, get, results | requests interleave at every `await`; check-then-act without locks; cascades |
| Results and visibility | `service.get_results`, `_resolve_results_visibility`, `mappers.py` | none | read options, read votes, tally | two snapshots; who may see what, when |
| Audit log | `core/audit_log/` | CRM table `audit_log` | `log` in a savepoint, swallowed failures | separate database: after the local commit, best effort |
| Notifications | `core/notifications/` | CRM tables `notification`, `outbound_message`, `notification_preference` | `publish`, `flush_realtime` | audience and preferences read before the writes; savepoint; dedupe key |
| Realtime | `core/realtime/` | Redis client | `emit` | after the commit, never raises, may be lost |
| Access and tenancy | `core/security/`, `set_auth_context.py`, `with_community.py` | context variables of one request | resolve community, role, subscription | checked once, before the handler |
| Connection pools | `core/database/database.py` | two pools; one local and one CRM session per request | borrow at the first statement, give back at commit, rollback or close | a request may hold a connection of one pool and wait for the other |
| Limits and errors | `request_limits.py`, `with_default_error.py` | none | 413, 504, promotion of exceptions | the handler may outlive the answer |
| Everything else | health, i18n, logging, tracing, Markdown, configuration | none | I/O, wording | none |

How they interact: a route's dependencies resolve the caller's community, role
and subscription; the handler then works on its local session and commits; only
then does it write an audit entry and (for a new post) notifications through
the CRM session, commit that, and send a realtime hint. The only shared mutable
state is in the databases, so what makes the system correct is what happens when
requests interleave between two statements. What each part has to guarantee:

- **News board.** The three tables agree. A voter counts once for an option;
  one ballot per voter; an acknowledged ballot stays until something may undo
  it; options are one submission of at least two, and are frozen by the first
  vote; no vote after the deadline; every request is answered.
- **Results.** Nothing is disclosed that the matrix withholds; tallies count
  votes for the options shown; a voter sees the own vote; a final tally stays
  final.
- **Audit, notifications, realtime.** No record of what was rolled back;
  a publish is all or nothing; one mail per dedupe key; hints follow the commit.
- **Access.** Every row read or written belongs to the caller's community, which
  has a subscription; managers' routes are for managers.
- **Limits, errors, pools.** An answer tells what became of the write; requests
  that wait for each other's connections still end.

`PROJECT.json` lists the components and the hazards with their lines.

## 2. Modules

| Module | Content |
|---|---|
| `BallotBox` | abstract: the promise of the writing requests, each of them one atomic step |
| `NewsBoard` | the writing requests, concurrent, on the local database; the CRM rows that follow a commit; the properties; the mapping to `BallotBox` |
| `NewsBoardInvariant` | its inductive invariant `IInv` |
| `NewsBoardProofs` | its theorems and their proofs |
| `NewsBoardRefinement` | the proof that `NewsBoard` implements `BallotBox` |
| `NewsResults` | extends `NewsBoard` by the reading requests: list, post, results; the visibility matrix |
| `NewsResultsInvariant`, `NewsResultsProofs` | its inductive invariant `RInv`, the theorems and proofs |
| `NewsFinalityProofs` | the proof of `FinalResultsStand`, from the invariant `FInv` |
| `NewsPipeline` | a request from the middleware through the dependencies and the handler to the answer; the connection pools |
| `NewsPipelineInvariant`, `NewsPipelineProofs` | its inductive invariant `PInv`, the theorems and proofs |
| `Outbox` | abstract: the promise of the audit log and of `publish`, each delivery one atomic step |
| `NewsNotify` | what a handler does with the CRM database after its commit: audit entry, publish, commit, hints; the properties; the mapping to `Outbox` |
| `NewsNotifyInvariant`, `NewsNotifyProofs` | its inductive invariant `IInv`, the theorems and proofs |
| `NewsNotifyRefinement` | the proof that `NewsNotify` implements `Outbox` |
| `MCNewsBoard`, `MCNewsResults`, `MCNewsPipeline`, `MCNewsNotify` | small instances for TLC |

`NewsResults` composes readers and writers on one local database. `NewsBoard`
treats what follows the local commit coarsely (an audit entry or a notification
is written or lost); `NewsNotify` opens these steps and leaves the local database
out. Nothing flows back: the CRM session never reads or writes the local tables.
`NewsPipeline` opens what comes before and around a handler, and the handler only
as far as it uses connections; which of its refusals happens is left open there,
because `NewsBoard` decides it.

### BallotBox, and how NewsBoard maps to it

`BallotBox` has the posts with their options and votes as one value per post
(`board`), the calls, and the set `done` of requests that have taken effect. Each
request takes effect at most once, in one step, as a whole, and only on its own
post, in its own community and on its own voter's rows; votes go exactly when
their option goes. There are no handlers, statements, locks or failures.

The mapping is `board <- Board`, `done <- applied` (end of `NewsBoard`): the step
that takes effect is the commit, and every other step of a handler, a failure
included, leaves the box alone. Handlers decide on what they read earlier, so the
box leaves two choices to them: which of the own earlier rows a cast or a
retraction removes (`gone`), and which old options stay beside new ones (`kept`).
How large these are is what the invariants of `NewsBoard` say
(`OneBallotPerVoter`, `OptionsFromOneSubmission`). The refinement holds for all
executions, overlapping requests included; with a single choice and requests
that do not overlap, `OneBallotPerVoter` closes the first freedom.

### NewsBoard, and how it corresponds to the code

A *request* is one call of a route, made once. `pc[r]` is the statement its
handler awaits next, `call[r]` its arguments, `loaded[r]` the post and options
in its identity map (stale from the moment they are read), `existing[r]` the
vote rows it read. `posts`, `options`, `votes` are the committed tables.

| Code (`service.py`) | Actions |
|---|---|
| `create_post` | `Start`, `ValidateCreate` or `RefuseCreate`, `CommitCreate`, `Audit`, `Notify` |
| `update_post`, `_replace_options` | `Start`, `Read` or `Refuse`, `FlushColumns` or `StaleUpdate`, `CountVotes` or `OptionsFrozen`, `ReplaceOptions` or `ReplaceFails`, `CommitUpdate`, `Audit`, `Reread` |
| `delete_post` | `Start`, `Read` or `Refuse`, `RemovePost`, `CommitDelete`, `Audit` |
| `cast_vote` | `Start`, `Read` or `Refuse`, `ReadExisting`, `Unvote`, `Vote` or `VoteFails`, `CommitVotes`, `Audit` |
| `retract_vote` | `Start`, `Read` or `Refuse`, `ReadExisting` or `NothingToRetract`, `Unvote`, `CommitVotes`, `Audit` |
| any exception, cancellation or crash | `Fail` |

The database is PostgreSQL at READ COMMITTED (the engines set no isolation
level). A statement reads what is committed when it runs; a flush takes locks
that are held until commit or rollback; nobody reads what is not committed.
So the model keeps no copy of the open transactions: what request `q` has
flushed is a function of `pc[q]`, `call[q]`, `loaded[q]` and `existing[q]` (the
operators under "Locks"), a flush is guarded by the locks of the others, and the
tables change at the commit. The rules used:

- an `INSERT` of a vote or an option shares its parents' rows (FOR KEY SHARE):
  it waits for a transaction that deletes a parent and fails if the parent is
  gone; a `DELETE` of the parent waits for it in turn;
- two inserts of the same (option, voter) wait for each other's outcome; a
  committed twin makes the second fail;
- a `DELETE` of a row that is gone affects nothing (SQLAlchemy warns), an
  `UPDATE` of such a row raises `StaleDataError`;
- `UPDATE` writes only columns whose value changed in the session, and
  conflicts with other updates and deletes of the row, not with FOR KEY SHARE;
- in `_replace_options` the query that counts votes autoflushes the column
  changes first; the flush that follows deletes the options *this session*
  loaded.

A flush of several rows is one step. Taken row by row, two transactions may
deadlock in PostgreSQL, which then kills one: that outcome is `Fail`. `Fail`
covers every failing statement, a cancelled handler and a dying process; after
the local commit it loses the audit entry, the notification and the answer,
never the write. A commit that raises although the server has carried it out is
the commit, followed by `Fail`.

Reading a post and its options are two statements (`selectinload`); they are one
step here, so a replacement committed exactly between the two is not
distinguished from one committed before the first.

Names: a post is identified by the request that creates it, an option by the
submitting request and its position, a vote row by the casting request. Serial
ids are never reused, and no request inserts a row twice.

History variables (read by no guard): `applied`, the requests whose local commit
succeeded; `before[r]`, the requests that had ended when `r` began; `since[r]`,
when that was. Two requests *overlap* when neither had ended when the other
began.

### NewsResults, and how it corresponds to the code

`rpc[q]` is the statement the handler of reader `q` awaits next, `query[q]` who
asks for what, `found[q]` what it has read, `view[q]` its answer.

| Code (`service.py`, `repository.py`) | Actions |
|---|---|
| `list_posts`, `get_post`: the posts of the community, `selectinload` of the options, the caller's votes | `StartRead`, `ReadPost`, `ReadOptions`, `ReadOwnVotes` (left out for an anonymous caller or without a poll) |
| `get_results`: the post, its options, all votes, `_poll_ended`, `_resolve_results_visibility` | `StartRead`, `ReadPost`, `ReadOptions`, `ReadAllVotes` |
| a failing statement, a cancelled handler | `FailRead` |

Every statement reads what is committed when it runs (READ COMMITTED), so an
answer combines two or three snapshots; here the options *are* a statement of
their own. `get_results` compares the deadline right after it has read the
options, the other two when they build their answer. An answer is kept as the
rows it is computed from: counts, the number of voters and the lists of ids are
functions of them. Its last statement, the voters' e-mail addresses, decides
nothing. A page holds every post.

History: `span[q]`, the requests committed when `q` began and when it ended;
`due[q]`, the levels of disclosure (`aggregate`, `full`) to which `README.md`'s
matrix entitled the caller at some moment of the request. `Entitled` is written
from the matrix as documented, `Visibility` from the code.

### NewsPipeline, and how it corresponds to the code

`pc[r]` is what request `r` does next:

| Code | Labels and actions |
|---|---|
| `RequestLimitsMiddleware`: declared length, `wait_for` | `idle`: `Arrive`; `AnswerTimeout` |
| `GatewayAuthMiddleware`, `parse_user_orgs`, `_resolve_highest_role` | `Arrive` (`RoleOf`) |
| FastAPI reads the body | `body`: `ReadBody` |
| `resolve_internal_community` | `resolve`: `ResolveInternalCommunity` |
| `require_feature`, then `require_min_role`, then validation of body and parameters | `feature`: `RequireFeature` |
| the handler's statements, as far as they use a connection | `author`, `post`, `voters`, `write`, `commit`: `ReadAuthor`, `ReadPost`, `ReadVoters`, `Write`, `Commit` |
| `_audit`, `_notify_post_created`, `update_post`'s second read | `audit`, `publish`, `reread`: `Audit`, `Publish`, `Reread` |
| `with_community_scope` | `Scope`, in every statement that reads the board (`Sees`) |
| `readiness`, `check_db` | `probe`: `Probe` |
| an exception: `with_default_error`, the catch-all handler; `check_db` answers for those of SQLAlchemy | `Fails` |
| the local commit raises | `CommitFails`: it may have been carried out |
| crm-backend registers communities, ends or renews subscriptions (external) | `Change` |

- The middleware is a `BaseHTTPMiddleware`: when `wait_for` gives up, the client
  gets 504 but the handler's task goes on. So `AnswerTimeout` changes only
  `answer`, and nothing that comes later is passed on. What the handler would
  still read of the body is answered as a disconnect.
- FastAPI reads the body as JSON before the dependencies and validates it after
  them; a malformed body is answered before, an invalid one after the gate.
- `get_crm_session` is cached, so the dependencies and the handler share one CRM
  session. A session borrows a connection at its first statement and returns it
  at a commit, a rollback or the end of the request. A statement and the wait
  for its connection are one step, guarded by a connection being free; that the
  wait times out is `Fails`.
- The context variables are set in the request's own task, so they are its own.
- A failed audit or publish is swallowed; a failed audit commit keeps the CRM
  connection.

History: `entitled[r]`, the answers that "is the community of the headers
registered and subscribed?" had while the request was at the gate; `read[r]`, the
communities whose rows its statements saw; `wrote[r]`, the community its local
transaction was committed for; `unsure`, the requests whose commit raised. A new
value of `wrote` is what the database holds, not what the handler knows.

### NewsNotify, and how it corresponds to the code

A *publisher* is the tail of one handler, on its own CRM session. `pc[p]` is
the statement it awaits next, `call[p]` the arguments of `publish`, `found[p]`
what it has read, `flushed[p]` the rows its open transaction has written,
`staged[p]` the list `_pending_realtime`. `dir` holds the tables crm-backend
owns; they change between any two statements.

| Code | Actions |
|---|---|
| `AuditLogService.log`, and the commit of `_audit` | `AuditWho`, `AuditEntry` or `AuditLogFails`; `AuditCommit` or `AuditCommitFails` |
| `publish`: audience | `ReadAuthor`, `ReadAudience` |
| `publish`: `_effective_channels` | `ReadPreferences` |
| `publish`: the savepoint, `insert_many`, `_enqueue_email`, `insert_outbound` | `InsertNotes` or `NotesRejected`; `ReadContacts`, `InsertMails` |
| `except Exception` around all of it | `PublishFails`, `NotesRejected` |
| the commit of `_notify_post_created` | `Commit` or `CommitFails` |
| `flush_realtime`, `emit` | `Hint`, `HintsEnd` |
| cancellation, a crash | `Vanish` |
| crm-backend (external) | `SaveAccount`, `CloseAccount`, `Join`, `Leave`, `Prefer` |

- `publish` is shared code. The news board asks for in-app, informational, a
  community without its author, and no dedupe key; the other arguments its
  contract allows (e-mail, transactional, explicit users, roles,
  `dedupe_key`) are in the menus too, because the code handles them.
- A failed audit commit is swallowed and nobody rolls the session back, so
  SQLAlchemy refuses every later statement on it: the publish fails, and so does
  its commit. `AuditCommitFails` goes to the end at once. Whether the server had
  committed before the connection was lost is open; likewise in `CommitFails`
  and `Vanish`.
- `ON CONFLICT (dedupe_key) DO NOTHING` waits for the outcome of an uncommitted
  row with the same key (`KeyLocked`) and then inserts one row for each key that
  is not in the table; which of two rows of one batch with the same key is not
  said.
- A caller's own `dedupe_key` (`override`) replaces the whole key, so all
  addressees of one publish share it, and one row is inserted. A derived key names
  its addressee (`IsFor`, `KeyNamesUser`).
- An in-app row shares its account's row (FOR KEY SHARE): the insert fails if
  the account is gone, and deleting the account waits for it.
- The digests of a dedupe key are the tuples they are made of: they are taken to
  have no collisions.

History variables: `start[p]`, the directory when `p` began; `touched[p]`, the
people it has changed for since; `outcome[p]`; `committed`.

### Outbox, and how NewsNotify maps to it

`Outbox` has the three tables a publisher writes, the hints it has sent, and its
`stage`. A publisher first commits at most one audit entry (`Record`), then makes
at most one delivery (`Deliver`): rows and mails appear in one step, the mails
with keys that are new, one for a person, linked to nothing but the row that
comes with them. Hints follow the delivery, one for a person. A delivery may be
empty, because `publish` is best effort; whom a full one reaches depends on what
was read when, and is said by `LandedReaches`. Closing an account (`Close`)
removes its rows and links. There are no statements, savepoints, locks or
failures.

The mapping (end of `NewsNotify`) derives `stage` from the publisher's statement:
new up to the audit commit, closed behind the commit of the publish or when the
handler is gone. A commit that takes effect although its caller sees an error is
the delivery; a commit that is lost, or a handler that dies, delivers nothing.

## 3. Properties and runs

The code takes no lock between what it reads and what it writes, so several
documented promises hold only for requests that do not overlap. The project
states both: the promise as documented, with the run that refutes it, and the
strongest form that holds, which is checked and proved.

| Documented | Refuted by | What holds |
|---|---|---|
| a single-choice ballot is exactly one row (`service.py:213`) | `double_click`: two casts read no existing row, both commit | `OneBallotPerVoter`: one request's ballot, unless casts of that voter overlapped |
| options are frozen once any vote exists (`README.md:34`) | `frozen_race`: a vote commits between the count and the flush | `ReplacementSparesSettledVotes`: only votes whose cast overlapped the replacement are discarded |
| voting is locked after the deadline (`local_models.py:40`) | `late_vote`: the deadline passes between check and commit | `ClosedPollTakesNoNewVoter`: only casts that began before it, unless a manager moved it meanwhile |
| results are withheld entirely when the requester isn't entitled (`README.md:38-39`) | `stale_matrix`: the settings are read, a manager closes them, the member votes, the votes are read | `WithheldUnlessEntitled`: only callers who were entitled at some moment of the request, unless the settings changed under it |
| "the business write committed => the message is queued" is an invariant rather than a hope (`crm_notification_models.py:37-39`) | `swallowed_queue`: the savepoint is rolled back, the exception swallowed, the commit succeeds | `AllOrNothing`: the rows of a publish land or vanish together |

One more promise is kept only in part: `_enqueue_email` stages "one
`outbound_message` row per addressee" (`core/notifications/service.py:274`), but with
a dedupe key of the caller's (`dedupe.py:67`) all mails of a publish have that key,
and by `OneMailPerKey`, which `notify_twins` checks with such keys and the proofs
establish, one of them is kept. `LandedReaches` therefore promises a mail of their
own to each addressee only where the key is derived. No caller in this repository
passes a key.

Further properties of `NewsBoard`: `Integrity` (foreign keys, and the copied `id_post` agrees
with the option's), `OneRowPerOption` (the unique key), `OptionsFromOneSubmission`
and `PollOffersChoice` (concurrent managers), `CastVoteIsKept` (an acknowledged
ballot disappears only for a cause), `RecordsSpeakTrue` (no audit entry,
notification or success without a commit), `ImplementsBallotBox` (the refinement)
and `Answered` (liveness).

Of `NewsResults`: `VotesFitOptions` (the totals of an answer add up, unless the
options were replaced during the read), `OwnVoteShown` (who has voted sees it) and
`FinalResultsStand` (what an answer calls ended and counts is what the poll will
say for good, but for requests that began in time).

Of `NewsPipeline`: `ServedWithAccess` (no row is read or written but of the
community of the headers, for a known user, subscribed while the request was at the
gate, by a manager where one is required), `TurnedAwayForCause` (nobody is refused as
no manager because of blocks whose roles nobody knows, nor as not subscribed who was
so all the while), `AnswerTellsEffect` (success means committed, an error means not;
the code has two exceptions, the second read of an update and the default error
after a commit that raised), `NoCircularWait` (nobody waits for the CRM pool with
nothing but a local connection) and `EveryRequestEnds` (liveness).

Of `NewsNotify`: `LandedReaches`, although author, members, preferences and
contacts are read one after the other while crm-backend changes them: whoever was
not changed meanwhile is notified exactly if entitled when the publisher began, and
has a mail of their own queued if entitled to one (by this publish or by an earlier
one with the same type and data, which is what the key is for). Of a publish with an
overriding key no more holds than that one mail with the key is queued.
`AllOrNothing` says the same of any publish that left a single row, whatever
failed; `LinkedMails`, `HintsMatchRows` (a hint only for a row, but for a commit
whose outcome is unknown), `ImplementsOutbox` (the refinement) and `PublishEnds`
(liveness).

| Run | Instance | Bounds |
|---|---|---|
| `voters_race` | creation of a single- or multiple-choice poll; two requests of `u1` (cast option 1, option 2, both, retract), one of `u1` or `u2` (cast option 1, retract) | 3 racing requests, 2 options, clock stopped |
| `managers_race` | two managers (replace by 1 or 2 options, edit the text, both, delete) and one voter (old option, a new option of either) or another community's manager; the creation may be refused | 3 racing requests, clock stopped |
| `results` | creation of a poll (two settings) or a plain post; a vote, refused vote or retraction; a manager's edit of deadline or display, replacement, deletion, or a second vote; one reader: list, post or results, as member, manager or nobody | `now` in 0..2, one reader, `AfterCreation`, `CrmKeepsUp` |
| `pipeline` | a create, an update, retraction or read, and a readiness probe, also refused or malformed; known and unknown roles in two communities; under fairness | 2 CRM connections, 1 local connection, `MaxChanges` = 1, `OtherStays` |
| `answered` | a holder of several locks or the maker of a second poll, a voter (also for an option of that other poll), an editor, under fairness; also `IInv` | 2 racing requests and the creation, no constraint; `now` in 0..1 |
| `notify_readers` | one publisher, the news board's call and four variations; author without an account, unusable address, muted and unmuted prefixes; crm-backend makes two changes of any kind | `MaxChanges` = 2, after the publisher began (`AfterBegin`) |
| `notify_twins` | two publishers that may ask for the same keys, under fairness; also `IInv` | 3 people, no changes |
| `swallowed_queue` | one publisher, no changes | `MaxChanges` = 0 |
| `double_click`, `frozen_race`, `late_vote`, `stale_matrix` | the smallest race that refutes the promise | 1 or 2 racing requests, at most one reader |

Why the bounds are enough to be of use: each hazard is a race of two requests on
one poll; the third request supplies what they race about (an existing row, a
second replacement). One poll suffices where options are named by their own poll,
because no statement touches two; a ballot that names another's is tried by
`answered`.
`AfterCreation` starts the race when the creation has been answered; `answered`
runs without it. `Menu` says which request may be what; the theorems hold for
every menu. The clock stops at `MaxTime`. Symmetry exchanges the two racing
requests that have the same menu (never in a liveness run); the menu of the third
names both alike.

In `results` one reader suffices: readers write nothing, so two of them do not
meet. Three instants let a deadline pass, or be moved, before, between and after
the reader's statements. `CrmKeepsUp` leaves out lost audit entries, on which no
reader depends. `ClosedPollTakesNoNewVoter`, a property of the writers, is checked
there because the clock runs.

In `pipeline` the CRM pool is smaller than the requests that use it, and the
local pool serves one at a time, so every wait of one request for another
happens. One change by crm-backend falls before, between or after the two reads
of the gate; it concerns the community whose requests go all the way, while the
other one stays registered and subscribed (`OtherStays`, a bound on crm-backend, on
which no fairness rests). `CHECK_DEADLOCK` is off in this run because the system
ends: requests are made once, and when all are answered nothing is left to do.

In `NewsNotify` publishers meet only in `outbound_message`, where two are enough
for a conflict; a publisher and crm-backend meet at its reads, and two changes
are enough to have a person join and leave, mute and unmute, or one change before
and one after a read. A change before the publisher began is another initial
directory (`Directories`).

Fairness (`FairSpec`): weak fairness of each handler's own steps. The event loop
resumes a coroutine whose statement has returned and PostgreSQL grants a lock
that is free. No fairness is assumed of the clock, of failures or of clients.
In `NewsNotify` likewise: weak fairness of `Work(p)`, the statements of one
publisher that return; `HintsEnd` belongs to it because `flush_realtime` is a
loop over a finite list in which `emit` gives up after its timeout.
In `NewsPipeline` weak fairness of `Proceeds(r)`: the handler's statements, the
timer of the middleware, and the end of a read from a client that was told 504.
Neither `Fails` nor `CommitFails` is fair: nothing has to fail for a request to end.
Weak fairness is enough although connections come and go: a request that holds
one always proceeds, so in the end a free connection stays free. No client has to
send the rest of its body: the timer ends that wait.

## 4. Proofs

All proofs rest only on the assumptions on constants, which the runs evaluate:
`NullAssumption` and `EntriesAssumption` (NULL is not a value), `BoundsAssumption`,
`ReadersAssumption` (menus contain calls), `PipelineAssumption` (likewise, the
pools are disjoint, and the id of a community is its own) and
`DirectoriesAssumption` (at first, members have accounts). The theorems hold for
any number of requests, posts, options, users, communities, readers, connections
and publishers, any menus and any directory.

**`NewsBoardProofs`**: every safety property of the writers holds in every
reachable state, and both action properties at every step. No property is
inductive by itself: whether a commit is harmless depends on what its handler
read earlier. `IInv` adds

- `Control`, `ExistingOfVoters`: which operation can be at which statement;
- `Knowledge`: what a handler read and still holds of the post (its type never
  changes, its loaded options are the poll's, its rows are its voter's);
- `Provenance`: every row was written by a committed request of the right kind;
- `LocksHold`, `LocksExclude`: what a lock protects is still there, and
  conflicting locks are never held together; this gives `Integrity`,
  `OneRowPerOption`;
- `SeenOrOverlaps`, the heart: every row of its poll is one the handler has
  read, or was written by a request that overlaps it. At the commit the first
  kind is deleted, so what remains overlaps: `OneBallotPerVoter`,
  `OptionsFromOneSubmission`, `ReplacementSparesSettledVotes`,
  `CastVoteIsKept`;
- `FoundOpen`: a request that casts or retracts found the poll open at a time not
  before its beginning, or a request that overlaps has moved the deadline:
  `ClosedPollTakesNoNewVoter`.

`StepCases` and `CommitCases` reduce a step to the move of one handler; each part
of `IInv` has a lemma with one step per action; `InductiveStep` and `Invariance`
put them together. `IInv` is also an invariant of the run `answered`.

**`NewsBoardRefinement`**: `BallotBoxImplemented`, that is
`Spec => ImplementsBallotBox`. Initial states map to initial states; a step that
is not a commit maps to `Ask` or to a stutter; each commit maps to the effect of
its request. For that one more invariant is needed, `InScope`: a handler that has
read its post read it in its own community, and there it still is, if anywhere.
`IInv` supplies the rest: locks keep the options of a ballot in place until the
commit, rows that a cast deletes are its voter's, and foreign keys make votes go
exactly when their option goes.

**`NewsResultsProofs`**: `WithheldUnlessEntitled`, `VotesFitOptions` and
`OwnVoteShown` for any readers beside any writers. `RInv` relates what a reader
holds to the tables it no longer looks at: the settings are still those it read
unless a manager resettled the poll since (`SettingsAsRead`), a deadline found
passed has passed (`EndedAsRead`), the options are those it read unless an update
brought new ones (`OptionsAsRead`), and what it may know now is among what it was
due (`Watched`). `RInv` is inductive together with `IInv`: that options and votes
agree in every single state is `Integrity` of the writers.

**`NewsFinalityProofs`**: `FinalResultsStand`, that results shown of an ended
poll stay as they were shown unless a request with an excuse commits later. What
is shown at one moment is contradicted by what is stored at a later one, so the
invariant has to speak of the requests that are still on their way. `FInv` says,
for each reader that shows results:

- `DeadlineAsRead`: the stored deadline is the one the reader holds, unless an
  update that it did not see has moved it;
- `VotersInTime`: whoever has found the poll open and has not committed began
  before that deadline, with the same exception. A voter that begins later finds
  the poll closed; this is where the clock, `FoundOpen` (which therefore covers
  retractions too) and `DeadlineAsRead` come together;
- `VotesStand`: the votes shown and the votes stored are the same, but for
  commits that `FinalResultsStand` excuses. Only three kinds of commit change
  votes (`VotesMove`): those of a voter, who is in time; deletions; and
  replacements of options, which spare settled votes.

`FInv` is inductive together with `IInv` and `RInv`, and implies the property.

**`NewsNotifyProofs`**: type correctness, `LandedReaches`, `AllOrNothing`,
`OneMailPerKey`, `LinkedMails` and `HintsMatchRows`. Who is reached is decided by
four reads, between which crm-backend may change anything, and written by two
statements and a commit, each of which may fail. `IInv` connects them:

- `SameSince`: a person whom crm-backend has not touched since the publisher
  began looks to it as at the beginning; `ChangeAt` proves this kept by any
  transaction of crm-backend that concerns one person;
- `Knowledge`, statement by statement: of the untouched, the publisher knows the
  author, then the audience, then who is to get what, then where to, and at the
  commit exactly these are flushed or already queued. Each read lemma
  (`ReadAuthorKeeps`, `ReadAudienceKeeps`, ...) turns one into the next with
  `SameSince`;
- `Control`: what is flushed and staged at each statement, and that a publish
  that raised has left nothing (`Rollback`); so a commit brings all or nothing;
- `DistinctKeys`: no two mails have one key, whether committed or flushed;
  `OneMailPerKey` alone is not inductive, since two publishers might commit rows
  they flushed before. A key that another publisher has queued stays queued, so
  it may stand for the publisher's own;
- `Provenance`, `Links`, `StagedRows`: rows are there only behind their
  publisher's commit, links lead to rows that land with them, and whoever is
  about to be hinted has a row.

`IInvAt` splits `IInv` into a part on the tables and one part for each
publisher, and `OthersKeep` shows once that a step leaves the parts of all other
publishers true; so the lemma of an action is about one publisher. `TransactionEnds`
and `LandsReach` deal with the three ways a commit can end; that a mail with the key
of an addressee is theirs follows from `KeyNamesUser`. `notify_twins` checks
`IInv`.

**`NewsNotifyRefinement`**: `OutboxImplemented`, that is
`Spec => ImplementsOutbox`. Statements that neither commit nor hint are stutters
(`StatementsAreHidden`); the audit commit, and what ends a handler before it, is
`Record`; the commit of the publish, its failure and a crash at it are `Deliver`,
where `DistinctKeys`, `Links` and `Control` say that what lands fits; crm-backend
shows only when it closes an account. One more invariant is needed, `EachOnce`:
the audit entry does not stay flushed beyond its own commit, and nobody who is
staged has been hinted.

**`NewsPipelineProofs`**: type correctness, `ServedWithAccess`,
`TurnedAwayForCause`, `AnswerTellsEffect`, `NoCircularWait`. `PInv` says what is
known of a request at each place of its way: what it is and which answers it may
have (`Place`); that the context names the community of the headers and whoever is
in a handler has passed every check, so that rows are seen and transactions
committed for that community only (`Within`, `Admitted`); that the gate has on
record what it decides on (`Watched`); what an answer says (`Told`); and which
connections are held where (`Pool`), which is the order in which the pools are
taken. That whoever has a role below a manager's in the context is not called one beyond
doubt (`ManagerIfSo`) takes the first block with a known role, and so the
well-foundedness of the natural numbers.

Every safety invariant, action property and refinement that a passing run checks
is a theorem. Model-checked only: `Answered`, `PublishEnds` and
`EveryRequestEnds`, because liveness under fairness is beyond the prover; and the
refutations, which are counterexamples.

## 5. Not modelled, and the plan

Not modelled for good: the liveness probe (a constant), Markdown, the layout of
DTOs, i18n, logging, tracing, configuration (I/O, wording and wiring without
state), and the contents of texts. Of the modelled parts:

- a body without a declared length passes the 413 check; how long it is then
  makes no difference to anything modelled;
- `list_posts` counts and reads a page in two statements, and pages by offset: a
  post created or deleted in between shifts pages. No document promises
  otherwise; `NewsResults` has one page and no count;
- reconnecting inside the pools (`pool_recycle`, pre-ping) is a failing or a
  returning statement;
- what other services do with the audit log, the mail queue and the hints.

Planned next:

1. An abstract gate that `NewsPipeline` implements: a request is admitted or
   refused in one step, takes effect at most once, and is answered once.
2. The safety lemmas behind the liveness properties: whoever waits for a row lock
   or a dedupe key waits for a request that is able to go on.
