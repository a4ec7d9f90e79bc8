----------------------------- MODULE NewsBoard -----------------------------
(***************************************************************************)
(* The write side of the news board: create, update and delete a post,    *)
(* cast and retract a vote (api/news/service.py), running concurrently     *)
(* against the local PostgreSQL database.                                  *)
(*                                                                         *)
(* A request runs on a session of its own, at READ COMMITTED.  Every       *)
(* statement it awaits is a step, and the steps of different requests      *)
(* interleave.  What a request has flushed and not committed is derived    *)
(* from its program counter: nobody reads it, but it holds row locks,      *)
(* which the steps of the others wait for (the operators under "Locks").   *)
(*                                                                         *)
(* Identities: the id of a post is the request that created it; an option  *)
(* is the n-th option submitted by request `by'; a vote row remembers the  *)
(* request that inserted it.  Serial ids are never reused in PostgreSQL,   *)
(* and no request inserts the same row twice, so these are faithful names. *)
(*                                                                         *)
(* Abstracted: the wording of posts and options (a natural number stands   *)
(* for a text), the order in which options are displayed, authors' email   *)
(* snapshots, and the id_community columns of options and votes, which are *)
(* copies of their post's.                                                 *)
(***************************************************************************)
EXTENDS Naturals

CONSTANTS
    Requests,      \* the requests that are made, one handler each
    Users,         \* voters (Keycloak subjects)
    Communities,   \* tenants
    Null,          \* SQL NULL, Python None: no row, no value, no user
    MaxTime,       \* bound: the clock stops there
    Menu           \* bound: what each request may be, [Requests -> SUBSET Calls]

Columns == {"text", "expires", "admin", "member", "display"}

PostType == {"post", "single", "multiple"}

IsPoll(type) == type # "post"

PostRows == [community : Communities, type : PostType,
             cols : [Columns -> Nat \cup {Null}]]

OptionRows == [post : Requests, by : Requests, n : Nat]

VoteRows == [post : Requests, option : OptionRows, voter : Users, by : Requests]

Ops == {"create", "update", "delete", "cast", "retract"}

\* The arguments of a call. `set' holds the column values it carries (Null:
\* not given); `options' is how many options it carries (Null: none given).
Calls == [op : Ops, user : Users \cup {Null}, community : Communities,
          post : Requests, type : PostType, set : [Columns -> Nat \cup {Null}],
          options : Nat \cup {Null}, selected : SUBSET OptionRows]

ASSUME NullAssumption ==
    /\ Null \notin Nat /\ Null \notin Users /\ Null \notin PostRows
    /\ Null \notin Calls
    /\ Null \notin [row : PostRows, options : SUBSET OptionRows]

ASSUME BoundsAssumption ==
    /\ MaxTime \in Nat
    /\ \A r \in Requests : Menu[r] \subseteq Calls

VARIABLES
    posts,     \* table post: a row for each id, or Null
    options,   \* table post_poll
    votes,     \* table post_poll_vote
    crm,       \* rows of the CRM database: audit entries, notifications
    now,       \* the wall clock
    pc,        \* where each request's handler is
    call,      \* what each request asks for
    loaded,    \* its identity map: the post and options as it read them
    existing,  \* the voter's own rows as it read them
    resp,      \* its answer
    applied,   \* history: the requests whose local commit succeeded
    before,    \* history: the requests that had ended when this one began
    since      \* history: the time at which it began

vars == <<posts, options, votes, crm, now, pc, call, loaded, existing, resp,
          applied, before, since>>
tables == <<posts, options, votes>>
history == <<before, since>>

InFlight == {"begin", "create", "read", "unvote", "vote", "columns", "count",
             "replace", "remove", "commit", "audit", "notify", "reread"}

Status == {"none", "ok", "invalid", "not_poll", "closed", "unauthorized",
           "missing", "frozen", "failed"}

----------------------------------------------------------------------------
(* Rules *)

PollEnded(row, t) == row.cols["expires"] # Null /\ t >= row.cols["expires"]

ValidPayload(k, t) ==
    IsPoll(k.type) =>
        /\ k.options # Null /\ k.options >= 2
        /\ \A c \in {"admin", "member", "display", "expires"} : k.set[c] # Null
        /\ k.set["expires"] > t

\* Mutant: the options are not compared with those of the poll.
AnySelection(k, row, offered) ==
    row.type = "single" => \E o \in k.selected : k.selected = {o}

\* The list of ids is deduplicated first: a set.
ValidSelection(k, row, offered) ==
    /\ k.selected \subseteq offered
    /\ row.type = "single" => \E o \in offered : k.selected = {o}

\* A plain post keeps no poll column.
NewPost(k) ==
    [community |-> k.community, type |-> k.type,
     cols |-> [c \in Columns |->
                  IF IsPoll(k.type) \/ c = "text" THEN k.set[c] ELSE Null]]

NewOptions(r, p) == [post : {p}, by : {r}, n : 1 .. call[r].options]

CreatedOptions(r) == IF IsPoll(call[r].type) THEN NewOptions(r, r) ELSE {}

Ballot(r) == [post : {call[r].post}, option : call[r].selected,
              voter : {call[r].user}, by : {r}]

OptionsOf(p) == {o \in options : o.post = p}

\* Mutant: the read is not filtered by community.
RowOfAnyone(k) == posts[k.post]

\* with_community_scope: a post of another community is not found.
RowInScope(k) ==
    IF posts[k.post] # Null /\ posts[k.post].community = k.community
        THEN posts[k.post] ELSE Null

\* Mutant: the deadline itself still counts as open.
LateVotingClosed(row) == row.cols["expires"] # Null /\ now > row.cols["expires"]

\* _poll_ended, read once, when the handler checks it.
VotingClosed(row) == PollEnded(row, now)

\* Mutant: a poll may be replaced by one with fewer than two options.
AnyNumberOfOptions(k) == FALSE

\* The first check of _replace_options.
TooFewOptions(k) == k.options # Null /\ k.options < 2

\* Mutant: an anonymous caller may vote.
AnybodyVotes(user) == FALSE

\* _require_voter.
NoVoter(user) == user = Null

\* The early returns between the handler's first read and its next await.
Refusal(k, row, offered) ==
    IF row = Null THEN "missing"
    ELSE IF k.op \in {"cast", "retract"} THEN
        IF ~IsPoll(row.type) THEN "not_poll"
        ELSE IF VotingClosed(row) THEN "closed"
        ELSE IF NoVoter(k.user) THEN "unauthorized"
        ELSE IF k.op = "cast" /\ ~ValidSelection(k, row, offered) THEN "invalid"
        ELSE "none"
    ELSE IF k.op = "update" /\ IsPoll(row.type) /\ TooFewOptions(k) THEN "invalid"
    ELSE "none"

\* What an update assigns to the post it loaded, and the columns that the
\* flush writes: those whose value changed in this session.
Assigned(r, c) ==
    IF call[r].set[c] # Null /\ (c = "text" \/ IsPoll(loaded[r].row.type))
        THEN call[r].set[c] ELSE loaded[r].row.cols[c]

Dirty(r) == {c \in Columns : Assigned(r, c) # loaded[r].row.cols[c]}

Replaces(r) == /\ call[r].op = "update" /\ call[r].options # Null
               /\ IsPoll(loaded[r].row.type)

----------------------------------------------------------------------------
(* Locks: what an open transaction of q has flushed *)

DeletesPost(q, p) ==
    pc[q] = "commit" /\ call[q].op = "delete" /\ call[q].post = p

DeletesOption(q, o) ==
    \/ DeletesPost(q, o.post)
    \/ pc[q] = "commit" /\ Replaces(q) /\ o \in loaded[q].options

DeletesVote(q, x) ==
    \/ DeletesOption(q, x.option)
    \/ pc[q] \in {"vote", "commit"} /\ x \in existing[q]

\* Mutant: the vote does not lock the option it refers to.
AddsUnlockedVote(q, o) == FALSE

\* A vote row shares (FOR KEY SHARE) the rows of its post and its option.
AddsVoteOn(q, o) ==
    pc[q] = "commit" /\ call[q].op = "cast" /\ o \in call[q].selected

AddsOptionTo(q, p) == pc[q] = "commit" /\ Replaces(q) /\ call[q].post = p

\* Mutant: the lock is announced before it is taken.
AboutToUpdate(q, p) ==
    /\ pc[q] \in {"columns", "count", "replace", "commit"} /\ call[q].op = "update"
    /\ call[q].post = p /\ Dirty(q) # {}

UpdatesPost(q, p) ==
    /\ pc[q] \in {"count", "replace", "commit"} /\ call[q].op = "update"
    /\ call[q].post = p /\ Dirty(q) # {}

Others(r) == Requests \ {r}

----------------------------------------------------------------------------
(* Requests begin, are refused, fail *)

Init ==
    /\ posts = [p \in Requests |-> Null]
    /\ options = {} /\ votes = {} /\ crm = {} /\ now = 0
    /\ pc = [r \in Requests |-> "idle"]
    /\ call = [r \in Requests |-> Null]
    /\ loaded = [r \in Requests |-> Null]
    /\ existing = [r \in Requests |-> {}]
    /\ resp = [r \in Requests |-> "none"]
    /\ applied = {}
    /\ before = [r \in Requests |-> {}]
    /\ since = [r \in Requests |-> 0]

Goto(r, label) == pc' = [pc EXCEPT ![r] = label]

\* The handler ends with this answer; its session is closed, so that anything
\* it flushed and did not commit is rolled back.
Finish(r, status) ==
    /\ Goto(r, "done")
    /\ resp' = [resp EXCEPT ![r] = status]
    /\ loaded' = [loaded EXCEPT ![r] = Null]
    /\ existing' = [existing EXCEPT ![r] = {}]

\* A step that leaves the tables and the history as they are.
NoWrite == UNCHANGED <<posts, options, votes, crm, now, call, applied,
                       before, since>>

Reject(r, status) == Finish(r, status) /\ NoWrite

Start(r) ==
    /\ pc[r] = "idle"
    /\ \E k \in Menu[r] : call' = [call EXCEPT ![r] = k]
    /\ Goto(r, "begin")
    /\ before' = [before EXCEPT ![r] = {q \in Requests : pc[q] = "done"}]
    /\ since' = [since EXCEPT ![r] = now]
    /\ UNCHANGED <<posts, options, votes, crm, now, loaded, existing, resp,
                   applied>>

\* The first read: the post in the request's community, with its options.
Read(r) ==
    /\ pc[r] = "begin" /\ call[r].op # "create"
    /\ Refusal(call[r], RowInScope(call[r]), OptionsOf(call[r].post)) = "none"
    /\ loaded' = [loaded EXCEPT ![r] = [row |-> RowInScope(call[r]),
                                        options |-> OptionsOf(call[r].post)]]
    /\ Goto(r, CASE call[r].op = "update" -> "columns"
                 [] call[r].op = "delete" -> "remove"
                 [] call[r].op \in {"cast", "retract"} -> "read")
    /\ NoWrite /\ UNCHANGED <<existing, resp>>

Refuse(r) ==
    LET why == Refusal(call[r], RowInScope(call[r]), OptionsOf(call[r].post))
    IN /\ pc[r] = "begin" /\ call[r].op # "create"
       /\ why # "none"
       /\ Reject(r, why)

\* Any statement may fail (a deadlock victim, a lost connection), the handler
\* may be cancelled, or the process may die.  What was not committed is gone;
\* what was committed stays, though the client never learns of it.
Fail(r) == pc[r] \in InFlight /\ Reject(r, "failed")

Commit(r) ==
    /\ Goto(r, "audit")
    /\ applied' = applied \cup {r}
    /\ UNCHANGED <<crm, now, call, loaded, existing, resp, before, since>>

----------------------------------------------------------------------------
(* create_post *)

ValidateCreate(r) ==
    /\ pc[r] = "begin" /\ call[r].op = "create"
    /\ ValidPayload(call[r], now)
    /\ Goto(r, "create")
    /\ NoWrite /\ UNCHANGED <<loaded, existing, resp>>

RefuseCreate(r) ==
    /\ pc[r] = "begin" /\ call[r].op = "create"
    /\ ~ValidPayload(call[r], now)
    /\ Reject(r, "invalid")

\* The flushes of the post and of its options touch rows nobody can see, so
\* they are part of the commit.
CommitCreate(r) ==
    /\ pc[r] = "create"
    /\ posts' = [posts EXCEPT ![r] = NewPost(call[r])]
    /\ options' = options \cup CreatedOptions(r)
    /\ Commit(r) /\ UNCHANGED votes

----------------------------------------------------------------------------
(* update_post *)

\* The UPDATE of the changed columns: autoflushed by the vote count, or by the
\* commit when no options are given.  It waits for the lock on the post's row.
FlushColumns(r) ==
    LET p == call[r].post
    IN /\ pc[r] = "columns"
       /\ Dirty(r) # {} =>
            /\ posts[p] # Null
            /\ \A q \in Others(r) : ~UpdatesPost(q, p) /\ ~DeletesPost(q, p)
       /\ Goto(r, IF Replaces(r) THEN "count" ELSE "commit")
       /\ NoWrite /\ UNCHANGED <<loaded, existing, resp>>

\* Mutant: the failure is swallowed.
StaleUpdateIgnored(r) ==
    /\ pc[r] = "columns" /\ Dirty(r) # {} /\ posts[call[r].post] = Null
    /\ Reject(r, "ok")

\* The UPDATE matched no row: StaleDataError.
StaleUpdate(r) ==
    /\ pc[r] = "columns" /\ Dirty(r) # {} /\ posts[call[r].post] = Null
    /\ Reject(r, "failed")

\* Mutants: an off-by-one in the count; no count at all.
HasSeveralVotes(p) == \E x, y \in votes : x # y /\ x.post = p /\ y.post = p
NeverHasVotes(p) == FALSE

HasVotes(p) == \E x \in votes : x.post = p

\* count_votes_for_post found none; the count is not repeated.
CountVotes(r) ==
    /\ pc[r] = "count" /\ ~HasVotes(call[r].post)
    /\ Goto(r, "replace")
    /\ NoWrite /\ UNCHANGED <<loaded, existing, resp>>

OptionsFrozen(r) ==
    /\ pc[r] = "count" /\ HasVotes(call[r].post)
    /\ Reject(r, "frozen")

\* Flush of _replace_options: INSERT the new options, DELETE those loaded.
\* The DELETE waits for the votes that share an option, and for those being
\* deleted, which it would cascade to.
ReplaceOptions(r) ==
    /\ pc[r] = "replace" /\ posts[call[r].post] # Null
    /\ \A q \in Others(r) :
          /\ ~DeletesPost(q, call[r].post)
          /\ \A o \in loaded[r].options : ~DeletesOption(q, o) /\ ~AddsVoteOn(q, o)
          /\ \A x \in votes : x.option \in loaded[r].options => ~DeletesVote(q, x)
    /\ Goto(r, "commit")
    /\ NoWrite /\ UNCHANGED <<loaded, existing, resp>>

\* The post is gone: the INSERT violates its foreign key.
ReplaceFails(r) ==
    /\ pc[r] = "replace" /\ posts[call[r].post] = Null
    /\ Reject(r, "failed")

Merged(r) ==
    LET row == posts[call[r].post]
    IN [row EXCEPT !.cols = [c \in Columns |->
           IF c \in Dirty(r) THEN Assigned(r, c) ELSE row.cols[c]]]

\* Mutant: the collection is extended, not replaced.
DropsNothing(r) == {}

\* The orphans of the reassigned collection, and the rows that take their place.
Dropped(r) == IF Replaces(r) THEN loaded[r].options ELSE {}
Added(r) == IF Replaces(r) THEN NewOptions(r, call[r].post) ELSE {}

CommitUpdate(r) ==
    /\ pc[r] = "commit" /\ call[r].op = "update"
    /\ posts' = IF Dirty(r) = {} THEN posts
                ELSE [posts EXCEPT ![call[r].post] = Merged(r)]
    /\ options' = (options \ Dropped(r)) \cup Added(r)
    /\ votes' = {x \in votes : x.option \notin Dropped(r)}
    /\ Commit(r)

\* update_post answers with get_post, which may find the post gone.
Reread(r) ==
    /\ pc[r] = "reread"
    /\ Reject(r, IF RowInScope(call[r]) = Null THEN "missing" ELSE "ok")

----------------------------------------------------------------------------
(* delete_post *)

\* The flushed DELETE locks the post and all that it cascades to. Finding no
\* row is only a warning.
RemovePost(r) ==
    LET p == call[r].post
    IN /\ pc[r] = "remove"
       /\ \A q \in Others(r) :
             /\ ~UpdatesPost(q, p) /\ ~DeletesPost(q, p) /\ ~AddsOptionTo(q, p)
             /\ \A o \in OptionsOf(p) : ~AddsVoteOn(q, o) /\ ~DeletesOption(q, o)
             /\ \A x \in votes : x.post = p => ~DeletesVote(q, x)
       /\ Goto(r, "commit")
       /\ NoWrite /\ UNCHANGED <<loaded, existing, resp>>

CommitDelete(r) ==
    LET p == call[r].post
    IN /\ pc[r] = "commit" /\ call[r].op = "delete"
       /\ posts' = [posts EXCEPT ![p] = Null]
       /\ options' = {o \in options : o.post # p}
       /\ votes' = {x \in votes : x.post # p}
       /\ Commit(r)

----------------------------------------------------------------------------
(* cast_vote, retract_vote *)

\* Mutants: only the rows about to be inserted again; everybody's rows.
RepeatedVotes(r) == {x \in votes : /\ x.post = call[r].post /\ x.voter = call[r].user
                                   /\ x.option \in call[r].selected}
EverybodysVotes(r) == {x \in votes : x.post = call[r].post}

OwnVotes(r) == {x \in votes : x.post = call[r].post /\ x.voter = call[r].user}

ReadExisting(r) ==
    /\ pc[r] = "read"
    /\ call[r].op = "retract" => OwnVotes(r) # {}
    /\ existing' = [existing EXCEPT ![r] = OwnVotes(r)]
    /\ Goto(r, "unvote")
    /\ NoWrite /\ UNCHANGED <<loaded, resp>>

NothingToRetract(r) ==
    /\ pc[r] = "read" /\ call[r].op = "retract" /\ OwnVotes(r) = {}
    /\ Reject(r, "ok")

\* Mutant: the removal of the old ballot is committed on its own.
UnvoteAtOnce(r) ==
    /\ pc[r] = "unvote" /\ votes' = votes \ existing[r]
    /\ Goto(r, IF call[r].op = "cast" THEN "vote" ELSE "commit")
    /\ UNCHANGED <<posts, options, crm, now, call, applied, before, since,
                   loaded, existing, resp>>

\* delete_votes: it waits for whoever is deleting one of the rows, and
\* skips those that are gone.
Unvote(r) ==
    /\ pc[r] = "unvote"
    /\ \A x \in existing[r] \cap votes, q \in Others(r) : ~DeletesVote(q, x)
    /\ Goto(r, IF call[r].op = "cast" THEN "vote" ELSE "commit")
    /\ NoWrite /\ UNCHANGED <<loaded, existing, resp>>

\* Mutant: no unique constraint.
NoTwin(r, o) == {}

\* Another row of the same voter for the option, not deleted in this session.
Twin(r, o) == {x \in votes \ existing[r] : x.option = o /\ x.voter = call[r].user}

\* add_votes: the INSERT waits for a transaction that deletes the option or
\* inserts the same vote.
Vote(r) ==
    /\ pc[r] = "vote"
    /\ \A o \in call[r].selected :
          /\ o \in options /\ Twin(r, o) = {}
          /\ \A q \in Others(r) :
                /\ ~DeletesOption(q, o)
                /\ AddsVoteOn(q, o) => call[q].user # call[r].user
    /\ Goto(r, "commit")
    /\ NoWrite /\ UNCHANGED <<loaded, existing, resp>>

\* Foreign key or UNIQUE (id_post_poll, voter_id) violated: IntegrityError.
VoteFails(r) ==
    /\ pc[r] = "vote"
    /\ \E o \in call[r].selected :
          \/ o \notin options
          \/ \E x \in Twin(r, o) : \A q \in Others(r) : ~DeletesVote(q, x)
    /\ Reject(r, "failed")

CommitVotes(r) ==
    /\ pc[r] = "commit" /\ call[r].op \in {"cast", "retract"}
    /\ votes' = (votes \ existing[r])
                  \cup (IF call[r].op = "cast" THEN Ballot(r) ELSE {})
    /\ Commit(r) /\ UNCHANGED <<posts, options>>

----------------------------------------------------------------------------
(* After the commit: the CRM database, best effort *)

CrmRows == [kind : {"audit", "notification"}, by : Requests]

\* A failure is swallowed: the row may be lost.
Record(kind, r) == crm' \in {crm, crm \cup {[kind |-> kind, by |-> r]}}

UnchangedButCrm == UNCHANGED <<posts, options, votes, now, call, applied,
                               before, since>>

Audit(r) ==
    /\ pc[r] = "audit"
    /\ Record("audit", r) /\ UnchangedButCrm
    /\ \/ /\ call[r].op \in {"create", "update"}
          /\ Goto(r, IF call[r].op = "create" THEN "notify" ELSE "reread")
          /\ UNCHANGED <<loaded, existing, resp>>
       \/ call[r].op \notin {"create", "update"} /\ Finish(r, "ok")

Notify(r) ==
    /\ pc[r] = "notify"
    /\ Record("notification", r) /\ UnchangedButCrm
    /\ Finish(r, "ok")

----------------------------------------------------------------------------
Tick ==
    /\ now < MaxTime /\ now' = now + 1
    /\ UNCHANGED <<posts, options, votes, crm, pc, call, loaded, existing, resp,
                   applied, before, since>>

\* Every request has been answered: nothing is left to do.
Terminated == (\A r \in Requests : pc[r] = "done") /\ UNCHANGED vars

\* The steps a handler takes of its own accord.
Step(r) ==
    \/ Read(r) \/ Refuse(r)
    \/ ValidateCreate(r) \/ RefuseCreate(r) \/ CommitCreate(r)
    \/ FlushColumns(r) \/ StaleUpdate(r) \/ CountVotes(r) \/ OptionsFrozen(r)
    \/ ReplaceOptions(r) \/ ReplaceFails(r) \/ CommitUpdate(r) \/ Reread(r)
    \/ RemovePost(r) \/ CommitDelete(r)
    \/ ReadExisting(r) \/ NothingToRetract(r) \/ Unvote(r)
    \/ Vote(r) \/ VoteFails(r) \/ CommitVotes(r)
    \/ Audit(r) \/ Notify(r)

Next ==
    \/ \E r \in Requests : Start(r) \/ Step(r) \/ Fail(r)
    \/ Tick
    \/ Terminated

Spec == Init /\ [][Next]_vars

\* The event loop resumes every handler whose statement has returned, and the
\* database grants a lock once it is free.
FairSpec == Spec /\ \A r \in Requests : WF_vars(Step(r))

----------------------------------------------------------------------------
(* Properties *)

TypeOK ==
    /\ posts \in [Requests -> PostRows \cup {Null}]
    /\ options \subseteq OptionRows
    /\ votes \subseteq VoteRows
    /\ crm \subseteq CrmRows
    /\ now \in 0 .. MaxTime
    /\ pc \in [Requests -> InFlight \cup {"idle", "done"}]
    /\ call \in [Requests -> Calls \cup {Null}]
    /\ loaded \in [Requests -> [row : PostRows, options : SUBSET OptionRows]
                               \cup {Null}]
    /\ existing \in [Requests -> SUBSET VoteRows]
    /\ resp \in [Requests -> Status]
    /\ applied \subseteq Requests
    /\ before \in [Requests -> SUBSET Requests]
    /\ since \in [Requests -> 0 .. MaxTime]

\* Neither request had ended when the other began.
Overlap(a, b) == a \notin before[b] /\ b \notin before[a]

\* Row identity and referential integrity across the three tables, though a
\* vote carries its post's id beside its option's and the application, not the
\* database, makes the two agree: every vote stands on an option of the same
\* poll, and every option on a poll that exists (shared/models/local_models.py).
Integrity ==
    /\ \A o \in options : posts[o.post] # Null /\ IsPoll(posts[o.post].type)
    /\ \A x \in votes : x.option \in options /\ x.option.post = x.post

\* UNIQUE (id_post_poll, voter_id): however casts race, a voter counts at most
\* once for an option.
OneRowPerOption ==
    \A x, y \in votes : x.option = y.option /\ x.voter = y.voter => x = y

\* The swap of cast_vote: two rows of one voter on one poll are a multiple
\* choice made by a single request, or were cast by requests that overlapped.
\* In particular a voter whose casts do not overlap has one row on a
\* single-choice poll.
OneBallotPerVoter ==
    \A x, y \in votes :
        x # y /\ x.post = y.post /\ x.voter = y.voter =>
            IF x.by = y.by THEN posts[x.post].type = "multiple"
                           ELSE Overlap(x.by, y.by)

\* A replacement of the options may discard votes (the count it checks is
\* stale by the time it commits), but only votes whose cast overlapped it.
ReplacementSparesSettledVotes ==
    [][\A x \in votes \ votes' :
          posts'[x.post] # Null /\ x.option \notin options' =>
              \E u \in Requests : /\ pc[u] = "commit" /\ Replaces(u)
                                  /\ call[u].post = x.post
                                  /\ Overlap(x.by, u)]_vars

\* The options of a poll come from one submission, unless the submissions
\* overlapped: two managers who edit at once can merge their option sets.
OptionsFromOneSubmission ==
    \A o, o2 \in options :
        o.post = o2.post => o.by = o2.by \/ Overlap(o.by, o2.by)

\* A poll always offers a choice, however replacements interleave.
PollOffersChoice ==
    \A p \in Requests :
        posts[p] # Null /\ IsPoll(posts[p].type) =>
            \E o, o2 \in options : o # o2 /\ o.post = p /\ o2.post = p

\* Who may have undone request r's ballot: a request that ended later than r
\* began, and that removes votes.
Supersedes(c, r) ==
    /\ c \in applied /\ c # r /\ c \notin before[r]
    /\ call[c].post = call[r].post
    /\ \/ call[c].op \in {"cast", "retract"} /\ call[c].user = call[r].user
       \/ call[c].op = "delete"
       \/ call[c].op = "update" /\ call[c].options # Null /\ Overlap(c, r)

\* A vote once cast counts: it is stored until the voter changes or retracts
\* it, the post is deleted, or a replacement that overlapped it wins.
CastVoteIsKept ==
    \A r \in applied :
        call[r].op = "cast" =>
            \/ Ballot(r) \subseteq votes
            \/ \E c \in applied : Supersedes(c, r)

\* No phantom record: an audit entry, a notification and a successful answer
\* speak of a local commit that happened, except for a retraction that had
\* nothing to retract (service.py _audit, _notify_post_created).
RecordsSpeakTrue ==
    /\ \A c \in crm : c.by \in applied
    /\ \A r \in Requests :
          resp[r] = "ok" => r \in applied \/ call[r].op = "retract"

\* The deadline of poll p was moved by a request that overlapped r.
DeadlineMovedDuring(r, p) ==
    \E u \in applied :
        /\ call[u].op = "update" /\ call[u].post = p
        /\ call[u].set["expires"] # Null /\ Overlap(u, r)

\* The deadline closes the poll: once it has passed, only casts that began
\* before it are still stored, unless a manager moved it meanwhile
\* (service.py _poll_ended, checked once per request).
ClosedPollTakesNoNewVoter ==
    [][\A x \in votes' \ votes :
          \/ ~PollEnded(posts[x.post], since[x.by])
          \/ DeadlineMovedDuring(x.by, x.post)]_vars

\* Every request that is made is answered: no set of handlers waits on its own
\* locks for ever.
Answered == \A r \in Requests : pc[r] = "begin" ~> pc[r] = "done"

----------------------------------------------------------------------------
(* The ballot box that the handlers implement *)

Entries == [community : Communities, type : PostType,
            options : SUBSET OptionRows, votes : SUBSET VoteRows]

ASSUME EntriesAssumption == Null \notin Entries

VotesOn(p) == {x \in votes : x.post = p}

Entry(p) == [community |-> posts[p].community, type |-> posts[p].type,
             options |-> OptionsOf(p), votes |-> VotesOn(p)]

Board == [p \in Requests |-> IF posts[p] = Null THEN Null ELSE Entry(p)]

Box == INSTANCE BallotBox WITH board <- Board, done <- applied

\* Whatever the interleaving, the failures and the locks, the tables change as
\* if each request had worked alone and at once, doing what it asked and
\* nothing else; a request that is refused, fails or dies leaves no trace
\* (service.py: validate, flush, then one commit, or none).
ImplementsBallotBox == Box!Spec

----------------------------------------------------------------------------
(* What the repository says, and the code does not keep *)

\* "For single-choice this leaves exactly one row" (service.py cast_vote).
SingleChoiceOneRow ==
    \A x, y \in votes :
        /\ posts[x.post] # Null /\ posts[x.post].type = "single"
        /\ x.post = y.post /\ x.voter = y.voter
        => x = y

\* "Options are frozen once any vote exists." (README.md, Features).
FrozenOptions ==
    [][\A p \in Requests :
          HasVotes(p) /\ posts'[p] # Null =>
              OptionsOf(p) = {o \in options' : o.post = p}]_vars

\* "After this instant voting and vote editing are locked" (local_models.py,
\* PostModel.expires_at).
VotingLockedAfterDeadline ==
    [][\A x \in votes' \ votes : ~PollEnded(posts[x.post], now)]_vars
=============================================================================
