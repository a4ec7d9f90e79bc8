---------------------------- MODULE NewsResults ----------------------------
(***************************************************************************)
(* The reading side of the news board: list_posts, get_post and            *)
(* get_results (api/news/service.py), running concurrently with the        *)
(* writing requests of NewsBoard.                                          *)
(*                                                                         *)
(* A reading handler awaits two or three SELECTs, each on a snapshot of    *)
(* its own (READ COMMITTED): the posts, then their options (selectinload), *)
(* then votes.  Writers commit in between, and the clock runs.  It takes   *)
(* no lock and writes nothing.                                             *)
(*                                                                         *)
(* Abstracted: bodies, HTML and authors; the order of options and posts;   *)
(* one page holds every post of the community; the e-mail addresses of     *)
(* voters, read last from the CRM database, which decide nothing.  An      *)
(* answer is the rows it is computed from: the counts, the total of voters *)
(* and the lists of ids are functions of them.                             *)
(***************************************************************************)
EXTENDS NewsBoard

CONSTANTS
    Readers,       \* the reading requests that are made, one handler each
    QueryMenu      \* bound: what each may be, [Readers -> SUBSET Queries]

Roles == {"MEMBER", "MANAGER", "ADMIN"}

\* ROLE_HIERARCHY; no role, or one that is not known, ranks below all.
Rank(role) == IF role = "ADMIN" THEN 3 ELSE IF role = "MANAGER" THEN 2
              ELSE IF role = "MEMBER" THEN 1 ELSE 0

\* Who asks for what. A list has no post of its own; any stands for it.
Queries == [op : {"list", "detail", "results"}, user : Users \cup {Null},
            role : Roles \cup {Null}, community : Communities,
            post : Requests]

ASSUME ReadersAssumption ==
    /\ Null \notin Roles /\ Null \notin Queries
    /\ \A q \in Readers : QueryMenu[q] \subseteq Queries

VARIABLES
    rpc,       \* where each reader's handler is
    query,     \* what it asks for
    found,     \* the posts, the options and the state of the poll it has read
    view,      \* what it answered
    span,      \* history: the requests committed when it began, and at its end
    due        \* history: the levels it was entitled to at some moment so far

readers == <<rpc, query, found, view, span>>
resultVars == <<vars, readers, due>>

Levels == {"aggregate", "full"}

Nothing == [p \in Requests |-> Null]

Unread == [rows |-> Nothing, options |-> {}, ended |-> FALSE]

NoView == [status |-> "none", level |-> "none", rows |-> Nothing,
           options |-> {}, votes |-> {}, ended |-> {}]

----------------------------------------------------------------------------
(* Rules *)

\* Mutant: every known role is privileged.
Known(q) == Rank(query[q].role) >= Rank("MEMBER")

\* _is_privileged
Privileged(q) == Rank(query[q].role) >= Rank("MANAGER")

OrElse(value, default) == IF value = Null THEN default ELSE value

\* _resolve_results_visibility: the level shown, or "none".
Visibility(row, privileged, hasVoted, ended) ==
    LET admin == OrElse(row.cols["admin"], 0)
        member == OrElse(row.cols["member"], 0)
        display == OrElse(row.cols["display"], 0)
        timely == \/ display = 1
                  \/ display = 2 /\ hasVoted
                  \/ display = 3 /\ ended
    IN IF privileged THEN (IF admin = 1 THEN "full" ELSE "aggregate")
       ELSE IF member = 0 \/ ~timely THEN "none"
       ELSE IF member = 2 THEN "full" ELSE "aggregate"

\* The posts a SELECT in the reader's community returns.
RowsFor(q) ==
    [p \in Requests |->
        IF query[q].op # "list" /\ p # query[q].post THEN Null
        ELSE RowInScope([query[q] EXCEPT !.post = p])]

Shown(rows) == {p \in Requests : rows[p] # Null}
Polls(rows) == {p \in Shown(rows) : IsPoll(rows[p].type)}

\* Mutant: a vote on a poll that has ended is not reported.
OpenRows(q) == {x \in votes : /\ x.post \in Polls(found[q].rows)
                              /\ x.voter = query[q].user
                              /\ ~PollEnded(found[q].rows[x.post], now)}

\* get_voter_votes of one post, get_voted_post_ids of a page.
OwnRows(q) == {x \in votes : /\ x.post \in Polls(found[q].rows)
                             /\ x.voter = query[q].user}

\* get_votes_for_post
AllRows(q) == {x \in votes : x.post = query[q].post}

\* An anonymous caller, or one who is shown no poll, has no votes to read.
NeedsVotes(q, rows) ==
    query[q].op = "results" \/ (query[q].user # Null /\ Polls(rows) # {})

\* _poll_ended of each post.
EndedAmong(rows) == {p \in Shown(rows) : PollEnded(rows[p], now)}

----------------------------------------------------------------------------
(* The handlers *)

ReadersGoto(q, label) == rpc' = [rpc EXCEPT ![q] = label]

Answer(q, answer) ==
    /\ ReadersGoto(q, "done")
    /\ view' = [view EXCEPT ![q] = answer]
    /\ found' = [found EXCEPT ![q] = Unread]
    /\ span' = [span EXCEPT ![q].last = applied]
    /\ UNCHANGED query

AnswerError(q, status) == Answer(q, [NoView EXCEPT !.status = status])

StartRead(q) ==
    /\ rpc[q] = "idle"
    /\ \E k \in QueryMenu[q] : query' = [query EXCEPT ![q] = k]
    /\ ReadersGoto(q, "post")
    /\ span' = [span EXCEPT ![q].first = applied]
    /\ UNCHANGED <<found, view>>

\* A list may be empty; a post that is not there is an error.
ReadPost(q) ==
    /\ rpc[q] = "post"
    /\ IF query[q].op # "list" /\ Shown(RowsFor(q)) = {}
       THEN AnswerError(q, "missing")
       ELSE /\ found' = [found EXCEPT ![q].rows = RowsFor(q)]
            /\ ReadersGoto(q, "options")
            /\ UNCHANGED <<query, view, span>>

\* The answer of get_post and list_posts, with the votes of the caller.
OwnView(q, rows, opts, own) ==
    [status |-> "ok", level |-> "none", rows |-> rows, options |-> opts,
     votes |-> own, ended |-> EndedAmong(rows)]

\* selectinload; get_results goes on at once to compare the deadline.
ReadOptions(q) ==
    LET rows == found[q].rows
        opts == {o \in options : o.post \in Shown(rows)}
    IN /\ rpc[q] = "options"
       /\ IF query[q].op = "results" /\ Polls(rows) = {}
          THEN AnswerError(q, "not_poll")
          ELSE IF NeedsVotes(q, rows)
          THEN /\ found' = [found EXCEPT ![q].options = opts,
                               ![q].ended = EndedAmong(rows) # {}]
               /\ ReadersGoto(q, "votes")
               /\ UNCHANGED <<query, view, span>>
          ELSE Answer(q, OwnView(q, rows, opts, {}))

ReadOwnVotes(q) ==
    /\ rpc[q] = "votes" /\ query[q].op # "results"
    /\ Answer(q, OwnView(q, found[q].rows, found[q].options, OwnRows(q)))

\* Without entitlement the answer holds no option and no vote.
ReadAllVotes(q) ==
    LET p == query[q].post
        hasVoted == query[q].user # Null
                    /\ \E x \in AllRows(q) : x.voter = query[q].user
        level == Visibility(found[q].rows[p], Privileged(q), hasVoted,
                            found[q].ended)
        visible == level # "none"
    IN /\ rpc[q] = "votes" /\ query[q].op = "results"
       /\ Answer(q, [status |-> "ok", level |-> level, rows |-> found[q].rows,
                     options |-> IF visible THEN found[q].options ELSE {},
                     votes |-> IF visible THEN AllRows(q) ELSE {},
                     ended |-> IF found[q].ended THEN {p} ELSE {}])

\* A statement fails, or the handler is cancelled.
FailRead(q) ==
    /\ rpc[q] \in {"post", "options", "votes"}
    /\ AnswerError(q, "failed")

----------------------------------------------------------------------------
(* Entitlement, as README.md ("Poll-visibility matrix") and const.py state  *)
(* it: what the poll lets this caller know at this moment.                  *)

Entitled(q, level) ==
    LET row == RowInScope(query[q])
        hasVoted == \E x \in votes : /\ x.post = query[q].post
                                     /\ x.voter = query[q].user
    IN /\ row # Null
       /\ IF query[q].role \in {"MANAGER", "ADMIN"}
          THEN level = "full" <=> row.cols["admin"] = 1
          ELSE /\ row.cols["member"] \in Nat \ {0}
               /\ level = "full" <=> row.cols["member"] = 2
               /\ \/ row.cols["display"] = 1
                  \/ row.cols["display"] = 2 /\ hasVoted
                  \/ row.cols["display"] = 3 /\ PollEnded(row, now)

Reading == {"post", "options", "votes"}

\* Only a request for results accumulates what it may know.
Watch ==
    due' = [q \in Readers |->
        IF rpc'[q] \in Reading /\ query'[q].op = "results"
            THEN due[q] \cup {level \in Levels : Entitled(q, level)'}
            ELSE due[q]]

----------------------------------------------------------------------------
ResultsInit ==
    /\ Init
    /\ rpc = [q \in Readers |-> "idle"]
    /\ query = [q \in Readers |-> Null]
    /\ found = [q \in Readers |-> Unread]
    /\ view = [q \in Readers |-> NoView]
    /\ span = [q \in Readers |-> [first |-> {}, last |-> {}]]
    /\ due = [q \in Readers |-> {}]

ReadStep(q) ==
    \/ StartRead(q) \/ ReadPost(q) \/ ReadOptions(q)
    \/ ReadOwnVotes(q) \/ ReadAllVotes(q) \/ FailRead(q)

ResultsNext ==
    /\ \/ Next /\ UNCHANGED readers
       \/ (\E q \in Readers : ReadStep(q)) /\ UNCHANGED vars
    /\ Watch

ResultsSpec == ResultsInit /\ [][ResultsNext]_resultVars

----------------------------------------------------------------------------
(* Properties *)

Answered200(q) == rpc[q] = "done" /\ view[q].status = "ok"

\* The requests that were committed while reader q was at work.
During(q) == span[q].last \ span[q].first

\* A manager edited the settings of poll p, or deleted it.
Resettles(u, p) ==
    /\ call[u].post = p
    /\ \/ call[u].op = "delete"
       \/ call[u].op = "update"
          /\ \E col \in Columns \ {"text"} : call[u].set[col] # Null

\* "Results are withheld entirely when the requester isn't entitled": whoever
\* is shown results was entitled to that level at some moment of the request,
\* unless a manager changed the poll's settings under it (get_results checks the
\* settings it read first against votes and a deadline it looks at later).
WithheldUnlessEntitled ==
    \A q \in Readers :
        Answered200(q) /\ view[q].level # "none" =>
            \/ view[q].level \in due[q]
            \/ \E u \in During(q) : Resettles(u, query[q].post)

\* The totals add up: every vote an answer counts, or reports as the caller's
\* own, is for an option it shows, though options and votes come from two
\* snapshots; only a replacement committed between them breaks that.
VotesFitOptions ==
    \A q \in Readers : \A x \in view[q].votes :
        \/ x.option \in view[q].options
        \/ \E u \in During(q) : /\ call[u].op = "update" /\ call[u].post = x.post
                                /\ call[u].options # Null

\* A member who has voted sees it: a ballot committed before the read began is
\* in the answer, unless something committed by then may have undone it.
OwnVoteShown ==
    \A q \in Readers : \A r \in span[q].first :
        /\ Answered200(q) /\ (query[q].op = "results" => view[q].level # "none")
        /\ call[r].op = "cast" /\ call[r].user = query[q].user
        /\ view[q].rows[call[r].post] # Null
        => \/ Ballot(r) \subseteq view[q].votes
           \/ \E s \in span[q].last : Supersedes(s, r)

\* A vote cast or withdrawn by a request that may have found poll p open with
\* the deadline of this row.
BeganInTime(s, p, row) ==
    /\ call[s].op \in {"cast", "retract"} /\ call[s].post = p
    /\ ~PollEnded(row, since[s]) \/ DeadlineMovedDuring(s, p)

\* Request s may have changed the votes that q counted on its poll, by x: a voter
\* who began before the deadline, a deletion, or an edit that moved the deadline
\* or brought new options.
MayUnsettle(s, q, x) ==
    LET p == query[q].post
    IN \/ BeganInTime(s, p, view[q].rows[p]) /\ call[s].user = x.voter
       \/ call[s].op = "delete" /\ call[s].post = p
       \/ /\ call[s].op = "update" /\ call[s].post = p
          /\ \/ call[s].set["expires"] # Null
             \/ call[s].options # Null /\ Overlap(s, x.by)

\* Final results are final: the votes counted in an answer that says the poll
\* has ended are the votes of the poll from then on, except for requests that
\* began before the deadline, a deadline that is moved again, and a poll that a
\* manager deletes or whose options a manager replaces.
FinalResultsStand ==
    \A q \in Readers :
        LET p == query[q].post
            current == {x \in votes : x.post = p}
            settled == view[q].votes
        IN Answered200(q) /\ view[q].level # "none" /\ p \in view[q].ended =>
            \A x \in (settled \ current) \cup (current \ settled) :
                \E s \in applied \ span[q].first : MayUnsettle(s, q, x)

----------------------------------------------------------------------------
(* What the repository says, and the code does not keep *)

\* "Results are withheld entirely when the requester isn't entitled."
\* (README.md, Poll-visibility matrix).
AlwaysWithheld ==
    \A q \in Readers :
        Answered200(q) /\ view[q].level # "none" => view[q].level \in due[q]
=============================================================================
