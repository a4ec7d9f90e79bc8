------------------------ MODULE NewsResultsInvariant ------------------------
(***************************************************************************)
(* The inductive invariant of NewsResults: how what a reader holds relates *)
(* to the tables it has looked away from.  It is inductive together with   *)
(* IInv, the invariant of the writers.                                     *)
(***************************************************************************)
EXTENDS NewsResults, NewsBoardInvariant

Rows == [Requests -> PostRows \cup {Null}]

ReadersOK ==
    /\ rpc \in [Readers -> Reading \cup {"idle", "done"}]
    /\ query \in [Readers -> Queries \cup {Null}]
    /\ found \in [Readers -> [rows : Rows, options : SUBSET OptionRows,
                              ended : BOOLEAN]]
    /\ view \in [Readers ->
          [status : {"none", "ok", "missing", "not_poll", "failed"},
           level : Levels \cup {"none"}, rows : Rows,
           options : SUBSET OptionRows, votes : SUBSET VoteRows,
           ended : SUBSET Requests]]
    /\ span \in [Readers -> [first : SUBSET Requests, last : SUBSET Requests]]
    /\ due \in [Readers -> SUBSET Levels]
    /\ \A q \in Readers :
          /\ rpc[q] # "idle" => query[q] \in Queries
          /\ rpc[q] # "done" => view[q] = NoView
          /\ span[q].first \subseteq applied /\ span[q].last \subseteq applied

Holding(q) == rpc[q] \in {"options", "votes"}

\* A row that was read is of a post that was created, and whose type is the
\* one it was created with; one post is read, unless the query is for a list.
RowsAsRead ==
    \A q \in Readers : Holding(q) =>
        /\ \A p \in Requests : found[q].rows[p] # Null =>
              /\ p \in applied /\ call[p].op = "create"
              /\ found[q].rows[p].type = call[p].type
        /\ query[q].op # "list" =>
              \A p \in Requests : found[q].rows[p] # Null <=> p = query[q].post
        /\ rpc[q] = "votes" /\ query[q].op = "results" =>
              IsPoll(found[q].rows[query[q].post].type)

\* Until a manager resettles the poll, its settings are those the reader holds.
SettingsAsRead ==
    \A q \in Readers : Holding(q) /\ query[q].op = "results" =>
        LET p == query[q].post
            row == found[q].rows[p]
        IN \/ \E u \in applied \ span[q].first : Resettles(u, p)
           \/ /\ RowInScope(query[q]) # Null
              /\ \A col \in Columns \ {"text"} : posts[p].cols[col] = row.cols[col]

\* A deadline that was found passed has passed.
EndedAsRead ==
    \A q \in Readers :
        rpc[q] = "votes" /\ query[q].op = "results" /\ found[q].ended =>
            PollEnded(found[q].rows[query[q].post], now)

\* Until an update brings new options, those of a poll are the ones that were read.
OptionsAsRead ==
    \A q \in Readers : rpc[q] = "votes" =>
        \A o \in options : found[q].rows[o.post] # Null =>
            \/ o \in found[q].options
            \/ \E u \in applied \ span[q].first :
                  /\ call[u].op = "update" /\ call[u].post = o.post
                  /\ call[u].options # Null

\* What the reader may know now is among what it was due.
Watched ==
    \A q \in Readers : rpc[q] \in Reading /\ query[q].op = "results" =>
        {level \in Levels : Entitled(q, level)} \subseteq due[q]

RInv ==
    /\ ReadersOK /\ RowsAsRead /\ SettingsAsRead /\ EndedAsRead /\ OptionsAsRead
    /\ Watched
    /\ WithheldUnlessEntitled /\ VotesFitOptions /\ OwnVoteShown

----------------------------------------------------------------------------
(* Why final results stand *)

\* Reader q is going to show results, or has shown them.
ShowsResults(q) ==
    \/ Holding(q) /\ query[q].op = "results"
    \/ Answered200(q) /\ view[q].level # "none"

\* The row of its poll, as it read it.
RowRead(q) == IF Holding(q) THEN found[q].rows[query[q].post]
              ELSE view[q].rows[query[q].post]

\* A request that q did not see committed has moved the deadline.
DeadlineMovedSince(q) ==
    \E s \in applied \ span[q].first :
        /\ call[s].op = "update" /\ call[s].post = query[q].post
        /\ call[s].set["expires"] # Null

\* The deadline is the one that was read.
DeadlineAsRead(q) ==
    LET p == query[q].post
    IN posts[p] # Null =>
          \/ posts[p].cols["expires"] = RowRead(q).cols["expires"]
          \/ DeadlineMovedSince(q)

\* Whoever is about to change the votes began before the deadline that was read.
VotersInTime(q) ==
    \A s \in Requests : Voting(s) /\ call[s].post = query[q].post =>
        \/ BeganInTime(s, query[q].post, RowRead(q))
        \/ DeadlineMovedSince(q)

\* What is shown is of one poll: the votes are votes that were stored on it.
ShownOfPoll(q) ==
    Answered200(q) /\ view[q].level # "none" =>
        /\ query[q].op = "results" /\ query[q].post \in applied
        /\ view[q].rows[query[q].post] # Null
        /\ \A x \in view[q].votes : x.post = query[q].post /\ x.by \in applied

\* The votes that were counted still stand, but for those who may undo them.
VotesStand(q) ==
    Answered200(q) /\ view[q].level # "none" =>
        \A x \in view[q].votes \cup VotesOn(query[q].post) :
            \/ x \in view[q].votes /\ x \in votes
            \/ \E s \in applied \ span[q].first : MayUnsettle(s, q, x)

FInv ==
    \A q \in Readers :
        /\ ShowsResults(q) => DeadlineAsRead(q) /\ VotersInTime(q)
        /\ ShownOfPoll(q) /\ VotesStand(q)
=============================================================================
