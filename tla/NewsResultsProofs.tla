------------------------- MODULE NewsResultsProofs -------------------------
(***************************************************************************)
(* Proofs about NewsResults, for any number of writers and readers.  The   *)
(* readers change nothing of the board, so everything proved of NewsBoard  *)
(* holds beside them; RInv (NewsResultsInvariant) says how what a reader   *)
(* holds may have gone stale, and the properties of its answers follow.    *)
(***************************************************************************)
EXTENDS NewsResultsInvariant, NewsBoardProofs

USE NullAssumption, BoundsAssumption, ReadersAssumption

----------------------------------------------------------------------------
(* Readers are observers *)

\* The board beside its readers is the board: they write nothing.
THEOREM ReadersObserve ==
    ResultsSpec => Spec
<1>1. ResultsInit => Init
  BY DEF ResultsInit
<1>2. [ResultsNext]_resultVars => [Next]_vars
  BY DEF ResultsNext, resultVars
<1>. QED
  BY <1>1, <1>2, PTL DEF ResultsSpec, Spec

----------------------------------------------------------------------------
(* What a step of the board may do to what a reader has read *)

\* The settings of p are as they were.
SameSettings(p) ==
    /\ posts'[p] # Null
    /\ posts'[p].community = posts[p].community
    /\ posts'[p].type = posts[p].type
    /\ \A col \in Columns \ {"text"} : posts'[p].cols[col] = posts[p].cols[col]

\* An update that writes other columns than the text was asked to.
LEMMA UpdateResettles ==
    ASSUME IInv, NEW r \in Requests, CommitUpdate(r), NEW p \in Requests,
           posts[p] # Null, ~SameSettings(p)
    PROVE  Resettles(r, p)' /\ r \in applied' \ applied
<1>. USE DEF IInv
<1>1. call[r] \in Calls /\ call' = call /\ r \in applied' \ applied
  BY DEF CommitUpdate, Commit, Control, Committed
<1>2. p = call[r].post /\ Dirty(r) # {}
  BY UpdateKeepsPosts DEF SameSettings
<1>3. posts'[p] = Merged(r)
  BY <1>2 DEF CommitUpdate, TypeOK
<1>4. Merged(r).community = posts[p].community /\ Merged(r).type = posts[p].type
  BY <1>2 DEF Merged, TypeOK, PostRows
<1>5. Merged(r) # Null
  BY <1>2, MergedIsARow
<1>6. PICK col \in Columns \ {"text"} : Merged(r).cols[col] # posts[p].cols[col]
  BY <1>3, <1>4, <1>5 DEF SameSettings
<1>7. col \in Dirty(r)
  BY <1>2, <1>6, MergedIsARow
<1>8. call[r].set[col] # Null
  BY <1>7 DEF Dirty, Assigned
<1>9. call[r].op = "update"
  BY DEF CommitUpdate
<1>. QED
  BY <1>1, <1>2, <1>8, <1>9 DEF Resettles

\* A request that has been committed keeps its call and its history.
LEMMA CommittedStay ==
    ASSUME IInv, NEW r \in Requests, Moves(r)
    PROVE  /\ applied \subseteq applied'
           /\ \A u \in applied : call'[u] = call[u] /\ before'[u] = before[u]
           /\ now' = now
<1>. USE DEF IInv, TypeOK, Control
<1>1. CASE Start(r)
  BY <1>1 DEF Start, Committed
<1>2. CASE Quiet
  BY <1>2 DEF Quiet, Moves, Ends, Reject, Read, ValidateCreate, FlushColumns,
              CountVotes, ReplaceOptions, RemovePost, ReadExisting, Unvote, Vote,
              Audit, Notify, NoWrite, UnchangedButCrm, Start, CommitCreate,
              CommitUpdate, CommitDelete, CommitVotes, Commit
<1>3. CASE CommitCreate(r) \/ CommitUpdate(r) \/ CommitDelete(r) \/ CommitVotes(r)
  BY <1>3 DEF CommitCreate, CommitUpdate, CommitDelete, CommitVotes, Commit
<1>. QED
  BY <1>1, <1>2, <1>3, CommitCases

\* A post that exists keeps its settings, or a manager has just resettled it.
LEMMA PostsStay ==
    ASSUME IInv, NEW r \in Requests, Moves(r), NEW p \in Requests, posts[p] # Null
    PROVE  SameSettings(p) \/ \E u \in applied' \ applied : Resettles(u, p)'
<1>. USE DEF IInv
<1>1. CASE CommitCreate(r)
  <2>1. p # r
    BY <1>1 DEF CommitCreate, Provenance, Control, Committed
  <2>. QED
    BY <1>1, <2>1 DEF CommitCreate, TypeOK, SameSettings
<1>2. CASE CommitUpdate(r)
  BY <1>2, UpdateResettles DEF SameSettings
<1>3. CASE CommitDelete(r)
  <2>1. r \in applied' \ applied /\ call' = call /\ call[r].op = "delete"
    BY <1>3 DEF CommitDelete, Commit, Control, Committed
  <2>2. CASE p = call[r].post
    BY <2>1, <2>2 DEF Resettles
  <2>3. CASE p # call[r].post
    BY <1>3, <2>3 DEF CommitDelete, TypeOK, SameSettings
  <2>. QED
    BY <2>2, <2>3
<1>4. CASE posts' = posts
  BY <1>4 DEF SameSettings
<1>. QED
  BY <1>1, <1>2, <1>3, <1>4, CommitCases DEF Quiet, Start, CommitVotes

\* Options appear with their post, or by an update that carries options.
LEMMA OptionsAppear ==
    ASSUME IInv, NEW r \in Requests, Moves(r), NEW o \in options', o \notin options
    PROVE  \/ o.post \notin applied
           \/ \E u \in applied' \ applied :
                 /\ call'[u].op = "update" /\ call'[u].post = o.post
                 /\ call'[u].options # Null
<1>. USE DEF IInv
<1>1. CASE CommitCreate(r)
  <2>1. o.post = r
    BY <1>1 DEF CommitCreate, CreatedOptions, NewOptions
  <2>2. r \notin applied
    BY <1>1 DEF CommitCreate, Control, Committed
  <2>. QED
    BY <2>1, <2>2
<1>2. CASE CommitUpdate(r)
  <2>1. o \in Added(r)
    BY <1>2 DEF CommitUpdate
  <2>2. Replaces(r) /\ o.post = call[r].post
    BY <2>1 DEF Added, NewOptions
  <2>3. r \in applied' \ applied /\ call' = call
    BY <1>2 DEF CommitUpdate, Commit, Control, Committed
  <2>. QED
    BY <2>2, <2>3 DEF Replaces
<1>3. CASE CommitDelete(r)
  BY <1>3 DEF CommitDelete
<1>4. CASE options' = options
  BY <1>4
<1>. QED
  BY <1>1, <1>2, <1>3, <1>4, CommitCases DEF Quiet, Start, CommitVotes

----------------------------------------------------------------------------
(* A step of the board keeps RInv *)

\* What the lemmas above say of any step of the board: a move, or the clock.
BoardStep ==
    /\ applied \subseteq applied' /\ now' >= now
    /\ \A u \in applied : call'[u] = call[u] /\ before'[u] = before[u]
    /\ \A p \in Requests : posts[p] # Null =>
          SameSettings(p) \/ \E u \in applied' \ applied : Resettles(u, p)'
    /\ \A o \in options' \ options :
          \/ o.post \notin applied
          \/ \E u \in applied' \ applied :
                /\ call'[u].op = "update" /\ call'[u].post = o.post
                /\ call'[u].options # Null

LEMMA NextIsABoardStep ==
    ASSUME IInv, [Next]_vars
    PROVE  BoardStep
<1>1. ASSUME NEW r \in Requests, Start(r) \/ Step(r) \/ Fail(r) PROVE BoardStep
  <2>1. Moves(r)
    BY <1>1, StepCases DEF IInv
  <2>2. now \in Nat
    BY DEF IInv, TypeOK
  <2>. QED
    BY <2>1, <2>2, CommittedStay, PostsStay, OptionsAppear DEF BoardStep
<1>2. CASE Tick \/ UNCHANGED vars
  <2>1. UNCHANGED <<posts, options, call, before, applied>> /\ now' >= now
    BY <1>2 DEF Tick, vars, IInv, TypeOK
  <2>. QED
    BY <2>1 DEF BoardStep, SameSettings
<1>. QED
  BY <1>1, <1>2 DEF Next, Terminated

LEMMA BoardKeepsReadersOK ==
    ASSUME ReadersOK, BoardStep, UNCHANGED readers, Watch
    PROVE  ReadersOK'
<1>1. due' \in [Readers -> SUBSET Levels]
  BY DEF ReadersOK, Watch
<1>2. NoView' = NoView
  BY DEF NoView, Nothing
<1>. QED
  BY <1>1, <1>2 DEF ReadersOK, BoardStep, readers

LEMMA BoardKeepsRows ==
    ASSUME ReadersOK, RowsAsRead, BoardStep, UNCHANGED readers
    PROVE  RowsAsRead'
BY DEF ReadersOK, RowsAsRead, BoardStep, readers, Shown, Holding

\* The exception of a property, once it has occurred, stays.
LEMMA ResettlesStays ==
    ASSUME BoardStep, NEW u \in applied, NEW p, Resettles(u, p)
    PROVE  Resettles(u, p)'
BY DEF BoardStep, Resettles

LEMMA BoardKeepsSettings ==
    ASSUME IInv, ReadersOK, SettingsAsRead, BoardStep, UNCHANGED readers
    PROVE  SettingsAsRead'
<1>. SUFFICES ASSUME NEW q \in Readers, (Holding(q) /\ query[q].op = "results")'
     PROVE (LET p == query[q].post
                row == found[q].rows[p]
            IN \/ \E u \in applied \ span[q].first : Resettles(u, p)
               \/ /\ RowInScope(query[q]) # Null
                  /\ \A col \in Columns \ {"text"} :
                        posts[p].cols[col] = row.cols[col])'
  BY DEF SettingsAsRead
<1>1. Holding(q) /\ query[q].op = "results"
  BY DEF readers, Holding
<1>2. query[q].post \in Requests /\ span[q].first \subseteq applied
  BY <1>1 DEF ReadersOK, Holding, Queries
<1>3. PICK p \in Requests : p = query[q].post
  BY <1>2
<1>4. CASE \E u \in applied \ span[q].first : Resettles(u, p)
  <2>1. \E u \in applied' \ span[q].first : Resettles(u, p)'
    BY <1>4, ResettlesStays DEF BoardStep
  <2>. QED
    BY <1>3, <2>1 DEF readers
<1>5. CASE /\ RowInScope(query[q]) # Null
           /\ \A col \in Columns \ {"text"} :
                 posts[p].cols[col] = found[q].rows[p].cols[col]
  <2>1. posts[p] # Null /\ posts[p].community = query[q].community
    BY <1>3, <1>5 DEF RowInScope
  <2>2. CASE \E u \in applied' \ applied : Resettles(u, p)'
    BY <1>2, <1>3, <2>2 DEF readers
  <2>3. CASE SameSettings(p)
    BY <1>3, <1>5, <2>1, <2>3 DEF SameSettings, RowInScope, readers
  <2>. QED
    BY <2>1, <2>2, <2>3 DEF BoardStep
<1>. QED
  BY <1>1, <1>3, <1>4, <1>5 DEF SettingsAsRead

LEMMA BoardKeepsEnded ==
    ASSUME IInv, ReadersOK, RowsAsRead, EndedAsRead, BoardStep, UNCHANGED readers,
           now' \in Nat
    PROVE  EndedAsRead'
<1>. SUFFICES ASSUME NEW q \in Readers, rpc[q] = "votes", query[q].op = "results",
                     found[q].ended
     PROVE PollEnded(found[q].rows[query[q].post], now')
  BY DEF EndedAsRead, readers, PollEnded
<1>. DEFINE row == found[q].rows[query[q].post]
<1>1. row \in PostRows
  <2>1. query[q].post \in Requests /\ Holding(q)
    BY DEF ReadersOK, Holding, Queries
  <2>2. found[q].rows \in Rows
    BY DEF ReadersOK
  <2>3. found[q].rows[query[q].post] # Null
    BY <2>1 DEF RowsAsRead
  <2>. QED
    BY <2>1, <2>2, <2>3 DEF Rows
<1>2. PollEnded(row, now) /\ now \in Nat /\ now' >= now
  BY DEF EndedAsRead, BoardStep, IInv, TypeOK
<1>3. row.cols["expires"] \in Nat \cup {Null}
  BY <1>1 DEF PostRows, Columns
<1>. QED
  BY <1>2, <1>3 DEF PollEnded

LEMMA BoardKeepsOptions ==
    ASSUME IInv, ReadersOK, RowsAsRead, OptionsAsRead, BoardStep, UNCHANGED readers,
           options' \subseteq OptionRows
    PROVE  OptionsAsRead'
<1>. SUFFICES ASSUME NEW q \in Readers, rpc[q] = "votes", NEW o \in options',
                     found[q].rows[o.post] # Null, o \notin found[q].options
     PROVE \E u \in applied' \ span[q].first :
              /\ call'[u].op = "update" /\ call'[u].post = o.post
              /\ call'[u].options # Null
  BY DEF OptionsAsRead, readers
<1>1. span[q].first \subseteq applied /\ o.post \in applied
  BY DEF ReadersOK, RowsAsRead, Holding, Shown, OptionRows
<1>2. CASE o \in options
  BY <1>1, <1>2 DEF OptionsAsRead, BoardStep
<1>3. CASE o \notin options
  BY <1>1, <1>3 DEF BoardStep
<1>. QED
  BY <1>2, <1>3

LEMMA BoardKeepsWithheld ==
    ASSUME ReadersOK, WithheldUnlessEntitled, BoardStep, UNCHANGED readers, Watch
    PROVE  WithheldUnlessEntitled'
<1>. SUFFICES ASSUME NEW q \in Readers, (Answered200(q) /\ view[q].level # "none")'
     PROVE (\/ view[q].level \in due[q]
            \/ \E u \in During(q) : Resettles(u, query[q].post))'
  BY DEF WithheldUnlessEntitled
<1>1. Answered200(q) /\ view[q].level # "none"
  BY DEF readers, Answered200
<1>2. due'[q] = due[q] /\ During(q) \subseteq applied
  BY <1>1 DEF Watch, readers, Answered200, Reading, During, ReadersOK
<1>3. ASSUME NEW u \in During(q), Resettles(u, query[q].post)
      PROVE  Resettles(u, query[q].post)'
  BY <1>2, <1>3 DEF Resettles, BoardStep, readers
<1>. QED
  BY <1>1, <1>2, <1>3 DEF WithheldUnlessEntitled, readers, During

LEMMA BoardKeepsFit ==
    ASSUME ReadersOK, VotesFitOptions, BoardStep, UNCHANGED readers
    PROVE  VotesFitOptions'
<1>. SUFFICES ASSUME NEW q \in Readers, NEW x \in view[q].votes,
                     x.option \notin view[q].options
     PROVE \E u \in During(q) : /\ call'[u].op = "update" /\ call'[u].post = x.post
                                /\ call'[u].options # Null
  BY DEF VotesFitOptions, readers, During
<1>1. During(q) \subseteq applied
  BY DEF ReadersOK, During
<1>. QED
  BY <1>1 DEF VotesFitOptions, BoardStep

\* What may have undone a ballot stays what it was.
LEMMA SupersedesStays ==
    ASSUME BoardStep, NEW s \in applied, NEW r \in applied, Supersedes(s, r)
    PROVE  Supersedes(s, r)'
BY DEF BoardStep, Supersedes, Overlap

LEMMA BoardKeepsOwn ==
    ASSUME ReadersOK, OwnVoteShown, BoardStep, UNCHANGED readers
    PROVE  OwnVoteShown'
<1>. SUFFICES ASSUME NEW q \in Readers, NEW r \in span[q].first,
                     Answered200(q), query[q].op = "results" => view[q].level # "none",
                     call'[r].op = "cast", call'[r].user = query[q].user,
                     view[q].rows[call'[r].post] # Null
     PROVE \/ Ballot(r)' \subseteq view[q].votes
           \/ \E s \in span[q].last : Supersedes(s, r)'
  BY DEF OwnVoteShown, readers, Answered200
<1>1. r \in applied /\ span[q].last \subseteq applied
  BY DEF ReadersOK
<1>2. call'[r] = call[r]
  BY <1>1 DEF BoardStep
<1>3. Ballot(r)' = Ballot(r)
  BY <1>2 DEF Ballot
<1>. QED
  BY <1>1, <1>2, <1>3, SupersedesStays DEF OwnVoteShown

LEMMA BoardKeepsRInv ==
    ASSUME IInv, IInv', RInv, [Next]_vars, UNCHANGED readers, Watch
    PROVE  RInv'
<1>1. BoardStep
  BY NextIsABoardStep
<1>2. now' \in Nat /\ options' \subseteq OptionRows
  BY DEF IInv, TypeOK
<1>3. Watched'
  BY DEF RInv, ReadersOK, Watched, Watch, readers
<1>. QED
  BY <1>1, <1>2, <1>3, BoardKeepsReadersOK, BoardKeepsRows, BoardKeepsSettings,
     BoardKeepsEnded, BoardKeepsOptions, BoardKeepsWithheld, BoardKeepsFit,
     BoardKeepsOwn DEF RInv

----------------------------------------------------------------------------
(* A step of a reader keeps RInv *)

Errors(k) ==
    /\ rpc[k] \in Reading
    /\ \E status \in {"missing", "not_poll", "failed"} : AnswerError(k, status)

TakesRows(k) ==
    /\ rpc[k] = "post"
    /\ query[k].op # "list" => Shown(RowsFor(k)) # {}
    /\ found' = [found EXCEPT ![k].rows = RowsFor(k)]
    /\ ReadersGoto(k, "options")
    /\ UNCHANGED <<query, view, span>>

FreshOptions(k) == {o \in options : o.post \in Shown(found[k].rows)}

TakesOptions(k) ==
    /\ rpc[k] = "options"
    /\ query[k].op = "results" => Polls(found[k].rows) # {}
    /\ found' = [found EXCEPT ![k].options = FreshOptions(k),
                              ![k].ended = EndedAmong(found[k].rows) # {}]
    /\ ReadersGoto(k, "votes")
    /\ UNCHANGED <<query, view, span>>

AnswersBlank(k) ==
    /\ rpc[k] = "options" /\ query[k].op # "results"
    /\ ~NeedsVotes(k, found[k].rows)
    /\ Answer(k, OwnView(k, found[k].rows, FreshOptions(k), {}))

\* A reader starts, fails, reads on or answers.
LEMMA ReadCases ==
    ASSUME NEW k \in Readers, ReadStep(k)
    PROVE  \/ StartRead(k) \/ Errors(k) \/ TakesRows(k) \/ TakesOptions(k)
           \/ AnswersBlank(k) \/ ReadOwnVotes(k) \/ ReadAllVotes(k)
<1>1. ReadPost(k) => Errors(k) \/ TakesRows(k)
  BY DEF ReadPost, Errors, TakesRows, Reading
<1>2. ReadOptions(k) => Errors(k) \/ TakesOptions(k) \/ AnswersBlank(k)
  BY DEF ReadOptions, Errors, TakesOptions, AnswersBlank, FreshOptions, Reading,
         NeedsVotes
<1>3. FailRead(k) => Errors(k)
  BY DEF FailRead, Errors, Reading
<1>. QED
  BY <1>1, <1>2, <1>3 DEF ReadStep

\* A step of one reader leaves the others alone.
LEMMA OthersStay ==
    ASSUME ReadersOK, NEW k \in Readers, ReadStep(k), NEW q \in Readers, q # k
    PROVE  /\ rpc'[q] = rpc[q] /\ query'[q] = query[q] /\ found'[q] = found[q]
           /\ view'[q] = view[q] /\ span'[q] = span[q]
<1>. USE DEF ReadersOK, ReadersGoto
<1>1. ASSUME NEW answer, Answer(k, answer)
      PROVE  /\ rpc'[q] = rpc[q] /\ query'[q] = query[q] /\ found'[q] = found[q]
             /\ view'[q] = view[q] /\ span'[q] = span[q]
  BY <1>1 DEF Answer
<1>2. CASE StartRead(k)
  BY <1>2 DEF StartRead
<1>3. CASE TakesRows(k)
  BY <1>3 DEF TakesRows
<1>4. CASE TakesOptions(k)
  BY <1>4 DEF TakesOptions
<1>5. CASE Errors(k) \/ AnswersBlank(k) \/ ReadOwnVotes(k) \/ ReadAllVotes(k)
  BY <1>1, <1>5 DEF Errors, AnswerError, AnswersBlank, ReadOwnVotes, ReadAllVotes
<1>. QED
  BY <1>2, <1>3, <1>4, <1>5, ReadCases

\* The rows, options and votes that a reader can read are rows of the tables.
LEMMA ReadTypes ==
    ASSUME IInv, ReadersOK, NEW k \in Readers, rpc[k] # "idle"
    PROVE  /\ RowsFor(k) \in Rows
           /\ FreshOptions(k) \subseteq OptionRows
           /\ OwnRows(k) \subseteq VoteRows /\ AllRows(k) \subseteq VoteRows
           /\ EndedAmong(found[k].rows) \subseteq Requests
           /\ applied \subseteq Requests
<1>. USE DEF IInv, TypeOK
<1>1. \A p \in Requests : RowInScope([query[k] EXCEPT !.post = p]) \in PostRows \cup {Null}
  BY DEF RowInScope, ReadersOK, Queries
<1>2. RowsFor(k) \in Rows
  BY <1>1 DEF RowsFor, Rows
<1>. QED
  BY <1>2 DEF FreshOptions, OwnRows, AllRows, EndedAmong, Shown

\* Every answer is well formed.
LEMMA AnswerTypes ==
    ASSUME ReadersOK, NEW k \in Readers, NEW answer, Answer(k, answer),
           rpc[k] # "idle", applied \subseteq Requests,
           answer \in [status : {"none", "ok", "missing", "not_poll", "failed"},
                       level : Levels \cup {"none"}, rows : Rows,
                       options : SUBSET OptionRows, votes : SUBSET VoteRows,
                       ended : SUBSET Requests],
           UNCHANGED vars, Watch
    PROVE  ReadersOK'
<1>1. due' \in [Readers -> SUBSET Levels]
  BY DEF ReadersOK, Watch
<1>2. Unread \in [rows : Rows, options : SUBSET OptionRows, ended : BOOLEAN]
  BY DEF Unread, Rows, Nothing
<1>3. found' \in [Readers -> [rows : Rows, options : SUBSET OptionRows,
                              ended : BOOLEAN]]
  BY <1>2 DEF ReadersOK, Answer
<1>4. span' \in [Readers -> [first : SUBSET Requests, last : SUBSET Requests]]
      /\ \A q \in Readers : span'[q].first \subseteq applied
                            /\ span'[q].last \subseteq applied
  <2>1. span' = [span EXCEPT ![k] = [span[k] EXCEPT !.last = applied]]
    BY DEF Answer
  <2>2. [span[k] EXCEPT !.last = applied]
          \in [first : SUBSET Requests, last : SUBSET Requests]
        /\ [span[k] EXCEPT !.last = applied].last = applied
        /\ [span[k] EXCEPT !.last = applied].first = span[k].first
    BY DEF ReadersOK
  <2>. QED
    BY <2>1, <2>2 DEF ReadersOK
<1>5. rpc' \in [Readers -> Reading \cup {"idle", "done"}]
      /\ \A q \in Readers : rpc'[q] = IF q = k THEN "done" ELSE rpc[q]
  BY DEF ReadersOK, Answer, ReadersGoto
<1>6. view' = [view EXCEPT ![k] = answer] /\ query' = query /\ NoView' = NoView
      /\ applied' = applied
  BY DEF Answer, NoView, Nothing, vars
<1>. QED
  BY <1>1, <1>3, <1>4, <1>5, <1>6 DEF ReadersOK

LEMMA ReadKeepsReadersOK ==
    ASSUME IInv, ReadersOK, RowsAsRead, NEW k \in Readers, ReadStep(k),
           UNCHANGED vars, Watch
    PROVE  ReadersOK'
<1>. USE DEF Reading
<1>0. found[k] \in [rows : Rows, options : SUBSET OptionRows, ended : BOOLEAN]
  BY DEF ReadersOK
<1>1. due' \in [Readers -> SUBSET Levels] /\ NoView' = NoView /\ applied' = applied
  BY DEF ReadersOK, Watch, NoView, Nothing, vars
<1>2. Nothing \in Rows
  BY DEF Nothing, Rows
<1>3. CASE StartRead(k)
  <2>1. query'[k] \in Queries /\ query' \in [Readers -> Queries \cup {Null}]
    BY <1>3 DEF StartRead, ReadersOK
  <2>2. applied \subseteq Requests
    BY DEF IInv, TypeOK
  <2>. QED
    BY <1>1, <1>3, <2>1, <2>2 DEF StartRead, ReadersOK, ReadersGoto
<1>4. CASE Errors(k)
  BY <1>2, <1>4, AnswerTypes, ReadTypes DEF Errors, AnswerError, NoView
<1>5. CASE TakesRows(k)
  <2>1. found' = [found EXCEPT ![k] = [found[k] EXCEPT !.rows = RowsFor(k)]]
    BY <1>5 DEF TakesRows
  <2>2. RowsFor(k) \in Rows
    BY <1>5, ReadTypes DEF TakesRows
  <2>3. [found[k] EXCEPT !.rows = RowsFor(k)]
          \in [rows : Rows, options : SUBSET OptionRows, ended : BOOLEAN]
    BY <1>0, <2>2
  <2>4. found' \in [Readers -> [rows : Rows, options : SUBSET OptionRows,
                                ended : BOOLEAN]]
    BY <2>1, <2>3 DEF ReadersOK
  <2>. QED
    BY <1>1, <1>5, <2>4 DEF TakesRows, ReadersOK, ReadersGoto
<1>6. CASE TakesOptions(k)
  <2>. DEFINE ended == EndedAmong(found[k].rows) # {}
              new == [found[k] EXCEPT !.options = FreshOptions(k), !.ended = ended]
  <2>1. found' = [found EXCEPT ![k] = new]
    BY <1>6 DEF TakesOptions, ReadersOK
  <2>2. FreshOptions(k) \subseteq OptionRows
    BY <1>6, ReadTypes DEF TakesOptions
  <2>3. new \in [rows : Rows, options : SUBSET OptionRows, ended : BOOLEAN]
    BY <1>0, <2>2
  <2>. HIDE DEF new
  <2>4. found' \in [Readers -> [rows : Rows, options : SUBSET OptionRows,
                                ended : BOOLEAN]]
    BY <2>1, <2>3 DEF ReadersOK
  <2>. QED
    BY <1>1, <1>6, <2>4 DEF TakesOptions, ReadersOK, ReadersGoto
<1>7. CASE AnswersBlank(k)
  BY <1>7, AnswerTypes, ReadTypes DEF AnswersBlank, OwnView, ReadersOK
<1>8. CASE ReadOwnVotes(k)
  BY <1>8, AnswerTypes, ReadTypes DEF ReadOwnVotes, OwnView, ReadersOK
<1>9. CASE ReadAllVotes(k)
  <2>1. \A row, b1, b2, b3 : Visibility(row, b1, b2, b3) \in Levels \cup {"none"}
    BY DEF Visibility, Levels
  <2>2. query[k].post \in Requests /\ rpc[k] # "idle"
    BY <1>9 DEF ReadersOK, ReadAllVotes, Queries
  <2>. QED
    BY <1>9, <2>1, <2>2, AnswerTypes, ReadTypes DEF ReadAllVotes, ReadersOK
<1>. QED
  BY <1>3, <1>4, <1>5, <1>6, <1>7, <1>8, <1>9, ReadCases

\* After an answer the reader holds nothing.
LEMMA AnswersRelease ==
    ASSUME ReadersOK, NEW k \in Readers, NEW answer, Answer(k, answer)
    PROVE  rpc'[k] = "done" /\ view'[k] = answer /\ query'[k] = query[k]
           /\ span'[k].first = span[k].first /\ span'[k].last = applied
           /\ rpc'[k] \notin Reading /\ ~Holding(k)'
<1>1. span' = [span EXCEPT ![k] = [span[k] EXCEPT !.last = applied]]
  BY DEF Answer
<1>. QED
  BY <1>1 DEF Answer, ReadersGoto, ReadersOK, Holding, Reading

Answers(k) == Errors(k) \/ AnswersBlank(k) \/ ReadOwnVotes(k) \/ ReadAllVotes(k)

LEMMA AnswersAnswer ==
    ASSUME ReadersOK, NEW k \in Readers, Answers(k)
    PROVE  rpc'[k] = "done" /\ ~Holding(k)'
BY AnswersRelease DEF Answers, Errors, AnswerError, AnswersBlank, ReadOwnVotes,
   ReadAllVotes

\* What a reader holds after each of its other steps.
LEMMA ReaderHolds ==
    ASSUME ReadersOK, NEW k \in Readers
    PROVE  /\ StartRead(k) => ~Holding(k)'
           /\ TakesRows(k) => /\ rpc'[k] = "options" /\ query' = query
                              /\ span' = span /\ found'[k].rows = RowsFor(k)
           /\ TakesOptions(k) =>
                 /\ rpc'[k] = "votes" /\ query' = query /\ span' = span
                 /\ found'[k].rows = found[k].rows
                 /\ found'[k].options = FreshOptions(k)
                 /\ found'[k].ended = (EndedAmong(found[k].rows) # {})
BY DEF ReadersOK, StartRead, TakesRows, TakesOptions, ReadersGoto, Holding

\* The rows a reader takes are those of the posts in its community.
LEMMA RowsTaken ==
    ASSUME IInv, ReadersOK, NEW k \in Readers, rpc[k] # "idle",
           NEW p \in Requests, RowsFor(k)[p] # Null
    PROVE  RowsFor(k)[p] = posts[p] /\ posts[p].community = query[k].community
           /\ p \in applied /\ call[p].op = "create" /\ posts[p].type = call[p].type
<1>. DEFINE scoped == [query[k] EXCEPT !.post = p]
<1>1. RowsFor(k)[p] = RowInScope(scoped)
  BY DEF RowsFor
<1>2. scoped.post = p /\ scoped.community = query[k].community
  BY DEF ReadersOK, Queries
<1>3. RowInScope(scoped) = posts[p] /\ posts[p] # Null
      /\ posts[p].community = query[k].community
  BY <1>1, <1>2 DEF RowInScope
<1>. QED
  BY <1>1, <1>3 DEF IInv, Provenance

LEMMA ReadKeepsRows ==
    ASSUME IInv, ReadersOK, RowsAsRead, NEW k \in Readers, ReadStep(k), UNCHANGED vars
    PROVE  RowsAsRead'
<1>. SUFFICES ASSUME NEW q \in Readers, Holding(q)'
     PROVE (/\ \A p \in Requests : found[q].rows[p] # Null =>
                  /\ p \in applied /\ call[p].op = "create"
                  /\ found[q].rows[p].type = call[p].type
            /\ query[q].op # "list" =>
                  \A p \in Requests : found[q].rows[p] # Null <=> p = query[q].post
            /\ rpc[q] = "votes" /\ query[q].op = "results" =>
                  IsPoll(found[q].rows[query[q].post].type))'
  BY DEF RowsAsRead
<1>1. CASE q # k
  <2>1. /\ found'[q] = found[q] /\ query'[q] = query[q] /\ rpc'[q] = rpc[q]
        /\ call' = call /\ applied' = applied
    BY <1>1, OthersStay DEF vars
  <2>2. Holding(q)
    BY <2>1 DEF Holding
  <2>. QED
    BY <2>1, <2>2 DEF RowsAsRead
<1>2. CASE q = k /\ TakesRows(k)
  <2>1. \A p \in Requests : p # query[k].post /\ query[k].op # "list" =>
            RowsFor(k)[p] = Null
    BY DEF RowsFor
  <2>2. query[k].op # "list" =>
            \A p \in Requests : RowsFor(k)[p] # Null <=> p = query[k].post
    BY <1>2, <2>1 DEF TakesRows, Shown
  <2>3. \A p \in Requests : RowsFor(k)[p] # Null =>
            /\ p \in applied /\ call[p].op = "create"
            /\ RowsFor(k)[p].type = call[p].type
    BY <1>2, RowsTaken DEF TakesRows
  <2>4. /\ found'[k].rows = RowsFor(k) /\ query'[k] = query[k]
        /\ rpc'[k] = "options" /\ call' = call /\ applied' = applied
    BY <1>2, ReaderHolds DEF vars
  <2>. QED
    BY <1>2, <2>2, <2>3, <2>4
<1>3. CASE q = k /\ TakesOptions(k)
  <2>1. Holding(k)
    BY <1>3 DEF TakesOptions, Holding
  <2>2. query[k].op = "results" => IsPoll(found[k].rows[query[k].post].type)
    BY <1>3, <2>1 DEF TakesOptions, RowsAsRead, Polls, Shown
  <2>3. /\ found'[k].rows = found[k].rows /\ query'[k] = query[k]
        /\ rpc'[k] = "votes" /\ call' = call /\ applied' = applied
    BY <1>3, ReaderHolds DEF vars
  <2>. QED
    BY <1>3, <2>1, <2>2, <2>3 DEF RowsAsRead
<1>. QED
  BY <1>1, <1>2, <1>3, ReadCases, ReaderHolds, AnswersAnswer DEF Answers

\* A step of another reader changes nothing that concerns q.
Aside(q) ==
    /\ rpc'[q] = rpc[q] /\ query'[q] = query[q] /\ found'[q] = found[q]
    /\ view'[q] = view[q] /\ span'[q] = span[q]

LEMMA ReadKeepsSettings ==
    ASSUME IInv, ReadersOK, RowsAsRead, SettingsAsRead, NEW k \in Readers,
           ReadStep(k), UNCHANGED vars
    PROVE  SettingsAsRead'
<1>. SUFFICES ASSUME NEW q \in Readers, (Holding(q) /\ query[q].op = "results")'
     PROVE (LET p == query[q].post
                row == found[q].rows[p]
            IN \/ \E u \in applied \ span[q].first : Resettles(u, p)
               \/ /\ RowInScope(query[q]) # Null
                  /\ \A col \in Columns \ {"text"} :
                        posts[p].cols[col] = row.cols[col])'
  BY DEF SettingsAsRead
<1>1. posts' = posts /\ call' = call /\ applied' = applied
  BY DEF vars
<1>2. CASE Holding(q) /\ UNCHANGED <<query[q], span[q], found[q].rows>>
  BY <1>1, <1>2 DEF SettingsAsRead, RowInScope, Resettles
<1>3. CASE q = k /\ TakesRows(k)
  <2>1. found'[k].rows = RowsFor(k) /\ query'[k] = query[k]
    BY <1>3, ReaderHolds
  <2>2. query[k].post \in Requests /\ query[k].op = "results" /\ rpc[k] # "idle"
    BY <1>3, <2>1 DEF ReadersOK, TakesRows, Queries
  <2>3. RowsFor(k)[query[k].post] # Null
    BY <1>3, <2>2 DEF TakesRows, Shown, RowsFor
  <2>4. RowsFor(k)[query[k].post] = posts[query[k].post]
        /\ posts[query[k].post].community = query[k].community
    BY <2>2, <2>3, RowsTaken
  <2>. QED
    BY <1>1, <1>3, <2>1, <2>3, <2>4 DEF RowInScope
<1>4. q # k => Aside(q)
  BY OthersStay DEF Aside
<1>5. q # k => Holding(q) /\ UNCHANGED <<query[q], span[q], found[q].rows>>
  BY <1>4 DEF Aside, Holding
<1>6. q = k /\ TakesOptions(k) =>
        Holding(q) /\ UNCHANGED <<query[q], span[q], found[q].rows>>
  BY ReaderHolds DEF TakesOptions, Holding
<1>. QED
  BY <1>2, <1>3, <1>5, <1>6, ReadCases, ReaderHolds, AnswersAnswer DEF Answers

LEMMA ReadKeepsEnded ==
    ASSUME IInv, ReadersOK, RowsAsRead, EndedAsRead, NEW k \in Readers,
           ReadStep(k), UNCHANGED vars
    PROVE  EndedAsRead'
<1>. SUFFICES ASSUME NEW q \in Readers,
                     (rpc[q] = "votes" /\ query[q].op = "results" /\ found[q].ended)'
     PROVE PollEnded(found[q].rows[query[q].post], now)'
  BY DEF EndedAsRead
<1>1. now' = now
  BY DEF vars
<1>2. CASE q # k
  <2>1. Aside(q)
    BY <1>2, OthersStay DEF Aside
  <2>. QED
    BY <1>1, <2>1 DEF Aside, EndedAsRead, PollEnded
<1>3. CASE q = k /\ TakesOptions(k)
  <2>1. Holding(k) /\ query[k].op = "results" /\ query'[k] = query[k]
    BY <1>3, ReaderHolds DEF TakesOptions, Holding
  <2>2. found'[k].rows = found[k].rows /\ EndedAmong(found[k].rows) # {}
    BY <1>3, ReaderHolds
  <2>3. PICK p \in Requests : /\ found[k].rows[p] # Null
                              /\ PollEnded(found[k].rows[p], now)
    BY <2>2 DEF EndedAmong, Shown
  <2>4. p = query[k].post
    BY <2>1, <2>3 DEF RowsAsRead
  <2>. QED
    BY <1>1, <1>3, <2>1, <2>2, <2>3, <2>4 DEF PollEnded
<1>4. q = k => TakesOptions(k)
  BY ReadCases, ReaderHolds, AnswersAnswer DEF Answers, Holding
<1>. QED
  BY <1>2, <1>3, <1>4

LEMMA ReadKeepsOptions ==
    ASSUME IInv, ReadersOK, RowsAsRead, OptionsAsRead, NEW k \in Readers,
           ReadStep(k), UNCHANGED vars
    PROVE  OptionsAsRead'
<1>. SUFFICES ASSUME NEW q \in Readers, rpc'[q] = "votes",
                     NEW o \in options, found'[q].rows[o.post] # Null
     PROVE \/ o \in found'[q].options
           \/ \E u \in applied \ span'[q].first :
                 /\ call[u].op = "update" /\ call[u].post = o.post
                 /\ call[u].options # Null
  BY DEF OptionsAsRead, vars
<1>1. CASE q # k
  <2>1. Aside(q)
    BY <1>1, OthersStay DEF Aside
  <2>. QED
    BY <2>1 DEF Aside, OptionsAsRead
<1>2. CASE q = k /\ TakesOptions(k)
  <2>1. o.post \in Requests
    BY DEF IInv, TypeOK, OptionRows
  <2>. QED
    BY <1>2, <2>1, ReaderHolds DEF FreshOptions, Shown
<1>3. q = k => TakesOptions(k)
  BY ReadCases, ReaderHolds, AnswersAnswer DEF Answers, Holding
<1>. QED
  BY <1>1, <1>2, <1>3

\* The code's matrix discloses what the documented one entitles to.
LEMMA MatrixEntitles ==
    ASSUME IInv, ReadersOK, NEW k \in Readers, rpc[k] # "idle",
           NEW row \in PostRows, RowInScope(query[k]) # Null,
           \A col \in Columns \ {"text"} : posts[query[k].post].cols[col] = row.cols[col],
           NEW hasVoted \in BOOLEAN, NEW ended \in BOOLEAN,
           hasVoted => \E x \in votes : /\ x.post = query[k].post
                                        /\ x.voter = query[k].user,
           ended => PollEnded(row, now),
           Visibility(row, Privileged(k), hasVoted, ended) # "none"
    PROVE  Entitled(k, Visibility(row, Privileged(k), hasVoted, ended))
<1>. DEFINE now_ == RowInScope(query[k])
            level == Visibility(row, Privileged(k), hasVoted, ended)
<1>1. now_ = posts[query[k].post]
  BY DEF RowInScope
<1>2. \A col \in Columns \ {"text"} :
         now_.cols[col] = row.cols[col] /\ row.cols[col] \in Nat \cup {Null}
  BY <1>1 DEF PostRows
<1>3. Privileged(k) <=> query[k].role \in {"MANAGER", "ADMIN"}
  BY DEF Privileged, Rank
<1>4. PollEnded(now_, now) <=> PollEnded(row, now)
  BY <1>2 DEF PollEnded, Columns
<1>5. CASE Privileged(k)
  BY <1>2, <1>3, <1>5 DEF Entitled, Visibility, OrElse, Columns
<1>6. CASE ~Privileged(k)
  BY <1>2, <1>3, <1>4, <1>6 DEF Entitled, Visibility, OrElse, Columns
<1>. QED
  BY <1>5, <1>6

LEMMA ReadKeepsWithheld ==
    ASSUME IInv, RInv, NEW k \in Readers, ReadStep(k), UNCHANGED vars, Watch
    PROVE  WithheldUnlessEntitled'
<1>. USE DEF RInv
<1>. SUFFICES ASSUME NEW q \in Readers, (Answered200(q) /\ view[q].level # "none")'
     PROVE (\/ view[q].level \in due[q]
            \/ \E u \in During(q) : Resettles(u, query[q].post))'
  BY DEF WithheldUnlessEntitled
<1>1. due'[q] = due[q]
  BY DEF Watch, Answered200, Reading
<1>2. call' = call /\ applied' = applied
  BY DEF vars
<1>3. CASE q # k
  <2>1. Aside(q)
    BY <1>3, OthersStay DEF Aside
  <2>. QED
    BY <1>1, <1>2, <2>1 DEF Aside, WithheldUnlessEntitled, Answered200, During, Resettles
<1>4. CASE q = k /\ ReadAllVotes(k)
  <2>. DEFINE p == query[k].post
              row == found[k].rows[p]
              hasVoted == query[k].user # Null
                            /\ \E x \in AllRows(k) : x.voter = query[k].user
              level == Visibility(row, Privileged(k), hasVoted, found[k].ended)
  <2>1. /\ view'[k].level = level /\ query'[k] = query[k]
        /\ span'[k].first = span[k].first /\ span'[k].last = applied
    BY <1>4, AnswersRelease DEF ReadAllVotes
  <2>2. rpc[k] = "votes" /\ query[k].op = "results" /\ Holding(k)
    BY <1>4 DEF ReadAllVotes, Holding
  <2>3. CASE \E u \in applied \ span[k].first : Resettles(u, p)
    BY <1>2, <1>4, <2>1, <2>3 DEF During, Resettles
  <2>4. CASE /\ RowInScope(query[k]) # Null
             /\ \A col \in Columns \ {"text"} : posts[p].cols[col] = row.cols[col]
    <3>1. p \in Requests /\ found[k].rows \in Rows /\ found[k].ended \in BOOLEAN
      BY <2>2 DEF ReadersOK, Queries
    <3>2. row \in PostRows
      BY <2>2, <3>1 DEF RowsAsRead, Rows
    <3>3. hasVoted => \E x \in votes : x.post = p /\ x.voter = query[k].user
      BY DEF AllRows
    <3>4. found[k].ended => PollEnded(row, now)
      BY <2>2 DEF EndedAsRead
    <3>5. hasVoted \in BOOLEAN /\ level # "none"
      BY <1>4, <2>1
    <3>6. Entitled(k, level)
      BY <2>2, <2>4, <3>1, <3>2, <3>3, <3>4, <3>5, MatrixEntitles
    <3>7. level \in Levels
      BY <3>5 DEF Visibility, Levels
    <3>. QED
      BY <1>1, <1>4, <2>1, <2>2, <3>6, <3>7 DEF Watched, Reading
  <2>. QED
    BY <2>2, <2>3, <2>4 DEF SettingsAsRead
<1>5. q = k => ReadAllVotes(k)
  <2>1. Errors(k) => view'[k].status # "ok"
    BY AnswersRelease DEF Errors, AnswerError, NoView
  <2>2. AnswersBlank(k) \/ ReadOwnVotes(k) => view'[k].level = "none"
    BY AnswersRelease DEF AnswersBlank, ReadOwnVotes, OwnView
  <2>3. StartRead(k) \/ TakesRows(k) \/ TakesOptions(k) => rpc'[k] # "done"
    BY DEF StartRead, TakesRows, TakesOptions, ReadersGoto, ReadersOK
  <2>. QED
    BY <2>1, <2>2, <2>3, ReadCases DEF Answered200
<1>. QED
  BY <1>3, <1>4, <1>5

\* The votes of an answer: none, the caller's own, or all of the poll.
LEMMA AnsweredVotes ==
    ASSUME ReadersOK, NEW k \in Readers, ReadStep(k), NEW x \in view'[k].votes
    PROVE  \/ rpc[k] # "votes" /\ view'[k] = view[k]
           \/ /\ rpc[k] = "votes" /\ view'[k].rows = found[k].rows
              /\ view'[k].options = found[k].options
              /\ span'[k].first = span[k].first /\ span'[k].last = applied
              /\ \/ query[k].op # "results" /\ x \in OwnRows(k)
                 \/ query[k].op = "results" /\ x \in AllRows(k)
<1>1. CASE StartRead(k) \/ TakesRows(k)
  BY <1>1 DEF StartRead, TakesRows
<1>2. CASE TakesOptions(k)
  BY <1>2 DEF TakesOptions
<1>3. CASE Errors(k) \/ AnswersBlank(k)
  BY <1>3, AnswersRelease DEF Errors, AnswerError, NoView, AnswersBlank, OwnView
<1>4. CASE ReadOwnVotes(k)
  BY <1>4, AnswersRelease DEF ReadOwnVotes, OwnView
<1>5. CASE ReadAllVotes(k)
  BY <1>5, AnswersRelease DEF ReadAllVotes
<1>. QED
  BY <1>1, <1>2, <1>3, <1>4, <1>5, ReadCases

LEMMA ReadKeepsFit ==
    ASSUME IInv, RInv, NEW k \in Readers, ReadStep(k), UNCHANGED vars
    PROVE  VotesFitOptions'
<1>. USE DEF RInv
<1>. SUFFICES ASSUME NEW q \in Readers, NEW x \in view'[q].votes
     PROVE \/ x.option \in view'[q].options
           \/ \E u \in During(q)' : /\ call[u].op = "update" /\ call[u].post = x.post
                                    /\ call[u].options # Null
  BY DEF VotesFitOptions, vars
<1>1. CASE q # k
  <2>1. Aside(q)
    BY <1>1, OthersStay DEF Aside
  <2>. QED
    BY <2>1 DEF Aside, VotesFitOptions, During
<1>2. CASE q = k /\ rpc[k] # "votes"
  <2>1. view'[k] = view[k]
    BY <1>2, AnsweredVotes
  <2>2. x \in {}  \/ rpc[k] = "done"
    BY <1>2, <2>1 DEF ReadersOK, NoView
  <2>3. rpc[k] # "done"
    BY ReadCases DEF StartRead, Errors, Reading, TakesRows, TakesOptions,
       AnswersBlank, ReadOwnVotes, ReadAllVotes
  <2>. QED
    BY <2>2, <2>3
<1>3. CASE q = k /\ rpc[k] = "votes"
  <2>1. /\ view'[k].options = found[k].options
        /\ During(k)' = applied \ span[k].first
        /\ \/ query[k].op # "results" /\ x \in OwnRows(k)
           \/ query[k].op = "results" /\ x \in AllRows(k)
    BY <1>3, AnsweredVotes DEF During
  <2>2. query[k].post \in Requests
    BY <1>3 DEF ReadersOK, Queries
  <2>3. x \in votes /\ found[k].rows[x.post] # Null
    BY <1>3, <2>1, <2>2 DEF OwnRows, AllRows, Polls, Shown, RowsAsRead, Holding
  <2>4. x.option \in options /\ x.option.post = x.post
    BY <2>3 DEF IInv, Integrity
  <2>. QED
    BY <1>3, <2>1, <2>3, <2>4 DEF OptionsAsRead
<1>. QED
  BY <1>1, <1>2, <1>3

\* An answer with status ok shows every vote of the caller's own.
LEMMA OwnRowsShown ==
    ASSUME IInv, RInv, NEW k \in Readers, ReadStep(k), Answered200(k)',
           query'[k].op = "results" => view'[k].level # "none",
           NEW x \in votes, x.voter = query'[k].user, view'[k].rows[x.post] # Null
    PROVE  x \in view'[k].votes
<1>. USE DEF RInv
<1>1. x.voter \in Users /\ x.post \in Requests
  BY DEF IInv, TypeOK, VoteRows
<1>2. IsPoll(call[x.post].type)
  BY <1>1 DEF IInv, Integrity, Provenance
<1>3. CASE AnswersBlank(k)
  <2>1. view'[k].rows = found[k].rows /\ query'[k] = query[k] /\ Holding(k)
    BY <1>3, AnswersRelease DEF AnswersBlank, OwnView, Holding
  <2>2. query[k].user # Null
    BY <1>1, <2>1
  <2>3. x.post \in Polls(found[k].rows)
    BY <1>1, <1>2, <2>1 DEF RowsAsRead, Polls, Shown
  <2>. QED
    BY <1>3, <2>2, <2>3 DEF AnswersBlank, NeedsVotes
<1>4. CASE ReadOwnVotes(k)
  <2>1. /\ view'[k].rows = found[k].rows /\ query'[k] = query[k] /\ Holding(k)
        /\ view'[k].votes = OwnRows(k)
    BY <1>4, AnswersRelease DEF ReadOwnVotes, OwnView, Holding
  <2>2. x.post \in Polls(found[k].rows)
    BY <1>1, <1>2, <2>1 DEF RowsAsRead, Polls, Shown
  <2>. QED
    BY <2>1, <2>2 DEF OwnRows
<1>5. CASE ReadAllVotes(k)
  <2>1. /\ view'[k].rows = found[k].rows /\ query'[k] = query[k] /\ Holding(k)
        /\ query[k].op = "results"
    BY <1>5, AnswersRelease DEF ReadAllVotes, Holding
  <2>2. view'[k].votes = AllRows(k)
    BY <1>5, <2>1, AnswersRelease DEF ReadAllVotes
  <2>3. x.post = query[k].post
    BY <1>1, <2>1 DEF RowsAsRead
  <2>. QED
    BY <2>2, <2>3 DEF AllRows
<1>6. ~Errors(k)
  BY AnswersRelease DEF Errors, AnswerError, NoView, Answered200
<1>7. ~StartRead(k) /\ ~TakesRows(k) /\ ~TakesOptions(k)
  BY DEF StartRead, TakesRows, TakesOptions, ReadersGoto, ReadersOK, Answered200
<1>. QED
  BY <1>3, <1>4, <1>5, <1>6, <1>7, ReadCases

LEMMA ReadKeepsOwn ==
    ASSUME IInv, RInv, NEW k \in Readers, ReadStep(k), UNCHANGED vars
    PROVE  OwnVoteShown'
<1>. USE DEF RInv
<1>. SUFFICES ASSUME NEW q \in Readers, NEW r \in span'[q].first,
                     Answered200(q)',
                     query'[q].op = "results" => view'[q].level # "none",
                     call[r].op = "cast", call[r].user = query'[q].user,
                     view'[q].rows[call[r].post] # Null
     PROVE \/ Ballot(r) \subseteq view'[q].votes
           \/ \E s \in span'[q].last : Supersedes(s, r)
  BY DEF OwnVoteShown, vars, Ballot, Supersedes, Overlap
<1>1. CASE q # k
  <2>1. Aside(q)
    BY <1>1, OthersStay DEF Aside
  <2>. QED
    BY <2>1 DEF Aside, OwnVoteShown, Answered200
<1>2. CASE q = k
  <2>1. span'[k].first = span[k].first /\ span'[k].last = applied
    <3>1. ~Errors(k)
      BY <1>2, AnswersRelease DEF Errors, AnswerError, NoView, Answered200
    <3>2. ~StartRead(k) /\ ~TakesRows(k) /\ ~TakesOptions(k)
      BY <1>2 DEF StartRead, TakesRows, TakesOptions, ReadersGoto, ReadersOK,
                  Answered200
    <3>3. CASE AnswersBlank(k)
      BY <3>3, AnswersRelease DEF AnswersBlank
    <3>4. CASE ReadOwnVotes(k)
      BY <3>4, AnswersRelease DEF ReadOwnVotes
    <3>5. CASE ReadAllVotes(k)
      BY <3>5, AnswersRelease DEF ReadAllVotes
    <3>. QED
      BY <3>1, <3>2, <3>3, <3>4, <3>5, ReadCases
  <2>2. r \in applied
    BY <1>2, <2>1 DEF ReadersOK
  <2>3. CASE Ballot(r) \subseteq votes
    <3>1. ASSUME NEW x \in Ballot(r) PROVE x \in view'[k].votes
      <4>1. x \in votes /\ x.post = call[r].post /\ x.voter = call[r].user
        BY <2>3 DEF Ballot
      <4>. QED
        BY <1>2, <4>1, OwnRowsShown
    <3>. QED
      BY <1>2, <3>1
  <2>4. CASE \E s \in applied : Supersedes(s, r)
    BY <1>2, <2>1, <2>4
  <2>. QED
    BY <2>2, <2>3, <2>4 DEF IInv, CastVoteIsKept
<1>. QED
  BY <1>1, <1>2

LEMMA ReadKeepsRInv ==
    ASSUME IInv, RInv, NEW k \in Readers, ReadStep(k), UNCHANGED vars, Watch
    PROVE  RInv'
<1>1. ReadersOK'
  BY ReadKeepsReadersOK DEF RInv
<1>2. Watched'
  BY <1>1 DEF Watched, Watch, ReadersOK
<1>. QED
  BY <1>1, <1>2, ReadKeepsRows, ReadKeepsSettings, ReadKeepsEnded, ReadKeepsOptions,
     ReadKeepsWithheld, ReadKeepsFit, ReadKeepsOwn DEF RInv

----------------------------------------------------------------------------
(* The theorems *)

LEMMA InitRInv ==
    ResultsInit => RInv
BY DEF ResultsInit, Init, RInv, ReadersOK, RowsAsRead, SettingsAsRead, EndedAsRead,
   OptionsAsRead, Watched, WithheldUnlessEntitled, VotesFitOptions, OwnVoteShown,
   Holding, Reading, Answered200, Unread, NoView, Nothing, Rows

\* IInv and RInv hold in every reachable state.
THEOREM ResultsInvariance ==
    ResultsSpec => [](IInv /\ RInv)
<1>1. ResultsInit => IInv /\ RInv
  BY InitIInv, InitRInv DEF ResultsInit
<1>2. IInv /\ RInv /\ [ResultsNext]_resultVars => (IInv /\ RInv)'
  <2>. SUFFICES ASSUME IInv, RInv, [ResultsNext]_resultVars PROVE IInv' /\ RInv'
    OBVIOUS
  <2>1. [Next]_vars
    BY DEF ResultsNext, resultVars
  <2>2. IInv'
    BY <2>1, InductiveStep
  <2>3. CASE UNCHANGED resultVars
    <3>1. UNCHANGED readers /\ UNCHANGED vars /\ due' = due
      BY <2>3 DEF resultVars
    <3>2. BoardStep
      BY <2>1, NextIsABoardStep
    <3>3. Watch
      BY <3>1 DEF Watch, RInv, ReadersOK, Watched, readers, vars, Entitled, RowInScope,
                  PollEnded
    <3>. QED
      BY <2>1, <2>2, <3>1, <3>3, BoardKeepsRInv
  <2>4. CASE ResultsNext
    BY <2>2, <2>4, BoardKeepsRInv, ReadKeepsRInv DEF ResultsNext
  <2>. QED
    BY <2>2, <2>3, <2>4
<1>. QED
  BY <1>1, <1>2, PTL DEF ResultsSpec

\* Results are shown only to those entitled to them at some moment of the
\* request, unless a manager resettled the poll meanwhile.
THEOREM WithheldUnlessEntitledHolds ==
    ResultsSpec => []WithheldUnlessEntitled
BY ResultsInvariance, PTL DEF RInv

\* The votes an answer counts are for options it shows, unless a replacement
\* was committed between its two reads.
THEOREM VotesFitOptionsHolds ==
    ResultsSpec => []VotesFitOptions
BY ResultsInvariance, PTL DEF RInv

\* A voter's committed ballot is in every later answer, until superseded.
THEOREM OwnVoteShownHolds ==
    ResultsSpec => []OwnVoteShown
BY ResultsInvariance, PTL DEF RInv
=============================================================================
