------------------------- MODULE NewsFinalityProofs -------------------------
(***************************************************************************)
(* Final results are final: the proof of FinalResultsStand of NewsResults, *)
(* for any number of writers and readers. FInv (NewsResultsInvariant) adds *)
(* to what a reader knows what the voters who have found its poll open     *)
(* know of the deadline that the reader has read.                          *)
(***************************************************************************)
EXTENDS NewsResultsProofs

----------------------------------------------------------------------------
(* What a move of a writer leaves as it was *)

\* A request that has begun keeps its call, and when and after whom it began.
LEMMA HistoryStays ==
    ASSUME IInv, NEW r \in Requests, Moves(r)
    PROVE  /\ applied \subseteq applied'
           /\ \A s \in Requests : pc[s] # "idle" =>
                 /\ pc'[s] # "idle" /\ call'[s] = call[s]
                 /\ before'[s] = before[s] /\ since'[s] = since[s]
<1>. USE DEF IInv, TypeOK, Goto, Finish
<1>1. CASE Start(r)
  BY <1>1 DEF Start
<1>2. CASE Ends(r)
  BY <1>2 DEF Ends, Reject, NoWrite
<1>3. CASE CommitCreate(r) \/ CommitUpdate(r) \/ CommitDelete(r) \/ CommitVotes(r)
  BY <1>3 DEF CommitCreate, CommitUpdate, CommitDelete, CommitVotes, Commit
<1>4. CASE Audit(r) \/ Notify(r)
  BY <1>4 DEF Audit, Notify, UnchangedButCrm
<1>5. CASE Read(r) \/ ValidateCreate(r) \/ FlushColumns(r) \/ CountVotes(r)
  <2>1. UNCHANGED <<call, before, since, applied>> /\ r \in Requests
    BY <1>5 DEF Read, ValidateCreate, FlushColumns, CountVotes, NoWrite
  <2>2. \E label \in InFlight : pc' = [pc EXCEPT ![r] = label]
    <3>1. CASE Read(r)
      <4>1. call[r].op \in {"update", "delete", "cast", "retract"}
        BY <3>1 DEF Read, Control, Calls, Ops
      <4>. QED
        BY <3>1, <4>1 DEF Read, InFlight
    <3>2. CASE FlushColumns(r)
      BY <3>2 DEF FlushColumns, InFlight
    <3>. QED
      BY <1>5, <3>1, <3>2 DEF ValidateCreate, CountVotes, InFlight
  <2>. QED
    BY <2>1, <2>2 DEF InFlight
<1>6. CASE ReplaceOptions(r) \/ RemovePost(r) \/ ReadExisting(r) \/ Unvote(r) \/ Vote(r)
  BY <1>6 DEF ReplaceOptions, RemovePost, ReadExisting, Unvote, Vote, NoWrite
<1>. QED
  BY <1>1, <1>2, <1>3, <1>4, <1>5, <1>6 DEF Moves

LEMMA AppliedHaveBegun ==
    ASSUME IInv
    PROVE  applied \subseteq Requests /\ \A s \in applied : pc[s] # "idle"
BY DEF IInv, TypeOK, Control, Committed

\* An excuse of a request that has begun is one for ever.
LEMMA BeganInTimeStays ==
    ASSUME IInv, NEW r \in Requests, Moves(r), NEW s \in Requests, pc[s] # "idle",
           NEW p, NEW row
    PROVE  /\ DeadlineMovedDuring(s, p) => DeadlineMovedDuring(s, p)'
           /\ BeganInTime(s, p, row) => BeganInTime(s, p, row)'
<1>1. DeadlineMovedDuring(s, p) => DeadlineMovedDuring(s, p)'
  BY HistoryStays, AppliedHaveBegun DEF DeadlineMovedDuring, Overlap
<1>. QED
  BY <1>1, HistoryStays DEF BeganInTime, PollEnded

\* A move that changes the deadline of a post is a commit of a new one.
LEMMA DeadlineMoves ==
    ASSUME IInv, NEW r \in Requests, Moves(r), NEW p \in Requests,
           posts[p] # Null, posts'[p] # Null,
           posts'[p].cols["expires"] # posts[p].cols["expires"]
    PROVE  /\ r \in applied' \ applied /\ call'[r].op = "update"
           /\ call'[r].post = p /\ call'[r].set["expires"] # Null
<1>. USE DEF IInv
<1>1. CASE CommitCreate(r)
  <2>1. p # r
    BY <1>1 DEF CommitCreate, Provenance, Control, Committed
  <2>. QED
    BY <1>1, <2>1 DEF CommitCreate, TypeOK
<1>2. CASE CommitUpdate(r)
  <2>1. p = call[r].post /\ Dirty(r) # {}
    BY <1>2, UpdateKeepsPosts
  <2>2. posts'[p] = Merged(r)
    BY <1>2, <2>1 DEF CommitUpdate, TypeOK
  <2>3. "expires" \in Dirty(r)
    BY <1>2, <2>1, <2>2, MergedIsARow DEF Columns
  <2>4. call[r].set["expires"] # Null
    BY <2>3 DEF Dirty, Assigned
  <2>. QED
    BY <1>2, <2>1, <2>4 DEF CommitUpdate, Commit, Control, Committed
<1>3. CASE CommitDelete(r)
  BY <1>3 DEF CommitDelete, TypeOK
<1>4. CASE posts' = posts
  BY <1>4
<1>. QED
  BY <1>1, <1>2, <1>3, <1>4, CommitCases DEF Quiet, Start, CommitVotes

\* A post that was there before is not created again.
LEMMA NoNewPost ==
    ASSUME IInv, NEW r \in Requests, Moves(r), NEW p \in applied, posts'[p] # Null
    PROVE  posts[p] # Null
<1>. USE DEF IInv
<1>1. CASE CommitCreate(r)
  <2>1. p # r /\ p \in Requests
    BY <1>1 DEF CommitCreate, Control, Committed, TypeOK
  <2>. QED
    BY <1>1, <2>1 DEF CommitCreate, TypeOK
<1>2. CASE CommitUpdate(r)
  BY <1>2, UpdateKeepsPosts DEF TypeOK
<1>3. CASE CommitDelete(r)
  BY <1>3 DEF CommitDelete, TypeOK
<1>4. CASE posts' = posts
  BY <1>4
<1>. QED
  BY <1>1, <1>2, <1>3, <1>4, CommitCases DEF Quiet, Start, CommitVotes

\* Who changes a vote: its voter, a deletion of its post, or a replacement of
\* the options that overlapped its cast.
LEMMA VotesMove ==
    ASSUME IInv, NEW r \in Requests, Moves(r),
           NEW x \in (votes \ votes') \cup (votes' \ votes)
    PROVE  /\ r \in applied' \ applied /\ call'[r] = call[r] /\ call[r].post = x.post
           /\ \/ Voting(r) /\ call[r].user = x.voter
              \/ call[r].op = "delete"
              \/ /\ call[r].op = "update" /\ call[r].options # Null
                 /\ Overlap(r, x.by)' /\ x \in votes
<1>. USE DEF IInv
<1>1. CASE CommitVotes(r)
  <2>1. r \in applied' \ applied /\ call' = call /\ pc[r] = "commit"
        /\ call[r].op \in {"cast", "retract"}
    BY <1>1 DEF CommitVotes, Commit, Control, Committed
  <2>2. x \in existing[r] \/ x \in Ballot(r)
    BY <1>1 DEF CommitVotes
  <2>3. x.post = call[r].post /\ x.voter = call[r].user
    <3>1. \A y \in existing[r] : y.post = call[r].post /\ y.voter = call[r].user
      BY <2>1 DEF Knowledge, HasRead
    <3>. QED
      BY <2>2, <3>1 DEF Ballot
  <2>. QED
    BY <2>1, <2>3 DEF Voting
<1>2. CASE CommitDelete(r)
  BY <1>2 DEF CommitDelete, Commit, Control, Committed
<1>3. CASE CommitUpdate(r)
  <2>1. /\ r \in applied' \ applied /\ call' = call /\ before' = before
        /\ pc[r] = "commit" /\ call[r].op = "update"
    BY <1>3 DEF CommitUpdate, Commit, Control, Committed
  <2>2. x \in votes /\ Replaces(r) /\ x.option \in loaded[r].options
    BY <1>3 DEF CommitUpdate, Dropped
  <2>3. x.post = call[r].post
    BY <2>1, <2>2 DEF Knowledge, HasRead, Integrity
  <2>4. Overlap(x.by, r)
    BY <2>1, <2>2, <2>3 DEF SeenOrOverlaps
  <2>. QED
    BY <2>1, <2>2, <2>3, <2>4 DEF Replaces, Overlap
<1>4. CASE votes' = votes
  BY <1>4
<1>. QED
  BY <1>1, <1>2, <1>3, <1>4, CommitCases DEF Quiet, Start, CommitCreate

----------------------------------------------------------------------------
(* A move of a writer keeps FInv *)

\* FInv, for one reader.
Final(q) ==
    /\ ShowsResults(q) => DeadlineAsRead(q) /\ VotersInTime(q)
    /\ ShownOfPoll(q) /\ VotesStand(q)

\* What a reader that shows results relies on.
LEMMA PollRead ==
    ASSUME IInv, RInv, NEW q \in Readers, ShowsResults(q), ShownOfPoll(q)
    PROVE  /\ query[q].post \in applied /\ query[q].post \in Requests
           /\ RowRead(q) # Null /\ RowRead(q) \in PostRows
           /\ span[q].first \subseteq applied
<1>1. rpc[q] # "idle" /\ query[q] \in Queries /\ span[q].first \subseteq applied
  BY DEF RInv, ReadersOK, ShowsResults, Holding, Answered200
<1>2. query[q].post \in Requests
  BY <1>1 DEF Queries
<1>3. found[q].rows \in Rows /\ view[q].rows \in Rows
  BY DEF RInv, ReadersOK
<1>4. CASE Holding(q) /\ query[q].op = "results"
  <2>1. found[q].rows[query[q].post] # Null /\ query[q].post \in applied
    BY <1>2, <1>4 DEF RInv, RowsAsRead
  <2>. QED
    BY <1>1, <1>2, <1>3, <1>4, <2>1 DEF RowRead, Rows
<1>5. CASE Answered200(q) /\ view[q].level # "none"
  <2>1. ~Holding(q)
    BY <1>5 DEF Answered200, Holding
  <2>. QED
    BY <1>1, <1>2, <1>3, <1>5, <2>1 DEF RowRead, Rows, ShownOfPoll
<1>. QED
  BY <1>4, <1>5 DEF ShowsResults

LEMMA ReaderUnmoved ==
    ASSUME NEW q \in Readers, UNCHANGED readers
    PROVE  /\ ShowsResults(q)' <=> ShowsResults(q)
           /\ RowRead(q)' = RowRead(q)
BY DEF readers, ShowsResults, Holding, Answered200, RowRead

LEMMA DeadlineMovedStays ==
    ASSUME IInv, NEW r \in Requests, Moves(r), UNCHANGED readers, NEW q \in Readers
    PROVE  DeadlineMovedSince(q) => DeadlineMovedSince(q)'
BY HistoryStays, AppliedHaveBegun DEF DeadlineMovedSince, readers

LEMMA MoveKeepsDeadline ==
    ASSUME IInv, RInv, NEW r \in Requests, Moves(r), UNCHANGED readers,
           NEW q \in Readers, ShowsResults(q), Final(q)
    PROVE  DeadlineAsRead(q)'
<1>. SUFFICES ASSUME posts'[query[q].post] # Null,
                     posts'[query[q].post].cols["expires"] # RowRead(q).cols["expires"]
     PROVE  DeadlineMovedSince(q)'
  BY ReaderUnmoved DEF DeadlineAsRead, readers
<1>1. PICK p \in Requests : p = query[q].post /\ p \in applied
  BY PollRead DEF Final
<1>2. posts[p] # Null
  BY <1>1, NoNewPost
<1>3. CASE DeadlineMovedSince(q)
  BY <1>3, DeadlineMovedStays
<1>4. CASE posts'[p].cols["expires"] # posts[p].cols["expires"]
  <2>1. /\ r \in applied' \ applied /\ call'[r].op = "update"
        /\ call'[r].post = p /\ call'[r].set["expires"] # Null
    BY <1>1, <1>2, <1>4, DeadlineMoves
  <2>2. r \notin span'[q].first /\ query'[q] = query[q]
    BY <2>1, PollRead DEF readers, Final
  <2>. QED
    BY <1>1, <2>1, <2>2 DEF DeadlineMovedSince
<1>. QED
  BY <1>1, <1>2, <1>3, <1>4 DEF Final, DeadlineAsRead

\* A voter who finds the poll open now began before the deadline that is stored.
LEMMA OpensInTime ==
    ASSUME IInv, NEW s \in Requests, Read(s), Voting(s)'
    PROVE  /\ posts[call[s].post] # Null /\ posts' = posts
           /\ ~PollEnded(posts[call[s].post], since[s])
<1>. USE DEF IInv, TypeOK, Control
<1>1. call' = call /\ posts' = posts /\ call[s].op \in {"cast", "retract"}
  BY DEF Read, NoWrite, Voting
<1>2. posts[call[s].post] # Null /\ ~PollEnded(posts[call[s].post], now)
  BY <1>1 DEF Read, Refusal, RowInScope, VotingClosed
<1>3. call[s].post \in Requests /\ "expires" \in Columns
  BY DEF Read, Calls, Columns
<1>4. posts[call[s].post].cols["expires"] \in Nat \cup {Null}
  BY <1>2, <1>3 DEF PostRows
<1>5. since[s] \in Nat /\ now \in Nat /\ since[s] <= now
  OBVIOUS
<1>. QED
  BY <1>1, <1>2, <1>4, <1>5 DEF PollEnded

\* Nobody else comes to be a voter who has found a poll open.
LEMMA VotersCome ==
    ASSUME IInv, NEW r \in Requests, Moves(r), NEW s \in Requests, Voting(s)', ~Voting(s)
    PROVE  s = r /\ Read(r)
<1>. USE DEF IInv, TypeOK, Control, OpAt, Goto, Finish, Voting
<1>1. CASE Start(r)
  BY <1>1 DEF Start
<1>2. CASE Ends(r)
  BY <1>2 DEF Ends, Reject, NoWrite
<1>3. CASE CommitCreate(r) \/ CommitUpdate(r) \/ CommitDelete(r) \/ CommitVotes(r)
  BY <1>3 DEF CommitCreate, CommitUpdate, CommitDelete, CommitVotes, Commit
<1>4. CASE Audit(r) \/ Notify(r)
  BY <1>4 DEF Audit, Notify, UnchangedButCrm
<1>5. CASE ValidateCreate(r) \/ FlushColumns(r) \/ CountVotes(r) \/ ReplaceOptions(r)
           \/ RemovePost(r)
  BY <1>5 DEF ValidateCreate, FlushColumns, CountVotes, ReplaceOptions, RemovePost,
              NoWrite
<1>6. CASE ReadExisting(r) \/ Unvote(r) \/ Vote(r)
  BY <1>6 DEF ReadExisting, Unvote, Vote, NoWrite
<1>7. CASE Read(r)
  BY <1>7 DEF Read, NoWrite
<1>. QED
  BY <1>1, <1>2, <1>3, <1>4, <1>5, <1>6, <1>7 DEF Moves

LEMMA MoveKeepsVoters ==
    ASSUME IInv, RInv, NEW r \in Requests, Moves(r), UNCHANGED readers,
           NEW q \in Readers, ShowsResults(q), Final(q)
    PROVE  VotersInTime(q)'
<1>. SUFFICES ASSUME NEW s \in Requests, Voting(s)', call'[s].post = query[q].post
     PROVE  BeganInTime(s, query[q].post, RowRead(q))' \/ DeadlineMovedSince(q)'
  BY ReaderUnmoved DEF VotersInTime, readers, BeganInTime
<1>1. CASE Voting(s)
  <2>1. pc[s] # "idle" /\ call'[s] = call[s]
    BY <1>1, HistoryStays DEF Voting
  <2>2. BeganInTime(s, query[q].post, RowRead(q)) \/ DeadlineMovedSince(q)
    BY <1>1, <2>1 DEF Final, VotersInTime
  <2>3. PICK row : row = RowRead(q)
    OBVIOUS
  <2>4. PICK p : p = query[q].post
    OBVIOUS
  <2>5. BeganInTime(s, p, row) => BeganInTime(s, p, row)'
    BY <2>1, BeganInTimeStays
  <2>6. RowRead(q)' = row /\ query'[q].post = p
    BY <2>3, <2>4, ReaderUnmoved DEF readers
  <2>. QED
    BY <2>2, <2>3, <2>4, <2>5, <2>6, DeadlineMovedStays DEF BeganInTime
<1>2. CASE ~Voting(s)
  <2>1. Read(s)
    BY <1>2, VotersCome
  <2>2. call' = call /\ since' = since
    BY <2>1 DEF Read, NoWrite
  <2>3. /\ posts[query[q].post] # Null
        /\ ~PollEnded(posts[query[q].post], since[s])
    BY <2>1, <2>2, OpensInTime
  <2>4. CASE DeadlineMovedSince(q)
    BY <2>4, DeadlineMovedStays
  <2>5. CASE posts[query[q].post].cols["expires"] = RowRead(q).cols["expires"]
    <3>1. ~PollEnded(RowRead(q), since[s])
      BY <2>3, <2>5 DEF PollEnded
    <3>2. call[s].op \in {"cast", "retract"} /\ call[s].post = query[q].post
      BY <2>2 DEF Voting
    <3>3. query'[q] = query[q] /\ RowRead(q)' = RowRead(q)
      BY ReaderUnmoved DEF readers
    <3>. QED
      BY <2>2, <3>1, <3>2, <3>3 DEF BeganInTime, PollEnded
  <2>. QED
    BY <2>3, <2>4, <2>5 DEF Final, DeadlineAsRead
<1>. QED
  BY <1>1, <1>2

LEMMA MayUnsettleStays ==
    ASSUME IInv, NEW r \in Requests, Moves(r), UNCHANGED readers, NEW q \in Readers,
           NEW s \in applied, NEW x, x.by \in applied, MayUnsettle(s, q, x)
    PROVE  MayUnsettle(s, q, x)'
<1>1. s \in Requests /\ pc[s] # "idle" /\ x.by \in Requests /\ pc[x.by] # "idle"
  BY AppliedHaveBegun
<1>2. /\ call'[s] = call[s] /\ before'[s] = before[s] /\ before'[x.by] = before[x.by]
  BY <1>1, HistoryStays
<1>3. PICK p : p = query[q].post
  OBVIOUS
<1>4. PICK row : row = view[q].rows[p]
  OBVIOUS
<1>5. BeganInTime(s, p, row) => BeganInTime(s, p, row)'
  BY <1>1, BeganInTimeStays
<1>6. query'[q].post = p /\ view'[q].rows[p] = row
  BY <1>3, <1>4 DEF readers
<1>7. Overlap(s, x.by)' <=> Overlap(s, x.by)
  BY <1>2 DEF Overlap
<1>8. MayUnsettle(s, q, x)' <=>
         \/ BeganInTime(s, p, row)' /\ call'[s].user = x.voter
         \/ call'[s].op = "delete" /\ call'[s].post = p
         \/ /\ call'[s].op = "update" /\ call'[s].post = p
            /\ \/ call'[s].set["expires"] # Null
               \/ call'[s].options # Null /\ Overlap(s, x.by)'
  BY <1>6 DEF MayUnsettle, BeganInTime
<1>9. MayUnsettle(s, q, x) <=>
         \/ BeganInTime(s, p, row) /\ call[s].user = x.voter
         \/ call[s].op = "delete" /\ call[s].post = p
         \/ /\ call[s].op = "update" /\ call[s].post = p
            /\ \/ call[s].set["expires"] # Null
               \/ call[s].options # Null /\ Overlap(s, x.by)
  BY <1>3, <1>4 DEF MayUnsettle
<1>. QED
  BY <1>2, <1>5, <1>7, <1>8, <1>9

\* Whoever changes the votes of the poll after the answer is excused.
LEMMA MoveUnsettles ==
    ASSUME IInv, RInv, NEW r \in Requests, Moves(r), UNCHANGED readers,
           NEW q \in Readers, Final(q), Answered200(q), view[q].level # "none",
           NEW x \in (votes \ votes') \cup (votes' \ votes), x.post = query[q].post
    PROVE  \E s \in applied' \ span'[q].first : MayUnsettle(s, q, x)'
<1>1. ShowsResults(q) /\ RowRead(q) = view[q].rows[query[q].post]
  BY DEF ShowsResults, RowRead, Answered200, Holding
<1>2. span[q].first \subseteq applied /\ UNCHANGED <<query[q], view[q], span[q]>>
  BY <1>1, PollRead DEF Final, readers
<1>3. /\ r \in applied' \ applied /\ call'[r] = call[r] /\ call[r].post = query[q].post
      /\ \/ Voting(r) /\ call[r].user = x.voter
         \/ call[r].op = "delete"
         \/ /\ call[r].op = "update" /\ call[r].options # Null /\ Overlap(r, x.by)'
  BY VotesMove
<1>4. r \in applied' \ span'[q].first
  BY <1>2, <1>3
<1>5. CASE call[r].op = "delete" \/ (call[r].op = "update" /\ call[r].options # Null
                                     /\ Overlap(r, x.by)')
  <2>1. MayUnsettle(r, q, x)'
    BY <1>2, <1>3, <1>5 DEF MayUnsettle
  <2>. QED
    BY <1>4, <2>1
<1>6. CASE Voting(r) /\ call[r].user = x.voter
  <2>1. CASE DeadlineMovedSince(q)
    <3>1. DeadlineMovedSince(q)'
      BY <2>1, DeadlineMovedStays
    <3>. QED
      BY <1>2, <3>1 DEF DeadlineMovedSince, MayUnsettle
  <2>2. CASE BeganInTime(r, query[q].post, RowRead(q))
    <3>1. PICK p : p = query[q].post
      OBVIOUS
    <3>2. PICK row : row = view[q].rows[p]
      OBVIOUS
    <3>3. BeganInTime(r, p, row)'
      BY <1>1, <1>6, <2>2, <3>1, <3>2, BeganInTimeStays DEF Voting
    <3>4. BeganInTime(r, query[q].post, view[q].rows[query[q].post])'
      BY <1>2, <3>1, <3>2, <3>3 DEF BeganInTime
    <3>5. MayUnsettle(r, q, x)'
      BY <1>3, <1>6, <3>4 DEF MayUnsettle
    <3>. QED
      BY <1>4, <3>5
  <2>. QED
    BY <1>1, <1>3, <1>6, <2>1, <2>2 DEF Final, VotersInTime
<1>. QED
  BY <1>3, <1>5, <1>6

LEMMA MoveKeepsShown ==
    ASSUME IInv, RInv, NEW r \in Requests, Moves(r), UNCHANGED readers,
           NEW q \in Readers, Final(q)
    PROVE  ShownOfPoll(q)' /\ VotesStand(q)'
<1>1. ShownOfPoll(q)'
  BY HistoryStays DEF Final, ShownOfPoll, readers, Answered200
<1>2. VotesStand(q)'
  <2>. SUFFICES ASSUME Answered200(q), view[q].level # "none",
                       NEW x \in view[q].votes \cup votes', x.post = query[q].post,
                       ~(x \in view[q].votes /\ x \in votes')
       PROVE  \E s \in applied' \ span'[q].first : MayUnsettle(s, q, x)'
    BY <1>1 DEF VotesStand, VotesOn, readers, Answered200, ShownOfPoll
  <2>1. CASE x \in (votes \ votes') \cup (votes' \ votes)
    BY <2>1, MoveUnsettles
  <2>2. CASE x \notin (votes \ votes') \cup (votes' \ votes)
    <3>1. x \in view[q].votes \cup VotesOn(query[q].post)
          /\ ~(x \in view[q].votes /\ x \in votes)
      BY <2>2 DEF VotesOn
    <3>2. PICK s \in applied \ span[q].first : MayUnsettle(s, q, x)
      BY <3>1 DEF Final, VotesStand
    <3>3. x.by \in applied
      BY <2>2 DEF IInv, Provenance, Final, ShownOfPoll
    <3>4. MayUnsettle(s, q, x)'
      BY <3>2, <3>3, MayUnsettleStays
    <3>5. s \in applied' \ span'[q].first
      BY <3>2, HistoryStays DEF readers
    <3>. QED
      BY <3>4, <3>5
  <2>. QED
    BY <2>1, <2>2
<1>. QED
  BY <1>1, <1>2

LEMMA MoveKeepsFinal ==
    ASSUME IInv, RInv, NEW r \in Requests, Moves(r), UNCHANGED readers,
           NEW q \in Readers, Final(q)
    PROVE  Final(q)'
BY ReaderUnmoved, MoveKeepsDeadline, MoveKeepsVoters, MoveKeepsShown DEF Final

\* The clock, or nothing, moves.
LEMMA TickKeepsFinal ==
    ASSUME Tick \/ UNCHANGED vars, UNCHANGED readers, NEW q \in Readers, Final(q)
    PROVE  Final(q)'
<1>1. UNCHANGED <<posts, votes, pc, call, applied, before, since>>
  BY DEF Tick, vars
<1>2. UNCHANGED <<query[q], view[q], span[q]>> /\ (Answered200(q)' <=> Answered200(q))
  BY DEF readers, Answered200
<1>3. \A s, p, row : BeganInTime(s, p, row)' <=> BeganInTime(s, p, row)
  BY <1>1 DEF BeganInTime, PollEnded, DeadlineMovedDuring, Overlap
<1>4. DeadlineMovedSince(q)' <=> DeadlineMovedSince(q)
  BY <1>1, <1>2 DEF DeadlineMovedSince
<1>5. DeadlineAsRead(q)' <=> DeadlineAsRead(q)
  BY <1>1, <1>2, <1>4, ReaderUnmoved DEF DeadlineAsRead
<1>6. VotersInTime(q)' <=> VotersInTime(q)
  BY <1>1, <1>2, <1>4, ReaderUnmoved DEF VotersInTime, Voting, BeganInTime, PollEnded,
     DeadlineMovedDuring, Overlap
<1>7. ShownOfPoll(q)' <=> ShownOfPoll(q)
  BY <1>1, <1>2 DEF ShownOfPoll
<1>8. \A s, x : MayUnsettle(s, q, x)' <=> MayUnsettle(s, q, x)
  BY <1>1, <1>2 DEF MayUnsettle, BeganInTime, PollEnded, DeadlineMovedDuring, Overlap
<1>9. VotesStand(q)' <=> VotesStand(q)
  BY <1>1, <1>2, <1>8 DEF VotesStand, VotesOn
<1>. QED
  BY <1>5, <1>6, <1>7, <1>9, ReaderUnmoved DEF Final

----------------------------------------------------------------------------
(* A step of a reader keeps FInv *)

\* When nothing is written, FInv depends on what the reader holds and has shown.
LEMMA SameWhenNothingWritten ==
    ASSUME UNCHANGED vars
    PROVE  /\ \A s, p, row : BeganInTime(s, p, row)' <=> BeganInTime(s, p, row)
           /\ \A s : Voting(s)' <=> Voting(s)
           /\ UNCHANGED <<posts, votes, call, applied>>
BY DEF vars, BeganInTime, PollEnded, DeadlineMovedDuring, Overlap, Voting

\* A reader that goes on with the row it holds.
LEMMA RowKept ==
    ASSUME UNCHANGED vars, NEW q \in Readers, ShowsResults(q), Final(q),
           query'[q] = query[q], span'[q].first = span[q].first,
           RowRead(q)' = RowRead(q)
    PROVE  DeadlineAsRead(q)' /\ VotersInTime(q)'
<1>1. DeadlineMovedSince(q)' <=> DeadlineMovedSince(q)
  BY SameWhenNothingWritten DEF DeadlineMovedSince
<1>2. DeadlineAsRead(q)'
  BY <1>1, SameWhenNothingWritten DEF Final, DeadlineAsRead
<1>3. VotersInTime(q)'
  BY <1>1 DEF Final, VotersInTime, vars, BeganInTime, PollEnded, DeadlineMovedDuring,
     Overlap, Voting
<1>. QED
  BY <1>2, <1>3

\* A step of another reader.
LEMMA AsideKeepsFinal ==
    ASSUME UNCHANGED vars, NEW q \in Readers, Aside(q), Final(q)
    PROVE  Final(q)'
<1>1. /\ ShowsResults(q)' <=> ShowsResults(q)
      /\ RowRead(q)' = RowRead(q)
      /\ Answered200(q)' <=> Answered200(q)
  BY DEF Aside, ShowsResults, Holding, Answered200, RowRead
<1>2. ShowsResults(q)' => DeadlineAsRead(q)' /\ VotersInTime(q)'
  BY <1>1, RowKept DEF Aside
<1>3. ShownOfPoll(q)'
  BY <1>1 DEF Final, ShownOfPoll, Aside, vars
<1>4. VotesStand(q)'
  BY <1>1 DEF Final, VotesStand, VotesOn, MayUnsettle, Aside, vars, BeganInTime,
     PollEnded, DeadlineMovedDuring, Overlap
<1>. QED
  BY <1>2, <1>3, <1>4 DEF Final

\* A reader that has no answer yet has shown nothing.
LEMMA NothingShownYet ==
    ASSUME NEW q \in Readers, ~Answered200(q)' \/ view'[q].level = "none"
    PROVE  ShownOfPoll(q)' /\ VotesStand(q)'
BY DEF ShownOfPoll, VotesStand

\* The row that is read is the row that is stored, and whoever is voting on the
\* poll has found it open in time.
LEMMA TakingKeepsFinal ==
    ASSUME IInv, RInv, NEW k \in Readers, TakesRows(k), UNCHANGED vars
    PROVE  Final(k)'
<1>1. /\ rpc'[k] = "options" /\ query' = query /\ span' = span
      /\ found'[k].rows = RowsFor(k)
  BY ReaderHolds DEF RInv
<1>2. ShownOfPoll(k)' /\ VotesStand(k)'
  BY <1>1, NothingShownYet DEF Answered200
<1>3. ASSUME query[k].op = "results" PROVE DeadlineAsRead(k)' /\ VotersInTime(k)'
  <2>1. rpc[k] # "idle" /\ query[k].post \in Requests
    BY DEF TakesRows, RInv, ReadersOK, Queries
  <2>2. PICK p \in Requests : p = query[k].post
    BY <2>1
  <2>3. RowsFor(k)[p] # Null
    BY <1>3, <2>2 DEF TakesRows, Shown, RowsFor
  <2>4. RowsFor(k)[p] = posts[p] /\ posts[p] # Null
    BY <2>1, <2>3, RowsTaken DEF RInv
  <2>5. RowRead(k)' = posts[p] /\ query'[k].post = p
    BY <1>1, <2>2, <2>4 DEF RowRead, Holding
  <2>6. DeadlineAsRead(k)'
    BY <2>5 DEF DeadlineAsRead, vars
  <2>7. ASSUME NEW s \in Requests, Voting(s), call[s].post = p
        PROVE  BeganInTime(s, p, posts[p])
    BY <2>4, <2>7 DEF IInv, FoundOpen, Voting, BeganInTime
  <2>8. PICK row : row = posts[p]
    OBVIOUS
  <2>9. VotersInTime(k)'
    BY <2>5, <2>7, <2>8, SameWhenNothingWritten DEF VotersInTime, BeganInTime
  <2>. QED
    BY <2>6, <2>9
<1>4. ShowsResults(k)' => query[k].op = "results"
  BY <1>1 DEF ShowsResults, Answered200
<1>. QED
  BY <1>2, <1>3, <1>4 DEF Final

LEMMA TakingOptionsKeepsFinal ==
    ASSUME IInv, RInv, NEW k \in Readers, TakesOptions(k), UNCHANGED vars, Final(k)
    PROVE  Final(k)'
<1>1. /\ rpc'[k] = "votes" /\ query' = query /\ span' = span
      /\ found'[k].rows = found[k].rows /\ rpc[k] = "options"
  BY ReaderHolds DEF RInv, TakesOptions
<1>2. ShownOfPoll(k)' /\ VotesStand(k)'
  BY <1>1, NothingShownYet DEF Answered200
<1>3. /\ ShowsResults(k)' => ShowsResults(k)
      /\ RowRead(k)' = RowRead(k)
  BY <1>1 DEF ShowsResults, Holding, Answered200, RowRead
<1>. QED
  BY <1>1, <1>2, <1>3, RowKept DEF Final

\* The answer: all votes of the poll, which stand at this moment.
LEMMA AnswerKeepsFinal ==
    ASSUME IInv, RInv, NEW k \in Readers, ReadAllVotes(k), UNCHANGED vars, Final(k),
           view'[k].level # "none"
    PROVE  Final(k)'
<1>1. rpc[k] = "votes" /\ query[k].op = "results" /\ ShowsResults(k)
  BY DEF ReadAllVotes, ShowsResults, Holding
<1>2. /\ rpc'[k] = "done" /\ query'[k] = query[k] /\ span'[k].first = span[k].first
      /\ view'[k].rows = found[k].rows
      /\ view'[k].level # "none" => view'[k].votes = AllRows(k)
  BY AnswersRelease DEF RInv, ReadAllVotes
<1>3. RowRead(k)' = RowRead(k) /\ RowRead(k) = found[k].rows[query[k].post]
  BY <1>1, <1>2 DEF RowRead, Holding
<1>4. DeadlineAsRead(k)' /\ VotersInTime(k)'
  BY <1>1, <1>2, <1>3, RowKept
<1>5. view'[k].votes = VotesOn(query[k].post)
  BY <1>2 DEF AllRows, VotesOn
<1>6. ~Answered200(k) /\ Holding(k)
  BY <1>1 DEF Answered200, Holding
<1>7. found[k].rows[query[k].post] # Null /\ query[k].post \in applied
  BY <1>1, <1>3, PollRead DEF Final
<1>8. ShownOfPoll(k)'
  BY <1>1, <1>2, <1>5, <1>7 DEF ShownOfPoll, VotesOn, vars, IInv, Provenance
<1>9. VotesStand(k)'
  BY <1>2, <1>5 DEF VotesStand, VotesOn, vars
<1>. QED
  BY <1>4, <1>8, <1>9 DEF Final

\* Every other answer shows no results.
LEMMA BlanksKeepFinal ==
    ASSUME RInv, NEW k \in Readers, rpc'[k] \notin {"options", "votes"},
           ~Answered200(k)' \/ view'[k].level = "none"
    PROVE  Final(k)'
BY NothingShownYet DEF Final, ShowsResults, Holding

LEMMA ReadKeepsFinal ==
    ASSUME IInv, RInv, NEW k \in Readers, ReadStep(k), UNCHANGED vars,
           NEW q \in Readers, Final(q)
    PROVE  Final(q)'
<1>1. CASE q # k
  BY <1>1, OthersStay, AsideKeepsFinal DEF RInv, Aside
<1>2. CASE q = k
  <2>1. CASE StartRead(k)
    <3>1. rpc'[k] = "post"
      BY <2>1 DEF StartRead, ReadersGoto, RInv, ReadersOK
    <3>. QED
      BY <1>2, <3>1, BlanksKeepFinal DEF Answered200
  <2>2. CASE TakesRows(k)
    BY <1>2, <2>2, TakingKeepsFinal
  <2>3. CASE TakesOptions(k)
    BY <1>2, <2>3, TakingOptionsKeepsFinal
  <2>4. CASE Errors(k)
    <3>1. rpc'[k] = "done" /\ view'[k].status # "ok"
      BY <2>4, AnswersRelease DEF Errors, AnswerError, NoView, RInv
    <3>. QED
      BY <1>2, <3>1, BlanksKeepFinal DEF Answered200
  <2>5. CASE AnswersBlank(k) \/ ReadOwnVotes(k)
    <3>1. rpc'[k] = "done" /\ view'[k].level = "none"
      BY <2>5, AnswersRelease DEF AnswersBlank, ReadOwnVotes, OwnView, RInv
    <3>. QED
      BY <1>2, <3>1, BlanksKeepFinal
  <2>6. CASE ReadAllVotes(k)
    <3>1. rpc'[k] = "done"
      BY <2>6, AnswersRelease DEF ReadAllVotes, RInv
    <3>2. CASE view'[k].level = "none"
      BY <1>2, <3>1, <3>2, BlanksKeepFinal
    <3>3. CASE view'[k].level # "none"
      BY <1>2, <2>6, <3>3, AnswerKeepsFinal
    <3>. QED
      BY <3>2, <3>3
  <2>. QED
    BY <2>1, <2>2, <2>3, <2>4, <2>5, <2>6, ReadCases
<1>. QED
  BY <1>1, <1>2

----------------------------------------------------------------------------
(* The theorems *)

LEMMA FInvOfEach == FInv <=> \A q \in Readers : Final(q)
BY DEF FInv, Final

LEMMA FInvOfEachNext == (\A q \in Readers : Final(q))' => FInv'
BY FInvOfEach, PTL

LEMMA FinalInductive ==
    ASSUME IInv, RInv, FInv, [ResultsNext]_resultVars
    PROVE  FInv'
<1>1. \A q \in Readers : Final(q)
  BY FInvOfEach
<1>2. ASSUME NEW r \in Requests, Start(r) \/ Step(r) \/ Fail(r), UNCHANGED readers,
             NEW q \in Readers
      PROVE  Final(q)'
  <2>1. Moves(r)
    BY <1>2, StepCases DEF IInv
  <2>. QED
    BY <1>1, <1>2, <2>1, MoveKeepsFinal
<1>3. ASSUME Tick \/ UNCHANGED vars, UNCHANGED readers, NEW q \in Readers
      PROVE  Final(q)'
  BY <1>1, <1>3, TickKeepsFinal
<1>4. ASSUME NEW k \in Readers, ReadStep(k), UNCHANGED vars, NEW q \in Readers
      PROVE  Final(q)'
  BY <1>1, <1>4, ReadKeepsFinal
<1>5. ASSUME Next, UNCHANGED readers, NEW q \in Readers PROVE Final(q)'
  BY <1>2, <1>3, <1>5 DEF Next, Terminated
<1>6. ASSUME UNCHANGED resultVars, NEW q \in Readers PROVE Final(q)'
  <2>1. UNCHANGED vars /\ UNCHANGED readers
    BY <1>6 DEF resultVars
  <2>. QED
    BY <1>3, <2>1
<1>7. \A q \in Readers : Final(q)'
  BY <1>4, <1>5, <1>6 DEF ResultsNext
<1>. QED
  BY <1>7, FInvOfEachNext

LEMMA InitFInv == ResultsInit => FInv
BY DEF ResultsInit, FInv, ShowsResults, Holding, Answered200, ShownOfPoll, VotesStand

\* What a reader that shows results can rely on: the deadline it read, and that
\* the voters still at work had begun before it.
THEOREM FinalityInvariance == ResultsSpec => []FInv
<1>1. IInv /\ RInv /\ FInv /\ [ResultsNext]_resultVars => FInv'
  BY FinalInductive
<1>. QED
  BY <1>1, InitFInv, ResultsInvariance, PTL DEF ResultsSpec

\* Results shown of an ended poll are final: only voters who began before the
\* deadline, deletions, and edits of the deadline or the options change its votes.
THEOREM FinalResultsStandHolds == ResultsSpec => []FinalResultsStand
<1>1. IInv /\ FInv => FinalResultsStand
  <2>. SUFFICES ASSUME IInv, FInv, NEW q \in Readers, Answered200(q),
                       view[q].level # "none", NEW x,
                       \/ x \in view[q].votes \ VotesOn(query[q].post)
                       \/ x \in VotesOn(query[q].post) \ view[q].votes
       PROVE  \E s \in applied \ span[q].first : MayUnsettle(s, q, x)
    BY DEF FinalResultsStand, VotesOn
  <2>1. VotesStand(q) /\ ShownOfPoll(q)
    BY DEF FInv
  <2>. QED
    BY <2>1 DEF VotesStand, ShownOfPoll, VotesOn
<1>. QED
  BY <1>1, FinalityInvariance, ResultsInvariance, PTL
=============================================================================
