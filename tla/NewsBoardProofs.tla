-------------------------- MODULE NewsBoardProofs --------------------------
(***************************************************************************)
(* Proofs about NewsBoard, for every set of requests, users, communities   *)
(* and every menu.  The inductive invariant is IInv (NewsBoardInvariant).  *)
(* Each of its parts has a lemma saying that a move of a handler keeps it, *)
(* with one step per action; InductiveStep puts them together.             *)
(***************************************************************************)
EXTENDS NewsBoardInvariant, TLAPS

USE NullAssumption, BoundsAssumption

----------------------------------------------------------------------------
(* The moves of a handler *)

\* The steps that only answer, and leave the tables as they are.
Ends(r) ==
    \E s \in Status : /\ pc[r] \in InFlight /\ Reject(r, s)
                      /\ s = "ok" => r \in applied \/ call[r].op = "retract"

Moves(r) ==
    \/ Start(r) \/ Ends(r) \/ Read(r) \/ ValidateCreate(r) \/ CommitCreate(r)
    \/ FlushColumns(r) \/ CountVotes(r) \/ ReplaceOptions(r) \/ CommitUpdate(r)
    \/ RemovePost(r) \/ CommitDelete(r)
    \/ ReadExisting(r) \/ Unvote(r) \/ Vote(r) \/ CommitVotes(r)
    \/ Audit(r) \/ Notify(r)

\* Every step of a request is one of its moves.
LEMMA StepCases ==
    ASSUME TypeOK, Control, NEW r \in Requests, Step(r) \/ Start(r) \/ Fail(r)
    PROVE  Moves(r)
<1>1. Refuse(r) => Ends(r)
  BY DEF Refuse, Ends, Refusal, Status, InFlight
<1>2. RefuseCreate(r) => Ends(r)
  BY DEF RefuseCreate, Ends, Status, InFlight
<1>3. StaleUpdate(r) \/ ReplaceFails(r) \/ VoteFails(r) => Ends(r)
  BY DEF StaleUpdate, ReplaceFails, VoteFails, Ends, Status, InFlight
<1>4. OptionsFrozen(r) \/ Fail(r) => Ends(r)
  BY DEF OptionsFrozen, Fail, Ends, Status, InFlight
<1>5. Reread(r) => Ends(r)
  BY DEF Reread, Ends, Status, InFlight, Control, Committed
<1>6. NothingToRetract(r) => Ends(r)
  BY DEF NothingToRetract, Ends, Status, InFlight
<1>. QED
  BY <1>1, <1>2, <1>3, <1>4, <1>5, <1>6 DEF Step, Moves

\* Neither a commit nor a beginning.
Quiet == UNCHANGED <<posts, options, votes, applied, before, call>>

\* Only the four commits change a table.
LEMMA CommitCases ==
    ASSUME NEW r \in Requests, Moves(r)
    PROVE  \/ CommitCreate(r) \/ CommitUpdate(r) \/ CommitDelete(r) \/ CommitVotes(r)
           \/ Start(r) \/ Quiet
BY DEF Moves, Ends, Reject, Read, ValidateCreate, FlushColumns, CountVotes,
       ReplaceOptions, RemovePost, ReadExisting, Unvote, Vote, Audit, Notify,
       NoWrite, UnchangedButCrm, Quiet

----------------------------------------------------------------------------
(* Each part of the invariant is kept by every move *)

\* The row an update writes: the columns it changes, over the row as it is now.
LEMMA MergedIsARow ==
    ASSUME TypeOK, Control, Knowledge, LocksHold,
           NEW r \in Requests, CommitUpdate(r), Dirty(r) # {}
    PROVE  /\ posts[call[r].post] # Null
           /\ Merged(r) \in PostRows
           /\ Merged(r).type = posts[call[r].post].type
           /\ \A col \in Columns : Merged(r).cols[col] =
                 IF col \in Dirty(r) THEN call[r].set[col]
                                     ELSE posts[call[r].post].cols[col]
<1>. DEFINE row == posts[call[r].post]
            new == [col \in Columns |->
                      IF col \in Dirty(r) THEN Assigned(r, col) ELSE row.cols[col]]
<1>1. call[r] \in Calls /\ call[r].post \in Requests /\ loaded[r] # Null
  BY DEF CommitUpdate, Control, Knowledge, HasRead, Calls
<1>2. loaded[r].row \in PostRows
  BY <1>1 DEF TypeOK
<1>3. \A col \in Columns : Assigned(r, col) \in Nat \cup {Null}
  BY <1>1, <1>2 DEF Assigned, Calls, PostRows
<1>4. row # Null
  BY <1>1 DEF CommitUpdate, LocksHold, UpdatesPost
<1>5. row \in PostRows
  BY <1>1, <1>4 DEF TypeOK
<1>6. new \in [Columns -> Nat \cup {Null}]
  BY <1>3, <1>5 DEF PostRows
<1>7. Merged(r) = [row EXCEPT !.cols = new]
  BY DEF Merged
<1>8. \A col \in Dirty(r) : Assigned(r, col) = call[r].set[col]
  BY DEF Dirty, Assigned
<1>9. \A col \in Columns : new[col] = IF col \in Dirty(r) THEN call[r].set[col] ELSE row.cols[col]
  BY <1>8
<1>10. Merged(r) \in PostRows /\ Merged(r).type = row.type /\ Merged(r).cols = new
  <2>. HIDE DEF row, new
  <2>. QED
    BY <1>5, <1>6, <1>7 DEF PostRows
<1>. QED
  BY <1>4, <1>9, <1>10

\* An update changes no post but its own, and of that only the columns.
LEMMA UpdateKeepsPosts ==
    ASSUME TypeOK, Control, Knowledge, LocksHold,
           NEW r \in Requests, CommitUpdate(r), NEW p \in Requests
    PROVE  /\ posts'[p] = Null <=> posts[p] = Null
           /\ posts[p] # Null => posts'[p].type = posts[p].type
           /\ ~(p = call[r].post /\ Dirty(r) # {}) => posts'[p] = posts[p]
<1>1. CASE Dirty(r) = {} \/ p # call[r].post
  BY <1>1 DEF CommitUpdate, TypeOK
<1>2. CASE Dirty(r) # {} /\ p = call[r].post
  <2>1. posts'[p] = Merged(r)
    BY <1>2 DEF CommitUpdate, TypeOK
  <2>2. Merged(r) # Null
    BY <1>2, MergedIsARow
  <2>. QED
    BY <1>2, <2>1, <2>2, MergedIsARow
<1>. QED
  BY <1>1, <1>2

\* A submission of at least two options is a choice.
LEMMA TwoOptions ==
    ASSUME NEW r, NEW p, call[r].options \in Nat, call[r].options >= 2
    PROVE  \E o, o2 \in NewOptions(r, p) : o # o2 /\ o.post = p /\ o2.post = p
<1>. DEFINE opt(i) == [post |-> p, by |-> r, n |-> i]
<1>1. opt(1) \in NewOptions(r, p) /\ opt(2) \in NewOptions(r, p)
  BY DEF NewOptions
<1>2. opt(1) # opt(2)
  BY opt(1).n = 1, opt(2).n = 2
<1>. QED
  BY <1>1, <1>2

\* Every move keeps every variable in its type.
LEMMA TypeMoves ==
    ASSUME TypeOK, Control, Knowledge, ExistingOfVoters, LocksHold,
           NEW r \in Requests, Moves(r)
    PROVE  TypeOK'
<1>. USE DEF TypeOK, Goto, InFlight
<1>1. CASE Start(r)
  BY <1>1 DEF Start
<1>2. CASE Ends(r)
  BY <1>2 DEF Ends, Reject, Finish, NoWrite
<1>3. CASE Read(r)
  BY <1>3 DEF Read, NoWrite, Control, Refusal, RowInScope, OptionsOf, Calls, Ops
<1>4. CASE ValidateCreate(r)
  BY <1>4 DEF ValidateCreate, NoWrite
<1>5. CASE CommitCreate(r)
  BY <1>5
     DEF CommitCreate, Commit, Control, NewPost, CreatedOptions, NewOptions, Calls,
            Ops, PostRows, OptionRows, Provenance
<1>6. CASE FlushColumns(r)
  BY <1>6 DEF FlushColumns, NoWrite
<1>7. CASE CountVotes(r)
  BY <1>7 DEF CountVotes, NoWrite
<1>8. CASE ReplaceOptions(r)
  BY <1>8 DEF ReplaceOptions, NoWrite
<1>9. CASE CommitUpdate(r)
  <2>1. Dirty(r) # {} => Merged(r) \in PostRows
    BY <1>9, MergedIsARow
  <2>2. posts' \in [Requests -> PostRows \cup {Null}]
    BY <1>9, <2>1 DEF CommitUpdate
  <2>3. Added(r) \subseteq OptionRows
    BY <1>9 DEF CommitUpdate, Added, Replaces, NewOptions, OptionRows, Control, Calls
  <2>. QED
    BY <1>9, <2>2, <2>3 DEF CommitUpdate, Commit
<1>10. CASE RemovePost(r)
  BY <1>10 DEF RemovePost, NoWrite
<1>11. CASE CommitDelete(r)
  BY <1>11 DEF CommitDelete, Commit
<1>12. CASE ReadExisting(r)
  BY <1>12 DEF ReadExisting, OwnVotes, NoWrite
<1>13. CASE Unvote(r)
  BY <1>13 DEF Unvote, NoWrite
<1>14. CASE Vote(r)
  BY <1>14 DEF Vote, NoWrite
<1>15. CASE CommitVotes(r)
  BY <1>15
     DEF CommitVotes, Commit, Control, Ballot, Calls, Ops, VoteRows, OptionRows,
            Knowledge, HasRead
<1>16. CASE Audit(r)
  <2>1. crm' \subseteq CrmRows
    BY <1>16 DEF Audit, Record, CrmRows
  <2>2. CASE Finish(r, "ok")
    BY <1>16, <2>1, <2>2 DEF Audit, UnchangedButCrm, Finish, Status
  <2>3. CASE ~Finish(r, "ok")
    BY <1>16, <2>1, <2>3 DEF Audit, UnchangedButCrm
  <2>. QED
    BY <2>2, <2>3
<1>17. CASE Notify(r)
  BY <1>17 DEF Notify, Record, UnchangedButCrm, Finish, CrmRows, Status
<1>. QED
  BY <1>1, <1>2, <1>3, <1>4, <1>5, <1>6, <1>7, <1>8, <1>9, <1>10, <1>11, <1>12,
     <1>13, <1>14, <1>15, <1>16, <1>17 DEF Moves

\* Control: the operation fits the place, history follows the handler.
LEMMA ControlMoves ==
    ASSUME TypeOK, Control,
           NEW r \in Requests, Moves(r)
    PROVE  Control'
<1>. USE DEF TypeOK, Control, OpAt, Goto, Committed, InFlight
<1>1. CASE Start(r)
  BY <1>1 DEF Start, Calls
<1>2. CASE Ends(r)
  BY <1>2 DEF Ends, Reject, Finish, NoWrite
<1>3. CASE Read(r)
  BY <1>3 DEF Read, NoWrite, Calls, Ops
<1>4. CASE ValidateCreate(r)
  BY <1>4 DEF ValidateCreate, NoWrite
<1>5. CASE CommitCreate(r)
  BY <1>5 DEF CommitCreate, Commit
<1>6. CASE FlushColumns(r)
  BY <1>6 DEF FlushColumns, NoWrite
<1>7. CASE CountVotes(r)
  BY <1>7 DEF CountVotes, NoWrite
<1>8. CASE ReplaceOptions(r)
  BY <1>8 DEF ReplaceOptions, NoWrite
<1>9. CASE CommitUpdate(r)
  BY <1>9 DEF CommitUpdate, Commit
<1>10. CASE RemovePost(r)
  BY <1>10 DEF RemovePost, NoWrite
<1>11. CASE CommitDelete(r)
  BY <1>11 DEF CommitDelete, Commit
<1>12. CASE ReadExisting(r)
  BY <1>12 DEF ReadExisting, NoWrite
<1>13. CASE Unvote(r)
  BY <1>13 DEF Unvote, NoWrite
<1>14. CASE Vote(r)
  BY <1>14 DEF Vote, NoWrite
<1>15. CASE CommitVotes(r)
  BY <1>15 DEF CommitVotes, Commit
<1>16. CASE Audit(r)
  BY <1>16 DEF Audit, UnchangedButCrm, Finish, Calls, Ops
<1>17. CASE Notify(r)
  BY <1>17 DEF Notify, UnchangedButCrm, Finish
<1>. QED
  BY <1>1, <1>2, <1>3, <1>4, <1>5, <1>6, <1>7, <1>8, <1>9, <1>10, <1>11, <1>12,
         <1>13, <1>14, <1>15, <1>16, <1>17 DEF Moves

\* Knowledge: what a handler read stays true of the post it read.
LEMMA KnowledgeMoves ==
    ASSUME TypeOK, Control, Knowledge, ExistingOfVoters, Provenance,
           NEW r \in Requests, Moves(r)
    PROVE  Knowledge'
<1>. USE DEF TypeOK, Control, OpAt, Knowledge, Goto, Committed, InFlight, HasRead,
             Replaces
<1>1. CASE Start(r)
  BY <1>1 DEF Start
<1>2. CASE Ends(r)
  BY <1>2 DEF Ends, Reject, Finish, NoWrite
<1>3. CASE Read(r)
  BY <1>3
     DEF Read, NoWrite, Calls, Ops, Refusal, RowInScope, OptionsOf, ValidSelection,
            Provenance, NoVoter, TooFewOptions, ExistingOfVoters
<1>4. CASE ValidateCreate(r)
  BY <1>4 DEF ValidateCreate, NoWrite
<1>5. CASE CommitCreate(r)
  BY <1>5 DEF CommitCreate, Commit
<1>6. CASE FlushColumns(r)
  BY <1>6 DEF FlushColumns, NoWrite
<1>7. CASE CountVotes(r)
  BY <1>7 DEF CountVotes, NoWrite
<1>8. CASE ReplaceOptions(r)
  BY <1>8 DEF ReplaceOptions, NoWrite
<1>9. CASE CommitUpdate(r)
  BY <1>9 DEF CommitUpdate, Commit
<1>10. CASE RemovePost(r)
  BY <1>10 DEF RemovePost, NoWrite
<1>11. CASE CommitDelete(r)
  BY <1>11 DEF CommitDelete, Commit
<1>12. CASE ReadExisting(r)
  BY <1>12 DEF ReadExisting, NoWrite, OwnVotes
<1>13. CASE Unvote(r)
  BY <1>13 DEF Unvote, NoWrite
<1>14. CASE Vote(r)
  BY <1>14 DEF Vote, NoWrite
<1>15. CASE CommitVotes(r)
  BY <1>15 DEF CommitVotes, Commit
<1>16. CASE Audit(r)
  BY <1>16 DEF Audit, UnchangedButCrm, Finish
<1>17. CASE Notify(r)
  BY <1>17 DEF Notify, UnchangedButCrm, Finish
<1>. QED
  BY <1>1, <1>2, <1>3, <1>4, <1>5, <1>6, <1>7, <1>8, <1>9, <1>10, <1>11, <1>12,
         <1>13, <1>14, <1>15, <1>16, <1>17 DEF Moves

\* Only voters hold vote rows.
LEMMA ExistingMoves ==
    ASSUME TypeOK, Control, ExistingOfVoters,
           NEW r \in Requests, Moves(r)
    PROVE  ExistingOfVoters'
<1>. USE DEF TypeOK, Control, OpAt, ExistingOfVoters, Goto, InFlight
<1>1. CASE Start(r)
  BY <1>1 DEF Start
<1>2. CASE Ends(r)
  BY <1>2 DEF Ends, Reject, Finish, NoWrite
<1>3. CASE Read(r)
  BY <1>3 DEF Read, NoWrite
<1>4. CASE ValidateCreate(r)
  BY <1>4 DEF ValidateCreate, NoWrite
<1>5. CASE CommitCreate(r)
  BY <1>5 DEF CommitCreate, Commit
<1>6. CASE FlushColumns(r)
  BY <1>6 DEF FlushColumns, NoWrite
<1>7. CASE CountVotes(r)
  BY <1>7 DEF CountVotes, NoWrite
<1>8. CASE ReplaceOptions(r)
  BY <1>8 DEF ReplaceOptions, NoWrite
<1>9. CASE CommitUpdate(r)
  BY <1>9 DEF CommitUpdate, Commit
<1>10. CASE RemovePost(r)
  BY <1>10 DEF RemovePost, NoWrite
<1>11. CASE CommitDelete(r)
  BY <1>11 DEF CommitDelete, Commit
<1>12. CASE ReadExisting(r)
  BY <1>12 DEF ReadExisting, NoWrite
<1>13. CASE Unvote(r)
  BY <1>13 DEF Unvote, NoWrite
<1>14. CASE Vote(r)
  BY <1>14 DEF Vote, NoWrite
<1>15. CASE CommitVotes(r)
  BY <1>15 DEF CommitVotes, Commit
<1>16. CASE Audit(r)
  BY <1>16 DEF Audit, UnchangedButCrm, Finish
<1>17. CASE Notify(r)
  BY <1>17 DEF Notify, UnchangedButCrm, Finish
<1>. QED
  BY <1>1, <1>2, <1>3, <1>4, <1>5, <1>6, <1>7, <1>8, <1>9, <1>10, <1>11, <1>12,
         <1>13, <1>14, <1>15, <1>16, <1>17 DEF Moves

\* Provenance: every row comes from the committed request it names.
LEMMA ProvenanceMoves ==
    ASSUME TypeOK, Control, Provenance, Knowledge, LocksHold,
           NEW r \in Requests, Moves(r)
    PROVE  Provenance'
<1>. USE DEF TypeOK, Control, OpAt, Provenance, Goto, Committed, InFlight, Ballot
<1>1. CASE Start(r)
  BY <1>1 DEF Start
<1>2. CASE Ends(r)
  BY <1>2 DEF Ends, Reject, Finish, NoWrite
<1>3. CASE Read(r)
  BY <1>3 DEF Read, NoWrite, Calls, Ops
<1>4. CASE ValidateCreate(r)
  BY <1>4 DEF ValidateCreate, NoWrite, ValidPayload
<1>5. CASE CommitCreate(r)
  BY <1>5 DEF CommitCreate, Commit, NewPost, CreatedOptions, NewOptions
<1>6. CASE FlushColumns(r)
  BY <1>6 DEF FlushColumns, NoWrite
<1>7. CASE CountVotes(r)
  BY <1>7 DEF CountVotes, NoWrite
<1>8. CASE ReplaceOptions(r)
  BY <1>8 DEF ReplaceOptions, NoWrite
<1>9. CASE CommitUpdate(r)
  BY <1>9
     DEF CommitUpdate, Commit, Merged, Added, NewOptions, Dropped, LocksHold,
            UpdatesPost
<1>10. CASE RemovePost(r)
  BY <1>10 DEF RemovePost, NoWrite
<1>11. CASE CommitDelete(r)
  BY <1>11 DEF CommitDelete, Commit
<1>12. CASE ReadExisting(r)
  BY <1>12 DEF ReadExisting, NoWrite
<1>13. CASE Unvote(r)
  BY <1>13 DEF Unvote, NoWrite
<1>14. CASE Vote(r)
  BY <1>14 DEF Vote, NoWrite
<1>15. CASE CommitVotes(r)
  BY <1>15 DEF CommitVotes, Commit
<1>16. CASE Audit(r)
  BY <1>16 DEF Audit, UnchangedButCrm, Finish, Record
<1>17. CASE Notify(r)
  BY <1>17 DEF Notify, UnchangedButCrm, Finish, Record
<1>. QED
  BY <1>1, <1>2, <1>3, <1>4, <1>5, <1>6, <1>7, <1>8, <1>9, <1>10, <1>11, <1>12,
         <1>13, <1>14, <1>15, <1>16, <1>17 DEF Moves

\* What a lock protects stays while the lock is held.
LEMMA LocksHoldMoves ==
    ASSUME TypeOK, Control, Knowledge, ExistingOfVoters, Provenance, LocksHold,
           LocksExclude, Integrity,
           NEW r \in Requests, Moves(r)
    PROVE  LocksHold'
<1>. USE DEF TypeOK, Control, OpAt, LocksHold, Goto, InFlight, Twin, UpdatesPost,
             AddsOptionTo, AddsVoteOn, DeletesPost, DeletesOption, Replaces, Dirty,
             Assigned
<1>1. CASE Start(r)
  BY <1>1 DEF Start
<1>2. CASE Ends(r)
  BY <1>2 DEF Ends, Reject, Finish, NoWrite
<1>3. CASE Read(r)
  BY <1>3 DEF Read, NoWrite, Calls, Ops
<1>4. CASE ValidateCreate(r)
  BY <1>4 DEF ValidateCreate, NoWrite
<1>5. CASE CommitCreate(r)
  BY <1>5
     DEF CommitCreate, Commit, NewPost, CreatedOptions, PostRows, Calls, Committed,
            Provenance
<1>6. CASE FlushColumns(r)
  BY <1>6 DEF FlushColumns, NoWrite, Others
<1>7. CASE CountVotes(r)
  BY <1>7 DEF CountVotes, NoWrite
<1>8. CASE ReplaceOptions(r)
  BY <1>8 DEF ReplaceOptions, NoWrite, Others
<1>9. CASE CommitUpdate(r)
  <2>1. \A p \in Requests : posts'[p] = Null <=> posts[p] = Null
    BY <1>9, UpdateKeepsPosts
  <2>2. \A q \in Requests, o \in OptionRows :
            pc'[q] = "commit" /\ call'[q].op = "cast" /\ o \in call'[q].selected =>
                o \notin Dropped(r)
    BY <1>9 DEF CommitUpdate, Commit, LocksExclude, Dropped
  <2>. QED
    BY <1>9, <2>1, <2>2 DEF CommitUpdate, Commit, Added, Calls
<1>10. CASE RemovePost(r)
  BY <1>10 DEF RemovePost, NoWrite
<1>11. CASE CommitDelete(r)
  BY <1>11 DEF CommitDelete, Commit, LocksExclude, Knowledge, HasRead, Integrity
<1>12. CASE ReadExisting(r)
  BY <1>12 DEF ReadExisting, NoWrite
<1>13. CASE Unvote(r)
  BY <1>13 DEF Unvote, NoWrite
<1>14. CASE Vote(r)
  BY <1>14 DEF Vote, NoWrite, Others
<1>15. CASE CommitVotes(r)
  BY <1>15 DEF CommitVotes, Commit, LocksExclude, Ballot, Calls
<1>16. CASE Audit(r)
  BY <1>16 DEF Audit, UnchangedButCrm, Finish
<1>17. CASE Notify(r)
  BY <1>17 DEF Notify, UnchangedButCrm, Finish
<1>. QED
  BY <1>1, <1>2, <1>3, <1>4, <1>5, <1>6, <1>7, <1>8, <1>9, <1>10, <1>11, <1>12,
         <1>13, <1>14, <1>15, <1>16, <1>17 DEF Moves

\* No move takes a lock that conflicts with one that is held.
LEMMA LocksExcludeMoves ==
    ASSUME TypeOK, Control, Knowledge, ExistingOfVoters, Provenance, LocksHold,
           LocksExclude, Integrity,
           NEW r \in Requests, Moves(r)
    PROVE  LocksExclude'
<1>. USE DEF TypeOK, Control, OpAt, LocksExclude, Goto, InFlight, UpdatesPost,
             AddsOptionTo, AddsVoteOn, DeletesPost, DeletesOption, Replaces, Dirty,
             Assigned
<1>1. CASE Start(r)
  BY <1>1 DEF Start
<1>2. CASE Ends(r)
  BY <1>2 DEF Ends, Reject, Finish, NoWrite
<1>3. CASE Read(r)
  BY <1>3 DEF Read, NoWrite, Calls, Ops
<1>4. CASE ValidateCreate(r)
  BY <1>4 DEF ValidateCreate, NoWrite
<1>5. CASE CommitCreate(r)
  BY <1>5 DEF CommitCreate, Commit
<1>6. CASE FlushColumns(r)
  BY <1>6 DEF FlushColumns, NoWrite, Others
<1>7. CASE CountVotes(r)
  BY <1>7 DEF CountVotes, NoWrite
<1>8. CASE ReplaceOptions(r)
  BY <1>8 DEF ReplaceOptions, NoWrite, Others, Knowledge, HasRead
<1>9. CASE CommitUpdate(r)
  BY <1>9 DEF CommitUpdate, Commit
<1>10. CASE RemovePost(r)
  BY <1>10 DEF RemovePost, NoWrite, Others, LocksHold, OptionsOf, Knowledge, HasRead
<1>11. CASE CommitDelete(r)
  BY <1>11 DEF CommitDelete, Commit
<1>12. CASE ReadExisting(r)
  BY <1>12 DEF ReadExisting, NoWrite
<1>13. CASE Unvote(r)
  BY <1>13 DEF Unvote, NoWrite, Calls, Ops
<1>14. CASE Vote(r)
  BY <1>14 DEF Vote, NoWrite, Others, DeletesVote
<1>15. CASE CommitVotes(r)
  BY <1>15 DEF CommitVotes, Commit
<1>16. CASE Audit(r)
  BY <1>16 DEF Audit, UnchangedButCrm, Finish
<1>17. CASE Notify(r)
  BY <1>17 DEF Notify, UnchangedButCrm, Finish
<1>. QED
  BY <1>1, <1>2, <1>3, <1>4, <1>5, <1>6, <1>7, <1>8, <1>9, <1>10, <1>11, <1>12,
         <1>13, <1>14, <1>15, <1>16, <1>17 DEF Moves

\* Integrity: foreign keys, and id_post of a vote agrees with its option.
LEMMA IntegrityMoves ==
    ASSUME TypeOK, Control, Knowledge, ExistingOfVoters, Provenance, LocksHold,
           LocksExclude, Integrity,
           NEW r \in Requests, Moves(r)
    PROVE  Integrity'
<1>. USE DEF TypeOK, Control, OpAt, Integrity, Goto, InFlight
<1>1. CASE CommitCreate(r)
  BY <1>1
     DEF CommitCreate, Commit, NewPost, CreatedOptions, NewOptions, PostRows, Calls,
            Provenance, Committed
<1>2. CASE CommitUpdate(r)
  <2>1. \A p \in Requests : /\ posts'[p] = Null <=> posts[p] = Null
                            /\ posts[p] # Null => posts'[p].type = posts[p].type
    BY <1>2, UpdateKeepsPosts
  <2>2. \A o \in Added(r) : o.post \in Requests /\ posts'[o.post] # Null
                            /\ IsPoll(posts'[o.post].type)
    BY <1>2, <2>1
       DEF CommitUpdate, Added, NewOptions, Replaces, LocksHold, AddsOptionTo,
              Knowledge, HasRead, Provenance, Calls
  <2>. QED
    BY <1>2, <2>1, <2>2 DEF CommitUpdate, OptionRows, VoteRows
<1>3. CASE CommitDelete(r)
  BY <1>3 DEF CommitDelete, Commit, Calls
<1>4. CASE CommitVotes(r)
  BY <1>4 DEF CommitVotes, Commit, Ballot, Knowledge, HasRead, LocksHold, Calls
<1>5. CASE UNCHANGED tables
  BY <1>5 DEF tables
<1>. QED
  BY <1>1, <1>2, <1>3, <1>4, <1>5, CommitCases DEF Quiet, Start, tables

\* The unique constraint: one row per option and voter.
LEMMA OneRowMoves ==
    ASSUME TypeOK, Control, Knowledge, ExistingOfVoters, Provenance, LocksHold,
           LocksExclude, Integrity, OneRowPerOption,
           NEW r \in Requests, Moves(r)
    PROVE  OneRowPerOption'
<1>. USE DEF TypeOK, OneRowPerOption, Goto, InFlight
<1>1. CASE CommitCreate(r)
  BY <1>1 DEF CommitCreate, Commit
<1>2. CASE CommitUpdate(r)
  BY <1>2 DEF CommitUpdate, Commit
<1>3. CASE CommitDelete(r)
  BY <1>3 DEF CommitDelete, Commit
<1>4. CASE CommitVotes(r)
  <2>. DEFINE kept == votes \ existing[r]
              added == IF call[r].op = "cast" THEN Ballot(r) ELSE {}
  <2>1. votes' = kept \cup added
    BY <1>4 DEF CommitVotes
  <2>2. \A x \in added : /\ x.option \in call[r].selected /\ x.voter = call[r].user
                         /\ x.post = call[r].post /\ x.by = r
                         /\ x = [post |-> x.post, option |-> x.option,
                                 voter |-> x.voter, by |-> x.by]
    BY DEF Ballot
  <2>3. \A x, y \in added : x.option = y.option => x = y
    BY <2>2
  <2>4. \A x \in added, y \in kept : x.option = y.option => x.voter # y.voter
    BY <1>4, <2>2 DEF CommitVotes, LocksHold, Twin
  <2>. QED
    BY <2>1, <2>2, <2>3, <2>4
<1>5. CASE UNCHANGED tables
  BY <1>5 DEF tables
<1>. QED
  BY <1>1, <1>2, <1>3, <1>4, <1>5, CommitCases DEF Quiet, Start, tables

\* A handler has seen every row of its poll, or overlaps who wrote it.
LEMMA SeenMoves ==
    ASSUME TypeOK, Control, Knowledge, ExistingOfVoters, Provenance, LocksHold,
           LocksExclude, Integrity, SeenOrOverlaps,
           NEW r \in Requests, Moves(r)
    PROVE  SeenOrOverlaps'
<1>. USE DEF TypeOK, Control, OpAt, Goto, InFlight, SeenOrOverlaps, Overlap,
             OwnVotes, OptionsOf, HasRead, Replaces
<1>1. CASE Start(r)
  BY <1>1 DEF Start
<1>2. CASE Ends(r)
  BY <1>2 DEF Ends, Reject, Finish, NoWrite
<1>3. CASE Read(r)
  BY <1>3 DEF Read, NoWrite, Calls, Ops
<1>4. CASE ValidateCreate(r)
  BY <1>4 DEF ValidateCreate, NoWrite
<1>5. CASE CommitCreate(r)
  BY <1>5 DEF CommitCreate, Commit, CreatedOptions, NewOptions
<1>6. CASE FlushColumns(r)
  BY <1>6 DEF FlushColumns, NoWrite
<1>7. CASE CountVotes(r)
  BY <1>7 DEF CountVotes, NoWrite, HasVotes
<1>8. CASE ReplaceOptions(r)
  BY <1>8 DEF ReplaceOptions, NoWrite
<1>9. CASE CommitUpdate(r)
  BY <1>9 DEF CommitUpdate, Commit, Dropped, Added, NewOptions
<1>10. CASE RemovePost(r)
  BY <1>10 DEF RemovePost, NoWrite
<1>11. CASE CommitDelete(r)
  BY <1>11 DEF CommitDelete, Commit
<1>12. CASE ReadExisting(r)
  BY <1>12 DEF ReadExisting, NoWrite
<1>13. CASE Unvote(r)
  BY <1>13 DEF Unvote, NoWrite
<1>14. CASE Vote(r)
  BY <1>14 DEF Vote, NoWrite
<1>15. CASE CommitVotes(r)
  BY <1>15 DEF CommitVotes, Commit, Ballot
<1>16. CASE Audit(r)
  BY <1>16 DEF Audit, UnchangedButCrm, Finish
<1>17. CASE Notify(r)
  BY <1>17 DEF Notify, UnchangedButCrm, Finish
<1>. QED
  BY <1>1, <1>2, <1>3, <1>4, <1>5, <1>6, <1>7, <1>8, <1>9, <1>10, <1>11, <1>12,
         <1>13, <1>14, <1>15, <1>16, <1>17 DEF Moves

\* The swap of cast_vote: one ballot per voter, but for overlapping casts.
LEMMA OneBallotMoves ==
    ASSUME TypeOK, Control, Knowledge, ExistingOfVoters, Provenance, LocksHold,
           LocksExclude, Integrity, SeenOrOverlaps, OneBallotPerVoter,
           NEW r \in Requests, Moves(r)
    PROVE  OneBallotPerVoter'
<1>. USE DEF TypeOK, OneBallotPerVoter, Goto, InFlight, Overlap
<1>1. CASE CommitCreate(r)
  BY <1>1 DEF CommitCreate, Commit, Integrity, Provenance, Control, Committed, VoteRows
<1>2. CASE CommitUpdate(r)
  <2>1. \A x \in votes : posts'[x.post].type = posts[x.post].type
    BY <1>2, UpdateKeepsPosts DEF Integrity, VoteRows, OptionRows
  <2>. QED
    BY <1>2, <2>1 DEF CommitUpdate, Commit
<1>3. CASE CommitDelete(r)
  BY <1>3 DEF CommitDelete, Commit, Integrity, VoteRows
<1>4. CASE CommitVotes(r)
  <2>. DEFINE kept == votes \ existing[r]
              added == IF call[r].op = "cast" THEN Ballot(r) ELSE {}
  <2>1. votes' = kept \cup added /\ posts' = posts /\ before' = before
    BY <1>4 DEF CommitVotes, Commit
  <2>2. \A x \in added : /\ x.option \in call[r].selected /\ x.voter = call[r].user
                         /\ x.post = call[r].post /\ x.by = r
                         /\ x = [post |-> x.post, option |-> x.option,
                                 voter |-> x.voter, by |-> x.by]
    BY DEF Ballot
  <2>3. ASSUME NEW x \in added, NEW y \in added, x # y
        PROVE  posts[x.post].type = "multiple"
    <3>1. x.option \in options /\ x.option.post = x.post /\ x.post \in Requests
      BY <1>4, <2>2, <2>3 DEF CommitVotes, LocksHold, Knowledge, HasRead, Control, Calls
    <3>2. posts[x.post] # Null /\ IsPoll(posts[x.post].type)
      BY <3>1 DEF Integrity
    <3>3. x.option # y.option
      BY <2>2, <2>3
    <3>4. loaded[r].row.type # "single"
      BY <1>4, <2>2, <2>3, <3>3 DEF CommitVotes, Knowledge, HasRead
    <3>5. posts[x.post].type = loaded[r].row.type
      BY <1>4, <2>2, <2>3, <3>1, <3>2 DEF CommitVotes, Knowledge, HasRead, Provenance
    <3>. QED
      BY <3>1, <3>2, <3>4, <3>5 DEF PostRows, PostType, IsPoll
  <2>4. \A x \in added, y \in kept : x.post = y.post /\ x.voter = y.voter =>
            x.by # y.by /\ Overlap(x.by, y.by)
    BY <1>4, <2>2
       DEF CommitVotes, Control, Committed, OpAt, SeenOrOverlaps, OwnVotes, Provenance
  <2>. QED
    BY <2>1, <2>2, <2>3, <2>4
<1>5. CASE Start(r)
  BY <1>5 DEF Start, Provenance, Control, Committed
<1>6. CASE Quiet
  BY <1>6 DEF Quiet
<1>. QED
  BY <1>1, <1>2, <1>3, <1>4, <1>5, <1>6, CommitCases

\* One submission of options, but for overlapping submissions.
LEMMA OneSubmissionMoves ==
    ASSUME TypeOK, Control, Knowledge, ExistingOfVoters, Provenance, LocksHold,
           LocksExclude, Integrity, SeenOrOverlaps, OptionsFromOneSubmission,
           NEW r \in Requests, Moves(r)
    PROVE  OptionsFromOneSubmission'
<1>. USE DEF TypeOK, OptionsFromOneSubmission, Goto, InFlight, Overlap
<1>1. CASE CommitCreate(r)
  BY <1>1
     DEF CommitCreate, Commit, Control, CreatedOptions, NewOptions, Integrity,
            Provenance, Committed, OpAt
<1>2. CASE CommitUpdate(r)
  BY <1>2
     DEF CommitUpdate, Commit, Control, OpAt, SeenOrOverlaps, HasRead, OptionsOf,
            Added, Dropped, NewOptions, Replaces
<1>3. CASE CommitDelete(r)
  BY <1>3 DEF CommitDelete, Commit
<1>4. CASE CommitVotes(r)
  BY <1>4 DEF CommitVotes, Commit
<1>5. CASE Start(r)
  BY <1>5 DEF Start, Provenance, Control, Committed
<1>6. CASE Quiet
  BY <1>6 DEF Quiet
<1>. QED
  BY <1>1, <1>2, <1>3, <1>4, <1>5, <1>6, CommitCases

\* A poll keeps at least two options.
LEMMA ChoiceMoves ==
    ASSUME TypeOK, Control, Knowledge, ExistingOfVoters, Provenance, LocksHold,
           LocksExclude, Integrity, PollOffersChoice,
           NEW r \in Requests, Moves(r)
    PROVE  PollOffersChoice'
<1>. USE DEF TypeOK, PollOffersChoice, Goto, InFlight
<1>1. CASE Start(r)
  BY <1>1 DEF Start
<1>2. CASE Ends(r)
  BY <1>2 DEF Ends, Reject, Finish, NoWrite
<1>3. CASE Read(r)
  BY <1>3 DEF Read, NoWrite
<1>4. CASE ValidateCreate(r)
  BY <1>4 DEF ValidateCreate, NoWrite
<1>5. CASE CommitCreate(r)
  <2>1. \A p \in Requests \ {r} : posts'[p] = posts[p]
    BY <1>5 DEF CommitCreate
  <2>2. posts'[r].type = call[r].type
    BY <1>5 DEF CommitCreate, NewPost
  <2>3. IsPoll(call[r].type) => call[r].options \in Nat /\ call[r].options >= 2
    BY <1>5 DEF CommitCreate, Provenance, Control, Calls
  <2>4. IsPoll(call[r].type) =>
            \E o, o2 \in CreatedOptions(r) : o # o2 /\ o.post = r /\ o2.post = r
    BY <2>3, TwoOptions DEF CreatedOptions
  <2>. QED
    BY <1>5, <2>1, <2>2, <2>4 DEF CommitCreate
<1>6. CASE FlushColumns(r)
  BY <1>6 DEF FlushColumns, NoWrite
<1>7. CASE CountVotes(r)
  BY <1>7 DEF CountVotes, NoWrite
<1>8. CASE ReplaceOptions(r)
  BY <1>8 DEF ReplaceOptions, NoWrite
<1>9. CASE CommitUpdate(r)
  <2>1. \A p \in Requests : /\ posts'[p] = Null <=> posts[p] = Null
                            /\ posts[p] # Null => posts'[p].type = posts[p].type
    BY <1>9, UpdateKeepsPosts
  <2>2. CASE ~Replaces(r)
    BY <1>9, <2>1, <2>2 DEF CommitUpdate, Dropped, Added
  <2>3. CASE Replaces(r)
    <3>1. call[r].options \in Nat /\ call[r].options >= 2 /\ call[r].post \in Requests
      BY <1>9, <2>3 DEF CommitUpdate, Control, Knowledge, HasRead, Replaces, Calls
    <3>2. \E o, o2 \in Added(r) : o # o2 /\ o.post = call[r].post /\ o2.post = call[r].post
      BY <2>3, <3>1, TwoOptions DEF Added
    <3>3. \A o \in Dropped(r) : o.post = call[r].post
      BY <1>9 DEF CommitUpdate, Dropped, Knowledge, HasRead
    <3>. QED
      BY <1>9, <2>1, <3>2, <3>3 DEF CommitUpdate
  <2>. QED
    BY <2>2, <2>3
<1>10. CASE RemovePost(r)
  BY <1>10 DEF RemovePost, NoWrite
<1>11. CASE CommitDelete(r)
  BY <1>11 DEF CommitDelete, Commit
<1>12. CASE ReadExisting(r)
  BY <1>12 DEF ReadExisting, NoWrite
<1>13. CASE Unvote(r)
  BY <1>13 DEF Unvote, NoWrite
<1>14. CASE Vote(r)
  BY <1>14 DEF Vote, NoWrite
<1>15. CASE CommitVotes(r)
  BY <1>15 DEF CommitVotes, Commit
<1>16. CASE Audit(r)
  BY <1>16 DEF Audit, UnchangedButCrm, Finish
<1>17. CASE Notify(r)
  BY <1>17 DEF Notify, UnchangedButCrm, Finish
<1>. QED
  BY <1>1, <1>2, <1>3, <1>4, <1>5, <1>6, <1>7, <1>8, <1>9, <1>10, <1>11, <1>12,
         <1>13, <1>14, <1>15, <1>16, <1>17 DEF Moves

\* A cast vote is kept until something supersedes it.
LEMMA KeptMoves ==
    ASSUME TypeOK, Control, Knowledge, ExistingOfVoters, Provenance, LocksHold,
           LocksExclude, Integrity, SeenOrOverlaps, CastVoteIsKept,
           NEW r \in Requests, Moves(r)
    PROVE  CastVoteIsKept'
<1>. USE DEF TypeOK, CastVoteIsKept, Goto, InFlight, Ballot, Supersedes, Overlap
<1>1. CASE CommitCreate(r)
  BY <1>1 DEF CommitCreate, Commit, Control, OpAt
<1>2. CASE CommitUpdate(r)
  <2>. SUFFICES ASSUME NEW b \in applied', call'[b].op = "cast",
                       ~(Ballot(b)' \subseteq votes')
                PROVE  (\E w \in applied : Supersedes(w, b))'
    BY DEF CastVoteIsKept
  <2>1. /\ b \in applied /\ b # r /\ r \notin applied /\ pc[r] # "done"
        /\ call' = call /\ call[b].op = "cast" /\ Ballot(b)' = Ballot(b)
    BY <1>2 DEF CommitUpdate, Commit, Control, Committed
  <2>2. CASE \E w \in applied : Supersedes(w, b)
    BY <1>2, <2>1, <2>2 DEF CommitUpdate, Commit
  <2>3. CASE Ballot(b) \subseteq votes
    <3>1. PICK x \in Ballot(b) : x \in votes /\ x.option \in Dropped(r)
      BY <1>2, <2>1, <2>3 DEF CommitUpdate, Commit
    <3>2. Replaces(r) /\ x.option.post = call[r].post
      BY <1>2, <3>1 DEF CommitUpdate, Dropped, Knowledge, HasRead
    <3>3. x.post = call[r].post /\ x.by = b /\ x.post = call[b].post
      BY <3>1, <3>2 DEF Integrity
    <3>4. Overlap(b, r)
      BY <1>2, <3>1, <3>2, <3>3 DEF CommitUpdate, SeenOrOverlaps
    <3>5. r \in applied' /\ before' = before
      BY <1>2 DEF CommitUpdate, Commit
    <3>6. call[r].op = "update" /\ call[r].options # Null /\ r \notin before[b]
      BY <1>2, <2>1, <3>2, <3>4 DEF CommitUpdate, Replaces
    <3>7. Supersedes(r, b)'
      BY <2>1, <3>2, <3>3, <3>4, <3>5, <3>6
    <3>. QED
      BY <3>5, <3>7
  <2>. QED
    BY <2>1, <2>2, <2>3
<1>3. CASE CommitDelete(r)
  BY <1>3 DEF CommitDelete, Commit, Control
<1>4. CASE CommitVotes(r)
  BY <1>4 DEF CommitVotes, Commit, Control, Knowledge, HasRead, OpAt, Calls
<1>5. CASE Start(r)
  BY <1>5 DEF Start, Control, Committed
<1>6. CASE Quiet
  BY <1>6 DEF Quiet
<1>. QED
  BY <1>1, <1>2, <1>3, <1>4, <1>5, <1>6, CommitCases

\* A voter found the poll open, or the deadline has moved since.
LEMMA FoundOpenMoves ==
    ASSUME TypeOK, Control, Knowledge, ExistingOfVoters, Provenance, LocksHold,
           LocksExclude, Integrity, FoundOpen,
           NEW r \in Requests, Moves(r)
    PROVE  FoundOpen'
<1>. USE DEF TypeOK, Control, OpAt, Goto, InFlight, FoundOpen, Voting,
             DeadlineMovedDuring, Overlap, PollEnded
<1>1. CASE Start(r)
  BY <1>1 DEF Start, Committed
<1>2. CASE Ends(r)
  BY <1>2 DEF Ends, Reject, Finish, NoWrite
<1>3. CASE Read(r)
  <2>1. CASE call[r].op \in {"cast", "retract"}
    <3>1. posts[call[r].post] # Null /\ ~PollEnded(posts[call[r].post], now)
      BY <1>3, <2>1 DEF Read, Refusal, RowInScope, VotingClosed
    <3>2. posts[call[r].post] \in PostRows /\ "expires" \in Columns
      BY <1>3, <3>1 DEF Read, Calls, Columns
    <3>3. ~PollEnded(posts[call[r].post], since[r])
      BY <3>1, <3>2 DEF PostRows
    <3>. QED
      BY <1>3, <3>3 DEF Read, NoWrite
  <2>2. CASE call[r].op \notin {"cast", "retract"}
    BY <1>3, <2>2 DEF Read, NoWrite
  <2>. QED
    BY <2>1, <2>2
<1>4. CASE ValidateCreate(r)
  BY <1>4 DEF ValidateCreate, NoWrite
<1>5. CASE CommitCreate(r)
  BY <1>5 DEF CommitCreate, Commit, Knowledge, HasRead, Provenance, Committed
<1>6. CASE FlushColumns(r)
  BY <1>6 DEF FlushColumns, NoWrite
<1>7. CASE CountVotes(r)
  BY <1>7 DEF CountVotes, NoWrite
<1>8. CASE ReplaceOptions(r)
  BY <1>8 DEF ReplaceOptions, NoWrite
<1>9. CASE CommitUpdate(r)
  <2>. SUFFICES ASSUME NEW b \in Requests,
                       pc'[b] \in {"read", "unvote", "vote", "commit"},
                       call'[b].op \in {"cast", "retract"}, posts'[call'[b].post] # Null,
                       PollEnded(posts[call[b].post], since[b])'
                PROVE  DeadlineMovedDuring(b, call[b].post)'
    OBVIOUS
  <2>. DEFINE p == call[b].post
  <2>1. b # r /\ pc[b] = pc'[b] /\ call' = call /\ since' = since /\ before' = before
        /\ p \in Requests /\ pc[r] = "commit" /\ applied' = applied \cup {r}
    BY <1>9 DEF CommitUpdate, Commit, Calls
  <2>2. posts[p] # Null
    BY <1>9, <2>1, UpdateKeepsPosts
  <2>3. CASE DeadlineMovedDuring(b, p)
    BY <2>1, <2>3
  <2>4. CASE ~PollEnded(posts[p], since[b])
    <3>1. posts'[p] # posts[p]
      BY <2>1, <2>4
    <3>2. p = call[r].post /\ Dirty(r) # {} /\ posts'[p] = Merged(r)
      BY <1>9, <2>1, <3>1, UpdateKeepsPosts DEF CommitUpdate
    <3>3. "expires" \in Dirty(r)
      BY <1>9, <2>1, <2>4, <3>2, MergedIsARow DEF Columns
    <3>4. call[r].set["expires"] # Null
      BY <3>3 DEF Dirty, Assigned
    <3>5. Overlap(r, b)
      BY <2>1
    <3>. QED
      BY <1>9, <2>1, <3>2, <3>4, <3>5 DEF CommitUpdate
  <2>. QED
    BY <2>1, <2>2, <2>3, <2>4
<1>10. CASE RemovePost(r)
  BY <1>10 DEF RemovePost, NoWrite
<1>11. CASE CommitDelete(r)
  BY <1>11 DEF CommitDelete, Commit
<1>12. CASE ReadExisting(r)
  BY <1>12 DEF ReadExisting, NoWrite
<1>13. CASE Unvote(r)
  BY <1>13 DEF Unvote, NoWrite
<1>14. CASE Vote(r)
  BY <1>14 DEF Vote, NoWrite
<1>15. CASE CommitVotes(r)
  BY <1>15 DEF CommitVotes, Commit
<1>16. CASE Audit(r)
  BY <1>16 DEF Audit, UnchangedButCrm, Finish
<1>17. CASE Notify(r)
  BY <1>17 DEF Notify, UnchangedButCrm, Finish
<1>. QED
  BY <1>1, <1>2, <1>3, <1>4, <1>5, <1>6, <1>7, <1>8, <1>9, <1>10, <1>11, <1>12,
         <1>13, <1>14, <1>15, <1>16, <1>17 DEF Moves

\* A replacement discards only votes whose cast overlapped it.
LEMMA ReplacementMoves ==
    ASSUME TypeOK, Control, Knowledge, Integrity, SeenOrOverlaps,
           NEW r \in Requests, Moves(r),
           NEW x \in votes \ votes', posts'[x.post] # Null, x.option \notin options'
    PROVE  /\ pc[r] = "commit" /\ Replaces(r)
           /\ call[r].post = x.post /\ Overlap(x.by, r)
<1>1. CASE CommitUpdate(r)
  <2>1. Replaces(r) /\ x.option \in loaded[r].options /\ pc[r] = "commit"
    BY <1>1 DEF CommitUpdate, Dropped
  <2>2. call[r].post = x.post
    BY <2>1 DEF Knowledge, HasRead, Integrity
  <2>. QED
    BY <2>1, <2>2 DEF SeenOrOverlaps
<1>2. CASE CommitDelete(r)
  BY <1>2 DEF CommitDelete, Control, Calls, TypeOK
<1>3. CASE CommitVotes(r) \/ CommitCreate(r)
  BY <1>3 DEF CommitVotes, CommitCreate, Integrity
<1>4. CASE votes' = votes
  BY <1>4
<1>. QED
  BY <1>1, <1>2, <1>3, <1>4, CommitCases DEF Quiet, Start

\* A vote stored by a move was cast before the deadline, unless it moved.
LEMMA ClosedPollMoves ==
    ASSUME TypeOK, Control, Knowledge, LocksHold, Integrity, FoundOpen,
           NEW r \in Requests, Moves(r), NEW x \in votes' \ votes
    PROVE  ~PollEnded(posts[x.post], since[x.by]) \/ DeadlineMovedDuring(x.by, x.post)
<1>1. CASE CommitVotes(r)
  <2>1. x \in Ballot(r) /\ call[r].op = "cast" /\ pc[r] = "commit"
    BY <1>1 DEF CommitVotes
  <2>2. x.by = r /\ x.post = call[r].post /\ x.option \in call[r].selected
    BY <2>1 DEF Ballot
  <2>3. x.option \in options /\ x.option.post = x.post
    BY <2>1, <2>2 DEF LocksHold, Knowledge, HasRead
  <2>4. posts[x.post] # Null
    BY <2>3 DEF Integrity
  <2>. QED
    BY <2>1, <2>2, <2>4 DEF FoundOpen, Voting
<1>2. CASE CommitUpdate(r) \/ CommitDelete(r)
  BY <1>2 DEF CommitUpdate, CommitDelete
<1>3. CASE votes' = votes
  BY <1>3
<1>. QED
  BY <1>1, <1>2, <1>3, CommitCases DEF Quiet, Start, CommitCreate

----------------------------------------------------------------------------
(* The theorems *)

LEMMA InitIInv ==
    Init => IInv
BY DEF Init, IInv, TypeOK, InFlight, Status, Control, OpAt, Committed, Knowledge,
       HasRead, ExistingOfVoters, Provenance, LocksHold, LocksExclude, Integrity,
       OneRowPerOption, OneBallotPerVoter, OptionsFromOneSubmission,
       PollOffersChoice, CastVoteIsKept, SeenOrOverlaps, FoundOpen, Voting,
       UpdatesPost, AddsOptionTo, DeletesPost

LEMMA MovesIInv ==
    ASSUME IInv, NEW r \in Requests, Moves(r)
    PROVE  IInv'
BY TypeMoves, ControlMoves, KnowledgeMoves, ExistingMoves, ProvenanceMoves,
   LocksHoldMoves, LocksExcludeMoves, IntegrityMoves, OneRowMoves, SeenMoves,
   OneBallotMoves, OneSubmissionMoves, ChoiceMoves, KeptMoves, FoundOpenMoves
   DEF IInv

LEMMA TickIInv ==
    ASSUME IInv, Tick \/ UNCHANGED vars
    PROVE  IInv'
<1>. USE DEF Tick, vars
<1>1. TypeOK'
  BY DEF IInv, TypeOK
<1>2. Control'
  BY DEF IInv, TypeOK, Control, OpAt
<1>3. Knowledge' /\ ExistingOfVoters'
  BY DEF IInv, Knowledge, ExistingOfVoters, Replaces
<1>4. Provenance' /\ Integrity' /\ OneRowPerOption' /\ OneBallotPerVoter'
  BY DEF IInv, Provenance, Integrity, OneRowPerOption, OneBallotPerVoter, Ballot,
         Overlap
<1>5. LocksHold'
  BY DEF IInv, LocksHold, UpdatesPost, AddsOptionTo, Twin, Dirty, Assigned, Replaces
<1>6. LocksExclude'
  BY DEF IInv, LocksExclude, UpdatesPost, AddsOptionTo, DeletesPost, DeletesOption,
         AddsVoteOn, Dirty, Assigned, Replaces
<1>7. OptionsFromOneSubmission' /\ PollOffersChoice' /\ CastVoteIsKept'
  BY DEF IInv, OptionsFromOneSubmission, PollOffersChoice, CastVoteIsKept, Overlap,
         Ballot, Supersedes
<1>8. SeenOrOverlaps'
  BY DEF IInv, SeenOrOverlaps, OwnVotes, OptionsOf, Overlap, Replaces
<1>9. FoundOpen'
  BY DEF IInv, FoundOpen, Voting, DeadlineMovedDuring, Overlap, PollEnded
<1>. QED
  BY <1>1, <1>2, <1>3, <1>4, <1>5, <1>6, <1>7, <1>8, <1>9 DEF IInv

\* Every step of the program is a move of one handler, or changes no table.
LEMMA InductiveStep ==
    IInv /\ [Next]_vars => IInv'
<1>. SUFFICES ASSUME IInv, [Next]_vars PROVE IInv'
  OBVIOUS
<1>1. ASSUME NEW r \in Requests, Start(r) \/ Step(r) \/ Fail(r) PROVE IInv'
  BY <1>1, StepCases, MovesIInv DEF IInv
<1>. QED
  BY <1>1, TickIInv DEF Next, Terminated

\* IInv holds in every reachable state.
THEOREM Invariance ==
    Spec => []IInv
BY InitIInv, InductiveStep, PTL DEF Spec

\* Type correctness.
THEOREM TypeCorrect ==
    Spec => []TypeOK
BY Invariance, PTL DEF IInv

\* The foreign keys hold, and a vote's poll is its option's poll, however
\* casts, replacements and deletions interleave.
THEOREM IntegrityHolds ==
    Spec => []Integrity
BY Invariance, PTL DEF IInv

\* However casts race, a voter counts at most once for an option.
THEOREM OneRowPerOptionHolds ==
    Spec => []OneRowPerOption
BY Invariance, PTL DEF IInv

\* A voter's rows on a poll are one ballot, unless casts overlapped.
THEOREM OneBallotPerVoterHolds ==
    Spec => []OneBallotPerVoter
BY Invariance, PTL DEF IInv

\* The options of a poll are one submission, unless submissions overlapped.
THEOREM OptionsFromOneSubmissionHolds ==
    Spec => []OptionsFromOneSubmission
BY Invariance, PTL DEF IInv

\* A poll never has fewer than two options.
THEOREM PollOffersChoiceHolds ==
    Spec => []PollOffersChoice
BY Invariance, PTL DEF IInv

\* A cast vote is stored until something that may undo it does.
THEOREM CastVoteIsKeptHolds ==
    Spec => []CastVoteIsKept
BY Invariance, PTL DEF IInv

\* Audit entries, notifications and successful answers speak of commits that
\* happened.
THEOREM RecordsSpeakTrueHolds ==
    Spec => []RecordsSpeakTrue
<1>1. IInv => RecordsSpeakTrue
  BY DEF IInv, Provenance, Control, RecordsSpeakTrue
<1>. QED
  BY <1>1, Invariance, PTL

\* Replacing the options spares every vote whose cast did not overlap it.
THEOREM ReplacementSparesSettledVotesHolds ==
    Spec => ReplacementSparesSettledVotes
<1>. DEFINE Spared ==
       \A x \in votes \ votes' :
          posts'[x.post] # Null /\ x.option \notin options' =>
              \E u \in Requests : /\ pc[u] = "commit" /\ Replaces(u)
                                  /\ call[u].post = x.post
                                  /\ Overlap(x.by, u)
<1>1. IInv /\ [Next]_vars => [Spared]_vars
  <2>. SUFFICES ASSUME IInv, Next PROVE Spared \/ UNCHANGED vars
    OBVIOUS
  <2>1. ASSUME NEW r \in Requests, Start(r) \/ Step(r) \/ Fail(r) PROVE Spared
    <3>1. Moves(r)
      BY <2>1, StepCases DEF IInv
    <3>. QED
      BY <3>1, ReplacementMoves DEF IInv
  <2>2. ASSUME Tick PROVE Spared
    BY <2>2 DEF Tick
  <2>. QED
    BY <2>1, <2>2 DEF Next, Terminated
<1>. QED
  BY <1>1, Invariance, PTL DEF Spec, ReplacementSparesSettledVotes

\* No vote is stored after the deadline but from a cast that began before it,
\* unless the deadline was moved meanwhile.
THEOREM ClosedPollTakesNoNewVoterHolds ==
    Spec => ClosedPollTakesNoNewVoter
<1>. DEFINE InTime ==
       \A x \in votes' \ votes :
          \/ ~PollEnded(posts[x.post], since[x.by])
          \/ DeadlineMovedDuring(x.by, x.post)
<1>1. IInv /\ [Next]_vars => [InTime]_vars
  <2>. SUFFICES ASSUME IInv, Next PROVE InTime \/ UNCHANGED vars
    OBVIOUS
  <2>1. ASSUME NEW r \in Requests, Start(r) \/ Step(r) \/ Fail(r) PROVE InTime
    <3>1. Moves(r)
      BY <2>1, StepCases DEF IInv
    <3>. QED
      BY <3>1, ClosedPollMoves DEF IInv
  <2>2. ASSUME Tick PROVE InTime
    BY <2>2 DEF Tick
  <2>. QED
    BY <2>1, <2>2 DEF Next, Terminated
<1>. QED
  BY <1>1, Invariance, PTL DEF Spec, ClosedPollTakesNoNewVoter
=============================================================================
