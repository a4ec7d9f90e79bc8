------------------------ MODULE NewsBoardRefinement ------------------------
(***************************************************************************)
(* NewsBoard implements BallotBox, for every set of requests and every     *)
(* menu: each commit is one effect of the box on the board that the tables *)
(* show (Board), and every other step leaves the board as it is.           *)
(***************************************************************************)
EXTENDS NewsBoardProofs

USE NullAssumption, BoundsAssumption, EntriesAssumption

\* What the refinement needs beside IInv: a handler that has read a post
\* belongs to its community, and nobody asks before beginning.
InScope ==
    \A r \in Requests :
        /\ pc[r] = "idle" => call[r] = Null
        /\ pc[r] \in HasRead /\ posts[call[r].post] # Null =>
              posts[call[r].post].community = call[r].community

----------------------------------------------------------------------------
(* The board that the tables show *)

\* A post is on the board if its row exists, with its options and votes.
LEMMA BoardAt ==
    ASSUME TypeOK, NEW p \in Requests
    PROVE  /\ Board[p] = Null <=> posts[p] = Null
           /\ posts[p] # Null =>
                 /\ Board[p].community = posts[p].community
                 /\ Board[p].type = posts[p].type
                 /\ Board[p].options = OptionsOf(p)
                 /\ Board[p].votes = VotesOn(p)
<1>1. posts[p] # Null => Entry(p) \in Entries
  <2>. SUFFICES ASSUME posts[p] # Null PROVE Entry(p) \in Entries
    OBVIOUS
  <2>1. posts[p] \in PostRows
    BY DEF TypeOK
  <2>2. OptionsOf(p) \in SUBSET OptionRows
    BY DEF TypeOK, OptionsOf
  <2>3. VotesOn(p) \in SUBSET VoteRows
    BY DEF TypeOK, VotesOn
  <2>. HIDE DEF TypeOK
  <2>. QED
    BY <2>1, <2>2, <2>3 DEF Entry, Entries, PostRows
<1>2. Board[p] = IF posts[p] = Null THEN Null ELSE Entry(p)
  BY DEF Board
<1>. QED
  BY <1>1, <1>2 DEF Entry

\* A step that changes the rows of one post changes the board there only.
LEMMA OnlyOnePost ==
    ASSUME NEW p \in Requests,
           \A q \in Requests \ {p} : /\ posts'[q] = posts[q]
                                     /\ OptionsOf(q)' = OptionsOf(q)
                                     /\ VotesOn(q)' = VotesOn(q)
    PROVE  Board' = [Board EXCEPT ![p] = IF posts'[p] = Null THEN Null ELSE Entry(p)']
<1>1. \A q \in Requests \ {p} : Board'[q] = Board[q]
  BY DEF Board, Entry
<1>2. Board'[p] = IF posts'[p] = Null THEN Null ELSE Entry(p)'
  BY DEF Board
<1>. QED
  BY <1>1, <1>2 DEF Board

\* A step that leaves the tables alone leaves the board alone.
LEMMA BoardStands ==
    ASSUME UNCHANGED tables
    PROVE  Board' = Board
BY DEF tables, Board, Entry, OptionsOf, VotesOn

\* A commit is a request's first, and its last effect.
LEMMA FirstCommit ==
    ASSUME IInv, NEW r \in Requests, Commit(r), pc[r] \in {"create", "commit"}
    PROVE  /\ r \notin applied /\ applied' = applied \cup {r} /\ call' = call
           /\ call[r] \in Calls /\ call[r] # Null /\ call[r].post \in Requests
<1>1. r \notin applied /\ call[r] \in Calls
  <2>1. Control
    BY DEF IInv
  <2>2. pc[r] # "idle" /\ pc[r] \notin Committed \cup {"done"}
    BY DEF Committed
  <2>. QED
    BY <2>1, <2>2 DEF Control
<1>2. call[r].post \in Requests
  BY <1>1 DEF Calls
<1>. QED
  BY <1>1, <1>2 DEF Commit

----------------------------------------------------------------------------
(* Each commit is one effect of the box *)

\* create_post: the post and its options appear together, under a new id.
LEMMA CreatePublishes ==
    ASSUME IInv, NEW r \in Requests, CommitCreate(r)
    PROVE  Box!TakesEffect(r)
<1>1. TypeOK /\ Control /\ Provenance /\ Integrity
  BY DEF IInv
<1>2. pc[r] = "create" /\ Commit(r) /\ votes' = votes
      /\ posts' = [posts EXCEPT ![r] = NewPost(call[r])]
      /\ options' = options \cup CreatedOptions(r)
  BY DEF CommitCreate
<1>3. /\ r \notin applied /\ applied' = applied \cup {r} /\ call' = call
      /\ call[r] \in Calls /\ call[r] # Null
  BY <1>2, FirstCommit
<1>4. call[r].op = "create" /\ call[r].type \in PostType
  BY <1>1, <1>2, <1>3 DEF Control, OpAt, Calls
<1>5. posts[r] = Null
  BY <1>1, <1>3 DEF Provenance
<1>6. Board[r] = Null
  BY <1>1, <1>5, BoardAt
<1>7. OptionsOf(r) = {} /\ VotesOn(r) = {}
  BY <1>1, <1>5 DEF Integrity, OptionsOf, VotesOn
<1>8. \A o \in CreatedOptions(r) : o.post = r
  BY DEF CreatedOptions, NewOptions
<1>9. \A q \in Requests \ {r} : /\ posts'[q] = posts[q]
                                /\ OptionsOf(q)' = OptionsOf(q)
                                /\ VotesOn(q)' = VotesOn(q)
  BY <1>1, <1>2, <1>8 DEF TypeOK, OptionsOf, VotesOn
<1>10. posts'[r] = NewPost(call[r]) /\ NewPost(call[r]) # Null
  <2>1. posts'[r] = NewPost(call[r])
    BY <1>1, <1>2 DEF TypeOK
  <2>2. call[r].set \in [Columns -> Nat \cup {Null}] /\ call[r].community \in Communities
    BY <1>3 DEF Calls
  <2>3. NewPost(call[r]) \in PostRows
    <3>. DEFINE cols == [c \in Columns |->
                  IF IsPoll(call[r].type) \/ c = "text" THEN call[r].set[c] ELSE Null]
    <3>1. cols \in [Columns -> Nat \cup {Null}]
      BY <2>2
    <3>. HIDE DEF cols
    <3>2. [community |-> call[r].community, type |-> call[r].type, cols |-> cols] \in PostRows
      BY <1>4, <2>2, <3>1 DEF PostRows
    <3>. QED
      BY <3>2 DEF cols, NewPost
  <2>. QED
    BY <2>1, <2>3
<1>11. NewPost(call[r]).community = call[r].community /\ NewPost(call[r]).type = call[r].type
  BY DEF NewPost
<1>12. OptionsOf(r)' = CreatedOptions(r) /\ VotesOn(r)' = {}
  BY <1>2, <1>7, <1>8 DEF OptionsOf, VotesOn
<1>13. CreatedOptions(r) = IF call[r].type = "post" THEN {} ELSE Box!Submitted(r, r)
  BY DEF CreatedOptions, IsPoll, NewOptions, Box!Submitted
<1>14. Entry(r)' = [community |-> call[r].community, type |-> call[r].type, votes |-> {},
                    options |-> IF call[r].type = "post" THEN {} ELSE Box!Submitted(r, r)]
  BY <1>10, <1>11, <1>12, <1>13 DEF Entry
<1>15. Board' = [Board EXCEPT ![r] = Entry(r)']
  BY <1>9, <1>10, OnlyOnePost
<1>16. call[r].type # "post" => call[r].options >= 2
  BY <1>1, <1>2 DEF Provenance, IsPoll
<1>17. Box!Publish(r)
  BY <1>4, <1>6, <1>14, <1>15, <1>16 DEF Box!Publish
<1>. QED
  BY <1>3, <1>17 DEF Box!TakesEffect

\* What Acts needs: the post that a committing request acts on.
LEMMA CommitActs ==
    ASSUME IInv, InScope, NEW r \in Requests, Commit(r), pc[r] = "commit",
           posts[call[r].post] # Null, NEW S, call[r].op \in S
    PROVE  /\ Box!Acts(r, S) /\ Box!Post(r) = Board[call[r].post]
           /\ Board[call[r].post] # Null
           /\ Board[call[r].post].type = loaded[r].row.type
           /\ loaded[r].row.type = posts[call[r].post].type
<1>1. TypeOK /\ Knowledge /\ Provenance
  BY DEF IInv
<1>2. call[r].post \in Requests
  BY FirstCommit
<1>3. pc[r] \in HasRead
  BY DEF HasRead
<1>4. posts[call[r].post].community = call[r].community
  BY <1>3 DEF InScope
<1>5. loaded[r].row.type = posts[call[r].post].type
  BY <1>1, <1>2, <1>3 DEF Knowledge, Provenance
<1>. QED
  BY <1>1, <1>2, <1>4, <1>5, BoardAt DEF Box!Acts, Box!Post

\* delete_post: the post goes with everything on it, or had gone before.
LEMMA DeleteWithdraws ==
    ASSUME IInv, InScope, NEW r \in Requests, CommitDelete(r)
    PROVE  Box!TakesEffect(r)
<1>. DEFINE p == call[r].post
<1>1. TypeOK /\ Integrity
  BY DEF IInv
<1>2. /\ pc[r] = "commit" /\ call[r].op = "delete" /\ Commit(r)
      /\ posts' = [posts EXCEPT ![p] = Null]
      /\ options' = {o \in options : o.post # p}
      /\ votes' = {x \in votes : x.post # p}
  BY DEF CommitDelete
<1>3. /\ r \notin applied /\ applied' = applied \cup {r} /\ call' = call
      /\ call[r] # Null /\ p \in Requests
  BY <1>2, FirstCommit
<1>4. \A q \in Requests \ {p} : /\ posts'[q] = posts[q]
                                /\ OptionsOf(q)' = OptionsOf(q)
                                /\ VotesOn(q)' = VotesOn(q)
  BY <1>1, <1>2 DEF TypeOK, OptionsOf, VotesOn
<1>5. posts'[p] = Null
  BY <1>1, <1>2, <1>3 DEF TypeOK
<1>6. Board' = [Board EXCEPT ![p] = Null]
  BY <1>3, <1>4, <1>5, OnlyOnePost
<1>7. CASE posts[p] # Null
  <2>1. Box!Acts(r, {"delete"})
    BY <1>2, <1>7, CommitActs
  <2>. QED
    BY <1>3, <1>6, <2>1 DEF Box!Withdraw, Box!TakesEffect
<1>8. CASE posts[p] = Null
  <2>1. Board[p] = Null
    BY <1>1, <1>3, <1>8, BoardAt
  <2>2. Board' = Board
    BY <1>3, <1>6, <2>1 DEF Board
  <2>. QED
    BY <1>2, <1>3, <2>1, <2>2 DEF Box!TooLate, Box!Post, Box!TakesEffect
<1>. QED
  BY <1>7, <1>8

\* cast_vote, retract_vote: own rows go and the ballot comes at once, or the
\* post had gone before.
LEMMA VotesPoll ==
    ASSUME IInv, InScope, NEW r \in Requests, CommitVotes(r)
    PROVE  Box!TakesEffect(r)
<1>0. PICK p \in Requests : p = call[r].post
  <2>1. Commit(r) /\ pc[r] = "commit"
    BY DEF CommitVotes
  <2>. QED
    BY <2>1, FirstCommit
<1>. DEFINE gone == existing[r] \cap VotesOn(p)
<1>1. TypeOK /\ Integrity /\ Knowledge /\ LocksHold
  BY DEF IInv
<1>2. /\ pc[r] = "commit" /\ call[r].op \in {"cast", "retract"} /\ Commit(r)
      /\ votes' = (votes \ existing[r]) \cup Box!Ballot(r)
      /\ posts' = posts /\ options' = options
  BY DEF CommitVotes, Ballot, Box!Ballot
<1>3. /\ r \notin applied /\ applied' = applied \cup {r} /\ call' = call
      /\ call[r] # Null /\ p \in Requests
  BY <1>2, FirstCommit
<1>4. /\ \A x \in existing[r] : x.post = p /\ x.voter = call[r].user
      /\ call[r].op = "cast" =>
            /\ IsPoll(loaded[r].row.type)
            /\ loaded[r].row.type = "single" => \A o, o2 \in call[r].selected : o = o2
            /\ \A o \in call[r].selected : o.post = p
  BY <1>0, <1>1, <1>2 DEF Knowledge, HasRead
<1>5. call[r].op = "cast" => call[r].selected \subseteq OptionsOf(p)
  BY <1>1, <1>2, <1>4 DEF LocksHold, OptionsOf
<1>6. \A x \in Box!Ballot(r) : x.post = p
  BY <1>0 DEF Box!Ballot
<1>7. VotesOn(p)' = (VotesOn(p) \ gone) \cup Box!Ballot(r)
  <2>1. \A x : x \in VotesOn(p)' <=> x \in votes' /\ x.post = p
    BY DEF VotesOn
  <2>2. \A x : x \in VotesOn(p) <=> x \in votes /\ x.post = p
    BY DEF VotesOn
  <2>. QED
    BY <1>2, <1>6, <2>1, <2>2
<1>8. OptionsOf(p)' = OptionsOf(p)
  BY <1>2 DEF OptionsOf
<1>9. \A q \in Requests \ {p} : /\ posts'[q] = posts[q]
                                /\ OptionsOf(q)' = OptionsOf(q)
                                /\ VotesOn(q)' = VotesOn(q)
  BY <1>2, <1>4, <1>6 DEF OptionsOf, VotesOn
<1>10. Board' = [Board EXCEPT ![p] = IF posts'[p] = Null THEN Null ELSE Entry(p)']
  BY <1>3, <1>9, OnlyOnePost
<1>11. CASE posts[p] # Null
  <2>1. /\ Box!Acts(r, {"cast", "retract"}) /\ Box!Post(r) = Board[p]
        /\ Board[p].type = loaded[r].row.type
    BY <1>0, <1>2, <1>11, CommitActs
  <2>2. Board[p] = Entry(p)
    BY <1>3, <1>11 DEF Board
  <2>3. Board[p].options = OptionsOf(p) /\ Board[p].votes = VotesOn(p)
    BY <1>1, <1>3, <1>11, BoardAt
  <2>4. gone \in SUBSET Box!Own(r)
    BY <1>4, <2>1, <2>3 DEF Box!Own
  <2>5. Entry(p)' = [Entry(p) EXCEPT !.votes = (VotesOn(p) \ gone) \cup Box!Ballot(r)]
    <3>1. Entry(p)' = [community |-> posts[p].community, type |-> posts[p].type,
                       options |-> OptionsOf(p), votes |-> VotesOn(p)']
      BY <1>2, <1>8 DEF Entry
    <3>2. Entry(p)' = [Entry(p) EXCEPT !.votes = VotesOn(p)']
      BY <3>1 DEF Entry
    <3>. QED
      BY <1>7, <3>2
  <2>6. Board' = [Board EXCEPT ![p] =
            [Box!Post(r) EXCEPT !.votes = (Box!Post(r).votes \ gone) \cup Box!Ballot(r)]]
    <3>. HIDE DEF gone
    <3>. QED
      BY <1>2, <1>10, <1>11, <2>1, <2>2, <2>3, <2>5
  <2>7. call[r].op = "cast" =>
          /\ Box!Post(r).type # "post" /\ call[r].selected \subseteq Box!Post(r).options
          /\ Box!Post(r).type = "single" => \A o, o2 \in call[r].selected : o = o2
    BY <1>4, <1>5, <2>1, <2>3 DEF IsPoll
  <2>8. Box!Poll(r)
    <3>. HIDE DEF gone
    <3>. QED
      BY <1>0, <2>1, <2>4, <2>6, <2>7 DEF Box!Poll
  <2>. QED
    BY <1>3, <2>8 DEF Box!TakesEffect
<1>12. CASE posts[p] = Null
  <2>1. Board[p] = Null
    BY <1>1, <1>3, <1>12, BoardAt
  <2>2. Board' = Board
    BY <1>2, <1>3, <1>10, <1>12, <2>1 DEF Board
  <2>3. OptionsOf(p) = {}
    BY <1>1, <1>12 DEF Integrity, OptionsOf
  <2>. QED
    BY <1>0, <1>2, <1>3, <1>5, <2>1, <2>2, <2>3 DEF Box!TooLate, Box!Post, Box!TakesEffect
<1>. QED
  BY <1>11, <1>12

\* update_post: the options are replaced at once, with the votes on those that
\* go; or only columns change; or the post had gone before.
LEMMA UpdateReplaces ==
    ASSUME IInv, InScope, NEW r \in Requests, CommitUpdate(r)
    PROVE  Box!TakesEffect(r)
<1>0. PICK p \in Requests : p = call[r].post
  <2>1. Commit(r) /\ pc[r] = "commit"
    BY DEF CommitUpdate
  <2>. QED
    BY <2>1, FirstCommit
<1>. DEFINE kept == OptionsOf(p) \ Dropped(r)
<1>1. TypeOK /\ Control /\ Integrity /\ Knowledge /\ LocksHold /\ Provenance
  BY DEF IInv
<1>2. /\ pc[r] = "commit" /\ call[r].op = "update" /\ Commit(r)
      /\ options' = (options \ Dropped(r)) \cup Added(r)
      /\ votes' = {x \in votes : x.option \notin Dropped(r)}
  BY DEF CommitUpdate
<1>3. /\ r \notin applied /\ applied' = applied \cup {r} /\ call' = call
      /\ call[r] # Null /\ p \in Requests
  BY <1>2, FirstCommit
<1>4. \A q \in Requests : /\ posts'[q] = Null <=> posts[q] = Null
                          /\ q # p => posts'[q] = posts[q]
                          /\ posts[q] # Null => posts'[q].type = posts[q].type
  BY <1>0, <1>1, UpdateKeepsPosts
<1>5. posts[p] # Null => posts'[p].community = posts[p].community
  BY <1>1, <1>3 DEF CommitUpdate, Merged, TypeOK
<1>6. /\ \A o \in Dropped(r) : o.post = p
      /\ Added(r) = IF Replaces(r) THEN Box!Submitted(r, p) ELSE {}
      /\ \A o \in Added(r) : o.post = p /\ o.by = r
      /\ Replaces(r) => call[r].options # Null /\ call[r].options >= 2
  BY <1>0, <1>1, <1>2 DEF Knowledge, HasRead, Dropped, Added, NewOptions, Replaces, Box!Submitted
<1>7. \A q \in Requests \ {p} : /\ posts'[q] = posts[q]
                                /\ OptionsOf(q)' = OptionsOf(q)
                                /\ VotesOn(q)' = VotesOn(q)
  BY <1>1, <1>2, <1>4, <1>6 DEF OptionsOf, VotesOn, Integrity
<1>8. Board' = [Board EXCEPT ![p] = IF posts'[p] = Null THEN Null ELSE Entry(p)']
  BY <1>3, <1>7, OnlyOnePost
<1>9. OptionsOf(p)' = kept \cup Added(r)
  BY <1>2, <1>6 DEF OptionsOf
<1>10. VotesOn(p)' = {x \in VotesOn(p) : x.option \in kept}
  BY <1>1, <1>2 DEF VotesOn, OptionsOf, Integrity
<1>11. CASE posts[p] # Null
  <2>1. /\ Box!Acts(r, {"update"}) /\ Box!Post(r) = Board[p]
        /\ Board[p].type = loaded[r].row.type
    BY <1>0, <1>2, <1>11, CommitActs
  <2>2. Board[p] = Entry(p)
    BY <1>3, <1>11 DEF Board
  <2>3. Board[p].options = OptionsOf(p) /\ Board[p].votes = VotesOn(p)
    BY <1>1, <1>3, <1>11, BoardAt
  <2>4. Entry(p)' = [community |-> posts[p].community, type |-> posts[p].type,
                     options |-> kept \cup Added(r),
                     votes |-> {x \in VotesOn(p) : x.option \in kept}]
    <3>1. Entry(p)' = [community |-> posts[p].community, type |-> posts[p].type,
                       options |-> OptionsOf(p)', votes |-> VotesOn(p)']
      BY <1>4, <1>5, <1>11 DEF Entry
    <3>. QED
      BY <1>9, <1>10, <3>1
  <2>5. Board' = [Board EXCEPT ![p] = Entry(p)']
    BY <1>3, <1>4, <1>8, <1>11
  <2>6. CASE Replaces(r)
    <3>1. kept \in SUBSET Box!Post(r).options
      BY <2>1, <2>3
    <3>2. Box!Post(r).type # "post"
      BY <2>1, <2>6 DEF Replaces, IsPoll
    <3>3. Board' = [Board EXCEPT ![p] =
             [community |-> Box!Post(r).community, type |-> Box!Post(r).type,
              options |-> kept \cup Box!Submitted(r, p),
              votes |-> {x \in Box!Post(r).votes : x.option \in kept}]]
      <4>. HIDE DEF kept
      <4>1. Board[p].community = posts[p].community /\ Board[p].type = posts[p].type
        BY <1>1, <1>11, BoardAt
      <4>. QED
        BY <1>6, <2>1, <2>3, <2>4, <2>5, <2>6, <4>1
    <3>4. Box!Replace(r)
      <4>. HIDE DEF kept
      <4>. QED
        BY <1>0, <1>6, <2>1, <2>6, <3>1, <3>2, <3>3 DEF Box!Replace
    <3>. QED
      BY <1>3, <3>4 DEF Box!TakesEffect
  <2>7. CASE ~Replaces(r)
    <3>1. kept = OptionsOf(p) /\ Added(r) = {}
      BY <2>7 DEF Dropped, Added
    <3>2. {x \in VotesOn(p) : x.option \in kept} = VotesOn(p)
      BY <1>1, <3>1 DEF Integrity, VotesOn, OptionsOf
    <3>3. Entry(p)' = Entry(p)
      BY <2>4, <3>1, <3>2 DEF Entry
    <3>4. Board' = Board
      BY <1>3, <2>2, <2>5, <3>3 DEF Board
    <3>5. Box!Post(r).type # "post" => call[r].options = Null
      BY <1>2, <2>1, <2>7 DEF Replaces, IsPoll
    <3>. QED
      BY <1>3, <2>1, <3>4, <3>5 DEF Box!Reword, Box!TakesEffect
  <2>. QED
    BY <2>6, <2>7
<1>12. CASE posts[p] = Null
  <2>1. Board[p] = Null
    BY <1>1, <1>3, <1>12, BoardAt
  <2>2. Board' = Board
    BY <1>3, <1>4, <1>8, <1>12, <2>1 DEF Board
  <2>. QED
    BY <1>0, <1>2, <1>3, <2>1, <2>2 DEF Box!TooLate, Box!Post, Box!TakesEffect
<1>. QED
  BY <1>11, <1>12

----------------------------------------------------------------------------
(* A handler stays in the community of the post it read *)

\* No commit moves a post to another community, and only its creation brings
\* a post about.
LEMMA CommunityStands ==
    ASSUME IInv, NEW r \in Requests, Moves(r), NEW p \in Requests, posts'[p] # Null
    PROVE  \/ posts[p] # Null /\ posts'[p].community = posts[p].community
           \/ p \notin applied
<1>1. TypeOK /\ Control /\ Knowledge /\ LocksHold
  BY DEF IInv
<1>2. CASE CommitCreate(r)
  <2>1. r \notin applied
    BY <1>2, FirstCommit DEF CommitCreate
  <2>2. p # r => posts'[p] = posts[p]
    BY <1>1, <1>2 DEF CommitCreate, TypeOK
  <2>. QED
    BY <2>1, <2>2
<1>3. CASE CommitUpdate(r)
  <2>1. posts[p] # Null
    BY <1>1, <1>3, UpdateKeepsPosts
  <2>2. p = call[r].post /\ Dirty(r) # {} => posts'[p] = Merged(r)
    BY <1>1, <1>3 DEF CommitUpdate, TypeOK
  <2>3. p = call[r].post => Merged(r).community = posts[p].community
    BY <1>1, <2>1 DEF Merged, TypeOK, PostRows
  <2>4. ~(p = call[r].post /\ Dirty(r) # {}) => posts'[p] = posts[p]
    BY <1>1, <1>3, UpdateKeepsPosts
  <2>. QED
    BY <2>1, <2>2, <2>3, <2>4
<1>4. CASE CommitDelete(r)
  BY <1>1, <1>4 DEF CommitDelete, TypeOK
<1>5. CASE CommitVotes(r) \/ Start(r) \/ Quiet
  BY <1>5 DEF CommitVotes, Start, Quiet
<1>. QED
  BY <1>2, <1>3, <1>4, <1>5, CommitCases

\* What a move does to the places of the handlers.
LEMMA PlacesMove ==
    ASSUME TypeOK, Control, NEW r \in Requests, Moves(r), NEW q \in Requests
    PROVE  /\ pc'[q] = "idle" => pc[q] = "idle" /\ call'[q] = call[q]
           /\ pc'[q] \in HasRead =>
                 /\ call'[q] = call[q]
                 /\ pc[q] \in HasRead \/ (q = r /\ Read(r))
<1>1. CASE q # r
  <2>1. \A label : Goto(r, label) => pc'[q] = pc[q]
    BY <1>1 DEF Goto, TypeOK
  <2>2. \A status : Finish(r, status) => pc'[q] = pc[q]
    BY <2>1 DEF Finish
  <2>3. pc'[q] = pc[q]
    BY <2>1, <2>2 DEF Moves, Ends, Reject, Commit, Start, Read, ValidateCreate,
          CommitCreate, FlushColumns, CountVotes, ReplaceOptions, CommitUpdate, RemovePost,
          CommitDelete, ReadExisting, Unvote, Vote, CommitVotes, Audit, Notify
  <2>4. Start(r) => call'[q] = call[q]
    BY <1>1 DEF Start, TypeOK
  <2>5. ~Start(r) => call' = call
    BY CommitCases DEF Quiet, CommitCreate, CommitUpdate, CommitDelete, CommitVotes, Commit
  <2>. QED
    BY <2>3, <2>4, <2>5
<1>2. CASE q = r
  <2>1. CASE Start(r)
    BY <1>2, <2>1 DEF Start, Goto, TypeOK, HasRead
  <2>2. CASE Read(r)
    <3>1. call[r].op \in {"update", "delete", "cast", "retract"}
      BY <2>2 DEF Read, Control, Calls, Ops
    <3>2. pc'[r] \in {"columns", "remove", "read"} /\ call' = call
      BY <2>2, <3>1 DEF Read, Goto, NoWrite, TypeOK
    <3>. QED
      BY <1>2, <2>2, <3>2
  <2>3. CASE Ends(r) \/ Notify(r)
    BY <1>2, <2>3 DEF Ends, Reject, Notify, Finish, Goto, TypeOK, HasRead
  <2>4. CASE Audit(r)
    BY <1>2, <2>4 DEF Audit, Finish, Goto, TypeOK, HasRead
  <2>5. CASE ValidateCreate(r)
    BY <1>2, <2>5 DEF ValidateCreate, Goto, TypeOK, HasRead
  <2>6. CASE CommitCreate(r) \/ CommitUpdate(r) \/ CommitDelete(r) \/ CommitVotes(r)
    BY <1>2, <2>6 DEF CommitCreate, CommitUpdate, CommitDelete, CommitVotes, Commit,
                      Goto, TypeOK, HasRead
  <2>7. CASE FlushColumns(r) \/ CountVotes(r) \/ ReplaceOptions(r) \/ RemovePost(r)
    BY <1>2, <2>7 DEF FlushColumns, CountVotes, ReplaceOptions, RemovePost, Goto,
                      NoWrite, TypeOK, HasRead
  <2>8. CASE ReadExisting(r) \/ Unvote(r) \/ Vote(r)
    BY <1>2, <2>8 DEF ReadExisting, Unvote, Vote, Goto, NoWrite, TypeOK, HasRead
  <2>. QED
    BY <2>1, <2>2, <2>3, <2>4, <2>5, <2>6, <2>7, <2>8 DEF Moves
<1>. QED
  BY <1>1, <1>2

LEMMA InScopeMoves ==
    ASSUME IInv, InScope, NEW r \in Requests, Moves(r)
    PROVE  InScope'
<1>1. TypeOK /\ Knowledge /\ Control
  BY DEF IInv
<1>2. SUFFICES ASSUME NEW q \in Requests
               PROVE  /\ pc'[q] = "idle" => call'[q] = Null
                      /\ pc'[q] \in HasRead /\ posts'[call'[q].post] # Null =>
                            posts'[call'[q].post].community = call'[q].community
  BY DEF InScope
<1>3. pc'[q] = "idle" => call'[q] = Null
  BY <1>1, PlacesMove DEF InScope
<1>4. ASSUME pc'[q] \in HasRead, posts'[call'[q].post] # Null
      PROVE  posts'[call'[q].post].community = call'[q].community
  <2>1. /\ call'[q] = call[q]
        /\ pc[q] \in HasRead \/ (q = r /\ Read(r))
    BY <1>1, <1>4, PlacesMove
  <2>2. CASE pc[q] \in HasRead
    <3>1. call[q].post \in applied /\ call[q].post \in Requests
      BY <1>1, <2>2 DEF Knowledge, TypeOK
    <3>2. posts[call[q].post].community = call[q].community
          /\ posts'[call[q].post].community = posts[call[q].post].community
      BY <1>4, <2>1, <2>2, <3>1, CommunityStands DEF InScope
    <3>. QED
      BY <2>1, <3>2
  <2>3. CASE q = r /\ Read(r)
    <3>1. RowInScope(call[r]) # Null /\ posts' = posts
      BY <2>3 DEF Read, Refusal, NoWrite
    <3>. QED
      BY <2>1, <2>3, <3>1 DEF RowInScope
  <2>. QED
    BY <2>1, <2>2, <2>3
<1>. QED
  BY <1>3, <1>4

----------------------------------------------------------------------------
(* The refinement *)

LEMMA MovesRefine ==
    ASSUME IInv, InScope, NEW r \in Requests, Moves(r)
    PROVE  Box!Next \/ UNCHANGED <<Board, call, applied>>
<1>1. CommitCreate(r) \/ CommitUpdate(r) \/ CommitDelete(r) \/ CommitVotes(r)
        => Box!TakesEffect(r)
  BY CreatePublishes, UpdateReplaces, DeleteWithdraws, VotesPoll
<1>2. CASE Start(r)
  <2>1. call[r] = Null /\ \E k \in Menu[r] : call' = [call EXCEPT ![r] = k]
    BY <1>2 DEF Start, InScope
  <2>2. Board' = Board /\ applied' = applied
    BY <1>2, BoardStands DEF Start, tables
  <2>. QED
    BY <2>1, <2>2 DEF Box!Ask, Box!Next
<1>3. CASE Quiet
  BY <1>3, BoardStands DEF Quiet, tables
<1>. QED
  BY <1>1, <1>2, <1>3, CommitCases DEF Box!Next

\* The initial states are the box's, and every step is an effect or a stutter.
LEMMA StepRefines ==
    ASSUME IInv, InScope, [Next]_vars
    PROVE  /\ InScope'
           /\ Box!Next \/ UNCHANGED <<Board, call, applied>>
<1>1. TypeOK /\ Control
  BY DEF IInv
<1>2. ASSUME NEW r \in Requests, Start(r) \/ Step(r) \/ Fail(r)
      PROVE  InScope' /\ (Box!Next \/ UNCHANGED <<Board, call, applied>>)
  BY <1>1, <1>2, StepCases, InScopeMoves, MovesRefine
<1>3. CASE Tick \/ UNCHANGED vars
  <2>1. UNCHANGED <<posts, options, votes, call, applied, pc>>
    BY <1>3 DEF Tick, vars
  <2>2. InScope'
    BY <2>1 DEF InScope
  <2>. QED
    BY <2>1, <2>2, BoardStands DEF tables
<1>. QED
  BY <1>2, <1>3 DEF Next, Terminated

\* Every execution of the handlers, with all their interleavings and failures,
\* is an execution of the ballot box (service.py, NewsService): requests take
\* effect one by one, each at most once, as a whole, and only as it asked.
THEOREM BallotBoxImplemented == Spec => ImplementsBallotBox
<1>1. Init => InScope /\ Box!Init
  BY DEF Init, InScope, HasRead, Box!Init, Board
<1>2. IInv /\ InScope /\ [Next]_vars =>
        InScope' /\ [Box!Next]_<<Board, call, applied>>
  BY StepRefines
<1>. QED
  BY <1>1, <1>2, Invariance, PTL DEF Spec, Box!Spec, ImplementsBallotBox
=============================================================================
