----------------------------- MODULE BallotBox -----------------------------
(***************************************************************************)
(* What the news board promises its callers: a ballot box on which every   *)
(* request takes effect at most once, at one instant, as a whole and as it *)
(* asked.  It has no handlers, no statements, no locks and no failures.    *)
(*                                                                         *)
(* Two choices are left to the implementation, because its requests decide *)
(* on what they read earlier: which of the voter's own rows a cast or a    *)
(* retraction removes (\E gone), and which of the old options a            *)
(* replacement leaves beside the new ones (\E kept).  Nothing else is: a   *)
(* request never touches another post, another community's post or another *)
(* voter's rows, and votes go exactly when their option goes.              *)
(***************************************************************************)
EXTENDS Naturals

CONSTANTS
    Requests,   \* requests; the post created by one is named after it
    Menu,       \* what each request may ask for
    Null        \* no post; not asked yet; not given

VARIABLES
    board,      \* the posts: community, type, options and votes, or Null
    call,       \* what each request asks for
    done        \* the requests that have taken effect

Post(r) == board[call[r].post]

\* A request acts on posts of its own community only.
Acts(r, ops) ==
    /\ call[r].op \in ops
    /\ Post(r) # Null /\ Post(r).community = call[r].community

Submitted(r, p) == [post : {p}, by : {r}, n : 1 .. call[r].options]

Ballot(r) == IF call[r].op = "retract" THEN {}
             ELSE [post : {call[r].post}, option : call[r].selected,
                   voter : {call[r].user}, by : {r}]

Own(r) == {x \in Post(r).votes : x.voter = call[r].user}

----------------------------------------------------------------------------
Init ==
    /\ board = [p \in Requests |-> Null]
    /\ call = [r \in Requests |-> Null]
    /\ done = {}

Ask(r) ==
    /\ call[r] = Null
    /\ \E k \in Menu[r] : call' = [call EXCEPT ![r] = k]
    /\ UNCHANGED <<board, done>>

\* The post appears with all of its options.
Publish(r) ==
    /\ call[r].op = "create" /\ board[r] = Null
    /\ call[r].type # "post" => call[r].options >= 2
    /\ board' = [board EXCEPT ![r] =
          [community |-> call[r].community, type |-> call[r].type, votes |-> {},
           options |-> IF call[r].type = "post" THEN {} ELSE Submitted(r, r)]]

\* Own rows go and the ballot comes in one step, for options on offer.
Poll(r) ==
    /\ Acts(r, {"cast", "retract"})
    /\ call[r].op = "cast" =>
          /\ Post(r).type # "post" /\ call[r].selected \subseteq Post(r).options
          /\ Post(r).type = "single" => \A o, o2 \in call[r].selected : o = o2
    /\ \E gone \in SUBSET Own(r) :
          board' = [board EXCEPT ![call[r].post] =
             [Post(r) EXCEPT !.votes = (Post(r).votes \ gone) \cup Ballot(r)]]

\* New options come and old ones go in one step, with exactly their votes.
Replace(r) ==
    /\ Acts(r, {"update"}) /\ Post(r).type # "post"
    /\ call[r].options # Null /\ call[r].options >= 2
    /\ \E kept \in SUBSET Post(r).options :
          board' = [board EXCEPT ![call[r].post] =
             [community |-> Post(r).community, type |-> Post(r).type,
              options |-> kept \cup Submitted(r, call[r].post),
              votes |-> {x \in Post(r).votes : x.option \in kept}]]

\* Columns are not part of the box.
Reword(r) ==
    /\ Acts(r, {"update"}) /\ (Post(r).type # "post" => call[r].options = Null)
    /\ UNCHANGED board

Withdraw(r) ==
    /\ Acts(r, {"delete"})
    /\ board' = [board EXCEPT ![call[r].post] = Null]

\* The post was withdrawn meanwhile: the request has nothing to act on. A cast
\* is then in vain only if it selected nothing.
TooLate(r) ==
    /\ call[r].op # "create" /\ Post(r) = Null
    /\ call[r].op = "cast" => call[r].selected = {}
    /\ UNCHANGED board

TakesEffect(r) ==
    /\ call[r] # Null /\ r \notin done
    /\ done' = done \cup {r} /\ UNCHANGED call
    /\ \/ Publish(r) \/ Poll(r) \/ Replace(r) \/ Reword(r) \/ Withdraw(r)
       \/ TooLate(r)

Next == \E r \in Requests : Ask(r) \/ TakesEffect(r)

Spec == Init /\ [][Next]_<<board, call, done>>
=============================================================================
