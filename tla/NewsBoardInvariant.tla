------------------------- MODULE NewsBoardInvariant -------------------------
(***************************************************************************)
(* The inductive invariant of NewsBoard: what the open handlers know, what *)
(* their locks exclude, and how the rows of the tables came about. The     *)
(* properties of NewsBoard follow from it (NewsBoardProofs).               *)
(***************************************************************************)
EXTENDS NewsBoard

\* Handlers that hold a copy of the post they read.
HasRead == {"read", "unvote", "vote", "columns", "count", "replace", "remove",
            "commit"}

Committed == {"audit", "notify", "reread"}

\* Which operation can be where.
OpAt(r) ==
    /\ pc[r] \in {"create", "notify"} => call[r].op = "create"
    /\ pc[r] \in {"columns", "count", "replace", "reread"} => call[r].op = "update"
    /\ pc[r] = "remove" => call[r].op = "delete"
    /\ pc[r] \in {"read", "unvote"} => call[r].op \in {"cast", "retract"}
    /\ pc[r] = "vote" => call[r].op = "cast"
    /\ pc[r] = "commit" => call[r].op # "create"

Control ==
    \A r \in Requests :
        /\ pc[r] # "idle" => call[r] \in Calls
        /\ OpAt(r)
        /\ r \in applied => pc[r] \in Committed \cup {"done"}
        /\ pc[r] \in Committed => r \in applied
        /\ \A q \in before[r] : pc[q] = "done"
        /\ since[r] <= now
        /\ pc[r] # "done" => resp[r] = "none"
        /\ resp[r] = "ok" => r \in applied \/ call[r].op = "retract"

\* What a handler knows from its first read on: the post was created by the
\* request it is named after, and its type never changes.
Knowledge ==
    \A r \in Requests : pc[r] \in HasRead =>
        /\ loaded[r] # Null
        /\ call[r].post \in applied
        /\ loaded[r].row.type = call[call[r].post].type
        /\ \A o \in loaded[r].options : o.post = call[r].post
        /\ pc[r] \in {"count", "replace"} => Replaces(r)
        /\ Replaces(r) => call[r].options >= 2
        /\ call[r].op \in {"cast", "retract"} => call[r].user # Null
        /\ call[r].op = "cast" => /\ call[r].selected \subseteq loaded[r].options
                                  /\ IsPoll(loaded[r].row.type)
                                  /\ loaded[r].row.type = "single" =>
                                        \A o, o2 \in call[r].selected : o = o2
        /\ \A x \in existing[r] : x.post = call[r].post /\ x.voter = call[r].user

\* Only voters hold vote rows.
ExistingOfVoters ==
    \A r \in Requests :
        existing[r] # {} => pc[r] \in {"unvote", "vote", "commit", "audit"}
                            /\ call[r].op \in {"cast", "retract"}

\* Where the rows of the tables come from.
Provenance ==
    /\ \A p \in Requests : posts[p] # Null =>
          /\ p \in applied /\ call[p].op = "create"
          /\ posts[p].type = call[p].type
    /\ \A p \in Requests :
          pc[p] = "create" /\ IsPoll(call[p].type) =>
              call[p].options # Null /\ call[p].options >= 2
    /\ \A o \in options : o.by \in applied
    /\ \A row \in crm : row.by \in applied
    /\ \A x \in votes : /\ x.by \in applied /\ call[x.by].op = "cast"
                        /\ x \in Ballot(x.by)

\* What a lock protects is still there.
LocksHold ==
    \A r \in Requests :
        /\ \A p \in Requests : UpdatesPost(r, p) => posts[p] # Null
        /\ \A p \in Requests : AddsOptionTo(r, p) => posts[p] # Null
        /\ pc[r] = "commit" /\ call[r].op = "cast" =>
              \A o \in call[r].selected : o \in options /\ Twin(r, o) = {}

\* Conflicting locks are never held together.
LocksExclude ==
    \A r, q \in Requests : r # q =>
        /\ \A p \in Requests : DeletesPost(r, p) =>
              ~UpdatesPost(q, p) /\ ~AddsOptionTo(q, p)
        /\ pc[r] = "commit" /\ call[r].op = "cast" =>
              \A o \in call[r].selected :
                  /\ ~DeletesOption(q, o)
                  /\ AddsVoteOn(q, o) => call[r].user # call[q].user

\* What happened on the rows a handler has looked at was done by requests
\* that overlap it.
SeenOrOverlaps ==
    \A r \in Requests :
        /\ pc[r] \in {"unvote", "vote", "commit"}
           /\ call[r].op \in {"cast", "retract"} =>
              \A x \in OwnVotes(r) : x \in existing[r] \/ Overlap(x.by, r)
        /\ pc[r] \in HasRead =>
              \A o \in OptionsOf(call[r].post) :
                  o \in loaded[r].options \/ Overlap(o.by, r)
        /\ pc[r] \in {"replace", "commit"} /\ Replaces(r) =>
              \A x \in votes : x.post = call[r].post => Overlap(x.by, r)

\* A handler that has found the poll open, to cast or to retract a vote.
Voting(r) == /\ pc[r] \in {"read", "unvote", "vote", "commit"}
             /\ call[r].op \in {"cast", "retract"}

\* The poll a voter found open was open when the request began, or its
\* deadline has been moved since.
FoundOpen ==
    \A r \in Requests :
        LET p == call[r].post
        IN Voting(r) /\ posts[p] # Null =>
              ~PollEnded(posts[p], since[r]) \/ DeadlineMovedDuring(r, p)

IInv ==
    /\ TypeOK /\ Control /\ Knowledge /\ ExistingOfVoters /\ Provenance
    /\ LocksHold /\ LocksExclude /\ Integrity
    /\ OneRowPerOption /\ OneBallotPerVoter /\ OptionsFromOneSubmission
    /\ PollOffersChoice /\ CastVoteIsKept
    /\ SeenOrOverlaps /\ FoundOpen
=============================================================================
