--------------------------- MODULE MCNewsResults ---------------------------
(***************************************************************************)
(* Small instances of NewsResults: the writers of MCNewsBoard, and readers *)
(* that ask while they work.                                               *)
(***************************************************************************)
EXTENDS NewsResultsInvariant, TLC

CONSTANTS c, a, d, q1, u1, u2, k1, k2

NoColumns == [col \in Columns |-> Null]
Blank == [op |-> "create", user |-> u1, community |-> k1, post |-> c,
          type |-> "post", set |-> NoColumns, options |-> Null,
          selected |-> {}]

\* A poll for members' eyes, at this level, at this time (const.py).
CreatePoll(level, when) ==
    [Blank EXCEPT !.type = "single", !.options = 2,
        !.set = [text |-> 1, expires |-> 1, admin |-> 1, member |-> level,
                 display |-> when]]
CreatePost == [Blank EXCEPT !.set["text"] = 1]
Set(col, value) == [Blank EXCEPT !.op = "update", !.set[col] = value]
Replace == [Blank EXCEPT !.op = "update", !.options = 2]
Remove == [Blank EXCEPT !.op = "delete"]
Retract(u) == [Blank EXCEPT !.op = "retract", !.user = u]
Opt(r, i) == [post |-> c, by |-> r, n |-> i]
Cast(u, i) == [Blank EXCEPT !.op = "cast", !.user = u, !.selected = {Opt(c, i)}]

\* One vote (or retraction) races with one edit and one reader.
WritersMenu ==
    (c :> {CreatePoll(2, 2), CreatePoll(1, 3), CreatePost})
    @@ (a :> {Cast(u1, 2), Cast(Null, 1), Retract(u1)})
    @@ (d :> {Set("expires", 2), Set("display", 3), Replace,
              Remove, Cast(u1, 1)})
ReadersMenu ==
    [q \in Readers |->
        {[op |-> "results", user |-> u1, role |-> "MEMBER", community |-> k1,
          post |-> c],
         [op |-> "results", user |-> u2, role |-> "MANAGER", community |-> k1,
          post |-> c],
         [op |-> "detail", user |-> u1, role |-> "MEMBER", community |-> k1,
          post |-> c],
         [op |-> "list", user |-> u1, role |-> Null, community |-> k1,
          post |-> c],
         [op |-> "list", user |-> Null, role |-> Null, community |-> k2,
          post |-> c]}]

\* A manager closes the results to voters before the voter votes.
StaleWriters ==
    (c :> {CreatePoll(2, 2)}) @@ (a :> {Cast(u1, 1)})
    @@ (d :> {Set("display", 3)})
StaleReaders ==
    [q \in Readers |->
        {[op |-> "results", user |-> u1, role |-> "MEMBER", community |-> k1,
          post |-> c]}]

\* Bound: the race begins when the creation has been answered.
AfterCreation ==
    (\/ \E r \in Requests \ {c} : pc[r] # "idle"
     \/ \E q \in Readers : rpc[q] # "idle"
     \/ now > 0) => pc[c] = "done"

\* Bound: what follows a commit succeeds (managers_race and the runs of NewsNotify
\* have its failures); no reader depends on it.
CrmKeepsUp ==
    \A r \in applied : pc[r] = "done" =>
        \A kind \in {"audit"} \cup (IF r = c THEN {"notification"} ELSE {}) :
            [kind |-> kind, by |-> r] \in crm
=============================================================================
