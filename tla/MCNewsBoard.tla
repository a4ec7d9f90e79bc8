---------------------------- MODULE MCNewsBoard ----------------------------
(***************************************************************************)
(* Small instances of NewsBoard: which requests are made, for each run.    *)
(* Request c creates a poll (or a plain post) with two options; the others *)
(* race on it.                                                             *)
(***************************************************************************)
EXTENDS NewsBoardInvariant, TLC

CONSTANTS c, a, b, d, u1, u2, k1, k2

Nothing == [col \in Columns |-> Null]
Matrix(deadline) == [Nothing EXCEPT !["text"] = 1, !["expires"] = deadline,
                        !["admin"] = 1, !["member"] = 1, !["display"] = 1]

Blank == [op |-> "create", user |-> u1, community |-> k1, post |-> c,
          type |-> "post", set |-> Nothing, options |-> Null, selected |-> {}]

CreatePoll(type, deadline) ==
    [Blank EXCEPT !.type = type, !.set = Matrix(deadline), !.options = 2]
CreatePost == [Blank EXCEPT !.set["text"] = 1]
Replace(n) == [Blank EXCEPT !.op = "update", !.options = n]
EditText == [Blank EXCEPT !.op = "update", !.set["text"] = 2]
EditBoth == [EditText EXCEPT !.options = 2]
Remove == [Blank EXCEPT !.op = "delete"]
Retract(u) == [Blank EXCEPT !.op = "retract", !.user = u]
Opt(r, i) == [post |-> c, by |-> r, n |-> i]
Cast(u, s) == [Blank EXCEPT !.op = "cast", !.user = u, !.selected = s]

\* Two requests of one voter and one of another, or three of one voter.  The third
\* casts for option 1 only: the other two may choose either option, so that it makes
\* no difference which one the third casts for.
Ballots(u) == {Cast(u, {Opt(c, 1)}), Retract(u)}
VotersMenu ==
    (c :> {CreatePoll("single", 1), CreatePoll("multiple", 1)})
    @@ (d :> Ballots(u1) \cup Ballots(u2))
    @@ [r \in {a, b} |-> Ballots(u1) \cup {Cast(u1, {Opt(c, 2)}),
                                           Cast(u1, {Opt(c, 1), Opt(c, 2)})}]

\* Two managers edit or delete while a member votes, or a manager of another
\* community tries to delete the post; its creation may be refused, too.
ManagersMenu ==
    (c :> {CreatePoll("single", 1), CreatePoll("single", 0), CreatePost})
    @@ (d :> {Cast(u1, {Opt(r, 1)}) : r \in {a, b, c}}
             \cup {[Remove EXCEPT !.community = k2]})
    @@ [r \in {a, b} |-> {Replace(1), Replace(2), EditText, EditBoth, Remove}]

\* One voter clicks twice; a manager replaces the options while a member
\* votes; a member votes as the deadline passes.
DoubleClickMenu ==
    (c :> {CreatePoll("single", 1)})
    @@ [r \in {a, b} |-> {Cast(u1, {Opt(c, 1)}), Cast(u1, {Opt(c, 2)})}]
ReplaceMenu ==
    (c :> {CreatePoll("single", 1)}) @@ (a :> {Replace(2)})
    @@ (b :> {Cast(u1, {Opt(c, 1)})})
LateVoteMenu ==
    (c :> {CreatePoll("single", 1)}) @@ (a :> {Cast(u1, {Opt(c, 1)})})

\* Handlers that hold locks others wait for, under fairness; or a makes a poll of
\* its own, and the ballot on c names one of that poll's options.
Elsewhere == [post |-> a, by |-> a, n |-> 1]
AnsweredMenu ==
    (c :> {CreatePoll("single", 1)})
    @@ (a :> {EditBoth, Remove, Cast(u1, {Opt(c, 2)}),
              [CreatePoll("single", 1) EXCEPT !.post = a]})
    @@ (b :> {Cast(u1, {Opt(c, 1)}), Cast(u1, {Elsewhere}), Retract(u1), EditText})

\* Bound: the race begins when the creation has been answered.
AfterCreation == (\E r \in Requests \ {c} : pc[r] # "idle") => pc[c] = "done"

Twins == Permutations({a, b})
=============================================================================
