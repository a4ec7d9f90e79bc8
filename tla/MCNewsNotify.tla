--------------------------- MODULE MCNewsNotify ---------------------------
(***************************************************************************)
(* Small instances of NewsNotify: an author ann, members bob and cleo, and *)
(* what is published, for each run.                                        *)
(***************************************************************************)
EXTENDS NewsNotifyInvariant, TLC

CONSTANTS p1, p2, ann, bob, cleo, k1, k2, good, blank, news

\* What the news board publishes, and variations that its contract allows.
NewsCall == [actor |-> ann, target |-> "community", users |-> {},
             community |-> k1, roles |-> {}, exclude |-> ann,
             type |-> [head |-> news, event |-> "published"],
             category |-> "informational", channels |-> {"inapp"},
             data |-> 1, override |-> Null]
Mailed == [NewsCall EXCEPT !.channels = {"inapp", "email"}]
Binding == [Mailed EXCEPT !.category = "transactional"]
ToManagers == [Mailed EXCEPT !.roles = {"MANAGER"}, !.exclude = Null]
Invitation == [Binding EXCEPT !.target = "users", !.users = {bob, cleo},
                              !.channels = {"email"}]
Overridden == [Binding EXCEPT !.override = 2]

Member(u, role) == [community |-> k1, user |-> u, role |-> role]
Says(u, prefix, off) ==
    [user |-> u, prefix |-> prefix, channel |-> "inapp", off |-> off]

Everybody == [accounts |-> [u \in People |-> good],
              members |-> {Member(ann, "MANAGER"), Member(bob, "MEMBER"),
                           [Member(cleo, "MEMBER") EXCEPT !.community = k2]},
              prefs |-> {Says(bob, "", TRUE), Says(bob, news, FALSE)}]
\* The author has no account yet; cleo's address is of no use.
Partly == [accounts |-> [u \in People |-> IF u = ann THEN Null
                                          ELSE IF u = cleo THEN blank ELSE good],
           members |-> {Member(bob, "MEMBER"), Member(cleo, "MEMBER")},
           prefs |-> {Says(cleo, news, TRUE)}]
AllMembers == [Everybody EXCEPT
    !.members = {Member(ann, "MANAGER"), Member(bob, "MEMBER"), Member(cleo, "MEMBER")},
    !.prefs = {}]

ReadersDirectories == {Everybody, Partly}
TwinsDirectories == {AllMembers}

\* Bound: the directory changes only once somebody publishes.
AfterBegin == changes > 0 => \E r \in Publishers : pc[r] # "idle"

ReadersMenu == [r \in {p1} |-> {NewsCall, Mailed, Binding, ToManagers, Invitation}]
TwinsMenu == [r \in {p1, p2} |-> {Mailed, Overridden}]
MailedMenu == [r \in {p1} |-> {Mailed}]
=============================================================================
