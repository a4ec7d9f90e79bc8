------------------------- MODULE NewsPipelineProofs -------------------------
(***************************************************************************)
(* Proofs about NewsPipeline, for any number of requests, communities,     *)
(* connections and changes of the CRM.                                     *)
(***************************************************************************)
EXTENDS NewsPipelineInvariant, WellFoundedInduction, TLAPS

----------------------------------------------------------------------------
(* The headers *)

LEMMA HighestIsOne ==
    ASSUME NEW roles \in SUBSET Roles, roles # {}
    PROVE  /\ Highest(roles) \in roles
           /\ \A role \in roles : Rank(role) <= Rank(Highest(roles))
<1>1. \E role \in roles : \A other \in roles : Rank(other) <= Rank(role)
  <2>1. CASE "ADMIN" \in roles
    BY <2>1 DEF Roles, Rank
  <2>2. CASE "ADMIN" \notin roles /\ "MANAGER" \in roles
    BY <2>2 DEF Roles, Rank
  <2>3. CASE roles = {"MEMBER"}
    BY <2>3 DEF Rank
  <2>. QED
    BY <2>1, <2>2, <2>3 DEF Roles
<1>. QED
  BY <1>1 DEF Highest

\* A role that reaches manager is one the headers give in the active community.
LEMMA ManagerByHeaders ==
    ASSUME NEW k \in Calls, Rank(RoleOf(k)) >= Rank("MANAGER")
    PROVE  \E i \in DOMAIN k.orgs : /\ k.orgs[i].org = k.community
                                    /\ k.orgs[i].roles \cap {"MANAGER", "ADMIN"} # {}
<1>. DEFINE mine == {i \in DOMAIN k.orgs : /\ k.orgs[i].org = k.community
                                           /\ k.orgs[i].roles \cap Roles # {}}
            first == {i \in mine : \A j \in mine : i <= j}
            roles == UNION {k.orgs[i].roles \cap Roles : i \in first}
<1>1. RoleOf(k) \in {"MANAGER", "ADMIN"}
  BY DEF Rank
<1>2. roles # {} /\ RoleOf(k) = Highest(roles)
  BY <1>1, PipelineAssumption DEF RoleOf, Roles
<1>3. roles \subseteq Roles
  OBVIOUS
<1>4. Highest(roles) \in roles
  BY <1>2, <1>3, HighestIsOne
<1>5. PICK i \in first : RoleOf(k) \in k.orgs[i].roles
  BY <1>2, <1>4
<1>. QED
  BY <1>1, <1>5

\* Who reaches manager in the first block with a role the service knows is not
\* refused as no manager.
LEMMA ManagerIfSo ==
    ASSUME NEW k \in Calls, ~(Rank(RoleOf(k)) >= Rank("MANAGER"))
    PROVE  NoManager(k)
<1>. DEFINE mine == KnownBlocks(k)
            first == {i \in mine : \A j \in mine : i <= j}
            roles == UNION {k.orgs[i].roles \cap Roles : i \in first}
<1>. SUFFICES ASSUME mine # {} PROVE \E i \in mine : k.orgs[i].roles \cap {"MANAGER", "ADMIN"} = {}
  BY DEF NoManager
<1>1. mine \subseteq Nat
  BY DEF KnownBlocks, Calls
<1>2. PICK m \in mine : \A j \in mine : m <= j
  <2>1. PICK m \in mine : \A j \in mine : ~(<<j, m>> \in OpToRel(<, Nat))
    BY <1>1, NatLessThanWellFounded, WFMin
  <2>2. \A j \in mine : ~(j < m)
    BY <1>1, <2>1 DEF OpToRel
  <2>. QED
    BY <1>1, <2>2
<1>3. first = {m}
  BY <1>1, <1>2
<1>4. roles = k.orgs[m].roles \cap Roles
  BY <1>3
<1>5. roles # {} /\ roles \subseteq Roles
  BY <1>2, <1>4 DEF KnownBlocks
<1>6. RoleOf(k) = Highest(roles)
  BY <1>5 DEF RoleOf, KnownBlocks
<1>7. \A role \in roles : Rank(role) <= Rank(Highest(roles))
  BY <1>5, HighestIsOne
<1>8. \A role \in roles : role \notin {"MANAGER", "ADMIN"}
  <2>. SUFFICES ASSUME NEW role \in roles, role \in {"MANAGER", "ADMIN"} PROVE FALSE
    OBVIOUS
  <2>1. Rank(role) >= 2 /\ Rank("MANAGER") = 2
    BY DEF Rank
  <2>2. Rank(Highest(roles)) \in Int /\ Rank(role) \in Int
    BY DEF Rank
  <2>. QED
    BY <1>6, <1>7, <2>1, <2>2
<1>9. k.orgs[m].roles \cap {"MANAGER", "ADMIN"} = {}
  BY <1>4, <1>8 DEF Roles
<1>. QED
  BY <1>2, <1>9

LEMMA RoleOfType ==
    ASSUME NEW k \in Calls
    PROVE  RoleOf(k) \in Roles \cup {Null}
<1>. DEFINE mine == {i \in DOMAIN k.orgs : /\ k.orgs[i].org = k.community
                                           /\ k.orgs[i].roles \cap Roles # {}}
            first == {i \in mine : \A j \in mine : i <= j}
            roles == UNION {k.orgs[i].roles \cap Roles : i \in first}
<1>1. roles \subseteq Roles
  OBVIOUS
<1>2. ASSUME roles # {} PROVE Highest(roles) \in roles
  BY <1>1, <1>2, HighestIsOne
<1>. QED
  BY <1>1, <1>2 DEF RoleOf

----------------------------------------------------------------------------
(* The pools *)

Pools == {CrmConns, LocalConns, Conns}

\* What borrowing and giving back mean for the others.
Apart(r) ==
    /\ lent' \in [Conns -> Requests \cup {Null}]
    /\ \A s \in Requests \ {r} : \A pool \in Pools : Holds(s, pool)' <=> Holds(s, pool)

LEMMA UsesPool ==
    ASSUME lent \in [Conns -> Requests \cup {Null}], NEW r \in Requests,
           NEW pool \in {CrmConns, LocalConns}, Uses(r, pool)
    PROVE  /\ Apart(r)
           /\ Holds(r, pool)'
           /\ \A other \in {CrmConns, LocalConns} \ {pool} :
                 Holds(r, other)' <=> Holds(r, other)
<1>1. CASE Holds(r, pool)
  BY <1>1 DEF Uses, Apart, Holds
<1>2. CASE ~Holds(r, pool)
  <2>1. PICK c \in pool : lent[c] = Null /\ lent' = [lent EXCEPT ![c] = r]
    BY <1>2 DEF Uses, Available
  <2>. QED
    BY <2>1, PipelineAssumption DEF Apart, Holds, Conns, Pools
<1>. QED
  BY <1>1, <1>2

LEMMA GivesBackPool ==
    ASSUME lent \in [Conns -> Requests \cup {Null}], NEW r \in Requests,
           NEW pool \in Pools, GivesBack(r, pool)
    PROVE  /\ Apart(r)
           /\ ~Holds(r, pool)'
           /\ \A other \in {CrmConns, LocalConns} \ {pool} :
                 pool # Conns => (Holds(r, other)' <=> Holds(r, other))
BY PipelineAssumption DEF GivesBack, Apart, Holds, Conns, Pools

----------------------------------------------------------------------------
(* The other requests *)

\* A step that leaves request s alone, while crm-backend may register communities.
Aside(s) ==
    /\ pc'[s] = pc[s] /\ call'[s] = call[s] /\ ctx'[s] = ctx[s]
    /\ answer'[s] = answer[s] /\ wrote'[s] = wrote[s]
    /\ read'[s] = read[s] /\ entitled[s] \subseteq entitled'[s]
    /\ s \in unsure => s \in unsure'
    /\ pc[s] \in AtGate /\ Entitled(call[s]) \in entitled[s]
          => Entitled(call[s])' \in entitled'[s]
    /\ registered \subseteq registered'
    /\ \A pool \in Pools : Holds(s, pool)' <=> Holds(s, pool)

LEMMA AsideKeeps ==
    ASSUME NEW s \in Requests, At(s), Pool(s), Aside(s)
    PROVE  At(s)' /\ Pool(s)'
<1>1. Pool(s)'
  BY DEF Aside, Pool, Pools
<1>2. Admitted(s) => Admitted(s)'
  BY DEF Admitted, Aside, MinRole
<1>3. Served(s)' => Served(s)
  BY DEF Served, Aside
<1>4. Place(s)'
  BY DEF At, Place, Aside
<1>5. Within(s)'
  BY <1>2, <1>3 DEF At, Within, Aside
<1>6. Watched(s)'
  BY DEF At, Watched, Aside
<1>7. Told(s)'
  BY DEF At, Told, Aside
<1>. QED
  BY <1>1, <1>4, <1>5, <1>6, <1>7 DEF At

\* Only request r moves.
Moves(r) ==
    /\ \A s \in Requests \ {r} :
          /\ pc'[s] = pc[s] /\ call'[s] = call[s] /\ ctx'[s] = ctx[s]
          /\ answer'[s] = answer[s] /\ wrote'[s] = wrote[s] /\ read'[s] = read[s]
    /\ unsure \subseteq unsure'
    /\ Apart(r)
    /\ UNCHANGED crmVars

----------------------------------------------------------------------------
(* How a step of r ends *)

LEMMA WatchKeeps ==
    ASSUME TypeOK, Watch
    PROVE  /\ entitled' \in [Requests -> SUBSET BOOLEAN]
           /\ \A r \in Requests : entitled[r] \subseteq entitled'[r]
           /\ \A r \in Requests : pc'[r] \in AtGate => Entitled(call[r])' \in entitled'[r]
BY DEF TypeOK, Watch, Entitled

\* A step that writes nothing, and in the handler may see what the filter lets it.
Looks(r) ==
    /\ UNCHANGED <<wrote, unsure>>
    /\ UNCHANGED read \/ (Sees(r) /\ pc[r] \in InHandler)

LEMMA LooksKeeps ==
    ASSUME TypeOK, NEW r \in Requests, At(r), Looks(r)
    PROVE  /\ read' \in [Requests -> SUBSET Ids]
           /\ \A s \in Requests \ {r} : read'[s] = read[s]
           /\ read'[r] \subseteq {ctx[r].internal}
           /\ read'[r] # {} => pc[r] \in InHandler \cup {"done"} /\ Admitted(r)
<1>1. Scope(r) \subseteq Ids /\ Scope(r) \subseteq {ctx[r].internal}
  BY DEF Scope, TypeOK
<1>2. CASE UNCHANGED read
  BY <1>2 DEF TypeOK, At, Place, Within, Watched, Told, Served
<1>3. CASE Sees(r) /\ pc[r] \in InHandler
  <2>1. read' = [read EXCEPT ![r] = read[r] \cup Scope(r)]
    BY <1>3 DEF Sees
  <2>. QED
    BY <1>1, <1>3, <2>1 DEF TypeOK, At, Place, Within, Watched, Told
<1>. QED
  BY <1>2, <1>3 DEF Looks

\* The end of a request, of which only the answer has to be judged.
LEMMA EndKeeps ==
    ASSUME TypeOK, NEW r \in Requests, At(r), pc[r] # "idle", Watch,
           NEW status \in Answers \ {"none", "timeout"}, End(r, status),
           UNCHANGED <<crmVars, call, ctx>>, Looks(r),
           status = "ok" /\ call[r].op \in Writes => wrote[r] # Null,
           status = "ok" /\ call[r].op \in Reads => Admitted(r),
           status = "forbidden" => call[r].op \in ManagerOnly /\ NoManager(call[r]),
           status = "unsubscribed" => FALSE \in entitled[r],
           status # "ok" => \/ wrote[r] = Null
                            \/ call[r].op = "update" /\ status \in {"missing", "default"}
    PROVE  TypeOK' /\ At(r)' /\ Pool(r)' /\ Moves(r)
<1>1. /\ Apart(r) /\ ~Holds(r, Conns)'
  BY GivesBackPool DEF End, TypeOK, Pools
<1>2. /\ pc' = [pc EXCEPT ![r] = "done"]
      /\ answer' = [answer EXCEPT ![r] = IF answer[r] = "none" THEN status ELSE answer[r]]
  BY DEF End, Goto, Tell
<1>3. TypeOK'
  BY <1>1, <1>2, WatchKeeps, LooksKeeps DEF TypeOK, Apart, crmVars, Labels, Looks
<1>4. Moves(r)
  BY <1>1, <1>2, LooksKeeps DEF Moves, TypeOK, Looks
<1>5. Pool(r)'
  BY <1>1, <1>2 DEF Pool, TypeOK, Ended, InHandler, AfterCommit, Holds, Conns
<1>6. Admitted(r) => Admitted(r)'
  BY WatchKeeps DEF Admitted, MinRole
<1>7. pc'[r] = "done" /\ answer'[r] = (IF answer[r] = "none" THEN status ELSE answer[r])
  BY <1>2 DEF TypeOK
<1>8. Served(r)' => Admitted(r)'
  BY <1>6, <1>7, LooksKeeps DEF Served, At, Place, Within, Watched, Told, Answers, Looks
<1>9. /\ entitled[r] \subseteq entitled'[r]
      /\ "done" \notin AtGate /\ "done" # "feature"
  BY WatchKeeps DEF AtGate
<1>10. Place(r)'
  BY <1>7 DEF At, Place, AfterCommit
<1>11. Within(r)'
  BY <1>7, <1>8, LooksKeeps DEF At, Within, InHandler, AfterCommit, crmVars, Looks
<1>12. Watched(r)'
  BY <1>7, <1>9 DEF Watched
<1>13. Told(r)'
  BY <1>7, <1>9 DEF At, Told, Looks
<1>. QED
  BY <1>3, <1>4, <1>5, <1>10, <1>11, <1>12, <1>13 DEF At

\* A request that goes on to the next place, of which the place has to be judged.
LEMMA StaysKeeps ==
    ASSUME TypeOK, NEW r \in Requests, At(r), pc[r] \notin Ended, Watch,
           NEW label \in Labels \ Ended, Stays(r, label), Apart(r),
           UNCHANGED <<crmVars, call, ctx>>, Looks(r),
           label \in InHandler => Admitted(r)', label # "feature",
           pc[r] \in InHandler => label \in InHandler,
           label \in {"author", "publish"} => call[r].op = "create",
           label = "reread" => call[r].op = "update",
           label = "voters" => call[r].op = "results",
           label # "probe", label = "post" => call[r].op # "create",
           label \in {"write", "commit"} \cup AfterCommit => call[r].op \in Writes,
           wrote[r] # Null <=> label \in AfterCommit,
           Holds(r, LocalConns)' => label \in {"voters", "write", "commit"},
           label \in InHandler \ {"publish", "reread"} => Holds(r, CrmConns)'
    PROVE  TypeOK' /\ At(r)' /\ Pool(r)' /\ Moves(r)
<1>1. pc' = [pc EXCEPT ![r] = label] /\ UNCHANGED answer
  BY DEF Stays, Goto
<1>2. TypeOK'
  BY <1>1, WatchKeeps, LooksKeeps DEF TypeOK, Apart, crmVars, Looks
<1>3. Moves(r)
  BY <1>1, LooksKeeps DEF Moves, TypeOK, Looks
<1>4. Pool(r)'
  BY <1>1 DEF Pool, TypeOK, Ended
<1>5. pc'[r] = label /\ label \notin Ended
  BY <1>1 DEF TypeOK
<1>6. label \in AfterCommit => label \in InHandler
  BY DEF InHandler
<1>7. read'[r] # {} => label \in InHandler
  BY LooksKeeps DEF Ended
<1>8. Served(r)' => label \in InHandler
  BY <1>1, <1>6, <1>7 DEF Served, At, Place, Within, Watched, Told, Ended, Looks
<1>9. /\ entitled[r] \subseteq entitled'[r]
      /\ label \in AtGate => Entitled(call[r])' \in entitled'[r]
  BY <1>5, WatchKeeps
<1>10. Place(r)'
  BY <1>1, <1>5 DEF At, Place, Ended, AfterCommit
<1>11. Within(r)'
  BY <1>5, <1>6, <1>7, <1>8, LooksKeeps DEF At, Within, Ended, AfterCommit, crmVars, Looks
<1>12. Watched(r)'
  BY <1>5, <1>9 DEF Watched
<1>13. Told(r)'
  BY <1>1, <1>9 DEF At, Told, Looks
<1>. QED
  BY <1>2, <1>3, <1>4, <1>10, <1>11, <1>12, <1>13 DEF At
----------------------------------------------------------------------------
(* The steps of a request *)

LEMMA ArriveKeeps ==
    ASSUME TypeOK, NEW r \in Requests, At(r), Pool(r), Arrive(r), Watch
    PROVE  TypeOK' /\ At(r)' /\ Pool(r)' /\ Moves(r)
<1>1. PICK k \in Menu[r] :
          /\ call' = [call EXCEPT ![r] = k]
          /\ ctx' = [ctx EXCEPT ![r] = [role |-> RoleOf(k), internal |-> Null]]
          /\ IF k.length = "above" THEN Goto(r, "done") /\ Tell(r, "too_large")
             ELSE Stays(r, IF k.op = "readiness" THEN "probe"
                           ELSE IF k.op \in WithBody THEN "body" ELSE "resolve")
  BY DEF Arrive, NoContext
<1>2. /\ k \in Calls /\ pc[r] = "idle" /\ answer[r] = "none"
      /\ wrote[r] = Null /\ read[r] = {}
  BY PipelineAssumption DEF Arrive, At, Place, Within, AfterCommit, InHandler
<1>3. PICK label \in {"done", "probe", "body", "resolve"}, status \in {"none", "too_large"} :
          /\ pc' = [pc EXCEPT ![r] = label]
          /\ answer' = [answer EXCEPT ![r] = status]
          /\ label = "probe" => k.op = "readiness"
          /\ status # "none" => label = "done"
  <2>1. CASE k.length = "above"
    BY <1>1, <1>2, <2>1 DEF Goto, Tell
  <2>2. CASE k.length # "above"
    <3>1. answer' = [answer EXCEPT ![r] = "none"]
      BY <1>1, <1>2, <2>2 DEF Stays, TypeOK
    <3>. QED
      BY <1>1, <2>2, <3>1 DEF Stays, Goto
  <2>. QED
    BY <2>1, <2>2
<1>4. UNCHANGED <<crmVars, lent, wrote, read, unsure>>
  BY DEF Arrive, tables
<1>5. Apart(r) /\ \A pool \in Pools : Holds(r, pool)' <=> Holds(r, pool)
  BY <1>4 DEF Apart, TypeOK, Holds
<1>6. TypeOK'
  BY <1>1, <1>2, <1>3, <1>4, RoleOfType, WatchKeeps
     DEF TypeOK, Labels, Answers, crmVars
<1>7. Moves(r)
  BY <1>1, <1>3, <1>4, <1>5 DEF Moves, TypeOK
<1>8. pc'[r] = label /\ call'[r] = k /\ answer'[r] = status /\ wrote'[r] = Null
      /\ read'[r] = {} /\ ctx'[r] = [role |-> RoleOf(k), internal |-> Null]
  BY <1>1, <1>2, <1>3, <1>4 DEF TypeOK
<1>9. At(r)'
  <2>1. Place(r)'
    BY <1>2, <1>3, <1>8 DEF Place, AfterCommit
  <2>2. Within(r)'
    BY <1>3, <1>8 DEF Within, Served, InHandler, AfterCommit
  <2>3. Watched(r)'
    BY <1>3, <1>8, WatchKeeps DEF Watched
  <2>4. Told(r)'
    BY <1>3, <1>8 DEF Told
  <2>. QED
    BY <2>1, <2>2, <2>3, <2>4 DEF At
<1>10. Pool(r)'
  BY <1>2, <1>3, <1>4, <1>5, <1>8
     DEF Pool, InHandler, AfterCommit, Ended, Pools, Holds, Conns
<1>. QED
  BY <1>6, <1>7, <1>9, <1>10

LEMMA ReadBodyKeeps ==
    ASSUME TypeOK, NEW r \in Requests, At(r), Pool(r), ReadBody(r), Watch
    PROVE  TypeOK' /\ At(r)' /\ Pool(r)' /\ Moves(r)
<1>1. pc[r] = "body" /\ UNCHANGED <<crmVars, call, ctx>> /\ Looks(r) /\ wrote[r] = Null
  BY DEF ReadBody, At, Within, AfterCommit, Looks, tables
<1>2. CASE End(r, "malformed")
  BY <1>1, <1>2, EndKeeps DEF Answers
<1>3. CASE Stays(r, "resolve") /\ UNCHANGED lent
  <2>1. Apart(r) /\ ~Holds(r, LocalConns)'
    BY <1>1, <1>3 DEF Apart, TypeOK, Holds, Pool
  <2>. QED
    BY <1>1, <1>3, <2>1, StaysKeeps DEF Labels, Ended, InHandler, AfterCommit
<1>. QED
  BY <1>2, <1>3 DEF ReadBody

LEMMA AnswerTimeoutKeeps ==
    ASSUME TypeOK, NEW r \in Requests, At(r), Pool(r), AnswerTimeout(r), Watch
    PROVE  TypeOK' /\ At(r)' /\ Pool(r)' /\ Moves(r)
<1>1. /\ pc[r] \notin Ended
      /\ UNCHANGED <<crmVars, lent, pc, call, ctx, wrote, read, unsure>>
      /\ answer' = [answer EXCEPT ![r] = "timeout"]
  BY DEF AnswerTimeout, Tell, Ended, tables
<1>2. Apart(r) /\ \A pool \in Pools : Holds(r, pool)' <=> Holds(r, pool)
  BY <1>1 DEF Apart, TypeOK, Holds
<1>3. TypeOK'
  BY <1>1, WatchKeeps DEF TypeOK, Answers, crmVars
<1>4. Moves(r)
  BY <1>1, <1>2 DEF Moves, TypeOK
<1>5. Admitted(r) => Admitted(r)'
  BY <1>1, WatchKeeps DEF Admitted, MinRole
<1>6. answer'[r] = "timeout"
  BY <1>1 DEF TypeOK
<1>7. Served(r)' => Served(r)
  BY <1>1, <1>6 DEF Served
<1>8. At(r)'
  <2>1. Place(r)'
    BY <1>1, <1>6 DEF At, Place, Ended
  <2>2. Within(r)'
    BY <1>1, <1>5, <1>7 DEF At, Within, crmVars
  <2>3. Watched(r)'
    BY <1>1, WatchKeeps DEF At, Watched
  <2>4. Told(r)'
    BY <1>1, <1>6 DEF Told
  <2>. QED
    BY <2>1, <2>2, <2>3, <2>4 DEF At
<1>9. Pool(r)'
  BY <1>1, <1>2 DEF Pool, Pools
<1>. QED
  BY <1>3, <1>4, <1>8, <1>9

LEMMA ResolveKeeps ==
    ASSUME TypeOK, NEW r \in Requests, At(r), Pool(r), ResolveInternalCommunity(r), Watch
    PROVE  TypeOK' /\ At(r)' /\ Pool(r)' /\ Moves(r)
<1>1. /\ pc[r] = "resolve" /\ UNCHANGED <<crmVars, call, wrote, read, unsure>>
      /\ wrote[r] = Null /\ read[r] = {} /\ call[r] \in Calls
      /\ pc' = [pc EXCEPT ![r] = "feature"] /\ UNCHANGED answer
  BY DEF ResolveInternalCommunity, At, Place, Within, InHandler, AfterCommit, Stays, Goto,
         tables
<1>2. Apart(r) /\ ~Holds(r, LocalConns)'
  <2>1. ~Holds(r, LocalConns)
    BY <1>1 DEF Pool
  <2>2. CASE UNCHANGED lent
    BY <2>1, <2>2 DEF Apart, TypeOK, Holds
  <2>3. CASE Uses(r, CrmConns)
    <3>1. Apart(r) /\ \A other \in {CrmConns, LocalConns} \ {CrmConns} :
                          Holds(r, other)' <=> Holds(r, other)
      BY <2>3, UsesPool DEF TypeOK
    <3>2. CASE CrmConns # LocalConns
      BY <2>1, <3>1, <3>2
    <3>3. CASE CrmConns = LocalConns
      BY <2>3, <3>3, PipelineAssumption DEF Uses, Available, Holds
    <3>. QED
      BY <3>1, <3>2, <3>3
  <2>. QED
    BY <2>2, <2>3 DEF ResolveInternalCommunity
<1>3. PICK id \in Ids \cup {Null} :
         /\ id # Null => call[r].community \in registered
                         /\ id = IdOf[call[r].community]
         /\ id = Null => call[r].community \notin registered
         /\ ctx' = [ctx EXCEPT ![r] = [role |-> ctx[r].role, internal |-> id]]
  <2>1. ctx[r] = [role |-> ctx[r].role, internal |-> ctx[r].internal]
        /\ ctx[r].internal \in Ids \cup {Null}
    BY DEF TypeOK
  <2>2. CASE call[r].community \notin registered
    <3>1. ctx' = [ctx EXCEPT ![r] = [role |-> ctx[r].role, internal |-> ctx[r].internal]]
      BY <2>1, <2>2 DEF ResolveInternalCommunity, TypeOK
    <3>. QED
      BY <2>1, <2>2, <3>1 DEF At, Within
  <2>3. CASE call[r].community \in registered
    <3>1. IdOf[call[r].community] \in Ids /\ IdOf[call[r].community] # Null
      BY <2>3, PipelineAssumption DEF TypeOK
    <3>2. SetInternal(r, IdOf[call[r].community])
      BY <2>3 DEF ResolveInternalCommunity
    <3>3. ctx' = [ctx EXCEPT ![r] = [ctx[r] EXCEPT !.internal = IdOf[call[r].community]]]
      BY <3>2 DEF SetInternal
    <3>4. [ctx[r] EXCEPT !.internal = IdOf[call[r].community]]
          = [role |-> ctx[r].role, internal |-> IdOf[call[r].community]]
      BY <2>1
    <3>. QED
      BY <2>3, <3>1, <3>3, <3>4
  <2>. QED
    BY <2>2, <2>3
<1>4. pc'[r] = "feature" /\ ctx'[r] = [role |-> ctx[r].role, internal |-> id]
  BY <1>1, <1>3 DEF TypeOK
<1>5. TypeOK'
  BY <1>1, <1>2, <1>3, WatchKeeps DEF TypeOK, Labels, Apart, crmVars
<1>6. Moves(r)
  BY <1>1, <1>2, <1>3 DEF Moves, TypeOK
<1>7. At(r)'
  <2>1. Place(r)'
    BY <1>1, <1>4 DEF At, Place, AfterCommit
  <2>2. Within(r)'
    BY <1>1, <1>3, <1>4 DEF At, Within, Place, Served, InHandler, AfterCommit, crmVars
  <2>3. Watched(r)'
    <3>1. id = Null => FALSE \in entitled'[r]
      BY <1>1, <1>3, WatchKeeps DEF At, Watched, AtGate, Entitled
    <3>2. ctx'[r].internal = id
      BY <1>4
    <3>3. pc'[r] \in AtGate => Entitled(call[r])' \in entitled'[r]
      BY WatchKeeps
    <3>. QED
      BY <3>1, <3>2, <3>3 DEF Watched
  <2>4. Told(r)'
    BY <1>1, WatchKeeps DEF At, Told
  <2>. QED
    BY <2>1, <2>2, <2>3, <2>4 DEF At
<1>8. Pool(r)'
  BY <1>2, <1>4 DEF Pool, Ended, InHandler, AfterCommit
<1>. QED
  BY <1>5, <1>6, <1>7, <1>8

\* A request that borrows from a pool and goes on, within the handler.
LEMMA UsesKeeps ==
    ASSUME TypeOK, NEW r \in Requests, At(r), Pool(r), Admitted(r), Watch,
           pc[r] \in {"feature"} \cup InHandler,
           NEW label \in {"author", "post", "write", "commit", "voters"}, Stays(r, label),
           UNCHANGED <<crmVars, call, ctx>>, Looks(r), wrote[r] = Null,
           NEW pool \in {CrmConns, LocalConns}, Uses(r, pool),
           Holds(r, CrmConns) \/ pool = CrmConns,
           pool = LocalConns \/ Holds(r, LocalConns)
               => label \in {"write", "commit", "voters"},
           label = "author" => call[r].op = "create",
           label = "voters" => call[r].op = "results",
           label = "post" => call[r].op # "create",
           label \in {"write", "commit"} => call[r].op \in Writes
    PROVE  TypeOK' /\ At(r)' /\ Pool(r)' /\ Moves(r)
<1>1. /\ Apart(r) /\ Holds(r, pool)'
      /\ \A other \in {CrmConns, LocalConns} \ {pool} :
            Holds(r, other)' <=> Holds(r, other)
  BY UsesPool DEF TypeOK
<1>2. Admitted(r)'
  BY WatchKeeps DEF Admitted, MinRole
<1>3. Holds(r, CrmConns)'
  BY <1>1
<1>4. Holds(r, LocalConns)' => label \in {"write", "commit", "voters"}
  BY <1>1
<1>5. pc[r] \notin Ended /\ label \in Labels \ Ended /\ label \in InHandler
      /\ label \notin AfterCommit
  BY DEF Ended, InHandler, AfterCommit, Labels
<1>. QED
  BY <1>1, <1>2, <1>3, <1>4, <1>5, StaysKeeps

LEMMA FeatureKeeps ==
    ASSUME TypeOK, NEW r \in Requests, At(r), Pool(r), RequireFeature(r), Watch
    PROVE  TypeOK' /\ At(r)' /\ Pool(r)' /\ Moves(r)
<1>1. /\ pc[r] = "feature" /\ UNCHANGED <<crmVars, call, ctx>> /\ Looks(r)
      /\ wrote[r] = Null /\ call[r] \in Calls /\ ctx[r].role = RoleOf(call[r])
      /\ ~Holds(r, LocalConns)
  BY DEF RequireFeature, At, Place, Within, AfterCommit, Pool, Looks, tables
<1>2. ASSUME NEW status \in {"unauthorized", "unsubscribed", "forbidden", "malformed"},
             End(r, status),
             status = "unsubscribed" => ~Subscribed(r), status = "forbidden" => ~MinRole(r)
      PROVE  TypeOK' /\ At(r)' /\ Pool(r)' /\ Moves(r)
  <2>1. status = "unsubscribed" => FALSE \in entitled[r]
    <3>1. CASE ctx[r].internal = Null
      BY <1>1, <3>1 DEF At, Watched
    <3>2. CASE ctx[r].internal # Null /\ ~Subscribed(r)
      BY <1>1, <3>2 DEF At, Within, Watched, AtGate, Entitled, Subscribed
    <3>. QED
      BY <1>2, <3>1, <3>2
  <2>2. status = "forbidden" => call[r].op \in ManagerOnly /\ NoManager(call[r])
    BY <1>1, <1>2, ManagerIfSo DEF MinRole
  <2>. QED
    BY <1>1, <1>2, <2>1, <2>2, EndKeeps DEF Answers
<1>3. CASE call[r].user = Null \/ call[r].community = Null
  BY <1>2, <1>3 DEF RequireFeature
<1>4. CASE /\ call[r].user # Null /\ call[r].community # Null
           /\ ~Subscribed(r) \/ ~MinRole(r) \/ call[r].body = "invalid"
  BY <1>2, <1>4 DEF RequireFeature, EndsAfter, EnterHandler
<1>5. CASE /\ call[r].user # Null /\ call[r].community # Null
           /\ Subscribed(r) /\ MinRole(r) /\ call[r].body # "invalid"
  <2>1. PICK label \in {"author", "post"} :
           /\ Stays(r, label) /\ Uses(r, CrmConns)
           /\ label = "author" <=> call[r].op = "create"
    BY <1>5 DEF RequireFeature, EnterHandler
  <2>2. TRUE \in entitled'[r]
    <3>1. Entitled(call[r]) = TRUE
      BY <1>5 DEF Entitled, Subscribed, At, Within
    <3>2. Entitled(call[r]) \in entitled[r]
      BY <1>1 DEF At, Watched, AtGate
    <3>. QED
      BY <3>1, <3>2, WatchKeeps
  <2>3. Admitted(r)'
    BY <1>1, <1>5, <2>2 DEF Admitted, Subscribed, MinRole
  <2>4. /\ Apart(r) /\ Holds(r, CrmConns)'
    BY <2>1, UsesPool DEF TypeOK
  <2>5. ~Holds(r, LocalConns)'
    <3>1. \A other \in {CrmConns, LocalConns} \ {CrmConns} :
             Holds(r, other)' <=> Holds(r, other)
      BY <2>1, UsesPool DEF TypeOK
    <3>2. CrmConns # LocalConns
      BY <2>4, PipelineAssumption DEF Holds
    <3>. QED
      BY <1>1, <3>1, <3>2
  <2>6. /\ label \in Labels \ Ended /\ label \in InHandler /\ label \notin AfterCommit
        /\ pc[r] \notin Ended /\ label \notin {"write", "commit", "voters"}
    BY <1>1 DEF Labels, Ended, InHandler, AfterCommit
  <2>. QED
    BY <1>1, <2>1, <2>3, <2>4, <2>5, <2>6, StaysKeeps DEF AfterCommit
<1>. QED
  BY <1>3, <1>4, <1>5

LEMMA ReadKeeps ==
    ASSUME TypeOK, NEW r \in Requests, At(r), Pool(r), Watch,
           ReadAuthor(r) \/ ReadPost(r) \/ ReadVoters(r)
    PROVE  TypeOK' /\ At(r)' /\ Pool(r)' /\ Moves(r)
<1>1. /\ pc[r] \in {"author", "post", "voters"} /\ wrote[r] = Null
      /\ UNCHANGED <<crmVars, call, ctx>> /\ Looks(r)
      /\ Holds(r, CrmConns) /\ Admitted(r)
      /\ pc[r] # "voters" => ~Holds(r, LocalConns)
  BY DEF ReadAuthor, ReadPost, ReadVoters, At, Within, AfterCommit, Pool, InHandler,
         Looks, tables
<1>2. ASSUME NEW status \in {"missing", "refused", "nothing"}, End(r, status)
      PROVE  TypeOK' /\ At(r)' /\ Pool(r)' /\ Moves(r)
  BY <1>1, <1>2, EndKeeps DEF Answers
<1>3. ASSUME call[r].op \in Reads, End(r, "ok")
      PROVE  TypeOK' /\ At(r)' /\ Pool(r)' /\ Moves(r)
  BY <1>1, <1>3, EndKeeps DEF Answers, Reads, Writes
<1>4. CASE ReadAuthor(r)
  <2>1. CASE Stays(r, "write") /\ Uses(r, CrmConns)
    <3>1. call[r].op \in Writes /\ ~Holds(r, LocalConns) /\ pc[r] \in InHandler
      BY <1>1, <1>4 DEF ReadAuthor, At, Place, Writes, InHandler
    <3>. QED
      BY <1>1, <2>1, <3>1, UsesKeeps
  <2>. QED
    BY <1>2, <1>4, <2>1 DEF ReadAuthor
<1>5. CASE ReadPost(r)
  <2>0. pc[r] = "post" /\ pc[r] \in InHandler
    BY <1>5 DEF ReadPost, InHandler
  <2>1. CASE call[r].op \in Writes /\ Stays(r, "write") /\ Uses(r, LocalConns)
    BY <1>1, <2>0, <2>1, UsesKeeps
  <2>2. CASE call[r].op = "results" /\ Stays(r, "voters") /\ Uses(r, LocalConns)
    BY <1>1, <2>0, <2>2, UsesKeeps
  <2>3. CASE End(r, "missing") \/ End(r, "refused") \/ End(r, "nothing")
    BY <1>2, <2>3
  <2>4. CASE call[r].op \in {"list", "detail", "results"} /\ End(r, "ok")
    BY <1>3, <2>4 DEF Reads
  <2>. QED
    BY <1>5, <2>1, <2>2, <2>3, <2>4 DEF ReadPost, EndsAfter
<1>6. CASE ReadVoters(r)
  BY <1>3, <1>6 DEF ReadVoters, EndsAfter, At, Place, Reads
<1>. QED
  BY <1>4, <1>5, <1>6

LEMMA WriteKeeps ==
    ASSUME TypeOK, NEW r \in Requests, At(r), Pool(r), Write(r), Watch
    PROVE  TypeOK' /\ At(r)' /\ Pool(r)' /\ Moves(r)
<1>1. /\ pc[r] = "write" /\ wrote[r] = Null /\ UNCHANGED <<crmVars, call, ctx>> /\ Looks(r)
      /\ Holds(r, CrmConns) /\ Admitted(r) /\ call[r].op \in Writes
      /\ Stays(r, "commit") /\ Uses(r, LocalConns) /\ pc[r] \in InHandler
  BY DEF Write, At, Place, Within, AfterCommit, Pool, InHandler, Looks, tables
<1>. QED
  BY <1>1, UsesKeeps

LEMMA CommitKeeps ==
    ASSUME TypeOK, NEW r \in Requests, At(r), Pool(r), Commit(r), Watch
    PROVE  TypeOK' /\ At(r)' /\ Pool(r)' /\ Moves(r)
<1>1. /\ pc[r] = "commit" /\ UNCHANGED <<crmVars, call, ctx, answer, read, unsure>>
      /\ pc' = [pc EXCEPT ![r] = "audit"]
      /\ wrote' = [wrote EXCEPT ![r] = ctx[r].internal]
      /\ Holds(r, CrmConns) /\ Admitted(r) /\ call[r].op \in Writes
      /\ GivesBack(r, LocalConns)
  BY DEF Commit, At, Place, Within, AfterCommit, Pool, InHandler, Stays, Goto
<1>2. Apart(r) /\ ~Holds(r, LocalConns)'
  BY <1>1, GivesBackPool DEF TypeOK, Pools
<1>3. Holds(r, CrmConns)'
  BY <1>1, PipelineAssumption DEF GivesBack, Holds, Conns
<1>4. TypeOK'
  BY <1>1, <1>2, WatchKeeps DEF TypeOK, Apart, Labels, crmVars
<1>5. Moves(r)
  BY <1>1, <1>2 DEF Moves, TypeOK
<1>6. pc'[r] = "audit" /\ wrote'[r] = ctx[r].internal
  BY <1>1 DEF TypeOK
<1>7. Admitted(r)'
  BY <1>1, WatchKeeps DEF Admitted, MinRole
<1>8. At(r)'
  <2>1. Place(r)'
    BY <1>1, <1>6 DEF At, Place, AfterCommit
  <2>2. Within(r)'
    BY <1>1, <1>6, <1>7 DEF At, Within, InHandler, AfterCommit, Admitted, crmVars
  <2>3. Watched(r)'
    BY <1>6 DEF Watched, AtGate
  <2>4. Told(r)'
    BY <1>1, <1>6 DEF At, Told, Place
  <2>. QED
    BY <2>1, <2>2, <2>3, <2>4 DEF At
<1>9. Pool(r)'
  BY <1>2, <1>3, <1>6 DEF Pool, InHandler, AfterCommit, Ended
<1>. QED
  BY <1>4, <1>5, <1>8, <1>9

LEMMA CommitFailsKeeps ==
    ASSUME TypeOK, NEW r \in Requests, At(r), Pool(r), CommitFails(r), Watch
    PROVE  TypeOK' /\ At(r)' /\ Pool(r)' /\ Moves(r)
<1>1. /\ pc[r] = "commit" /\ UNCHANGED <<crmVars, call, ctx, read>>
      /\ unsure' = unsure \cup {r}
      /\ answer[r] \in {"none", "timeout"} /\ wrote[r] = Null
      /\ Admitted(r) /\ call[r].op \in Writes /\ End(r, "default")
  BY DEF CommitFails, At, Place, Within, AfterCommit, InHandler
<1>2. /\ pc' = [pc EXCEPT ![r] = "done"]
      /\ answer' = [answer EXCEPT ![r] = IF answer[r] = "none" THEN "default" ELSE answer[r]]
  BY <1>1 DEF End, Goto, Tell
<1>3. PICK id \in {Null, ctx[r].internal} : wrote' = [wrote EXCEPT ![r] = id]
  <2>1. CASE UNCHANGED wrote
    <3>1. wrote' = [wrote EXCEPT ![r] = Null]
      BY <1>1, <2>1 DEF TypeOK
    <3>. QED
      BY <3>1
  <2>2. CASE wrote' = [wrote EXCEPT ![r] = ctx[r].internal]
    BY <2>2
  <2>. QED
    BY <2>1, <2>2 DEF CommitFails
<1>4. Apart(r) /\ ~Holds(r, Conns)'
  BY <1>1, GivesBackPool DEF End, TypeOK, Pools
<1>5. TypeOK'
  BY <1>1, <1>2, <1>3, <1>4, WatchKeeps DEF TypeOK, Apart, Labels, Answers, crmVars
<1>6. Moves(r)
  BY <1>1, <1>2, <1>3, <1>4 DEF Moves, TypeOK
<1>7. /\ pc'[r] = "done" /\ wrote'[r] = id /\ r \in unsure'
      /\ answer'[r] \in {"default", "timeout"}
  BY <1>1, <1>2, <1>3 DEF TypeOK
<1>8. Admitted(r)'
  BY <1>1, WatchKeeps DEF Admitted, MinRole
<1>9. Place(r)'
  BY <1>1, <1>7 DEF At, Place, AfterCommit
<1>10. Within(r)'
  BY <1>1, <1>7, <1>8 DEF At, Within, AfterCommit, crmVars
<1>11. Watched(r)' /\ Told(r)'
  BY <1>7 DEF Watched, AtGate, Told
<1>12. Pool(r)'
  BY <1>4, <1>7, PipelineAssumption DEF Pool, InHandler, AfterCommit, Holds, Conns
<1>. QED
  BY <1>5, <1>6, <1>9, <1>10, <1>11, <1>12 DEF At

LEMMA AfterCommitKeeps ==
    ASSUME TypeOK, NEW r \in Requests, At(r), Pool(r), Watch,
           Audit(r) \/ Publish(r) \/ Reread(r)
    PROVE  TypeOK' /\ At(r)' /\ Pool(r)' /\ Moves(r)
<1>1. /\ pc[r] \in AfterCommit /\ UNCHANGED <<crmVars, call, ctx>> /\ Looks(r)
      /\ wrote[r] # Null /\ Admitted(r) /\ call[r].op \in Writes
      /\ pc[r] \notin Ended /\ pc[r] # "idle" /\ ~Holds(r, LocalConns)
  BY DEF Audit, Publish, Reread, At, Place, Within, AfterCommit, InHandler, Pool, Ended,
         Looks, tables
<1>2. CASE End(r, "ok")
  BY <1>1, <1>2, EndKeeps DEF Answers, Reads, Writes
<1>3. CASE Reread(r) /\ End(r, "missing")
  <2>1. call[r].op = "update"
    BY <1>3 DEF Reread, At, Place
  <2>. QED
    BY <1>1, <1>3, <2>1, EndKeeps DEF Answers
<1>4. CASE /\ Audit(r) /\ call[r].op \in {"create", "update"}
  <2>1. PICK label \in {"publish", "reread"} :
           /\ Stays(r, label)
           /\ label = "publish" => call[r].op = "create"
           /\ label = "reread" => call[r].op = "update"
    BY <1>4 DEF Audit
  <2>2. pc[r] = "audit" /\ Holds(r, CrmConns)
    BY <1>4 DEF Audit, Pool, InHandler, AfterCommit
  <2>3. Apart(r) /\ ~Holds(r, LocalConns)'
    <3>1. CASE GivesBack(r, CrmConns)
      <4>1. Apart(r)
        BY <3>1, GivesBackPool DEF TypeOK, Pools
      <4>2. ~Holds(r, LocalConns)'
        BY <1>1, <3>1, PipelineAssumption DEF GivesBack, Holds, Conns
      <4>. QED
        BY <4>1, <4>2
    <3>2. CASE Uses(r, CrmConns)
      BY <1>1, <2>2, <3>2 DEF Uses, Apart, Holds, TypeOK
    <3>. QED
      BY <1>4, <3>1, <3>2 DEF Audit
  <2>4. Admitted(r)'
    BY <1>1, WatchKeeps DEF Admitted, MinRole
  <2>5. label \in Labels \ Ended /\ label \in AfterCommit /\ label \in InHandler
    BY DEF Labels, Ended, AfterCommit, InHandler
  <2>. QED
    BY <1>1, <2>1, <2>3, <2>4, <2>5, StaysKeeps
<1>. QED
  BY <1>2, <1>3, <1>4 DEF Audit, Publish, Reread, EndsAfter

LEMMA FailsKeep ==
    ASSUME TypeOK, NEW r \in Requests, At(r), Pool(r), Watch, Fails(r) \/ Probe(r)
    PROVE  TypeOK' /\ At(r)' /\ Pool(r)' /\ Moves(r)
<1>1. pc[r] # "idle" /\ UNCHANGED <<crmVars, call, ctx>> /\ Looks(r)
  BY DEF Fails, Probe, Looks, tables
<1>2. CASE /\ pc[r] \in {"resolve", "feature", "author", "post", "voters", "write",
                         "reread", "probe"}
           /\ \E status \in {"internal", "default", "unready"} :
                 /\ End(r, status)
                 /\ pc[r] = "reread" => status = "default"
  <2>1. wrote[r] = Null \/ (pc[r] = "reread" /\ call[r].op = "update")
    BY <1>2 DEF At, Within, AfterCommit, Place
  <2>. QED
    BY <1>1, <1>2, <2>1, EndKeeps DEF Answers
<1>3. CASE pc[r] = "publish" /\ End(r, "ok")
  <2>1. wrote[r] # Null /\ call[r].op \notin Reads
    BY <1>3 DEF At, Within, AfterCommit, Place, Reads
  <2>. QED
    BY <1>1, <1>3, <2>1, EndKeeps DEF Answers
<1>4. CASE pc[r] = "probe" /\ End(r, "ok")
  <2>1. call[r].op \notin Reads \cup Writes
    BY <1>4 DEF At, Place, Reads, Writes
  <2>. QED
    BY <1>1, <1>4, <2>1, EndKeeps DEF Answers
<1>. QED
  BY <1>2, <1>3, <1>4 DEF Fails, Probe, EndsAfter

----------------------------------------------------------------------------
(* The theorems *)

LEMMA ChangeKeeps ==
    ASSUME TypeOK, Change, Watch
    PROVE  TypeOK' /\ \A s \in Requests : Aside(s)
<1>1. UNCHANGED <<lent, pc, call, ctx, answer, wrote, read, unsure>>
      /\ changes' \in 0 .. MaxChanges /\ registered \subseteq registered'
  BY PipelineAssumption DEF Change, TypeOK, tables
<1>2. registered' \subseteq AuthIds /\ active' \subseteq Ids
  BY PipelineAssumption DEF Change, TypeOK
<1>. QED
  BY <1>1, <1>2, WatchKeeps DEF Aside, TypeOK, Holds, Pools

LEMMA PipelineInitially ==
    Init => PInv
<1>. SUFFICES ASSUME Init PROVE PInv
  OBVIOUS
<1>1. TypeOK
  BY PipelineAssumption DEF Init, TypeOK, Labels, Answers, NoContext
<1>2. \A r \in Requests : At(r)
  BY DEF Init, At, Place, Within, Watched, Told, NoContext, Served, AfterCommit, InHandler,
         AtGate
<1>3. \A r \in Requests : Pool(r)
  BY PipelineAssumption DEF Init, Pool, Holds, Conns, InHandler, AfterCommit, Ended
<1>. QED
  BY <1>1, <1>2, <1>3 DEF PInv

LEMMA PipelineInductive ==
    ASSUME PInv, [Next]_vars
    PROVE  PInv'
<1>1. TypeOK /\ \A r \in Requests : At(r) /\ Pool(r)
  BY DEF PInv
<1>2. CASE UNCHANGED vars
  <2>1. TypeOK'
    BY <1>1, <1>2 DEF TypeOK, vars, tables, crmVars
  <2>2. \A s \in Requests : Aside(s)
    BY <1>2 DEF Aside, vars, tables, crmVars, Holds, Entitled
  <2>. QED
    BY <1>1, <2>1, <2>2, AsideKeeps DEF PInv
<1>3. CASE Change /\ Watch
  <2>1. TypeOK' /\ \A s \in Requests : Aside(s)
    BY <1>1, <1>3, ChangeKeeps
  <2>. QED
    BY <1>1, <2>1, AsideKeeps DEF PInv
<1>4. ASSUME NEW r \in Requests, Watch,
             \/ Arrive(r) \/ ReadBody(r) \/ Handle(r) \/ AnswerTimeout(r) \/ Fails(r)
             \/ CommitFails(r)
      PROVE  PInv'
  <2>1. TypeOK' /\ At(r)' /\ Pool(r)' /\ Moves(r)
    BY <1>1, <1>4, ArriveKeeps, ReadBodyKeeps, AnswerTimeoutKeeps, ResolveKeeps,
       FeatureKeeps, ReadKeeps, WriteKeeps, CommitKeeps, CommitFailsKeeps, AfterCommitKeeps,
       FailsKeep
       DEF Handle
  <2>2. ASSUME NEW s \in Requests \ {r} PROVE Aside(s)
    BY <1>1, <1>4, <2>1, WatchKeeps DEF Aside, Moves, Apart, crmVars
  <2>. QED
    BY <1>1, <2>1, <2>2, AsideKeeps DEF PInv
<1>. QED
  BY <1>2, <1>3, <1>4 DEF Next

\* PInv holds in every reachable state.
THEOREM PipelineInvariance ==
    Spec => []PInv
BY PipelineInitially, PipelineInductive, PTL DEF Spec

\* Every variable keeps its type.
THEOREM PipelineTypeCorrect ==
    Spec => []TypeOK
BY PipelineInvariance, PTL DEF PInv

\* No row of the board is read or written but of the community of the headers, for a
\* known user, after that community was subscribed while the request was at the gate,
\* and for managers' operations with the role in that very community.
THEOREM ServedWithAccessHolds ==
    Spec => []ServedWithAccess
<1>1. PInv => ServedWithAccess
  <2>. SUFFICES ASSUME PInv, NEW r \in Requests, Served(r)
       PROVE  /\ call[r].user # Null /\ call[r].community # Null
              /\ TRUE \in entitled[r]
              /\ wrote[r] \in {Null, IdOf[call[r].community]}
              /\ read[r] \subseteq {IdOf[call[r].community]}
              /\ call[r].op \in ManagerOnly =>
                    \E i \in DOMAIN call[r].orgs :
                        /\ call[r].orgs[i].org = call[r].community
                        /\ call[r].orgs[i].roles \cap {"MANAGER", "ADMIN"} # {}
    BY DEF ServedWithAccess
  <2>1. Admitted(r) /\ At(r)
    BY DEF PInv, At, Place, Within, Watched, Told
  <2>2. call[r] \in Calls /\ ctx[r].role = RoleOf(call[r])
    BY <2>1 DEF At, Place, Within, Served, AfterCommit, InHandler
  <2>3. call[r].op \in ManagerOnly =>
           \E i \in DOMAIN call[r].orgs :
               /\ call[r].orgs[i].org = call[r].community
               /\ call[r].orgs[i].roles \cap {"MANAGER", "ADMIN"} # {}
    <3>1. PICK k \in Calls : k = call[r]
      BY <2>2
    <3>. QED
      BY <2>1, <2>2, <3>1, ManagerByHeaders DEF Admitted, MinRole
  <2>. QED
    BY <2>1, <2>3 DEF Admitted, At, Place, Within, Watched, Told
<1>. QED
  BY <1>1, PipelineInvariance, PTL

\* Nobody is turned away as no manager whom every block of the headers with a known
\* role calls one, and nobody as not subscribed whose community was subscribed all the
\* time at the gate.
THEOREM TurnedAwayForCauseHolds ==
    Spec => []TurnedAwayForCause
<1>1. PInv => TurnedAwayForCause
  BY DEF PInv, At, Told, TurnedAwayForCause
<1>. QED
  BY <1>1, PipelineInvariance, PTL

\* An answer other than 504 tells what became of the write, but for an update that
\* fails in its second read and for a commit that raised.
THEOREM AnswerTellsEffectHolds ==
    Spec => []AnswerTellsEffect
<1>1. PInv => AnswerTellsEffect
  BY DEF PInv, At, Told, AnswerTellsEffect
<1>. QED
  BY <1>1, PipelineInvariance, PTL

\* The two pools cannot block each other.
THEOREM NoCircularWaitHolds ==
    Spec => []NoCircularWait
<1>1. PInv => NoCircularWait
  BY DEF PInv, Pool, NoCircularWait, NeedsCrm, InHandler, AfterCommit
<1>. QED
  BY <1>1, PipelineInvariance, PTL
=============================================================================
