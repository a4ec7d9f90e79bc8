---------------------------- MODULE NewsPipeline ----------------------------
(***************************************************************************)
(* A request on its way through one process of the news board: the limits  *)
(* and gateway middleware, the dependencies of the router, the handler's   *)
(* use of the two connection pools, and the answer.                        *)
(*                                                                         *)
(* The dependencies share one CRM session (get_crm_session is cached for   *)
(* the request), which borrows a connection at its first statement and     *)
(* keeps it until it is committed or closed; the local session likewise.   *)
(* Whoever finds the pool empty waits.  Meanwhile the middleware may give  *)
(* up and answer 504, which does not stop the handler, and crm-backend may *)
(* register communities and end or renew their subscriptions.              *)
(*                                                                         *)
(* Abstracted: what the statements read and write (NewsBoard, NewsResults  *)
(* and NewsNotify), but for the community of the rows; row locks           *)
(* (NewsBoard); a statement and the wait for its connection are one step;  *)
(* the wording and code of an error are the name of the answer.            *)
(***************************************************************************)
EXTENDS Integers, Sequences

CONSTANTS
    Requests,      \* the requests that reach this process
    Users,         \* x-user-id
    AuthIds,       \* x-community-id, the id the gateway knows a community by
    Ids,           \* community.id, by which the tables know it
    IdOf,          \* auth_community_id and id of each row of the table community
    CrmConns,      \* the connections of the CRM pool: pool_size + max_overflow
    LocalConns,    \* the connections of the local pool
    Menu,          \* bound: what each request may be, [Requests -> SUBSET Calls]
    MaxChanges,    \* bound: how often crm-backend changes its tables
    Null

Roles == {"MEMBER", "MANAGER", "ADMIN"}

Writes == {"create", "update", "delete", "cast", "retract"}
Reads == {"list", "detail", "results"}
Ops == Writes \cup Reads \cup {"readiness"}

\* Routes with _manager_only, and those that have a body.
ManagerOnly == {"create", "update", "delete"}
WithBody == {"create", "update", "cast"}

\* One block of x-user-orgs; a role may be one this service does not know.
OrgClaims == [org : AuthIds, roles : SUBSET (Roles \cup {"OTHER"})]

Calls == [op : Ops, user : Users \cup {Null}, community : AuthIds \cup {Null},
          orgs : Seq(OrgClaims), body : {"ok", "invalid", "bad_json"},
          length : {"within", "above", "unknown"}]

ASSUME PipelineAssumption ==
    /\ IdOf \in [AuthIds -> Ids]
    /\ \A k, l \in AuthIds : IdOf[k] = IdOf[l] => k = l
    /\ CrmConns \cap LocalConns = {}
    /\ Null \notin Requests \cup Users \cup AuthIds \cup Ids \cup Roles \cup Calls
    /\ \A r \in Requests : Menu[r] \subseteq Calls
    /\ MaxChanges \in Nat

VARIABLES
    registered,    \* the communities that have a row in the CRM database
    active,        \* the ids with an active subscription to the news feature
    changes,       \* how often crm-backend has changed either
    lent,          \* who has borrowed each connection
    pc,            \* where each request is
    call,          \* what it is
    ctx,           \* its context variables: role and internal community
    answer,        \* what the client was answered
    wrote,         \* the community its committed local transaction was for
    read,          \* history: the communities whose rows its statements saw
    entitled,      \* history: whether its community was subscribed, while at the gate
    unsure         \* history: the requests whose local commit raised

crmVars == <<registered, active, changes>>
tables == <<wrote, read, unsure>>
vars == <<crmVars, lent, pc, call, ctx, answer, tables, entitled>>

Conns == CrmConns \cup LocalConns

NoContext == [role |-> Null, internal |-> Null]

----------------------------------------------------------------------------
(* The pools *)

Holds(r, pool) == \E c \in pool : lent[c] = r

Available(r, pool) == Holds(r, pool) \/ \E c \in pool : lent[c] = Null

\* Mutant: every Depends(get_crm_session) has a session of its own.
UsesAnother(r, pool) ==
    /\ \E c \in pool : lent[c] = Null
    /\ lent' = [lent EXCEPT ![CHOOSE c \in pool : lent[c] = Null] = r]

\* The session's first statement borrows a connection, which the others use.
Uses(r, pool) ==
    IF Holds(r, pool) THEN UNCHANGED lent
    ELSE /\ Available(r, pool)
         /\ lent' = [lent EXCEPT ![CHOOSE c \in pool : lent[c] = Null] = r]

\* A commit, a rollback or a close.
GivesBack(r, pool) ==
    lent' = [c \in Conns |-> IF c \in pool /\ lent[c] = r THEN Null ELSE lent[c]]

----------------------------------------------------------------------------
(* The gateway's headers *)

Rank(role) == IF role = "ADMIN" THEN 3 ELSE IF role = "MANAGER" THEN 2
              ELSE IF role = "MEMBER" THEN 1 ELSE 0

\* _resolve_highest_role
Highest(roles) == CHOOSE role \in roles : \A other \in roles : Rank(other) <= Rank(role)

\* Mutant: a role this service does not know counts as one.
RoleAsSent(k) ==
    LET mine == {i \in DOMAIN k.orgs : k.orgs[i].org = k.community}
        first == {i \in mine : \A j \in mine : i <= j}
        roles == UNION {k.orgs[i].roles : i \in first}
    IN IF roles = {} THEN Null ELSE Highest(roles)

\* parse_user_orgs drops a block that names no known role; the first that is
\* left for the active community decides.
RoleOf(k) ==
    LET mine == {i \in DOMAIN k.orgs : /\ k.orgs[i].org = k.community
                                       /\ k.orgs[i].roles \cap Roles # {}}
        first == {i \in mine : \A j \in mine : i <= j}
        roles == UNION {k.orgs[i].roles \cap Roles : i \in first}
    IN IF roles = {} THEN Null ELSE Highest(roles)

----------------------------------------------------------------------------
(* Control *)

Goto(r, label) == pc' = [pc EXCEPT ![r] = label]

\* The middleware passes on nothing that comes after its own 504.
Tell(r, status) ==
    answer' = [answer EXCEPT ![r] = IF @ = "none" THEN status ELSE @]

\* The handler is over: both sessions are closed, then the answer leaves.
End(r, status) ==
    /\ Goto(r, "done")
    /\ Tell(r, status)
    /\ GivesBack(r, Conns)

Stays(r, label) == Goto(r, label) /\ UNCHANGED answer

\* An answer with an error and an answer without need the statement, and so a
\* connection, all the same.
EndsAfter(r, pool, status) == Available(r, pool) /\ End(r, status)

\* Body and parameters are validated once every dependency has passed.
EnterHandler(r) ==
    IF call[r].body = "invalid" THEN End(r, "malformed")
    ELSE /\ Stays(r, IF call[r].op = "create" THEN "author" ELSE "post")
         /\ Uses(r, CrmConns)

----------------------------------------------------------------------------
(* Middleware *)

\* RequestLimitsMiddleware sees the declared length; without one it passes.
Arrive(r) ==
    /\ pc[r] = "idle"
    /\ \E k \in Menu[r] :
          /\ call' = [call EXCEPT ![r] = k]
          /\ ctx' = [ctx EXCEPT ![r] = [NoContext EXCEPT !.role = RoleOf(k)]]
          /\ IF k.length = "above" THEN Goto(r, "done") /\ Tell(r, "too_large")
             ELSE Stays(r, IF k.op = "readiness" THEN "probe"
                           ELSE IF k.op \in WithBody THEN "body" ELSE "resolve")
    /\ UNCHANGED <<crmVars, lent, tables>>

\* After 504 the rest of the body is not waited for: the client is gone.
ReadBody(r) ==
    /\ pc[r] = "body"
    /\ IF call[r].body = "bad_json" \/ answer[r] = "timeout"
       THEN End(r, "malformed")
       ELSE Stays(r, "resolve") /\ UNCHANGED lent
    /\ UNCHANGED <<crmVars, call, ctx, tables>>

\* wait_for gives up on the answer; the task of the handler is not cancelled.
AnswerTimeout(r) ==
    /\ pc[r] \notin {"idle", "done"} /\ answer[r] = "none"
    /\ Tell(r, "timeout")
    /\ UNCHANGED <<crmVars, lent, pc, call, ctx, tables>>

----------------------------------------------------------------------------
(* Dependencies *)

SetInternal(r, id) == ctx' = [ctx EXCEPT ![r] = [@ EXCEPT !.internal = id]]

ResolveInternalCommunity(r) ==
    LET auth == call[r].community
    IN /\ pc[r] = "resolve"
       /\ IF auth \notin registered THEN UNCHANGED ctx
          ELSE SetInternal(r, IdOf[auth])
       /\ IF auth = Null THEN UNCHANGED lent ELSE Uses(r, CrmConns)
       /\ Stays(r, "feature")
       /\ UNCHANGED <<crmVars, call, tables>>

Subscribed(r) == ctx[r].internal # Null /\ ctx[r].internal \in active

MinRole(r) == call[r].op \in ManagerOnly => Rank(ctx[r].role) >= Rank("MANAGER")

\* require_feature, then require_min_role, which awaits nothing.
RequireFeature(r) ==
    /\ pc[r] = "feature"
    /\ IF call[r].user = Null \/ call[r].community = Null
       THEN End(r, "unauthorized")
       ELSE IF ~Subscribed(r) THEN EndsAfter(r, CrmConns, "unsubscribed")
       ELSE IF ~MinRole(r) THEN EndsAfter(r, CrmConns, "forbidden")
       ELSE Available(r, CrmConns) /\ EnterHandler(r)
    /\ UNCHANGED <<crmVars, call, ctx, tables>>

----------------------------------------------------------------------------
(* Handlers *)

\* create_post: the payload is checked before the author's e-mail is read. That
\* the context has a user and a community, which the route checks once more, is
\* known since RequireFeature.
ReadAuthor(r) ==
    /\ pc[r] = "author"
    /\ \/ End(r, "refused")
       \/ Stays(r, "write") /\ Uses(r, CrmConns)
    /\ UNCHANGED <<crmVars, call, ctx, tables>>

\* Mutant: a statement is not filtered.
Unscoped(r) == {IdOf[k] : k \in registered}

\* with_community_scope: the communities whose rows a statement can see; without
\* one in the context it sees none.
Scope(r) == IF ctx[r].internal = Null THEN {} ELSE {ctx[r].internal}

Sees(r) == read' = [read EXCEPT ![r] = @ \cup Scope(r)]

\* The first local statements of the other handlers: the post may be missing or
\* refuse, there may be nothing to retract; list_posts and get_post are done.
ReadPost(r) ==
    LET op == call[r].op
    IN /\ pc[r] = "post"
       /\ \/ op # "list" /\ EndsAfter(r, LocalConns, "missing")
          \/ op \notin {"list", "detail", "delete"}
             /\ EndsAfter(r, LocalConns, "refused")
          \/ op \in {"list", "detail", "results"} /\ EndsAfter(r, LocalConns, "ok")
          \/ op = "retract" /\ EndsAfter(r, LocalConns, "nothing")
          \/ op \in Writes /\ Stays(r, "write") /\ Uses(r, LocalConns)
          \/ op = "results" /\ Stays(r, "voters") /\ Uses(r, LocalConns)
       /\ Sees(r)
       /\ UNCHANGED <<crmVars, call, ctx, wrote, unsure>>

\* get_results: the e-mails of the voters it may name.
ReadVoters(r) ==
    /\ pc[r] = "voters"
    /\ EndsAfter(r, CrmConns, "ok")
    /\ UNCHANGED <<crmVars, call, ctx, tables>>

\* The flush, to rows of the community in the context.
Write(r) ==
    /\ pc[r] = "write"
    /\ Uses(r, LocalConns)
    /\ Stays(r, "commit")
    /\ UNCHANGED <<crmVars, call, ctx, tables>>

\* Mutant: the local transaction stays open until the session is closed.
CommitAtClose(r) ==
    /\ pc[r] = "commit"
    /\ wrote' = [wrote EXCEPT ![r] = ctx[r].internal]
    /\ Stays(r, "audit")
    /\ UNCHANGED <<crmVars, lent, call, ctx, read, unsure>>

Commit(r) ==
    /\ pc[r] = "commit"
    /\ wrote' = [wrote EXCEPT ![r] = ctx[r].internal]
    /\ GivesBack(r, LocalConns)
    /\ Stays(r, "audit")
    /\ UNCHANGED <<crmVars, call, ctx, read, unsure>>

\* A commit that raises may have been carried out, when the connection is lost
\* before its confirmation arrives.
CommitFails(r) ==
    /\ pc[r] = "commit"
    /\ \/ UNCHANGED wrote
       \/ wrote' = [wrote EXCEPT ![r] = ctx[r].internal]
    /\ unsure' = unsure \cup {r}
    /\ End(r, "default")
    /\ UNCHANGED <<crmVars, call, ctx, read>>

\* Mutant: a failure of the audit is not swallowed.
AuditRaises(r) ==
    /\ pc[r] = "audit"
    /\ Available(r, CrmConns)
    /\ End(r, "default")
    /\ UNCHANGED <<crmVars, call, ctx, tables>>

\* _audit: log swallows its failures, and so does the commit; one that failed
\* does not give the connection back.
Audit(r) ==
    LET op == call[r].op
    IN /\ pc[r] = "audit"
       /\ Available(r, CrmConns)
       /\ IF op \in {"create", "update"}
          THEN /\ \/ GivesBack(r, CrmConns) \/ Uses(r, CrmConns)
               /\ Stays(r, IF op = "create" THEN "publish" ELSE "reread")
          ELSE End(r, "ok")
       /\ UNCHANGED <<crmVars, call, ctx, tables>>

\* _notify_post_created: it swallows every failure, a wait in vain included.
Publish(r) ==
    /\ pc[r] = "publish"
    /\ EndsAfter(r, CrmConns, "ok")
    /\ UNCHANGED <<crmVars, call, ctx, tables>>

\* update_post returns get_post.
Reread(r) ==
    /\ pc[r] = "reread"
    /\ \E status \in {"ok", "missing"} : EndsAfter(r, LocalConns, status)
    /\ Sees(r)
    /\ UNCHANGED <<crmVars, call, ctx, wrote, unsure>>

\* readiness: SELECT 1 on the CRM database.
Probe(r) ==
    /\ pc[r] = "probe"
    /\ EndsAfter(r, CrmConns, "ok")
    /\ UNCHANGED <<crmVars, call, ctx, tables>>

\* A statement fails or waits for its connection in vain, for a commit see above.
\* Outside a handler nothing but the catch-all maps the exception; the probe
\* answers for a failure of the database itself.
Fails(r) ==
    /\ \/ pc[r] \in {"resolve", "feature"} /\ End(r, "internal")
       \/ pc[r] \in {"author", "post", "voters", "write", "reread"}
          /\ End(r, "default")
       \/ pc[r] = "publish" /\ End(r, "ok")
       \/ pc[r] = "probe" /\ \E status \in {"unready", "internal"} : End(r, status)
    /\ UNCHANGED <<crmVars, call, ctx, tables>>

----------------------------------------------------------------------------
(* crm-backend *)

Change ==
    /\ changes < MaxChanges
    /\ changes' = changes + 1
    /\ \/ /\ \E k \in AuthIds \ registered : registered' = registered \cup {k}
          /\ UNCHANGED active
       \/ /\ \E k \in registered :
                active' = IF IdOf[k] \in active THEN active \ {IdOf[k]}
                          ELSE active \cup {IdOf[k]}
          /\ UNCHANGED registered
    /\ UNCHANGED <<lent, pc, call, ctx, answer, tables>>

----------------------------------------------------------------------------
Handle(r) ==
    \/ ResolveInternalCommunity(r) \/ RequireFeature(r)
    \/ ReadAuthor(r) \/ ReadPost(r) \/ ReadVoters(r) \/ Write(r) \/ Commit(r)
    \/ Audit(r) \/ Publish(r) \/ Reread(r) \/ Probe(r)

\* Where a request has not yet passed its dependencies.
AtGate == {"body", "resolve", "feature"}

\* The community the headers name has an active subscription.
Entitled(k) ==
    k.community \in registered /\ IdOf[k.community] \in active

Watch ==
    entitled' = [r \in Requests |->
        IF pc'[r] \in AtGate THEN entitled[r] \cup {Entitled(call[r])'} ELSE entitled[r]]

Init ==
    /\ registered \in SUBSET AuthIds
    /\ active \in SUBSET {IdOf[k] : k \in registered}
    /\ changes = 0
    /\ lent = [c \in Conns |-> Null]
    /\ pc = [r \in Requests |-> "idle"]
    /\ call = [r \in Requests |-> Null]
    /\ ctx = [r \in Requests |-> NoContext]
    /\ answer = [r \in Requests |-> "none"]
    /\ wrote = [r \in Requests |-> Null]
    /\ read = [r \in Requests |-> {}]
    /\ entitled = [r \in Requests |-> {}]
    /\ unsure = {}

Next ==
    /\ \/ \E r \in Requests : \/ Arrive(r) \/ ReadBody(r) \/ Handle(r)
                             \/ AnswerTimeout(r) \/ Fails(r) \/ CommitFails(r)
       \/ Change
    /\ Watch

Spec == Init /\ [][Next]_vars

\* asyncio runs every task that can go on, a statement returns, and the timer of
\* the middleware goes off.  No client has to send a request or the rest of its
\* body, and no statement and no wait for a connection has to fail.
Proceeds(r) ==
    Handle(r) \/ AnswerTimeout(r) \/ (ReadBody(r) /\ answer[r] = "timeout")

FairSpec == Spec /\ \A r \in Requests : WF_<<pc, answer>>(Proceeds(r))

----------------------------------------------------------------------------
(* Properties *)

Labels == {"idle", "body", "resolve", "feature", "author", "post", "voters", "write",
           "commit", "audit", "publish", "reread", "probe", "done"}

Answers == {"none", "ok", "nothing", "too_large", "malformed", "unauthorized",
            "unsubscribed", "forbidden", "missing", "refused", "default", "internal",
            "unready", "timeout"}

\* The values the variables may take.
TypeOK ==
    /\ registered \subseteq AuthIds /\ active \subseteq Ids
    /\ changes \in 0 .. MaxChanges
    /\ lent \in [Conns -> Requests \cup {Null}]
    /\ pc \in [Requests -> Labels]
    /\ call \in [Requests -> Calls \cup {Null}]
    /\ ctx \in [Requests -> [role : Roles \cup {Null}, internal : Ids \cup {Null}]]
    /\ answer \in [Requests -> Answers]
    /\ wrote \in [Requests -> Ids \cup {Null}]
    /\ read \in [Requests -> SUBSET Ids]
    /\ entitled \in [Requests -> SUBSET BOOLEAN]
    /\ unsure \subseteq Requests

\* Rows of the board were changed or seen, or the client was told that they were.
Served(r) ==
    \/ wrote[r] # Null
    \/ read[r] # {}
    \/ call[r] # Null /\ call[r].op \in Reads /\ answer[r] = "ok"

\* "Every record is scoped to a community, gated on an active news subscription",
\* "writes additionally require manager/admin" (README.md, routes.py): every row of
\* the board that is read or written is of the community the headers name, for a
\* known user, after that community was subscribed at a moment at which this very
\* request was at the gate; and what is for managers only is served to nobody but
\* a caller whom the headers call a manager of that same community.
ServedWithAccess ==
    \A r \in Requests : Served(r) =>
        /\ call[r].user # Null /\ call[r].community # Null
        /\ TRUE \in entitled[r]
        /\ wrote[r] \in {Null, IdOf[call[r].community]}
        /\ read[r] \subseteq {IdOf[call[r].community]}
        /\ call[r].op \in ManagerOnly =>
              \E i \in DOMAIN call[r].orgs :
                  /\ call[r].orgs[i].org = call[r].community
                  /\ call[r].orgs[i].roles \cap {"MANAGER", "ADMIN"} # {}

\* The blocks for the community in which the service knows a role.
KnownBlocks(k) == {i \in DOMAIN k.orgs : /\ k.orgs[i].org = k.community
                                         /\ k.orgs[i].roles \cap Roles # {}}

\* The headers do not make the caller a manager beyond doubt.
NoManager(k) ==
    \/ KnownBlocks(k) = {}
    \/ \E i \in KnownBlocks(k) : k.orgs[i].roles \cap {"MANAGER", "ADMIN"} = {}

\* The gate turns nobody away without a cause: who is refused as no manager asked for
\* a managers' operation, and has no block for the community with a role the service
\* knows or one that makes them a mere member, so that a block of unknown roles hides
\* no other; who is refused as not subscribed was so at a moment at the gate, though
\* crm-backend registers and subscribes between the dependencies.
TurnedAwayForCause ==
    \A r \in Requests :
        /\ answer[r] = "forbidden" => call[r].op \in ManagerOnly /\ NoManager(call[r])
        /\ answer[r] = "unsubscribed" => FALSE \in entitled[r]

\* A client that is answered knows what became of its write, whichever statement,
\* audit or notification failed: success means that it is committed, an error that
\* it is not.  There are two exceptions: an update answers with a second read, which
\* may fail, and a commit that raises may have been carried out, so that its default
\* error tells as little as a 504.
AnswerTellsEffect ==
    \A r \in Requests :
        /\ answer[r] = "ok" /\ call[r].op \in Writes => wrote[r] # Null
        /\ answer[r] \notin {"none", "ok", "timeout"} =>
              \/ wrote[r] = Null
              \/ call[r].op = "update" /\ answer[r] \in {"missing", "default"}
              \/ r \in unsure /\ answer[r] = "default"

NeedsCrm(r) == pc[r] \in {"resolve", "feature", "author", "voters", "audit",
                          "publish", "probe"}

\* Nobody waits for a connection of the CRM pool while it keeps one of the local
\* pool from others, so that the two small pools cannot block each other.
NoCircularWait ==
    \A r \in Requests : NeedsCrm(r) /\ Holds(r, LocalConns) => Holds(r, CrmConns)

\* Every request that arrives ends with an answer and gives back its connections,
\* even if the pools are drained and no wait for a connection ever times out: in
\* the long run nothing is under way.
EveryRequestEnds ==
    <>[](\A r \in Requests : /\ pc[r] \in {"idle", "done"}
                             /\ pc[r] = "done" => answer[r] # "none"
                             /\ ~Holds(r, Conns))
=============================================================================
