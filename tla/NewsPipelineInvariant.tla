----------------------- MODULE NewsPipelineInvariant -----------------------
(***************************************************************************)
(* The inductive invariant of NewsPipeline: what is known of a request at  *)
(* each place of its way.                                                  *)
(***************************************************************************)
EXTENDS NewsPipeline

Ended == {"idle", "done"}
AfterCommit == {"audit", "publish", "reread"}
InHandler == {"author", "post", "voters", "write", "commit"} \cup AfterCommit

\* Which requests come by which places.
Place(r) ==
    /\ pc[r] = "idle" => call[r] = Null /\ ctx[r] = NoContext /\ answer[r] = "none"
    /\ pc[r] # "idle" => call[r] \in Calls /\ ctx[r].role = RoleOf(call[r])
    /\ pc[r] # "done" => answer[r] \in {"none", "timeout"}
    /\ pc[r] \in {"author", "publish"} => call[r].op = "create"
    /\ pc[r] = "reread" => call[r].op = "update"
    /\ pc[r] = "voters" => call[r].op = "results"
    /\ pc[r] = "probe" => call[r].op = "readiness"
    /\ pc[r] = "post" => call[r].op # "create"
    /\ pc[r] \in {"write", "commit"} \cup AfterCommit => call[r].op \in Writes

\* Who has passed every dependency.
Admitted(r) ==
    /\ call[r].user # Null /\ call[r].community # Null
    /\ TRUE \in entitled[r]
    /\ ctx[r].internal # Null
    /\ MinRole(r)

\* The context names the community of the headers, once it is registered.  Rows are
\* seen and transactions committed for that community only, after the gate; nobody
\* has committed who has not come to the commit.
Within(r) ==
    /\ ctx[r].internal # Null =>
          /\ call[r].community \in registered
          /\ ctx[r].internal = IdOf[call[r].community]
    /\ pc[r] \in InHandler \/ Served(r) => Admitted(r)
    /\ read[r] \subseteq {ctx[r].internal}
    /\ read[r] # {} => pc[r] \in InHandler \cup {"done"}
    /\ wrote[r] \in {Null, ctx[r].internal}
    /\ wrote[r] # Null => pc[r] \in AfterCommit \cup {"done"}
    /\ pc[r] \in AfterCommit => wrote[r] # Null

\* The present moment is on record while a request is at the gate, and so is the one
\* at which its community was found to have no row.
Watched(r) ==
    /\ pc[r] \in AtGate => Entitled(call[r]) \in entitled[r]
    /\ pc[r] = "feature" /\ ctx[r].internal = Null => FALSE \in entitled[r]

\* What the answer says: AnswerTellsEffect and TurnedAwayForCause, for one request.
Told(r) ==
    /\ answer[r] = "ok" /\ call[r].op \in Writes => wrote[r] # Null
    /\ answer[r] \notin {"none", "ok", "timeout"} =>
          \/ wrote[r] = Null
          \/ call[r].op = "update" /\ answer[r] \in {"missing", "default"}
          \/ r \in unsure /\ answer[r] = "default"
    /\ answer[r] = "forbidden" => call[r].op \in ManagerOnly /\ NoManager(call[r])
    /\ answer[r] = "unsubscribed" => FALSE \in entitled[r]

\* Which connections are held where.
Pool(r) ==
    /\ pc[r] \in Ended => ~Holds(r, Conns)
    /\ Holds(r, LocalConns) => pc[r] \in {"voters", "write", "commit"}
    /\ pc[r] \in InHandler \ {"publish", "reread"} => Holds(r, CrmConns)

At(r) == Place(r) /\ Within(r) /\ Watched(r) /\ Told(r)

PInv == TypeOK /\ \A r \in Requests : At(r) /\ Pool(r)
=============================================================================
