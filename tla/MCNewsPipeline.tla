--------------------------- MODULE MCNewsPipeline ---------------------------
(* Instances of NewsPipeline for TLC. *)
EXTENDS NewsPipelineInvariant, TLC

CONSTANTS r1, r2, r3, u1, a1, a2, i1, i2

MCIdOf == [k \in {a1, a2} |-> IF k = a1 THEN i1 ELSE i2]

Claim(org, roles) == [org |-> org, roles |-> roles]

\* A manager of one community who is a member of the other; the first block of each
\* names only a role this service does not know.
MixedOrgs == <<Claim(a1, {"OTHER"}), Claim(a2, {"OTHER"}),
               Claim(a2, {"MEMBER", "ADMIN"}), Claim(a1, {"MEMBER"})>>

Basic == [op |-> "list", user |-> u1, community |-> a2, orgs |-> MixedOrgs,
          body |-> "ok", length |-> "within"]

Ask(ops) == {[Basic EXCEPT !.op = op] : op \in ops}

\* Two requests that go all the way, or are turned away on it, beside the probe of
\* the orchestrator.
PipelineMenu ==
    r1 :> Ask({"create"}) \cup
             {[Basic EXCEPT !.op = "create", !.length = "above"],
              [Basic EXCEPT !.op = "create", !.body = "invalid"],
              [Basic EXCEPT !.op = "create", !.community = a1],
              [Basic EXCEPT !.community = Null]}
    @@ r2 :> Ask({"update", "retract", "results"}) \cup
             {[Basic EXCEPT !.op = "cast", !.body = "bad_json"]}
    @@ r3 :> Ask({"readiness"})

\* Bound: the other community is registered and subscribed throughout, so that what
\* crm-backend may change is that of the requests which go all the way.
OtherStays == a1 \in registered /\ i1 \in active
=============================================================================
