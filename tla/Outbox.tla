------------------------------- MODULE Outbox -------------------------------
(***************************************************************************)
(* What the audit log and the notification service promise a handler: an   *)
(* outbox that takes one audit entry and then, in one step, one delivery   *)
(* from each publisher.  It has no statements, no savepoints, no locks, no *)
(* preferences and no failures.                                            *)
(*                                                                         *)
(* A delivery may be empty: publish is best effort.  It is never partial,  *)
(* never repeated, never before the audit entry's turn, and queues no key  *)
(* again.  Hints follow it, one for a person at most.  Whom a delivery     *)
(* ought to reach is the business of LandedReaches in NewsNotify.          *)
(***************************************************************************)

CONSTANTS
    Publishers,
    People,
    Null        \* no user, no link

VARIABLES
    stage,      \* of each publisher: "new", "recorded" or "closed"
    audit,      \* table audit_log
    notes,      \* table notification
    mails,      \* table outbound_message
    hinted      \* the people each publisher has sent a hint

Init ==
    /\ stage = [p \in Publishers |-> "new"]
    /\ audit = {} /\ notes = {} /\ mails = {}
    /\ hinted = [p \in Publishers |-> {}]

\* At most one entry, now or never. A publisher may give up behind it.
Record(p) ==
    /\ stage[p] = "new"
    /\ \E next \in {"recorded", "closed"} : stage' = [stage EXCEPT ![p] = next]
    /\ \/ audit' = audit
       \/ \E u \in People \cup {Null} : audit' = audit \cup {[by |-> p, user |-> u]}
    /\ UNCHANGED <<notes, mails, hinted>>

\* New mails are p's own, one for a person, with keys of their own, and linked
\* to nothing but the row that their person gets with them.
Fits(p, recipients) ==
    \A m \in mails' \ mails :
       /\ m.by = p
       /\ m.note # Null => /\ m.user \in recipients
                           /\ m.note = [by |-> p, user |-> m.user]
       /\ \A n \in mails' : n.key = m.key \/ (n.by = p /\ n.user = m.user) => n = m

\* Rows and mails appear together.
Deliver(p) ==
    /\ stage[p] = "recorded"
    /\ stage' = [stage EXCEPT ![p] = "closed"]
    /\ mails \subseteq mails'
    /\ \E recipients \in SUBSET People :
          /\ notes' = notes \cup {[by |-> p, user |-> u] : u \in recipients}
          /\ Fits(p, recipients)
    /\ UNCHANGED <<audit, hinted>>

Hint(p) ==
    /\ stage[p] = "closed"
    /\ \E u \in People \ hinted[p] :
          hinted' = [hinted EXCEPT ![p] = hinted[p] \cup {u}]
    /\ UNCHANGED <<stage, audit, notes, mails>>

\* A person's account goes, and the rows and links to them with it.
Close(u) ==
    /\ notes' = {n \in notes : n.user # u}
    /\ mails' = {IF m.user = u THEN [m EXCEPT !.note = Null] ELSE m : m \in mails}
    /\ UNCHANGED <<stage, audit, hinted>>

Next ==
    \/ \E p \in Publishers : Record(p) \/ Deliver(p) \/ Hint(p)
    \/ \E u \in People : Close(u)

Spec == Init /\ [][Next]_<<stage, audit, notes, mails, hinted>>
=============================================================================
