------------------------ MODULE NewsNotifyInvariant ------------------------
(***************************************************************************)
(* The inductive invariant behind the safety properties of NewsNotify.     *)
(***************************************************************************)
EXTENDS NewsNotify

Finished == {"done", "gone"}

\* What a publisher has flushed, staged and sent at each statement.
Control ==
    \A p \in Publishers :
       /\ pc[p] = "idle" <=> call[p] = Null
       /\ pc[p] \notin {"contacts", "mails", "commit"} => flushed[p].notes = {}
       /\ pc[p] # "commit" => flushed[p].mails = {}
       /\ pc[p] \notin {"commit", "hints"} => staged[p] = {}
       /\ pc[p] \notin {"hints"} \cup Finished => hinted[p] = {}
       /\ pc[p] \notin {"commit", "hints"} \cup Finished => outcome[p] = "none"
       /\ pc[p] \in {"hints"} \cup Finished => outcome[p] # "none"
       /\ pc[p] = "commit" => outcome[p] \in {"none", "lost"}
       /\ outcome[p] = "lost" => /\ flushed[p].notes = {} /\ flushed[p].mails = {}
                                 /\ staged[p] = {} /\ hinted[p] = {}
       /\ pc[p] \in {"contacts", "mails"} =>
             flushed[p].notes = {Note(p, u) : u \in found[p].inapp}
       /\ pc[p] = "commit" =>
             flushed[p].notes = {Note(p, u) : u \in staged[p]}

\* Every row is its publisher's, and is there only after its commit.
Provenance ==
    /\ \A x \in notes \cup mails : /\ pc[x.by] \in {"hints"} \cup Finished
                                   /\ outcome[x.by] # "lost"
    /\ \A m \in mails : m.key = DedupeKey(call[m.by], m.user)
    /\ \A p \in Publishers :
          \A m \in flushed[p].mails :
             m.by = p /\ m.key = DedupeKey(call[p], m.user)

\* The link of a mail, queued or about to be.
Links ==
    /\ \A m \in mails : m.note # Null => /\ m.note = Note(m.by, m.user)
                                         /\ m.note \in notes
    /\ \A p \in Publishers :
          \A m \in flushed[p].mails :
             m.note # Null => /\ m.note = Note(p, m.user)
                              /\ m.note \in flushed[p].notes

\* Whom a publisher is about to hint has a row, but after a commit whose outcome
\* is unknown.
StagedRows ==
    \A p \in Publishers : \A u \in People \ touched[p] :
       pc[p] = "hints" /\ u \in staged[p] =>
          Note(p, u) \in notes \/ outcome[p] = "unsure"

\* No two mails have one key, whether committed or not.
DistinctKeys ==
    /\ OneMailPerKey
    /\ \A p \in Publishers : \A m \in flushed[p].mails :
          /\ \A n \in flushed[p].mails : m.key = n.key => m = n
          /\ \A n \in mails : m.key # n.key
          /\ \A q \in Publishers \ {p} :
                \A n \in flushed[q].mails : m.key # n.key

\* The directory is consistent, and what concerns an untouched person is as
\* it was when the publisher began.
SameSince ==
    /\ \A m \in dir.members : dir.accounts[m.user] # Null
    /\ \A p \in Publishers : pc[p] # "idle" =>
          \A u \in People \ touched[p] :
             /\ dir.accounts[u] = start[p].accounts[u]
             /\ \A m \in Memberships : m.user = u =>
                   (m \in dir.members <=> m \in start[p].members)
             /\ \A x \in Preferences : x.user = u =>
                   (x \in dir.prefs <=> x \in start[p].prefs)

\* What a publisher knows of the untouched, statement by statement.
KnowsAuthor(p) ==
    /\ found[p].author \in {Null, call[p].exclude}
    /\ \A u \in People \ touched[p] :
          u = call[p].exclude /\ start[p].accounts[u] # Null =>
             found[p].author = u

KnowsAudience(p) ==
    \A u \in People \ touched[p] : u \in found[p].audience <=> Invited(p, u)

KnowsChannels(p) ==
    \A u \in People \ touched[p] :
       /\ u \in found[p].inapp <=> Entitled(p, u, "inapp")
       /\ u \in found[p].email <=> Entitled(p, u, "email")

KnowsContacts(p) ==
    /\ \A m \in found[p].batch :
          /\ m.by = p /\ m.user \in found[p].email
          /\ m.key = DedupeKey(call[p], m.user)
          /\ m.note # Null => m.note = Note(p, m.user) /\ m.user \in found[p].inapp
    /\ \A u \in People \ touched[p] :
          Entitled(p, u, "email") /\ Addressable(p, u) =>
             \E m \in found[p].batch : m.key = DedupeKey(call[p], u)

ReadyToCommit(p) ==
    \A u \in People \ touched[p] :
       /\ u \in staged[p] <=> Entitled(p, u, "inapp")
       /\ Entitled(p, u, "email") /\ Addressable(p, u) =>
             \E m \in mails \cup flushed[p].mails :
                m.key = DedupeKey(call[p], u)
       /\ \A m \in flushed[p].mails : m.user = u => Entitled(p, u, "email")

Knowledge ==
    \A p \in Publishers :
       /\ pc[p] = "audience" => KnowsAuthor(p)
       /\ pc[p] = "channels" => KnowsAudience(p)
       /\ pc[p] \in {"notes", "contacts", "mails"} => KnowsChannels(p)
       /\ pc[p] = "mails" => KnowsContacts(p)
       /\ pc[p] = "commit" /\ outcome[p] = "none" => ReadyToCommit(p)

IInv == /\ TypeOK /\ Control /\ Provenance /\ Links /\ DistinctKeys
        /\ SameSince /\ Knowledge
        /\ StagedRows /\ LandedReaches /\ AllOrNothing /\ HintsMatchRows
=============================================================================
