-------------------------- MODULE NewsNotifyProofs --------------------------
(***************************************************************************)
(* Proofs about NewsNotify, for any number of publishers, people and       *)
(* communities, any calls the contract allows, and any number of changes   *)
(* by crm-backend.                                                         *)
(***************************************************************************)
EXTENDS NewsNotifyInvariant, Sequences, TLAPS

\* What IInv says of one publisher.
Flow(p) ==
    /\ pc[p] = "idle" <=> call[p] = Null
    /\ pc[p] \notin {"contacts", "mails", "commit"} => flushed[p].notes = {}
    /\ pc[p] # "commit" => flushed[p].mails = {}
    /\ pc[p] \notin {"commit", "hints"} => staged[p] = {}
    /\ pc[p] \notin {"hints"} \cup Finished => hinted[p] = {}
    /\ pc[p] \notin {"commit", "hints"} \cup Finished => outcome[p] = "none"
    /\ pc[p] \in {"hints"} \cup Finished => outcome[p] # "none"
    /\ pc[p] = "commit" => outcome[p] \in {"none", "lost"}
    /\ outcome[p] = "lost" => /\ flushed[p].notes = {} /\ flushed[p].mails = {}
                              /\ staged[p] = {} /\ hinted[p] = {}
    /\ pc[p] \in {"contacts", "mails"} =>
          flushed[p].notes = {Note(p, u) : u \in found[p].inapp}
    /\ pc[p] = "commit" => flushed[p].notes = {Note(p, u) : u \in staged[p]}

Queued(p) ==
    \A m \in flushed[p].mails :
       /\ m.by = p /\ m.key = DedupeKey(call[p], m.user)
       /\ m.note # Null => m.note = Note(p, m.user) /\ m.note \in flushed[p].notes

Landed(p) ==
    /\ \A x \in notes : x.by = p => /\ pc[p] \in {"hints"} \cup Finished
                                    /\ outcome[p] # "lost"
    /\ \A x \in mails : x.by = p => /\ pc[p] \in {"hints"} \cup Finished
                                    /\ outcome[p] # "lost"
                                    /\ x.key = DedupeKey(call[p], x.user)

Since(p) ==
    pc[p] # "idle" =>
       \A u \in People \ touched[p] :
          /\ dir.accounts[u] = start[p].accounts[u]
          /\ \A m \in Memberships : m.user = u =>
                (m \in dir.members <=> m \in start[p].members)
          /\ \A x \in Preferences : x.user = u =>
                (x \in dir.prefs <=> x \in start[p].prefs)

Knows(p) ==
    /\ pc[p] = "audience" => KnowsAuthor(p)
    /\ pc[p] = "channels" => KnowsAudience(p)
    /\ pc[p] \in {"notes", "contacts", "mails"} => KnowsChannels(p)
    /\ pc[p] = "mails" => KnowsContacts(p)
    /\ pc[p] = "commit" /\ outcome[p] = "none" => ReadyToCommit(p)

Told(p) ==
    /\ outcome[p] = "landed" => Reaches(p)
    /\ (\E x \in notes \cup mails : x.by = p) => Reaches(p)
    /\ \A u \in People \ touched[p] :
          /\ u \in hinted[p] => Note(p, u) \in notes \/ outcome[p] = "unsure"
          /\ pc[p] = "hints" /\ Note(p, u) \in notes =>
                u \in hinted[p] \cup staged[p]
          /\ pc[p] = "hints" /\ u \in staged[p] =>
                Note(p, u) \in notes \/ outcome[p] = "unsure"

At(p) == Flow(p) /\ Queued(p) /\ Landed(p) /\ Since(p) /\ Knows(p) /\ Told(p)

\* What it says of the tables.
Tables ==
    /\ \A m \in dir.members : dir.accounts[m.user] # Null
    /\ \A m \in mails : m.note # Null => /\ m.note = Note(m.by, m.user)
                                         /\ m.note \in notes
    /\ DistinctKeys

LEMMA RowsByPublishers ==
    TypeOK => /\ \A x \in notes : x.by \in Publishers
              /\ \A x \in mails : x.by \in Publishers
BY DEF TypeOK, NoteRows, MailRows

LEMMA IInvAt == IInv <=> TypeOK /\ Tables /\ \A p \in Publishers : At(p)
<1>1. ASSUME IInv PROVE TypeOK /\ Tables /\ \A p \in Publishers : At(p)
  <2>1. TypeOK /\ Tables
    BY <1>1 DEF IInv, Tables, SameSince, Links
  <2>2. ASSUME NEW p \in Publishers PROVE At(p)
    <3>1. Flow(p) /\ Knows(p)
      BY <1>1 DEF IInv, Flow, Knows, Control, Knowledge
    <3>2. Queued(p) /\ Landed(p)
      BY <1>1 DEF IInv, Queued, Landed, Provenance, Links
    <3>3. Since(p)
      BY <1>1 DEF IInv, Since, SameSince
    <3>4. Told(p)
      BY <1>1 DEF IInv, Told, LandedReaches, AllOrNothing, HintsMatchRows, StagedRows
    <3>. QED
      BY <3>1, <3>2, <3>3, <3>4 DEF At
  <2>. QED
    BY <2>1, <2>2
<1>2. ASSUME TypeOK, Tables, \A p \in Publishers : At(p) PROVE IInv
  <2>1. Control /\ Knowledge
    BY <1>2 DEF At, Flow, Knows, Control, Knowledge
  <2>2. Provenance /\ Links
    BY <1>2, RowsByPublishers DEF At, Queued, Landed, Tables, Provenance, Links
  <2>3. SameSince
    BY <1>2 DEF At, Since, Tables, SameSince
  <2>4. LandedReaches /\ AllOrNothing /\ HintsMatchRows /\ StagedRows
    BY <1>2 DEF At, Told, LandedReaches, AllOrNothing, HintsMatchRows, StagedRows
  <2>. QED
    BY <1>2, <2>1, <2>2, <2>3, <2>4 DEF IInv, Tables
<1>. QED
  BY <1>1, <1>2

LEMMA IInvAtNext == (TypeOK /\ Tables /\ \A p \in Publishers : At(p))' => IInv'
BY IInvAt, PTL

----------------------------------------------------------------------------
(* The other publishers *)

\* A step that leaves publisher q's own state alone.
Aside(q) ==
    /\ pc'[q] = pc[q] /\ call'[q] = call[q] /\ found'[q] = found[q]
    /\ flushed'[q] = flushed[q] /\ staged'[q] = staged[q]
    /\ hinted'[q] = hinted[q] /\ outcome'[q] = outcome[q]
    /\ start'[q] = start[q]

\* A step that adds rows of other publishers than q, or none.
Adds(q) ==
    /\ notes \subseteq notes' /\ \A x \in notes' \ notes : x.by # q
    /\ mails \subseteq mails' /\ \A x \in mails' \ mails : x.by # q

LEMMA EntitledStays ==
    ASSUME NEW q \in Publishers, call'[q] = call[q], start'[q] = start[q],
           NEW u
    PROVE  /\ Invited(q, u)' <=> Invited(q, u)
           /\ Addressable(q, u)' <=> Addressable(q, u)
           /\ \A c \in Channels : Entitled(q, u, c)' <=> Entitled(q, u, c)
BY DEF Invited, Addressable, Entitled

LEMMA OthersKeep ==
    ASSUME NEW q \in Publishers, At(q), Aside(q), Adds(q),
           dir' = dir, touched'[q] = touched[q]
    PROVE  At(q)'
<1>. USE DEF Aside
<1>1. Flow(q)'
  BY DEF At, Flow, Note
<1>2. Queued(q)'
  BY DEF At, Queued, Note
<1>3. Landed(q)'
  BY DEF At, Landed, Adds
<1>4. Since(q)'
  BY DEF At, Since
<1>5. Knows(q)'
  <2>1. Knows(q)
    BY DEF At
  <2>2. pc[q] = "audience" => KnowsAuthor(q)'
    BY <2>1 DEF Knows, KnowsAuthor
  <2>3. pc[q] = "channels" => KnowsAudience(q)'
    BY <2>1, EntitledStays DEF Knows, KnowsAudience
  <2>4. pc[q] \in {"notes", "contacts", "mails"} => KnowsChannels(q)'
    BY <2>1, EntitledStays DEF Knows, KnowsChannels, Channels
  <2>5. pc[q] = "mails" => KnowsContacts(q)'
    BY <2>1, EntitledStays DEF Knows, KnowsContacts, Channels, Note
  <2>6. pc[q] = "commit" /\ outcome[q] = "none" => ReadyToCommit(q)'
    BY <2>1, EntitledStays DEF Knows, ReadyToCommit, Channels, Adds
  <2>. QED
    BY <2>2, <2>3, <2>4, <2>5, <2>6 DEF Knows
<1>6. Told(q)'
  <2>1. Reaches(q) => Reaches(q)'
    BY EntitledStays DEF Reaches, Channels, Adds, Note, IsFor
  <2>2. \A u : Note(q, u) \in notes' <=> Note(q, u) \in notes
    BY DEF Adds, Note
  <2>3. (\E x \in notes' \cup mails' : x.by = q) => \E x \in notes \cup mails : x.by = q
    BY DEF Adds
  <2>. QED
    BY <2>1, <2>2, <2>3 DEF At, Told, Note
<1>. QED
  BY <1>1, <1>2, <1>3, <1>4, <1>5, <1>6 DEF At

----------------------------------------------------------------------------
(* Steps that leave the tables alone *)

LEMMA TablesStay ==
    ASSUME Tables, UNCHANGED <<dir, notes, mails>>,
           \A q \in Publishers : flushed'[q].mails \subseteq flushed[q].mails
    PROVE  Tables'
BY DEF Tables, DistinctKeys, OneMailPerKey

\* Until its commit a publisher has no row, so that nothing is to be shown.
LEMMA Unlanded ==
    ASSUME NEW p \in Publishers, At(p), pc[p] \notin {"hints"} \cup Finished
    PROVE  /\ \A x \in notes \cup mails : x.by # p
           /\ hinted[p] = {}
BY DEF At, Landed, Flow

Preparing == InFlight \ {"hints"}

LEMMA Prepares ==
    ASSUME NEW p \in Publishers, At(p), pc[p] \in Preparing,
           UNCHANGED <<dir, start, touched, call, hinted, notes, mails>>,
           pc'[p] \in Preparing, outcome'[p] \in {"none", "lost"},
           Flow(p)', Queued(p)', Knows(p)'
    PROVE  At(p)'
<1>1. \A x \in notes \cup mails : x.by # p
  BY Unlanded DEF Preparing, InFlight, Finished
<1>2. Landed(p)'
  BY <1>1 DEF Landed
<1>3. Since(p)'
  BY DEF At, Since, Preparing, InFlight
<1>4. Told(p)'
  BY <1>1, Unlanded DEF Told, Preparing, InFlight, Finished
<1>. QED
  BY <1>2, <1>3, <1>4 DEF At

LEMMA PreparesInv ==
    ASSUME IInv, NEW p \in Publishers, pc[p] \in Preparing,
           UNCHANGED <<dir, start, touched, call, hinted, notes, mails>>,
           pc'[p] \in Preparing, outcome'[p] \in {"none", "lost"},
           Flow(p)', Queued(p)', Knows(p)',
           Tables', TypeOK', \A q \in Publishers \ {p} : Aside(q)
    PROVE  IInv'
<1>1. \A q \in Publishers : At(q)
  BY IInvAt
<1>2. At(p)'
  BY <1>1, Prepares
<1>3. ASSUME NEW q \in Publishers \ {p} PROVE At(q)'
  BY <1>1, OthersKeep DEF Adds
<1>. QED
  BY <1>2, <1>3, IInvAtNext

----------------------------------------------------------------------------
(* The audit entry *)

\* What a publisher has found stays a finding, whichever part it learns.
LEMMA FindingsUpdated ==
    ASSUME NEW f \in Findings
    PROVE  /\ \A x \in People \cup {Null} : /\ [f EXCEPT !.who = x] \in Findings
                                            /\ [f EXCEPT !.author = x] \in Findings
           /\ \A S \in SUBSET People : [f EXCEPT !.audience = S] \in Findings
           /\ \A S, T \in SUBSET People :
                 [f EXCEPT !.inapp = S, !.email = T] \in Findings
           /\ \A B \in SUBSET MailRows : [f EXCEPT !.batch = B] \in Findings
BY DEF Findings

\* A statement that only reads.
LEMMA ReadsKeep ==
    ASSUME IInv, NEW p \in Publishers, NEW f \in Findings, NEW where \in Preparing,
           pc[p] \in Preparing, Goto(p, where), found' = [found EXCEPT ![p] = f],
           Quiet, UNCHANGED <<tables, flushed>>,
           Flow(p)', Knows(p)'
    PROVE  IInv'
<1>. USE DEF Quiet, outside, tables, Goto
<1>1. TypeOK /\ Tables /\ At(p)
  BY IInvAt
<1>2. TypeOK'
  BY <1>1 DEF TypeOK, Preparing
<1>3. Queued(p)'
  BY <1>1 DEF At, Queued
<1>4. outcome'[p] \in {"none", "lost"}
  BY <1>1 DEF At, Flow, Preparing, InFlight, Finished
<1>5. Tables'
  BY <1>1, TablesStay
<1>6. \A q \in Publishers \ {p} : Aside(q)
  BY <1>1 DEF Aside, TypeOK
<1>7. pc'[p] \in Preparing
  BY <1>1 DEF TypeOK
<1>. QED
  BY <1>2, <1>3, <1>4, <1>5, <1>6, <1>7, PreparesInv

LEMMA Asked ==
    ASSUME IInv, NEW p \in Publishers, pc[p] # "idle"
    PROVE  call[p] \in Calls /\ call[p] \in Menu[p]
BY IInvAt, BoundsAssumption DEF TypeOK, At, Flow

LEMMA AuditWhoKeeps ==
    ASSUME IInv, NEW p \in Publishers, AuditWho(p)
    PROVE  IInv'
<1>. DEFINE x == IF dir.accounts[call[p].actor] # Null THEN call[p].actor ELSE Null
            f == [found[p] EXCEPT !.who = x]
<1>1. TypeOK /\ At(p) /\ pc[p] = "who"
  BY IInvAt DEF AuditWho
<1>2. f \in Findings
  BY <1>1, Asked, FindingsUpdated DEF TypeOK, Calls
<1>3. found' = [found EXCEPT ![p] = f] /\ pc'[p] = "entry"
  BY <1>1 DEF AuditWho, Goto, TypeOK
<1>4. Flow(p)' /\ Knows(p)'
  BY <1>1, <1>3 DEF AuditWho, Quiet, At, Flow, Knows, Finished
<1>. QED
  BY <1>1, <1>2, <1>3, <1>4, ReadsKeep DEF AuditWho, Preparing, InFlight

LEMMA AuditEntryKeeps ==
    ASSUME IInv, NEW p \in Publishers, AuditEntry(p)
    PROVE  IInv'
<1>. USE DEF AuditEntry, Quiet, outside, tables, Goto
<1>1. TypeOK /\ Tables /\ At(p)
  BY IInvAt
<1>2. flushed' \in [Publishers -> Flushes]
  <2>1. {[by |-> p, user |-> found[p].who]} \in SUBSET AuditRows
    BY <1>1 DEF TypeOK, AuditRows, Findings
  <2>2. \A A \in SUBSET AuditRows : [flushed[p] EXCEPT !.audit = A] \in Flushes
    BY <1>1 DEF TypeOK, Flushes
  <2>. QED
    BY <1>1, <2>1, <2>2 DEF TypeOK
<1>3. TypeOK'
  BY <1>1, <1>2 DEF TypeOK, InFlight
<1>4. /\ flushed'[p].notes = flushed[p].notes /\ flushed'[p].mails = flushed[p].mails
      /\ \A q \in Publishers \ {p} : flushed'[q] = flushed[q]
  BY <1>1 DEF TypeOK, Flushes
<1>5. Flow(p)' /\ Queued(p)' /\ Knows(p)'
  BY <1>1, <1>4 DEF At, Flow, Queued, Knows, Finished, TypeOK
<1>6. Tables'
  BY <1>1, <1>4, TablesStay
<1>7. \A q \in Publishers \ {p} : Aside(q)
  BY <1>1, <1>4 DEF Aside, TypeOK
<1>. QED
  BY <1>1, <1>3, <1>5, <1>6, <1>7, PreparesInv DEF Preparing, InFlight, At, Flow, Finished, TypeOK

LEMMA AuditLogFailsKeeps ==
    ASSUME IInv, NEW p \in Publishers, AuditLogFails(p)
    PROVE  IInv'
<1>. USE DEF AuditLogFails, Quiet, outside, tables, Goto
<1>1. TypeOK /\ Tables /\ At(p)
  BY IInvAt
<1>2. TypeOK'
  BY <1>1 DEF TypeOK, InFlight
<1>3. Flow(p)' /\ Queued(p)' /\ Knows(p)'
  BY <1>1 DEF At, Flow, Queued, Knows, Finished, TypeOK
<1>4. Tables'
  BY <1>1, TablesStay
<1>5. \A q \in Publishers \ {p} : Aside(q)
  BY <1>1 DEF Aside, TypeOK
<1>. QED
  BY <1>1, <1>2, <1>3, <1>4, <1>5, PreparesInv DEF Preparing, InFlight, At, Flow, Finished, TypeOK

\* What flushing rows means for the others.
LEMMA FlushNoRows ==
    ASSUME TypeOK, NEW p \in Publishers, Flush(p, NoRows)
    PROVE  /\ flushed' \in [Publishers -> Flushes]
           /\ flushed'[p] = NoRows
           /\ \A q \in Publishers \ {p} : flushed'[q] = flushed[q]
           /\ \A q \in Publishers : flushed'[q].mails \subseteq flushed[q].mails
BY DEF TypeOK, Flush, NoRows, Flushes

LEMMA FlushedAudit ==
    ASSUME TypeOK, NEW p \in Publishers
    PROVE  audit \cup flushed[p].audit \subseteq AuditRows
BY DEF TypeOK, Flushes

LEMMA AuditCommitKeeps ==
    ASSUME IInv, NEW p \in Publishers, AuditCommit(p)
    PROVE  IInv'
<1>. USE DEF AuditCommit, Quiet, outside, Goto
<1>1. TypeOK /\ Tables /\ At(p)
  BY IInvAt
<1>2. /\ flushed' \in [Publishers -> Flushes] /\ flushed'[p] = NoRows
      /\ \A q \in Publishers \ {p} : flushed'[q] = flushed[q]
      /\ \A q \in Publishers : flushed'[q].mails \subseteq flushed[q].mails
  BY <1>1, FlushNoRows
<1>3. TypeOK'
  BY <1>1, <1>2, FlushedAudit DEF TypeOK, InFlight
<1>4. Flow(p)' /\ Queued(p)' /\ Knows(p)'
  BY <1>1, <1>2 DEF At, Flow, Queued, Knows, Finished, TypeOK, NoRows
<1>5. Tables'
  BY <1>1, <1>2, TablesStay
<1>6. \A q \in Publishers \ {p} : Aside(q)
  BY <1>1, <1>2 DEF Aside, TypeOK
<1>. QED
  BY <1>1, <1>3, <1>4, <1>5, <1>6, PreparesInv DEF Preparing, InFlight, At, Flow, Finished, TypeOK

----------------------------------------------------------------------------
(* What publish reads *)

\* Who is muted depends on that person's rows only.
LEMMA MutedByOwnRows ==
    ASSUME NEW k, NEW u, NEW c, NEW P \in SUBSET Preferences, NEW Q \in SUBSET Preferences,
           \A x \in Preferences : x.user = u => (x \in P <=> x \in Q)
    PROVE  Muted(k, P, u, c) <=> Muted(k, Q, u, c)
BY DEF Muted

\* What a statement reads of an untouched person is what was there at first.
LEMMA ReadsAsBefore ==
    ASSUME IInv, NEW p \in Publishers, pc[p] # "idle",
           NEW u \in People \ touched[p]
    PROVE  /\ dir.accounts[u] = start[p].accounts[u]
           /\ \A m \in Memberships : m.user = u =>
                 (m \in dir.members <=> m \in start[p].members)
           /\ \A k, c : Muted(k, dir.prefs, u, c) <=> Muted(k, start[p].prefs, u, c)
           /\ \A m \in start[p].members : m.user = u => start[p].accounts[u] # Null
<1>1. TypeOK /\ Since(p)
  BY IInvAt DEF At
<1>2. dir.prefs \in SUBSET Preferences /\ start[p].prefs \in SUBSET Preferences
  BY <1>1 DEF TypeOK, DirectoryRows
<1>3. \A x \in Preferences : x.user = u => (x \in dir.prefs <=> x \in start[p].prefs)
  BY <1>1 DEF Since
<1>4. ASSUME NEW m \in start[p].members, m.user = u
      PROVE  start[p].accounts[u] # Null
  <2>1. m \in Memberships
    BY <1>1 DEF TypeOK, DirectoryRows
  <2>2. m \in dir.members
    BY <1>1, <1>4, <2>1 DEF Since
  <2>. QED
    BY <1>1, <1>4, <2>2, IInvAt DEF Since, Tables
<1>. QED
  BY <1>1, <1>2, <1>3, <1>4, MutedByOwnRows DEF Since

LEMMA ReadAuthorKeeps ==
    ASSUME IInv, NEW p \in Publishers, ReadAuthor(p)
    PROVE  IInv'
<1>. DEFINE e == call[p].exclude
            x == IF e # Null /\ dir.accounts[e] # Null THEN e ELSE Null
            f == [found[p] EXCEPT !.author = x]
<1>1. TypeOK /\ At(p) /\ pc[p] = "author"
  BY IInvAt DEF ReadAuthor
<1>2. f \in Findings
  BY <1>1, Asked, FindingsUpdated DEF TypeOK, Calls
<1>3. found' = [found EXCEPT ![p] = f] /\ pc'[p] = "audience" /\ found'[p].author = x
  BY <1>1, <1>2 DEF ReadAuthor, Goto, TypeOK, Findings
<1>4. Flow(p)'
  BY <1>1, <1>3 DEF ReadAuthor, Quiet, At, Flow, Finished
<1>5. KnowsAuthor(p)'
  BY <1>1, <1>3, ReadsAsBefore, NullAssumption
     DEF KnowsAuthor, ReadAuthor, Quiet, outside
<1>6. Knows(p)'
  BY <1>3, <1>5 DEF Knows
<1>. QED
  BY <1>1, <1>2, <1>3, <1>4, <1>6, ReadsKeep DEF ReadAuthor, Preparing, InFlight

LEMMA ReadAudienceKeeps ==
    ASSUME IInv, NEW p \in Publishers, ReadAudience(p)
    PROVE  IInv'
<1>. DEFINE k == call[p]
            S == IF k.target = "users" THEN k.users
                 ELSE Members(k, dir.members, found[p].author)
            f == [found[p] EXCEPT !.audience = S]
            where == IF S = {} THEN "commit" ELSE "channels"
<1>1. TypeOK /\ At(p) /\ pc[p] = "audience" /\ k \in Calls
  BY IInvAt, Asked DEF ReadAudience
<1>2. S \in SUBSET People
  BY <1>1 DEF Calls, Members
<1>3. f \in Findings
  BY <1>1, <1>2, FindingsUpdated DEF TypeOK
<1>4. /\ found' = [found EXCEPT ![p] = f] /\ pc'[p] = where
      /\ found'[p].audience = S
  BY <1>1, <1>3 DEF ReadAudience, Goto, TypeOK, Findings
<1>5. UNCHANGED <<call[p], start[p], touched[p], flushed[p], staged[p], hinted[p],
                  outcome[p]>>
  BY DEF ReadAudience, Quiet, outside
<1>6. Flow(p)'
  <2>1. flushed[p].notes = {} /\ staged[p] = {}
    BY <1>1 DEF At, Flow, Finished
  <2>. QED
    BY <1>1, <1>4, <1>5, <2>1 DEF At, Flow, Finished
<1>7. KnowsAudience(p)'
  <2>1. ASSUME NEW u \in People \ touched[p] PROVE u \in S <=> Invited(p, u)
    <3>1. CASE k.target = "users"
      BY <1>1, <2>1, <3>1 DEF Invited
    <3>2. CASE k.target = "community"
      <4>1. KnowsAuthor(p)
        BY <1>1 DEF At, Knows
      <4>2. start[p].members \subseteq Memberships /\ dir.members \subseteq Memberships
        BY <1>1 DEF TypeOK, DirectoryRows
      <4>3. \A m \in Memberships : m.user = u => (m \in dir.members <=> m \in start[p].members)
        BY <1>1, <2>1, ReadsAsBefore
      <4>4. \A m \in start[p].members : m.user = u => start[p].accounts[u] # Null
        BY <1>1, <2>1, ReadsAsBefore
      <4>5. ASSUME u \in S PROVE Invited(p, u)
        BY <1>1, <2>1, <3>2, <4>1, <4>2, <4>3, <4>4, <4>5
           DEF Members, Invited, KnowsAuthor
      <4>6. ASSUME Invited(p, u) PROVE u \in S
        BY <1>1, <2>1, <3>2, <4>1, <4>2, <4>3, <4>4, <4>6, NullAssumption
           DEF Members, Invited, KnowsAuthor
      <4>. QED
        BY <4>5, <4>6
    <3>. QED
      BY <1>1, <3>1, <3>2 DEF Calls
  <2>. QED
    BY <1>4, <1>5, <2>1, EntitledStays DEF KnowsAudience
<1>8. Knows(p)'
  <2>1. CASE S # {}
    BY <1>4, <1>7, <2>1 DEF Knows
  <2>2. CASE S = {}
    <3>1. \A u \in People \ touched'[p] : ~Invited(p, u)'
      BY <1>4, <1>7, <2>2 DEF KnowsAudience
    <3>2. flushed'[p].mails = {} /\ staged'[p] = {}
      BY <1>1, <1>5 DEF At, Flow, Finished
    <3>3. ReadyToCommit(p)'
      BY <3>1, <3>2 DEF ReadyToCommit, Entitled
    <3>. QED
      BY <1>4, <2>2, <3>3 DEF Knows
  <2>. QED
    BY <2>1, <2>2
<1>. QED
  BY <1>1, <1>3, <1>4, <1>6, <1>8, ReadsKeep DEF ReadAudience, Preparing, InFlight

LEMMA ReadPreferencesKeeps ==
    ASSUME IInv, NEW p \in Publishers, ReadPreferences(p)
    PROVE  IInv'
<1>. DEFINE S == Wanting(call[p], dir.prefs, found[p].audience, "inapp")
            T == Wanting(call[p], dir.prefs, found[p].audience, "email")
            f == [found[p] EXCEPT !.inapp = S, !.email = T]
            where == IF S \cup T = {} THEN "commit" ELSE "notes"
<1>1. TypeOK /\ At(p) /\ pc[p] = "channels" /\ call[p] \in Calls
  BY IInvAt, Asked DEF ReadPreferences
<1>2. S \in SUBSET People /\ T \in SUBSET People
  BY <1>1 DEF TypeOK, Findings, Wanting
<1>3. f \in Findings
  BY <1>1, <1>2, FindingsUpdated DEF TypeOK
<1>4. /\ found' = [found EXCEPT ![p] = f] /\ pc'[p] = where
      /\ found'[p].inapp = S /\ found'[p].email = T
  BY <1>1, <1>3 DEF ReadPreferences, Goto, TypeOK, Findings
<1>5. UNCHANGED <<call[p], start[p], touched[p], flushed[p], staged[p], hinted[p],
                  outcome[p]>>
  BY DEF ReadPreferences, Quiet, outside
<1>6. Flow(p)'
  <2>1. flushed[p].notes = {} /\ staged[p] = {}
    BY <1>1 DEF At, Flow, Finished
  <2>. QED
    BY <1>1, <1>4, <1>5, <2>1 DEF At, Flow, Finished
<1>7. KnowsChannels(p)'
  <2>1. ASSUME NEW u \in People \ touched[p], NEW c \in Channels
        PROVE  u \in Wanting(call[p], dir.prefs, found[p].audience, c) <=> Entitled(p, u, c)
    <3>1. u \in found[p].audience <=> Invited(p, u)
      BY <1>1, <2>1 DEF At, Knows, KnowsAudience
    <3>2. Muted(call[p], dir.prefs, u, c) <=> Muted(call[p], start[p].prefs, u, c)
      BY <1>1, <2>1, ReadsAsBefore
    <3>3. call[p].category = "informational" <=> call[p].category # "transactional"
      BY <1>1 DEF Calls
    <3>. QED
      BY <2>1, <3>1, <3>2, <3>3 DEF Wanting, Entitled
  <2>2. ASSUME NEW u \in People \ touched[p]
        PROVE  /\ u \in S <=> Entitled(p, u, "inapp")
               /\ u \in T <=> Entitled(p, u, "email")
    BY <2>1 DEF Channels
  <2>. QED
    BY <1>4, <1>5, <2>2, EntitledStays DEF KnowsChannels, Channels
<1>8. Knows(p)'
  <2>1. CASE S \cup T # {}
    BY <1>4, <1>7, <2>1 DEF Knows
  <2>2. CASE S \cup T = {}
    <3>1. \A u \in People \ touched'[p] : ~Entitled(p, u, "inapp")' /\ ~Entitled(p, u, "email")'
      BY <1>4, <1>7, <2>2 DEF KnowsChannels
    <3>2. flushed'[p].mails = {} /\ staged'[p] = {}
      BY <1>1, <1>5 DEF At, Flow, Finished
    <3>3. ReadyToCommit(p)'
      BY <3>1, <3>2 DEF ReadyToCommit
    <3>. QED
      BY <1>4, <2>2, <3>3 DEF Knows
  <2>. QED
    BY <2>1, <2>2
<1>. QED
  BY <1>1, <1>3, <1>4, <1>6, <1>8, ReadsKeep DEF ReadPreferences, Preparing, InFlight

LEMMA KeyIsAKey ==
    ASSUME NEW p \in Publishers, NEW k \in Menu[p], NEW u \in People
    PROVE  DedupeKey(k, u) \in Keys
<1>1. k \in Calls /\ k \in UNION {Menu[q] : q \in Publishers}
  BY BoundsAssumption
<1>2. CASE k.override # Null
  <2>1. k.override \in Payloads
    BY <1>1, <1>2 DEF Calls
  <2>. QED
    BY <1>2, <2>1 DEF DedupeKey, Keys
<1>3. CASE k.override = Null
  <2>1. <<k.type, u, k.data>> \in {<<j.type, v, j.data>> :
            j \in UNION {Menu[q] : q \in Publishers}, v \in People}
    BY <1>1
  <2>. QED
    BY <1>3, <2>1 DEF DedupeKey, Keys
<1>. QED
  BY <1>2, <1>3

LEMMA ReadContactsKeeps ==
    ASSUME IInv, NEW p \in Publishers, ReadContacts(p)
    PROVE  IInv'
<1>. DEFINE B == MailsFor(p, dir.accounts)
            f == [found[p] EXCEPT !.batch = B]
<1>1. TypeOK /\ At(p) /\ pc[p] = "contacts" /\ call[p] \in Calls /\ call[p] \in Menu[p]
  BY IInvAt, Asked DEF ReadContacts
<1>2. found[p].inapp \subseteq People /\ found[p].email \subseteq People
  BY <1>1 DEF TypeOK, Findings
<1>3. B \in SUBSET MailRows
  <2>1. ASSUME NEW u \in found[p].email,
               dir.accounts[u] # Null, dir.accounts[u] \notin Unusable
        PROVE  [by |-> p, user |-> u, key |-> DedupeKey(call[p], u), to |-> dir.accounts[u],
                note |-> IF u \in found[p].inapp THEN Note(p, u) ELSE Null] \in MailRows
    <3>1. DedupeKey(call[p], u) \in Keys
      BY <1>1, <1>2, KeyIsAKey
    <3>2. dir.accounts[u] \in Addresses \ Unusable
      BY <1>1, <1>2, <2>1 DEF TypeOK, DirectoryRows
    <3>3. Note(p, u) \in NoteRows
      BY <1>2 DEF Note, NoteRows
    <3>. QED
      BY <1>2, <3>1, <3>2, <3>3 DEF MailRows
  <2>. QED
    BY <2>1 DEF MailsFor
<1>4. f \in Findings
  BY <1>1, <1>3, FindingsUpdated DEF TypeOK
<1>5. /\ found' = [found EXCEPT ![p] = f] /\ pc'[p] = "mails"
      /\ found'[p].inapp = found[p].inapp /\ found'[p].email = found[p].email
      /\ found'[p].batch = B
  BY <1>1, <1>4 DEF ReadContacts, Goto, TypeOK, Findings
<1>6. UNCHANGED <<call[p], start[p], touched[p], flushed[p], staged[p], hinted[p],
                  outcome[p]>>
  BY DEF ReadContacts, Quiet, outside
<1>7. Flow(p)'
  BY <1>1, <1>5, <1>6 DEF At, Flow, Finished, Note
<1>8. KnowsChannels(p) /\ KnowsChannels(p)'
  BY <1>1, <1>5, <1>6, EntitledStays DEF At, Knows, KnowsChannels, Channels
<1>9. KnowsContacts(p)'
  <2>1. \A m \in B :
          /\ m.by = p /\ m.user \in found[p].email
          /\ m.key = DedupeKey(call[p], m.user)
          /\ m.note # Null => m.note = Note(p, m.user) /\ m.user \in found[p].inapp
    BY DEF MailsFor
  <2>2. ASSUME NEW u \in People \ touched[p], Entitled(p, u, "email"), Addressable(p, u)
        PROVE  \E m \in B : m.key = DedupeKey(call[p], u)
    <3>1. u \in found[p].email
      BY <1>8, <2>2 DEF KnowsChannels
    <3>2. dir.accounts[u] # Null /\ dir.accounts[u] \notin Unusable
      BY <1>1, <2>2, ReadsAsBefore DEF Addressable
    <3>. DEFINE m == [by |-> p, user |-> u, key |-> DedupeKey(call[p], u),
                      to |-> dir.accounts[u],
                      note |-> IF u \in found[p].inapp THEN Note(p, u) ELSE Null]
    <3>3. m \in B
      BY <3>1, <3>2 DEF MailsFor
    <3>. QED
      BY <3>3
  <2>. QED
    BY <1>5, <1>6, <2>1, <2>2, EntitledStays DEF KnowsContacts, Channels, Note
<1>10. Knows(p)'
  BY <1>5, <1>8, <1>9 DEF Knows
<1>. QED
  BY <1>1, <1>4, <1>5, <1>7, <1>10, ReadsKeep DEF ReadContacts, Preparing, InFlight

----------------------------------------------------------------------------
(* What publish writes *)

LEMMA InsertNotesKeeps ==
    ASSUME IInv, NEW p \in Publishers, InsertNotes(p)
    PROVE  IInv'
<1>. DEFINE S == found[p].inapp
            next == IF found[p].email = {} THEN "commit" ELSE "contacts"
            N == {Note(p, u) : u \in S}
            f == [flushed[p] EXCEPT !.notes = N]
<1>1. TypeOK /\ Tables /\ At(p) /\ pc[p] = "notes"
  BY IInvAt DEF InsertNotes
<1>2. S \subseteq People /\ N \subseteq NoteRows
  BY <1>1 DEF TypeOK, Findings, Note, NoteRows
<1>3. f \in Flushes /\ f.notes = N /\ f.mails = flushed[p].mails
  BY <1>1, <1>2 DEF TypeOK, Flushes
<1>4. flushed' = [flushed EXCEPT ![p] = f] /\ pc' = [pc EXCEPT ![p] = next]
  BY DEF InsertNotes, Goto
<1>5. staged' = IF next = "commit" THEN [staged EXCEPT ![p] = S] ELSE staged
  BY DEF InsertNotes, Stages
<1>. HIDE DEF f, N
<1>6. UNCHANGED <<dir, start, touched, changes, call, found, hinted, outcome,
                  committed, audit, notes, mails>>
  BY DEF InsertNotes, outside, tables
<1>7. TypeOK'
  BY <1>1, <1>2, <1>3, <1>4, <1>5, <1>6 DEF TypeOK, InFlight
<1>8. pc'[p] = next /\ flushed'[p] = f
  BY <1>1, <1>4 DEF TypeOK
<1>9. staged'[p] = IF next = "commit" THEN S ELSE {}
  BY <1>1, <1>5 DEF TypeOK, At, Flow
<1>10. f.mails = {} /\ outcome[p] = "none" /\ hinted[p] = {} /\ call[p] # Null
  BY <1>1, <1>3 DEF At, Flow, Finished
<1>11. Flow(p)'
  BY <1>3, <1>6, <1>8, <1>9, <1>10 DEF Flow, Finished, Note, N
<1>12. Queued(p)'
  BY <1>8, <1>10 DEF Queued
<1>13. KnowsChannels(p) /\ KnowsChannels(p)'
  BY <1>1, <1>6, EntitledStays DEF At, Knows, KnowsChannels, Channels
<1>14. Knows(p)'
  <2>1. CASE next = "contacts"
    BY <1>8, <1>13, <2>1 DEF Knows
  <2>2. CASE next = "commit"
    <3>1. \A u \in People \ touched'[p] :
             /\ u \in staged'[p] <=> Entitled(p, u, "inapp")'
             /\ ~Entitled(p, u, "email")'
      BY <1>6, <1>9, <1>13, <2>2 DEF KnowsChannels
    <3>2. ReadyToCommit(p)'
      BY <1>8, <1>10, <3>1 DEF ReadyToCommit
    <3>. QED
      BY <1>8, <2>2, <3>2 DEF Knows
  <2>. QED
    BY <2>1, <2>2
<1>15. \A q \in Publishers \ {p} : Aside(q)
  BY <1>1, <1>4, <1>5, <1>6 DEF Aside, TypeOK
<1>16. Tables'
  <2>1. \A q \in Publishers : flushed'[q].mails \subseteq flushed[q].mails
    BY <1>3, <1>8, <1>15 DEF Aside
  <2>. QED
    BY <1>1, <1>6, <2>1, TablesStay
<1>17. pc'[p] \in Preparing /\ pc[p] \in Preparing
  BY <1>1, <1>8 DEF Preparing, InFlight
<1>. QED
  BY <1>6, <1>7, <1>10, <1>11, <1>12, <1>14, <1>15, <1>16, <1>17, PreparesInv

LEMMA SwallowKeeps ==
    ASSUME IInv, NEW p \in Publishers, Swallow(p),
           pc[p] \in {"author", "audience", "channels", "notes", "contacts", "mails"}
    PROVE  IInv'
<1>1. TypeOK /\ Tables /\ At(p)
  BY IInvAt
<1>2. /\ flushed' \in [Publishers -> Flushes] /\ flushed'[p] = NoRows
      /\ \A q \in Publishers \ {p} : flushed'[q] = flushed[q]
      /\ \A q \in Publishers : flushed'[q].mails \subseteq flushed[q].mails
  BY <1>1, FlushNoRows DEF Swallow, Rollback
<1>3. UNCHANGED <<dir, start, touched, changes, call, found, staged, hinted,
                  committed, audit, notes, mails>>
  BY DEF Swallow, outside, tables
<1>4. /\ outcome' = [outcome EXCEPT ![p] = "lost"]
      /\ pc' = [pc EXCEPT ![p] = "commit"]
  BY DEF Swallow, Goto
<1>5. TypeOK'
  BY <1>1, <1>2, <1>3, <1>4 DEF TypeOK, InFlight
<1>6. pc'[p] = "commit" /\ outcome'[p] = "lost"
  BY <1>1, <1>4 DEF TypeOK
<1>7. staged[p] = {} /\ hinted[p] = {} /\ call[p] # Null
  BY <1>1 DEF At, Flow, Finished
<1>8. Flow(p)' /\ Queued(p)' /\ Knows(p)'
  BY <1>2, <1>3, <1>6, <1>7 DEF Flow, Queued, Knows, Finished, NoRows
<1>9. Tables'
  BY <1>1, <1>2, <1>3, TablesStay
<1>10. \A q \in Publishers \ {p} : Aside(q)
  BY <1>1, <1>2, <1>3, <1>4 DEF Aside, TypeOK
<1>11. pc'[p] \in Preparing /\ pc[p] \in Preparing
  BY <1>6 DEF Preparing, InFlight
<1>. QED
  BY <1>3, <1>5, <1>6, <1>8, <1>9, <1>10, <1>11, PreparesInv

LEMMA InsertMailsKeeps ==
    ASSUME IInv, NEW p \in Publishers, InsertMails(p)
    PROVE  IInv'
<1>1. TypeOK /\ Tables /\ At(p) /\ pc[p] = "mails"
  BY IInvAt DEF InsertMails
<1>2. PICK S \in SUBSET found[p].batch :
         /\ NewMails(p, found[p].batch, S)
         /\ flushed' = [flushed EXCEPT ![p].mails = S]
  BY DEF InsertMails
<1>. DEFINE f == [flushed[p] EXCEPT !.mails = S]
            B == found[p].batch
<1>3. S \subseteq MailRows
  BY <1>1 DEF TypeOK, Findings
<1>4. f \in Flushes /\ f.notes = flushed[p].notes /\ f.mails = S
  BY <1>1, <1>3 DEF TypeOK, Flushes
<1>5. /\ flushed' = [flushed EXCEPT ![p] = f] /\ pc' = [pc EXCEPT ![p] = "commit"]
      /\ staged' = [staged EXCEPT ![p] = found[p].inapp]
  BY <1>2 DEF InsertMails, Goto
<1>. HIDE DEF f
<1>6. UNCHANGED <<dir, start, touched, changes, call, found, hinted, outcome,
                  committed, audit, notes, mails>>
  BY DEF InsertMails, outside, tables
<1>7. TypeOK'
  BY <1>1, <1>4, <1>5, <1>6 DEF TypeOK, InFlight, Findings
<1>8. pc'[p] = "commit" /\ flushed'[p] = f /\ staged'[p] = found[p].inapp
  BY <1>1, <1>5 DEF TypeOK
<1>9. /\ outcome[p] = "none" /\ hinted[p] = {} /\ call[p] # Null
      /\ flushed[p].notes = {Note(p, u) : u \in found[p].inapp}
  BY <1>1 DEF At, Flow, Finished
<1>10. Flow(p)'
  BY <1>4, <1>6, <1>8, <1>9 DEF Flow, Finished, Note
<1>11. KnowsContacts(p) /\ KnowsChannels(p)
  BY <1>1 DEF At, Knows
<1>12. Queued(p)'
  <2>1. \A m \in S : /\ m.by = p /\ m.key = DedupeKey(call[p], m.user)
                     /\ m.note # Null => /\ m.note = Note(p, m.user)
                                         /\ m.note \in flushed[p].notes
    BY <1>9, <1>11 DEF KnowsContacts
  <2>. QED
    BY <1>4, <1>6, <1>8, <2>1 DEF Queued, Note
<1>13. Knows(p)'
  <2>1. ASSUME NEW u \in People \ touched[p]
        PROVE  /\ u \in found[p].inapp <=> Entitled(p, u, "inapp")
               /\ Entitled(p, u, "email") /\ Addressable(p, u) =>
                     \E m \in mails \cup S : m.key = DedupeKey(call[p], u)
               /\ \A m \in S : m.user = u => Entitled(p, u, "email")
    <3>1. ASSUME Entitled(p, u, "email"), Addressable(p, u)
          PROVE  \E m \in mails \cup S : m.key = DedupeKey(call[p], u)
      <4>1. PICK b \in B : b.key = DedupeKey(call[p], u)
        BY <1>11, <2>1, <3>1 DEF KnowsContacts
      <4>. QED
        BY <1>2, <4>1 DEF NewMails
    <3>2. \A m \in S : m.user \in found[p].email
      BY <1>11 DEF KnowsContacts
    <3>. QED
      BY <1>11, <2>1, <3>1, <3>2 DEF KnowsChannels
  <2>2. ReadyToCommit(p)'
    BY <1>4, <1>6, <1>8, <2>1, EntitledStays DEF ReadyToCommit, Channels
  <2>. QED
    BY <1>8, <2>2 DEF Knows
<1>14. \A q \in Publishers \ {p} : Aside(q)
  BY <1>1, <1>5, <1>6 DEF Aside, TypeOK
<1>15. Tables'
  <2>1. \A q \in Publishers \ {p} : flushed'[q] = flushed[q]
    BY <1>14 DEF Aside
  <2>2. \A m, n \in S : m.key = n.key => m = n
    BY <1>2 DEF NewMails
  <2>3. \A m \in S : \A n \in mails : m.key # n.key
    BY <1>2 DEF NewMails
  <2>4. \A m \in S : \A q \in Publishers \ {p} : \A n \in flushed[q].mails : m.key # n.key
    BY <1>2 DEF NewMails, KeyLocked
  <2>5. DistinctKeys'
    BY <1>1, <1>4, <1>6, <1>8, <2>1, <2>2, <2>3, <2>4 DEF Tables, DistinctKeys, OneMailPerKey
  <2>. QED
    BY <1>1, <1>6, <2>5 DEF Tables
<1>16. pc'[p] \in Preparing /\ pc[p] \in Preparing
  BY <1>1, <1>8 DEF Preparing, InFlight
<1>. QED
  BY <1>6, <1>7, <1>9, <1>10, <1>12, <1>13, <1>14, <1>15, <1>16, PreparesInv

----------------------------------------------------------------------------
(* The commit *)

\* What a transaction that ends, with or without effect, does to the tables.
LEMMA TransactionEnds ==
    ASSUME IInv, NEW p \in Publishers, Land(p) \/ UNCHANGED tables,
           Flush(p, NoRows), UNCHANGED dir
    PROVE  /\ audit' \subseteq AuditRows /\ notes' \subseteq NoteRows
           /\ mails' \subseteq MailRows
           /\ flushed' \in [Publishers -> Flushes] /\ flushed'[p] = NoRows
           /\ \A q \in Publishers \ {p} : flushed'[q] = flushed[q] /\ Adds(q)
           /\ Tables'
<1>1. TypeOK /\ Tables /\ At(p)
  BY IInvAt
<1>2. /\ flushed' \in [Publishers -> Flushes] /\ flushed'[p] = NoRows
      /\ \A q \in Publishers \ {p} : flushed'[q] = flushed[q]
      /\ \A q \in Publishers : flushed'[q].mails \subseteq flushed[q].mails
  BY <1>1, FlushNoRows
<1>3. /\ flushed[p].notes \subseteq NoteRows /\ flushed[p].mails \subseteq MailRows
      /\ flushed[p].audit \subseteq AuditRows
  BY <1>1 DEF TypeOK, Flushes
<1>4. CASE UNCHANGED tables
  <2>1. Tables'
    BY <1>1, <1>2, <1>4, TablesStay DEF tables
  <2>. QED
    BY <1>1, <1>2, <1>4, <2>1 DEF TypeOK, tables, Adds
<1>5. CASE Land(p)
  <2>1. /\ notes' = notes \cup flushed[p].notes /\ mails' = mails \cup flushed[p].mails
        /\ audit' = audit \cup flushed[p].audit
    BY <1>5 DEF Land
  <2>2. \A m \in flushed[p].mails :
           /\ m.by = p
           /\ m.note # Null => m.note = Note(p, m.user) /\ m.note \in flushed[p].notes
    BY <1>1 DEF At, Queued
  <2>3. \A n \in flushed[p].notes : n.by = p
    BY <1>1 DEF At, Flow, Note
  <2>4. \A q \in Publishers \ {p} : Adds(q)
    BY <2>1, <2>2, <2>3 DEF Adds
  <2>5. \A m \in mails' : m.note # Null => m.note = Note(m.by, m.user) /\ m.note \in notes'
    BY <1>1, <2>1, <2>2 DEF Tables
  <2>6. DistinctKeys'
    <3>1. OneMailPerKey'
      BY <1>1, <2>1 DEF Tables, DistinctKeys, OneMailPerKey
    <3>2. ASSUME NEW q \in Publishers \ {p}, NEW m \in flushed[q].mails
          PROVE  \A n \in mails' : m.key # n.key
      BY <1>1, <2>1, <3>2 DEF Tables, DistinctKeys
    <3>3. flushed'[p].mails = {}
      BY <1>2 DEF NoRows
    <3>. QED
      BY <1>1, <1>2, <3>1, <3>2, <3>3 DEF Tables, DistinctKeys
  <2>7. Tables'
    BY <1>1, <2>5, <2>6 DEF Tables
  <2>. QED
    BY <1>1, <1>2, <1>3, <2>1, <2>4, <2>7 DEF TypeOK
<1>. QED
  BY <1>4, <1>5

\* A key that nobody overrides names one person.
LEMMA KeyNamesUser ==
    ASSUME NEW k, NEW l, NEW u, NEW v, k.override = Null,
           DedupeKey(k, u) = DedupeKey(l, v)
    PROVE  u = v
<1>1. DedupeKey(k, u) = <<k.type, u, k.data>>
  BY DEF DedupeKey
<1>2. l.override = Null
  <2>1. SUFFICES ASSUME l.override # Null PROVE FALSE
    OBVIOUS
  <2>2. <<k.type, u, k.data>> = <<l.override>>
    BY <1>1, <2>1 DEF DedupeKey
  <2>3. Len(<<k.type, u, k.data>>) = 3 /\ Len(<<l.override>>) = 1
    OBVIOUS
  <2>. QED
    BY <2>2, <2>3
<1>. QED
  BY <1>1, <1>2 DEF DedupeKey

\* What lands with a publish that nothing stopped.
LEMMA LandsReach ==
    ASSUME IInv, NEW p \in Publishers, pc[p] = "commit", outcome[p] = "none", Land(p),
           UNCHANGED <<call, start, touched>>
    PROVE  /\ Reaches(p)'
           /\ \A u : Note(p, u) \in notes' <=> u \in staged[p]
<1>1. At(p) /\ ReadyToCommit(p)
  BY IInvAt DEF At, Knows
<1>2. notes' = notes \cup flushed[p].notes /\ mails' = mails \cup flushed[p].mails
  BY DEF Land
<1>3. \A x \in notes \cup mails : x.by # p
  BY <1>1, Unlanded DEF Finished
<1>4. \A u : Note(p, u) \in notes' <=> u \in staged[p]
  <2>1. flushed[p].notes = {Note(p, u) : u \in staged[p]}
    BY <1>1 DEF At, Flow
  <2>2. ASSUME NEW u PROVE Note(p, u) \in flushed[p].notes <=> u \in staged[p]
    <3>1. \A v : Note(p, u) = Note(p, v) => u = v
      BY DEF Note
    <3>. HIDE DEF Note
    <3>. QED
      BY <2>1, <3>1
  <2>3. \A u : Note(p, u) \notin notes
    BY <1>3 DEF Note
  <2>. QED
    BY <1>2, <2>2, <2>3
<1>5. \A u \in People \ touched[p] :
         /\ Note(p, u) \in notes' <=> Entitled(p, u, "inapp")
         /\ Entitled(p, u, "email") /\ Addressable(p, u) =>
               \E m \in mails' : m.key = DedupeKey(call[p], u)
         /\ \A m \in mails' : m.by = p /\ m.user = u => Entitled(p, u, "email")
  BY <1>1, <1>2, <1>3, <1>4 DEF ReadyToCommit
<1>6. ASSUME NEW u \in People, NEW m \in mails', m.key = DedupeKey(call[p], u)
      PROVE  IsFor(m, p, u)
  <2>1. PICK q \in Publishers : m.key = DedupeKey(call[q], m.user)
    BY <1>1, <1>2, IInvAt, RowsByPublishers DEF At, Landed, Queued
  <2>. QED
    BY <1>6, <2>1, KeyNamesUser DEF IsFor
<1>7. Reaches(p)'
  BY <1>5, <1>6, EntitledStays DEF Reaches, Channels, Note, IsFor
<1>. QED
  BY <1>4, <1>7

\* What is left to show of publisher p once its transaction has ended.
LEMMA EndsInv ==
    ASSUME IInv, NEW p \in Publishers, pc[p] \in InFlight,
           Land(p) \/ UNCHANGED tables, Flush(p, NoRows),
           UNCHANGED <<outside, call, found>>, TypeOK',
           Flow(p)', pc'[p] \in {"hints"} \cup Finished, Landed(p)', Told(p)',
           \A q \in Publishers \ {p} : Aside(q)
    PROVE  IInv'
<1>1. At(p) /\ \A q \in Publishers : At(q)
  BY IInvAt
<1>2. /\ flushed'[p] = NoRows /\ Tables'
      /\ \A q \in Publishers \ {p} : flushed'[q] = flushed[q] /\ Adds(q)
  BY TransactionEnds DEF outside
<1>3. Queued(p)'
  BY <1>2 DEF Queued, NoRows
<1>4. Since(p)'
  BY <1>1 DEF At, Since, InFlight, outside
<1>5. Knows(p)'
  BY DEF Knows, Finished
<1>6. At(p)'
  BY <1>3, <1>4, <1>5 DEF At
<1>7. ASSUME NEW q \in Publishers \ {p} PROVE At(q)'
  BY <1>1, <1>2, OthersKeep DEF outside
<1>. QED
  BY <1>2, <1>6, <1>7, IInvAtNext

\* The publisher goes on to its hints: Commit and CommitFails.
LEMMA CommittedKeeps ==
    ASSUME IInv, NEW p \in Publishers, Commit(p) \/ CommitFails(p)
    PROVE  IInv'
<1>1. TypeOK /\ Tables /\ At(p) /\ pc[p] = "commit"
  BY IInvAt DEF Commit, CommitFails
<1>2. PICK status \in {"landed", "unsure"} :
         /\ Conclude(p, status)
         /\ status = "landed" => Land(p)
         /\ Land(p) \/ UNCHANGED tables
  BY DEF Commit, CommitFails
<1>3. /\ Flush(p, NoRows) /\ pc' = [pc EXCEPT ![p] = "hints"]
      /\ UNCHANGED <<outside, call, staged, hinted, found>>
      /\ committed' \subseteq committed \cup {p}
  BY DEF Commit, CommitFails, Goto
<1>4. /\ pc'[p] = "hints"
      /\ outcome'[p] = IF outcome[p] = "none" THEN status ELSE outcome[p]
  BY <1>1, <1>2, <1>3 DEF TypeOK, Conclude
<1>5. flushed'[p] = NoRows
  BY <1>2, <1>3, TransactionEnds DEF outside
<1>6. outcome[p] \in {"none", "lost"} /\ hinted[p] = {} /\ call[p] # Null
  BY <1>1 DEF At, Flow, Finished
<1>7. TypeOK'
  <2>1. outcome' \in [Publishers -> {"none", "landed", "lost", "unsure"}]
    BY <1>1, <1>2 DEF TypeOK, Conclude
  <2>. QED
    BY <1>1, <1>2, <1>3, <2>1, TransactionEnds DEF TypeOK, outside, InFlight
<1>8. \A q \in Publishers \ {p} : Aside(q)
  BY <1>1, <1>2, <1>3, TransactionEnds DEF TypeOK, Conclude, outside, Aside
<1>9. Flow(p)'
  BY <1>1, <1>3, <1>4, <1>5, <1>6 DEF At, Flow, Finished, NoRows
<1>10. Landed(p)' /\ Told(p)'
  <2>1. \A x \in notes \cup mails : x.by # p
    BY <1>1, Unlanded DEF Finished
  <2>2. \A m \in flushed[p].mails : m.by = p /\ m.key = DedupeKey(call[p], m.user)
    BY <1>1 DEF At, Queued
  <2>3. CASE outcome[p] = "none" /\ Land(p)
    <3>1. Landed(p)'
      BY <1>3, <1>4, <2>1, <2>2, <2>3 DEF Landed, Land
    <3>2. Reaches(p)' /\ \A u : Note(p, u) \in notes' <=> u \in staged[p]
      BY <1>1, <1>3, <2>3, LandsReach DEF outside
    <3>3. Told(p)'
      BY <1>3, <1>4, <1>6, <3>2 DEF Told, Note
    <3>. QED
      BY <3>1, <3>3
  <2>4. CASE outcome[p] = "lost" \/ ~Land(p)
    <3>1. notes' = notes /\ mails' = mails
      <4>1. CASE ~Land(p)
        BY <1>2, <4>1 DEF tables
      <4>2. CASE outcome[p] = "lost" /\ Land(p)
        BY <1>1, <4>2 DEF At, Flow, Land
      <4>. QED
        BY <2>4, <4>1, <4>2
    <3>2. Landed(p)'
      BY <2>1, <3>1 DEF Landed
    <3>3. outcome'[p] # "landed" /\ (staged[p] # {} => outcome'[p] = "unsure")
      BY <1>1, <1>2, <1>4, <2>4 DEF At, Flow
    <3>4. Told(p)'
      BY <1>3, <1>6, <2>1, <3>1, <3>3 DEF Told, Note
    <3>. QED
      BY <3>2, <3>4
  <2>. QED
    BY <1>6, <2>3, <2>4
<1>. QED
  BY <1>1, <1>2, <1>3, <1>4, <1>7, <1>8, <1>9, <1>10, EndsInv DEF InFlight

----------------------------------------------------------------------------
(* The other ways to the end *)

LEMMA ReachesStays ==
    ASSUME NEW p \in Publishers, UNCHANGED <<call, start, touched, notes, mails>>
    PROVE  Reaches(p)' <=> Reaches(p)
BY EntitledStays DEF Reaches, Channels, Note, IsFor

\* A publisher that ends without adding a row.
LEMMA EndsQuietly ==
    ASSUME NEW p \in Publishers, At(p),
           UNCHANGED <<call, start, touched, notes, mails, hinted>>,
           outcome'[p] = IF outcome[p] = "none" THEN "unsure" ELSE outcome[p],
           pc'[p] \in Finished
    PROVE  Landed(p)' /\ Told(p)'
<1>1. Landed(p)'
  BY DEF At, Landed
<1>2. Told(p)'
  BY ReachesStays DEF At, Told, Finished, Note
<1>. QED
  BY <1>1, <1>2

LEMMA VanishKeeps ==
    ASSUME IInv, NEW p \in Publishers, Vanish(p)
    PROVE  IInv'
<1>1. TypeOK /\ Tables /\ At(p) /\ pc[p] \in InFlight
  BY IInvAt DEF Vanish
<1>2. /\ Land(p) \/ UNCHANGED tables
      /\ pc[p] \notin {"audit", "commit"} => UNCHANGED tables
      /\ Flush(p, NoRows)
      /\ UNCHANGED <<outside, call, hinted, found, committed>>
  BY DEF Vanish
<1>3. /\ staged' = [staged EXCEPT ![p] = {}] /\ pc' = [pc EXCEPT ![p] = "gone"]
      /\ outcome' = [outcome EXCEPT ![p] = IF @ = "none" THEN "unsure" ELSE @]
  BY DEF Vanish, Goto, Conclude
<1>4. /\ pc'[p] = "gone" /\ staged'[p] = {}
      /\ outcome'[p] = IF outcome[p] = "none" THEN "unsure" ELSE outcome[p]
  BY <1>1, <1>3 DEF TypeOK
<1>5. flushed'[p] = NoRows
  BY <1>2, TransactionEnds DEF outside
<1>6. TypeOK'
  <2>1. outcome' \in [Publishers -> {"none", "landed", "lost", "unsure"}]
    BY <1>1, <1>3 DEF TypeOK
  <2>. QED
    BY <1>1, <1>2, <1>3, <2>1, TransactionEnds DEF TypeOK, outside
<1>7. \A q \in Publishers \ {p} : Aside(q)
  BY <1>1, <1>2, <1>3, TransactionEnds DEF TypeOK, outside, Aside
<1>8. call[p] # Null
  BY <1>1 DEF At, Flow, InFlight
<1>9. Flow(p)'
  BY <1>1, <1>2, <1>4, <1>5, <1>8 DEF At, Flow, Finished, NoRows
<1>10. Landed(p)' /\ Told(p)'
  <2>1. CASE UNCHANGED <<notes, mails>>
    BY <1>1, <1>2, <1>4, <2>1, EndsQuietly DEF outside, Finished
  <2>2. CASE ~UNCHANGED <<notes, mails>>
    <3>1. Land(p) /\ pc[p] = "commit" /\ outcome[p] = "none"
      <4>1. Land(p) /\ pc[p] \in {"audit", "commit"}
        BY <1>2, <2>2 DEF tables
      <4>2. flushed[p].notes # {} \/ flushed[p].mails # {}
        BY <2>2, <4>1 DEF Land
      <4>. QED
        BY <1>1, <4>1, <4>2 DEF At, Flow
    <3>2. \A x \in notes \cup mails : x.by # p
      BY <1>1, <3>1, Unlanded DEF Finished
    <3>3. \A m \in flushed[p].mails : m.by = p /\ m.key = DedupeKey(call[p], m.user)
      BY <1>1 DEF At, Queued
    <3>4. Landed(p)'
      BY <1>2, <1>4, <3>1, <3>2, <3>3 DEF Landed, Land, Finished
    <3>5. Reaches(p)'
      BY <1>2, <3>1, LandsReach DEF outside
    <3>6. hinted[p] = {}
      BY <1>1, <3>1 DEF At, Flow, Finished
    <3>7. Told(p)'
      BY <1>2, <1>4, <3>5, <3>6 DEF Told
    <3>. QED
      BY <3>4, <3>7
  <2>. QED
    BY <2>1, <2>2
<1>. QED
  BY <1>1, <1>2, <1>4, <1>6, <1>7, <1>9, <1>10, EndsInv DEF Finished

LEMMA AuditCommitFailsKeeps ==
    ASSUME IInv, NEW p \in Publishers, AuditCommitFails(p)
    PROVE  IInv'
<1>1. TypeOK /\ Tables /\ At(p) /\ pc[p] = "audit"
  BY IInvAt DEF AuditCommitFails
<1>2. /\ flushed[p].notes = {} /\ flushed[p].mails = {} /\ staged[p] = {}
      /\ hinted[p] = {} /\ call[p] # Null /\ outcome[p] = "none"
  BY <1>1 DEF At, Flow, Finished
<1>3. /\ Land(p) \/ UNCHANGED tables
      /\ UNCHANGED <<notes, mails>> /\ Flush(p, NoRows)
      /\ UNCHANGED <<outside, call, staged, hinted, committed, found>>
  BY <1>2 DEF AuditCommitFails, Land, tables
<1>4. /\ outcome' = [outcome EXCEPT ![p] = "lost"]
      /\ pc' = [pc EXCEPT ![p] = "done"]
  BY DEF AuditCommitFails, Goto
<1>5. pc'[p] = "done" /\ outcome'[p] = "lost"
  BY <1>1, <1>4 DEF TypeOK
<1>6. flushed'[p] = NoRows
  BY <1>3, TransactionEnds DEF outside
<1>7. TypeOK'
  BY <1>1, <1>3, <1>4, TransactionEnds DEF TypeOK, outside
<1>8. \A q \in Publishers \ {p} : Aside(q)
  BY <1>1, <1>3, <1>4, TransactionEnds DEF TypeOK, outside, Aside
<1>9. Flow(p)'
  BY <1>2, <1>3, <1>5, <1>6 DEF Flow, Finished, NoRows
<1>10. \A x \in notes \cup mails : x.by # p
  BY <1>1, Unlanded DEF Finished
<1>11. Landed(p)' /\ Told(p)'
  BY <1>2, <1>3, <1>5, <1>10 DEF Landed, Told
<1>. QED
  BY <1>1, <1>3, <1>5, <1>7, <1>8, <1>9, <1>11, EndsInv DEF InFlight, Finished

----------------------------------------------------------------------------
(* The first step and the hints *)

\* A step of p that changes no table, and nothing of the others.
LEMMA AloneInv ==
    ASSUME IInv, NEW p \in Publishers, UNCHANGED <<dir, notes, mails, flushed>>,
           TypeOK', At(p)',
           \A q \in Publishers \ {p} : Aside(q) /\ touched'[q] = touched[q]
    PROVE  IInv'
<1>1. Tables /\ \A q \in Publishers : At(q)
  BY IInvAt
<1>2. Tables'
  BY <1>1, TablesStay
<1>3. ASSUME NEW q \in Publishers \ {p} PROVE At(q)'
  BY <1>1, OthersKeep DEF Adds
<1>. QED
  BY <1>2, <1>3, IInvAtNext

LEMMA BeginKeeps ==
    ASSUME IInv, NEW p \in Publishers, Begin(p)
    PROVE  IInv'
<1>1. TypeOK /\ At(p) /\ pc[p] = "idle"
  BY IInvAt DEF Begin
<1>2. PICK k \in Menu[p] : call' = [call EXCEPT ![p] = k]
  BY DEF Begin
<1>3. k \in Calls /\ k # Null
  BY NullAssumption, BoundsAssumption
<1>4. /\ start' = [start EXCEPT ![p] = dir] /\ pc' = [pc EXCEPT ![p] = "who"]
      /\ UNCHANGED <<dir, changes, touched, audit, notes, mails, found, flushed,
                     staged, hinted, outcome, committed>>
  BY DEF Begin, Goto, tables
<1>5. TypeOK'
  BY <1>1, <1>2, <1>3, <1>4 DEF TypeOK, InFlight
<1>6. pc'[p] = "who" /\ call'[p] = k /\ start'[p] = dir
  BY <1>1, <1>2, <1>4 DEF TypeOK
<1>7. /\ flushed[p].notes = {} /\ flushed[p].mails = {} /\ staged[p] = {}
      /\ hinted[p] = {} /\ outcome[p] = "none"
  BY <1>1 DEF At, Flow, Finished
<1>8. \A x \in notes \cup mails : x.by # p
  BY <1>1, Unlanded DEF Finished
<1>9. Flow(p)' /\ Queued(p)' /\ Knows(p)'
  BY <1>3, <1>4, <1>6, <1>7 DEF Flow, Queued, Knows, Finished
<1>10. Landed(p)' /\ Since(p)' /\ Told(p)'
  BY <1>4, <1>6, <1>7, <1>8 DEF Landed, Since, Told
<1>11. \A q \in Publishers \ {p} : Aside(q) /\ touched'[q] = touched[q]
  BY <1>1, <1>2, <1>4 DEF TypeOK, Aside
<1>. QED
  BY <1>4, <1>5, <1>9, <1>10, <1>11, AloneInv DEF At

LEMMA HintKeeps ==
    ASSUME IInv, NEW p \in Publishers, Hint(p) \/ HintsEnd(p)
    PROVE  IInv'
<1>1. TypeOK /\ At(p) /\ pc[p] = "hints"
  BY IInvAt DEF Hint, HintsEnd
<1>2. PICK S \in SUBSET staged[p], H \in SUBSET (staged[p] \cup hinted[p]),
           where \in {"hints", "done"} :
         /\ staged' = [staged EXCEPT ![p] = S] /\ hinted' = [hinted EXCEPT ![p] = H]
         /\ pc' = [pc EXCEPT ![p] = where]
         /\ hinted[p] \subseteq H
         /\ where = "hints" => S \cup H = staged[p] \cup hinted[p]
         /\ where = "done" => S = {}
  <2>1. ASSUME Hint(p)
        PROVE  \E u \in staged[p] :
                  /\ staged' = [staged EXCEPT ![p] = staged[p] \ {u}]
                  /\ hinted' = [hinted EXCEPT ![p] = hinted[p] \cup {u}]
                  /\ pc' = [pc EXCEPT ![p] = "hints"]
    BY <1>1, <2>1 DEF Hint, TypeOK
  <2>2. ASSUME HintsEnd(p)
        PROVE  /\ staged' = [staged EXCEPT ![p] = {}]
               /\ hinted' = [hinted EXCEPT ![p] = hinted[p]]
               /\ pc' = [pc EXCEPT ![p] = "done"]
    BY <1>1, <2>2 DEF HintsEnd, Goto, TypeOK
  <2>3. CASE Hint(p)
    <3>1. PICK u \in staged[p] :
             /\ staged' = [staged EXCEPT ![p] = staged[p] \ {u}]
             /\ hinted' = [hinted EXCEPT ![p] = hinted[p] \cup {u}]
             /\ pc' = [pc EXCEPT ![p] = "hints"]
      BY <2>1, <2>3
    <3>. DEFINE S0 == staged[p] \ {u}
                H0 == hinted[p] \cup {u}
    <3>2. S0 \subseteq staged[p] /\ H0 \subseteq staged[p] \cup hinted[p]
          /\ S0 \cup H0 = staged[p] \cup hinted[p] /\ hinted[p] \subseteq H0
      OBVIOUS
    <3>3. staged' = [staged EXCEPT ![p] = S0] /\ hinted' = [hinted EXCEPT ![p] = H0]
      BY <3>1
    <3>. HIDE DEF S0, H0
    <3>. QED
      BY <3>1, <3>2, <3>3
  <2>4. CASE HintsEnd(p)
    BY <2>2, <2>4
  <2>. QED
    BY <2>3, <2>4
<1>3. UNCHANGED <<dir, changes, start, touched, call, outcome, committed, audit,
                  notes, mails, found, flushed>>
  BY DEF Hint, HintsEnd, outside, tables
<1>4. S \subseteq People /\ H \subseteq People
  BY <1>1, <1>2 DEF TypeOK
<1>5. TypeOK'
  BY <1>1, <1>2, <1>3, <1>4 DEF TypeOK, InFlight
<1>6. pc'[p] = where /\ staged'[p] = S /\ hinted'[p] = H
  BY <1>1, <1>2 DEF TypeOK
<1>7. Flow(p)'
  BY <1>1, <1>2, <1>3, <1>6 DEF At, Flow, Finished
<1>8. Queued(p)' /\ Landed(p)' /\ Since(p)' /\ Knows(p)'
  BY <1>1, <1>2, <1>3, <1>6 DEF At, Queued, Landed, Since, Knows, Finished, Note
<1>9. Told(p)'
  BY <1>1, <1>2, <1>3, <1>6, ReachesStays DEF At, Told, Note
<1>10. \A q \in Publishers \ {p} : Aside(q) /\ touched'[q] = touched[q]
  BY <1>1, <1>2, <1>3 DEF TypeOK, Aside
<1>. QED
  BY <1>3, <1>5, <1>7, <1>8, <1>9, <1>10, AloneInv DEF At

----------------------------------------------------------------------------
(* crm-backend *)

\* The directory `new' differs from the present one in what concerns u only.
Concerns(u, new) ==
    \A v \in People \ {u} :
       /\ new.accounts[v] = dir.accounts[v]
       /\ \A m \in Memberships : m.user = v => (m \in new.members <=> m \in dir.members)
       /\ \A x \in Preferences : x.user = v => (x \in new.prefs <=> x \in dir.prefs)

\* The rows that are left: all notifications but u's, and every mail, perhaps
\* unlinked.
RowsLeft(u) ==
    /\ notes' \subseteq notes
    /\ \A n \in notes : n.user # u => n \in notes'
    /\ \A m \in mails : \E x \in mails' : x.by = m.by /\ x.user = m.user /\ x.key = m.key
    /\ \A x \in mails' : \E m \in mails : x.by = m.by /\ x.user = m.user /\ x.key = m.key

\* A publisher's rows and its knowledge of the untouched outlive a change.
LEMMA ChangeAt ==
    ASSUME NEW u \in People, NEW new, Change(u, new), Concerns(u, new), RowsLeft(u),
           NEW q \in Publishers, At(q), touched[q] \subseteq People
    PROVE  At(q)'
<1>1. /\ UNCHANGED <<pc, call, found, flushed, staged, hinted, start, outcome>>
      /\ dir' = new
      /\ touched'[q] = IF pc[q] = "idle" THEN {} ELSE touched[q] \cup {u}
  BY DEF Change
<1>2. Flow(q)' /\ Queued(q)'
  BY <1>1 DEF At, Flow, Queued, Note
<1>3. Landed(q)'
  BY <1>1 DEF At, Landed, RowsLeft
<1>4. Since(q)'
  BY <1>1 DEF At, Since, Concerns
<1>5. Knows(q)'
  <2>1. Knows(q)
    BY DEF At
  <2>2. pc[q] = "audience" => KnowsAuthor(q)'
    BY <1>1, <2>1 DEF Knows, KnowsAuthor
  <2>3. pc[q] = "channels" => KnowsAudience(q)'
    BY <1>1, <2>1, EntitledStays DEF Knows, KnowsAudience
  <2>4. pc[q] \in {"notes", "contacts", "mails"} => KnowsChannels(q)'
    BY <1>1, <2>1, EntitledStays DEF Knows, KnowsChannels, Channels
  <2>5. pc[q] = "mails" => KnowsContacts(q)'
    BY <1>1, <2>1, EntitledStays DEF Knows, KnowsContacts, Channels, Note
  <2>6. pc[q] = "commit" /\ outcome[q] = "none" => ReadyToCommit(q)'
    BY <1>1, <2>1, EntitledStays DEF Knows, ReadyToCommit, Channels, RowsLeft
  <2>. QED
    BY <1>1, <2>2, <2>3, <2>4, <2>5, <2>6 DEF Knows
<1>6. Told(q)'
  <2>1. CASE pc[q] = "idle"
    <3>1. \A x \in notes \cup mails : x.by # q
      BY <2>1, Unlanded DEF Finished
    <3>2. \A x \in notes' \cup mails' : x.by # q
      BY <3>1 DEF RowsLeft
    <3>3. outcome[q] = "none" /\ hinted[q] = {}
      BY <2>1 DEF At, Flow, Finished
    <3>. QED
      BY <1>1, <2>1, <3>2, <3>3 DEF Told
  <2>2. CASE pc[q] # "idle"
    <3>1. \A v \in People \ touched'[q] : Note(q, v) \in notes' <=> Note(q, v) \in notes
      BY <1>1, <2>2 DEF RowsLeft, Note
    <3>2. Reaches(q) => Reaches(q)'
      <4>1. ASSUME Reaches(q), NEW v \in People \ touched'[q]
            PROVE  /\ Note(q, v) \in notes' <=> Entitled(q, v, "inapp")
                   /\ Entitled(q, v, "email") /\ Addressable(q, v) =>
                         \E m \in mails' : IsFor(m, q, v)
                   /\ \A m \in mails' : m.by = q /\ m.user = v => Entitled(q, v, "email")
        BY <1>1, <2>2, <3>1, <4>1 DEF Reaches, RowsLeft, IsFor
      <4>. QED
        BY <1>1, <4>1, EntitledStays DEF Reaches, Channels, Note, IsFor
    <3>3. (\E x \in notes' \cup mails' : x.by = q) => \E x \in notes \cup mails : x.by = q
      BY DEF RowsLeft
    <3>4. \A v \in People \ touched'[q] : v \in People \ touched[q]
      BY <1>1, <2>2
    <3>. QED
      BY <1>1, <3>1, <3>2, <3>3, <3>4 DEF At, Told, Note
  <2>. QED
    BY <2>1, <2>2
<1>. QED
  BY <1>2, <1>3, <1>4, <1>5, <1>6 DEF At

LEMMA ChangeInv ==
    ASSUME IInv, NEW u \in People, NEW new \in DirectoryRows, Change(u, new),
           Concerns(u, new), RowsLeft(u), notes' \subseteq NoteRows,
           mails' \subseteq MailRows, Tables'
    PROVE  IInv'
<1>1. TypeOK /\ \A q \in Publishers : At(q)
  BY IInvAt
<1>2. ASSUME NEW q \in Publishers PROVE At(q)'
  <2>1. touched[q] \subseteq People
    BY <1>1 DEF TypeOK
  <2>. QED
    BY <1>1, <2>1, ChangeAt
<1>3. TypeOK'
  <2>1. dir' \in DirectoryRows /\ changes' \in 0 .. MaxChanges
    <3>1. dir' = new /\ changes < MaxChanges /\ changes' = changes + 1
      BY DEF Change
    <3>2. changes \in 0 .. MaxChanges /\ MaxChanges \in Nat
      BY <1>1, BoundsAssumption DEF TypeOK
    <3>3. changes' \in 0 .. MaxChanges
      BY <3>1, <3>2
    <3>. QED
      BY <3>1, <3>3
  <2>2. touched' \in [Publishers -> SUBSET People]
    BY <1>1 DEF Change, TypeOK
  <2>3. UNCHANGED <<audit, pc, call, found, flushed, staged, hinted, start,
                    outcome, committed>>
    BY DEF Change
  <2>. QED
    BY <1>1, <2>1, <2>2, <2>3 DEF TypeOK
<1>. QED
  BY <1>2, <1>3, IInvAtNext

\* A change that leaves the tables of this service alone.
LEMMA ChangeOnly ==
    ASSUME IInv, NEW u \in People, NEW new \in DirectoryRows, Change(u, new),
           Concerns(u, new), UNCHANGED <<notes, mails>>,
           \A m \in new.members : new.accounts[m.user] # Null
    PROVE  IInv'
<1>1. TypeOK /\ Tables
  BY IInvAt
<1>2. UNCHANGED flushed /\ dir' = new
  BY DEF Change
<1>3. Tables'
  BY <1>1, <1>2 DEF Tables, DistinctKeys, OneMailPerKey
<1>4. RowsLeft(u) /\ notes' \subseteq NoteRows /\ mails' \subseteq MailRows
  BY <1>1 DEF RowsLeft, TypeOK
<1>. QED
  BY <1>3, <1>4, ChangeInv

LEMMA SaveAccountKeeps ==
    ASSUME IInv, NEW u \in People, NEW address \in Addresses, SaveAccount(u, address)
    PROVE  IInv'
<1>. DEFINE new == [dir EXCEPT !.accounts[u] = address]
<1>1. TypeOK /\ Tables
  BY IInvAt
<1>2. Change(u, new) /\ UNCHANGED <<notes, mails>>
  BY DEF SaveAccount
<1>3. /\ new \in DirectoryRows /\ new.members = dir.members /\ new.prefs = dir.prefs
      /\ \A v \in People : new.accounts[v] = IF v = u THEN address ELSE dir.accounts[v]
  BY <1>1 DEF TypeOK, DirectoryRows
<1>. HIDE DEF new
<1>4. Concerns(u, new)
  BY <1>3 DEF Concerns
<1>5. \A m \in new.members : new.accounts[m.user] # Null
  <2>1. address # Null /\ \A m \in dir.members : m.user \in People
    BY <1>1, NullAssumption DEF TypeOK, DirectoryRows, Memberships
  <2>. QED
    BY <1>1, <1>3, <2>1 DEF Tables
<1>. QED
  BY <1>2, <1>3, <1>4, <1>5, ChangeOnly

LEMMA MembershipKeeps ==
    ASSUME IInv, NEW m \in Memberships, Join(m) \/ Leave(m)
    PROVE  IInv'
<1>1. TypeOK /\ Tables /\ m.user \in People
  BY IInvAt DEF Memberships
<1>2. PICK M : /\ M \subseteq dir.members \cup {m}
               /\ \A x \in dir.members : x # m => x \in M
               /\ m \in M => dir.accounts[m.user] # Null
               /\ Change(m.user, [dir EXCEPT !.members = M])
               /\ UNCHANGED <<notes, mails>>
  <2>1. CASE Join(m)
    <3>. DEFINE M0 == dir.members \cup {m}
    <3>1. Change(m.user, [dir EXCEPT !.members = M0])
      BY <2>1 DEF Join
    <3>. QED
      BY <2>1, <3>1 DEF Join
  <2>2. CASE Leave(m)
    <3>. DEFINE M0 == dir.members \ {m}
    <3>1. Change(m.user, [dir EXCEPT !.members = M0])
      BY <2>2 DEF Leave
    <3>. QED
      BY <2>2, <3>1 DEF Leave
  <2>. QED
    BY <2>1, <2>2
<1>. DEFINE new == [dir EXCEPT !.members = M]
<1>3. /\ new \in DirectoryRows /\ new.members = M /\ new.accounts = dir.accounts
      /\ new.prefs = dir.prefs
  BY <1>1, <1>2 DEF TypeOK, DirectoryRows
<1>4. Change(m.user, new)
  BY <1>2
<1>. HIDE DEF new
<1>5. Concerns(m.user, new)
  BY <1>2, <1>3 DEF Concerns
<1>6. \A x \in new.members : new.accounts[x.user] # Null
  BY <1>1, <1>2, <1>3 DEF Tables
<1>. QED
  BY <1>1, <1>2, <1>3, <1>4, <1>5, <1>6, ChangeOnly

LEMMA PreferKeeps ==
    ASSUME IInv, NEW x \in Preferences, Prefer(x)
    PROVE  IInv'
<1>1. TypeOK /\ Tables /\ x.user \in People
  BY IInvAt DEF Preferences
<1>. DEFINE P == {y \in dir.prefs : \/ y.user # x.user \/ y.prefix # x.prefix
                                    \/ y.channel # x.channel} \cup {x}
            new == [dir EXCEPT !.prefs = P]
<1>2. Change(x.user, new) /\ UNCHANGED <<notes, mails>>
  BY DEF Prefer
<1>3. /\ new \in DirectoryRows /\ new.prefs = P /\ new.accounts = dir.accounts
      /\ new.members = dir.members
  BY <1>1 DEF TypeOK, DirectoryRows
<1>4. \A y : y.user # x.user => (y \in P <=> y \in dir.prefs)
  OBVIOUS
<1>. HIDE DEF new, P
<1>5. Concerns(x.user, new)
  BY <1>3, <1>4 DEF Concerns
<1>6. \A m \in new.members : new.accounts[m.user] # Null
  BY <1>1, <1>3 DEF Tables
<1>. QED
  BY <1>1, <1>2, <1>3, <1>5, <1>6, ChangeOnly

LEMMA CloseAccountKeeps ==
    ASSUME IInv, NEW u \in People, CloseAccount(u)
    PROVE  IInv'
<1>. DEFINE new == [accounts |-> [dir.accounts EXCEPT ![u] = Null],
                    members |-> {m \in dir.members : m.user # u},
                    prefs |-> {x \in dir.prefs : x.user # u}]
            Unlinked(m) == IF m.user = u THEN [m EXCEPT !.note = Null] ELSE m
<1>1. TypeOK /\ Tables /\ \A q \in Publishers : At(q)
  BY IInvAt
<1>2. /\ Change(u, new)
      /\ notes' = {n \in notes : n.user # u}
      /\ mails' = {Unlinked(m) : m \in mails}
  BY DEF CloseAccount
<1>3. new \in DirectoryRows /\ Concerns(u, new)
  <2>1. new \in DirectoryRows
    BY <1>1 DEF TypeOK, DirectoryRows
  <2>2. Concerns(u, new)
    BY <1>1 DEF TypeOK, DirectoryRows, Concerns
  <2>. QED
    BY <2>1, <2>2
<1>4. \A m \in new.members : new.accounts[m.user] # Null
  BY <1>1 DEF Tables, TypeOK, DirectoryRows
<1>5. dir' = new /\ UNCHANGED flushed
  BY <1>2 DEF Change
<1>. HIDE DEF new
<1>6. \A m \in mails : /\ Unlinked(m) \in MailRows
                       /\ Unlinked(m).by = m.by /\ Unlinked(m).user = m.user
                       /\ Unlinked(m).key = m.key
                       /\ Unlinked(m).note = IF m.user = u THEN Null ELSE m.note
  BY <1>1 DEF TypeOK, MailRows
<1>. HIDE DEF Unlinked
<1>7. RowsLeft(u) /\ notes' \subseteq NoteRows /\ mails' \subseteq MailRows
  BY <1>1, <1>2, <1>6 DEF RowsLeft, TypeOK
<1>8. \A m \in mails' : m.note # Null => m.note = Note(m.by, m.user) /\ m.note \in notes'
  <2>1. ASSUME NEW m \in mails, Unlinked(m).note # Null
        PROVE  /\ Unlinked(m).note = Note(Unlinked(m).by, Unlinked(m).user)
               /\ Unlinked(m).note \in notes'
    <3>1. m.user # u /\ m.note = Note(m.by, m.user) /\ m.note \in notes
      BY <1>1, <1>6, <2>1 DEF Tables
    <3>2. m.note.user = m.user
      BY <3>1 DEF Note
    <3>. QED
      BY <1>2, <1>6, <3>1, <3>2
  <2>. QED
    BY <1>2, <2>1
<1>9. DistinctKeys'
  <2>1. \A m, n \in mails' : m.key = n.key => m = n
    BY <1>1, <1>2, <1>6 DEF Tables, DistinctKeys, OneMailPerKey
  <2>2. \A x \in mails' : \E m \in mails : x.key = m.key
    BY <1>2, <1>6
  <2>. QED
    BY <1>1, <1>5, <2>1, <2>2 DEF Tables, DistinctKeys, OneMailPerKey
<1>10. Tables'
  BY <1>4, <1>5, <1>8, <1>9 DEF Tables
<1>. QED
  BY <1>2, <1>3, <1>7, <1>10, ChangeInv

----------------------------------------------------------------------------
(* The theorems *)

LEMMA InitIInv == Init => IInv
<1>. SUFFICES ASSUME Init PROVE IInv
  OBVIOUS
<1>1. TypeOK
  <2>1. NothingFound \in Findings /\ NoRows \in Flushes
    <3>1. [who |-> Null, author |-> Null, audience |-> {}, inapp |-> {},
           email |-> {}, batch |-> {}] \in Findings
      BY DEF Findings
    <3>2. [audit |-> {}, notes |-> {}, mails |-> {}] \in Flushes
      BY DEF Flushes
    <3>. QED
      BY <3>1, <3>2 DEF NothingFound, NoRows
  <2>2. dir \in DirectoryRows /\ start \in [Publishers -> DirectoryRows]
    BY DirectoriesAssumption DEF Init
  <2>3. changes \in 0 .. MaxChanges
    <3>1. changes = 0 /\ MaxChanges \in Nat
      BY BoundsAssumption DEF Init
    <3>. QED
      BY <3>1
  <2>. QED
    BY <2>1, <2>2, <2>3 DEF Init, TypeOK
<1>2. Tables
  BY DirectoriesAssumption DEF Init, Tables, DistinctKeys, OneMailPerKey, NoRows
<1>3. ASSUME NEW p \in Publishers PROVE At(p)
  BY DEF Init, At, Flow, Queued, Landed, Since, Knows, Told, NoRows, Finished
<1>. QED
  BY <1>1, <1>2, <1>3, IInvAt

LEMMA StutterKeeps ==
    ASSUME IInv, UNCHANGED vars
    PROVE  IInv'
<1>1. TypeOK /\ Tables /\ \A p \in Publishers : At(p)
  BY IInvAt
<1>2. UNCHANGED <<dir, notes, mails>> /\ \A q \in Publishers : Aside(q) /\ touched'[q] = touched[q]
  BY DEF vars, Aside
<1>3. ASSUME NEW q \in Publishers PROVE At(q)'
  BY <1>1, <1>2, OthersKeep DEF Adds
<1>4. TypeOK' /\ Tables'
  BY <1>1 DEF vars, TypeOK, Tables, DistinctKeys, OneMailPerKey
<1>. QED
  BY <1>3, <1>4, IInvAtNext

\* Any step of any publisher, of crm-backend, or of nobody.
LEMMA NotifyInductive == IInv /\ [Next]_vars => IInv'
<1>. SUFFICES ASSUME IInv, [Next]_vars PROVE IInv'
  OBVIOUS
<1>1. ASSUME NEW p \in Publishers, Begin(p) \/ Hint(p) PROVE IInv'
  BY <1>1, BeginKeeps, HintKeeps
<1>2. ASSUME NEW p \in Publishers, Work(p) PROVE IInv'
  <2>1. ASSUME AuditWho(p) \/ AuditEntry(p) \/ AuditCommit(p) PROVE IInv'
    BY <2>1, AuditWhoKeeps, AuditEntryKeeps, AuditCommitKeeps
  <2>2. ASSUME ReadAuthor(p) \/ ReadAudience(p) \/ ReadPreferences(p) \/ ReadContacts(p)
        PROVE  IInv'
    BY <2>2, ReadAuthorKeeps, ReadAudienceKeeps, ReadPreferencesKeeps, ReadContactsKeeps
  <2>3. ASSUME InsertNotes(p) \/ InsertMails(p) PROVE IInv'
    BY <2>3, InsertNotesKeeps, InsertMailsKeeps
  <2>4. ASSUME NotesRejected(p) PROVE IInv'
    BY <2>4, SwallowKeeps DEF NotesRejected
  <2>5. ASSUME Commit(p) \/ HintsEnd(p) PROVE IInv'
    BY <2>5, CommittedKeeps, HintKeeps
  <2>. QED
    BY <1>2, <2>1, <2>2, <2>3, <2>4, <2>5 DEF Work
<1>3. ASSUME NEW p \in Publishers, Faults(p) PROVE IInv'
  <2>1. ASSUME PublishFails(p) PROVE IInv'
    BY <2>1, SwallowKeeps DEF PublishFails
  <2>. QED
    BY <1>3, <2>1, AuditLogFailsKeeps, AuditCommitFailsKeeps, CommittedKeeps,
       VanishKeeps DEF Faults
<1>4. ASSUME Directory PROVE IInv'
  BY <1>4, SaveAccountKeeps, CloseAccountKeeps, MembershipKeeps, PreferKeeps
  DEF Directory
<1>5. ASSUME Terminated \/ UNCHANGED vars PROVE IInv'
  BY <1>5, StutterKeeps DEF Terminated
<1>. QED
  BY <1>1, <1>2, <1>3, <1>4, <1>5 DEF Next

\* Every part of the inductive invariant holds at every step of every run.
THEOREM NotifyInvariance == Spec => []IInv
<1>. QED
  BY InitIInv, NotifyInductive, PTL DEF Spec

\* Types hold; in particular only usable addresses are queued (_enqueue_email).
THEOREM NotifyTypes == Spec => []TypeOK
<1>1. IInv => TypeOK
  BY DEF IInv
<1>. QED
  BY <1>1, NotifyInvariance, PTL

\* A publish that went through and was committed has notified exactly the
\* entitled, and each who is to get a mail has one of their own, or, if the
\* caller overrode the dedupe key, one mail with that key is queued for all;
\* however its statements interleave with other publishers' and with
\* crm-backend's changes to other people (NotificationService.publish).
THEOREM PublishReaches == Spec => []LandedReaches
<1>1. IInv => LandedReaches
  BY DEF IInv
<1>. QED
  BY <1>1, NotifyInvariance, PTL

\* Whatever fails, crashes or is swallowed, the rows of a publish are there
\* together or not at all (its savepoint and the caller's commit).
THEOREM PublishIsAtomic == Spec => []AllOrNothing
<1>1. IInv => AllOrNothing
  BY DEF IInv
<1>. QED
  BY <1>1, NotifyInvariance, PTL

\* No dedupe key is queued twice (insert_outbound's ON CONFLICT DO NOTHING).
THEOREM KeysAreQueuedOnce == Spec => []OneMailPerKey
<1>1. IInv => OneMailPerKey
  BY DEF IInv, DistinctKeys
<1>. QED
  BY <1>1, NotifyInvariance, PTL

\* A mail's link is to a notification that exists, also after crm-backend has
\* deleted accounts (id_notification in _enqueue_email).
THEOREM LinksAreToRows == Spec => []LinkedMails
<1>1. IInv => LinkedMails
  BY DEF IInv, Links, LinkedMails
<1>. QED
  BY <1>1, NotifyInvariance, PTL

\* Hints tell of rows that are there, unless the commit's outcome is unknown
\* (flush_realtime behind the commit).
THEOREM HintsTellOfRows == Spec => []HintsMatchRows
<1>1. IInv => HintsMatchRows
  BY DEF IInv
<1>. QED
  BY <1>1, NotifyInvariance, PTL
=============================================================================
