------------------------ MODULE NewsNotifyRefinement ------------------------
(***************************************************************************)
(* NewsNotify implements Outbox, for every set of publishers, people and   *)
(* menus: the audit commit is the outbox's Record, the commit of the       *)
(* publish its Deliver, and every other statement leaves the outbox alone. *)
(***************************************************************************)
EXTENDS NewsNotifyProofs

USE NullAssumption

\* What the refinement needs beside IInv: an audit entry is flushed once, and
\* is not carried into the publish; nobody is hinted twice.
Once(p) ==
    /\ pc[p] # "audit" => flushed[p].audit = {}
    /\ flushed[p].audit = {} \/ \E u \in People \cup {Null} :
                                   flushed[p].audit = {[by |-> p, user |-> u]}
    /\ staged[p] \cap hinted[p] = {}

EachOnce == \A p \in Publishers : Once(p)

----------------------------------------------------------------------------
(* EachOnce is inductive *)

\* A publisher's step leaves the others' parts alone.
LEMMA OnceBesides ==
    ASSUME EachOnce, NEW p \in Publishers,
           \A q \in Publishers \ {p} :
              /\ pc'[q] = pc[q] /\ flushed'[q] = flushed[q]
              /\ staged'[q] = staged[q] /\ hinted'[q] = hinted[q],
           Once(p)'
    PROVE  EachOnce'
BY DEF EachOnce, Once

\* The audit entry: written, committed, or gone.
LEMMA AuditOnce ==
    ASSUME IInv, EachOnce, NEW p \in Publishers,
           AuditWho(p) \/ AuditEntry(p) \/ AuditLogFails(p) \/ AuditCommit(p)
           \/ AuditCommitFails(p)
    PROVE  EachOnce'
<1>1. TypeOK /\ Once(p)
  BY DEF IInv, EachOnce
<1>2. /\ pc \in [Publishers -> InFlight \cup {"idle", "done", "gone"}]
      /\ flushed \in [Publishers -> Flushes] /\ found[p].who \in People \cup {Null}
  BY <1>1 DEF TypeOK, Findings
<1>3. /\ staged' = staged /\ hinted' = hinted
      /\ \A q \in Publishers \ {p} : pc'[q] = pc[q] /\ flushed'[q] = flushed[q]
  BY <1>2 DEF AuditWho, AuditEntry, AuditLogFails, AuditCommit, AuditCommitFails,
              Goto, Quiet, Flush
<1>4. Once(p)'
  <2>1. CASE AuditWho(p) \/ AuditLogFails(p)
    <3>1. flushed'[p] = flushed[p] /\ pc[p] # "audit"
      BY <2>1 DEF AuditWho, AuditLogFails
    <3>. QED
      BY <1>1, <1>3, <3>1 DEF Once
  <2>2. CASE AuditEntry(p)
    <3>1. flushed'[p].audit = {[by |-> p, user |-> found[p].who]} /\ pc'[p] = "audit"
      BY <1>2, <2>2 DEF AuditEntry, Goto, Flushes
    <3>. QED
      BY <1>1, <1>2, <1>3, <3>1 DEF Once
  <2>3. CASE AuditCommit(p) \/ AuditCommitFails(p)
    <3>1. flushed'[p].audit = {}
      BY <1>2, <2>3 DEF AuditCommit, AuditCommitFails, Flush, NoRows
    <3>. QED
      BY <1>1, <1>3, <3>1 DEF Once
  <2>. QED
    BY <2>1, <2>2, <2>3
<1>. QED
  BY <1>3, <1>4, OnceBesides

\* A statement of the publish flushes no audit entry and stages before hinting.
LEMMA PublishOnce ==
    ASSUME IInv, EachOnce, NEW p \in Publishers,
           Begin(p) \/ ReadAuthor(p) \/ ReadAudience(p) \/ ReadPreferences(p)
           \/ ReadContacts(p) \/ InsertNotes(p) \/ InsertMails(p)
           \/ NotesRejected(p) \/ PublishFails(p)
    PROVE  EachOnce'
<1>1. TypeOK /\ Once(p) /\ Control
  BY DEF IInv, EachOnce
<1>2. /\ pc \in [Publishers -> InFlight \cup {"idle", "done", "gone"}]
      /\ flushed \in [Publishers -> Flushes] /\ staged \in [Publishers -> SUBSET People]
  BY <1>1 DEF TypeOK
<1>3. pc[p] # "audit" /\ pc[p] \notin {"hints"} \cup Finished
  BY DEF Begin, ReadAuthor, ReadAudience, ReadPreferences, ReadContacts,
         InsertNotes, InsertMails, NotesRejected, PublishFails, Finished
<1>4. hinted[p] = {} /\ flushed[p].audit = {}
  BY <1>1, <1>3 DEF Control, Once
<1>5. /\ hinted' = hinted
      /\ \A q \in Publishers \ {p} :
            pc'[q] = pc[q] /\ flushed'[q] = flushed[q] /\ staged'[q] = staged[q]
      /\ flushed'[p].audit = flushed[p].audit \/ flushed'[p].audit = {}
  <2>1. CASE Begin(p) \/ ReadAuthor(p) \/ ReadAudience(p) \/ ReadPreferences(p)
             \/ ReadContacts(p)
    BY <1>2, <2>1 DEF Begin, ReadAuthor, ReadAudience, ReadPreferences,
                      ReadContacts, Goto, Quiet
  <2>2. CASE InsertNotes(p) \/ InsertMails(p)
    BY <1>2, <2>2 DEF InsertNotes, InsertMails, Goto, Flushes
  <2>3. CASE NotesRejected(p) \/ PublishFails(p)
    BY <1>2, <2>3 DEF NotesRejected, PublishFails, Swallow, Flush, Rollback,
                      Goto, NoRows
  <2>. QED
    BY <2>1, <2>2, <2>3
<1>6. Once(p)'
  BY <1>4, <1>5 DEF Once
<1>. QED
  BY <1>5, <1>6, OnceBesides

\* The end of the handler, and the hints.
LEMMA EndOnce ==
    ASSUME IInv, EachOnce, NEW p \in Publishers,
           Commit(p) \/ CommitFails(p) \/ Vanish(p) \/ Hint(p) \/ HintsEnd(p)
    PROVE  EachOnce'
<1>1. TypeOK /\ Once(p)
  BY DEF IInv, EachOnce
<1>2. /\ pc \in [Publishers -> InFlight \cup {"idle", "done", "gone"}]
      /\ flushed \in [Publishers -> Flushes] /\ staged \in [Publishers -> SUBSET People]
      /\ hinted \in [Publishers -> SUBSET People]
  BY <1>1 DEF TypeOK
<1>3. CASE Hint(p)
  <2>1. PICK u \in staged[p] : /\ staged' = [staged EXCEPT ![p] = @ \ {u}]
                               /\ hinted' = [hinted EXCEPT ![p] = @ \cup {u}]
    BY <1>3 DEF Hint
  <2>2. pc' = pc /\ flushed' = flushed
    BY <1>3 DEF Hint
  <2>3. staged'[p] = staged[p] \ {u} /\ hinted'[p] = hinted[p] \cup {u}
    BY <1>2, <2>1
  <2>4. Once(p)'
    BY <1>1, <2>2, <2>3 DEF Once
  <2>5. \A q \in Publishers \ {p} : staged'[q] = staged[q] /\ hinted'[q] = hinted[q]
    BY <1>2, <2>1
  <2>. QED
    BY <2>2, <2>4, <2>5, OnceBesides
<1>4. CASE Commit(p) \/ CommitFails(p) \/ Vanish(p) \/ HintsEnd(p)
  <2>1. /\ hinted' = hinted
        /\ \A q \in Publishers \ {p} :
              pc'[q] = pc[q] /\ flushed'[q] = flushed[q] /\ staged'[q] = staged[q]
        /\ staged'[p] \in {staged[p], {}}
    BY <1>2, <1>4 DEF Commit, CommitFails, Vanish, HintsEnd, Goto, Flush
  <2>2. flushed'[p].audit = {}
    <3>1. CASE HintsEnd(p)
      BY <1>1, <3>1 DEF HintsEnd, Once
    <3>2. CASE Commit(p) \/ CommitFails(p) \/ Vanish(p)
      BY <1>2, <3>2 DEF Commit, CommitFails, Vanish, Flush, NoRows
    <3>. QED
      BY <1>4, <3>1, <3>2
  <2>3. Once(p)'
    BY <1>1, <2>1, <2>2 DEF Once
  <2>. QED
    BY <2>1, <2>3, OnceBesides
<1>. QED
  BY <1>3, <1>4

\* Every step, whoever takes it.
LEMMA StepsOnce ==
    ASSUME IInv, EachOnce, [Next]_vars
    PROVE  EachOnce'
<1>1. ASSUME NEW p \in Publishers, Begin(p) \/ Work(p) \/ Hint(p) \/ Faults(p)
      PROVE  EachOnce'
  BY <1>1, AuditOnce, PublishOnce, EndOnce DEF Work, Faults
<1>2. CASE Directory
  <2>1. UNCHANGED <<pc, flushed, staged, hinted>>
    BY <1>2 DEF Directory, SaveAccount, CloseAccount, Join, Leave, Prefer, Change
  <2>. QED
    BY <2>1 DEF EachOnce, Once
<1>3. CASE Terminated \/ UNCHANGED vars
  BY <1>3 DEF Terminated, vars, EachOnce, Once
<1>. QED
  BY <1>1, <1>2, <1>3 DEF Next

----------------------------------------------------------------------------
(* Every step is one of the outbox, or none *)

\* A publisher that moves on moves on in the outbox, and nobody else does.
LEMMA StageMoves ==
    ASSUME TypeOK, NEW p \in Publishers, NEW where, Goto(p, where)
    PROVE  /\ Stage[p] = Turn(pc[p])
           /\ Stage' = [Stage EXCEPT ![p] = Turn(where)]
           /\ Turn(pc[p]) = Turn(where) => Stage' = Stage
<1>1. pc' = [pc EXCEPT ![p] = where] /\ DOMAIN pc = Publishers
  BY DEF Goto, TypeOK
<1>2. \A q \in Publishers : pc'[q] = IF q = p THEN where ELSE pc[q]
  BY <1>1
<1>3. /\ DOMAIN Stage = Publishers /\ DOMAIN Stage' = Publishers
      /\ \A q \in Publishers : Stage[q] = Turn(pc[q]) /\ Stage'[q] = Turn(pc'[q])
  BY DEF Stage
<1>4. Stage = [q \in Publishers |-> Turn(pc[q])]
      /\ Stage' = [q \in Publishers |-> Turn(pc'[q])]
  BY DEF Stage
<1>5. Stage' = [Stage EXCEPT ![p] = Turn(where)]
  BY <1>2, <1>4
<1>6. Turn(pc[p]) = Turn(where) => Stage' = Stage
  BY <1>2, <1>4
<1>. QED
  BY <1>3, <1>5, <1>6

OutboxVars == <<Stage, audit, notes, mails, hinted>>

\* Statements that neither commit nor hint.
LEMMA StatementsAreHidden ==
    ASSUME IInv, NEW p \in Publishers,
           \/ Begin(p) \/ AuditWho(p) \/ AuditEntry(p) \/ AuditLogFails(p)
           \/ ReadAuthor(p) \/ ReadAudience(p) \/ ReadPreferences(p)
           \/ ReadContacts(p) \/ InsertNotes(p) \/ InsertMails(p)
           \/ NotesRejected(p) \/ PublishFails(p) \/ HintsEnd(p)
    PROVE  UNCHANGED OutboxVars
<1>1. TypeOK
  BY DEF IInv
<1>2. UNCHANGED <<tables, hinted>>
  BY DEF Begin, AuditWho, AuditEntry, AuditLogFails, ReadAuthor, ReadAudience,
         ReadPreferences, ReadContacts, InsertNotes, InsertMails, NotesRejected,
         PublishFails, Swallow, HintsEnd, Quiet
<1>3. PICK where : Goto(p, where) /\ Turn(pc[p]) = Turn(where)
  <2>1. CASE Begin(p)
    BY <2>1 DEF Begin, Turn
  <2>2. CASE AuditWho(p) \/ AuditEntry(p) \/ AuditLogFails(p)
    BY <2>2 DEF AuditWho, AuditEntry, AuditLogFails, Turn
  <2>3. CASE ReadAuthor(p) \/ ReadContacts(p)
    BY <2>3 DEF ReadAuthor, ReadContacts, Turn
  <2>4. CASE ReadAudience(p)
    <3>1. Goto(p, "commit") \/ Goto(p, "channels")
      BY <2>4 DEF ReadAudience
    <3>. QED
      BY <2>4, <3>1 DEF ReadAudience, Turn
  <2>5. CASE ReadPreferences(p)
    <3>1. Goto(p, "commit") \/ Goto(p, "notes")
      BY <2>5 DEF ReadPreferences
    <3>. QED
      BY <2>5, <3>1 DEF ReadPreferences, Turn
  <2>6. CASE InsertNotes(p) \/ InsertMails(p)
    <3>1. Goto(p, "commit") \/ Goto(p, "contacts")
      BY <2>6 DEF InsertNotes, InsertMails
    <3>. QED
      BY <2>6, <3>1 DEF InsertNotes, InsertMails, Turn
  <2>7. CASE NotesRejected(p) \/ PublishFails(p)
    BY <2>7 DEF NotesRejected, PublishFails, Swallow, Turn
  <2>8. CASE HintsEnd(p)
    BY <2>8 DEF HintsEnd, Turn
  <2>. QED
    BY <2>1, <2>2, <2>3, <2>4, <2>5, <2>6, <2>7, <2>8
<1>. QED
  BY <1>1, <1>2, <1>3, StageMoves DEF OutboxVars, tables

\* The commit of the audit entry, and whatever ends the handler before it.
LEMMA AuditRecords ==
    ASSUME IInv, EachOnce, NEW p \in Publishers,
           \/ AuditCommit(p) \/ AuditCommitFails(p)
           \/ Vanish(p) /\ pc[p] \in {"who", "entry", "audit"}
    PROVE  Box!Record(p)
<1>1. TypeOK /\ Once(p) /\ Control
  BY DEF IInv, EachOnce
<1>2. pc[p] \in {"who", "entry", "audit"}
  BY DEF AuditCommit, AuditCommitFails
<1>3. flushed[p].notes = {} /\ flushed[p].mails = {}
  BY <1>1, <1>2 DEF Control
<1>4. audit' = audit \/ audit' = audit \cup flushed[p].audit
  BY DEF AuditCommit, AuditCommitFails, Vanish, tables, Land
<1>5. UNCHANGED <<notes, mails, hinted>>
  BY <1>3 DEF AuditCommit, AuditCommitFails, Vanish, tables, Land, Quiet
<1>6. \/ audit' = audit
      \/ \E u \in People \cup {Null} : audit' = audit \cup {[by |-> p, user |-> u]}
  BY <1>1, <1>4 DEF Once
<1>7. PICK where : Goto(p, where) /\ where \in {"author", "done", "gone"}
  BY DEF AuditCommit, AuditCommitFails, Vanish
<1>8. /\ Stage[p] = "new"
      /\ \E next \in {"recorded", "closed"} : Stage' = [Stage EXCEPT ![p] = next]
  BY <1>1, <1>2, <1>7, StageMoves DEF Turn
<1>. QED
  BY <1>5, <1>6, <1>8 DEF Box!Record

\* What a commit of the publish brings fits the outbox: its own mails, with new
\* keys, linked to the rows that come with them.
LEMMA LandedFits ==
    ASSUME IInv, NEW p \in Publishers, pc[p] = "commit", Land(p)
    PROVE  /\ mails \subseteq mails'
           /\ notes' = notes \cup {[by |-> p, user |-> u] : u \in staged[p]}
           /\ Box!Fits(p, staged[p])
<1>1. TypeOK /\ Control /\ Provenance /\ Links /\ DistinctKeys
  BY DEF IInv
<1>2. mails' = mails \cup flushed[p].mails /\ notes' = notes \cup flushed[p].notes
  BY DEF Land
<1>3. flushed[p].notes = {Note(p, u) : u \in staged[p]}
  BY <1>1 DEF Control
<1>4. flushed[p].notes = {[by |-> p, user |-> u] : u \in staged[p]}
  BY <1>3 DEF Note
<1>5. ASSUME NEW m \in mails' \ mails
      PROVE  /\ m.by = p
             /\ m.note # Null => /\ m.user \in staged[p]
                                 /\ m.note = [by |-> p, user |-> m.user]
             /\ \A n \in mails' : n.key = m.key \/ (n.by = p /\ n.user = m.user) => n = m
  <2>1. m \in flushed[p].mails
    BY <1>2, <1>5
  <2>2. m.by = p /\ m.key = DedupeKey(call[p], m.user)
    BY <1>1, <2>1 DEF Provenance
  <2>3. ASSUME m.note # Null
        PROVE  m.user \in staged[p] /\ m.note = [by |-> p, user |-> m.user]
    <3>1. m.note = Note(p, m.user) /\ m.note \in flushed[p].notes
      BY <1>1, <2>1, <2>3 DEF Links
    <3>2. PICK u \in staged[p] : m.note = Note(p, u)
      BY <1>3, <3>1
    <3>. QED
      BY <3>1, <3>2 DEF Note
  <2>4. ASSUME NEW n \in mails', n.key = m.key \/ (n.by = p /\ n.user = m.user)
        PROVE  n = m
    <3>1. CASE n \in flushed[p].mails
      <4>1. n.key = DedupeKey(call[p], n.user)
        BY <1>1, <3>1 DEF Provenance
      <4>2. n.key = m.key
        BY <2>2, <2>4, <4>1
      <4>. QED
        BY <1>1, <2>1, <3>1, <4>2 DEF DistinctKeys
    <3>2. CASE n \in mails
      <4>1. n.key # m.key
        BY <1>1, <2>1, <3>2 DEF DistinctKeys
      <4>2. n.by # p
        BY <1>1, <3>2 DEF Provenance, Finished
      <4>. QED
        BY <2>4, <4>1, <4>2
    <3>. QED
      BY <1>2, <3>1, <3>2
  <2>. QED
    BY <2>2, <2>3, <2>4
<1>. QED
  BY <1>2, <1>4, <1>5 DEF Box!Fits

\* The commit of the publish, or its loss, is the one delivery.
LEMMA CommitDelivers ==
    ASSUME IInv, EachOnce, NEW p \in Publishers,
           \/ Commit(p) \/ CommitFails(p)
           \/ Vanish(p) /\ Turn(pc[p]) = "recorded"
    PROVE  Box!Deliver(p)
<1>1. TypeOK /\ Once(p)
  BY DEF IInv, EachOnce
<1>2. Turn(pc[p]) = "recorded" /\ pc[p] # "audit"
  BY DEF Commit, CommitFails, Turn
<1>3. hinted' = hinted /\ (UNCHANGED tables \/ (pc[p] = "commit" /\ Land(p)))
  <2>1. CASE Commit(p) \/ CommitFails(p)
    BY <2>1 DEF Commit, CommitFails
  <2>2. CASE Vanish(p)
    BY <1>2, <2>2 DEF Vanish
  <2>. QED
    BY <2>1, <2>2
<1>4. PICK where : Goto(p, where) /\ where \in {"hints", "gone"}
  BY DEF Commit, CommitFails, Vanish
<1>5. Stage[p] = "recorded" /\ Stage' = [Stage EXCEPT ![p] = "closed"]
  BY <1>1, <1>2, <1>4, StageMoves DEF Turn
<1>6. audit' = audit
  BY <1>1, <1>2, <1>3 DEF Once, Land, tables
<1>7. /\ mails \subseteq mails'
      /\ \E recipients \in SUBSET People :
            /\ notes' = notes \cup {[by |-> p, user |-> u] : u \in recipients}
            /\ Box!Fits(p, recipients)
  <2>1. CASE UNCHANGED tables
    <3>1. notes' = notes \cup {[by |-> p, user |-> u] : u \in {}}
      BY <2>1 DEF tables
    <3>2. Box!Fits(p, {}) /\ mails' = mails
      BY <2>1 DEF tables, Box!Fits
    <3>. QED
      BY <3>1, <3>2
  <2>2. CASE pc[p] = "commit" /\ Land(p)
    <3>1. staged[p] \in SUBSET People
      BY <1>1 DEF TypeOK
    <3>. QED
      BY <2>2, <3>1, LandedFits
  <2>. QED
    BY <1>3, <2>1, <2>2
<1>. QED
  BY <1>3, <1>5, <1>6, <1>7 DEF Box!Deliver

LEMMA HintHints ==
    ASSUME IInv, EachOnce, NEW p \in Publishers, Hint(p)
    PROVE  Box!Hint(p)
<1>1. TypeOK /\ Once(p)
  BY DEF IInv, EachOnce
<1>2. PICK u \in staged[p] : hinted' = [hinted EXCEPT ![p] = @ \cup {u}]
  BY DEF Hint
<1>3. u \in People \ hinted[p]
  BY <1>1, <1>2 DEF TypeOK, Once
<1>4. hinted' = [hinted EXCEPT ![p] = hinted[p] \cup {u}]
  BY <1>2
<1>5. Stage[p] = "closed" /\ UNCHANGED <<Stage, audit, notes, mails>>
  BY DEF Hint, Stage, Turn, tables
<1>. QED
  BY <1>3, <1>4, <1>5 DEF Box!Hint

\* Handlers that vanish once they have nothing left to commit.
LEMMA VanishHides ==
    ASSUME IInv, NEW p \in Publishers, Vanish(p), Turn(pc[p]) = "closed"
    PROVE  UNCHANGED OutboxVars
<1>1. TypeOK /\ Goto(p, "gone")
  BY DEF IInv, Vanish
<1>2. UNCHANGED <<tables, hinted>>
  BY DEF Vanish, Turn
<1>. QED
  BY <1>1, <1>2, StageMoves DEF OutboxVars, Turn, tables

\* crm-backend: only a closed account shows in the outbox.
LEMMA DirectoryCloses ==
    ASSUME Directory
    PROVE  (\E u \in People : Box!Close(u)) \/ UNCHANGED OutboxVars
<1>1. UNCHANGED <<audit, hinted, Stage>>
  BY DEF Directory, SaveAccount, CloseAccount, Join, Leave, Prefer, Change, Stage
<1>2. CASE \E u \in People : CloseAccount(u)
  BY <1>1, <1>2 DEF CloseAccount, Box!Close
<1>3. CASE UNCHANGED <<notes, mails>>
  BY <1>1, <1>3 DEF OutboxVars
<1>. QED
  BY <1>2, <1>3 DEF Directory, SaveAccount, Join, Leave, Prefer

\* The initial states are the outbox's, and every step is one of its steps or
\* a stutter.
LEMMA StepIsOutboxStep ==
    ASSUME IInv, EachOnce, [Next]_vars
    PROVE  Box!Next \/ UNCHANGED OutboxVars
<1>1. ASSUME NEW p \in Publishers, Begin(p) \/ Work(p) \/ Hint(p) \/ Faults(p)
      PROVE  Box!Next \/ UNCHANGED OutboxVars
  <2>1. CASE \/ Begin(p) \/ AuditWho(p) \/ AuditEntry(p) \/ AuditLogFails(p)
             \/ ReadAuthor(p) \/ ReadAudience(p) \/ ReadPreferences(p)
             \/ ReadContacts(p) \/ InsertNotes(p) \/ InsertMails(p)
             \/ NotesRejected(p) \/ PublishFails(p) \/ HintsEnd(p)
    BY <2>1, StatementsAreHidden
  <2>2. CASE AuditCommit(p) \/ AuditCommitFails(p)
    BY <2>2, AuditRecords DEF Box!Next
  <2>3. CASE Commit(p) \/ CommitFails(p)
    BY <2>3, CommitDelivers DEF Box!Next
  <2>4. CASE Hint(p)
    BY <2>4, HintHints DEF Box!Next
  <2>5. CASE Vanish(p)
    <3>1. pc[p] \in {"who", "entry", "audit"} \/ Turn(pc[p]) \in {"recorded", "closed"}
      BY <2>5 DEF Vanish, InFlight, Turn
    <3>. QED
      BY <2>5, <3>1, AuditRecords, CommitDelivers, VanishHides DEF Box!Next
  <2>. QED
    BY <1>1, <2>1, <2>2, <2>3, <2>4, <2>5 DEF Work, Faults
<1>2. CASE Directory
  BY <1>2, DirectoryCloses DEF Box!Next
<1>3. CASE Terminated \/ UNCHANGED vars
  BY <1>3 DEF Terminated, vars, OutboxVars, Stage
<1>. QED
  BY <1>1, <1>2, <1>3 DEF Next

\* Every execution of the publishers, with their savepoints, locks, swallowed
\* failures and crashes, and with crm-backend at work in between, is an
\* execution of the atomic Outbox (AuditLogService.log,
\* NotificationService.publish, flush_realtime).
THEOREM OutboxImplemented == Spec => ImplementsOutbox
<1>1. Init => EachOnce /\ Box!Init
  BY DEF Init, EachOnce, Once, NoRows, Stage, Turn, Box!Init
<1>2. IInv /\ EachOnce /\ [Next]_vars =>
        EachOnce' /\ [Box!Next]_<<Stage, audit, notes, mails, hinted>>
  BY StepsOnce, StepIsOutboxStep DEF OutboxVars
<1>. QED
  BY <1>1, <1>2, NotifyInvariance, PTL DEF Spec, Box!Spec, ImplementsOutbox
=============================================================================
