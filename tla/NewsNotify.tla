---------------------------- MODULE NewsNotify ----------------------------
(***************************************************************************)
(* What a handler does with the CRM database once its own write is safe:   *)
(* AuditLogService.log and its commit, NotificationService.publish inside  *)
(* the caller's transaction, the commit, and flush_realtime (core/         *)
(* audit_log, core/notifications, core/realtime, and _audit and            *)
(* _notify_post_created of api/news/service.py).                           *)
(*                                                                         *)
(* A publisher is one such handler on a CRM session of its own.  Every     *)
(* statement is a step.  crm-backend, which owns the accounts, memberships *)
(* and preferences, changes them at any time in between.                   *)
(*                                                                         *)
(* publish is shared code with more callers than this service.  It is      *)
(* modelled for every argument its contract allows; the news board asks    *)
(* for INAPP, INFORMATIONAL, a community and no dedupe key.                *)
(*                                                                         *)
(* Abstracted: ids (a person stands for its app_user row, its Keycloak sub *)
(* and its Redis channel; a notification is named by publisher and person, *)
(* for a publisher inserts at most one for each), names and locales, and   *)
(* the two digests of the dedupe key, which is the tuple they are made of. *)
(***************************************************************************)
EXTENDS Naturals

CONSTANTS
    Publishers,    \* the handlers
    People,
    Communities,
    Roles,
    Addresses,
    Unusable,      \* blank addresses, or with a line break in them
    Null,
    Heads,         \* first segments of notification types
    Payloads,      \* data of notifications, and overriding dedupe keys
    Menu,          \* bound: what each publisher may ask for
    Directories,   \* bound: what the CRM tables hold at first
    MaxChanges     \* bound: how often crm-backend changes them

Channels == {"inapp", "email"}

\* notification_preference: "" is the prefix of the default row.
Preferences == [user : People, prefix : Heads \cup {""}, channel : Channels,
                off : BOOLEAN]

Memberships == [community : Communities, user : People, role : Roles]

\* Who acts, and what is published to whom: the members of a community (in
\* `roles', if any are given, and without `exclude') or explicit `users'.
Calls ==
    [actor : People, target : {"community", "users"}, users : SUBSET People,
     community : Communities, roles : SUBSET Roles,
     exclude : People \cup {Null},
     type : [head : Heads, event : {"published"}],
     category : {"transactional", "informational"},
     channels : SUBSET Channels, data : Payloads,
     override : Payloads \cup {Null}]

\* What crm-backend keeps: a member has an account.
DirectoryRows == [accounts : [People -> Addresses \cup {Null}],
                  members : SUBSET Memberships, prefs : SUBSET Preferences]

\* The rows of the tables, and what a publisher holds.
Keys == {<<o>> : o \in Payloads}
        \cup {<<k.type, u, k.data>> : k \in UNION {Menu[p] : p \in Publishers},
                                      u \in People}
AuditRows == [by : Publishers, user : People \cup {Null}]
NoteRows == [by : Publishers, user : People]
MailRows == [by : Publishers, user : People, key : Keys,
             to : Addresses \ Unusable, note : NoteRows \cup {Null}]
Flushes == [audit : SUBSET AuditRows, notes : SUBSET NoteRows,
            mails : SUBSET MailRows]
Findings == [who : People \cup {Null}, author : People \cup {Null},
             audience : SUBSET People, inapp : SUBSET People,
             email : SUBSET People, batch : SUBSET MailRows]

ASSUME NullAssumption ==
    /\ Null \notin People \cup Addresses \cup Payloads \cup Calls
    /\ Null \notin NoteRows

ASSUME BoundsAssumption ==
    /\ Unusable \subseteq Addresses
    /\ MaxChanges \in Nat
    /\ \A p \in Publishers : Menu[p] \subseteq Calls
    /\ "" \notin Heads

ASSUME DirectoriesAssumption ==
    /\ Directories \subseteq DirectoryRows
    /\ \A d \in Directories : \A m \in d.members : d.accounts[m.user] # Null

VARIABLES
    dir,       \* tables app_user, community_user, notification_preference
    audit,     \* table audit_log
    notes,     \* table notification
    mails,     \* table outbound_message
    pc,        \* where each publisher is
    call,      \* what it asks for
    found,     \* what it has read: author's ids, audience, contacts
    flushed,   \* the rows it has flushed and not committed
    staged,    \* _pending_realtime: whom it will send a hint
    hinted,    \* whom it has sent one
    changes,   \* how often the directory has changed
    start,     \* history: the directory when the publisher began
    touched,   \* history: whose rows of it have changed since
    outcome,   \* history: what became of the publish
    committed  \* history: the publishers whose last CRM commit succeeded

vars == <<dir, audit, notes, mails, pc, call, found, flushed, staged, hinted,
          changes, start, touched, outcome, committed>>
tables == <<audit, notes, mails>>
outside == <<dir, changes, start, touched>>

NoRows == [audit |-> {}, notes |-> {}, mails |-> {}]

NothingFound == [who |-> Null, author |-> Null, audience |-> {}, inapp |-> {},
                 email |-> {}, batch |-> {}]

----------------------------------------------------------------------------
(* Rules *)

\* Most specific wins: the row of the type's head beats the default row.
Muted(k, prefs, u, c) ==
    LET rows == {x \in prefs : x.user = u /\ x.channel = c
                                 /\ x.prefix \in {"", k.type.head}}
    IN \E x \in rows : /\ x.off
                       /\ x.prefix = "" =>
                             \A y \in rows : y.prefix = ""

\* Mutant: the default row mutes even if the type's own row does not.
WantingByAnyRow(k, prefs, audience, c) ==
    {u \in audience : /\ c \in k.channels
                      /\ k.category = "informational" =>
                            \A x \in prefs : x.user = u /\ x.channel = c
                                             /\ x.prefix \in {"", k.type.head} => ~x.off}

\* _effective_channels. TRANSACTIONAL overrides the preferences.
Wanting(k, prefs, audience, c) ==
    {u \in audience : /\ c \in k.channels
                      /\ k.category = "informational" => ~Muted(k, prefs, u, c)}

\* find_community_recipient_ids
Members(k, members, excluded) ==
    {u \in People \ {excluded} :
        \E m \in members : /\ m.user = u /\ m.community = k.community
                           /\ k.roles # {} => m.role \in k.roles}

\* build_dedupe_key. The channel of a key is always EMAIL.
DedupeKey(k, u) ==
    IF k.override # Null THEN <<k.override>> ELSE <<k.type, u, k.data>>

Note(p, u) == [by |-> p, user |-> u]

\* Mutant: a queued mail is linked to a notification even if there is none.
MailsLinkedBlindly(p, accounts) ==
    {[by |-> p, user |-> u, key |-> DedupeKey(call[p], u), to |-> accounts[u],
      note |-> Note(p, u)] :
        u \in {v \in found[p].email : /\ accounts[v] # Null
                                      /\ accounts[v] \notin Unusable}}

\* Mutant: the address is not checked.
MailsToAnyAddress(p, accounts) ==
    {[by |-> p, user |-> u, key |-> DedupeKey(call[p], u), to |-> accounts[u],
      note |-> IF u \in found[p].inapp THEN Note(p, u) ELSE Null] :
        u \in {v \in found[p].email : accounts[v] # Null}}

\* The rows _enqueue_email builds, from the contacts in `accounts'.
MailsFor(p, accounts) ==
    {[by |-> p, user |-> u, key |-> DedupeKey(call[p], u), to |-> accounts[u],
      note |-> IF u \in found[p].inapp THEN Note(p, u) ELSE Null] :
        u \in {v \in found[p].email : /\ accounts[v] # Null
                                      /\ accounts[v] \notin Unusable}}

----------------------------------------------------------------------------
Init ==
    /\ dir \in Directories
    /\ audit = {} /\ notes = {} /\ mails = {}
    /\ pc = [p \in Publishers |-> "idle"]
    /\ call = [p \in Publishers |-> Null]
    /\ found = [p \in Publishers |-> NothingFound]
    /\ flushed = [p \in Publishers |-> NoRows]
    /\ staged = [p \in Publishers |-> {}]
    /\ hinted = [p \in Publishers |-> {}]
    /\ changes = 0
    /\ start = [p \in Publishers |-> dir]
    /\ touched = [p \in Publishers |-> {}]
    /\ outcome = [p \in Publishers |-> "none"]
    /\ committed = {}

Goto(p, where) == pc' = [pc EXCEPT ![p] = where]

Flush(p, rows) == flushed' = [flushed EXCEPT ![p] = rows]

Begin(p) ==
    /\ pc[p] = "idle"
    /\ \E k \in Menu[p] : call' = [call EXCEPT ![p] = k]
    /\ start' = [start EXCEPT ![p] = dir]
    /\ Goto(p, "who")
    /\ UNCHANGED <<dir, changes, touched, tables, found, flushed, staged,
                   hinted, outcome, committed>>

\* Steps that only read, or only flush.
Quiet == UNCHANGED <<outside, call, staged, hinted, outcome, committed>>

----------------------------------------------------------------------------
(* AuditLogService.log, and the commit of _audit *)

AuditWho(p) ==
    /\ pc[p] = "who"
    /\ found' = [found EXCEPT ![p].who = IF dir.accounts[call[p].actor] # Null
                                         THEN call[p].actor ELSE Null]
    /\ Goto(p, "entry")
    /\ Quiet /\ UNCHANGED <<tables, flushed>>

AuditEntry(p) ==
    /\ pc[p] = "entry"
    /\ flushed' = [flushed EXCEPT ![p].audit = {[by |-> p, user |-> found[p].who]}]
    /\ Goto(p, "audit")
    /\ Quiet /\ UNCHANGED <<tables, found>>

\* Swallowed. The savepoint, or the aborted transaction, leaves nothing.
AuditLogFails(p) ==
    /\ pc[p] \in {"who", "entry"}
    /\ Goto(p, "audit")
    /\ Quiet /\ UNCHANGED <<tables, found, flushed>>

AuditCommit(p) ==
    /\ pc[p] = "audit"
    /\ audit' = audit \cup flushed[p].audit
    /\ Flush(p, NoRows)
    /\ Goto(p, "author")
    /\ Quiet /\ UNCHANGED <<notes, mails, found>>

\* Swallowed; the server may have committed before the connection was lost.
\* Nobody rolls the session back, so it refuses every statement from here on:
\* the publish fails, its commit fails, and there is no hint to send.
AuditCommitFails(p) ==
    /\ pc[p] = "audit"
    /\ audit' \in {audit, audit \cup flushed[p].audit}
    /\ Flush(p, NoRows)
    /\ outcome' = [outcome EXCEPT ![p] = "lost"]
    /\ Goto(p, "done")
    /\ UNCHANGED <<outside, call, staged, hinted, committed, notes, mails,
                   found>>

----------------------------------------------------------------------------
(* NotificationService.publish *)

\* The excluded author's id, if there is an account for the sub.
ReadAuthor(p) ==
    LET x == call[p].exclude
    IN /\ pc[p] = "author"
       /\ found' = [found EXCEPT ![p].author =
                       IF x # Null /\ dir.accounts[x] # Null THEN x ELSE Null]
       /\ Goto(p, "audience")
       /\ Quiet /\ UNCHANGED <<tables, flushed>>

ReadAudience(p) ==
    LET k == call[p]
        audience == IF k.target = "users" THEN k.users
                    ELSE Members(k, dir.members, found[p].author)
    IN /\ pc[p] = "audience"
       /\ found' = [found EXCEPT ![p].audience = audience]
       /\ Goto(p, IF audience = {} THEN "commit" ELSE "channels")
       /\ Quiet /\ UNCHANGED <<tables, flushed>>

ReadPreferences(p) ==
    LET wanting(c) == Wanting(call[p], dir.prefs, found[p].audience, c)
    IN /\ pc[p] = "channels"
       /\ found' = [found EXCEPT ![p].inapp = wanting("inapp"),
                                 ![p].email = wanting("email")]
       /\ Goto(p, IF wanting("inapp") \cup wanting("email") = {}
                  THEN "commit" ELSE "notes")
       /\ Quiet /\ UNCHANGED <<tables, flushed>>

\* Mutant: the hint is staged while mails are still to be queued.
StagesEarly(next) == TRUE

\* The hint is staged behind the savepoint.
Stages(next) == next = "commit"

\* insert_many, in the savepoint. The rows share their accounts' rows.
InsertNotes(p) ==
    LET next == IF found[p].email = {} THEN "commit" ELSE "contacts"
    IN /\ pc[p] = "notes"
       /\ \A u \in found[p].inapp : dir.accounts[u] # Null
       /\ flushed' = [flushed EXCEPT ![p].notes =
                         {Note(p, u) : u \in found[p].inapp}]
       /\ staged' = IF Stages(next)
                    THEN [staged EXCEPT ![p] = found[p].inapp] ELSE staged
       /\ Goto(p, next)
       /\ UNCHANGED <<outside, call, hinted, outcome, committed, tables, found>>

\* Mutant: the in-app rows are outside the savepoint and survive it.
KeepsNotes(p) == [NoRows EXCEPT !.notes = flushed[p].notes]

\* What is left of a publish that raised: the savepoint is rolled back.
Rollback(p) == NoRows

Swallow(p) ==
    /\ Flush(p, Rollback(p))
    /\ outcome' = [outcome EXCEPT ![p] = "lost"]
    /\ Goto(p, "commit")
    /\ UNCHANGED <<outside, call, staged, hinted, committed, tables, found>>

\* The foreign key of one recipient whose account is gone.
NotesRejected(p) ==
    /\ pc[p] = "notes"
    /\ \E u \in found[p].inapp : dir.accounts[u] = Null
    /\ Swallow(p)

ReadContacts(p) ==
    /\ pc[p] = "contacts"
    /\ found' = [found EXCEPT ![p].batch = MailsFor(p, dir.accounts)]
    /\ Goto(p, "mails")
    /\ Quiet /\ UNCHANGED <<tables, flushed>>

\* Mutant: a key stays locked when its publisher has finished.
LockedForGood(p, key) ==
    \E q \in Publishers \ {p} : \E m \in found[q].batch : m.key = key

\* Mutant: the key is looked up among the committed rows only.
NeverLocked(p, key) == FALSE

\* An insert waits for the outcome of an uncommitted row with its key.
KeyLocked(p, key) ==
    \E q \in Publishers \ {p} : \E m \in flushed[q].mails : m.key = key

\* Mutant: a key that another publisher has flushed counts as queued,
\* and the insert does not wait.
SkipsUncommitted(p, batch, S) ==
    LET queued == mails \cup UNION {flushed[q].mails : q \in Publishers}
    IN /\ S \subseteq {m \in batch : \A x \in queued : x.key # m.key}
       /\ \A m, n \in S : m.key = n.key => m = n
       /\ \A m \in batch : \E x \in S \cup queued : x.key = m.key

\* ON CONFLICT (dedupe_key) DO NOTHING: one new row for each key of the batch
\* that is not in the table.
NewMails(p, batch, S) ==
    /\ \A m \in batch : ~KeyLocked(p, m.key)
    /\ S \subseteq {m \in batch : \A x \in mails : x.key # m.key}
    /\ \A m, n \in S : m.key = n.key => m = n
    /\ \A m \in batch : \E x \in S \cup mails : x.key = m.key

InsertMails(p) ==
    /\ pc[p] = "mails"
    /\ \E S \in SUBSET found[p].batch :
          /\ NewMails(p, found[p].batch, S)
          /\ flushed' = [flushed EXCEPT ![p].mails = S]
    /\ staged' = [staged EXCEPT ![p] = found[p].inapp]
    /\ Goto(p, "commit")
    /\ UNCHANGED <<outside, call, hinted, outcome, committed, tables, found>>

\* Any statement of publish may raise; nothing reaches the caller.
PublishFails(p) ==
    /\ pc[p] \in {"author", "audience", "channels", "notes", "contacts", "mails"}
    /\ Swallow(p)

----------------------------------------------------------------------------
(* The commit of _notify_post_created, and flush_realtime *)

Land(p) ==
    /\ notes' = notes \cup flushed[p].notes
    /\ mails' = mails \cup flushed[p].mails
    /\ audit' = audit \cup flushed[p].audit

Conclude(p, status) ==
    outcome' = [outcome EXCEPT ![p] = IF @ = "none" THEN status ELSE @]

Commit(p) ==
    /\ pc[p] = "commit"
    /\ Land(p)
    /\ Flush(p, NoRows)
    /\ Conclude(p, "landed")
    /\ committed' = committed \cup {p}
    /\ Goto(p, "hints")
    /\ UNCHANGED <<outside, call, staged, hinted, found>>

\* Mutant: a commit whose outcome is unknown is tried again.
CommitRetried(p) ==
    /\ pc[p] = "commit"
    /\ Land(p) \/ UNCHANGED tables
    /\ UNCHANGED <<outside, pc, call, staged, hinted, found, committed, flushed,
                   outcome>>

\* Swallowed: the server may or may not have committed.
CommitFails(p) ==
    /\ pc[p] = "commit"
    /\ Land(p) \/ UNCHANGED tables
    /\ Flush(p, NoRows)
    /\ Conclude(p, "unsure")
    /\ Goto(p, "hints")
    /\ UNCHANGED <<outside, call, staged, hinted, found, committed>>

Hint(p) ==
    /\ pc[p] = "hints"
    /\ \E u \in staged[p] :
          /\ staged' = [staged EXCEPT ![p] = @ \ {u}]
          /\ hinted' = [hinted EXCEPT ![p] = @ \cup {u}]
    /\ UNCHANGED <<outside, call, outcome, committed, tables, found, flushed, pc>>

\* All hints are sent, or realtime is off, or Redis fails or is too slow.
HintsEnd(p) ==
    /\ pc[p] = "hints"
    /\ staged' = [staged EXCEPT ![p] = {}]
    /\ Goto(p, "done")
    /\ UNCHANGED <<outside, call, hinted, outcome, committed, tables, found,
                   flushed>>

InFlight == {"who", "entry", "audit", "author", "audience", "channels",
             "notes", "contacts", "mails", "commit", "hints"}

\* The handler is cancelled or its process dies. A commit that is under way
\* may still take effect.
Vanish(p) ==
    /\ pc[p] \in InFlight
    /\ UNCHANGED tables \/ (pc[p] \in {"audit", "commit"} /\ Land(p))
    /\ Flush(p, NoRows)
    /\ staged' = [staged EXCEPT ![p] = {}]
    /\ Conclude(p, "unsure")
    /\ Goto(p, "gone")
    /\ UNCHANGED <<outside, call, hinted, found, committed>>

----------------------------------------------------------------------------
(* crm-backend *)

\* One transaction of crm-backend that concerns u.
Change(u, new) ==
    /\ changes < MaxChanges
    /\ changes' = changes + 1
    /\ dir' = new
    /\ touched' = [p \in Publishers |->
                     IF pc[p] = "idle" THEN {} ELSE touched[p] \cup {u}]
    /\ UNCHANGED <<audit, pc, call, found, flushed, staged, hinted, start,
                   outcome, committed>>

\* An account is created, or its address changes.
SaveAccount(u, address) ==
    /\ Change(u, [dir EXCEPT !.accounts[u] = address])
    /\ UNCHANGED <<notes, mails>>

\* Deleting an account cascades to its memberships, preferences and
\* notifications, and unlinks its mails. It waits for whoever shares the row.
CloseAccount(u) ==
    /\ dir.accounts[u] # Null
    /\ \A p \in Publishers : Note(p, u) \notin flushed[p].notes
    /\ Change(u, [accounts |-> [dir.accounts EXCEPT ![u] = Null],
                  members |-> {m \in dir.members : m.user # u},
                  prefs |-> {x \in dir.prefs : x.user # u}])
    /\ notes' = {n \in notes : n.user # u}
    /\ mails' = {IF m.user = u THEN [m EXCEPT !.note = Null] ELSE m : m \in mails}

Join(m) ==
    /\ dir.accounts[m.user] # Null
    /\ \A x \in dir.members : x.user = m.user => x.community # m.community
    /\ Change(m.user, [dir EXCEPT !.members = @ \cup {m}])
    /\ UNCHANGED <<notes, mails>>

Leave(m) ==
    /\ m \in dir.members
    /\ Change(m.user, [dir EXCEPT !.members = @ \ {m}])
    /\ UNCHANGED <<notes, mails>>

Prefer(x) ==
    LET others == {y \in dir.prefs : \/ y.user # x.user \/ y.prefix # x.prefix
                                     \/ y.channel # x.channel}
    IN /\ dir.accounts[x.user] # Null
       /\ Change(x.user, [dir EXCEPT !.prefs = others \cup {x}])
       /\ UNCHANGED <<notes, mails>>

\* A publisher may reach the end of its handler by itself.
Work(p) ==
    \/ AuditWho(p) \/ AuditEntry(p) \/ AuditCommit(p)
    \/ ReadAuthor(p) \/ ReadAudience(p) \/ ReadPreferences(p)
    \/ InsertNotes(p) \/ NotesRejected(p) \/ ReadContacts(p) \/ InsertMails(p)
    \/ Commit(p) \/ HintsEnd(p)

Faults(p) ==
    AuditLogFails(p) \/ AuditCommitFails(p) \/ PublishFails(p)
    \/ CommitFails(p) \/ Vanish(p)

Directory ==
    \/ \E u \in People : \/ \E address \in Addresses : SaveAccount(u, address)
                         \/ CloseAccount(u)
    \/ \E m \in Memberships : Join(m) \/ Leave(m)
    \/ \E x \in Preferences : Prefer(x)

Terminated == (\A p \in Publishers : pc[p] \in {"done", "gone"})
              /\ UNCHANGED vars

Next ==
    \/ \E p \in Publishers : Begin(p) \/ Work(p) \/ Hint(p) \/ Faults(p)
    \/ Directory
    \/ Terminated

Spec == Init /\ [][Next]_vars

\* The event loop resumes every handler whose statement has returned.
FairSpec == Spec /\ \A p \in Publishers : WF_vars(Work(p))

----------------------------------------------------------------------------
(* Properties *)

\* Every variable keeps its type: in particular only usable addresses are
\* queued (_enqueue_email).
TypeOK ==
    /\ dir \in DirectoryRows
    /\ audit \subseteq AuditRows /\ notes \subseteq NoteRows
    /\ mails \subseteq MailRows
    /\ pc \in [Publishers -> InFlight \cup {"idle", "done", "gone"}]
    /\ call \in [Publishers -> Calls \cup {Null}]
    /\ \A p \in Publishers : call[p] \in Menu[p] \cup {Null}
    /\ found \in [Publishers -> Findings]
    /\ flushed \in [Publishers -> Flushes]
    /\ staged \in [Publishers -> SUBSET People]
    /\ hinted \in [Publishers -> SUBSET People]
    /\ changes \in 0 .. MaxChanges
    /\ start \in [Publishers -> DirectoryRows]
    /\ touched \in [Publishers -> SUBSET People]
    /\ outcome \in [Publishers -> {"none", "landed", "lost", "unsure"}]
    /\ committed \subseteq Publishers

\* Whom p is addressed to, by the directory when p began.
Invited(p, u) ==
    LET k == call[p]
    IN \/ k.target = "users" /\ u \in k.users
       \/ /\ k.target = "community" /\ u # k.exclude
          /\ \E m \in start[p].members :
                /\ m.user = u /\ m.community = k.community
                /\ k.roles = {} \/ m.role \in k.roles

\* Whom p ought to reach through channel c.
Entitled(p, u, c) ==
    /\ c \in call[p].channels
    /\ Invited(p, u)
    /\ call[p].category = "transactional" \/ ~Muted(call[p], start[p].prefs, u, c)

Addressable(p, u) ==
    start[p].accounts[u] # Null /\ start[p].accounts[u] \notin Unusable

\* A mail that tells u what p publishes: it has the key that p gives a mail
\* to u, which names u unless p overrides it.
IsFor(m, p, u) ==
    /\ m.key = DedupeKey(call[p], u)
    /\ call[p].override = Null => m.user = u

\* p reaches exactly the entitled, but for those whom crm-backend changed
\* while p was at work.
Reaches(p) ==
    \A u \in People \ touched[p] :
       /\ Note(p, u) \in notes <=> Entitled(p, u, "inapp")
       /\ Entitled(p, u, "email") /\ Addressable(p, u) =>
             \E m \in mails : IsFor(m, p, u)
       /\ \A m \in mails : m.by = p /\ m.user = u => Entitled(p, u, "email")

\* A publish that went through and was committed has notified exactly the
\* members (or the people named), without the author and without those who
\* muted the type (NotificationService.publish), although the author, the
\* members, the preferences and the contacts are read one after the other.
\* Each who is to get a mail has one queued to their own address, by p or by
\* an earlier publish of the same type and data; only of a publish with a
\* dedupe key of its own no more holds than that one mail with that key is
\* queued, whoever of the audience it is for: not the row per addressee that
\* _enqueue_email promises, since OneMailPerKey.
LandedReaches == \A p \in Publishers : outcome[p] = "landed" => Reaches(p)

\* In-app rows and queued mails of a publish land or vanish together: if any
\* row of p is there, whatever failed or crashed, all are that LandedReaches
\* speaks of (the one savepoint of publish, and the commit).
AllOrNothing ==
    \A p \in Publishers :
       (\E x \in notes \cup mails : x.by = p) => Reaches(p)

\* One mail for each dedupe key, even if two publishers queue it at once
\* (insert_outbound).
OneMailPerKey == \A m, n \in mails : m.key = n.key => m = n

\* A queued mail that names a notification names one that exists, of the same
\* publish and the same person (id_notification in _enqueue_email).
LinkedMails ==
    \A m \in mails : m.note # Null => /\ m.note \in notes
                                      /\ m.note = Note(m.by, m.user)

\* Hints go to the people who got a row and to nobody else, except that a
\* commit whose outcome is unknown is announced all the same (publish stages
\* the audience it inserted for; flush_realtime follows the commit).
HintsMatchRows ==
    \A p \in Publishers : \A u \in People \ touched[p] :
       /\ u \in hinted[p] => Note(p, u) \in notes \/ outcome[p] = "unsure"
       /\ pc[p] = "hints" /\ Note(p, u) \in notes =>
             u \in hinted[p] \cup staged[p]

\* Which turn of the outbox a statement belongs to.
Turn(where) ==
    IF where \in {"idle", "who", "entry", "audit"} THEN "new"
    ELSE IF where \in {"hints", "done", "gone"} THEN "closed" ELSE "recorded"

Stage == [p \in Publishers |-> Turn(pc[p])]

Box == INSTANCE Outbox WITH stage <- Stage

\* The publishers, their savepoints, locks, swallowed failures and crashes
\* implement the atomic Outbox: each records at most one audit entry, then
\* delivers at most once, rows and mails together and no key again, and sends
\* hints only after that, one for a person (AuditLogService.log,
\* NotificationService.publish, flush_realtime).
ImplementsOutbox == Box!Spec

\* Every publisher gets to the end of its handler: it waits for another's
\* dedupe key at most, and nothing that fails stops it.
PublishEnds ==
    \A p \in Publishers : (pc[p] = "who") ~> (pc[p] \in {"done", "gone"})

\* As documented (refuted): "the business write committed => the message is
\* queued" is an invariant rather than a hope (OutboundMessageModel).
CommittedMeansQueued ==
    \A p \in committed : \A u \in People \ touched[p] :
       Entitled(p, u, "email") /\ Addressable(p, u) =>
          \E m \in mails : m.key = DedupeKey(call[p], u)
=============================================================================
