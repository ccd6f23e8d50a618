--------------------------- MODULE Collaboration ---------------------------
(***************************************************************************)
(* What people do around a case, in a database of its own                  *)
(* (DisputeCollaborationService): an append-only journal of messages, read *)
(* marks, reminders and handoffs; the scan that escalates a handoff whose  *)
(* follow-up is due; uploads, which store a file here and register it with *)
(* the command engine. The newest snapshot of a handoff in the journal is  *)
(* what it is. Each case has two journals, for the case and for the staff; *)
(* one of them is modelled.                                                *)
(***************************************************************************)
EXTENDS EngineView

CONSTANTS Staff, Supervisors,   \* who handles handoffs
          Requests,    \* commands of the staff: [id, actor, action, case, handoff]
          Uploads,     \* uploads of files: [id, case, file, item]; the item of
                       \* another upload is one it replaces
          MaxTime,     \* bound: follow-ups fall due at 1 .. MaxTime
          NoObject

Assessments == {"INSUFFICIENT", "SUPPORTED", "NEEDS_MANUAL"}

Check == [extracted : Assessments, status : Assessments]   \* of a file

ASSUME DeskAssumption ==
  /\ Supervisors \subseteq Staff /\ MaxTime \in Nat
  /\ \A q \in Requests :
       /\ q.actor \in Staff /\ q.case \in Cases
       /\ q.action \in {"CREATE", "CLAIM", "RESOLVE", "POST", "ASK"}
  /\ \A u, v \in Uploads : u.case \in Cases /\ (u.id = v.id => u = v)
  /\ NoObject \notin [object : Nat, check : Check, expected : Nat]

VARIABLES journal,     \* the events of a case
          receipts,    \* the commands that took effect on the journal
          cursors,     \* how far each of the staff has read
          stored,      \* the object stored for an upload
          objects,     \* how many files were ever stored
          uploads,     \* where each upload request is
          scan,        \* the snapshot the scan is about to escalate
          now

deskVars == <<journal, receipts, cursors, stored, objects, uploads, scan, now>>

Idle == [phase |-> "idle"]

DeskInit ==
  /\ journal = [c \in Cases |-> <<>>] /\ receipts = {}
  /\ cursors = [c \in Cases, a \in Staff |-> 0]
  /\ stored = [u \in Uploads |-> NoObject] /\ objects = 0
  /\ uploads = [u \in Uploads |-> Idle]
  /\ scan = Idle /\ now = 0

-----------------------------------------------------------------------------
(* The store: one command, one transaction, and its receipt.               *)

Receipted(id) == receipts \cup {id}

Effect(id, c, event) ==
  /\ id \notin receipts /\ receipts' = Receipted(id)
  /\ journal' = [journal EXCEPT ![c] = Append(@, event)]

Repeated(id) == id \in receipts /\ UNCHANGED <<receipts, journal>>

Write(id, c, event) == Effect(id, c, event) \/ Repeated(id)

Message(source, revision) == [kind |-> "MESSAGE", source |-> source, revision |-> revision]

-----------------------------------------------------------------------------
(* Handoffs.                                                               *)

Latest(c) ==
  {journal[c][i] : i \in {i \in DOMAIN journal[c] :
     /\ journal[c][i].kind = "HANDOFF"
     /\ \A k \in i + 1 .. Len(journal[c]) :
          ~(journal[c][k].kind = "HANDOFF" /\ journal[c][k].handoff = journal[c][i].handoff)}}

Unresolved(c) == {h \in Latest(c) : h.status # "RESOLVED"}

NewHandoff(id, reason, assignee) ==
  [kind |-> "HANDOFF", handoff |-> id, reason |-> reason, status |-> "OPEN",
   assignee |-> assignee, follow |-> now + 1, level |-> 0, act |-> "OPEN"]

(* create_handoff: one that is unresolved, for the same reason, is reused. *)
CreateHandoff(id, c, reason) ==
  \/ Repeated(id)
  \/ /\ \A h \in Unresolved(c) : h.reason # reason
     /\ \E a \in Staff : Effect(id, c, NewHandoff(id, reason, a))
  \/ /\ \E h \in Unresolved(c) : h.reason = reason
     /\ id \notin receipts /\ receipts' = Receipted(id) /\ UNCHANGED journal

MayHandle(a, h) == h.status # "RESOLVED" /\ (h.assignee = a \/ a \in Supervisors)

Claimed(h, a, follow) ==
  [h EXCEPT !.status = "CLAIMED", !.assignee = a, !.follow = follow, !.act = "CLAIM"]

(* update_handoff CLAIM, with another follow-up time or the same.          *)
Claim(q, h) ==
  /\ MayHandle(q.actor, h)
  /\ \E follow \in {h.follow, now + 1} : Effect(q.id, q.case, Claimed(h, q.actor, follow))

Resolve(q, h) ==
  /\ MayHandle(q.actor, h) /\ h.status = "CLAIMED"
  /\ Effect(q.id, q.case,
            [h EXCEPT !.status = "RESOLVED", !.assignee = q.actor, !.act = "RESOLVE"])

(* A request of the staff, for the first time or again. A message that asks *)
(* the agent is an "ASK" (AgentQuestions).                                 *)
Ask(q) ==
  /\ Revision(q.case) > 0
  /\ \/ q.action = "POST" /\ Write(q.id, q.case, Message(q.id, Revision(q.case)))
     \/ q.action = "CREATE" /\ CreateHandoff(q.id, q.case, "asked")
     \/ /\ q.action \in {"CLAIM", "RESOLVE"} /\ q.id \notin receipts
        /\ \E h \in Latest(q.case) :
             \/ q.action = "CLAIM" /\ Claim(q, h)
             \/ q.action = "RESOLVE" /\ Resolve(q, h)
  /\ UNCHANGED <<cursors, stored, objects, uploads, scan, now>>

(* mark_read: never back, and a read mark is not itself something to read. *)
Readable(c, upto) ==
  {i \in 1 .. upto : journal[c][i].kind # "READ"}

MarkRead(c, a, upto) ==
  LET seen == CHOOSE i \in Readable(c, upto) : \A k \in Readable(c, upto) : k <= i
  IN  /\ Readable(c, upto) # {} /\ seen > cursors[c, a]
      /\ cursors' = [cursors EXCEPT ![<<c, a>>] = seen]
      /\ journal' = [journal EXCEPT ![c] = Append(@, [kind |-> "READ", by |-> a, upto |-> seen])]
      /\ UNCHANGED <<receipts, stored, objects, uploads, scan, now>>

-----------------------------------------------------------------------------
(***************************************************************************)
(* tick: a handoff is read in one transaction and escalated in another;    *)
(* what is written is the snapshot that was read, with its level raised,   *)
(* whatever was done to the handoff in between.                            *)
(***************************************************************************)
Due(h) == h.follow <= now /\ h.level = 0

ScanHandoff(c) ==
  /\ scan = Idle /\ ~Closed(c)
  /\ \E h \in Unresolved(c) : Due(h) /\ scan' = [phase |-> "escalate", case |-> c, handoff |-> h]
  /\ UNCHANGED <<journal, receipts, cursors, stored, objects, uploads, now>>

EscalationKey(h) == <<"escalate", h.handoff, h.follow>>

Quietly(h) == [h EXCEPT !.act = "ESCALATE"]     \* slip: the level stays what it was

Raised(h) == [h EXCEPT !.level = 1, !.act = "ESCALATE"]

Escalate ==
  /\ scan.phase = "escalate"
  /\ Write(EscalationKey(scan.handoff), scan.case,
           Raised(scan.handoff))
  /\ scan' = Idle
  /\ UNCHANGED <<cursors, stored, objects, uploads, now>>

(* A stage whose deadline has passed is reminded of once, and handed over. *)
Overdue(c) == Revision(c) > 0 /\ ~Closed(c) /\ now = MaxTime

Remind(c) ==
  /\ scan = Idle /\ Overdue(c)
  /\ Write(<<"deadline", Stage(c)>>, c, [kind |-> "REMINDER", stage |-> Stage(c)])
  /\ scan' = [phase |-> "remind", case |-> c, stage |-> Stage(c)]
  /\ UNCHANGED <<cursors, stored, objects, uploads, now>>

HandOver ==
  /\ scan.phase = "remind"
  /\ CreateHandoff(<<"deadline-handoff", scan.stage>>, scan.case, "overdue")
  /\ scan' = Idle
  /\ UNCHANGED <<cursors, stored, objects, uploads, now>>

TimePasses ==
  /\ now < MaxTime /\ now' = now + 1
  /\ UNCHANGED <<journal, receipts, cursors, stored, objects, uploads, scan>>

-----------------------------------------------------------------------------
(***************************************************************************)
(* Files: [name, form, legible, agrees, known]. What is in a file agrees   *)
(* with the case or not; known is whether there is a check for the kind of *)
(* evidence it is sent as.                                                 *)
(***************************************************************************)

(* _parse_file: structured text that cannot be read is refused. A document *)
(* is kept whatever it is.                                                 *)
Parsed(f) == f.form = "DOCUMENT" \/ f.legible

(* read_document: what a reader or a model makes of a document may be      *)
(* wrong; of one that nobody can read it makes nothing.                    *)
Extractions(f) ==
  CASE f.form = "TEXT"                  -> {f.agrees}
    [] f.form = "DOCUMENT" /\ f.legible -> BOOLEAN
    [] OTHER                            -> {FALSE}

Assess(agrees, f) ==
  IF ~agrees THEN "INSUFFICIENT" ELSE IF f.known THEN "SUPPORTED" ELSE "NEEDS_MANUAL"

(* A document is always for a person to check.                             *)
ContentChecks(f) ==
  {[extracted |-> Assess(x, f),
    status |-> IF f.form = "DOCUMENT" THEN "NEEDS_MANUAL" ELSE Assess(x, f)] :
     x \in Extractions(f)}

-----------------------------------------------------------------------------
(***************************************************************************)
(* upload_file. A client sends the revision it saw; the file is read,      *)
(* checked and stored here, once per command, and then registered by the   *)
(* command engine under the same command, for an item of its own or in     *)
(* place of the file of another. Withdrawal is left out.                   *)
(***************************************************************************)
Registered(c) == {k \in Entries(c) : k.action = "REGISTER_EVIDENCE"}

UploadOf(k) == CHOOSE u \in Uploads : k.id = <<"upload", u.id>>
ItemOf(k) == UploadOf(k).item
FileOf(k) == UploadOf(k).file

Replaces(u) == u.item # u.id

(* Of the registrations of an item the last one counts.                    *)
InUse(c) ==
  {k \in Registered(c) :
     \A m \in Registered(c) : ItemOf(m) = ItemOf(k) => m.expected <= k.expected}

(* The same document again, in its own place, is a try at reading it anew. *)
ReadAnew(u, k) == u.file.form = "DOCUMENT" /\ Replaces(u) /\ ItemOf(k) = u.item

(* The case is read: no other file in use may hold this content already.   *)
BeginUpload(u, expected) ==
  /\ uploads[u] = Idle /\ expected \in 1 .. Revision(u.case) /\ Parsed(u.file)
  /\ stored[u] # NoObject => stored[u].expected = expected
  /\ uploads' = [uploads EXCEPT ![u] =
       [phase |-> "store", expected |-> expected,
        clear |-> \A k \in InUse(u.case) :
                    UploadOf(k) = u \/ FileOf(k) # u.file \/ ReadAnew(u, k)]]
  /\ UNCHANGED <<journal, receipts, cursors, stored, objects, scan, now>>

StoredOnce(u) ==
  IF stored[u] = NoObject
  THEN /\ objects' = objects + 1
       /\ \E check \in ContentChecks(u.file) :
            stored' = [stored EXCEPT ![u] = [object |-> objects + 1, check |-> check,
                                            expected |-> uploads[u].expected]]
  ELSE UNCHANGED <<stored, objects>>

StoreFile(u) ==
  /\ uploads[u].phase = "store" /\ StoredOnce(u)
  /\ uploads' = [uploads EXCEPT ![u] =
                   IF uploads[u].clear THEN [@ EXCEPT !.phase = "register"] ELSE Idle]
  /\ UNCHANGED <<journal, receipts, cursors, scan, now>>

CurrentRevision(u) == Revision(u.case)   \* slip: the revision is read when it registers

SentRevision(u) == uploads[u].expected

Registration(u) ==
  [id |-> <<"upload", u.id>>, action |-> "REGISTER_EVIDENCE", case |-> u.case,
   event |-> NoEvent, content |-> stored[u], expected |-> SentRevision(u)]

EndUpload(u) ==
  /\ uploads' = [uploads EXCEPT ![u] = Idle]
  /\ UNCHANGED <<journal, receipts, cursors, stored, objects, scan, now>>

Register(u) ==
  /\ uploads[u].phase = "register"
  /\ Replaces(u) => \E k \in Registered(u.case) : ItemOf(k) = u.item
  /\ Executed(Registration(u)) /\ EndUpload(u)

(* Registered before, refused, or cut off.                                 *)
UploadEnds(u) ==
  uploads[u] # Idle /\ EndUpload(u)

-----------------------------------------------------------------------------
StaffStep ==
  \/ \E q \in Requests : Ask(q)
  \/ \E c \in Cases, a \in Staff : \E upto \in DOMAIN journal[c] : MarkRead(c, a, upto)

ScanStep ==
  \/ \E c \in Cases : ScanHandoff(c) \/ Remind(c)
  \/ Escalate
  \/ HandOver

FileStep ==
  \E u \in Uploads :
    \/ \E expected \in 1 .. MaxRevision : BeginUpload(u, expected)
    \/ StoreFile(u)
    \/ UploadEnds(u)

-----------------------------------------------------------------------------
Escalations(c) == {i \in DOMAIN journal[c] :
                     journal[c][i].kind = "HANDOFF" /\ journal[c][i].act = "ESCALATE"}

(***************************************************************************)
(* The scan escalates a handoff once, whatever follow-up it is given later *)
(* and whatever is done to it between the read and the write.              *)
(***************************************************************************)
EscalatedOnce ==
  \A c \in Cases : \A i, k \in Escalations(c) :
    journal[c][i].handoff = journal[c][k].handoff => i = k

(***************************************************************************)
(* A file is in use once: whatever is retried, cut off or sent at the same *)
(* time, an upload stores one object with one reading of it, no other is   *)
(* registered under its command, and no two items hold the same file.      *)
(***************************************************************************)
FilesOnce ==
  \A c \in Cases :
    /\ \A k \in Registered(c) : stored[UploadOf(k)] = k.content
    /\ \A k, m \in InUse(c) : m # k => FileOf(m) # FileOf(k)
=============================================================================
