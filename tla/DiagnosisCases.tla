--------------------------- MODULE DiagnosisCases ---------------------------
(***************************************************************************)
(* The diagnosis of one payment incident (application/case_service.py over *)
(* adapters/persistence/sqlite.py): evidence is added and the case is      *)
(* diagnosed by requests served at the same time. A request reads in       *)
(* transactions of their own what it then writes in one transaction that   *)
(* compares revisions. A diagnosis is numbered by its place in the table.  *)
(***************************************************************************)
EXTENDS EvidencePolicy, Sequences

CONSTANTS Threads,          \* requests served at a time
          Calls,            \* what they ask for
          Starts,           \* the evidence a case begins with
          Policies,         \* the policy versions released, in their order
          MaxCalls,         \* requests in all
          None

Statuses == {"NEED_INFO", "EVIDENCE_READY", "DIAGNOSED", "HUMAN_REVIEW"}

Row == [status : Statuses, revision : Nat, evidenceRevision : Nat, readiness : Readings,
        current : Nat \cup {None}]

ASSUME NullAssumption ==
  /\ None \notin Nat /\ None \notin Row
  /\ None # [code |-> "INVARIANT_VIOLATED", view |-> None, diagnosis |-> None]

ASSUME StartAssumption ==
  \A start \in Starts : start # None =>
    /\ IsFiniteSet(start) /\ \A i \in start : Fits(i)
    /\ Cardinality({i.id : i \in start}) = Cardinality(start)

ASSUME PolicyAssumption == Policies \in Seq(STRING) /\ Policies # <<>>

VARIABLES case,             \* the row of the case
          evidence,         \* evidence_items
          diagnoses,        \* diagnosis_snapshots
          trail,            \* audit_events, one batch per transaction
          release,          \* the number of the policy version in use
          request,          \* the request each thread serves, or served last
          calls,            \* requests begun
          past              \* every view the case went through, by revision

vars == <<case, evidence, diagnoses, trail, release, request, calls, past>>

Diagnosed == {"DIAGNOSED", "HUMAN_REVIEW"}

StatusAfterEvidence(r) == IF Ready(r) THEN "EVIDENCE_READY" ELSE "NEED_INFO"
StatusAfterDiagnosis(d) == IF d.human THEN "HUMAN_REVIEW" ELSE "DIAGNOSED"

-----------------------------------------------------------------------------
(* The rows. Storing a draft keeps what it says; loading it, and writing   *)
(* it, demand that its parts agree.                                        *)
Canonical(i) == Fits(i)

DraftSound(d) ==
  /\ d.human <=> d.reasons # {}
  /\ Cardinality(d.routes) = Cardinality(d.tickets)
  /\ IF d.routes = {}
     THEN d.hypotheses = {} /\ d.reasons \in {{"POLICY_GAP"}, {"CONFLICTING_EVIDENCE"}}
     ELSE /\ Cardinality(d.hypotheses) = 1
          /\ d.reasons \intersect {"POLICY_GAP", "CONFLICTING_EVIDENCE"} = {}
          /\ \A r \in d.routes, t \in d.tickets, h \in d.hypotheses :
               /\ r.human = d.human /\ r.reasons = d.reasons /\ r.refs = h.refs
               /\ t.team = r.team /\ t.hypotheses = {h}

Referenced(d) == (UNION {h.refs : h \in d.hypotheses}) \union (UNION {r.refs : r \in d.routes})

InsertCase(row) == case' = row

InsertEvidence(items, i) == items \union {i}

(* One snapshot for an evidence revision and a policy: the table's key.    *)
InsertDiagnosis(table, d) == Append(table, d)

\* slip: only the first event of a transaction is written
InsertFirst(events) == trail' = Append(trail, <<Head(events)>>)

InsertAudit(events) == trail' = Append(trail, events)

LoadDiagnosis(table, n) == table[n]

View(row, items, table) ==
  [row |-> row, evidence |-> items,
   diagnosis |-> IF row.current = None THEN None ELSE LoadDiagnosis(table, row.current)]

Stored == View(case, evidence, diagnoses)

(* What every load checks of the rows it read.                             *)
Sound(v) ==
  /\ \A i \in v.evidence : Canonical(i)
  /\ v.row.current # None => DraftSound(v.diagnosis.draft)
  /\ v.row.evidenceRevision = Cardinality(v.evidence)
  /\ v.row.revision >= v.row.evidenceRevision + 1
  /\ v.row.readiness = Readiness(v.evidence)
  /\ Cardinality({i.id : i \in v.evidence}) = Cardinality(v.evidence)
  /\ IF v.row.status \in Diagnosed
     THEN /\ Ready(v.row.readiness) /\ v.row.current # None
          /\ v.diagnosis.status = "CURRENT"
          /\ v.diagnosis.revision = v.row.evidenceRevision
          /\ StatusAfterDiagnosis(v.diagnosis.draft) = v.row.status
          /\ Referenced(v.diagnosis.draft) \subseteq {i.id : i \in v.evidence}
     ELSE /\ v.row.current = None
          /\ v.row.status = StatusAfterEvidence(v.row.readiness)

Event(type, from, row) ==
  [type |-> type, from |-> from, to |-> row.status, revision |-> row.revision,
   evidenceRevision |-> row.evidenceRevision]

(* The store knows by itself which events a transaction must bring.        *)
BatchSound(events, required, from, row) ==
  /\ Len(events) = Cardinality(required)
  /\ {events[k].type : k \in DOMAIN events} = required
  /\ \A k \in DOMAIN events : events[k] = Event(events[k].type, from, row)

-----------------------------------------------------------------------------
(* Requests. One answers with a view, an error, or None while it is        *)
(* served; "ask" is the call, "snap" the view it last read.                *)
Idle == [pc |-> "DONE", ask |-> None, snap |-> None, attempt |-> 0, found |-> None,
         since |-> 0, answer |-> None]

Error(code) == [code |-> code, view |-> None, diagnosis |-> None]
Result(code, v, d) == [code |-> code, view |-> v, diagnosis |-> d]

Answer(t, a) ==
  request' = [request EXCEPT ![t].pc = "DONE", ![t].answer = a,
                             ![t].snap = None, ![t].found = None, ![t].attempt = 0]

Go(t, pc) == request' = [request EXCEPT ![t].pc = pc]

DiagnosisAttempts == 3

Unchanged == UNCHANGED <<case, evidence, diagnoses, trail, past>>

Asking(t, kind, pc) == request[t].pc = pc /\ request[t].ask.kind = kind

(* One case is followed: a second creation would make another case.        *)
Creating == \E t \in Threads : request[t].pc # "DONE" /\ request[t].ask.kind = "CREATE"

Begin(t, c) ==
  /\ request[t].pc = "DONE" /\ calls < MaxCalls
  /\ c.kind = "CREATE" => case = None /\ ~Creating
  /\ calls' = calls + 1
  /\ request' = [request EXCEPT ![t] =
       [Idle EXCEPT !.pc = "LOAD", !.ask = c,
                    !.since = IF case = None THEN 0 ELSE case.revision]]
  /\ Unchanged

(* A broken rule of the store is an internal error, a database that cannot *)
(* be opened, locked or written is unavailable; both roll everything back. *)
Fault(operational) ==
  Error(IF operational THEN "DATABASE_UNAVAILABLE" ELSE "INVARIANT_VIOLATED")

Refuse(t, a) == Unchanged /\ Answer(t, a)

StorageFails(t) == request[t].pc # "DONE" /\ Refuse(t, Fault(TRUE))

(* One transaction: the rows with their events, which must read back as a  *)
(* sound case.                                                             *)
Write(t, row, items, table, events) ==
  LET v == View(row, items, table) IN
  IF Sound(v)
  THEN /\ InsertCase(row) /\ evidence' = items /\ diagnoses' = table
       /\ InsertAudit(events)
       /\ past' = [r \in DOMAIN past \cup {row.revision} |->
                    IF r = row.revision THEN v ELSE past[r]]
       /\ Answer(t, Result("CREATED", v, v.diagnosis))
  ELSE Refuse(t, Fault(FALSE))

NewCase ==
  LET r == Readiness({})
  IN  [status |-> StatusAfterEvidence(r), revision |-> 1, evidenceRevision |-> 0,
       readiness |-> r, current |-> None]

CreateSound(row, events) ==
  /\ row.revision = 1 /\ row.evidenceRevision = 0 /\ row.current = None
  /\ row.readiness = Readiness({}) /\ row.status = StatusAfterEvidence(row.readiness)
  /\ BatchSound(events, {"CASE_CREATED"}, None, row)

Create(t) ==
  LET events == <<Event("CASE_CREATED", None, NewCase)>> IN
  /\ Asking(t, "CREATE", "LOAD") /\ case = None
  /\ IF CreateSound(NewCase, events) THEN Write(t, NewCase, {}, <<>>, events)
     ELSE Refuse(t, Fault(FALSE))

(* A read is a transaction of its own; what it finds is checked.           *)
Readable == case # None /\ Sound(Stored)

LoadFails(t) ==
  /\ request[t].pc \in {"LOAD", "RELOAD"} /\ request[t].ask.kind # "CREATE" /\ ~Readable
  /\ Refuse(t, IF case = None THEN Error("CASE_NOT_FOUND") ELSE Fault(FALSE))

Loads(t, kind, pc) == Asking(t, kind, pc) /\ Readable /\ Unchanged

Show(t) ==
  /\ Loads(t, "SHOW", "LOAD")
  /\ Answer(t, Result("SHOWN", Stored, Stored.diagnosis))

-----------------------------------------------------------------------------
(* Adding an item. Its value is checked once the case is known to exist.   *)
LoadForEvidence(t) ==
  /\ Loads(t, "ADD", "LOAD")
  /\ IF Fits(request[t].ask.item)
     THEN request' = [request EXCEPT ![t].pc = "WRITE", ![t].snap = Stored]
     ELSE Answer(t, Error("INVALID_REQUEST"))

SameId(items, i) == {j \in items : j.id = i.id}

(* The content hash takes in everything but the moment it was collected.   *)
SameContent(items, i) == i \in items

Reopening(row) == row.status \in Diagnosed

\* slip: a case that is reopened keeps its diagnosis as it was
SupersedeNothing == diagnoses

Superseded ==
  IF Reopening(case) THEN [diagnoses EXCEPT ![case.current].status = "SUPERSEDED"] ELSE diagnoses

\* slip: the revision of the evidence is left as it was
ItemOnly(snap, i) ==
  LET r == Readiness(snap.evidence \union {i})
  IN  [status |-> StatusAfterEvidence(r), revision |-> snap.row.revision + 1,
       evidenceRevision |-> snap.row.evidenceRevision, readiness |-> r, current |-> None]

(* The case with the item, as the request worked it out from its snapshot. *)
WithItem(snap, i) ==
  LET r == Readiness(snap.evidence \union {i})
  IN  [status |-> StatusAfterEvidence(r), revision |-> snap.row.revision + 1,
       evidenceRevision |-> snap.row.evidenceRevision + 1, readiness |-> r, current |-> None]

EvidenceEvents(snap, row) ==
  <<Event("EVIDENCE_ADDED", snap.row.status, row)>>
    \o (IF Reopening(snap.row) THEN <<Event("DIAGNOSIS_SUPERSEDED", snap.row.status, row)>> ELSE <<>>)
    \o (IF row.status # snap.row.status
        THEN <<Event("STATE_TRANSITIONED", snap.row.status, row)>> ELSE <<>>)

(* What the request offers to write; an item it saw already it offers      *)
(* again with the case as it was, for the answer's sake.                   *)
Offer(snap, i) ==
  IF SameId(snap.evidence, i) # {} THEN [row |-> snap.row, events |-> <<>>]
  ELSE [row |-> WithItem(snap, i), events |-> EvidenceEvents(snap, WithItem(snap, i))]

EvidenceTypes(row) ==
  {"EVIDENCE_ADDED"}
    \union (IF Reopening(case) THEN {"DIAGNOSIS_SUPERSEDED"} ELSE {})
    \union (IF row.status # case.status THEN {"STATE_TRANSITIONED"} ELSE {})

(* The store works out readiness and status again for itself.              *)
AppendSound(offer, items) ==
  /\ offer.row.readiness = Readiness(items)
  /\ offer.row.status = StatusAfterEvidence(Readiness(items))
  /\ BatchSound(offer.events, EvidenceTypes(offer.row), case.status, offer.row)

(* The item is looked up again, then both revisions are compared.          *)
AppendEvidence(t) ==
  LET i     == request[t].ask.item
      snap  == request[t].snap
      offer == Offer(snap, i)
      items == InsertEvidence(evidence, i)
  IN  /\ Asking(t, "ADD", "WRITE")
      /\ IF SameId(evidence, i) # {}
         THEN Refuse(t, IF SameContent(evidence, i) THEN Result("REPLAY", Stored, Stored.diagnosis)
                        ELSE Error("EVIDENCE_CONFLICT"))
         ELSE IF <<case.revision, case.evidenceRevision>>
                   # <<snap.row.revision, snap.row.evidenceRevision>>
         THEN Refuse(t, Error("CONCURRENT_WRITE"))
         ELSE IF ~AppendSound(offer, items) THEN Refuse(t, Fault(FALSE))
         ELSE Write(t, offer.row, items, Superseded, offer.events)

-----------------------------------------------------------------------------
(* Diagnosing. Stale input is read again, DiagnosisAttempts times in all.  *)

\* slip: the evidence is read once, only the row is read again
RowRefreshed(t, v) ==
  request' = [request EXCEPT ![t].pc = "FIND", ![t].attempt = @ + 1,
    ![t].snap = IF @ = None THEN v ELSE [v EXCEPT !.evidence = request[t].snap.evidence]]

Refreshed(t, v) ==
  request' = [request EXCEPT ![t].pc = "FIND", ![t].snap = v, ![t].attempt = @ + 1]

NotReady(t) == Answer(t, Error("CASE_NOT_READY"))

RetryOr(t, code) ==
  IF request[t].attempt = DiagnosisAttempts THEN Answer(t, Error(code)) ELSE Go(t, "LOAD")

LoadForDiagnosis(t) ==
  /\ Loads(t, "DIAGNOSE", "LOAD")
  /\ IF case.status = "NEED_INFO" THEN NotReady(t) ELSE Refreshed(t, Stored)

(* Of the policy in use, for an evidence revision: unique by the table.    *)
Existing(revision) ==
  {n \in DOMAIN diagnoses : /\ diagnoses[n].revision = revision
                            /\ diagnoses[n].policy = Policies[release]}

\* slip: what was found is answered as the diagnosis of the view read before
Trust(t, v, d) == Answer(t, Result("REPLAY", v, d))

(* Only the current diagnosis of the view it goes with is answered.        *)
Replay(t, v, d) ==
  IF d.status = "CURRENT" /\ v.diagnosis = d
  THEN Answer(t, Result("REPLAY", v, d))
  ELSE Answer(t, Fault(FALSE))

FindDiagnosis(t) ==
  LET v == request[t].snap IN
  /\ Asking(t, "DIAGNOSE", "FIND")
  /\ Unchanged
  /\ \/ /\ Existing(v.row.evidenceRevision) = {}
        /\ IF v.row.status \in Diagnosed THEN NotReady(t) ELSE Go(t, "WRITE")
     \/ \E n \in Existing(v.row.evidenceRevision) :
          IF v.row.status \in Diagnosed THEN Replay(t, v, diagnoses[n])
          ELSE request' = [request EXCEPT ![t].pc = "RELOAD", ![t].found = diagnoses[n]]

(* Somebody else diagnosed the case meanwhile.                             *)
ReloadForDiagnosis(t) ==
  /\ Loads(t, "DIAGNOSE", "RELOAD")
  /\ IF case.evidenceRevision # request[t].snap.row.evidenceRevision
     THEN RetryOr(t, "INPUT_STALE")
     ELSE Replay(t, Stored, request[t].found)

(* The evidence of the snapshot is judged outside the transaction.         *)
Draft(snap) == Evaluate(snap.evidence)

Made(snap) ==
  [revision |-> snap.row.evidenceRevision, policy |-> Policies[release],
   status |-> "CURRENT", draft |-> Draft(snap)]

WithDiagnosis(snap) ==
  [snap.row EXCEPT !.status = StatusAfterDiagnosis(Draft(snap)), !.revision = @ + 1,
                   !.current = Len(diagnoses) + 1]

DiagnosisEvents(snap, row) ==
  <<Event("DIAGNOSIS_CREATED", snap.row.status, row)>>
    \o (IF Draft(snap).routes # {} THEN <<Event("ROUTING_PROPOSED", snap.row.status, row)>> ELSE <<>>)
    \o <<Event("STATE_TRANSITIONED", snap.row.status, row)>>

DiagnosisTypes(d) ==
  {"DIAGNOSIS_CREATED", "STATE_TRANSITIONED"}
    \union (IF d.draft.routes # {} THEN {"ROUTING_PROPOSED"} ELSE {})

CommitSound(d, row, events) ==
  /\ DraftSound(d.draft) /\ row.status = StatusAfterDiagnosis(d.draft)
  /\ case.status = "EVIDENCE_READY"
  /\ BatchSound(events, DiagnosisTypes(d), case.status, row)

(* Inside, the evidence revision is compared before anything else.         *)
CommitDiagnosis(t) ==
  LET snap   == request[t].snap
      row    == WithDiagnosis(snap)
      events == DiagnosisEvents(snap, row)
  IN  /\ Asking(t, "DIAGNOSE", "WRITE")
      /\ IF case.evidenceRevision # snap.row.evidenceRevision
         THEN Unchanged /\ RetryOr(t, "INPUT_STALE")
         ELSE IF Existing(case.evidenceRevision) # {}
         THEN /\ Unchanged
              /\ \E n \in Existing(case.evidenceRevision) : Replay(t, Stored, diagnoses[n])
         ELSE IF case.revision # snap.row.revision THEN Refuse(t, Error("CONCURRENT_WRITE"))
         ELSE IF ~CommitSound(Made(snap), row, events) THEN Refuse(t, Fault(FALSE))
         ELSE Write(t, row, evidence, InsertDiagnosis(diagnoses, Made(snap)), events)

-----------------------------------------------------------------------------
(* A new policy version is released: the process is started again.         *)
Release ==
  /\ release < Len(Policies)
  /\ release' = release + 1
  /\ request' = [t \in Threads |-> IF request[t].pc = "DONE" THEN request[t] ELSE Idle]
  /\ UNCHANGED calls /\ Unchanged

Serve(t) ==
  \/ Create(t) \/ Show(t) \/ LoadFails(t) \/ StorageFails(t)
  \/ LoadForEvidence(t) \/ AppendEvidence(t)
  \/ LoadForDiagnosis(t) \/ FindDiagnosis(t) \/ ReloadForDiagnosis(t) \/ CommitDiagnosis(t)

(* A case that has its evidence before the requests of a run begin.        *)
Prepared(items) ==
  LET r == Readiness(items)
  IN  [status |-> StatusAfterEvidence(r), revision |-> Cardinality(items) + 1,
       evidenceRevision |-> Cardinality(items), readiness |-> r, current |-> None]

Init ==
  /\ \E start \in Starts :
       \/ start = None /\ case = None /\ evidence = {} /\ past = <<>>
       \/ /\ start # None
          /\ case = Prepared(start) /\ evidence = start
          /\ past = [r \in {case.revision} |-> View(case, start, <<>>)]
  /\ diagnoses = <<>> /\ trail = <<>> /\ release = 1 /\ calls = 0
  /\ request = [t \in Threads |-> Idle]

Next ==
  \/ \E t \in Threads, c \in Calls : Begin(t, c) /\ UNCHANGED release
  \/ \E t \in Threads : Serve(t) /\ UNCHANGED <<release, calls>>
  \/ Release

Spec == Init /\ [][Next]_vars

-----------------------------------------------------------------------------
(* A request answers with a case as it really was at some moment while the *)
(* request was served, and with the diagnosis the case had at that moment: *)
(* no answer mixes a view read before with a diagnosis read after.         *)
AnswersAreMoments ==
  \A t \in Threads :
    LET a == request[t].answer IN
    a # None /\ a.view # None =>
      /\ a.view.row.revision \in DOMAIN past
      /\ a.view = past[a.view.row.revision]
      /\ a.view.row.revision >= request[t].since
      /\ a.diagnosis = a.view.diagnosis

(* A case counts as diagnosed, or waits for a person, on account of the    *)
(* rules applied to exactly the evidence it has now; every older diagnosis *)
(* is history.                                                             *)
DiagnosisIsWarranted ==
  /\ case # None /\ case.status \in Diagnosed =>
       /\ Ready(Readiness(evidence))
       /\ diagnoses[case.current].draft = Evaluate(evidence)
  /\ \A n \in DOMAIN diagnoses :
       diagnoses[n].status = "CURRENT" <=> case.current = n

(* The store refuses nothing the service worked out for it as unsound: a   *)
(* request fails that way only over a diagnosis it had read before new     *)
(* evidence superseded it.                                                 *)
WritesAreSound ==
  \A t \in Threads :
    request[t].answer = Error("INVARIANT_VIOLATED") =>
      /\ request[t].ask.kind = "DIAGNOSE"
      /\ request[t].since < case.revision
      /\ \E n \in DOMAIN diagnoses : diagnoses[n].status = "SUPERSEDED"

(* The audit trail alone tells the story: one batch for each revision,     *)
(* each starting where the one before ended, with one entry for each item, *)
(* and as many diagnoses made as superseded, but for the current one.      *)
Entries(type) == {k \in DOMAIN trail : \E j \in DOMAIN trail[k] : trail[k][j].type = type}
TrailTells ==
  case # None =>
    /\ \A k \in DOMAIN trail : \A j \in DOMAIN trail[k] :
         LET next == case.revision - Len(trail) + k
             e    == trail[k][j]
         IN  /\ e.revision = next /\ e.to = past[next].row.status
             /\ e.from = IF next - 1 \in DOMAIN past THEN past[next - 1].row.status ELSE None
    /\ Cardinality(Entries("DIAGNOSIS_CREATED"))
         = Cardinality(Entries("DIAGNOSIS_SUPERSEDED")) + (IF case.current = None THEN 0 ELSE 1)
=============================================================================
