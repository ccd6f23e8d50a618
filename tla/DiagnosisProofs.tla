-------------------------- MODULE DiagnosisProofs --------------------------
(***************************************************************************)
(* The diagnosis of an incident, for any threads, requests, evidence and   *)
(* policies: what a request read is what the case was at that revision,    *)
(* and a write goes through only where that is what the case still is.     *)
(***************************************************************************)
EXTENDS DiagnosisCases, FiniteSetTheorems, SequenceTheorems, TLAPS

IsSeq(s) == s \in Seq({s[i] : i \in DOMAIN s})

Fields == {"pc", "ask", "snap", "attempt", "found", "since", "answer"}

Shaped ==
  /\ DOMAIN request = Threads /\ \A t \in Threads : DOMAIN request[t] = Fields
  /\ IsSeq(diagnoses) /\ IsSeq(trail) /\ release \in DOMAIN Policies

-----------------------------------------------------------------------------
(* The database.                                                           *)

IsDiagnosis(d) ==
  d = [revision |-> d.revision, policy |-> d.policy, status |-> d.status, draft |-> d.draft]

(* One diagnosis for a revision of the evidence; the one for the present   *)
(* revision, if there is one, is the current one.                          *)
TableOk ==
  /\ \A n \in DOMAIN diagnoses :
       /\ IsDiagnosis(diagnoses[n])
       /\ diagnoses[n].status \in {"CURRENT", "SUPERSEDED"}
       /\ diagnoses[n].revision \in Nat
       /\ case # None /\ diagnoses[n].revision <= case.evidenceRevision
       /\ diagnoses[n].status = "CURRENT" <=> case.current = n
       /\ diagnoses[n].revision = case.evidenceRevision => case.current = n
       /\ \A m \in DOMAIN diagnoses :
            diagnoses[m].revision = diagnoses[n].revision => m = n

CaseOk ==
  case # None =>
    /\ case \in Row /\ IsFiniteSet(evidence) /\ Sound(Stored)
    /\ case.status \in Diagnosed <=> case.current # None
    /\ case.current # None =>
         case.current \in DOMAIN diagnoses /\ diagnoses[case.current].draft = Evaluate(evidence)

Now(n) == [diagnoses[n] EXCEPT !.status = "CURRENT"]

PastOk(r) ==
  /\ r \in Nat /\ case # None /\ r <= case.revision
  /\ past[r].row \in Row /\ past[r].row.revision = r
  /\ past[r].row.evidenceRevision <= case.evidenceRevision
  /\ past[r].row.status \in Diagnosed =>
       /\ past[r].row.current \in DOMAIN diagnoses
       /\ past[r].diagnosis = Now(past[r].row.current)
       /\ past[r].diagnosis.revision = past[r].row.evidenceRevision

HistoryOk ==
  /\ \A r \in DOMAIN past : PastOk(r)
  /\ case # None => case.revision \in DOMAIN past /\ past[case.revision] = Stored
  /\ case = None => evidence = {} /\ diagnoses = <<>> /\ past = <<>> /\ trail = <<>>

BaseOk == Shaped /\ TableOk /\ CaseOk /\ HistoryOk

-----------------------------------------------------------------------------
(* The requests: what one holds, and what it answered, is a moment of the  *)
(* case, at or after the one it began in.                                  *)

Moment(q, v) ==
  v.row.revision \in DOMAIN past /\ v = past[v.row.revision] /\ v.row.revision >= q.since

FoundOk(d, v) ==
  /\ \E n \in DOMAIN diagnoses : d = [diagnoses[n] EXCEPT !.status = d.status]
  /\ d.revision = v.row.evidenceRevision /\ d.status \in {"CURRENT", "SUPERSEDED"}
  /\ d.status = "SUPERSEDED" => case.evidenceRevision > v.row.evidenceRevision

ServedOk(q) ==
  /\ q.since \in Nat /\ (case # None => q.since <= case.revision)
  /\ case = None => q.since = 0
  /\ q.pc \in {"FIND", "WRITE", "RELOAD"} => Moment(q, q.snap)
  /\ q.pc = "WRITE" /\ q.ask.kind = "ADD" => Fits(q.ask.item)
  /\ q.pc = "WRITE" /\ q.ask.kind = "DIAGNOSE" => q.snap.row.status = "EVIDENCE_READY"
  /\ q.pc = "FIND" => q.snap.row.status # "NEED_INFO"
  /\ q.pc = "RELOAD" => FoundOk(q.found, q.snap)

AnswerOk(q) ==
  /\ q.answer # None /\ q.answer.view # None =>
       Moment(q, q.answer.view) /\ q.answer.diagnosis = q.answer.view.diagnosis
  /\ q.answer = Error("INVARIANT_VIOLATED") =>
       /\ q.ask.kind = "DIAGNOSE" /\ q.since < case.revision
       /\ \E n \in DOMAIN diagnoses : diagnoses[n].status = "SUPERSEDED"

RequestsOk == \A t \in Threads : ServedOk(request[t]) /\ AnswerOk(request[t])

-----------------------------------------------------------------------------
(* The trail: a batch for each revision since the first that is known.     *)

First == case.revision - Len(trail)

TrailOk ==
  case # None =>
    /\ First \in Nat
    /\ DOMAIN past = (IF First = 0 THEN 1 ELSE First) .. case.revision
    /\ TrailTells

DiagnosisInv ==
  BaseOk /\ RequestsOk /\ TrailOk

-----------------------------------------------------------------------------
(* Sequences, small sets and events.                                       *)

LEMMA InSeqOfItsRange ==
  ASSUME NEW S, NEW s \in Seq(S)
  PROVE  IsSeq(s)
  <1>1. Range(s) = {s[i] : i \in DOMAIN s}
    BY RangeEquality, LenProperties
  <1> QED BY <1>1, SeqOfRange DEF IsSeq

LEMMA AppendFacts ==
  ASSUME NEW s, IsSeq(s), NEW e
  PROVE  /\ IsSeq(Append(s, e))
         /\ Len(s) \in Nat /\ DOMAIN s = 1 .. Len(s)
         /\ Len(Append(s, e)) = Len(s) + 1 /\ DOMAIN Append(s, e) = 1 .. Len(s) + 1
         /\ \A i \in 1 .. Len(s) : Append(s, e)[i] = s[i]
         /\ Append(s, e)[Len(s) + 1] = e
  <1> DEFINE S == {s[i] : i \in DOMAIN s} \cup {e}
  <1>1. s \in Seq(S)
    <2>1. {s[i] : i \in DOMAIN s} \subseteq S
      OBVIOUS
    <2> QED BY <2>1, SeqMonotonic DEF IsSeq
  <1>2. e \in S
    OBVIOUS
  <1> HIDE DEF S
  <1>3. /\ Append(s, e) \in Seq(S) /\ Len(Append(s, e)) = Len(s) + 1
        /\ \A i \in 1 .. Len(s) : Append(s, e)[i] = s[i]
        /\ Append(s, e)[Len(s) + 1] = e
        /\ Len(s) \in Nat /\ DOMAIN s = 1 .. Len(s)
        /\ DOMAIN Append(s, e) = 1 .. Len(s) + 1
    BY <1>1, <1>2, AppendProperties, LenProperties
  <1>4. IsSeq(Append(s, e))
    BY <1>3, InSeqOfItsRange
  <1> QED BY <1>3, <1>4

LEMMA Joins ==
  ASSUME NEW x, NEW y, NEW z
  PROVE  /\ <<x>> \o <<y>> = <<x, y>> /\ <<x>> \o <<>> = <<x>>
         /\ <<x, y>> \o <<z>> = <<x, y, z>> /\ <<x, y>> \o <<>> = <<x, y>>
  <1> DEFINE S == {x, y, z}
  <1>1. <<x>> \in Seq(S) /\ <<y>> \in Seq(S) /\ <<z>> \in Seq(S)
    OBVIOUS
  <1>2. <<x, y>> \in Seq(S) /\ <<x, y, z>> \in Seq(S)
    OBVIOUS
  <1>3. <<x>> \o <<>> = <<x>> /\ <<x, y>> \o <<>> = <<x, y>>
    BY <1>1, <1>2, ConcatEmptySeq
  <1>4. <<x>> \o <<y>> = <<x, y>>
    <2>1. PICK s : s = <<x>> \o <<y>>
      OBVIOUS
    <2>2. s \in Seq(S) /\ Len(s) = 2 /\ s[1] = x /\ s[2] = y
      BY <1>1, <2>1, ConcatProperties
    <2>3. Len(<<x, y>>) = 2 /\ <<x, y>>[1] = x /\ <<x, y>>[2] = y
      OBVIOUS
    <2>4. \A k \in 1 .. 2 : k = 1 \/ k = 2
      OBVIOUS
    <2> QED BY <1>2, <2>1, <2>2, <2>3, <2>4, SeqEqual
  <1>5. <<x, y>> \o <<z>> = <<x, y, z>>
    <2>1. PICK s : s = <<x, y>> \o <<z>>
      OBVIOUS
    <2>2. s \in Seq(S) /\ Len(s) = 3 /\ s[1] = x /\ s[2] = y /\ s[3] = z
      BY <1>1, <1>2, <2>1, ConcatProperties
    <2>3. Len(<<x, y, z>>) = 3 /\ <<x, y, z>>[1] = x /\ <<x, y, z>>[2] = y /\ <<x, y, z>>[3] = z
      OBVIOUS
    <2>4. \A k \in 1 .. 3 : k = 1 \/ k = 2 \/ k = 3
      OBVIOUS
    <2> QED BY <1>2, <2>1, <2>2, <2>3, <2>4, SeqEqual
  <1> QED BY <1>3, <1>4, <1>5

LEMMA Replaced ==
  ASSUME NEW s, IsSeq(s), NEW n \in DOMAIN s, NEW e
  PROVE  LET u == [s EXCEPT ![n] = e] IN IsSeq(u) /\ DOMAIN u = DOMAIN s
  <1> DEFINE S == {s[i] : i \in DOMAIN s} \cup {e}
             u == [s EXCEPT ![n] = e]
  <1>1. s \in Seq(S)
    <2>1. {s[i] : i \in DOMAIN s} \subseteq S
      OBVIOUS
    <2> QED BY <2>1, SeqMonotonic DEF IsSeq
  <1>2. u \in Seq(S) /\ DOMAIN u = DOMAIN s
    <2>1. e \in S /\ n \in 1 .. Len(s) /\ DOMAIN s = 1 .. Len(s)
      BY <1>1, LenProperties
    <2> QED BY <1>1, <2>1, ExceptSeq
  <1> HIDE DEF S, u
  <1>3. IsSeq(u)
    BY <1>2, InSeqOfItsRange
  <1> QED BY <1>2, <1>3 DEF u

LEMMA OneMore ==
  ASSUME NEW S, IsFiniteSet(S), NEW x, x \notin S, NEW T, T = S \cup {x}
  PROVE  IsFiniteSet(T) /\ Cardinality(T) = Cardinality(S) + 1
  BY FS_AddElement

LEMMA OneKind == ASSUME NEW a PROVE Cardinality({a}) = 1 /\ IsFiniteSet({a})
  BY FS_Singleton

LEMMA TwoKinds ==
  ASSUME NEW a, NEW b, a # b PROVE Cardinality({a, b}) = 2 /\ IsFiniteSet({a, b})
  <1>1. b \notin {a} /\ {a, b} = {a} \cup {b}
    OBVIOUS
  <1>2. IsFiniteSet({a, b}) /\ Cardinality({a, b}) = Cardinality({a}) + 1
    BY <1>1, OneKind, OneMore, Zenon
  <1> QED BY <1>2, OneKind

LEMMA ThreeKinds ==
  ASSUME NEW a, NEW b, NEW c, a # b, a # c, b # c PROVE Cardinality({a, b, c}) = 3
  <1>1. c \notin {a, b} /\ {a, b, c} = {a, b} \cup {c}
    OBVIOUS
  <1>2. Cardinality({a, b, c}) = Cardinality({a, b}) + 1
    BY <1>1, TwoKinds, OneMore, Zenon
  <1>3. Cardinality({a, b}) = 2
    BY TwoKinds
  <1> QED BY <1>2, <1>3

(* A batch with one event of each kind is what the store requires.         *)
LEMMA Batches ==
  ASSUME NEW from, NEW row, NEW a, NEW b, NEW c, a # b, a # c, b # c
  PROVE  /\ BatchSound(<<Event(a, from, row)>>, {a}, from, row)
         /\ BatchSound(<<Event(a, from, row), Event(b, from, row)>>, {a, b}, from, row)
         /\ BatchSound(<<Event(a, from, row), Event(b, from, row), Event(c, from, row)>>,
                       {a, b, c}, from, row)
  <1> DEFINE E(x) == Event(x, from, row)
  <1>1. \A x : E(x).type = x
    BY DEF Event
  <1> HIDE DEF E
  <1>2. BatchSound(<<E(a)>>, {a}, from, row)
    <2>1. Len(<<E(a)>>) = 1 /\ DOMAIN <<E(a)>> = {1} /\ <<E(a)>>[1] = E(a)
      OBVIOUS
    <2>2. {<<E(a)>>[k].type : k \in DOMAIN <<E(a)>>} = {a}
      BY <1>1, <2>1
    <2>3. \A k \in DOMAIN <<E(a)>> : <<E(a)>>[k] = Event(<<E(a)>>[k].type, from, row)
      BY <1>1, <2>1 DEF E
    <2> QED BY <2>1, <2>2, <2>3, OneKind DEF BatchSound
  <1>3. BatchSound(<<E(a), E(b)>>, {a, b}, from, row)
    <2> DEFINE s == <<E(a), E(b)>>
    <2>1. Len(s) = 2 /\ DOMAIN s = {1, 2} /\ s[1] = E(a) /\ s[2] = E(b)
      OBVIOUS
    <2> HIDE DEF s
    <2>2. {s[k].type : k \in DOMAIN s} = {a, b}
      BY <1>1, <2>1
    <2>3. \A k \in DOMAIN s : s[k] = Event(s[k].type, from, row)
      BY <1>1, <2>1 DEF E
    <2>4. BatchSound(s, {a, b}, from, row)
      BY <2>1, <2>2, <2>3, TwoKinds DEF BatchSound
    <2> QED BY <2>4 DEF s
  <1>4. BatchSound(<<E(a), E(b), E(c)>>, {a, b, c}, from, row)
    <2> DEFINE s == <<E(a), E(b), E(c)>>
    <2>1. Len(s) = 3 /\ DOMAIN s = {1, 2, 3} /\ s[1] = E(a) /\ s[2] = E(b) /\ s[3] = E(c)
      OBVIOUS
    <2> HIDE DEF s
    <2>2. {s[k].type : k \in DOMAIN s} = {a, b, c}
      BY <1>1, <2>1
    <2>3. \A k \in DOMAIN s : s[k] = Event(s[k].type, from, row)
      BY <1>1, <2>1 DEF E
    <2>4. Cardinality({a, b, c}) = 3
      BY ThreeKinds
    <2>5. BatchSound(s, {a, b, c}, from, row)
      BY <2>1, <2>2, <2>3, <2>4 DEF BatchSound
    <2> QED BY <2>5 DEF s
  <1> QED BY <1>2, <1>3, <1>4 DEF E

-----------------------------------------------------------------------------
(* What the rules make of any evidence.                                    *)

LEMMA ReadingsAre == \A E : Readiness(E) \in Readings
  <1> SUFFICES ASSUME NEW E PROVE Readiness(E) \in Readings
    OBVIOUS
  <1> DEFINE open == {r \in ActiveRows(E) : Missing(E, r)}
             unknown == {r \in ActiveRows(E) : ConfirmedUnknown(E, r)}
  <1>1. ActiveRows(E) \subseteq Rows
    BY DEF ActiveRows, Rows
  <1>2. open \subseteq Rows /\ unknown \subseteq Rows
    BY <1>1
  <1>3. /\ Readiness(E).missing = open \union (unknown \intersect CoreRows)
        /\ Readiness(E).unknown = unknown \ CoreRows
        /\ Readiness(E).stop \in {"NEED_MORE_EVIDENCE", "CONFIRMED_UNKNOWN", "READY"}
        /\ Readiness(E) = [missing |-> Readiness(E).missing, unknown |-> Readiness(E).unknown,
                           stop |-> Readiness(E).stop]
    BY DEF Readiness
  <1> HIDE DEF open, unknown
  <1>4. Readiness(E).missing \in SUBSET Rows /\ Readiness(E).unknown \in SUBSET Rows
    BY <1>2, <1>3
  <1> QED BY <1>3, <1>4 DEF Readings

Doubted == {"LOW_CONFIDENCE", "INSUFFICIENT_SOURCE_QUALITY", "RISK_DECISION"}

LEMMA ForcedReasons == \A rule \in RuleBook : rule.forced \subseteq {"RISK_DECISION"}
  BY DEF RuleBook

LEMMA DoubtsAre == \A items : Doubts(items) \subseteq Doubted
  BY DEF Doubts, Doubted

LEMMA AdvisedIsSound ==
  ASSUME NEW rule \in RuleBook, NEW items
  PROVE  /\ DraftSound(Advised(rule, items))
         /\ Referenced(Advised(rule, items)) = {i.id : i \in items}
  <1> DEFINE reasons == rule.forced \union Doubts(items)
             refs == {i.id : i \in items}
             guess == [rule |-> rule.id, refs |-> refs]
             route == [team |-> rule.team, refs |-> refs, human |-> reasons # {}, reasons |-> reasons]
             ticket == [team |-> rule.team, hypotheses |-> {guess}]
             d == Advised(rule, items)
  <1>1. reasons \subseteq Doubted
    BY ForcedReasons, DoubtsAre DEF Doubted
  <1>2. guess.refs = refs
    OBVIOUS
  <1>3. route.refs = refs /\ route.reasons = reasons /\ route.team = rule.team
    OBVIOUS
  <1>4. route.human <=> reasons # {}
    OBVIOUS
  <1>5. ticket.team = rule.team /\ ticket.hypotheses = {guess}
    OBVIOUS
  <1>6. d.hypotheses = {guess} /\ d.routes = {route} /\ d.tickets = {ticket} /\ d.reasons = reasons
    BY DEF Advised
  <1>7. d.human <=> reasons # {}
    BY DEF Advised
  <1>h. d.human = route.human
    BY DEF Advised
  <1> HIDE DEF d, ticket, route, guess, refs, reasons
  <1>8. Cardinality({route}) = 1 /\ Cardinality({ticket}) = 1 /\ Cardinality({guess}) = 1
    BY OneKind
  <1>9. DraftSound(d)
    <2>1. {route} # {}
      OBVIOUS
    <2>2. d.reasons \intersect {"POLICY_GAP", "CONFLICTING_EVIDENCE"} = {}
      BY <1>1, <1>6 DEF Doubted
    <2>3. \A r \in d.routes, t \in d.tickets, h \in d.hypotheses :
            r.human = d.human /\ r.reasons = d.reasons /\ r.refs = h.refs
      BY <1>2, <1>3, <1>6, <1>h
    <2>4. \A r \in d.routes, t \in d.tickets, h \in d.hypotheses :
            t.team = r.team /\ t.hypotheses = {h}
      BY <1>3, <1>5, <1>6
    <2>5. Cardinality(d.routes) = Cardinality(d.tickets) /\ Cardinality(d.hypotheses) = 1
      BY <1>6, <1>8
    <2> QED BY <1>6, <1>7, <2>1, <2>2, <2>3, <2>4, <2>5 DEF DraftSound
  <1>10. Referenced(d) = refs
    <2>1. {h.refs : h \in d.hypotheses} = {guess.refs} /\ {r.refs : r \in d.routes} = {route.refs}
      BY <1>6
    <2>2. \A S : UNION {S} = S
      OBVIOUS
    <2>3. Referenced(d) = (UNION {guess.refs}) \union (UNION {route.refs})
      BY <2>1 DEF Referenced
    <2>4. UNION {guess.refs} = refs /\ UNION {route.refs} = refs
      BY <2>2, <1>2, <1>3, Zenon
    <2>5. Referenced(d) = refs \union refs
      BY <2>3, <2>4
    <2> QED BY <2>5
  <1> QED BY <1>9, <1>10 DEF d, refs

LEMMA HumanOnlyIsSound ==
  ASSUME NEW reason \in {"POLICY_GAP", "CONFLICTING_EVIDENCE"}
  PROVE  DraftSound(HumanOnly(reason)) /\ Referenced(HumanOnly(reason)) = {}
  <1> DEFINE d == HumanOnly(reason)
  <1>1. d.hypotheses = {} /\ d.routes = {} /\ d.tickets = {} /\ d.reasons = {reason}
    BY DEF HumanOnly
  <1>2. d.human
    BY DEF HumanOnly
  <1> HIDE DEF d
  <1>3. DraftSound(d) /\ Referenced(d) = {}
    BY <1>1, <1>2 DEF DraftSound, Referenced
  <1> QED BY <1>3 DEF d

(* A draft is sound and refers to the evidence it was made from.           *)
LEMMA DraftsAreSound ==
  ASSUME NEW E
  PROVE  DraftSound(Evaluate(E)) /\ Referenced(Evaluate(E)) \subseteq {i.id : i \in E}
  <1> DEFINE matched == {r \in RuleBook : Matches(r, E)}
             rule == CHOOSE r \in matched : TRUE
  <1>1. CASE Evaluate(E) \in {HumanOnly("CONFLICTING_EVIDENCE"), HumanOnly("POLICY_GAP")}
    BY <1>1, HumanOnlyIsSound
  <1>2. CASE matched # {} /\ Evaluate(E) = Advised(rule, Decisive(rule, E))
    <2>1. rule \in RuleBook
      BY <1>2
    <2>2. Decisive(rule, E) \subseteq E
      <3>1. \A c : Selected(E, c) \subseteq E
        BY DEF Selected, Available, Given
      <3> QED BY <3>1 DEF Decisive
    <2> HIDE DEF rule
    <2>3. Referenced(Evaluate(E)) = {i.id : i \in Decisive(rule, E)}
      BY <1>2, <2>1, AdvisedIsSound
    <2> QED BY <1>2, <2>1, <2>2, <2>3, AdvisedIsSound
  <1> QED BY <1>1, <1>2 DEF Evaluate

-----------------------------------------------------------------------------
(* Steps that leave the database alone.                                    *)

Held(t, q) ==
  DOMAIN q = Fields /\ ServedOk(q) /\ AnswerOk(q) /\ request' = [request EXCEPT ![t] = q]

LEMMA QuietStep ==
  ASSUME DiagnosisInv, Unchanged, UNCHANGED release, NEW t \in Threads, NEW q, Held(t, q)
  PROVE  DiagnosisInv'
  <1>1. Shaped'
    BY DEF DiagnosisInv, BaseOk, Shaped, Unchanged, Held
  <1>2. TableOk' /\ CaseOk' /\ HistoryOk'
    BY DEF DiagnosisInv, BaseOk, TableOk, CaseOk, HistoryOk, PastOk, Now, Stored, Unchanged
  <1>3. TrailOk'
    BY DEF DiagnosisInv, TrailOk, First, TrailTells, Entries, Unchanged
  <1>4. \A p : (ServedOk(p) => ServedOk(p)') /\ (AnswerOk(p) => AnswerOk(p)')
    BY DEF ServedOk, AnswerOk, Moment, FoundOk, Unchanged
  <1>5. RequestsOk'
    <2>1. \A x \in Threads : request'[x] = request[x] \/ request'[x] = q
      BY DEF Held, DiagnosisInv, BaseOk, Shaped
    <2>2. ASSUME NEW x \in Threads
          PROVE  ServedOk(request[x])' /\ AnswerOk(request[x])'
      <3>1. PICK p : p = request'[x]
        OBVIOUS
      <3>2. ServedOk(p) /\ AnswerOk(p)
        BY <2>1, <3>1 DEF Held, DiagnosisInv, RequestsOk
      <3> QED BY <1>4, <3>1, <3>2
    <2> QED BY <2>2 DEF RequestsOk
  <1> QED BY <1>1, <1>2, <1>3, <1>5 DEF DiagnosisInv, BaseOk

(* What a request may answer, when the database is left alone.             *)
Good(q, a) ==
  /\ a # None /\ a.view # None => Moment(q, a.view) /\ a.diagnosis = a.view.diagnosis
  /\ a = Error("INVARIANT_VIOLATED") =>
       /\ q.ask.kind = "DIAGNOSE" /\ q.since < case.revision
       /\ \E n \in DOMAIN diagnoses : diagnoses[n].status = "SUPERSEDED"

AnsweredWith(t, a) ==
  \E q : /\ DOMAIN q = Fields /\ q.pc = "DONE" /\ q.answer = a
         /\ q.ask = request[t].ask /\ q.since = request[t].since
         /\ request' = [request EXCEPT ![t] = q]

LEMMA AnswerIs ==
  ASSUME Shaped, NEW t \in Threads, NEW a, Answer(t, a)
  PROVE  AnsweredWith(t, a)
  <1> DEFINE q == [request[t] EXCEPT !.pc = "DONE", !.answer = a,
                                     !.snap = None, !.found = None, !.attempt = 0]
  <1>1. DOMAIN request[t] = Fields
    BY DEF Shaped
  <1>2. DOMAIN q = Fields /\ q.pc = "DONE" /\ q.answer = a /\ q.ask = request[t].ask
        /\ q.since = request[t].since
    BY <1>1 DEF Fields
  <1>3. request' = [request EXCEPT ![t] = q]
    BY DEF Answer, Shaped
  <1> HIDE DEF q
  <1> QED BY <1>2, <1>3 DEF AnsweredWith

LEMMA Settles ==
  ASSUME DiagnosisInv, Unchanged, UNCHANGED release, NEW t \in Threads, NEW a, Answer(t, a),
         Good(request[t], a)
  PROVE  DiagnosisInv'
  <1>1. Shaped /\ ServedOk(request[t])
    BY DEF DiagnosisInv, BaseOk, RequestsOk
  <1>2. PICK q : /\ DOMAIN q = Fields /\ q.pc = "DONE" /\ q.answer = a
                 /\ q.ask = request[t].ask /\ q.since = request[t].since
                 /\ request' = [request EXCEPT ![t] = q]
    BY <1>1, AnswerIs DEF AnsweredWith
  <1>3. ServedOk(q)
    BY <1>1, <1>2 DEF ServedOk
  <1>4. AnswerOk(q)
    BY <1>2 DEF AnswerOk, Good, Moment
  <1> QED BY <1>2, <1>3, <1>4, QuietStep DEF Held

LEMMA GoodErrors ==
  \A q, code : code # "INVARIANT_VIOLATED" => Good(q, Error(code))
  BY DEF Good, Error

LEMMA GoodViews ==
  ASSUME NEW q, NEW code, NEW v, Moment(q, v), NEW d, d = v.diagnosis, code # "INVARIANT_VIOLATED"
  PROVE  Good(q, Result(code, v, d))
  BY DEF Good, Result, Error

(* The case as it is now is a moment of every request.                     *)
LEMMA PresentMoment ==
  ASSUME DiagnosisInv, NEW t \in Threads, case # None
  PROVE  Moment(request[t], Stored)
  <1>1. case.revision \in DOMAIN past /\ past[case.revision] = Stored /\ Stored.row = case
    BY DEF DiagnosisInv, BaseOk, HistoryOk, Stored, View
  <1>2. request[t].since \in Nat /\ request[t].since <= case.revision
    BY DEF DiagnosisInv, RequestsOk, ServedOk
  <1> QED BY <1>1, <1>2 DEF Moment

LEMMA Begins ==
  ASSUME DiagnosisInv, NEW t \in Threads, NEW c \in Calls, Begin(t, c), UNCHANGED release
  PROVE  DiagnosisInv'
  <1> DEFINE q == [Idle EXCEPT !.pc = "LOAD", !.ask = c,
                               !.since = IF case = None THEN 0 ELSE case.revision]
  <1>1. Unchanged /\ request' = [request EXCEPT ![t] = q]
    BY DEF Begin
  <1>2. DOMAIN q = Fields /\ q.pc = "LOAD" /\ q.answer = None
        /\ q.since = IF case = None THEN 0 ELSE case.revision
    BY DEF Idle, Fields
  <1> HIDE DEF q
  <1>3. case # None => case.revision \in Nat
    BY DEF DiagnosisInv, BaseOk, CaseOk, Row
  <1>4. ServedOk(q)
    BY <1>2, <1>3 DEF ServedOk
  <1>5. None # Error("INVARIANT_VIOLATED")
    BY NullAssumption DEF Error
  <1>6. AnswerOk(q)
    BY <1>2, <1>5 DEF AnswerOk
  <1> QED BY <1>1, <1>2, <1>4, <1>6, QuietStep DEF Held

(* A request that goes on.                                                 *)
LEMMA GoesOn ==
  ASSUME DiagnosisInv, Unchanged, UNCHANGED release, NEW t \in Threads, NEW q,
         request' = [request EXCEPT ![t] = q],
         DOMAIN q = Fields, q.since = request[t].since, q.ask = request[t].ask,
         q.answer = request[t].answer, ServedOk(q)
  PROVE  DiagnosisInv'
  <1>1. AnswerOk(q)
    BY DEF DiagnosisInv, RequestsOk, AnswerOk, Moment
  <1> QED BY <1>1, QuietStep DEF Held

LEMMA Goes ==
  ASSUME Shaped, NEW t \in Threads, NEW pc, Go(t, pc)
  PROVE  \E q : /\ DOMAIN q = Fields /\ q.pc = pc /\ q.snap = request[t].snap
                /\ q.since = request[t].since /\ q.ask = request[t].ask
                /\ q.answer = request[t].answer /\ request' = [request EXCEPT ![t] = q]
  <1> DEFINE q == [request[t] EXCEPT !.pc = pc]
  <1>1. DOMAIN request[t] = Fields
    BY DEF Shaped
  <1>2. /\ DOMAIN q = Fields /\ q.pc = pc /\ q.snap = request[t].snap
        /\ q.since = request[t].since /\ q.ask = request[t].ask /\ q.answer = request[t].answer
    BY <1>1 DEF Fields
  <1>3. request' = [request EXCEPT ![t] = q]
    BY DEF Go, Shaped
  <1> HIDE DEF q
  <1> QED BY <1>2, <1>3

LEMMA Releases ==
  ASSUME DiagnosisInv, Release
  PROVE  DiagnosisInv'
  <1>1. Unchanged /\ release' \in DOMAIN Policies
    BY PolicyAssumption, LenProperties DEF Release, DiagnosisInv, BaseOk, Shaped
  <1>2. Shaped'
    BY <1>1 DEF Release, DiagnosisInv, BaseOk, Shaped, Unchanged, Idle, Fields
  <1>3. TableOk' /\ CaseOk' /\ HistoryOk' /\ TrailOk'
    BY <1>1 DEF DiagnosisInv, BaseOk, TableOk, CaseOk, HistoryOk, PastOk, Now, Stored, Unchanged,
         TrailOk, First, TrailTells, Entries
  <1>4. \A p : (ServedOk(p) => ServedOk(p)') /\ (AnswerOk(p) => AnswerOk(p)')
    BY <1>1 DEF ServedOk, AnswerOk, Moment, FoundOk, Unchanged
  <1>5. ServedOk(Idle) /\ AnswerOk(Idle)
    <2>1. None # Error("INVARIANT_VIOLATED")
      BY NullAssumption DEF Error
    <2>2. Idle.pc = "DONE" /\ Idle.answer = None /\ Idle.since = 0
      BY DEF Idle
    <2>3. case # None => case.revision \in Nat
      BY DEF DiagnosisInv, BaseOk, CaseOk, Row
    <2> QED BY <2>1, <2>2, <2>3 DEF ServedOk, AnswerOk
  <1>6. ASSUME NEW x \in Threads
        PROVE  ServedOk(request[x])' /\ AnswerOk(request[x])'
    <2>1. PICK p : p = request'[x]
      OBVIOUS
    <2>2. p = request[x] \/ p = Idle
      BY <2>1 DEF Release
    <2>3. ServedOk(p) /\ AnswerOk(p)
      BY <1>5, <2>2 DEF DiagnosisInv, RequestsOk
    <2> QED BY <1>4, <2>1, <2>3
  <1> QED BY <1>2, <1>3, <1>6 DEF DiagnosisInv, BaseOk, RequestsOk

-----------------------------------------------------------------------------
(* Writes. Rows of the database change as Grows says, and everything that  *)
(* was a moment of the case, or an answer, remains one.                    *)

Retained(d, e) ==
  \E s \in {"CURRENT", "SUPERSEDED"} :
    e = [d EXCEPT !.status = s] /\ (d.status = "SUPERSEDED" => s = "SUPERSEDED")

Fresh(row) ==
  /\ row \in Row /\ (row.status \in Diagnosed <=> row.current # None)
  /\ case = None => row.revision = 1
  /\ case # None => row.revision = case.revision + 1 /\ case.evidenceRevision <= row.evidenceRevision

Grows(row, items, table) ==
  /\ Fresh(row) /\ IsFiniteSet(items) /\ IsSeq(table)
  /\ row.current # None =>
       row.current \in DOMAIN table /\ table[row.current].draft = Evaluate(items)
  /\ \A n \in DOMAIN diagnoses : n \in DOMAIN table /\ Retained(diagnoses[n], table[n])

Saved(row, items, table, events) ==
  LET v == View(row, items, table) IN
  /\ Sound(v) /\ case' = row /\ evidence' = items /\ diagnoses' = table
  /\ trail' = Append(trail, events)
  /\ past' = [r \in DOMAIN past \cup {row.revision} |-> IF r = row.revision THEN v ELSE past[r]]

LEMMA PastGrows ==
  ASSUME DiagnosisInv, NEW row, NEW items, NEW table, NEW events, Fresh(row),
         Saved(row, items, table, events)
  PROVE  /\ row.revision \notin DOMAIN past /\ row.revision \in Nat /\ case' = row /\ row # None
         /\ DOMAIN past' = DOMAIN past \cup {row.revision}
         /\ \A r \in DOMAIN past : past'[r] = past[r]
         /\ past'[row.revision] = View(row, items, table) /\ View(row, items, table).row = row
         /\ \A r \in DOMAIN past : r \in Nat /\ r < row.revision
  <1>1. \A r \in DOMAIN past : PastOk(r)
    BY DEF DiagnosisInv, BaseOk, HistoryOk
  <1>2. case = None => DOMAIN past = {}
    BY DEF DiagnosisInv, BaseOk, HistoryOk
  <1>3. case # None => case.revision \in Nat
    BY DEF DiagnosisInv, BaseOk, CaseOk, Row
  <1>4. row.revision \in Nat /\ row # None
    BY NullAssumption DEF Fresh, Row
  <1>5. \A r \in DOMAIN past : r \in Nat /\ r < row.revision
    BY <1>1, <1>2, <1>3, <1>4 DEF Fresh, PastOk
  <1> QED BY <1>4, <1>5 DEF Saved, View

LEMMA SavedRequests ==
  ASSUME DiagnosisInv, NEW row, NEW items, NEW table, NEW events, Grows(row, items, table),
         Saved(row, items, table, events)
  PROVE  \A q : ServedOk(q) => ServedOk(q)' /\ (AnswerOk(q) => AnswerOk(q)')
  <1>1. /\ \A r \in DOMAIN past : r \in DOMAIN past' /\ past'[r] = past[r]
        /\ case' = row /\ row # None /\ row.revision \in Nat
    BY PastGrows DEF Grows
  <1>2. case # None => case.revision \in Nat /\ case.revision < case'.revision
    BY <1>1 DEF DiagnosisInv, BaseOk, CaseOk, Row, Grows, Fresh
  <1>3. \A q, v : Moment(q, v) => Moment(q, v)'
    BY <1>1 DEF Moment
  <1>4. \A n \in DOMAIN diagnoses : n \in DOMAIN diagnoses' /\ Retained(diagnoses[n], diagnoses'[n])
                                    /\ IsDiagnosis(diagnoses[n])
    BY DEF Grows, Saved, DiagnosisInv, BaseOk, TableOk
  <1>5. ASSUME NEW v, v.row.evidenceRevision \in Nat, NEW d, FoundOk(d, v)
        PROVE  FoundOk(d, v)'
    <2>1. PICK n \in DOMAIN diagnoses : d = [diagnoses[n] EXCEPT !.status = d.status]
      BY <1>5 DEF FoundOk
    <2>2. PICK e, f : e = diagnoses[n] /\ f = diagnoses'[n]
      OBVIOUS
    <2>3. [e EXCEPT !.status = d.status] = [f EXCEPT !.status = d.status]
      BY <1>4, <2>2 DEF Retained, IsDiagnosis
    <2>4. \E m \in DOMAIN diagnoses' : d = [diagnoses'[m] EXCEPT !.status = d.status]
      BY <1>4, <2>1, <2>2, <2>3
    <2>5. case # None => case.evidenceRevision \in Nat /\ case'.evidenceRevision \in Nat
      BY <1>1 DEF DiagnosisInv, BaseOk, CaseOk, Row, Grows, Fresh
    <2>6. case # None
      BY DEF DiagnosisInv, BaseOk, TableOk
    <2> QED BY <1>1, <1>5, <2>4, <2>5, <2>6 DEF FoundOk, Grows, Fresh
  <1>6. ASSUME NEW q, ServedOk(q)
        PROVE  ServedOk(q)'
    <2>1. case'.revision \in Nat /\ case' # None /\ q.since \in Nat /\ q.since <= case'.revision
      BY <1>1, <1>2, <1>6 DEF ServedOk
    <2>2. q.pc = "RELOAD" => FoundOk(q.found, q.snap)'
      <3>1. q.pc = "RELOAD" => q.snap.row.evidenceRevision \in Nat /\ FoundOk(q.found, q.snap)
        BY <1>6 DEF ServedOk, Moment, DiagnosisInv, BaseOk, HistoryOk, PastOk, Row
      <3> QED BY <3>1, <1>5
    <2> QED BY <1>3, <1>6, <2>1, <2>2 DEF ServedOk
  <1>7. ASSUME NEW q, q.since \in Nat, AnswerOk(q)
        PROVE  AnswerOk(q)'
    <2>1. q.answer = Error("INVARIANT_VIOLATED") =>
            /\ q.since < case'.revision
            /\ \E n \in DOMAIN diagnoses' : diagnoses'[n].status = "SUPERSEDED"
      <3>1. ASSUME q.answer = Error("INVARIANT_VIOLATED")
            PROVE  /\ q.since < case.revision /\ case # None
                   /\ \E n \in DOMAIN diagnoses : diagnoses[n].status = "SUPERSEDED"
        BY <1>7, <3>1 DEF AnswerOk, DiagnosisInv, BaseOk, TableOk
      <3>2. \A n \in DOMAIN diagnoses : diagnoses[n].status = "SUPERSEDED" => diagnoses'[n].status = "SUPERSEDED"
        <4>1. \A d, e : IsDiagnosis(d) /\ Retained(d, e) /\ d.status = "SUPERSEDED" => e.status = "SUPERSEDED"
          BY DEF Retained, IsDiagnosis
        <4> QED BY <1>4, <4>1
      <3> QED BY <1>1, <1>2, <1>4, <1>7, <3>1, <3>2
    <2> QED BY <1>3, <1>7, <2>1 DEF AnswerOk
  <1>8. \A q : ServedOk(q) => q.since \in Nat
    BY DEF ServedOk
  <1> QED BY <1>6, <1>7, <1>8

LEMMA SavedCase ==
  ASSUME DiagnosisInv, NEW row, NEW items, NEW table, NEW events, Grows(row, items, table),
         Saved(row, items, table, events), TableOk'
  PROVE  CaseOk' /\ HistoryOk'
  <1>a. Fresh(row) /\ row \in Row
    BY DEF Grows, Fresh
  <1>1. /\ row.revision \in Nat /\ case' = row /\ row # None /\ row \in Row
        /\ DOMAIN past' = DOMAIN past \cup {row.revision}
        /\ \A r \in DOMAIN past : past'[r] = past[r]
        /\ past'[row.revision] = View(row, items, table)
        /\ \A r \in DOMAIN past : r \in Nat /\ r < row.revision
    BY <1>a, PastGrows
  <1>2. Stored' = View(row, items, table)
    BY DEF Stored, Saved, View, LoadDiagnosis
  <1>3. CaseOk'
    BY <1>1, <1>2 DEF CaseOk, Grows, Fresh, Saved
  <1>4. \A n \in DOMAIN diagnoses : n \in DOMAIN diagnoses' /\ Now(n)' = Now(n)
    <2>1. ASSUME NEW n \in DOMAIN diagnoses
          PROVE  n \in DOMAIN diagnoses' /\ Now(n)' = Now(n)
      <3>1. PICK e, f : e = diagnoses[n] /\ f = diagnoses'[n]
        OBVIOUS
      <3>2. Retained(e, f) /\ IsDiagnosis(e)
        BY <3>1 DEF Grows, Saved, DiagnosisInv, BaseOk, TableOk
      <3>3. [e EXCEPT !.status = "CURRENT"] = [f EXCEPT !.status = "CURRENT"]
        BY <3>2 DEF Retained, IsDiagnosis
      <3> QED BY <3>1, <3>3 DEF Now, Grows, Saved
    <2> QED BY <2>1
  <1>5. ASSUME NEW r \in DOMAIN past
        PROVE  PastOk(r)'
    <2>1. PastOk(r) /\ r \in Nat /\ r <= row.revision /\ past'[r] = past[r]
      BY <1>1 DEF DiagnosisInv, BaseOk, HistoryOk
    <2>2. past[r].row.evidenceRevision <= row.evidenceRevision
      <3>1. case # None /\ case.evidenceRevision \in Nat /\ row.evidenceRevision \in Nat
            /\ past[r].row.evidenceRevision \in Nat
        BY <1>1, <2>1 DEF PastOk, DiagnosisInv, BaseOk, CaseOk, Row
      <3> QED BY <2>1, <3>1 DEF PastOk, Grows, Fresh
    <2>3. past[r].row.status \in Diagnosed =>
            /\ past[r].row.current \in DOMAIN diagnoses'
            /\ past[r].diagnosis = Now(past[r].row.current)'
            /\ past[r].diagnosis.revision = past[r].row.evidenceRevision
      <3>1. PICK n : n = past[r].row.current
        OBVIOUS
      <3> QED BY <1>4, <2>1, <3>1 DEF PastOk
    <2> QED BY <1>1, <2>1, <2>2, <2>3 DEF PastOk
  <1>6. PastOk(row.revision)'
    <2> DEFINE v == View(row, items, table)
    <2>1. v.row = row /\ (row.current # None => v.diagnosis = table[row.current]) /\ Sound(v)
      BY DEF View, LoadDiagnosis, Saved
    <2>2. row.status \in Diagnosed =>
            /\ row.current # None /\ row.current \in DOMAIN table
            /\ v.diagnosis.revision = row.evidenceRevision
      BY <2>1 DEF Sound, Grows, Fresh
    <2>3. ASSUME NEW n \in DOMAIN table, row.current = n
          PROVE  Now(n)' = table[n]
      <3>1. PICK f : f = table[n]
        OBVIOUS
      <3>2. diagnoses' = table
        BY DEF Saved
      <3>3. IsDiagnosis(f) /\ f.status = "CURRENT"
        BY <1>1, <2>3, <3>1, <3>2 DEF TableOk
      <3>4. [f EXCEPT !.status = "CURRENT"] = f
        BY <3>3 DEF IsDiagnosis
      <3> QED BY <3>1, <3>2, <3>4 DEF Now
    <2> HIDE DEF v
    <2>4. past'[row.revision] = v /\ diagnoses' = table
      BY <1>1 DEF v, Saved
    <2>5. row.evidenceRevision \in Nat
      BY <1>1 DEF Row
    <2>6. row.status \in Diagnosed => v.diagnosis = Now(row.current)'
      <3>1. PICK n : n = row.current
        OBVIOUS
      <3> QED BY <2>1, <2>2, <2>3, <3>1
    <2>7. PICK r : r = row.revision
      OBVIOUS
    <2>8. PastOk(r)'
      BY <1>1, <2>1, <2>2, <2>4, <2>5, <2>6, <2>7 DEF PastOk
    <2> QED BY <2>7, <2>8
  <1>7. \A r \in DOMAIN past' : PastOk(r)'
    <2>1. PICK n : n = row.revision
      OBVIOUS
    <2>2. PastOk(n)'
      BY <1>6, <2>1
    <2> QED BY <1>1, <1>5, <2>1, <2>2
  <1> QED BY <1>1, <1>2, <1>3, <1>7 DEF HistoryOk

(* The trail grows by a batch that starts where the one before ended.      *)
LEMMA SavedTrail ==
  ASSUME DiagnosisInv, NEW row, NEW items, NEW table, NEW events, Fresh(row),
         Saved(row, items, table, events),
         NEW required,
         BatchSound(events, required, IF case = None THEN None ELSE case.status, row),
         \/ /\ case = None /\ row.current = None
            /\ "DIAGNOSIS_CREATED" \notin required /\ "DIAGNOSIS_SUPERSEDED" \notin required
         \/ /\ case # None /\ row.current = None /\ "DIAGNOSIS_CREATED" \notin required
            /\ "DIAGNOSIS_SUPERSEDED" \in required <=> case.current # None
         \/ /\ case # None /\ case.current = None /\ row.current # None
            /\ "DIAGNOSIS_CREATED" \in required /\ "DIAGNOSIS_SUPERSEDED" \notin required
  PROVE  TrailOk'
  <1> DEFINE n == Len(trail) + 1
  <1>1. /\ row.revision \notin DOMAIN past /\ row.revision \in Nat /\ case' = row /\ row # None
        /\ DOMAIN past' = DOMAIN past \cup {row.revision}
        /\ \A r \in DOMAIN past : past'[r] = past[r]
        /\ past'[row.revision].row = row
        /\ \A r \in DOMAIN past : r \in Nat /\ r < row.revision
    BY PastGrows
  <1>2. /\ Len(trail) \in Nat /\ DOMAIN trail = 1 .. Len(trail) /\ Len(trail') = n
        /\ DOMAIN trail' = 1 .. n /\ trail'[n] = events
        /\ \A k \in 1 .. Len(trail) : trail'[k] = trail[k]
    BY AppendFacts DEF Saved, DiagnosisInv, BaseOk, Shaped
  <1>3. case = None => past = <<>> /\ trail = <<>> /\ row.revision = 1 /\ Len(trail) = 0
    BY EmptySeq DEF DiagnosisInv, BaseOk, HistoryOk, Fresh
  <1>4. case # None =>
          /\ TrailTells /\ First \in Nat /\ First' = First
          /\ DOMAIN past = (IF First = 0 THEN 1 ELSE First) .. case.revision
          /\ row.revision = case.revision + 1 /\ case.revision \in Nat
    BY <1>1, <1>2 DEF DiagnosisInv, TrailOk, Fresh, First, BaseOk, CaseOk, Row
  <1>5. First' \in Nat /\ DOMAIN past' = (IF First' = 0 THEN 1 ELSE First') .. row.revision
    <2>1. CASE case = None
      <3>1. First' = 0 /\ DOMAIN past' = {1} /\ row.revision = 1
        BY <1>1, <1>2, <1>3, <2>1 DEF First
      <3> QED BY <3>1
    <2>2. CASE case # None
      <3>1. First <= case.revision
        BY <1>2, <1>4, <2>2 DEF First
      <3> QED BY <1>1, <1>4, <2>2, <3>1
    <2> QED BY <2>1, <2>2
  <1>6. /\ \A j \in DOMAIN events :
             /\ events[j].revision = row.revision /\ events[j].to = row.status
             /\ events[j].from = IF case = None THEN None ELSE case.status
             /\ events[j].type \in required
        /\ \A type \in required : \E j \in DOMAIN events : events[j].type = type
    BY DEF BatchSound, Event
  <1> HIDE DEF n
  <1>n. n = Len(trail) + 1
    BY DEF n
  <1>7. ASSUME NEW k \in DOMAIN trail', NEW j \in DOMAIN trail'[k],
               NEW next, next = case'.revision - Len(trail') + k
        PROVE  /\ trail'[k][j].revision = next /\ trail'[k][j].to = past'[next].row.status
               /\ trail'[k][j].from = IF next - 1 \in DOMAIN past' THEN past'[next - 1].row.status ELSE None
    <2>1. CASE k = n
      <3>1. next = row.revision /\ trail'[k][j] = events[j] /\ j \in DOMAIN events
        BY <1>1, <1>2, <1>7, <2>1
      <3>2. CASE case = None
        <4>1. next - 1 \notin DOMAIN past'
          BY <1>1, <1>3, <3>1, <3>2
        <4> QED BY <1>1, <1>6, <3>1, <3>2, <4>1
      <3>3. CASE case # None
        <4>1. next - 1 = case.revision /\ case.revision \in DOMAIN past /\ past[case.revision] = Stored
              /\ Stored.row = case
          BY <1>4, <3>1, <3>3 DEF DiagnosisInv, BaseOk, HistoryOk, Stored, View
        <4> QED BY <1>1, <1>6, <3>1, <3>3, <4>1
      <3> QED BY <3>2, <3>3
    <2>2. CASE k # n
      <3>1. k \in DOMAIN trail /\ k \in 1 .. Len(trail) /\ trail'[k] = trail[k] /\ case # None
        BY <1>2, <1>3, <1>n, <2>2
      <3>2. next = case.revision - Len(trail) + k /\ next \in DOMAIN past /\ next \in Nat
        <4>1. /\ k \in Nat /\ 1 <= k /\ k <= Len(trail) /\ Len(trail) \in Nat
              /\ case.revision \in Nat /\ case'.revision = case.revision + 1
              /\ Len(trail') = Len(trail) + 1
          BY <1>1, <1>2, <1>4, <1>n, <3>1
        <4>2. next = case.revision - Len(trail) + k
          BY <1>7, <4>1
        <4>3. First = case.revision - Len(trail) /\ First \in Nat
          BY <1>4, <3>1 DEF First
        <4>4. next = First + k /\ next \in Nat /\ 1 <= next /\ next <= case.revision
          BY <4>1, <4>2, <4>3
        <4>5. next \in (IF First = 0 THEN 1 ELSE First) .. case.revision
          BY <4>1, <4>3, <4>4
        <4> QED BY <1>4, <3>1, <4>2, <4>4, <4>5
      <3>3. next - 1 \in DOMAIN past' <=> next - 1 \in DOMAIN past
        BY <1>1, <3>2
      <3>j. j \in DOMAIN trail[k]
        BY <1>7, <3>1
      <3>t. TrailTells /\ case # None
        BY <1>4, <3>1
      <3>4. /\ trail[k][j].revision = next /\ trail[k][j].to = past[next].row.status
            /\ trail[k][j].from = IF next - 1 \in DOMAIN past THEN past[next - 1].row.status ELSE None
        BY <3>1, <3>2, <3>j, <3>t DEF TrailTells
      <3> QED BY <1>1, <3>1, <3>2, <3>3, <3>4
    <2> QED BY <2>1, <2>2
  <1>8. \A type : Entries(type)' = Entries(type) \cup (IF type \in required THEN {n} ELSE {})
    <2>1. ASSUME NEW type, NEW k
          PROVE  k \in Entries(type)' <=> k \in Entries(type) \/ (k = n /\ type \in required)
      <3>1. k \in DOMAIN trail' <=> k \in DOMAIN trail \/ k = n
        BY <1>2, <1>n
      <3>2. k \in DOMAIN trail => trail'[k] = trail[k] /\ k # n
        BY <1>2, <1>n
      <3>3. (\E j \in DOMAIN events : events[j].type = type) <=> type \in required
        BY <1>6
      <3> QED BY <1>2, <3>1, <3>2, <3>3 DEF Entries
    <2> QED BY <2>1
  <1>9. \A type : IsFiniteSet(Entries(type)) /\ n \notin Entries(type)
    <2>1. IsFiniteSet(1 .. Len(trail)) /\ n \notin 1 .. Len(trail)
      BY <1>2, <1>n, FS_Interval
    <2>2. \A type : Entries(type) \subseteq 1 .. Len(trail)
      BY <1>2 DEF Entries
    <2> QED BY <2>1, <2>2, FS_Subset
  <1>10. \A type : Cardinality(Entries(type)) \in Nat
    BY <1>9, FS_CardinalityType
  <1>11. ASSUME NEW type
         PROVE  Cardinality(Entries(type)') =
                  Cardinality(Entries(type)) + (IF type \in required THEN 1 ELSE 0)
    <2>1. CASE type \in required
      <3>1. Entries(type)' = Entries(type) \cup {n}
        BY <1>8, <2>1
      <3> QED BY <1>9, <2>1, <3>1, OneMore
    <2>2. CASE type \notin required
      <3>1. Entries(type)' = Entries(type)
        BY <1>8, <2>2
      <3> QED BY <1>10, <2>2, <3>1
    <2> QED BY <2>1, <2>2
  <1>12. Cardinality(Entries("DIAGNOSIS_CREATED")') =
           Cardinality(Entries("DIAGNOSIS_SUPERSEDED")') + (IF row.current = None THEN 0 ELSE 1)
    <2>1. CASE case = None
      <3>1. \A type : Entries(type) = {}
        BY <1>2, <1>3, <2>1 DEF Entries
      <3>2. \A type : Cardinality(Entries(type)) = 0
        BY <3>1, FS_EmptySet
      <3> QED BY <1>11, <2>1, <3>2
    <2>2. CASE case # None
      <3>1. Cardinality(Entries("DIAGNOSIS_CREATED")) =
              Cardinality(Entries("DIAGNOSIS_SUPERSEDED")) + (IF case.current = None THEN 0 ELSE 1)
        BY <1>4, <2>2 DEF TrailTells
      <3> QED BY <1>10, <1>11, <2>2, <3>1
    <2> QED BY <2>1, <2>2
  <1> QED BY <1>1, <1>5, <1>7, <1>12 DEF TrailOk, TrailTells

LEMMA SavedStep ==
  ASSUME DiagnosisInv, NEW row, NEW items, NEW table, NEW events, Grows(row, items, table),
         Saved(row, items, table, events), TableOk', TrailOk', UNCHANGED release,
         NEW t \in Threads, NEW v, v = View(row, items, table),
         Answer(t, Result("CREATED", v, v.diagnosis))
  PROVE  DiagnosisInv'
  <1>1. Shaped /\ ServedOk(request[t])
    BY DEF DiagnosisInv, BaseOk, RequestsOk
  <1>2. PICK q : /\ DOMAIN q = Fields /\ q.pc = "DONE" /\ q.answer = Result("CREATED", v, v.diagnosis)
                 /\ q.ask = request[t].ask /\ q.since = request[t].since
                 /\ request' = [request EXCEPT ![t] = q]
    BY <1>1, AnswerIs DEF AnsweredWith
  <1>3. ServedOk(q)
    BY <1>1, <1>2 DEF ServedOk
  <1>4. \A p : ServedOk(p) => ServedOk(p)' /\ (AnswerOk(p) => AnswerOk(p)')
    BY SavedRequests
  <1>5. /\ row.revision \in Nat /\ row.revision \in DOMAIN past' /\ past'[row.revision] = v
        /\ v.row = row /\ case' = row /\ row # None
    <2>1. Fresh(row)
      BY DEF Grows
    <2> QED BY <2>1, PastGrows
  <1>6. AnswerOk(q)'
    <2>1. q.since \in Nat /\ q.since <= row.revision
      BY <1>3, <1>4, <1>5 DEF ServedOk
    <2>2. Moment(q, v)'
      BY <1>5, <2>1 DEF Moment
    <2>3. q.answer.view = v /\ q.answer.diagnosis = v.diagnosis /\ q.answer # Error("INVARIANT_VIOLATED")
      BY <1>2 DEF Result, Error
    <2> QED BY <2>2, <2>3 DEF AnswerOk
  <1>7. RequestsOk'
    <2>1. ASSUME NEW x \in Threads
          PROVE  ServedOk(request[x])' /\ AnswerOk(request[x])'
      <3>1. PICK p : p = request'[x]
        OBVIOUS
      <3>2. ServedOk(p)' /\ AnswerOk(p)'
        <4>1. CASE x = t
          <5>1. p = q
            BY <1>1, <1>2, <3>1, <4>1 DEF Shaped
          <5> QED BY <1>3, <1>4, <1>6, <5>1
        <4>2. CASE x # t
          <5>1. p = request[x]
            BY <1>1, <1>2, <3>1, <4>2 DEF Shaped
          <5>2. ServedOk(p) /\ AnswerOk(p)
            BY <5>1 DEF DiagnosisInv, RequestsOk
          <5> QED BY <1>4, <5>2
        <4> QED BY <4>1, <4>2
      <3> QED BY <3>1, <3>2
    <2> QED BY <2>1 DEF RequestsOk
  <1>8. Shaped'
    <2>1. IsSeq(diagnoses') /\ IsSeq(trail')
      BY <1>1, AppendFacts DEF Shaped, Saved, Grows
    <2> QED BY <1>1, <1>2, <2>1 DEF Shaped
  <1> QED BY <1>7, <1>8, SavedCase DEF DiagnosisInv, BaseOk

-----------------------------------------------------------------------------
(* The first write.                                                        *)

LEMMA StatusesAre ==
  /\ \A r : StatusAfterEvidence(r) \in Statuses \ Diagnosed
  /\ \A d : StatusAfterDiagnosis(d) \in Diagnosed /\ Diagnosed \subseteq Statuses
  BY DEF StatusAfterEvidence, StatusAfterDiagnosis, Statuses, Diagnosed

(* A case without a diagnosis is sound if its counts are right.            *)
LEMMA PlainIsSound ==
  ASSUME NEW row \in Row, NEW items, NEW table, row.current = None,
         row.status = StatusAfterEvidence(Readiness(items)), row.readiness = Readiness(items),
         \A i \in items : Fits(i), row.evidenceRevision = Cardinality(items),
         row.revision >= row.evidenceRevision + 1,
         Cardinality({i.id : i \in items}) = Cardinality(items)
  PROVE  Sound(View(row, items, table))
  <1> DEFINE v == View(row, items, table)
  <1>1. v.row = row /\ v.evidence = items
    BY DEF View
  <1>2. row.status \notin Diagnosed
    BY StatusesAre
  <1> HIDE DEF v
  <1>3. Sound(v)
    BY <1>1, <1>2 DEF Sound, Canonical
  <1> QED BY <1>3 DEF v

LEMMA Creates ==
  ASSUME DiagnosisInv, NEW t \in Threads, Create(t), UNCHANGED release
  PROVE  DiagnosisInv'
  <1> DEFINE events == <<Event("CASE_CREATED", None, NewCase)>>
  <1>1. case = None /\ diagnoses = <<>>
    BY DEF Create, DiagnosisInv, BaseOk, HistoryOk
  <1>2. NewCase \in Row
    BY ReadingsAre, StatusesAre DEF NewCase, Row
  <1>3. /\ NewCase.revision = 1 /\ NewCase.evidenceRevision = 0 /\ NewCase.current = None
        /\ NewCase.readiness = Readiness({}) /\ NewCase.status = StatusAfterEvidence(Readiness({}))
    BY DEF NewCase
  <1>4. BatchSound(events, {"CASE_CREATED"}, None, NewCase)
    <2>1. PICK row : row = NewCase
      OBVIOUS
    <2>2. BatchSound(<<Event("CASE_CREATED", None, row)>>, {"CASE_CREATED"}, None, row)
      <3>1. "CASE_CREATED" # "B" /\ "CASE_CREATED" # "C" /\ "B" # "C"
        OBVIOUS
      <3> QED BY <3>1, Batches
    <2> QED BY <2>1, <2>2
  <1> HIDE DEF events
  <1>5. CreateSound(NewCase, events)
    BY <1>3, <1>4 DEF CreateSound
  <1>6. Sound(View(NewCase, {}, <<>>))
    <2>1. Cardinality({}) = 0 /\ {i.id : i \in {}} = {}
      BY FS_EmptySet
    <2>2. \A i \in {} : Fits(i)
      OBVIOUS
    <2> QED BY <1>2, <1>3, <2>1, <2>2, PlainIsSound
  <1>7. Write(t, NewCase, {}, <<>>, events)
    BY <1>5 DEF Create, events
  <1>8. PICK row, v : row = NewCase /\ v = View(NewCase, {}, <<>>)
    OBVIOUS
  <1>9. Saved(row, {}, <<>>, events) /\ Answer(t, Result("CREATED", v, v.diagnosis))
    BY <1>6, <1>7, <1>8 DEF Write, Saved, InsertCase, InsertAudit
  <1>10. Grows(row, {}, <<>>)
    <2>1. IsFiniteSet({}) /\ IsSeq(<<>>)
      BY FS_EmptySet, EmptySeq DEF IsSeq
    <2>2. row.status \notin Diagnosed
      BY <1>3, <1>8, StatusesAre
    <2> QED BY <1>1, <1>2, <1>3, <1>8, <2>1, <2>2 DEF Grows, Fresh
  <1>11. TableOk'
    BY <1>9 DEF Saved, TableOk
  <1>12. TrailOk'
    BY <1>1, <1>3, <1>4, <1>8, <1>9, <1>10, SavedTrail DEF Grows
  <1> QED BY <1>8, <1>9, <1>10, <1>11, <1>12, SavedStep

-----------------------------------------------------------------------------
(* Adding an item.                                                         *)

LEMMA SupersededTable ==
  ASSUME DiagnosisInv, case # None
  PROVE  /\ IsSeq(Superseded) /\ DOMAIN Superseded = DOMAIN diagnoses
         /\ \A n \in DOMAIN diagnoses :
              Superseded[n] = IF case.current = n THEN [diagnoses[n] EXCEPT !.status = "SUPERSEDED"]
                              ELSE diagnoses[n]
  <1>1. IsSeq(diagnoses)
    BY DEF DiagnosisInv, BaseOk, Shaped
  <1>2. /\ case.status \in Diagnosed <=> case.current # None
        /\ case.current # None => case.current \in DOMAIN diagnoses
    BY DEF DiagnosisInv, BaseOk, CaseOk
  <1>3. CASE case.status \in Diagnosed
    <2>1. PICK n, e : n = case.current /\ e = [diagnoses[n] EXCEPT !.status = "SUPERSEDED"]
      OBVIOUS
    <2>2. n \in DOMAIN diagnoses /\ Superseded = [diagnoses EXCEPT ![n] = e]
      BY <1>2, <1>3, <2>1 DEF Superseded, Reopening
    <2>3. PICK s : s = diagnoses
      OBVIOUS
    <2>4. LET u == [s EXCEPT ![n] = e] IN IsSeq(u) /\ DOMAIN u = DOMAIN s
      BY <1>1, <2>2, <2>3, Replaced
    <2> QED BY <2>1, <2>2, <2>3, <2>4
  <1>4. CASE case.status \notin Diagnosed
    <2>1. Superseded = diagnoses /\ case.current = None
      BY <1>2, <1>4 DEF Superseded, Reopening
    <2>2. \A n \in DOMAIN diagnoses : n # None
      BY <1>1, AppendFacts, NullAssumption
    <2> QED BY <1>1, <2>1, <2>2
  <1> QED BY <1>3, <1>4

(* The batch a request works out is the batch the store asks for.          *)
LEMMA EvidenceBatch ==
  ASSUME NEW row, NEW snap, snap.row = case
  PROVE  BatchSound(EvidenceEvents(snap, row), EvidenceTypes(row), case.status, row)
  <1>1. PICK from : from = case.status
    OBVIOUS
  <1> DEFINE E(x) == Event(x, from, row)
             a == "EVIDENCE_ADDED"
             b == "DIAGNOSIS_SUPERSEDED"
             c == "STATE_TRANSITIONED"
  <1>2. a # b /\ a # c /\ b # c
    OBVIOUS
  <1>3. EvidenceEvents(snap, row) =
          (<<E(a)>> \o (IF Reopening(case) THEN <<E(b)>> ELSE <<>>))
             \o (IF row.status # from THEN <<E(c)>> ELSE <<>>)
    BY <1>1 DEF EvidenceEvents
  <1>4. EvidenceTypes(row) = {a} \union (IF Reopening(case) THEN {b} ELSE {})
                               \union (IF row.status # from THEN {c} ELSE {})
    BY <1>1 DEF EvidenceTypes
  <1> HIDE DEF E, a, b, c
  <1>5. \A x, y : <<x>> \o <<y>> = <<x, y>> /\ <<x>> \o <<>> = <<x>>
    BY Joins
  <1>6. \A x, y, z : <<x, y>> \o <<z>> = <<x, y, z>> /\ <<x, y>> \o <<>> = <<x, y>>
    BY Joins
  <1>7. /\ BatchSound(<<E(a)>>, {a}, from, row)
        /\ BatchSound(<<E(a), E(b)>>, {a, b}, from, row)
        /\ BatchSound(<<E(a), E(c)>>, {a, c}, from, row)
        /\ BatchSound(<<E(a), E(b), E(c)>>, {a, b, c}, from, row)
    BY <1>2, Batches DEF E
  <1>8. CASE Reopening(case) /\ row.status # from
    <2>a. EvidenceEvents(snap, row) = (<<E(a)>> \o <<E(b)>>) \o <<E(c)>>
      BY <1>3, <1>8
    <2>b. <<E(a)>> \o <<E(b)>> = <<E(a), E(b)>>
      BY <1>5
    <2>c. <<E(a), E(b)>> \o <<E(c)>> = <<E(a), E(b), E(c)>>
      BY <1>6
    <2>1. EvidenceEvents(snap, row) = <<E(a), E(b), E(c)>>
      BY <2>a, <2>b, <2>c, Zenon
    <2>2. EvidenceTypes(row) = {a, b, c}
      BY <1>4, <1>8
    <2> QED BY <1>1, <1>7, <2>1, <2>2
  <1>9. CASE Reopening(case) /\ row.status = from
    <2>1. EvidenceEvents(snap, row) = <<E(a), E(b)>>
      BY <1>3, <1>5, <1>6, <1>9
    <2>2. EvidenceTypes(row) = {a, b}
      BY <1>4, <1>9
    <2> QED BY <1>1, <1>7, <2>1, <2>2
  <1>10. CASE ~Reopening(case) /\ row.status # from
    <2>1. EvidenceEvents(snap, row) = <<E(a), E(c)>>
      BY <1>3, <1>5, <1>6, <1>10
    <2>2. EvidenceTypes(row) = {a, c}
      BY <1>4, <1>10
    <2> QED BY <1>1, <1>7, <2>1, <2>2
  <1>11. CASE ~Reopening(case) /\ row.status = from
    <2>1. EvidenceEvents(snap, row) = <<E(a)>>
      BY <1>3, <1>5, <1>6, <1>11
    <2>2. EvidenceTypes(row) = {a}
      BY <1>4, <1>11
    <2> QED BY <1>1, <1>7, <2>1, <2>2
  <1> QED BY <1>8, <1>9, <1>10, <1>11

(* The case with one more item is a sound case.                            *)
LEMMA ItemFits ==
  ASSUME DiagnosisInv, case # None, NEW i, Fits(i), SameId(evidence, i) = {},
         NEW row, row = WithItem(Stored, i), NEW items, items = evidence \union {i}
  PROVE  /\ Sound(View(row, items, Superseded)) /\ Grows(row, items, Superseded)
         /\ row.readiness = Readiness(items) /\ row.status = StatusAfterEvidence(Readiness(items))
         /\ row.current = None
  <1>1. Stored.row = case /\ Stored.evidence = evidence
    BY DEF Stored, View
  <1>2. case \in Row /\ IsFiniteSet(evidence) /\ Sound(Stored) /\ case.revision \in Nat
        /\ case.evidenceRevision \in Nat
    BY DEF DiagnosisInv, BaseOk, CaseOk, Row
  <1>3. /\ case.evidenceRevision = Cardinality(evidence)
        /\ case.revision >= case.evidenceRevision + 1
        /\ Cardinality({j.id : j \in evidence}) = Cardinality(evidence)
        /\ \A j \in evidence : Fits(j)
    BY <1>1, <1>2 DEF Sound, Canonical
  <1>4. /\ row.readiness = Readiness(items) /\ row.status = StatusAfterEvidence(Readiness(items))
        /\ row.revision = case.revision + 1 /\ row.evidenceRevision = case.evidenceRevision + 1
        /\ row.current = None
        /\ row = [status |-> row.status, revision |-> row.revision,
                  evidenceRevision |-> row.evidenceRevision, readiness |-> row.readiness,
                  current |-> row.current]
    BY <1>1 DEF WithItem
  <1>5. row.readiness \in Readings /\ row.status \in Statuses /\ row.status \notin Diagnosed
    BY <1>4, ReadingsAre, StatusesAre
  <1>6. row \in Row
    BY <1>2, <1>4, <1>5 DEF Row
  <1>7. i \notin evidence /\ i.id \notin {j.id : j \in evidence}
    BY DEF SameId
  <1>8. IsFiniteSet(items) /\ Cardinality(items) = Cardinality(evidence) + 1
    BY <1>2, <1>7, OneMore
  <1>9. Cardinality({j.id : j \in items}) = Cardinality({j.id : j \in evidence}) + 1
    <2>1. IsFiniteSet({j.id : j \in evidence})
      <3>1. PICK f : f = [j \in evidence |-> j.id]
        OBVIOUS
      <3>2. f \in Surjection(evidence, {j.id : j \in evidence})
        BY <3>1 DEF Surjection
      <3> QED BY <1>2, <3>2, FS_Surjection
    <2>2. {j.id : j \in items} = {j.id : j \in evidence} \cup {i.id}
      OBVIOUS
    <2> QED BY <1>7, <2>1, <2>2, OneMore
  <1>10. /\ row.evidenceRevision = Cardinality(items) /\ row.revision >= row.evidenceRevision + 1
         /\ Cardinality({j.id : j \in items}) = Cardinality(items)
         /\ \A j \in items : Fits(j)
    BY <1>2, <1>3, <1>4, <1>8, <1>9
  <1>11. Sound(View(row, items, Superseded))
    <2>1. PICK table : table = Superseded
      OBVIOUS
    <2>2. Sound(View(row, items, table))
      BY <1>4, <1>6, <1>10, PlainIsSound
    <2> QED BY <2>1, <2>2
  <1>12. Grows(row, items, Superseded)
    <2>1. \A n \in DOMAIN diagnoses : n \in DOMAIN Superseded /\ Retained(diagnoses[n], Superseded[n])
      <3>1. ASSUME NEW n \in DOMAIN diagnoses
            PROVE  n \in DOMAIN Superseded /\ Retained(diagnoses[n], Superseded[n])
        <4>1. PICK d : d = diagnoses[n]
          OBVIOUS
        <4>2. IsDiagnosis(d) /\ d.status \in {"CURRENT", "SUPERSEDED"}
          BY <4>1 DEF DiagnosisInv, BaseOk, TableOk
        <4>3. [d EXCEPT !.status = d.status] = d
          BY <4>2 DEF IsDiagnosis
        <4>4. Superseded[n] = d \/ Superseded[n] = [d EXCEPT !.status = "SUPERSEDED"]
          BY <4>1, SupersededTable
        <4> QED BY <4>1, <4>2, <4>3, <4>4, SupersededTable DEF Retained
      <3> QED BY <3>1
    <2>2. Fresh(row)
      BY <1>2, <1>4, <1>5, <1>6 DEF Fresh
    <2> QED BY <1>4, <1>8, <2>1, <2>2, SupersededTable DEF Grows
  <1> QED BY <1>4, <1>11, <1>12

LEMMA SupersededRows ==
  ASSUME DiagnosisInv, case # None, NEW row, NEW items, Grows(row, items, Superseded),
         row.current = None, row.evidenceRevision = case.evidenceRevision + 1,
         case' = row, diagnoses' = Superseded
  PROVE  TableOk'
  <1>1. TableOk /\ case.evidenceRevision \in Nat /\ row # None /\ row.evidenceRevision \in Nat
    BY NullAssumption DEF DiagnosisInv, BaseOk, CaseOk, Row, Grows, Fresh
  <1>2. \A n \in DOMAIN diagnoses : n # None
    BY AppendFacts, NullAssumption DEF DiagnosisInv, BaseOk, Shaped
  <1>3. DOMAIN diagnoses' = DOMAIN diagnoses
    BY SupersededTable
  <1>4. ASSUME NEW n \in DOMAIN diagnoses
        PROVE  /\ IsDiagnosis(diagnoses'[n]) /\ diagnoses'[n].status = "SUPERSEDED"
               /\ diagnoses'[n].revision = diagnoses[n].revision
    <2>1. PICK d, e : d = diagnoses[n] /\ e = diagnoses'[n]
      OBVIOUS
    <2>2. IsDiagnosis(d) /\ d.status \in {"CURRENT", "SUPERSEDED"} /\ (d.status = "CURRENT" <=> case.current = n)
      BY <1>1, <2>1 DEF TableOk
    <2>3. e = IF case.current = n THEN [d EXCEPT !.status = "SUPERSEDED"] ELSE d
      BY <2>1, SupersededTable
    <2>4. IsDiagnosis(e) /\ e.status = "SUPERSEDED" /\ e.revision = d.revision
      <3>1. CASE case.current = n
        BY <2>2, <2>3, <3>1 DEF IsDiagnosis
      <3>2. CASE case.current # n
        BY <2>2, <2>3, <3>2
      <3> QED BY <3>1, <3>2
    <2> QED BY <2>1, <2>4
  <1>5. ASSUME NEW n \in DOMAIN diagnoses
        PROVE  /\ diagnoses[n].revision \in Nat /\ diagnoses[n].revision <= case.evidenceRevision
               /\ \A m \in DOMAIN diagnoses : diagnoses[m].revision = diagnoses[n].revision => m = n
    BY <1>1 DEF TableOk
  <1> QED BY <1>1, <1>2, <1>3, <1>4, <1>5 DEF TableOk

LEMMA AddsEvidence ==
  ASSUME DiagnosisInv, NEW t \in Threads, AppendEvidence(t), UNCHANGED release
  PROVE  DiagnosisInv'
  <1>1. PICK i, snap : i = request[t].ask.item /\ snap = request[t].snap
    OBVIOUS
  <1>2. /\ Moment(request[t], snap) /\ Fits(i)
    BY <1>1 DEF AppendEvidence, Asking, DiagnosisInv, RequestsOk, ServedOk
  <1>3. case # None /\ Moment(request[t], Stored)
    <2>1. case # None
      BY <1>2 DEF Moment, DiagnosisInv, BaseOk, HistoryOk, PastOk
    <2> QED BY <2>1, PresentMoment
  <1>4. CASE SameId(evidence, i) # {}
    <2>1. PICK a : /\ a = IF SameContent(evidence, i) THEN Result("REPLAY", Stored, Stored.diagnosis)
                          ELSE Error("EVIDENCE_CONFLICT")
                   /\ Unchanged /\ Answer(t, a)
      BY <1>1, <1>4 DEF AppendEvidence, Refuse
    <2>2. Good(request[t], a)
      BY <1>3, <2>1, GoodViews, GoodErrors
    <2> QED BY <2>1, <2>2, Settles
  <1>5. CASE /\ SameId(evidence, i) = {}
             /\ <<case.revision, case.evidenceRevision>> # <<snap.row.revision, snap.row.evidenceRevision>>
    <2>1. Unchanged /\ Answer(t, Error("CONCURRENT_WRITE"))
      BY <1>1, <1>5 DEF AppendEvidence, Refuse
    <2>2. Good(request[t], Error("CONCURRENT_WRITE"))
      BY GoodErrors
    <2> QED BY <2>1, <2>2, Settles
  <1>6. CASE /\ SameId(evidence, i) = {}
             /\ <<case.revision, case.evidenceRevision>> = <<snap.row.revision, snap.row.evidenceRevision>>
    <2>1. snap = Stored /\ Stored.row = case /\ Stored.evidence = evidence
      BY <1>2, <1>3, <1>6 DEF Moment, DiagnosisInv, BaseOk, HistoryOk, Stored, View
    <2>2. PICK row, items, events :
            /\ row = WithItem(snap, i) /\ items = evidence \union {i} /\ events = EvidenceEvents(snap, row)
      OBVIOUS
    <2>3. /\ Sound(View(row, items, Superseded)) /\ Grows(row, items, Superseded)
          /\ row.readiness = Readiness(items) /\ row.status = StatusAfterEvidence(Readiness(items))
          /\ row.current = None /\ row.evidenceRevision = case.evidenceRevision + 1
      <3>1. row.evidenceRevision = case.evidenceRevision + 1
        BY <2>1, <2>2 DEF WithItem
      <3> QED BY <1>2, <1>3, <1>6, <2>1, <2>2, <3>1, ItemFits
    <2>4. BatchSound(events, EvidenceTypes(row), case.status, row)
      BY <2>1, <2>2, EvidenceBatch
    <2>5. Offer(snap, i) = [row |-> row, events |-> events]
      BY <1>6, <2>1, <2>2 DEF Offer
    <2>6. AppendSound(Offer(snap, i), InsertEvidence(evidence, i))
      BY <2>2, <2>3, <2>4, <2>5 DEF AppendSound, InsertEvidence
    <2>7. Write(t, row, items, Superseded, events)
      <3>1. Write(t, Offer(snap, i).row, InsertEvidence(evidence, i), Superseded, Offer(snap, i).events)
        BY <1>1, <1>6, <2>6 DEF AppendEvidence
      <3> QED BY <2>2, <2>5, <3>1 DEF InsertEvidence
    <2>8. PICK table, v : table = Superseded /\ v = View(row, items, table)
      OBVIOUS
    <2>9. Saved(row, items, table, events) /\ Answer(t, Result("CREATED", v, v.diagnosis))
      BY <2>3, <2>7, <2>8 DEF Write, Saved, InsertCase, InsertAudit
    <2>10. Grows(row, items, table)
      BY <2>3, <2>8
    <2>11. TableOk'
      BY <1>3, <2>3, <2>8, <2>9, SupersededRows DEF Saved
    <2>12. TrailOk'
      <3>1. Fresh(row)
        BY <2>10 DEF Grows
      <3>2. PICK required : required = EvidenceTypes(row)
        OBVIOUS
      <3>3. "DIAGNOSIS_CREATED" \notin required
            /\ ("DIAGNOSIS_SUPERSEDED" \in required <=> case.current # None)
        BY <1>3, <3>2 DEF EvidenceTypes, Reopening, DiagnosisInv, BaseOk, CaseOk
      <3>4. BatchSound(events, required, IF case = None THEN None ELSE case.status, row)
        BY <1>3, <2>4, <3>2
      <3> QED BY <1>3, <2>3, <2>9, <3>1, <3>3, <3>4, SavedTrail
    <2> QED BY <2>8, <2>9, <2>10, <2>11, <2>12, SavedStep
  <1> QED BY <1>4, <1>5, <1>6

-----------------------------------------------------------------------------
(* Diagnosing.                                                             *)

LEMMA Retries ==
  ASSUME DiagnosisInv, Unchanged, UNCHANGED release, NEW t \in Threads, RetryOr(t, "INPUT_STALE")
  PROVE  DiagnosisInv'
  <1>1. CASE Answer(t, Error("INPUT_STALE"))
    <2>1. Good(request[t], Error("INPUT_STALE"))
      BY GoodErrors
    <2> QED BY <1>1, <2>1, Settles
  <1>2. CASE Go(t, "LOAD")
    <2>1. Shaped /\ ServedOk(request[t])
      BY DEF DiagnosisInv, BaseOk, RequestsOk
    <2>2. PICK q : /\ DOMAIN q = Fields /\ q.pc = "LOAD" /\ q.snap = request[t].snap
                   /\ q.since = request[t].since /\ q.ask = request[t].ask
                   /\ q.answer = request[t].answer /\ request' = [request EXCEPT ![t] = q]
      BY <1>2, <2>1, Goes
    <2>3. ServedOk(q)
      BY <2>1, <2>2 DEF ServedOk
    <2> QED BY <2>2, <2>3, GoesOn
  <1> QED BY <1>1, <1>2 DEF RetryOr

(* What is found for the present evidence is the diagnosis of the case.    *)
LEMMA FoundIsCurrent ==
  ASSUME DiagnosisInv, case # None, NEW n \in DOMAIN diagnoses,
         diagnoses[n].revision = case.evidenceRevision
  PROVE  diagnoses[n].status = "CURRENT" /\ Stored.diagnosis = diagnoses[n]
  <1>1. case.current = n /\ diagnoses[n].status = "CURRENT"
    BY DEF DiagnosisInv, BaseOk, TableOk
  <1>2. n # None
    BY AppendFacts, NullAssumption DEF DiagnosisInv, BaseOk, Shaped
  <1> QED BY <1>1, <1>2 DEF Stored, View, LoadDiagnosis

LEMMA Replays ==
  ASSUME DiagnosisInv, Unchanged, UNCHANGED release, NEW t \in Threads, NEW v, Moment(request[t], v),
         NEW d, d.status = "CURRENT", v.diagnosis = d, Replay(t, v, d)
  PROVE  DiagnosisInv'
  <1>1. Answer(t, Result("REPLAY", v, d))
    BY DEF Replay
  <1>2. Good(request[t], Result("REPLAY", v, d))
    BY GoodViews
  <1> QED BY <1>1, <1>2, Settles

LEMMA DiagnosisBatch ==
  ASSUME NEW snap, NEW row, NEW from, from = snap.row.status, NEW d, d.draft = Draft(snap)
  PROVE  BatchSound(DiagnosisEvents(snap, row), DiagnosisTypes(d), from, row)
  <1> DEFINE E(x) == Event(x, from, row)
             a == "DIAGNOSIS_CREATED"
             b == "ROUTING_PROPOSED"
             c == "STATE_TRANSITIONED"
  <1>1. a # b /\ a # c /\ b # c
    OBVIOUS
  <1>2. DiagnosisEvents(snap, row) =
          (<<E(a)>> \o (IF d.draft.routes # {} THEN <<E(b)>> ELSE <<>>)) \o <<E(c)>>
    BY DEF DiagnosisEvents
  <1>3. DiagnosisTypes(d) = {a, c} \union (IF d.draft.routes # {} THEN {b} ELSE {})
    BY DEF DiagnosisTypes
  <1> HIDE DEF E, a, b, c
  <1>4. BatchSound(<<E(a), E(c)>>, {a, c}, from, row) /\ BatchSound(<<E(a), E(b), E(c)>>, {a, b, c}, from, row)
    BY <1>1, Batches DEF E
  <1>5. CASE d.draft.routes # {}
    <2>1. DiagnosisEvents(snap, row) = (<<E(a)>> \o <<E(b)>>) \o <<E(c)>>
      BY <1>2, <1>5
    <2>2. <<E(a)>> \o <<E(b)>> = <<E(a), E(b)>> /\ <<E(a), E(b)>> \o <<E(c)>> = <<E(a), E(b), E(c)>>
      BY Joins
    <2>3. DiagnosisEvents(snap, row) = <<E(a), E(b), E(c)>>
      BY <2>1, <2>2, Zenon
    <2>4. DiagnosisTypes(d) = {a, b, c}
      BY <1>3, <1>5
    <2> QED BY <1>4, <2>3, <2>4
  <1>6. CASE d.draft.routes = {}
    <2>1. DiagnosisEvents(snap, row) = (<<E(a)>> \o <<>>) \o <<E(c)>>
      BY <1>2, <1>6
    <2>2. <<E(a)>> \o <<>> = <<E(a)>> /\ <<E(a)>> \o <<E(c)>> = <<E(a), E(c)>>
      BY Joins
    <2>3. DiagnosisEvents(snap, row) = <<E(a), E(c)>>
      BY <2>1, <2>2, Zenon
    <2>4. DiagnosisTypes(d) = {a, c}
      BY <1>3, <1>6
    <2> QED BY <1>4, <2>3, <2>4
  <1> QED BY <1>5, <1>6

(* A case that is ready, with the diagnosis of its evidence, is sound.     *)
LEMMA DiagnosisFits ==
  ASSUME DiagnosisInv, case # None, case.status = "EVIDENCE_READY",
         NEW d, d = Made(Stored), NEW row, row = WithDiagnosis(Stored),
         NEW table, table = Append(diagnoses, d)
  PROVE  /\ Sound(View(row, evidence, table)) /\ Grows(row, evidence, table)
         /\ d.draft = Evaluate(evidence) /\ DraftSound(d.draft)
         /\ IsDiagnosis(d) /\ d.revision = case.evidenceRevision /\ d.status = "CURRENT"
         /\ row.status = StatusAfterDiagnosis(d.draft) /\ row.evidenceRevision = case.evidenceRevision
         /\ row.current = Len(diagnoses) + 1 /\ row.current # None /\ case.current = None
  <1>1. Stored.row = case /\ Stored.evidence = evidence
    BY DEF Stored, View
  <1>2. /\ case \in Row /\ IsFiniteSet(evidence) /\ Sound(Stored) /\ case.revision \in Nat
        /\ case.evidenceRevision \in Nat /\ case.readiness \in Readings
    BY DEF DiagnosisInv, BaseOk, CaseOk, Row
  <1>3. case.status \notin Diagnosed /\ case.current = None
    BY DEF DiagnosisInv, BaseOk, CaseOk, Diagnosed
  <1>4. /\ case.evidenceRevision = Cardinality(evidence)
        /\ case.revision >= case.evidenceRevision + 1
        /\ case.readiness = Readiness(evidence) /\ Ready(case.readiness)
        /\ Cardinality({j.id : j \in evidence}) = Cardinality(evidence)
        /\ \A j \in evidence : Canonical(j)
    BY <1>1, <1>2, <1>3 DEF Sound, StatusAfterEvidence
  <1>5. /\ IsSeq(table) /\ Len(diagnoses) \in Nat /\ DOMAIN diagnoses = 1 .. Len(diagnoses)
        /\ DOMAIN table = 1 .. Len(diagnoses) + 1
        /\ \A n \in 1 .. Len(diagnoses) : table[n] = diagnoses[n]
        /\ table[Len(diagnoses) + 1] = d
    BY AppendFacts DEF DiagnosisInv, BaseOk, Shaped
  <1>6. /\ d.draft = Evaluate(evidence) /\ IsDiagnosis(d) /\ d.status = "CURRENT"
        /\ d.revision = case.evidenceRevision
    BY <1>1 DEF Made, Draft, IsDiagnosis
  <1>7. DraftSound(d.draft) /\ Referenced(d.draft) \subseteq {j.id : j \in evidence}
    BY <1>6, DraftsAreSound
  <1>8. /\ row.status = StatusAfterDiagnosis(d.draft) /\ row.revision = case.revision + 1
        /\ row.evidenceRevision = case.evidenceRevision /\ row.readiness = case.readiness
        /\ row.current = Len(diagnoses) + 1
        /\ row = [status |-> row.status, revision |-> row.revision,
                  evidenceRevision |-> row.evidenceRevision, readiness |-> row.readiness,
                  current |-> row.current]
    BY <1>1, <1>2, <1>6 DEF WithDiagnosis, Draft, Row
  <1>9. row.status \in Diagnosed /\ row.status \in Statuses
    BY <1>8, StatusesAre
  <1>10. row \in Row /\ row.current # None
    BY <1>2, <1>5, <1>8, <1>9, NullAssumption DEF Row
  <1>11. Sound(View(row, evidence, table))
    <2>1. PICK v : v = View(row, evidence, table)
      OBVIOUS
    <2>2. v.row = row /\ v.evidence = evidence /\ v.diagnosis = d
      BY <1>5, <1>8, <1>10, <2>1 DEF View, LoadDiagnosis
    <2>3. row.revision >= row.evidenceRevision + 1
      BY <1>2, <1>4, <1>8
    <2>4. Sound(v)
      BY <1>4, <1>6, <1>7, <1>8, <1>9, <1>10, <2>2, <2>3 DEF Sound
    <2> QED BY <2>1, <2>4
  <1>12. Grows(row, evidence, table)
    <2>1. Fresh(row)
      BY <1>2, <1>8, <1>9, <1>10 DEF Fresh
    <2>2. \A n \in DOMAIN diagnoses : n \in DOMAIN table /\ Retained(diagnoses[n], table[n])
      <3>1. ASSUME NEW n \in DOMAIN diagnoses
            PROVE  n \in DOMAIN table /\ Retained(diagnoses[n], table[n])
        <4>1. PICK e : e = diagnoses[n]
          OBVIOUS
        <4>2. IsDiagnosis(e) /\ e.status \in {"CURRENT", "SUPERSEDED"}
          BY <4>1 DEF DiagnosisInv, BaseOk, TableOk
        <4>3. e = [e EXCEPT !.status = e.status]
          BY <4>2 DEF IsDiagnosis
        <4>4. Retained(e, e)
          BY <4>2, <4>3 DEF Retained
        <4>5. n \in DOMAIN table /\ table[n] = e
          BY <1>5, <4>1
        <4> QED BY <4>1, <4>4, <4>5
      <3> QED BY <3>1
    <2>3. row.current \in DOMAIN table /\ table[row.current] = d
      BY <1>5, <1>8
    <2> QED BY <1>2, <1>5, <1>6, <2>1, <2>2, <2>3 DEF Grows
  <1> QED BY <1>3, <1>6, <1>7, <1>8, <1>10, <1>11, <1>12

LEMMA DiagnosedRows ==
  ASSUME DiagnosisInv, case # None, case.current = None, NEW d, NEW row,
         IsDiagnosis(d), d.revision = case.evidenceRevision, d.status = "CURRENT",
         row.evidenceRevision = case.evidenceRevision, row.current = Len(diagnoses) + 1, row # None,
         case' = row, diagnoses' = Append(diagnoses, d)
  PROVE  TableOk'
  <1>1. TableOk /\ case.evidenceRevision \in Nat
    BY DEF DiagnosisInv, BaseOk, CaseOk, Row
  <1>2. /\ Len(diagnoses) \in Nat /\ DOMAIN diagnoses = 1 .. Len(diagnoses)
        /\ DOMAIN diagnoses' = 1 .. Len(diagnoses) + 1
        /\ \A n \in 1 .. Len(diagnoses) : diagnoses'[n] = diagnoses[n]
        /\ diagnoses'[Len(diagnoses) + 1] = d
    BY AppendFacts DEF DiagnosisInv, BaseOk, Shaped
  <1>3. \A n \in DOMAIN diagnoses : n # None
    BY <1>2, NullAssumption
  <1>4. ASSUME NEW n \in DOMAIN diagnoses
        PROVE  /\ IsDiagnosis(diagnoses[n]) /\ diagnoses[n].status = "SUPERSEDED"
               /\ diagnoses[n].revision \in Nat /\ diagnoses[n].revision <= case.evidenceRevision
               /\ diagnoses[n].revision # case.evidenceRevision
               /\ \A m \in DOMAIN diagnoses : diagnoses[m].revision = diagnoses[n].revision => m = n
    BY <1>1, <1>3 DEF TableOk
  <1>5. \A n \in DOMAIN diagnoses' :
          \/ n \in DOMAIN diagnoses /\ diagnoses'[n] = diagnoses[n] /\ n # Len(diagnoses) + 1
          \/ n = Len(diagnoses) + 1 /\ diagnoses'[n] = d
    BY <1>2
  <1> HIDE DEF TableOk
  <1>6. ASSUME NEW n \in DOMAIN diagnoses'
        PROVE  /\ IsDiagnosis(diagnoses'[n]) /\ diagnoses'[n].status \in {"CURRENT", "SUPERSEDED"}
               /\ diagnoses'[n].revision \in Nat /\ diagnoses'[n].revision <= row.evidenceRevision
               /\ diagnoses'[n].status = "CURRENT" <=> row.current = n
               /\ diagnoses'[n].revision = row.evidenceRevision => row.current = n
               /\ \A m \in DOMAIN diagnoses' : diagnoses'[m].revision = diagnoses'[n].revision => m = n
    BY <1>1, <1>4, <1>5
  <1> QED BY <1>6 DEF TableOk

LEMMA Commits ==
  ASSUME DiagnosisInv, NEW t \in Threads, CommitDiagnosis(t), UNCHANGED release
  PROVE  DiagnosisInv'
  <1>1. PICK snap : snap = request[t].snap
    OBVIOUS
  <1>2. Moment(request[t], snap) /\ snap.row.status = "EVIDENCE_READY"
    BY <1>1 DEF CommitDiagnosis, Asking, DiagnosisInv, RequestsOk, ServedOk
  <1>3. case # None /\ Moment(request[t], Stored)
    <2>1. case # None
      BY <1>2 DEF Moment, DiagnosisInv, BaseOk, HistoryOk, PastOk
    <2> QED BY <2>1, PresentMoment
  <1>4. CASE case.evidenceRevision # snap.row.evidenceRevision
    BY <1>1, <1>4, Retries DEF CommitDiagnosis
  <1>5. CASE case.evidenceRevision = snap.row.evidenceRevision /\ Existing(case.evidenceRevision) # {}
    <2>1. PICK n \in Existing(case.evidenceRevision) : Unchanged /\ Replay(t, Stored, diagnoses[n])
      BY <1>1, <1>5 DEF CommitDiagnosis
    <2>2. n \in DOMAIN diagnoses /\ diagnoses[n].revision = case.evidenceRevision
      BY <2>1 DEF Existing
    <2>3. diagnoses[n].status = "CURRENT" /\ Stored.diagnosis = diagnoses[n]
      BY <1>3, <2>2, FoundIsCurrent
    <2>4. PICK v, d : v = Stored /\ d = diagnoses[n]
      OBVIOUS
    <2> QED BY <1>3, <2>1, <2>3, <2>4, Replays
  <1>6. CASE /\ case.evidenceRevision = snap.row.evidenceRevision /\ Existing(case.evidenceRevision) = {}
             /\ case.revision # snap.row.revision
    <2>1. Unchanged /\ Answer(t, Error("CONCURRENT_WRITE"))
      BY <1>1, <1>6 DEF CommitDiagnosis, Refuse
    <2>2. Good(request[t], Error("CONCURRENT_WRITE"))
      BY GoodErrors
    <2> QED BY <2>1, <2>2, Settles
  <1>7. CASE /\ case.evidenceRevision = snap.row.evidenceRevision /\ Existing(case.evidenceRevision) = {}
             /\ case.revision = snap.row.revision
    <2>1. snap = Stored /\ Stored.row = case /\ case.status = "EVIDENCE_READY"
      BY <1>2, <1>3, <1>7 DEF Moment, DiagnosisInv, BaseOk, HistoryOk, Stored, View
    <2>2. PICK d, row, events, table :
            /\ d = Made(snap) /\ row = WithDiagnosis(snap) /\ events = DiagnosisEvents(snap, row)
            /\ table = Append(diagnoses, d)
      OBVIOUS
    <2>3. /\ Sound(View(row, evidence, table)) /\ Grows(row, evidence, table)
          /\ d.draft = Evaluate(evidence) /\ DraftSound(d.draft)
          /\ IsDiagnosis(d) /\ d.revision = case.evidenceRevision /\ d.status = "CURRENT"
          /\ row.status = StatusAfterDiagnosis(d.draft) /\ row.evidenceRevision = case.evidenceRevision
          /\ row.current = Len(diagnoses) + 1 /\ row.current # None /\ case.current = None
      <3>1. d = Made(Stored) /\ row = WithDiagnosis(Stored)
        BY <2>1, <2>2
      <3> QED BY <1>3, <2>1, <2>2, <3>1, DiagnosisFits
    <2>4. BatchSound(events, DiagnosisTypes(d), case.status, row)
      <3>1. PICK from : from = case.status
        OBVIOUS
      <3>2. d.draft = Draft(snap) /\ from = snap.row.status
        BY <2>1, <2>2, <3>1 DEF Made
      <3> QED BY <2>2, <3>1, <3>2, DiagnosisBatch
    <2>5. CommitSound(Made(snap), WithDiagnosis(snap), DiagnosisEvents(snap, WithDiagnosis(snap)))
      BY <2>1, <2>2, <2>3, <2>4 DEF CommitSound
    <2>6. Write(t, row, evidence, table, events)
      BY <1>1, <1>7, <2>2, <2>5 DEF CommitDiagnosis, InsertDiagnosis
    <2>7. PICK items, v : items = evidence /\ v = View(row, evidence, table)
      OBVIOUS
    <2>8. Saved(row, items, table, events) /\ Answer(t, Result("CREATED", v, v.diagnosis))
      BY <2>3, <2>6, <2>7 DEF Write, Saved, InsertCase, InsertAudit
    <2>9. TableOk'
      <3>1. row # None /\ case' = row /\ diagnoses' = Append(diagnoses, d)
        BY <2>2, <2>3, <2>8, NullAssumption DEF Saved, Grows, Fresh
      <3> QED BY <1>3, <2>3, <3>1, DiagnosedRows
    <2>10. TrailOk'
      <3>1. Fresh(row)
        BY <2>3 DEF Grows
      <3>2. PICK required : required = DiagnosisTypes(d)
        OBVIOUS
      <3>3. "DIAGNOSIS_CREATED" \in required /\ "DIAGNOSIS_SUPERSEDED" \notin required
        BY <3>2 DEF DiagnosisTypes
      <3>4. BatchSound(events, required, IF case = None THEN None ELSE case.status, row)
        BY <1>3, <2>4, <3>2
      <3> QED BY <1>3, <2>3, <2>8, <3>1, <3>3, <3>4, SavedTrail
    <2>11. Grows(row, items, table)
      BY <2>3, <2>7
    <2> QED BY <2>7, <2>8, <2>9, <2>10, <2>11, SavedStep
  <1> QED BY <1>4, <1>5, <1>6, <1>7

-----------------------------------------------------------------------------
(* Reading.                                                                *)

LEMMA Loaded ==
  ASSUME DiagnosisInv, NEW t \in Threads, case # None
  PROVE  /\ Shaped /\ ServedOk(request[t]) /\ Moment(request[t], Stored) /\ Stored.row = case
         /\ case \in Row /\ Readable
  <1>1. Moment(request[t], Stored)
    BY PresentMoment
  <1> QED BY <1>1 DEF DiagnosisInv, BaseOk, RequestsOk, CaseOk, Readable, Stored, View

LEMMA Fails ==
  ASSUME DiagnosisInv, NEW t \in Threads, LoadFails(t) \/ StorageFails(t), UNCHANGED release
  PROVE  DiagnosisInv'
  <1>1. case # None => Readable
    BY Loaded
  <1>2. PICK code \in {"CASE_NOT_FOUND", "DATABASE_UNAVAILABLE"} : Unchanged /\ Answer(t, Error(code))
    BY <1>1 DEF LoadFails, StorageFails, Refuse, Fault
  <1>3. Good(request[t], Error(code))
    BY <1>2, GoodErrors
  <1> QED BY <1>2, <1>3, Settles

LEMMA Shows ==
  ASSUME DiagnosisInv, NEW t \in Threads, Show(t), UNCHANGED release
  PROVE  DiagnosisInv'
  <1>1. case # None /\ Unchanged /\ Answer(t, Result("SHOWN", Stored, Stored.diagnosis))
    BY DEF Show, Loads, Readable
  <1>2. PICK a : a = Result("SHOWN", Stored, Stored.diagnosis)
    OBVIOUS
  <1>3. Good(request[t], a)
    BY <1>1, <1>2, Loaded, GoodViews
  <1> QED BY <1>1, <1>2, <1>3, Settles

LEMMA LoadsEvidence ==
  ASSUME DiagnosisInv, NEW t \in Threads, LoadForEvidence(t), UNCHANGED release
  PROVE  DiagnosisInv'
  <1>1. case # None /\ Unchanged /\ request[t].ask.kind = "ADD"
    BY DEF LoadForEvidence, Loads, Readable, Asking
  <1>2. Shaped /\ ServedOk(request[t]) /\ Moment(request[t], Stored)
    BY <1>1, Loaded
  <1>3. CASE Fits(request[t].ask.item)
    <2>1. PICK v : v = Stored
      OBVIOUS
    <2>2. PICK q : q = [request[t] EXCEPT !.pc = "WRITE", !.snap = v]
      OBVIOUS
    <2>3. /\ DOMAIN q = Fields /\ q.pc = "WRITE" /\ q.snap = v /\ q.since = request[t].since
          /\ q.ask = request[t].ask /\ q.answer = request[t].answer
      BY <1>2, <2>2 DEF Shaped, Fields
    <2>4. request' = [request EXCEPT ![t] = q]
      BY <1>2, <1>3, <2>1, <2>2 DEF LoadForEvidence, Shaped
    <2>5. ServedOk(q)
      BY <1>1, <1>2, <1>3, <2>1, <2>3 DEF ServedOk, Moment
    <2> QED BY <1>1, <2>3, <2>4, <2>5, GoesOn
  <1>4. CASE ~Fits(request[t].ask.item)
    <2>1. Answer(t, Error("INVALID_REQUEST"))
      BY <1>4 DEF LoadForEvidence
    <2>2. Good(request[t], Error("INVALID_REQUEST"))
      BY GoodErrors
    <2> QED BY <1>1, <2>1, <2>2, Settles
  <1> QED BY <1>3, <1>4

LEMMA AnswersNotReady ==
  ASSUME DiagnosisInv, NEW t \in Threads, Unchanged, UNCHANGED release, NotReady(t)
  PROVE  DiagnosisInv'
  <1>1. Good(request[t], Error("CASE_NOT_READY"))
    BY GoodErrors
  <1> QED BY <1>1, Settles DEF NotReady

LEMMA LoadsDiagnosis ==
  ASSUME DiagnosisInv, NEW t \in Threads, LoadForDiagnosis(t), UNCHANGED release
  PROVE  DiagnosisInv'
  <1>1. case # None /\ Unchanged /\ request[t].ask.kind = "DIAGNOSE"
    BY DEF LoadForDiagnosis, Loads, Readable, Asking
  <1>2. Shaped /\ ServedOk(request[t]) /\ Moment(request[t], Stored) /\ Stored.row = case
    BY <1>1, Loaded
  <1>3. CASE case.status = "NEED_INFO"
    BY <1>1, <1>3, AnswersNotReady DEF LoadForDiagnosis
  <1>4. CASE case.status # "NEED_INFO"
    <2>1. PICK v, n : v = Stored /\ n = request[t].attempt + 1
      OBVIOUS
    <2>2. PICK q : q = [request[t] EXCEPT !.pc = "FIND", !.snap = v, !.attempt = n]
      OBVIOUS
    <2>3. /\ DOMAIN q = Fields /\ q.pc = "FIND" /\ q.snap = v /\ q.since = request[t].since
          /\ q.ask = request[t].ask /\ q.answer = request[t].answer
      BY <1>2, <2>2 DEF Shaped, Fields
    <2>4. request' = [request EXCEPT ![t] = q]
      <3>1. Refreshed(t, v)
        BY <1>4, <2>1 DEF LoadForDiagnosis
      <3> QED BY <1>2, <2>1, <2>2, <3>1 DEF Refreshed, Shaped
    <2>5. ServedOk(q)
      BY <1>1, <1>2, <1>4, <2>1, <2>3 DEF ServedOk, Moment
    <2> QED BY <1>1, <2>3, <2>4, <2>5, GoesOn
  <1> QED BY <1>3, <1>4

(* What is found for a view read before was that view's diagnosis; if it   *)
(* no longer stands, new evidence has come since.                          *)
LEMMA FoundForView ==
  ASSUME DiagnosisInv, NEW t \in Threads, NEW v, Moment(request[t], v), v.row.status \in Diagnosed,
         NEW n \in DOMAIN diagnoses, diagnoses[n].revision = v.row.evidenceRevision
  PROVE  /\ diagnoses[n].status = "CURRENT" => v.diagnosis = diagnoses[n]
         /\ diagnoses[n].status # "CURRENT" =>
              diagnoses[n].status = "SUPERSEDED" /\ request[t].since < case.revision
  <1>1. PICK r, m : r = v.row.revision /\ m = v.row.current
    OBVIOUS
  <1>2. r \in DOMAIN past /\ v = past[r] /\ r >= request[t].since /\ PastOk(r)
    BY <1>1 DEF Moment, DiagnosisInv, BaseOk, HistoryOk
  <1>3. /\ m \in DOMAIN diagnoses /\ v.diagnosis = Now(m) /\ v.diagnosis.revision = v.row.evidenceRevision
        /\ r <= case.revision /\ r \in Nat /\ case # None
    BY <1>1, <1>2 DEF PastOk
  <1>4. TableOk /\ request[t].since \in Nat /\ case.revision \in Nat
    BY <1>3 DEF DiagnosisInv, BaseOk, RequestsOk, ServedOk, CaseOk, Row
  <1>5. PICK d, e : d = diagnoses[m] /\ e = diagnoses[n]
    OBVIOUS
  <1>6. IsDiagnosis(d) /\ IsDiagnosis(e) /\ e.status \in {"CURRENT", "SUPERSEDED"}
    BY <1>3, <1>4, <1>5 DEF TableOk
  <1>7. v.diagnosis = [d EXCEPT !.status = "CURRENT"]
    BY <1>3, <1>5 DEF Now
  <1>8. d.revision = v.row.evidenceRevision
    BY <1>3, <1>6, <1>7 DEF IsDiagnosis
  <1>9. m = n
    BY <1>3, <1>4, <1>5, <1>8 DEF TableOk
  <1>10. e.status = "CURRENT" => v.diagnosis = e
    BY <1>5, <1>6, <1>7, <1>9 DEF IsDiagnosis
  <1>11. e.status # "CURRENT" => r # case.revision
    <2>1. r = case.revision => v = Stored /\ Stored.row = case
      BY <1>2, <1>3 DEF DiagnosisInv, BaseOk, HistoryOk, Stored, View
    <2>2. r = case.revision => case.current = n
      BY <1>1, <1>9, <2>1
    <2> QED BY <1>4, <1>5, <2>2 DEF TableOk
  <1> QED BY <1>2, <1>3, <1>4, <1>5, <1>6, <1>10, <1>11

LEMMA FoundMay ==
  ASSUME DiagnosisInv, NEW n \in DOMAIN diagnoses, NEW v, diagnoses[n].revision = v.row.evidenceRevision
  PROVE  FoundOk(diagnoses[n], v)
  <1>1. PICK e : e = diagnoses[n]
    OBVIOUS
  <1>2. /\ IsDiagnosis(e) /\ e.status \in {"CURRENT", "SUPERSEDED"} /\ e.revision \in Nat
        /\ e.revision <= case.evidenceRevision /\ case.evidenceRevision \in Nat
        /\ e.revision = case.evidenceRevision => e.status = "CURRENT"
    <2>1. case # None
      BY DEF DiagnosisInv, BaseOk, TableOk
    <2> QED BY <1>1, <2>1 DEF DiagnosisInv, BaseOk, TableOk, CaseOk, Row
  <1>3. e = [e EXCEPT !.status = e.status]
    BY <1>2 DEF IsDiagnosis
  <1> QED BY <1>1, <1>2, <1>3 DEF FoundOk

LEMMA Finds ==
  ASSUME DiagnosisInv, NEW t \in Threads, FindDiagnosis(t), UNCHANGED release
  PROVE  DiagnosisInv'
  <1>1. PICK v : v = request[t].snap
    OBVIOUS
  <1>2. Unchanged /\ request[t].pc = "FIND" /\ request[t].ask.kind = "DIAGNOSE"
    BY DEF FindDiagnosis, Asking
  <1>3. Shaped /\ ServedOk(request[t])
    BY DEF DiagnosisInv, BaseOk, RequestsOk
  <1>4. Moment(request[t], v) /\ v.row.status # "NEED_INFO"
    BY <1>1, <1>2, <1>3 DEF ServedOk
  <1>5. v.row.status \in Statuses
    BY <1>4 DEF Moment, DiagnosisInv, BaseOk, HistoryOk, PastOk, Row
  <1>6. CASE v.row.status \in Diagnosed /\ NotReady(t)
    BY <1>2, <1>6, AnswersNotReady
  <1>7. CASE v.row.status \notin Diagnosed /\ Go(t, "WRITE")
    <2>1. PICK q : /\ DOMAIN q = Fields /\ q.pc = "WRITE" /\ q.snap = request[t].snap
                   /\ q.since = request[t].since /\ q.ask = request[t].ask
                   /\ q.answer = request[t].answer /\ request' = [request EXCEPT ![t] = q]
      BY <1>3, <1>7, Goes
    <2>2. q.snap.row.status = "EVIDENCE_READY"
      BY <1>1, <1>4, <1>5, <1>7, <2>1 DEF Statuses, Diagnosed
    <2>3. ServedOk(q)
      BY <1>1, <1>2, <1>3, <1>4, <2>1, <2>2 DEF ServedOk, Moment
    <2> QED BY <1>2, <2>1, <2>3, GoesOn
  <1>8. ASSUME NEW n \in Existing(v.row.evidenceRevision), v.row.status \in Diagnosed,
               Replay(t, v, diagnoses[n])
        PROVE  DiagnosisInv'
    <2>1. n \in DOMAIN diagnoses /\ diagnoses[n].revision = v.row.evidenceRevision
      BY <1>8 DEF Existing
    <2>2. PICK d : d = diagnoses[n]
      OBVIOUS
    <2>3. CASE d.status = "CURRENT"
      <3>1. v.diagnosis = d
        BY <1>4, <1>8, <2>1, <2>2, <2>3, FoundForView
      <3> QED BY <1>2, <1>4, <1>8, <2>2, <2>3, <3>1, Replays
    <2>4. CASE d.status # "CURRENT"
      <3>1. d.status = "SUPERSEDED" /\ request[t].since < case.revision
        BY <1>4, <1>8, <2>1, <2>2, <2>4, FoundForView
      <3>2. Answer(t, Error("INVARIANT_VIOLATED"))
        BY <1>8, <2>2, <2>4 DEF Replay, Fault
      <3>3. Good(request[t], Error("INVARIANT_VIOLATED"))
        BY <1>2, <2>1, <2>2, <3>1 DEF Good, Error
      <3> QED BY <1>2, <3>2, <3>3, Settles
    <2> QED BY <2>3, <2>4
  <1>9. ASSUME NEW n \in Existing(v.row.evidenceRevision),
               request' = [request EXCEPT ![t].pc = "RELOAD", ![t].found = diagnoses[n]]
        PROVE  DiagnosisInv'
    <2>1. n \in DOMAIN diagnoses /\ diagnoses[n].revision = v.row.evidenceRevision
      BY <1>9 DEF Existing
    <2>2. PICK d : d = diagnoses[n]
      OBVIOUS
    <2>3. PICK q : q = [request[t] EXCEPT !.pc = "RELOAD", !.found = d]
      OBVIOUS
    <2>4. /\ DOMAIN q = Fields /\ q.pc = "RELOAD" /\ q.found = d /\ q.since = request[t].since
          /\ q.ask = request[t].ask /\ q.answer = request[t].answer /\ q.snap = v
      BY <1>1, <1>3, <2>3 DEF Shaped, Fields
    <2>5. request' = [request EXCEPT ![t] = q]
      BY <1>3, <1>9, <2>2, <2>3 DEF Shaped
    <2>6. FoundOk(d, v)
      BY <2>1, <2>2, FoundMay
    <2>7. ServedOk(q)
      BY <1>3, <1>4, <2>4, <2>6 DEF ServedOk, Moment
    <2> QED BY <1>2, <2>4, <2>5, <2>7, GoesOn
  <1> QED BY <1>1, <1>6, <1>7, <1>8, <1>9 DEF FindDiagnosis

LEMMA Reloads ==
  ASSUME DiagnosisInv, NEW t \in Threads, ReloadForDiagnosis(t), UNCHANGED release
  PROVE  DiagnosisInv'
  <1>1. case # None /\ Unchanged /\ request[t].pc = "RELOAD"
    BY DEF ReloadForDiagnosis, Loads, Readable, Asking
  <1>2. ServedOk(request[t]) /\ Moment(request[t], Stored)
    BY <1>1, Loaded
  <1>3. CASE case.evidenceRevision # request[t].snap.row.evidenceRevision
    BY <1>1, <1>3, Retries DEF ReloadForDiagnosis
  <1>4. CASE case.evidenceRevision = request[t].snap.row.evidenceRevision
    <2>1. PICK v, d : v = Stored /\ d = request[t].found
      OBVIOUS
    <2>2. /\ \E n \in DOMAIN diagnoses : d = [diagnoses[n] EXCEPT !.status = d.status]
          /\ d.revision = case.evidenceRevision /\ d.status \in {"CURRENT", "SUPERSEDED"}
          /\ d.status = "SUPERSEDED" => case.evidenceRevision > case.evidenceRevision
      BY <1>1, <1>2, <1>4, <2>1 DEF ServedOk, FoundOk
    <2>3. d.status = "CURRENT"
      <3>1. case.evidenceRevision \in Nat
        BY <1>1 DEF DiagnosisInv, BaseOk, CaseOk, Row
      <3> QED BY <2>2, <3>1
    <2>4. PICK n \in DOMAIN diagnoses : d = [diagnoses[n] EXCEPT !.status = "CURRENT"]
      BY <2>2, <2>3
    <2>5. PICK e : e = diagnoses[n]
      OBVIOUS
    <2>6. IsDiagnosis(e)
      BY <2>5 DEF DiagnosisInv, BaseOk, TableOk
    <2>7. e.revision = case.evidenceRevision
      BY <2>2, <2>4, <2>5, <2>6 DEF IsDiagnosis
    <2>8. e.status = "CURRENT" /\ v.diagnosis = e
      BY <1>1, <2>1, <2>5, <2>7, FoundIsCurrent
    <2>9. d = e
      BY <2>4, <2>5, <2>6, <2>8 DEF IsDiagnosis
    <2>10. Replay(t, v, d)
      BY <1>4, <2>1 DEF ReloadForDiagnosis
    <2> QED BY <1>1, <1>2, <2>1, <2>3, <2>8, <2>9, <2>10, Replays
  <1> QED BY <1>3, <1>4

-----------------------------------------------------------------------------
(* The specification.                                                      *)

LEMMA PreparedIsSound ==
  ASSUME NEW start \in Starts, start # None, NEW row, row = Prepared(start)
  PROVE  /\ row \in Row /\ row.status \notin Diagnosed /\ row.current = None
         /\ row.revision >= 1 /\ IsFiniteSet(start) /\ Sound(View(row, start, <<>>))
  <1>1. /\ IsFiniteSet(start) /\ \A i \in start : Fits(i)
        /\ Cardinality({i.id : i \in start}) = Cardinality(start)
    BY StartAssumption
  <1>2. Cardinality(start) \in Nat
    BY <1>1, FS_CardinalityType
  <1>3. /\ row.status = StatusAfterEvidence(Readiness(start)) /\ row.readiness = Readiness(start)
        /\ row.revision = Cardinality(start) + 1 /\ row.evidenceRevision = Cardinality(start)
        /\ row.current = None
        /\ row = [status |-> row.status, revision |-> row.revision,
                  evidenceRevision |-> row.evidenceRevision, readiness |-> row.readiness,
                  current |-> row.current]
    BY DEF Prepared
  <1>4. row.readiness \in Readings /\ row.status \in Statuses /\ row.status \notin Diagnosed
    BY <1>3, ReadingsAre, StatusesAre
  <1>5. row \in Row /\ row.revision >= row.evidenceRevision + 1 /\ row.revision >= 1
    BY <1>2, <1>3, <1>4 DEF Row
  <1>6. Sound(View(row, start, <<>>))
    BY <1>1, <1>3, <1>5, PlainIsSound
  <1> QED BY <1>1, <1>3, <1>4, <1>5, <1>6

LEMMA IdleIsFine ==
  ASSUME DOMAIN request = Threads, \A t \in Threads : request[t] = Idle,
         case # None => case.revision \in Nat
  PROVE  RequestsOk /\ \A t \in Threads : DOMAIN request[t] = Fields
  <1>1. None # Error("INVARIANT_VIOLATED")
    BY NullAssumption DEF Error
  <1>2. Idle.pc = "DONE" /\ Idle.answer = None /\ Idle.since = 0 /\ DOMAIN Idle = Fields
    BY DEF Idle, Fields
  <1>3. ServedOk(Idle) /\ AnswerOk(Idle)
    BY <1>1, <1>2 DEF ServedOk, AnswerOk
  <1> QED BY <1>2, <1>3 DEF RequestsOk

LEMMA Initially == Init => DiagnosisInv
  <1> SUFFICES ASSUME Init PROVE DiagnosisInv
    OBVIOUS
  <1>1. /\ diagnoses = <<>> /\ trail = <<>> /\ release = 1
        /\ DOMAIN request = Threads /\ \A t \in Threads : request[t] = Idle
    BY DEF Init
  <1>2. PICK start \in Starts :
          \/ start = None /\ case = None /\ evidence = {} /\ past = <<>>
          \/ /\ start # None
             /\ case = Prepared(start) /\ evidence = start
             /\ past = [r \in {case.revision} |-> View(case, start, <<>>)]
    BY DEF Init
  <1>3. start # None =>
          /\ case \in Row /\ case # None /\ case.status \notin Diagnosed /\ case.current = None
          /\ case.revision \in Nat /\ case.revision >= 1 /\ IsFiniteSet(evidence)
          /\ Sound(Stored) /\ Stored = View(case, start, <<>>) /\ Stored.row = case
          /\ DOMAIN past = {case.revision} /\ past[case.revision] = Stored
    <2>1. ASSUME start # None
          PROVE  /\ case \in Row /\ case # None /\ case.status \notin Diagnosed /\ case.current = None
                 /\ case.revision \in Nat /\ case.revision >= 1 /\ IsFiniteSet(evidence)
                 /\ Sound(Stored) /\ Stored = View(case, start, <<>>) /\ Stored.row = case
                 /\ DOMAIN past = {case.revision} /\ past[case.revision] = Stored
      <3>1. PICK row : row = Prepared(start)
        OBVIOUS
      <3>2. case = row /\ evidence = start /\ past = [r \in {row.revision} |-> View(row, start, <<>>)]
        BY <1>2, <2>1, <3>1
      <3>3. /\ row \in Row /\ row.status \notin Diagnosed /\ row.current = None
            /\ row.revision >= 1 /\ IsFiniteSet(start) /\ Sound(View(row, start, <<>>))
        BY <2>1, <3>1, PreparedIsSound
      <3>4. Stored = View(row, start, <<>>) /\ Stored.row = row
        BY <1>1, <3>2, <3>3 DEF Stored, View
      <3>5. row # None /\ row.revision \in Nat
        BY <3>3, NullAssumption DEF Row
      <3> QED BY <3>2, <3>3, <3>4, <3>5
    <2> QED BY <2>1
  <1>4. case = None <=> start = None
    BY <1>2, <1>3
  <1>5. RequestsOk /\ \A t \in Threads : DOMAIN request[t] = Fields
    BY <1>1, <1>3, <1>4, IdleIsFine
  <1>6. Shaped
    <2>1. IsSeq(diagnoses) /\ IsSeq(trail)
      BY <1>1, EmptySeq DEF IsSeq
    <2>2. release \in DOMAIN Policies
      BY <1>1, PolicyAssumption, LenProperties, EmptySeq
    <2> QED BY <1>1, <1>5, <2>1, <2>2 DEF Shaped
  <1>7. TableOk
    BY <1>1 DEF TableOk
  <1>8. CaseOk
    BY <1>3, <1>4 DEF CaseOk
  <1>9. HistoryOk
    <2>1. CASE start = None
      BY <1>1, <1>2, <2>1 DEF HistoryOk
    <2>2. CASE start # None
      <3>1. case.evidenceRevision \in Nat
        BY <1>3, <2>2 DEF Row
      <3>2. PastOk(case.revision)
        BY <1>3, <2>2, <3>1 DEF PastOk
      <3> QED BY <1>3, <2>2, <3>2 DEF HistoryOk
    <2> QED BY <2>1, <2>2
  <1>10. TrailOk
    <2> SUFFICES ASSUME case # None PROVE TrailOk
      BY DEF TrailOk
    <2>1. Len(trail) = 0 /\ First = case.revision /\ First \in Nat /\ First # 0
      BY <1>1, <1>3, <1>4 DEF First
    <2>2. DOMAIN past = (IF First = 0 THEN 1 ELSE First) .. case.revision
      BY <1>3, <1>4, <2>1
    <2>3. \A type : Entries(type) = {}
      BY <1>1 DEF Entries
    <2>4. \A type : Cardinality(Entries(type)) = 0
      BY <2>3, FS_EmptySet
    <2>5. TrailTells
      BY <1>1, <1>3, <1>4, <2>4 DEF TrailTells
    <2> QED BY <2>1, <2>2, <2>5 DEF TrailOk
  <1> QED BY <1>5, <1>6, <1>7, <1>8, <1>9, <1>10 DEF DiagnosisInv, BaseOk

LEMMA Steps == DiagnosisInv /\ [Next]_vars => DiagnosisInv'
  <1> SUFFICES ASSUME DiagnosisInv, [Next]_vars PROVE DiagnosisInv'
    OBVIOUS
  <1>1. ASSUME NEW t \in Threads, NEW c \in Calls, Begin(t, c), UNCHANGED release
        PROVE  DiagnosisInv'
    BY <1>1, Begins
  <1>2. ASSUME NEW t \in Threads, Serve(t), UNCHANGED release
        PROVE  DiagnosisInv'
    BY <1>2, Creates, Shows, Fails, LoadsEvidence, AddsEvidence, LoadsDiagnosis, Finds, Reloads, Commits
    DEF Serve
  <1>3. CASE Release
    BY <1>3, Releases
  <1>4. CASE UNCHANGED vars
    <2>1. TableOk' /\ CaseOk' /\ HistoryOk' /\ TrailOk' /\ Shaped'
      BY <1>4 DEF vars, DiagnosisInv, BaseOk, Shaped, TableOk, CaseOk, HistoryOk, PastOk, Now, Stored,
           TrailOk, First, TrailTells, Entries
    <2>2. RequestsOk'
      BY <1>4 DEF vars, DiagnosisInv, RequestsOk, ServedOk, AnswerOk, Moment, FoundOk
    <2> QED BY <2>1, <2>2 DEF DiagnosisInv, BaseOk
  <1> QED BY <1>1, <1>2, <1>3, <1>4 DEF Next

(* The database and every request under way always fit together.           *)
THEOREM DiagnosisKept == Spec => []DiagnosisInv
  BY Initially, Steps, PTL DEF Spec

LEMMA MomentsFollow == DiagnosisInv => AnswersAreMoments
  BY DEF DiagnosisInv, RequestsOk, AnswerOk, Moment, AnswersAreMoments

(* A request answers with a case as it really was at some moment while the *)
(* request was served, with the diagnosis of that moment: the transactions *)
(* it read and wrote in never show as a mixture.                           *)
THEOREM AnswersStayMoments == Spec => []AnswersAreMoments
  BY DiagnosisKept, MomentsFollow, PTL

LEMMA WarrantFollows == DiagnosisInv => DiagnosisIsWarranted
  <1> SUFFICES ASSUME DiagnosisInv PROVE DiagnosisIsWarranted
    OBVIOUS
  <1>1. ASSUME case # None, case.status \in Diagnosed
        PROVE  Ready(Readiness(evidence)) /\ diagnoses[case.current].draft = Evaluate(evidence)
    <2>1. Sound(Stored) /\ case.current # None /\ diagnoses[case.current].draft = Evaluate(evidence)
      BY <1>1 DEF DiagnosisInv, BaseOk, CaseOk
    <2>2. Stored.row = case /\ Stored.evidence = evidence
      BY DEF Stored, View
    <2> QED BY <1>1, <2>1, <2>2 DEF Sound
  <1>2. \A n \in DOMAIN diagnoses : diagnoses[n].status = "CURRENT" <=> case.current = n
    BY DEF DiagnosisInv, BaseOk, TableOk
  <1> QED BY <1>1, <1>2 DEF DiagnosisIsWarranted

(* A case that counts as diagnosed does so on account of the rules applied *)
(* to exactly the evidence it has, whatever was added while the rules ran. *)
THEOREM DiagnosisStaysWarranted == Spec => []DiagnosisIsWarranted
  BY DiagnosisKept, WarrantFollows, PTL

LEMMA SoundnessFollows == DiagnosisInv => WritesAreSound
  BY DEF DiagnosisInv, RequestsOk, AnswerOk, WritesAreSound

(* What the service works out from what it read passes the checks of the   *)
(* store; a request fails them only over a diagnosis superseded meanwhile. *)
THEOREM WritesStaySound == Spec => []WritesAreSound
  BY DiagnosisKept, SoundnessFollows, PTL

LEMMA TrailFollows == DiagnosisInv => TrailTells
  BY DEF DiagnosisInv, TrailOk, TrailTells

(* The audit trail alone tells what became of the case: one batch for each *)
(* revision, each starting where the one before ended.                     *)
THEOREM TrailKeepsTelling == Spec => []TrailTells
  BY DiagnosisKept, TrailFollows, PTL
=============================================================================
