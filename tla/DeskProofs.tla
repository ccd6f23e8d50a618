----------------------------- MODULE DeskProofs -----------------------------
(***************************************************************************)
(* The desk of a case, for any people, uploads, threads, workers and       *)
(* bounds: a handoff is escalated once, a file is in use once, notices and *)
(* feedback are copied in the order observers may copy them in, what the   *)
(* pool publishes advances and a question has one reply, below it. Each    *)
(* property has an invariant of its own over the part of the state it is   *)
(* about; all rest on what DeskTyped says of sequences and threads.        *)
(***************************************************************************)
EXTENDS CaseDesk, SequenceTheorems, TLAPS

IsSeq(s) == s \in Seq({s[i] : i \in DOMAIN s})

Triggers == OtherActions \cup {"REGISTER_EVIDENCE", "CLOSE", "REPLAYED", "USER_RUN"}

Upload == {Idle} \cup [phase : {"store", "register"}, expected : Nat, clear : BOOLEAN]

Items == {"notice", "feedback"} \X Nat

Task ==
  {Idle}
  \cup [phase : {"read"}, case : Cases, trigger : Triggers]
  \cup [phase : {"copy"}, case : Cases, trigger : Triggers, revision : Nat, left : SUBSET Items]
  \cup [phase : {"schedule"}, case : Cases, trigger : Triggers, revision : Nat]

Job == [revision : Nat, trigger : Triggers]

Working == {"pop", "look", "again", "ask", "model", "save", "publish"}

Drain ==
  {Idle}
  \cup [phase : {"pop"}, case : Cases]
  \cup [phase : Working, case : Cases, job : Job, seen : Nat]

Asker ==
  {Idle}
  \cup [phase : {"read"}]
  \cup [phase : {"ask", "model", "save", "publish", "handoff"}, revision : Nat, talk : Nat]

DeskTyped ==
  /\ DOMAIN ledger = Cases /\ \A c \in Cases : IsSeq(ledger[c])
  /\ DOMAIN journal = Cases /\ \A c \in Cases : IsSeq(journal[c])
  /\ uploads \in [Uploads -> Upload] /\ DOMAIN stored = Uploads /\ objects \in Nat
  /\ observers \in [Observers -> Task]
  /\ drains \in [Pool -> Drain]
  /\ asking \in [Requests -> Asker]
  /\ pending \in [Cases -> Job \cup {NoJob}]
  /\ running \in SUBSET Cases /\ submitted \in [Cases -> Nat]
  /\ scan # Idle => scan.case \in Cases
  /\ IsSeq(talks)

-----------------------------------------------------------------------------
(* Handoffs: an entry after the escalation of its handoff keeps its level, *)
(* and the snapshot the scan holds is of one that was not escalated.       *)

IsHandoff(h) ==
  /\ DOMAIN h = {"kind", "handoff", "reason", "status", "assignee", "follow", "level", "act"}
  /\ h.kind = "HANDOFF"

Escalated(c, id) == \E i \in Escalations(c) : journal[c][i].handoff = id

RaisedAfter(c, i) ==
  journal[c][i].act = "ESCALATE" =>
    /\ journal[c][i].level = 1
    /\ \A k \in DOMAIN journal[c] :
         k > i /\ journal[c][k].kind = "HANDOFF" /\ journal[c][k].handoff = journal[c][i].handoff
           => journal[c][k].level = 1 /\ journal[c][k].act # "ESCALATE"

HandoffsOk ==
  /\ \A c \in Cases : \A i \in DOMAIN journal[c] :
       journal[c][i].kind = "HANDOFF" =>
         IsHandoff(journal[c][i]) /\ journal[c][i].handoff \in receipts /\ RaisedAfter(c, i)
  /\ scan.phase = "escalate" =>
       /\ IsHandoff(scan.handoff)
       /\ scan.handoff.handoff \in receipts /\ ~Escalated(scan.case, scan.handoff.handoff)

-----------------------------------------------------------------------------
(* Files: what an upload found when it began still holds if the revision   *)
(* it was sent for is the one of the case.                                 *)

IsClear(u) ==
  \A k \in InUse(u.case) : UploadOf(k) = u \/ FileOf(k) # u.file \/ ReadAnew(u, k)

IsStored(u) == stored[u] \in [object : Nat, check : Check, expected : Nat]

EntriesTrue ==
  \A c \in Cases : \A i \in DOMAIN ledger[c] :
    /\ ledger[c][i].expected = i - 1
    /\ ledger[c][i].action = "REGISTER_EVIDENCE" =>
         \E u \in Uploads :
           ledger[c][i].id = <<"upload", u.id>> /\ ledger[c][i].content = stored[u] /\ IsStored(u)

DistinctFiles == \A c \in Cases : \A k, m \in InUse(c) : m # k => FileOf(m) # FileOf(k)

UploadOk(u) ==
  uploads[u] # Idle =>
    /\ uploads[u].expected <= Revision(u.case)
    /\ uploads[u].clear /\ uploads[u].expected = Revision(u.case) => IsClear(u)
    /\ uploads[u].phase = "register" => uploads[u].clear /\ IsStored(u)

FilesOk ==
  /\ EntriesTrue /\ DistinctFiles
  /\ \A u \in Uploads : (stored[u] = NoObject \/ IsStored(u)) /\ UploadOk(u)

-----------------------------------------------------------------------------
(* Notices: a receipt of one stands for its message, and an observer has   *)
(* the receipts of all it has read of and is not still to copy.            *)

NoticeTrail ==
  /\ \A c \in Cases, x \in Items :
       /\ NoticeId(c, x) \in receipts <=> \E i \in DOMAIN journal[c] : Copied(c, x, i)
       /\ NoticeId(c, x) \in receipts => x \in Public(c, Revision(c))
  /\ NoticesInOrder

ReaderOk(v) ==
  v.phase = "copy" =>
    /\ v.revision <= Revision(v.case) /\ v.left \subseteq Public(v.case, v.revision)
    /\ \A x \in Public(v.case, v.revision) \ v.left : NoticeId(v.case, x) \in receipts

ObserversOk == \A o \in Observers : ReaderOk(observers[o])

NoticesOk == NoticeTrail /\ ObserversOk

-----------------------------------------------------------------------------
(* Answers: at most one call of _drain per case is under way or submitted, *)
(* and what it is about to publish is not older than what was published.   *)

DrainsOk ==
  /\ \A c \in Cases : submitted[c] > 0 =>
       submitted[c] = 1 /\ c \in running /\ \A w \in Pool : drains[w] # Idle => drains[w].case # c
  /\ \A w \in Pool : drains[w] # Idle =>
       /\ drains[w].case \in running
       /\ \A x \in Pool : x # w /\ drains[x] # Idle => drains[x].case # drains[w].case

IsAnswer(e) == e.kind = "MESSAGE" /\ \E n \in Nat : e.source = AnswerId(n)

AnswersUpTo(c, r) ==
  \A i \in DOMAIN journal[c] : IsAnswer(journal[c][i]) => journal[c][i].revision <= r

AnswerTrail ==
  \A c \in Cases : \A i \in DOMAIN journal[c] : IsAnswer(journal[c][i]) =>
    /\ journal[c][i].revision \in Nat /\ journal[c][i].revision <= Revision(c)
    /\ \A k \in DOMAIN journal[c] :
         k > i /\ IsAnswer(journal[c][k]) => journal[c][i].revision <= journal[c][k].revision

WorkOk(v) ==
  /\ v.phase \in {"model", "save", "publish"} =>
       v.job.revision <= Revision(v.case) /\ AnswersUpTo(v.case, v.job.revision)
  /\ v.phase \in {"model", "save"} /\ v.job.trigger # "USER_RUN" => ~Analysed(v.case, v.job.revision)

AnswersOk == DrainsOk /\ AnswerTrail /\ (\A w \in Pool : WorkOk(drains[w])) /\ AnalysedOnce

-----------------------------------------------------------------------------
(* Questions: the thread of one has its message above it and, until it     *)
(* publishes, no reply; a reply has the receipt of its question.           *)

IsReply(e, id) == (\E n \in Nat : Says(e, ReplyId(n))) /\ e.parent = id

AskedBy(c, id, k, r) ==
  \E i \in DOMAIN journal[c] :
    i < k /\ Says(journal[c][i], id) /\ journal[c][i].revision \in 0 .. r

Unanswered(id) ==
  \A c \in Cases : \A k \in DOMAIN journal[c] : ~IsReply(journal[c][k], id)

ThreadOk(q) ==
  LET v == asking[q] IN
  v # Idle =>
    /\ q.id \in receipts
    /\ \A p \in Requests : p.id = q.id /\ p # q => asking[p] = Idle
    /\ v.phase # "handoff" => Unanswered(q.id)
    /\ AskedBy(q.case, q.id, Len(journal[q.case]) + 1,
               IF v.phase = "read" THEN Revision(q.case) ELSE v.revision)

RepliesOk ==
  \A c \in Cases : \A q \in Requests : \A k \in DOMAIN journal[c] :
    IsReply(journal[c][k], q.id) =>
      /\ q.id \in receipts
      /\ AskedBy(c, q.id, k, journal[c][k].revision)
      /\ \A m \in DOMAIN journal[c] : IsReply(journal[c][m], q.id) => m = k

QuestionsOk == (\A q \in Requests : ThreadOk(q)) /\ RepliesOk

DeskInv == DeskTyped /\ HandoffsOk /\ FilesOk /\ NoticesOk /\ AnswersOk /\ QuestionsOk

-----------------------------------------------------------------------------
(* What a step may be, by what it leaves alone.                            *)

Tells(c, a) == Committed(c, a) \/ UNCHANGED observers

OtherStep(c, a) ==
  /\ a \in Triggers \ {"REGISTER_EVIDENCE"} /\ OtherWork(c, a) /\ Tells(c, a)
  /\ UNCHANGED <<deskVars, runs, memory, talks>>

FileStepDone(u) ==
  Register(u) /\ Tells(u.case, "REGISTER_EVIDENCE") /\ UNCHANGED <<runs, memory, talks>>

RepeatStep(c) == Repetition(c) /\ UNCHANGED <<ledger, deskVars, runs, memory, talks>>

DeskStep ==
  /\ StaffStep \/ ScanStep \/ TimePasses \/ FileStep
  /\ UNCHANGED <<ledger, agentVars>>

RestartStep ==
  /\ Forget /\ scan' = Idle /\ uploads' = [u \in Uploads |-> Idle]
  /\ UNCHANGED <<ledger, journal, receipts, cursors, stored, objects, now, runs, talks>>

AskStep(q) == Question(q) \/ QuestionStep(q)

AskMove ==
  UNCHANGED asking \/ (\E q \in Requests : AskStep(q)) \/ asking' = [q \in Requests |-> Idle]

Step ==
  /\ AskMove
  /\ \/ UNCHANGED <<ledger, deskVars, agentVars>>
     \/ \E c \in Cases, a \in Triggers : OtherStep(c, a)
     \/ \E u \in Uploads : FileStepDone(u)
     \/ \E c \in Cases : RepeatStep(c) \/ UserRun(c)
     \/ DeskStep
     \/ \E o \in Observers : ObserverStep(o)
     \/ \E w \in Pool : WorkerStep(w)
     \/ \E q \in Requests : AskStep(q)
     \/ RestartStep

LEMMA AskMoves == ASSUME [Next]_vars PROVE AskMove
  <1>1. Commands \/ (\E c \in Cases : BeginClose(c)) \/ CloseFails \/ Desk \/ Agent => UNCHANGED asking
    BY DEF Commands, Close, Repeat, Commit, RegisterFile, BeginClose, CloseFails, Desk, Agent
  <1>2. Asking => \E q \in Requests : AskStep(q)
    BY DEF Asking, AskStep
  <1>3. Restart => asking' = [q \in Requests |-> Idle]
    BY DEF Restart
  <1>4. UNCHANGED vars => UNCHANGED asking
    BY DEF vars
  <1> QED BY <1>1, <1>2, <1>3, <1>4 DEF Next, AskMove

LEMMA Steps == ASSUME [Next]_vars PROVE Step
  <1>0. AskMove
    BY AskMoves
  <1>1. CASE UNCHANGED vars
    BY <1>0, <1>1 DEF vars, Step
  <1>2. ASSUME NEW c \in Cases, Close(c)
        PROVE  Step
    <2>1. OtherStep(c, "CLOSE")
      BY <1>2 DEF Close, OtherStep, Tells, Tell, Triggers
    <2> QED BY <1>0, <2>1 DEF Step, Triggers
  <1>3. ASSUME NEW c \in Cases, Repeat(c)
        PROVE  Step
    <2>1. RepeatStep(c)
      BY <1>3 DEF Repeat, RepeatStep
    <2> QED BY <1>0, <2>1 DEF Step
  <1>4. ASSUME NEW c \in Cases, NEW a \in OtherActions, Commit(c, a)
        PROVE  Step
    <2>1. a # "REGISTER_EVIDENCE"
      BY WorkAssumption
    <2>2. OtherStep(c, a)
      BY <1>4, <2>1 DEF Commit, OtherStep, Tells, Tell, Triggers
    <2> QED BY <1>0, <2>2 DEF Step, Triggers
  <1>5. ASSUME NEW u \in Uploads, RegisterFile(u)
        PROVE  Step
    <2>1. FileStepDone(u)
      BY <1>5 DEF RegisterFile, FileStepDone, Tells, Tell
    <2> QED BY <1>0, <2>1 DEF Step
  <1>6. ASSUME (\E c \in Cases : BeginClose(c)) \/ CloseFails
        PROVE  Step
    BY <1>0, <1>6 DEF BeginClose, CloseFails, Step
  <1>7. CASE Desk
    BY <1>0, <1>7 DEF Desk, DeskStep, Step
  <1>8. CASE Agent
    BY <1>0, <1>8 DEF Agent, Step
  <1>9. CASE Restart
    BY <1>0, <1>9 DEF Restart, RestartStep, Step
  <1>10. CASE Asking
    BY <1>0, <1>10 DEF Asking, AskStep, Step
  <1> QED BY <1>1, <1>2, <1>3, <1>4, <1>5, <1>6, <1>7, <1>8, <1>9, <1>10 DEF Next, Commands

-----------------------------------------------------------------------------
(* Sequences that grow.                                                    *)

LEMMA InSeqOfItsRange ==
  ASSUME NEW S, NEW s \in Seq(S)
  PROVE  IsSeq(s)
  <1>1. Range(s) = {s[i] : i \in DOMAIN s}
    BY RangeEquality, LenProperties
  <1> QED BY <1>1, SeqOfRange DEF IsSeq

LEMMA AppendFacts ==
  ASSUME NEW s, IsSeq(s), NEW e
  PROVE  /\ IsSeq(Append(s, e))
         /\ Len(s) \in Nat /\ DOMAIN s = 1 .. Len(s)
         /\ Len(Append(s, e)) = Len(s) + 1 /\ DOMAIN Append(s, e) = 1 .. Len(s) + 1
         /\ \A i \in 1 .. Len(s) : Append(s, e)[i] = s[i]
         /\ Append(s, e)[Len(s) + 1] = e
  <1> DEFINE S == {s[i] : i \in DOMAIN s} \cup {e}
  <1>1. s \in Seq(S)
    <2>1. {s[i] : i \in DOMAIN s} \subseteq S
      OBVIOUS
    <2> QED BY <2>1, SeqMonotonic DEF IsSeq
  <1>2. e \in S
    OBVIOUS
  <1> HIDE DEF S
  <1>3. /\ Append(s, e) \in Seq(S) /\ Len(Append(s, e)) = Len(s) + 1
        /\ \A i \in 1 .. Len(s) : Append(s, e)[i] = s[i]
        /\ Append(s, e)[Len(s) + 1] = e
        /\ Len(s) \in Nat /\ DOMAIN s = 1 .. Len(s)
        /\ DOMAIN Append(s, e) = 1 .. Len(s) + 1
    BY <1>1, <1>2, AppendProperties, LenProperties
  <1>4. IsSeq(Append(s, e))
    BY <1>3, InSeqOfItsRange
  <1> QED BY <1>3, <1>4

(* What is known of the lengths of the ledger and the journal.             *)
LEMMA Lengths ==
  ASSUME DeskTyped, NEW c \in Cases
  PROVE  /\ Revision(c) \in Nat /\ DOMAIN ledger[c] = 1 .. Revision(c)
         /\ Len(journal[c]) \in Nat /\ DOMAIN journal[c] = 1 .. Len(journal[c])
  BY LenProperties DEF DeskTyped, IsSeq, Revision

LEMMA LedgerGrows ==
  ASSUME DeskTyped, NEW k, k.case \in Cases, Executed(k)
  PROVE  /\ DOMAIN ledger' = Cases /\ \A c \in Cases : IsSeq(ledger'[c])
         /\ \A c \in Cases : c # k.case => ledger'[c] = ledger[c]
         /\ Len(ledger'[k.case]) = Revision(k.case) + 1
         /\ DOMAIN ledger'[k.case] = 1 .. Revision(k.case) + 1
         /\ \A i \in 1 .. Revision(k.case) : ledger'[k.case][i] = ledger[k.case][i]
         /\ ledger'[k.case][Revision(k.case) + 1] = k
  <1>1. DOMAIN ledger = Cases /\ \A c \in Cases : IsSeq(ledger[c])
    BY DEF DeskTyped
  <1>2. /\ DOMAIN ledger' = Cases /\ ledger'[k.case] = Append(ledger[k.case], k)
        /\ \A c \in Cases : c # k.case => ledger'[c] = ledger[c]
    BY <1>1 DEF Executed
  <1>3. IsSeq(ledger[k.case])
    BY <1>1
  <1>4. /\ IsSeq(ledger'[k.case]) /\ Len(ledger'[k.case]) = Revision(k.case) + 1
        /\ DOMAIN ledger'[k.case] = 1 .. Revision(k.case) + 1
        /\ \A i \in 1 .. Revision(k.case) : ledger'[k.case][i] = ledger[k.case][i]
        /\ ledger'[k.case][Revision(k.case) + 1] = k
    BY <1>2, <1>3, AppendFacts DEF Revision
  <1> QED BY <1>1, <1>2, <1>4

Posted(c, e) == c \in Cases /\ journal' = [journal EXCEPT ![c] = Append(@, e)]

LEMMA JournalGrows ==
  ASSUME DeskTyped, NEW d, NEW e, Posted(d, e)
  PROVE  /\ DOMAIN journal' = Cases /\ \A c \in Cases : IsSeq(journal'[c])
         /\ \A c \in Cases : c # d => journal'[c] = journal[c]
         /\ DOMAIN journal'[d] = 1 .. Len(journal[d]) + 1
         /\ \A i \in 1 .. Len(journal[d]) : journal'[d][i] = journal[d][i]
         /\ journal'[d][Len(journal[d]) + 1] = e
         /\ Len(journal[d]) \in Nat /\ DOMAIN journal[d] = 1 .. Len(journal[d])
  <1>1. DOMAIN journal = Cases /\ \A c \in Cases : IsSeq(journal[c])
    BY DEF DeskTyped
  <1>2. /\ DOMAIN journal' = Cases /\ journal'[d] = Append(journal[d], e) /\ d \in Cases
        /\ \A c \in Cases : c # d => journal'[c] = journal[c]
    BY <1>1 DEF Posted
  <1>3. IsSeq(journal[d])
    BY <1>1, <1>2
  <1>4. /\ IsSeq(journal'[d]) /\ DOMAIN journal'[d] = 1 .. Len(journal[d]) + 1
        /\ \A i \in 1 .. Len(journal[d]) : journal'[d][i] = journal[d][i]
        /\ journal'[d][Len(journal[d]) + 1] = e
        /\ Len(journal[d]) \in Nat /\ DOMAIN journal[d] = 1 .. Len(journal[d])
    BY <1>2, <1>3, AppendFacts
  <1> QED BY <1>1, <1>2, <1>4

-----------------------------------------------------------------------------
(* How the journal and its receipts move. A message of the program comes   *)
(* from an observer, a worker or the thread of a question; everything else *)
(* is said by people or is not a message.                                  *)

Own(id) == id[1] \in Tags

Kept == UNCHANGED receipts \/ \E id : ~Own(id) /\ receipts' = receipts \cup {id}

ScanKept == scan' = scan \/ scan'.phase # "escalate"

Said(e) == e.kind # "HANDOFF" /\ (e.kind = "MESSAGE" => ~Own(e.source))

Made(e) ==
  IsHandoff(e) /\ e.handoff \notin receipts /\ e.handoff \in receipts' /\ e.act = "OPEN"

Worked(c, e) ==
  /\ IsHandoff(e) /\ e.act # "ESCALATE"
  /\ \E h \in Latest(c) : e.handoff = h.handoff /\ e.level = h.level

Moved(c, e) == Posted(c, e) /\ Kept /\ ScanKept

(* The observer o copies x for the first time.                             *)
Copies(o, x) ==
  LET v == observers[o] IN
  /\ v.phase = "copy" /\ \A y \in v.left : ~Sooner(y, x)
  /\ Effect(NoticeId(v.case, x), v.case, Message(NoticeId(v.case, x), v.revision))
  /\ UNCHANGED <<ledger, scan>>

JournalMove ==
  \/ UNCHANGED journal /\ Kept /\ ScanKept
  \/ \E c \in Cases : ScanHandoff(c)
  \/ \E c \in Cases : \E e : Moved(c, e) /\ (Said(e) \/ Made(e) \/ Worked(c, e))
  \/ scan.phase = "escalate" /\ Moved(scan.case, Raised(scan.handoff)) /\ scan' = Idle
  \/ \E o \in Observers : \E x \in observers[o].left : Copies(o, x)
  \/ \E w \in Pool :
       LET v == drains[w] IN
       /\ Publish(w)
       /\ Effect(AnswerId(v.seen), v.case, Message(AnswerId(v.seen), v.job.revision))
  \/ \E q \in Requests :
       PublishReply(q) /\ Effect(ReplyId(asking[q].talk), q.case, Reply(q))

LEMMA Writes ==
  ASSUME NEW id, ~Own(id), NEW c \in Cases, NEW e, Said(e), Write(id, c, e), ScanKept
  PROVE  JournalMove
  <1>1. CASE Effect(id, c, e)
    BY <1>1 DEF Effect, Receipted, JournalMove, Moved, Posted, Kept
  <1>2. CASE Repeated(id)
    BY <1>2 DEF Repeated, JournalMove, Kept
  <1> QED BY <1>1, <1>2 DEF Write

LEMMA Creates ==
  ASSUME NEW id, ~Own(id), NEW c \in Cases, NEW reason, CreateHandoff(id, c, reason), ScanKept
  PROVE  JournalMove
  <1>1. CASE Repeated(id)
    BY <1>1 DEF Repeated, JournalMove, Kept
  <1>2. ASSUME NEW a \in Staff, Effect(id, c, NewHandoff(id, reason, a))
        PROVE  JournalMove
    <2>1. IsHandoff(NewHandoff(id, reason, a)) /\ NewHandoff(id, reason, a).handoff = id
            /\ NewHandoff(id, reason, a).act = "OPEN"
      BY DEF IsHandoff, NewHandoff
    <2>2. PICK e : e = NewHandoff(id, reason, a)
      OBVIOUS
    <2>3. Moved(c, e) /\ Made(e)
      BY <1>2, <2>1, <2>2 DEF Effect, Receipted, Moved, Posted, Kept, Made
    <2> QED BY <2>3 DEF JournalMove
  <1>3. CASE receipts' = Receipted(id) /\ UNCHANGED journal
    BY <1>3 DEF Receipted, JournalMove, Kept
  <1> QED BY <1>1, <1>2, <1>3 DEF CreateHandoff

LEMMA Works ==
  ASSUME HandoffsOk, NEW q \in Requests, NEW h \in Latest(q.case), ScanKept,
         Claim(q, h) \/ Resolve(q, h)
  PROVE  JournalMove
  <1>1. q.case \in Cases /\ ~Own(q.id)
    BY DeskAssumption, AgentAssumption DEF Own
  <1>2. IsHandoff(h)
    BY <1>1 DEF Latest, HandoffsOk
  <1>3. ASSUME NEW e, Effect(q.id, q.case, e), IsHandoff(e), e.act # "ESCALATE",
               e.handoff = h.handoff, e.level = h.level
        PROVE  JournalMove
    <2>1. Moved(q.case, e) /\ Worked(q.case, e)
      BY <1>1, <1>3 DEF Effect, Receipted, Moved, Posted, Kept, Worked
    <2> QED BY <1>1, <2>1 DEF JournalMove
  <1>4. ASSUME NEW f, Effect(q.id, q.case, Claimed(h, q.actor, f))
        PROVE  JournalMove
    <2>1. PICK e : e = Claimed(h, q.actor, f)
      OBVIOUS
    <2>2. IsHandoff(e) /\ e.act # "ESCALATE" /\ e.handoff = h.handoff /\ e.level = h.level
      BY <1>2, <2>1 DEF Claimed, IsHandoff
    <2> QED BY <1>3, <1>4, <2>1, <2>2
  <1>5. CASE Resolve(q, h)
    <2>1. PICK e : e = [h EXCEPT !.status = "RESOLVED", !.assignee = q.actor, !.act = "RESOLVE"]
      OBVIOUS
    <2>2. IsHandoff(e) /\ e.act # "ESCALATE" /\ e.handoff = h.handoff /\ e.level = h.level
      BY <1>2, <2>1 DEF IsHandoff
    <2> QED BY <1>3, <1>5, <2>1, <2>2 DEF Resolve
  <1> QED BY <1>4, <1>5 DEF Claim

LEMMA PeopleMoves ==
  ASSUME DeskTyped, HandoffsOk, DeskStep
  PROVE  JournalMove
  <1>1. CASE StaffStep
    <2>1. ASSUME NEW q \in Requests, Ask(q)
          PROVE  JournalMove
      <3>1. q.case \in Cases /\ ~Own(q.id) /\ ScanKept
        BY <2>1, DeskAssumption, AgentAssumption DEF Own, Ask, ScanKept
      <3>2. CASE Write(q.id, q.case, Message(q.id, Revision(q.case)))
        <4>1. PICK e : e = Message(q.id, Revision(q.case))
          OBVIOUS
        <4>2. Said(e)
          BY <3>1, <4>1 DEF Said, Message
        <4> QED BY <3>1, <3>2, <4>1, <4>2, Writes
      <3>3. CASE CreateHandoff(q.id, q.case, "asked")
        BY <3>1, <3>3, Creates
      <3>4. ASSUME NEW h \in Latest(q.case), Claim(q, h) \/ Resolve(q, h)
            PROVE  JournalMove
        BY <3>1, <3>4, Works
      <3> QED BY <2>1, <3>2, <3>3, <3>4 DEF Ask
    <2>2. ASSUME NEW c \in Cases, NEW a \in Staff, NEW upto \in DOMAIN journal[c], MarkRead(c, a, upto)
          PROVE  JournalMove
      <3>1. PICK e : e.kind = "READ" /\ Posted(c, e)
        BY <2>2 DEF MarkRead, Posted
      <3>2. Moved(c, e) /\ Said(e)
        BY <2>2, <3>1 DEF MarkRead, Moved, Kept, ScanKept, Said
      <3> QED BY <3>2 DEF JournalMove
    <2> QED BY <1>1, <2>1, <2>2 DEF StaffStep
  <1>2. CASE ScanStep
    <2>1. ASSUME NEW c \in Cases, ScanHandoff(c)
          PROVE  JournalMove
      BY <2>1 DEF JournalMove
    <2>2. ASSUME NEW c \in Cases, Remind(c)
          PROVE  JournalMove
      <3>1. PICK st : st = Stage(c)
        OBVIOUS
      <3>2. Said([kind |-> "REMINDER", stage |-> st]) /\ ~Own(<<"deadline", st>>) /\ ScanKept
        BY <2>2 DEF Said, Own, Tags, ScanKept, Remind
      <3> QED BY <2>2, <3>1, <3>2, Writes DEF Remind
    <2>3. CASE Escalate
      <3>1. CASE Effect(EscalationKey(scan.handoff), scan.case, Raised(scan.handoff))
        <4>1. scan.case \in Cases
          BY <2>3 DEF Escalate, DeskTyped, Idle
        <4>2. ~Own(EscalationKey(scan.handoff))
          BY DEF Own, Tags, EscalationKey
        <4>3. Kept
          BY <3>1, <4>2 DEF Effect, Receipted, Kept
        <4>4. ScanKept
          BY <2>3 DEF Escalate, ScanKept, Idle
        <4>5. Moved(scan.case, Raised(scan.handoff))
          BY <3>1, <4>1, <4>3, <4>4 DEF Effect, Moved, Posted
        <4> QED BY <2>3, <4>5 DEF Escalate, JournalMove
      <3>2. CASE Repeated(EscalationKey(scan.handoff))
        BY <2>3, <3>2 DEF Repeated, Escalate, JournalMove, Kept, ScanKept, Idle
      <3> QED BY <2>3, <3>1, <3>2 DEF Escalate, Write
    <2>4. CASE HandOver
      <3>1. scan.case \in Cases /\ ScanKept
        BY <2>4 DEF HandOver, DeskTyped, Idle, ScanKept
      <3>2. PICK c \in Cases : c = scan.case
        BY <3>1
      <3>4. PICK st : st = scan.stage
        OBVIOUS
      <3>3. ~Own(<<"deadline-handoff", st>>)
        BY DEF Own, Tags
      <3> QED BY <2>4, <3>1, <3>2, <3>3, <3>4, Creates DEF HandOver
    <2> QED BY <1>2, <2>1, <2>2, <2>3, <2>4 DEF ScanStep
  <1>3. CASE TimePasses
    BY <1>3 DEF TimePasses, JournalMove, Kept, ScanKept
  <1>4. CASE FileStep
    BY <1>4 DEF FileStep, BeginUpload, StoreFile, UploadEnds, EndUpload, JournalMove, Kept, ScanKept
  <1> QED BY <1>1, <1>2, <1>3, <1>4 DEF DeskStep

LEMMA AskingMoves ==
  ASSUME DeskTyped, NEW q \in Requests, AskStep(q)
  PROVE  JournalMove
  <1>a. q.case \in Cases /\ ~Own(q.id)
    BY DeskAssumption, AgentAssumption DEF Own
  <1>b. ScanKept
    BY DEF AskStep, Question, QuestionStep, LookUp, Consult, Consulted, SaveReply, PublishReply,
           HandToStaff, ScanKept, deskVars
  <1>1. CASE UNCHANGED <<journal, receipts>>
    BY <1>1, <1>b DEF JournalMove, Kept
  <1>2. CASE Question(q)
    <2>1. PICK r : Effect(q.id, q.case, Message(q.id, r))
      BY <1>2 DEF Question
    <2>2. PICK e : e = Message(q.id, r)
      OBVIOUS
    <2>3. Said(e)
      BY <1>a, <2>2 DEF Said, Message
    <2> QED BY <1>a, <1>b, <2>1, <2>2, <2>3, Writes DEF Write
  <1>3. CASE LookUp(q) \/ Consult(q) \/ Consulted(q) \/ SaveReply(q)
    BY <1>1, <1>3 DEF LookUp, Consult, Consulted, SaveReply, deskVars
  <1>4. CASE PublishReply(q)
    <2>1. CASE Effect(ReplyId(asking[q].talk), q.case, Reply(q))
      BY <1>4, <2>1 DEF JournalMove
    <2>2. CASE Repeated(ReplyId(asking[q].talk))
      BY <1>1, <2>2 DEF Repeated
    <2> QED BY <1>4, <2>1, <2>2 DEF PublishReply, Write
  <1>5. CASE HandToStaff(q)
    <2>1. PICK t : t = asking[q].talk
      OBVIOUS
    <2>2. ~Own(<<"agent-handoff", t>>)
      BY DEF Own, Tags
    <2>3. CASE CreateHandoff(<<"agent-handoff", t>>, q.case, "unverified")
      BY <1>a, <1>b, <2>2, <2>3, Creates
    <2> QED BY <1>1, <1>5, <2>1, <2>3 DEF HandToStaff
  <1> QED BY <1>2, <1>3, <1>4, <1>5 DEF AskStep, QuestionStep

LEMMA JournalMoves ==
  ASSUME DeskTyped, HandoffsOk, Step
  PROVE  JournalMove
  <1>1. CASE UNCHANGED <<journal, receipts, scan>>
    BY <1>1 DEF JournalMove, Kept, ScanKept
  <1>2. ASSUME NEW c \in Cases, NEW a \in Triggers, OtherStep(c, a)
        PROVE  JournalMove
    BY <1>1, <1>2 DEF OtherStep, deskVars
  <1>3. ASSUME NEW u \in Uploads, FileStepDone(u)
        PROVE  JournalMove
    BY <1>1, <1>3 DEF FileStepDone, Register, EndUpload
  <1>4. ASSUME NEW c \in Cases, RepeatStep(c) \/ UserRun(c)
        PROVE  JournalMove
    BY <1>1, <1>4 DEF RepeatStep, UserRun, deskVars
  <1>5. ASSUME NEW o \in Observers, ObserverStep(o)
        PROVE  JournalMove
    <2>1. CASE ReadAgain(o) \/ Observe(o) \/ ScheduleChange(o)
      BY <1>1, <2>1 DEF ReadAgain, Observe, ScheduleChange, deskVars
    <2>2. CASE CopyNotice(o)
      <3> DEFINE v == observers[o]
      <3>1. PICK x \in v.left :
              /\ \A y \in v.left : ~Sooner(y, x)
              /\ Write(NoticeId(v.case, x), v.case, Message(NoticeId(v.case, x), v.revision))
        BY <2>2 DEF CopyNotice
      <3>2. v.phase = "copy" /\ UNCHANGED <<ledger, scan>>
        BY <2>2 DEF CopyNotice
      <3>3. CASE Repeated(NoticeId(v.case, x))
        BY <1>1, <3>2, <3>3 DEF Repeated
      <3>4. CASE Effect(NoticeId(v.case, x), v.case, Message(NoticeId(v.case, x), v.revision))
        BY <3>1, <3>2, <3>4 DEF JournalMove, Copies
      <3> QED BY <3>1, <3>3, <3>4 DEF Write
    <2> QED BY <1>5, <2>1, <2>2 DEF ObserverStep
  <1>6. ASSUME NEW w \in Pool, WorkerStep(w)
        PROVE  JournalMove
    <2>1. CASE (\E c \in Cases : Start(w, c)) \/ Pop(w) \/ Look(w) \/ Again(w) \/ Converse(w)
                 \/ Answered(w) \/ SaveTalk(w)
      BY <1>1, <2>1 DEF Start, Pop, Look, Again, Converse, Answered, SaveTalk, deskVars
    <2>2. CASE Publish(w)
      <3> DEFINE v == drains[w]
                 id == AnswerId(v.seen)
      <3>1. UNCHANGED scan
        BY <2>2 DEF Publish
      <3>2. CASE Repeated(id)
        BY <1>1, <3>1, <3>2 DEF Repeated
      <3>3. CASE Effect(id, v.case, Message(id, v.job.revision))
        BY <2>2, <3>3 DEF JournalMove
      <3> QED BY <2>2, <3>2, <3>3 DEF Publish, Write
    <2> QED BY <1>6, <2>1, <2>2 DEF WorkerStep
  <1>7. CASE RestartStep
    BY <1>7 DEF RestartStep, JournalMove, Kept, ScanKept, Idle
  <1>8. ASSUME NEW q \in Requests, AskStep(q)
        PROVE  JournalMove
    BY <1>8, AskingMoves
  <1> QED BY <1>1, <1>2, <1>3, <1>4, <1>5, <1>6, <1>7, <1>8, PeopleMoves DEF Step, deskVars

-----------------------------------------------------------------------------
(* A handoff is escalated once.                                            *)

(* The entry e may follow what is in the journal of c.                     *)
Follows(c, e) ==
  e.kind = "HANDOFF" =>
    /\ IsHandoff(e) /\ e.handoff \in receipts'
    /\ e.act = "ESCALATE" => e.level = 1
    /\ \A i \in DOMAIN journal[c] :
         /\ journal[c][i].kind = "HANDOFF" /\ journal[c][i].handoff = e.handoff
         /\ journal[c][i].act = "ESCALATE"
         => e.level = 1 /\ e.act # "ESCALATE"

EntriesOk ==
  \A c \in Cases : \A i \in DOMAIN journal[c] :
    journal[c][i].kind = "HANDOFF" =>
      IsHandoff(journal[c][i]) /\ journal[c][i].handoff \in receipts /\ RaisedAfter(c, i)

LEMMA EntriesFollow ==
  ASSUME DeskTyped, EntriesOk, receipts \subseteq receipts', NEW d, NEW e, Posted(d, e), Follows(d, e)
  PROVE  EntriesOk'
  <1> SUFFICES ASSUME NEW c \in Cases, NEW i \in DOMAIN journal'[c], journal'[c][i].kind = "HANDOFF"
               PROVE  /\ IsHandoff(journal'[c][i]) /\ journal'[c][i].handoff \in receipts'
                      /\ RaisedAfter(c, i)'
    BY DEF EntriesOk
  <1>1. CASE c # d
    <2>1. journal'[c] = journal[c]
      BY <1>1, JournalGrows
    <2> QED BY <2>1 DEF EntriesOk, RaisedAfter
  <1>2. CASE c = d
    <2> DEFINE n == Len(journal[d])
    <2>1. /\ DOMAIN journal'[d] = 1 .. n + 1 /\ journal'[d][n + 1] = e
          /\ \A k \in 1 .. n : journal'[d][k] = journal[d][k]
          /\ n \in Nat /\ DOMAIN journal[d] = 1 .. n
      BY JournalGrows
    <2> HIDE DEF n
    <2>2. CASE i = n + 1
      <3>1. IsHandoff(e) /\ e.handoff \in receipts' /\ (e.act = "ESCALATE" => e.level = 1)
        BY <1>2, <2>1, <2>2 DEF Follows
      <3>2. \A k \in DOMAIN journal'[c] : ~(k > i)
        BY <1>2, <2>1, <2>2
      <3> QED BY <1>2, <2>1, <2>2, <3>1, <3>2 DEF RaisedAfter
    <2>3. CASE i \in 1 .. n
      <3>1. /\ journal'[c][i] = journal[c][i] /\ i \in DOMAIN journal[c]
        BY <1>2, <2>1, <2>3
      <3>2. IsHandoff(journal[c][i]) /\ journal[c][i].handoff \in receipts' /\ RaisedAfter(c, i)
        BY <3>1 DEF EntriesOk
      <3>3. ASSUME journal[c][i].act = "ESCALATE", NEW k \in DOMAIN journal'[c], k > i,
                   journal'[c][k].kind = "HANDOFF", journal'[c][k].handoff = journal[c][i].handoff
            PROVE  journal'[c][k].level = 1 /\ journal'[c][k].act # "ESCALATE"
        <4>1. CASE k \in 1 .. n
          BY <1>2, <2>1, <3>2, <3>3, <4>1 DEF RaisedAfter
        <4>2. CASE k = n + 1
          BY <1>2, <2>1, <3>1, <3>3, <4>2 DEF Follows
        <4> QED BY <1>2, <2>1, <4>1, <4>2
      <3>4. journal[c][i].act = "ESCALATE" => journal[c][i].level = 1
        BY <3>2 DEF RaisedAfter
      <3> QED BY <3>1, <3>2, <3>3, <3>4 DEF RaisedAfter
    <2> QED BY <1>2, <2>1, <2>2, <2>3
  <1> QED BY <1>1, <1>2

LEMMA NoneEscalated ==
  ASSUME DeskTyped, NEW d, NEW e, Posted(d, e), e.kind = "HANDOFF" => e.act # "ESCALATE",
         NEW c \in Cases, NEW id, ~Escalated(c, id)
  PROVE  ~Escalated(c, id)'
  <1>1. CASE c # d
    <2>1. journal'[c] = journal[c]
      BY <1>1, JournalGrows
    <2> QED BY <2>1 DEF Escalated, Escalations
  <1>2. CASE c = d
    BY <1>2, JournalGrows DEF Escalated, Escalations
  <1> QED BY <1>1, <1>2

LEMMA HandoffsStep ==
  ASSUME DeskTyped, HandoffsOk, JournalMove
  PROVE  HandoffsOk'
  <1> DEFINE ScanOk ==
        scan.phase = "escalate" =>
          /\ IsHandoff(scan.handoff) /\ scan.handoff.handoff \in receipts
          /\ ~Escalated(scan.case, scan.handoff.handoff)
  <1>a. EntriesOk /\ ScanOk
    BY DEF HandoffsOk, EntriesOk
  <1>b. EntriesOk' /\ ScanOk' => HandoffsOk'
    BY DEF HandoffsOk, EntriesOk
  <1>c. scan.phase = "escalate" => scan.case \in Cases
    BY DEF DeskTyped, Idle
  <1>d. Kept => receipts \subseteq receipts'
    BY DEF Kept
  <1>1. ASSUME UNCHANGED journal, receipts \subseteq receipts'
        PROVE  EntriesOk' /\ (ScanKept => ScanOk')
    <2>1. EntriesOk'
      BY <1>a, <1>1 DEF EntriesOk, RaisedAfter
    <2>2. ASSUME scan' = scan, scan.phase = "escalate"
          PROVE  ScanOk'
      BY <1>a, <1>1, <2>2 DEF Escalated, Escalations
    <2> QED BY <2>1, <2>2 DEF ScanKept
  <1>2. ASSUME NEW d, NEW e, Moved(d, e), Follows(d, e), e.kind = "HANDOFF" => e.act # "ESCALATE"
        PROVE  EntriesOk' /\ ScanOk'
    <2>1. Posted(d, e) /\ receipts \subseteq receipts' /\ ScanKept
      BY <1>2, <1>d DEF Moved
    <2>2. EntriesOk'
      BY <1>a, <1>2, <2>1, EntriesFollow
    <2>3. ASSUME scan' = scan, scan.phase = "escalate"
          PROVE  ScanOk'
      <3>1. PICK c, h : c \in Cases /\ c = scan.case /\ h = scan.handoff
        BY <1>c, <2>3
      <3>2. ~Escalated(c, h.handoff)'
        BY <1>2, <1>a, <2>1, <2>3, <3>1, NoneEscalated
      <3> QED BY <1>a, <2>1, <2>3, <3>1, <3>2 DEF Escalated, Escalations
    <2> QED BY <2>1, <2>2, <2>3 DEF ScanKept
  <1>3. CASE UNCHANGED journal /\ Kept /\ ScanKept
    BY <1>1, <1>3, <1>b, <1>d
  <1>4. ASSUME NEW c \in Cases, ScanHandoff(c)
        PROVE  HandoffsOk'
    <2>1. PICK h \in Unresolved(c) : Due(h) /\ scan' = [phase |-> "escalate", case |-> c, handoff |-> h]
      BY <1>4 DEF ScanHandoff
    <2>2. PICK i \in DOMAIN journal[c] :
            /\ journal[c][i].kind = "HANDOFF" /\ h = journal[c][i] /\ h.level = 0
            /\ \A k \in i + 1 .. Len(journal[c]) :
                 ~(journal[c][k].kind = "HANDOFF" /\ journal[c][k].handoff = journal[c][i].handoff)
      BY <2>1 DEF Unresolved, Latest, Due
    <2>3. ~Escalated(c, h.handoff)
      <3> SUFFICES ASSUME NEW k \in Escalations(c), journal[c][k].handoff = h.handoff
                   PROVE  FALSE
        BY DEF Escalated
      <3>1. k \in DOMAIN journal[c] /\ RaisedAfter(c, k) /\ journal[c][k].kind = "HANDOFF"
              /\ journal[c][k].act = "ESCALATE"
        BY <1>a DEF Escalations, EntriesOk
      <3>2. Len(journal[c]) \in Nat /\ DOMAIN journal[c] = 1 .. Len(journal[c])
        BY Lengths
      <3>3. k <= i
        BY <2>2, <3>1, <3>2
      <3> QED BY <2>2, <3>1, <3>2, <3>3 DEF RaisedAfter
    <2>4. UNCHANGED <<journal, receipts>>
      BY <1>4 DEF ScanHandoff
    <2>5. IsHandoff(h) /\ h.handoff \in receipts
      BY <1>a, <2>2 DEF EntriesOk
    <2>6. ScanOk'
      BY <2>1, <2>3, <2>4, <2>5 DEF Escalated, Escalations
    <2> QED BY <1>1, <1>b, <2>4, <2>6
  <1>5. ASSUME NEW c \in Cases, NEW e, Moved(c, e), Said(e) \/ Made(e) \/ Worked(c, e)
        PROVE  HandoffsOk'
    <2>1. e.kind = "HANDOFF" => e.act # "ESCALATE"
      BY <1>5 DEF Said, Made, Worked
    <2>2. Follows(c, e)
      <3>1. CASE Said(e)
        BY <3>1 DEF Said, Follows
      <3>2. CASE Made(e)
        BY <1>a, <3>2 DEF Made, Follows, EntriesOk
      <3>3. CASE Worked(c, e)
        <4>1. PICK i \in DOMAIN journal[c] :
                /\ journal[c][i].kind = "HANDOFF"
                /\ e.handoff = journal[c][i].handoff /\ e.level = journal[c][i].level
                /\ \A k \in i + 1 .. Len(journal[c]) :
                     ~(journal[c][k].kind = "HANDOFF" /\ journal[c][k].handoff = journal[c][i].handoff)
          BY <3>3 DEF Worked, Latest
        <4>2. e.handoff \in receipts' /\ IsHandoff(e) /\ e.act # "ESCALATE"
          BY <1>a, <1>5, <1>d, <3>3, <4>1 DEF EntriesOk, Moved, Worked
        <4>3. ASSUME NEW k \in DOMAIN journal[c], journal[c][k].kind = "HANDOFF",
                     journal[c][k].handoff = e.handoff, journal[c][k].act = "ESCALATE"
              PROVE  e.level = 1
          <5>1. RaisedAfter(c, k)
            BY <1>a, <4>3 DEF EntriesOk
          <5>2. Len(journal[c]) \in Nat /\ DOMAIN journal[c] = 1 .. Len(journal[c])
            BY Lengths
          <5>3. k <= i
            BY <4>1, <4>3, <5>2
          <5> QED BY <4>1, <4>3, <5>1, <5>2, <5>3 DEF RaisedAfter
        <4> QED BY <4>2, <4>3 DEF Follows
      <3> QED BY <1>5, <3>1, <3>2, <3>3
    <2> QED BY <1>2, <1>5, <1>b, <2>1, <2>2
  <1>6. CASE scan.phase = "escalate" /\ Moved(scan.case, Raised(scan.handoff)) /\ scan' = Idle
    <2>1. PICK c, e : c \in Cases /\ c = scan.case /\ e = Raised(scan.handoff)
      BY <1>6, <1>c
    <2>2. IsHandoff(e) /\ e.act = "ESCALATE" /\ e.level = 1 /\ e.handoff = scan.handoff.handoff
      BY <1>6, <1>a, <2>1 DEF Raised, IsHandoff
    <2>3. ~Escalated(c, e.handoff) /\ e.handoff \in receipts'
      BY <1>6, <1>a, <1>d, <2>1, <2>2 DEF Moved
    <2>4. Follows(c, e)
      BY <2>2, <2>3 DEF Follows, Escalated, Escalations
    <2>5. EntriesOk'
      BY <1>6, <1>a, <1>d, <2>1, <2>4, EntriesFollow DEF Moved
    <2>6. ScanOk'
      BY <1>6 DEF Idle
    <2> QED BY <1>b, <2>5, <2>6
  <1>7. ASSUME NEW d, NEW e, Posted(d, e), e.kind = "MESSAGE", receipts \subseteq receipts', UNCHANGED scan
        PROVE  HandoffsOk'
    <2>1. EntriesOk'
      BY <1>a, <1>7, EntriesFollow DEF Follows
    <2>2. ASSUME scan.phase = "escalate"
          PROVE  ScanOk'
      <3>1. PICK c, h : c \in Cases /\ c = scan.case /\ h = scan.handoff
        BY <1>c, <2>2
      <3>2. ~Escalated(c, h.handoff)'
        BY <1>7, <1>a, <2>2, <3>1, NoneEscalated
      <3> QED BY <1>a, <1>7, <2>2, <3>1, <3>2 DEF Escalated, Escalations
    <2> QED BY <1>7, <1>b, <2>1, <2>2
  <1>8. ASSUME NEW id, NEW d, NEW e, e.kind = "MESSAGE", Effect(id, d, e), d \in Cases, UNCHANGED scan
        PROVE  HandoffsOk'
    <2>1. Posted(d, e) /\ receipts \subseteq receipts'
      BY <1>8 DEF Effect, Receipted, Posted
    <2> QED BY <1>7, <1>8, <2>1
  <1>9. ASSUME NEW o \in Observers, NEW x \in observers[o].left, Copies(o, x)
        PROVE  HandoffsOk'
    <2>1. PICK c, e :
           /\ c \in Cases /\ c = observers[o].case
           /\ e = Message(NoticeId(observers[o].case, x), observers[o].revision)
      BY <1>9 DEF Copies, DeskTyped, Task, Idle
    <2>2. e.kind = "MESSAGE"
      BY <2>1 DEF Message
    <2> QED BY <1>8, <1>9, <2>1, <2>2 DEF Copies
  <1>10. ASSUME NEW w \in Pool, Publish(w),
               Effect(AnswerId(drains[w].seen), drains[w].case,
                      Message(AnswerId(drains[w].seen), drains[w].job.revision))
        PROVE  HandoffsOk'
    <2>1. PICK c, e :
           /\ c \in Cases /\ c = drains[w].case
           /\ e = Message(AnswerId(drains[w].seen), drains[w].job.revision)
      BY <1>10 DEF Publish, DeskTyped, Drain, Idle
    <2>2. e.kind = "MESSAGE"
      BY <2>1 DEF Message
    <2> QED BY <1>8, <1>10, <2>1, <2>2 DEF Publish
  <1>11. ASSUME NEW q \in Requests, PublishReply(q), Effect(ReplyId(asking[q].talk), q.case, Reply(q))
         PROVE  HandoffsOk'
    <2>1. PICK e : e = Reply(q)
      OBVIOUS
    <2>2. e.kind = "MESSAGE" /\ q.case \in Cases
      BY <2>1, DeskAssumption DEF Reply
    <2> QED BY <1>8, <1>11, <2>1, <2>2 DEF PublishReply
  <1> QED BY <1>3, <1>4, <1>5, <1>6, <1>9, <1>10, <1>11 DEF JournalMove

-----------------------------------------------------------------------------
(* DeskTyped is kept.                                                      *)

LEMMA BegunTyped ==
  ASSUME observers \in [Observers -> Task], NEW t \in Task, Begun(t)
  PROVE  observers' \in [Observers -> Task]
  BY DEF Begun

LEMMA JournalTyped ==
  ASSUME DeskTyped, HandoffsOk, Step
  PROVE  DOMAIN journal' = Cases /\ \A c \in Cases : IsSeq(journal'[c])
  <1>1. JournalMove
    BY JournalMoves
  <1>2. CASE UNCHANGED journal
    BY <1>2 DEF DeskTyped
  <1>3. ASSUME NEW d, NEW e, Posted(d, e)
        PROVE  DOMAIN journal' = Cases /\ \A c \in Cases : IsSeq(journal'[c])
    BY <1>3, JournalGrows
  <1>4. ASSUME NEW o \in Observers, NEW x \in observers[o].left, Copies(o, x)
        PROVE  observers[o].case \in Cases
    BY <1>4 DEF Copies, DeskTyped, Task, Idle
  <1>5. ASSUME NEW w \in Pool, Publish(w)
        PROVE  drains[w].case \in Cases
    BY <1>5 DEF Publish, DeskTyped, Drain, Idle
  <1>6. ASSUME NEW id, NEW d \in Cases, NEW e, Effect(id, d, e)
        PROVE  Posted(d, e)
    BY <1>6 DEF Effect, Posted
  <1>7. ASSUME NEW c \in Cases, ScanHandoff(c)
        PROVE  UNCHANGED journal
    BY <1>7 DEF ScanHandoff
  <1>8. ASSUME NEW o \in Observers, NEW x \in observers[o].left, Copies(o, x)
        PROVE  \E d, e : Posted(d, e)
    BY <1>4, <1>6, <1>8 DEF Copies
  <1>9. ASSUME NEW w \in Pool, Publish(w),
               Effect(AnswerId(drains[w].seen), drains[w].case,
                      Message(AnswerId(drains[w].seen), drains[w].job.revision))
        PROVE  \E d, e : Posted(d, e)
    BY <1>5, <1>6, <1>9
  <1>11. ASSUME NEW q \in Requests, Effect(ReplyId(asking[q].talk), q.case, Reply(q))
         PROVE  \E d, e : Posted(d, e)
    BY <1>6, <1>11, DeskAssumption
  <1>10. (\E d, e : Posted(d, e)) \/ UNCHANGED journal
    BY <1>1, <1>7, <1>8, <1>9, <1>11 DEF JournalMove, Moved
  <1> QED BY <1>2, <1>3, <1>10

LEMMA LedgerTyped ==
  ASSUME DeskTyped, Step
  PROVE  DOMAIN ledger' = Cases /\ \A c \in Cases : IsSeq(ledger'[c])
  <1>1. CASE UNCHANGED ledger
    BY <1>1 DEF DeskTyped
  <1>2. ASSUME NEW k, k.case \in Cases, Executed(k)
        PROVE  DOMAIN ledger' = Cases /\ \A c \in Cases : IsSeq(ledger'[c])
    BY <1>2, LedgerGrows
  <1>3. ASSUME NEW c \in Cases, NEW a \in Triggers, OtherStep(c, a)
        PROVE  \E k : k.case \in Cases /\ Executed(k)
    BY <1>3 DEF OtherStep, OtherWork, OtherCommand
  <1>4. ASSUME NEW u \in Uploads, FileStepDone(u)
        PROVE  \E k : k.case \in Cases /\ Executed(k)
    BY <1>4, DeskAssumption DEF FileStepDone, Register, Registration
  <1>5. (\E k : k.case \in Cases /\ Executed(k)) \/ UNCHANGED ledger
    <2>1. ASSUME NEW o \in Observers, ObserverStep(o)
          PROVE  UNCHANGED ledger
      BY <2>1 DEF ObserverStep, ReadAgain, CopyNotice, Observe, ScheduleChange
    <2>2. ASSUME NEW w \in Pool, WorkerStep(w)
          PROVE  UNCHANGED ledger
      BY <2>2 DEF WorkerStep, Start, Pop, Look, Again, Converse, Answered, SaveTalk, Publish
    <2>3. ASSUME NEW c \in Cases, RepeatStep(c) \/ UserRun(c)
          PROVE  UNCHANGED ledger
      BY <2>3 DEF RepeatStep, UserRun
    <2>4. ASSUME NEW q \in Requests, AskStep(q)
          PROVE  UNCHANGED ledger
      BY <2>4 DEF AskStep, Question, QuestionStep, LookUp, Consult, Consulted, SaveReply,
                  PublishReply, HandToStaff
    <2> QED BY <1>3, <1>4, <2>1, <2>2, <2>3, <2>4 DEF Step, DeskStep, RestartStep
  <1> QED BY <1>1, <1>2, <1>5

LEMMA FilesTyped ==
  ASSUME DeskTyped, Step
  PROVE  /\ uploads' \in [Uploads -> Upload] /\ DOMAIN stored' = Uploads /\ objects' \in Nat
         /\ scan' # Idle => scan'.case \in Cases
  <1> DEFINE Ok == /\ uploads \in [Uploads -> Upload] /\ DOMAIN stored = Uploads /\ objects \in Nat
                   /\ scan # Idle => scan.case \in Cases
  <1>a. Ok
    BY DEF DeskTyped
  <1>1. CASE UNCHANGED <<uploads, stored, objects, scan>>
    BY <1>a, <1>1
  <1>2. ASSUME NEW u \in Uploads, EndUpload(u), UNCHANGED <<stored, objects, scan>>
        PROVE  Ok'
    BY <1>a, <1>2 DEF EndUpload, Upload
  <1>3. CASE FileStep
    <2>1. ASSUME NEW u \in Uploads, NEW expected \in 1 .. MaxRevision, BeginUpload(u, expected)
          PROVE  Ok'
      <3> DEFINE C == \A k \in InUse(u.case) : UploadOf(k) = u \/ FileOf(k) # u.file \/ ReadAnew(u, k)
      <3>1. PICK b \in BOOLEAN : b <=> C
        OBVIOUS
      <3>2. uploads' = [uploads EXCEPT ![u] = [phase |-> "store", expected |-> expected, clear |-> C]]
              /\ UNCHANGED <<stored, objects, scan>>
        BY <2>1 DEF BeginUpload
      <3>3. C \in BOOLEAN
        OBVIOUS
      <3> HIDE DEF C
      <3>4. [phase |-> "store", expected |-> expected, clear |-> C] \in Upload
        BY <3>3 DEF Upload
      <3>5. uploads' \in [Uploads -> Upload]
        BY <1>a, <3>2, <3>4
      <3> QED BY <1>a, <3>2, <3>5
    <2>2. ASSUME NEW u \in Uploads, StoreFile(u)
          PROVE  Ok'
      <3>1. uploads[u] \in Upload /\ uploads[u].phase = "store"
        BY <1>a, <2>2 DEF StoreFile
      <3>2. [uploads[u] EXCEPT !.phase = "register"] \in Upload /\ Idle \in Upload
        BY <3>1 DEF Upload, Idle
      <3>3. uploads' \in [Uploads -> Upload]
        BY <1>a, <2>2, <3>2 DEF StoreFile
      <3>4. DOMAIN stored' = Uploads /\ objects' \in Nat
        BY <1>a, <2>2 DEF StoreFile, StoredOnce
      <3> QED BY <1>a, <2>2, <3>3, <3>4 DEF StoreFile
    <2>3. ASSUME NEW u \in Uploads, UploadEnds(u)
          PROVE  Ok'
      BY <1>2, <2>3 DEF UploadEnds, EndUpload
    <2> QED BY <1>3, <2>1, <2>2, <2>3 DEF FileStep
  <1>4. CASE StaffStep
    BY <1>1, <1>4 DEF StaffStep, Ask, MarkRead
  <1>5. CASE TimePasses
    BY <1>1, <1>5 DEF TimePasses
  <1>6. CASE ScanStep
    <2>1. UNCHANGED <<uploads, stored, objects>>
      BY <1>6 DEF ScanStep, ScanHandoff, Remind, Escalate, HandOver
    <2>2. ASSUME NEW c \in Cases, ScanHandoff(c)
          PROVE  scan'.case \in Cases
      BY <2>2 DEF ScanHandoff
    <2>3. ASSUME NEW c \in Cases, Remind(c)
          PROVE  scan'.case \in Cases
      BY <2>3 DEF Remind
    <2>4. Escalate \/ HandOver => scan' = Idle
      BY DEF Escalate, HandOver
    <2> QED BY <1>a, <1>6, <2>1, <2>2, <2>3, <2>4 DEF ScanStep
  <1>7. CASE RestartStep
    BY <1>a, <1>7 DEF RestartStep, Upload
  <1>8. ASSUME NEW u \in Uploads, FileStepDone(u)
        PROVE  Ok'
    BY <1>2, <1>8 DEF FileStepDone, Register, EndUpload
  <1>9. ASSUME NEW o \in Observers, ObserverStep(o)
        PROVE  Ok'
    BY <1>1, <1>9 DEF ObserverStep, ReadAgain, CopyNotice, Observe, ScheduleChange, deskVars
  <1>10. ASSUME NEW w \in Pool, WorkerStep(w)
        PROVE  Ok'
    BY <1>1, <1>10 DEF WorkerStep, Start, Pop, Look, Again, Converse, Answered, SaveTalk, Publish, deskVars
  <1>11. ASSUME NEW c \in Cases, RepeatStep(c) \/ UserRun(c) \/ \E a \in Triggers : OtherStep(c, a)
        PROVE  Ok'
    BY <1>1, <1>11 DEF RepeatStep, UserRun, OtherStep, deskVars
  <1>12. ASSUME NEW q \in Requests, AskStep(q)
         PROVE  Ok'
    BY <1>1, <1>12 DEF AskStep, Question, QuestionStep, LookUp, Consult, Consulted, SaveReply,
                       PublishReply, HandToStaff, deskVars
  <1> QED BY <1>1, <1>3, <1>4, <1>5, <1>6, <1>7, <1>8, <1>9, <1>10, <1>11, <1>12
          DEF Step, DeskStep, deskVars

(* The threads of the agent.                                               *)

AgentTyped ==
  /\ observers \in [Observers -> Task]
  /\ drains \in [Pool -> Drain]
  /\ pending \in [Cases -> Job \cup {NoJob}]
  /\ running \in SUBSET Cases /\ submitted \in [Cases -> Nat]

LEMMA Schedules ==
  ASSUME pending \in [Cases -> Job \cup {NoJob}], running \in SUBSET Cases, submitted \in [Cases -> Nat],
         NEW c \in Cases, NEW r \in Nat, NEW t \in Triggers, Schedule(c, r, t)
  PROVE  pending' \in [Cases -> Job \cup {NoJob}] /\ running' \in SUBSET Cases /\ submitted' \in [Cases -> Nat]
  <1>1. [revision |-> r, trigger |-> t] \in Job
    BY DEF Job
  <1> QED BY <1>1 DEF Schedule, Submits

LEMMA WorkerTyped ==
  ASSUME AgentTyped, DeskTyped, NEW w \in Pool, WorkerStep(w)
  PROVE  AgentTyped' /\ IsSeq(talks')
  <1> DEFINE v == drains[w]
  <1>a. v \in Drain
    BY DEF AgentTyped
  <1>b. ASSUME v.phase \in Working \ {"pop"}
        PROVE  v \in [phase : Working, case : Cases, job : Job, seen : Nat]
    BY <1>a, <1>b DEF Drain, Idle, Working
  <1>c. IsSeq(talks)
    BY DEF DeskTyped
  <1>d. ASSUME NEW phase \in Working, v.phase \in Working \ {"pop"}, At(w, phase)
        PROVE  drains' \in [Pool -> Drain]
    <2>1. [v EXCEPT !.phase = phase] \in Drain
      BY <1>b, <1>d DEF Drain
    <2> QED BY <1>d, <2>1 DEF AgentTyped, At
  <1>1. ASSUME NEW c \in Cases, Start(w, c)
        PROVE  AgentTyped' /\ IsSeq(talks')
    <2>1. [phase |-> "pop", case |-> c] \in Drain
      BY DEF Drain
    <2> QED BY <1>1, <1>c, <2>1 DEF Start, AgentTyped
  <1>2. CASE Pop(w)
    <2>1. v.case \in Cases
      BY <1>2, <1>a DEF Pop, Drain, Idle
    <2>2. pending[v.case] # NoJob => [phase |-> "look", case |-> v.case, job |-> pending[v.case], seen |-> 0] \in Drain
      BY <2>1 DEF AgentTyped, Drain, Working
    <2>3. Idle \in Drain
      BY DEF Drain
    <2> QED BY <1>2, <1>c, <2>1, <2>2, <2>3 DEF Pop, AgentTyped, NotRunning
  <1>3. CASE Look(w)
    <2>1. v \in [phase : Working, case : Cases, job : Job, seen : Nat]
      BY <1>3, <1>b DEF Look, Working
    <2>2. Revision(v.case) \in Nat
      BY <2>1, Lengths
    <2>3. ASSUME NEW p \in Working
          PROVE  [v EXCEPT !.seen = Revision(v.case), !.phase = p] \in Drain
      BY <2>1, <2>2 DEF Drain
    <2>4. PICK p \in Working : drains' = [drains EXCEPT ![w] = [v EXCEPT !.seen = Revision(v.case), !.phase = p]]
      BY <1>3 DEF Look, Working, AgentTyped
    <2> QED BY <1>3, <1>c, <2>3, <2>4 DEF Look, AgentTyped
  <1>4. CASE Again(w)
    <2>1. v \in [phase : Working, case : Cases, job : Job, seen : Nat] /\ v.phase \in Working \ {"pop"}
      BY <1>4, <1>b DEF Again, Working
    <2>2. PICK c \in Cases, r \in Nat, t \in Triggers : c = v.case /\ r = v.seen /\ t = v.job.trigger
      BY <2>1 DEF Job
    <2>3. pending' \in [Cases -> Job \cup {NoJob}] /\ running' \in SUBSET Cases /\ submitted' \in [Cases -> Nat]
      BY <1>4, <2>2, Schedules DEF Again, AgentTyped
    <2> QED BY <1>4, <1>c, <1>d, <2>1, <2>3 DEF Again, AgentTyped, Working
  <1>5. CASE Converse(w)
    BY <1>5, <1>c, <1>d DEF Converse, AgentTyped, Working
  <1>6. CASE Answered(w)
    BY <1>6, <1>c, <1>d DEF Answered, AgentTyped, Working
  <1>7. CASE SaveTalk(w)
    <2>1. IsSeq(talks') /\ Len(talks') \in Nat
      BY <1>7, <1>c, AppendFacts DEF SaveTalk
    <2>2. v \in [phase : Working, case : Cases, job : Job, seen : Nat]
      BY <1>7, <1>b DEF SaveTalk, Working
    <2>3. drains' \in [Pool -> Drain]
      <3>1. drains' = [drains EXCEPT ![w] = [v EXCEPT !.phase = "publish", !.seen = Len(talks')]]
        BY <1>7 DEF SaveTalk, AgentTyped
      <3>2. [v EXCEPT !.phase = "publish", !.seen = Len(talks')] \in Drain
        BY <2>1, <2>2 DEF Drain, Working
      <3> QED BY <3>1, <3>2 DEF AgentTyped
    <2> QED BY <1>7, <2>1, <2>3 DEF SaveTalk, AgentTyped
  <1>8. CASE Publish(w)
    BY <1>8, <1>c, <1>d DEF Publish, AgentTyped, Working
  <1> QED BY <1>1, <1>2, <1>3, <1>4, <1>5, <1>6, <1>7, <1>8 DEF WorkerStep

LEMMA PublicItems ==
  ASSUME NEW c, NEW n \in Nat
  PROVE  Public(c, n) \subseteq Items
  BY DEF Public, Items

LEMMA ObserverTyped ==
  ASSUME AgentTyped, DeskTyped, NEW o \in Observers, ObserverStep(o)
  PROVE  AgentTyped'
  <1> DEFINE v == observers[o]
  <1>a. v \in Task
    BY DEF AgentTyped
  <1>b. Idle \in Task
    BY DEF Task
  <1>c. v.phase # "idle" => v.case \in Cases /\ v.trigger \in Triggers
    BY <1>a DEF Task, Idle
  <1>1. CASE ReadAgain(o)
    <2>1. v.case \in Cases /\ v.trigger \in Triggers /\ Revision(v.case) \in Nat
      BY <1>1, <1>c, Lengths DEF ReadAgain
    <2>2. ToCopy(v.case) \subseteq Items
      BY <2>1, PublicItems DEF ToCopy
    <2>3. [phase |-> "copy", case |-> v.case, trigger |-> v.trigger,
           revision |-> Revision(v.case), left |-> ToCopy(v.case)] \in Task
      BY <2>1, <2>2 DEF Task
    <2> QED BY <1>1, <2>3 DEF ReadAgain, AgentTyped, memory
  <1>2. CASE CopyNotice(o)
    <2>1. v \in [phase : {"copy"}, case : Cases, trigger : Triggers, revision : Nat,
                left : SUBSET Items]
      BY <1>2, <1>a DEF CopyNotice, Task, Idle
    <2>2. PICK x \in v.left : observers' = [observers EXCEPT ![o].left = @ \ {x}]
      BY <1>2 DEF CopyNotice
    <2>3. [v EXCEPT !.left = v.left \ {x}] \in Task
      BY <2>1 DEF Task
    <2>4. observers' = [observers EXCEPT ![o] = [v EXCEPT !.left = v.left \ {x}]]
      BY <2>2 DEF AgentTyped
    <2> QED BY <1>2, <2>3, <2>4 DEF CopyNotice, AgentTyped, memory
  <1>3. CASE Observe(o)
    <2>1. v.case \in Cases /\ v.trigger \in Triggers /\ v.revision \in Nat
      BY <1>3, <1>a DEF Observe, Task, Idle
    <2>2. [phase |-> "schedule", case |-> v.case, trigger |-> v.trigger, revision |-> v.revision] \in Task
      BY <2>1 DEF Task
    <2> QED BY <1>3, <1>b, <2>2 DEF Observe, AgentTyped, memory
  <1>4. CASE ScheduleChange(o)
    <2>1. PICK c \in Cases, r \in Nat, t \in Triggers : c = v.case /\ r = v.revision /\ t = v.trigger
      BY <1>4, <1>a DEF ScheduleChange, Task, Idle
    <2>2. pending' \in [Cases -> Job \cup {NoJob}] /\ running' \in SUBSET Cases /\ submitted' \in [Cases -> Nat]
      BY <1>4, <2>1, Schedules DEF ScheduleChange, AgentTyped
    <2> QED BY <1>4, <1>b, <2>2 DEF ScheduleChange, AgentTyped
  <1> QED BY <1>1, <1>2, <1>3, <1>4 DEF ObserverStep

LEMMA AskingTyped ==
  ASSUME DeskTyped, AskMove
  PROVE  /\ asking' \in [Requests -> Asker]
         /\ \A q \in Requests : AskStep(q) => IsSeq(talks')
  <1> DEFINE Typed == asking' \in [Requests -> Asker]
  <1>a. asking \in [Requests -> Asker] /\ Idle \in Asker /\ IsSeq(talks)
    BY DEF DeskTyped, Asker
  <1>b. asking' = [q \in Requests |-> Idle] => Typed
    BY <1>a
  <1>c. ASSUME NEW q \in Requests, AskStep(q)
        PROVE  Typed /\ IsSeq(talks')
    <2> DEFINE v == asking[q]
               Phases == {"ask", "model", "save", "publish", "handoff"}
    <2>a. v \in Asker /\ q.case \in Cases
      BY <1>a, DeskAssumption
    <2>b. v.phase \in Phases => v \in [phase : Phases, revision : Nat, talk : Nat]
      BY <2>a DEF Asker, Idle
    <2>c. ASSUME NEW phase \in Phases, v.phase \in Phases, Going(q, phase)
          PROVE  Typed
      <3>1. [v EXCEPT !.phase = phase] \in Asker
        BY <2>b, <2>c DEF Asker
      <3> QED BY <1>a, <2>c, <3>1 DEF Going
    <2>d. Over(q) => Typed
      BY <1>a DEF Over
    <2>1. CASE Question(q)
      <3>1. [phase |-> "read"] \in Asker
        BY DEF Asker
      <3> QED BY <1>a, <2>1, <3>1 DEF Question, agentVars
    <2>2. CASE LookUp(q)
      <3>1. [phase |-> "ask", revision |-> Revision(q.case), talk |-> 0] \in Asker
        BY <2>a, Lengths DEF Asker
      <3> QED BY <1>a, <2>2, <3>1 DEF LookUp, agentVars
    <2>3. CASE Consult(q)
      BY <1>a, <2>3, <2>c, <2>d DEF Consult
    <2>4. CASE Consulted(q)
      BY <1>a, <2>4, <2>c, <2>d DEF Consulted, agentVars
    <2>5. CASE SaveReply(q)
      <3>1. IsSeq(talks') /\ Len(talks') \in Nat
        BY <1>a, <2>5, AppendFacts DEF SaveReply
      <3>2. [v EXCEPT !.phase = "publish", !.talk = Len(talks')] \in Asker
        BY <2>5, <2>b, <3>1 DEF SaveReply, Asker
      <3>3. asking' = [asking EXCEPT ![q] = [v EXCEPT !.phase = "publish", !.talk = Len(talks')]]
        BY <1>a, <2>5 DEF SaveReply
      <3> QED BY <1>a, <3>1, <3>2, <3>3
    <2>6. CASE PublishReply(q)
      BY <1>a, <2>6, <2>c DEF PublishReply, agentVars
    <2>7. CASE HandToStaff(q)
      BY <1>a, <2>7, <2>d DEF HandToStaff, agentVars
    <2> QED BY <1>c, <2>1, <2>2, <2>3, <2>4, <2>5, <2>6, <2>7 DEF AskStep, QuestionStep
  <1>d. UNCHANGED asking => Typed
    BY <1>a
  <1> QED BY <1>b, <1>c, <1>d DEF AskMove

LEMMA TypedStep ==
  ASSUME DeskTyped, HandoffsOk, Step
  PROVE  DeskTyped'
  <1>a. AgentTyped /\ IsSeq(talks)
    BY DEF DeskTyped, AgentTyped
  <1>b. AgentTyped' /\ IsSeq(talks') => DeskTyped'
    BY JournalTyped, LedgerTyped, FilesTyped, AskingTyped DEF DeskTyped, AgentTyped, Step
  <1>1. ASSUME NEW t \in Task, Begun(t), UNCHANGED <<memory, talks>>
        PROVE  DeskTyped'
    <2>1. observers' \in [Observers -> Task]
      BY <1>a, <1>1, BegunTyped DEF AgentTyped
    <2> QED BY <1>a, <1>b, <1>1, <2>1 DEF AgentTyped, memory
  <1>2. CASE UNCHANGED <<observers, memory, talks>>
    BY <1>a, <1>b, <1>2 DEF AgentTyped, memory
  <1>3. ASSUME NEW c \in Cases, NEW a \in Triggers, Tells(c, a), UNCHANGED <<memory, talks>>
        PROVE  DeskTyped'
    <2>1. [phase |-> "read", case |-> c, trigger |-> a] \in Task
      BY DEF Task
    <2> QED BY <1>1, <1>2, <1>3, <2>1 DEF Tells, Committed
  <1>4. ASSUME NEW c \in Cases, NEW a \in Triggers, OtherStep(c, a)
        PROVE  DeskTyped'
    BY <1>3, <1>4 DEF OtherStep
  <1>5. ASSUME NEW u \in Uploads, FileStepDone(u)
        PROVE  DeskTyped'
    <2>1. u.case \in Cases /\ "REGISTER_EVIDENCE" \in Triggers
      BY DeskAssumption DEF Triggers
    <2> QED BY <1>3, <1>5, <2>1 DEF FileStepDone
  <1>6. ASSUME NEW c \in Cases, RepeatStep(c)
        PROVE  DeskTyped'
    <2>1. Tells(c, "REPLAYED") /\ "REPLAYED" \in Triggers
      BY <1>6 DEF RepeatStep, Repetition, Tells, Triggers
    <2> QED BY <1>3, <1>6, <2>1 DEF RepeatStep
  <1>7. ASSUME NEW c \in Cases, UserRun(c)
        PROVE  DeskTyped'
    <2>1. PICK r \in Nat : r = Revision(c)
      BY Lengths
    <2>2. [phase |-> "schedule", case |-> c, trigger |-> "USER_RUN", revision |-> r] \in Task
      BY DEF Task, Triggers
    <2> QED BY <1>1, <1>7, <2>1, <2>2 DEF UserRun
  <1>8. ASSUME NEW o \in Observers, ObserverStep(o)
        PROVE  DeskTyped'
    <2>1. UNCHANGED talks
      BY <1>8 DEF ObserverStep, ReadAgain, CopyNotice, Observe, ScheduleChange
    <2> QED BY <1>a, <1>b, <1>8, <2>1, ObserverTyped
  <1>9. ASSUME NEW w \in Pool, WorkerStep(w)
        PROVE  DeskTyped'
    BY <1>a, <1>b, <1>9, WorkerTyped
  <1>10. CASE RestartStep
    <2>1. AgentTyped'
      BY <1>10 DEF RestartStep, Forget, AgentTyped, Task, Drain
    <2> QED BY <1>a, <1>b, <1>10, <2>1 DEF RestartStep
  <1>11. ASSUME NEW q \in Requests, AskStep(q)
         PROVE  DeskTyped'
    <2>1. UNCHANGED <<observers, memory>>
      BY <1>11 DEF AskStep, Question, QuestionStep, LookUp, Consult, Consulted, SaveReply,
                   PublishReply, HandToStaff, agentVars, memory
    <2>2. IsSeq(talks')
      BY <1>11, AskingTyped DEF Step
    <2> QED BY <1>a, <1>b, <2>1, <2>2 DEF AgentTyped, memory
  <1> QED BY <1>2, <1>4, <1>5, <1>6, <1>7, <1>8, <1>9, <1>10, <1>11
          DEF Step, DeskStep, agentVars, memory

-----------------------------------------------------------------------------
(* The ledger only grows, while the journal stands still.                  *)

LedgerExtends ==
  \A c \in Cases :
    /\ Revision(c) \in Nat /\ Revision(c)' \in Nat /\ Revision(c) <= Revision(c)'
    /\ \A i \in 1 .. Revision(c) : ledger'[c][i] = ledger[c][i]

LEMMA ExecutedExtends ==
  ASSUME DeskTyped, NEW k, k.case \in Cases, Executed(k)
  PROVE  LedgerExtends
  <1> SUFFICES ASSUME NEW c \in Cases
               PROVE  /\ Revision(c) \in Nat /\ Revision(c)' \in Nat /\ Revision(c) <= Revision(c)'
                      /\ \A i \in 1 .. Revision(c) : ledger'[c][i] = ledger[c][i]
    BY DEF LedgerExtends
  <1>1. Revision(c) \in Nat
    BY Lengths
  <1>2. CASE c = k.case
    BY <1>1, <1>2, LedgerGrows DEF Revision
  <1>3. CASE c # k.case
    <2>1. ledger'[c] = ledger[c]
      BY <1>3, LedgerGrows
    <2> QED BY <1>1, <2>1 DEF Revision
  <1> QED BY <1>2, <1>3

LEMMA LedgerMoves ==
  ASSUME DeskTyped, Step
  PROVE  /\ UNCHANGED ledger \/ \E k : k.case \in Cases /\ Executed(k) /\ UNCHANGED <<journal, receipts>>
         /\ LedgerExtends
  <1>1. ASSUME NEW c \in Cases, NEW a \in Triggers, OtherStep(c, a)
        PROVE  \E k : k.case \in Cases /\ Executed(k) /\ UNCHANGED <<journal, receipts>>
    BY <1>1 DEF OtherStep, OtherWork, OtherCommand, deskVars
  <1>2. ASSUME NEW u \in Uploads, FileStepDone(u)
        PROVE  \E k : k.case \in Cases /\ Executed(k) /\ UNCHANGED <<journal, receipts>>
    BY <1>2, DeskAssumption DEF FileStepDone, Register, Registration, EndUpload
  <1>3. ASSUME NEW o \in Observers, ObserverStep(o)
        PROVE  UNCHANGED ledger
    BY <1>3 DEF ObserverStep, ReadAgain, CopyNotice, Observe, ScheduleChange
  <1>4. ASSUME NEW w \in Pool, WorkerStep(w)
        PROVE  UNCHANGED ledger
    BY <1>4 DEF WorkerStep, Start, Pop, Look, Again, Converse, Answered, SaveTalk, Publish
  <1>5. ASSUME NEW c \in Cases, RepeatStep(c) \/ UserRun(c)
        PROVE  UNCHANGED ledger
    BY <1>5 DEF RepeatStep, UserRun
  <1>8. ASSUME NEW q \in Requests, AskStep(q)
        PROVE  UNCHANGED ledger
    BY <1>8 DEF AskStep, Question, QuestionStep, LookUp, Consult, Consulted, SaveReply,
                PublishReply, HandToStaff
  <1>6. UNCHANGED ledger \/ \E k : k.case \in Cases /\ Executed(k) /\ UNCHANGED <<journal, receipts>>
    BY <1>1, <1>2, <1>3, <1>4, <1>5, <1>8 DEF Step, DeskStep, RestartStep
  <1>7. CASE UNCHANGED ledger
    BY <1>6, <1>7, Lengths DEF LedgerExtends, Revision
  <1> QED BY <1>6, <1>7, ExecutedExtends

-----------------------------------------------------------------------------
(* What observers copy, in an order in which they may copy it.             *)

IsPublic(c, x) ==
  \/ x[1] = "notice" /\ ledger[c][x[2]].action \in Noticed
  \/ x[1] = "feedback" /\ ledger[c][x[2]].action \in Feedback

LEMMA PublicIs ==
  ASSUME NEW c, NEW n \in Nat, NEW x \in Items
  PROVE  /\ x \in Public(c, n) <=> x[2] \in 1 .. n /\ IsPublic(c, x)
         /\ x \in Public(c, n)' <=> x[2] \in 1 .. n /\ IsPublic(c, x)'
  <1>1. PICK k \in {"notice", "feedback"}, r \in Nat : x = <<k, r>>
    BY DEF Items
  <1>2. x[1] = k /\ x[2] = r
    BY <1>1
  <1>3. <<k, r>> \in Public(c, n) <=>
          /\ r \in 1 .. n
          /\ \/ k = "notice" /\ ledger[c][r].action \in Noticed
             \/ k = "feedback" /\ ledger[c][r].action \in Feedback
    BY DEF Public
  <1>4. <<k, r>> \in Public(c, n)' <=>
          /\ r \in 1 .. n
          /\ \/ k = "notice" /\ ledger'[c][r].action \in Noticed
             \/ k = "feedback" /\ ledger'[c][r].action \in Feedback
    BY DEF Public
  <1> QED BY <1>1, <1>2, <1>3, <1>4 DEF IsPublic

(* What comes before x is of no later revision than x.                     *)
LEMMA BeforeIs ==
  ASSUME NEW x \in Items, NEW y \in Items, Before(y, x)
  PROVE  x[2] \in Nat /\ y[2] \in Nat /\ y[2] <= x[2] /\ Sooner(y, x)
  BY DEF Items, Before, Sooner

(* What the case showed, it shows.                                         *)
LEMMA PublicStays ==
  ASSUME LedgerExtends, NEW c \in Cases, NEW n \in Nat, n <= Revision(c)
  PROVE  Public(c, n)' = Public(c, n)
  <1>1. \A r \in 1 .. n : ledger'[c][r] = ledger[c][r]
    BY DEF LedgerExtends
  <1> QED BY <1>1 DEF Public

LEMMA TrailStays ==
  ASSUME NoticeTrail, LedgerExtends,
         \A c \in Cases, x \in Items :
           /\ NoticeId(c, x) \in receipts' <=> NoticeId(c, x) \in receipts
           /\ \A i : Copied(c, x, i)' <=> Copied(c, x, i)
  PROVE  NoticeTrail'
  <1>a. ASSUME NEW c \in Cases
        PROVE  /\ Revision(c) \in Nat /\ Revision(c)' \in Nat /\ Revision(c) <= Revision(c)'
               /\ Public(c, Revision(c)) \subseteq Items /\ Public(c, Revision(c))' \subseteq Items
    <2>1. PICK n \in Nat : n = Revision(c)'
      BY DEF LedgerExtends
    <2>2. Public(c, n)' \subseteq Items
      BY DEF Public, Items
    <2> QED BY <2>1, <2>2, PublicItems DEF LedgerExtends
  <1>b. ASSUME NEW c \in Cases, NEW x \in Items, NEW m \in Nat, Revision(c) <= m
        PROVE  x \in Public(c, Revision(c)) <=> x \in Public(c, m)' /\ x[2] <= Revision(c)
    <2>1. PICK n \in Nat : n = Revision(c)
      BY <1>a
    <2>2. (x \in Public(c, n))' <=> x \in Public(c, n)
      BY <2>1, PublicStays
    <2>3. (x \in Public(c, n))' <=> x[2] \in 1 .. n /\ IsPublic(c, x)'
      BY PublicIs
    <2>4. (x \in Public(c, m))' <=> x[2] \in 1 .. m /\ IsPublic(c, x)'
      BY PublicIs
    <2> QED BY <1>b, <2>1, <2>2, <2>3, <2>4
  <1>1. ASSUME NEW c \in Cases, NEW x \in Items
        PROVE  /\ NoticeId(c, x) \in receipts' <=> \E i \in DOMAIN journal'[c] : Copied(c, x, i)'
               /\ NoticeId(c, x) \in receipts' => x \in Public(c, Revision(c))'
    <2>1. NoticeId(c, x) \in receipts' => x \in Public(c, Revision(c))
      BY DEF NoticeTrail
    <2>2. PICK m \in Nat : m = Revision(c)' /\ Revision(c) <= m
      BY <1>a
    <2>3. x \in Public(c, Revision(c)) => x \in Public(c, m)'
      BY <1>b, <2>2
    <2> QED BY <2>1, <2>2, <2>3 DEF NoticeTrail, Copied
  <1>2. ASSUME NEW c \in Cases, NEW x \in Public(c, Revision(c))', NEW i \in DOMAIN journal'[c],
               Copied(c, x, i)'
        PROVE  /\ \A k \in DOMAIN journal'[c] : Copied(c, x, k)' => k = i
               /\ \A y \in Public(c, Revision(c))' :
                    Before(y, x) => \E k \in 1 .. i - 1 : Copied(c, y, k)'
    <2>1. x \in Items
      BY <1>a
    <2>2. Copied(c, x, i) /\ i \in DOMAIN journal[c]
      BY <1>2, <2>1 DEF Copied
    <2>3. x \in Public(c, Revision(c))
      BY <2>1, <2>2 DEF NoticeTrail
    <2>4. /\ \A k \in DOMAIN journal[c] : Copied(c, x, k) => k = i
          /\ \A y \in Public(c, Revision(c)) : Before(y, x) => \E k \in 1 .. i - 1 : Copied(c, y, k)
      BY <2>2, <2>3 DEF NoticeTrail, NoticesInOrder
    <2>5. \A k \in DOMAIN journal'[c] : Copied(c, x, k)' => k = i
      BY <2>1, <2>4 DEF Copied
    <2>6. ASSUME NEW y \in Public(c, Revision(c))', Before(y, x)
          PROVE  \E k \in 1 .. i - 1 : Copied(c, y, k)'
      <3>1. y \in Items
        BY <1>a
      <3>2. PICK m \in Nat : m = Revision(c)' /\ Revision(c) <= m
        BY <1>a
      <3>3. x[2] \in Nat /\ y[2] \in Nat /\ y[2] <= x[2] /\ x[2] <= Revision(c) /\ Revision(c) \in Nat
        BY <1>a, <1>b, <2>1, <2>3, <2>6, <3>1, <3>2, BeforeIs
      <3>4. y \in Public(c, Revision(c))
        BY <1>b, <3>1, <3>2, <3>3
      <3> QED BY <2>4, <2>6, <3>1, <3>4
    <2> QED BY <2>5, <2>6
  <1> QED BY <1>1, <1>2 DEF NoticeTrail, NoticesInOrder

LEMMA KeptReceipts ==
  ASSUME Kept, NEW id, Own(id)
  PROVE  id \in receipts' <=> id \in receipts
  BY DEF Kept

LEMMA NoticeIds ==
  /\ \A c : \A x \in Items : Own(NoticeId(c, x)) /\ NoticeId(c, x)[1] \in {"notice", "feedback"}
  /\ \A c, d : \A x, y \in Items : NoticeId(c, x) = NoticeId(d, y) => c = d /\ x = y
  /\ \A n : Own(AnswerId(n)) /\ AnswerId(n)[1] = "answer"
  /\ \A n, m : AnswerId(n) = AnswerId(m) => n = m
  /\ \A n : Own(ReplyId(n)) /\ ReplyId(n)[1] = "reply"
  /\ \A n, m : ReplyId(n) = ReplyId(m) => n = m
  BY DEF Own, Tags, Items, NoticeId, AnswerId, ReplyId

NotNotice(e) == e.kind = "MESSAGE" => e.source[1] \notin {"notice", "feedback"}

LEMMA OtherPostCopies ==
  ASSUME DeskTyped, NEW d, NEW e, Posted(d, e), NotNotice(e), NEW c \in Cases, NEW x \in Items, NEW i
  PROVE  Copied(c, x, i)' <=> Copied(c, x, i)
  <1>1. CASE c # d
    <2>1. journal'[c] = journal[c]
      BY <1>1, JournalGrows
    <2> QED BY <2>1 DEF Copied
  <1>2. CASE c = d
    <2> DEFINE n == Len(journal[d])
    <2>1. /\ DOMAIN journal'[d] = 1 .. n + 1 /\ journal'[d][n + 1] = e
          /\ \A k \in 1 .. n : journal'[d][k] = journal[d][k]
          /\ n \in Nat /\ DOMAIN journal[d] = 1 .. n
      BY JournalGrows
    <2> HIDE DEF n
    <2>2. ~Says(e, NoticeId(c, x))
      BY NoticeIds DEF NotNotice, Says
    <2> QED BY <1>2, <2>1, <2>2 DEF Copied
  <1> QED BY <1>1, <1>2

LEMMA NoticeCopies ==
  ASSUME DeskTyped, NoticesOk, NEW o \in Observers, NEW x \in observers[o].left, Copies(o, x)
  PROVE  NoticeTrail'
  <1>1. PICK d \in Cases, rev \in Nat, left \in SUBSET Items :
          d = observers[o].case /\ rev = observers[o].revision /\ left = observers[o].left
    BY DEF Copies, DeskTyped, Task, Idle
  <1>a. x \in Items /\ x \in left
    BY <1>1
  <1>2. PICK e : e = Message(NoticeId(d, x), rev)
    OBVIOUS
  <1> DEFINE n == Len(journal[d])
  <1>3. Says(e, NoticeId(d, x))
    BY <1>2 DEF Message, Says
  <1>4. Posted(d, e) /\ receipts' = receipts \cup {NoticeId(d, x)} /\ NoticeId(d, x) \notin receipts
    BY <1>1, <1>2 DEF Copies, Effect, Receipted, Posted
  <1>5. /\ DOMAIN journal'[d] = 1 .. n + 1 /\ journal'[d][n + 1] = e
        /\ \A k \in 1 .. n : journal'[d][k] = journal[d][k]
        /\ \A c \in Cases : c # d => journal'[c] = journal[c]
        /\ n \in Nat /\ DOMAIN journal[d] = 1 .. n
    BY <1>4, JournalGrows
  <1> HIDE DEF n
  <1>6. ASSUME NEW c \in Cases, NEW y \in Items, NEW i
        PROVE  Copied(c, y, i)' <=> Copied(c, y, i) \/ (c = d /\ y = x /\ i = n + 1)
    <2>1. CASE c # d
      BY <1>5, <2>1 DEF Copied
    <2>2. CASE c = d
      <3>1. Says(e, NoticeId(c, y)) <=> y = x
        BY <1>a, <1>3, <2>2, NoticeIds DEF Says
      <3> QED BY <1>5, <2>2, <3>1 DEF Copied
    <2> QED BY <2>1, <2>2
  <1>7. \A c : \A y \in Items : NoticeId(c, y) \in receipts' <=> NoticeId(c, y) \in receipts \/ (c = d /\ y = x)
    BY <1>a, <1>4, NoticeIds
  <1>8. /\ \A c \in Cases : Revision(c)' = Revision(c) /\ Revision(c) \in Nat
        /\ \A c \in Cases : Public(c, Revision(c))' = Public(c, Revision(c))
        /\ \A c \in Cases : Public(c, Revision(c)) \subseteq Items
    <2>1. UNCHANGED ledger
      BY DEF Copies
    <2> QED BY <2>1, Lengths, PublicItems DEF Revision, Public
  <1>9. /\ x \in Public(d, Revision(d))
        /\ \A y \in Public(d, Revision(d)) : Before(y, x) => NoticeId(d, y) \in receipts
    <2>1. /\ rev <= Revision(d) /\ left \subseteq Public(d, rev)
          /\ \A y \in Public(d, rev) \ left : NoticeId(d, y) \in receipts
      BY <1>1 DEF Copies, NoticesOk, ObserversOk, ReaderOk
    <2>2. x[2] \in 1 .. rev /\ IsPublic(d, x)
      BY <1>a, <1>1, <2>1, PublicIs
    <2>3. x \in Public(d, Revision(d))
      BY <1>a, <1>1, <1>8, <2>1, <2>2, PublicIs
    <2>4. ASSUME NEW y \in Public(d, Revision(d)), Before(y, x)
          PROVE  NoticeId(d, y) \in receipts
      <3>1. y \in Items
        BY <1>8
      <3>2. x[2] \in Nat /\ y[2] \in Nat /\ y[2] <= x[2] /\ Sooner(y, x)
        BY <1>a, <2>4, <3>1, BeforeIs
      <3>3. y[2] \in 1 .. rev /\ IsPublic(d, y)
        BY <1>1, <1>8, <2>2, <3>1, <3>2, PublicIs
      <3>4. y \in Public(d, rev)
        BY <1>1, <3>1, <3>3, PublicIs
      <3>5. y \notin left
        BY <1>1, <3>2 DEF Copies
      <3> QED BY <2>1, <3>4, <3>5
    <2> QED BY <2>3, <2>4
  <1>10. \A i : ~Copied(d, x, i)
    BY <1>a, <1>4 DEF NoticesOk, NoticeTrail, Copied
  <1>11. \A c \in Cases, y \in Items :
          /\ NoticeId(c, y) \in receipts <=> \E i \in DOMAIN journal[c] : Copied(c, y, i)
          /\ NoticeId(c, y) \in receipts => y \in Public(c, Revision(c))
    BY DEF NoticesOk, NoticeTrail
  <1>12. ASSUME NEW c \in Cases, NEW y \in Items
         PROVE  /\ NoticeId(c, y) \in receipts' <=> \E i \in DOMAIN journal'[c] : Copied(c, y, i)'
                /\ NoticeId(c, y) \in receipts' => y \in Public(c, Revision(c))'
    <2>1. (\E i \in DOMAIN journal'[c] : Copied(c, y, i)') <=> \E i : Copied(c, y, i)'
      BY DEF Copied
    <2>2. (\E i \in DOMAIN journal[c] : Copied(c, y, i)) <=> \E i : Copied(c, y, i)
      BY DEF Copied
    <2> QED BY <1>6, <1>7, <1>8, <1>9, <1>11, <2>1, <2>2
  <1>13. ASSUME NEW c \in Cases, NEW y \in Public(c, Revision(c))', NEW i \in DOMAIN journal'[c],
                Copied(c, y, i)'
         PROVE  /\ \A k \in DOMAIN journal'[c] : Copied(c, y, k)' => k = i
                /\ \A z \in Public(c, Revision(c))' :
                     Before(z, y) => \E k \in 1 .. i - 1 : Copied(c, z, k)'
    <2>a. y \in Items /\ y \in Public(c, Revision(c))
      BY <1>8
    <2>1. CASE c = d /\ y = x /\ i = n + 1
      <3>1. \A k : Copied(c, y, k)' => k = i
        BY <1>6, <1>10, <2>a, <2>1
      <3>2. ASSUME NEW z \in Public(c, Revision(c))', Before(z, y)
            PROVE  \E k \in 1 .. i - 1 : Copied(c, z, k)'
        <4>1. z \in Items /\ NoticeId(d, z) \in receipts
          BY <1>8, <1>9, <2>1, <3>2
        <4>2. PICK k \in DOMAIN journal[d] : Copied(d, z, k)
          BY <1>11, <4>1
        <4>3. k \in 1 .. i - 1
          BY <1>5, <2>1, <4>2
        <4> QED BY <1>6, <2>1, <4>1, <4>2, <4>3
      <3> QED BY <3>1, <3>2
    <2>2. CASE Copied(c, y, i) /\ ~(c = d /\ y = x)
      <3>1. i \in DOMAIN journal[c]
        BY <2>2 DEF Copied
      <3>2. /\ \A k \in DOMAIN journal[c] : Copied(c, y, k) => k = i
            /\ \A z \in Public(c, Revision(c)) :
                 Before(z, y) => \E k \in 1 .. i - 1 : Copied(c, z, k)
        BY <2>a, <2>2, <3>1 DEF NoticesOk, NoticeTrail, NoticesInOrder
      <3>3. \A k : Copied(c, y, k)' => k = i
        BY <1>6, <2>a, <2>2, <3>2 DEF Copied
      <3>4. ASSUME NEW z \in Public(c, Revision(c))', Before(z, y)
            PROVE  \E k \in 1 .. i - 1 : Copied(c, z, k)'
        BY <1>6, <1>8, <3>2, <3>4
      <3> QED BY <3>3, <3>4
    <2>3. ~(Copied(c, y, i) /\ c = d /\ y = x)
      BY <1>10
    <2> QED BY <1>6, <1>13, <2>a, <2>1, <2>2, <2>3
  <1> QED BY <1>12, <1>13 DEF NoticeTrail, NoticesInOrder

LEMMA TrailStep ==
  ASSUME DeskTyped, HandoffsOk, NoticesOk, Step
  PROVE  NoticeTrail'
  <1>1. LedgerExtends /\ NoticeTrail
    BY LedgerMoves DEF NoticesOk
  <1>2. CASE UNCHANGED <<journal, receipts>>
    <2>1. \A c \in Cases, x \in Items :
            /\ NoticeId(c, x) \in receipts' <=> NoticeId(c, x) \in receipts
            /\ \A i : Copied(c, x, i)' <=> Copied(c, x, i)
      BY <1>2 DEF Copied
    <2> QED BY <1>1, <2>1, TrailStays
  <1>3. ASSUME Kept, UNCHANGED journal
        PROVE  NoticeTrail'
    <2>1. \A c \in Cases, x \in Items :
            /\ NoticeId(c, x) \in receipts' <=> NoticeId(c, x) \in receipts
            /\ \A i : Copied(c, x, i)' <=> Copied(c, x, i)
      BY <1>3, KeptReceipts, NoticeIds DEF Copied
    <2> QED BY <1>1, <2>1, TrailStays
  <1>4. ASSUME NEW d, NEW e, Posted(d, e), NotNotice(e),
               \A c : \A x \in Items : NoticeId(c, x) \in receipts' <=> NoticeId(c, x) \in receipts
        PROVE  NoticeTrail'
    <2>1. \A c \in Cases, x \in Items :
            /\ NoticeId(c, x) \in receipts' <=> NoticeId(c, x) \in receipts
            /\ \A i : Copied(c, x, i)' <=> Copied(c, x, i)
      BY <1>4, OtherPostCopies
    <2> QED BY <1>1, <2>1, TrailStays
  <1>5. ASSUME NEW d, NEW e, Moved(d, e), NotNotice(e)
        PROVE  NoticeTrail'
    <2>1. \A c : \A x \in Items : NoticeId(c, x) \in receipts' <=> NoticeId(c, x) \in receipts
      BY <1>5, KeptReceipts, NoticeIds DEF Moved
    <2> QED BY <1>4, <1>5, <2>1 DEF Moved
  <1>6. ASSUME NEW c \in Cases, NEW e, Moved(c, e), Said(e) \/ Made(e) \/ Worked(c, e)
        PROVE  NoticeTrail'
    <2>1. NotNotice(e)
      BY <1>6 DEF Said, Made, Worked, IsHandoff, NotNotice, Own, Tags
    <2> QED BY <1>5, <1>6, <2>1
  <1>7. CASE scan.phase = "escalate" /\ Moved(scan.case, Raised(scan.handoff)) /\ scan' = Idle
    <2>1. IsHandoff(scan.handoff)
      BY <1>7 DEF HandoffsOk
    <2>2. PICK c, e : c = scan.case /\ e = Raised(scan.handoff)
      OBVIOUS
    <2>3. NotNotice(e)
      BY <2>1, <2>2 DEF IsHandoff, Raised, NotNotice
    <2> QED BY <1>5, <1>7, <2>2, <2>3
  <1>8. ASSUME NEW o \in Observers, NEW x \in observers[o].left, Copies(o, x)
        PROVE  NoticeTrail'
    BY <1>8, NoticeCopies
  <1>a. ASSUME NEW id, NEW c \in Cases, NEW e, NotNotice(e), Effect(id, c, e),
               id[1] \notin {"notice", "feedback"}
        PROVE  NoticeTrail'
    <2>1. Posted(c, e) /\ receipts' = receipts \cup {id}
      BY <1>a DEF Effect, Receipted, Posted
    <2>2. \A d : \A x \in Items : NoticeId(d, x) # id
      BY <1>a, NoticeIds
    <2> QED BY <1>4, <1>a, <2>1, <2>2
  <1>9. ASSUME NEW w \in Pool, Publish(w),
               Effect(AnswerId(drains[w].seen), drains[w].case,
                      Message(AnswerId(drains[w].seen), drains[w].job.revision))
        PROVE  NoticeTrail'
    <2>1. PICK c, n, r :
           c \in Cases /\ c = drains[w].case /\ n = drains[w].seen /\ r = drains[w].job.revision
      BY <1>9 DEF Publish, DeskTyped, Drain, Idle
    <2>2. PICK e : e = Message(AnswerId(n), r)
      OBVIOUS
    <2>3. NotNotice(e) /\ AnswerId(n)[1] \notin {"notice", "feedback"}
      BY <2>2, NoticeIds DEF NotNotice, Message
    <2> QED BY <1>9, <1>a, <2>1, <2>2, <2>3
  <1>11. ASSUME NEW q \in Requests, Effect(ReplyId(asking[q].talk), q.case, Reply(q))
         PROVE  NoticeTrail'
    <2>1. PICK e, n : e = Reply(q) /\ n = asking[q].talk
      OBVIOUS
    <2>2. NotNotice(e) /\ ReplyId(n)[1] \notin {"notice", "feedback"} /\ q.case \in Cases
      BY <2>1, NoticeIds, DeskAssumption DEF NotNotice, Reply
    <2> QED BY <1>11, <1>a, <2>1, <2>2
  <1>10. ASSUME NEW c \in Cases, ScanHandoff(c)
         PROVE  NoticeTrail'
    BY <1>2, <1>10 DEF ScanHandoff
  <1> QED BY <1>3, <1>6, <1>7, <1>8, <1>9, <1>10, <1>11, JournalMoves DEF JournalMove

LEMMA ReceiptsGrow ==
  ASSUME JournalMove
  PROVE  receipts \subseteq receipts'
  BY DEF JournalMove, Moved, Kept, ScanHandoff, Copies, Effect, Receipted

LEMMA ReaderStays ==
  ASSUME NEW v \in Task, ReaderOk(v), LedgerExtends, receipts \subseteq receipts'
  PROVE  ReaderOk(v)'
  <1> SUFFICES ASSUME v.phase = "copy"
               PROVE  /\ v.revision <= Revision(v.case)' /\ v.left \subseteq Public(v.case, v.revision)'
                      /\ \A x \in Public(v.case, v.revision)' \ v.left : NoticeId(v.case, x) \in receipts'
    BY DEF ReaderOk
  <1>1. PICK c \in Cases, n \in Nat : c = v.case /\ n = v.revision
    BY DEF Task, Idle
  <1>2. /\ n <= Revision(c) /\ v.left \subseteq Public(c, n)
        /\ \A x \in Public(c, n) \ v.left : NoticeId(c, x) \in receipts
    BY <1>1 DEF ReaderOk
  <1>3. Revision(c) \in Nat /\ Revision(c)' \in Nat /\ Revision(c) <= Revision(c)'
    BY DEF LedgerExtends
  <1>4. Public(c, n)' = Public(c, n)
    BY <1>2, PublicStays
  <1> QED BY <1>1, <1>2, <1>3, <1>4

LEMMA ObserversStep ==
  ASSUME DeskTyped, HandoffsOk, NoticesOk, Step
  PROVE  ObserversOk'
  <1>a. LedgerExtends /\ receipts \subseteq receipts'
    BY LedgerMoves, JournalMoves, ReceiptsGrow
  <1>b. \A o \in Observers : ReaderOk(observers[o]) /\ observers[o] \in Task
    BY DEF NoticesOk, ObserversOk, DeskTyped
  <1>c. ASSUME NEW o \in Observers, NEW t, t = observers'[o], ReaderOk(t)'
        PROVE  ReaderOk(observers[o])'
    BY <1>c DEF ReaderOk
  <1>d. ASSUME \A o \in Observers : ReaderOk(observers[o])'
        PROVE  ObserversOk'
    BY <1>d DEF ObserversOk
  <1>e. ASSUME NEW o \in Observers, observers'[o] = observers[o]
        PROVE  ReaderOk(observers[o])'
    <2>1. PICK v \in Task : v = observers[o]
      BY <1>b
    <2>2. ReaderOk(v)'
      BY <1>a, <1>b, <2>1, ReaderStays
    <2> QED BY <1>e, <2>1, <2>2 DEF ReaderOk
  <1>f. ASSUME NEW o \in Observers, observers'[o].phase # "copy"
        PROVE  ReaderOk(observers[o])'
    BY <1>f DEF ReaderOk
  <1>1. CASE UNCHANGED observers
    BY <1>1, <1>d, <1>e
  <1>2. ASSUME NEW t, Begun(t), t.phase # "copy"
        PROVE  ObserversOk'
    <2>1. \A o \in Observers : observers'[o] = observers[o] \/ observers'[o] = t
      BY <1>2 DEF Begun, DeskTyped
    <2> QED BY <1>2, <1>d, <1>e, <1>f, <2>1
  <1>3. ASSUME NEW c, NEW a, Tells(c, a)
        PROVE  ObserversOk'
    <2>1. PICK t : t = [phase |-> "read", case |-> c, trigger |-> a]
      OBVIOUS
    <2> QED BY <1>1, <1>2, <1>3, <2>1 DEF Tells, Committed
  <1>4. ASSUME NEW c \in Cases, NEW a \in Triggers, OtherStep(c, a)
        PROVE  ObserversOk'
    BY <1>3, <1>4 DEF OtherStep
  <1>5. ASSUME NEW u \in Uploads, FileStepDone(u)
        PROVE  ObserversOk'
    BY <1>3, <1>5 DEF FileStepDone
  <1>6. ASSUME NEW c \in Cases, RepeatStep(c)
        PROVE  ObserversOk'
    BY <1>3, <1>6 DEF RepeatStep, Repetition, Tells
  <1>7. ASSUME NEW c \in Cases, UserRun(c)
        PROVE  ObserversOk'
    <2>1. PICK t : t = [phase |-> "schedule", case |-> c, trigger |-> "USER_RUN", revision |-> Revision(c)]
      OBVIOUS
    <2> QED BY <1>2, <1>7, <2>1 DEF UserRun
  <1>8. ASSUME NEW o \in Observers, ObserverStep(o)
        PROVE  ObserversOk'
    <2>1. PICK v, t : v \in Task /\ v = observers[o] /\ t = observers'[o]
      BY <1>b
    <2>2. ASSUME NEW x \in Observers, x # o
          PROVE  observers'[x] = observers[x]
      <3>1. PICK y : observers' = [observers EXCEPT ![o] = y]
        BY <1>8 DEF ObserverStep, ReadAgain, CopyNotice, Observe, ScheduleChange, DeskTyped
      <3> QED BY <2>2, <3>1 DEF DeskTyped
    <2>3. ReaderOk(observers[o])'
      <3>1. CASE ReadAgain(o)
        <4>1. PICK c \in Cases, n \in Nat : c = v.case /\ n = Revision(c)
          BY <2>1, <3>1, Lengths DEF ReadAgain, Task, Idle
        <4>2. UNCHANGED ledger
          BY <3>1 DEF ReadAgain
        <4>3. t = [phase |-> "copy", case |-> c, trigger |-> v.trigger,
                   revision |-> n, left |-> Public(c, n)]
          BY <2>1, <3>1, <4>1 DEF ReadAgain, DeskTyped, ToCopy
        <4>4. t.case = c /\ t.revision = n /\ t.left = Public(c, n)
          BY <4>3
        <4>5. Public(c, n)' = Public(c, n) /\ Revision(c)' = n
          BY <4>1, <4>2 DEF Public, Revision
        <4> QED BY <1>c, <2>1, <4>4, <4>5 DEF ReaderOk
      <3>2. CASE CopyNotice(o)
        <4>1. v \in [phase : {"copy"}, case : Cases, trigger : Triggers, revision : Nat,
                     left : SUBSET Items]
          BY <2>1, <3>2 DEF CopyNotice, Task, Idle
        <4>2. PICK x \in v.left :
                /\ Write(NoticeId(v.case, x), v.case, Message(NoticeId(v.case, x), v.revision))
                /\ observers' = [observers EXCEPT ![o].left = @ \ {x}]
          BY <2>1, <3>2 DEF CopyNotice
        <4>3. t = [v EXCEPT !.left = v.left \ {x}]
          BY <2>1, <4>2 DEF DeskTyped
        <4>4. t.phase = "copy" /\ t.case = v.case /\ t.revision = v.revision /\ t.left = v.left \ {x}
          BY <4>1, <4>3
        <4>5. NoticeId(v.case, x) \in receipts'
          BY <4>2 DEF Write, Effect, Receipted, Repeated
        <4>6. ReaderOk(v)'
          BY <1>a, <1>b, <2>1, ReaderStays
        <4>7. ReaderOk(t)'
          BY <4>1, <4>4, <4>5, <4>6 DEF ReaderOk
        <4> QED BY <1>c, <2>1, <4>7
      <3>3. CASE Observe(o)
        BY <3>3, <1>f DEF Observe, DeskTyped, Idle
      <3>4. CASE ScheduleChange(o)
        BY <3>4, <1>f DEF ScheduleChange, DeskTyped, Idle
      <3> QED BY <1>8, <3>1, <3>2, <3>3, <3>4 DEF ObserverStep
    <2> QED BY <1>d, <1>e, <2>2, <2>3
  <1>9. ASSUME NEW w \in Pool, WorkerStep(w)
        PROVE  ObserversOk'
    BY <1>1, <1>9 DEF WorkerStep, Start, Pop, Look, Again, Converse, Answered, SaveTalk, Publish
  <1>11. ASSUME NEW q \in Requests, AskStep(q)
         PROVE  ObserversOk'
    BY <1>1, <1>11 DEF AskStep, Question, QuestionStep, LookUp, Consult, Consulted, SaveReply,
                       PublishReply, HandToStaff, agentVars
  <1>10. CASE RestartStep
    BY <1>10, <1>d, <1>f DEF RestartStep, Forget, Idle
  <1> QED BY <1>1, <1>4, <1>5, <1>6, <1>7, <1>8, <1>9, <1>10, <1>11 DEF Step, DeskStep, agentVars

-----------------------------------------------------------------------------
(* At most one call of _drain per case.                                    *)

LEMMA DrainsSchedule ==
  ASSUME DrainsOk, AgentTyped, NEW c \in Cases, NEW r, NEW t, Schedule(c, r, t),
         NEW w, NEW p, UNCHANGED drains \/ (drains[w] # Idle /\ w \in Pool /\ At(w, p) /\ drains'[w] # Idle
                                             /\ drains'[w].case = drains[w].case)
  PROVE  DrainsOk'
  <1>1. \A x \in Pool : /\ drains'[x] # Idle <=> drains[x] # Idle
                        /\ drains[x] # Idle => drains'[x].case = drains[x].case
    BY DEF At, AgentTyped
  <1>2. running \subseteq running'
    BY DEF Schedule, Submits
  <1>3. \A d \in Cases : submitted'[d] = submitted[d] \/ (d = c /\ d \notin running /\ submitted'[d] = submitted[d] + 1)
    BY DEF Schedule, Submits, AgentTyped
  <1>4. c \notin running => submitted[c] = 0 /\ \A x \in Pool : drains[x] # Idle => drains[x].case # c
    BY DEF DrainsOk, AgentTyped
  <1>5. ASSUME NEW d \in Cases, submitted'[d] > 0
        PROVE  submitted'[d] = 1 /\ d \in running' /\ \A x \in Pool : drains'[x] # Idle => drains'[x].case # d
    <2>1. CASE submitted'[d] = submitted[d]
      BY <1>1, <1>2, <1>5, <2>1 DEF DrainsOk
    <2>2. CASE d = c /\ d \notin running /\ submitted'[d] = submitted[d] + 1
      <3>1. d \in running'
        BY <2>2 DEF Schedule, Submits, AgentTyped
      <3> QED BY <1>1, <1>4, <2>2, <3>1
    <2> QED BY <1>3, <2>1, <2>2
  <1>6. ASSUME NEW x \in Pool, drains'[x] # Idle
        PROVE  /\ drains'[x].case \in running'
               /\ \A y \in Pool : y # x /\ drains'[y] # Idle => drains'[y].case # drains'[x].case
    BY <1>1, <1>2, <1>6 DEF DrainsOk
  <1> QED BY <1>5, <1>6 DEF DrainsOk

LEMMA DrainsStep ==
  ASSUME DeskTyped, DrainsOk, Step
  PROVE  DrainsOk'
  <1>a. AgentTyped
    BY DEF DeskTyped, AgentTyped
  <1>1. CASE UNCHANGED <<drains, running, submitted>>
    BY <1>1 DEF DrainsOk
  <1>2. ASSUME NEW c \in Cases, NEW a \in Triggers, OtherStep(c, a)
        PROVE  DrainsOk'
    BY <1>1, <1>2 DEF OtherStep, memory
  <1>3. ASSUME NEW u \in Uploads, FileStepDone(u)
        PROVE  DrainsOk'
    BY <1>1, <1>3 DEF FileStepDone, memory
  <1>4. ASSUME NEW c \in Cases, RepeatStep(c) \/ UserRun(c)
        PROVE  DrainsOk'
    BY <1>1, <1>4 DEF RepeatStep, UserRun, memory
  <1>5. ASSUME NEW o \in Observers, ObserverStep(o)
        PROVE  DrainsOk'
    <2>1. CASE ReadAgain(o) \/ CopyNotice(o) \/ Observe(o)
      BY <1>1, <2>1 DEF ReadAgain, CopyNotice, Observe, memory
    <2>2. CASE ScheduleChange(o)
      <3>1. PICK c, r, t :
              c \in Cases /\ c = observers[o].case /\ r = observers[o].revision /\ t = observers[o].trigger
        BY <2>2 DEF ScheduleChange, DeskTyped, Task, Idle
      <3> QED BY <1>a, <2>2, <3>1, DrainsSchedule DEF ScheduleChange
    <2> QED BY <1>5, <2>1, <2>2 DEF ObserverStep
  <1>6. ASSUME NEW w \in Pool, WorkerStep(w)
        PROVE  DrainsOk'
    <2>a. drains[w] \in Drain
      BY DEF DeskTyped
    <2>b. ASSUME drains[w].phase # "idle"
          PROVE  drains[w].case \in Cases /\ drains[w] # Idle
      BY <2>a, <2>b DEF Drain, Idle
    <2>1. ASSUME UNCHANGED <<running, submitted>>, NEW y, drains' = [drains EXCEPT ![w] = y],
                 y # Idle, drains[w] # Idle, y.case = drains[w].case
          PROVE  DrainsOk'
      <3>1. \A x \in Pool : /\ drains'[x] # Idle <=> drains[x] # Idle
                            /\ drains[x] # Idle => drains'[x].case = drains[x].case
        BY <1>a, <2>1 DEF AgentTyped
      <3> QED BY <2>1, <3>1 DEF DrainsOk
    <2>d. ASSUME NEW p \in Working, At(w, p), drains[w].phase # "idle"
          PROVE  \E y : drains' = [drains EXCEPT ![w] = y] /\ y # Idle /\ y.case = drains[w].case
      <3>1. PICK y : y = [drains[w] EXCEPT !.phase = p]
        OBVIOUS
      <3>2. y.phase = p /\ y.case = drains[w].case
        BY <2>a, <2>d, <3>1 DEF Drain, Idle
      <3>3. y # Idle
        BY <3>2 DEF Idle, Working
      <3> QED BY <1>a, <2>d, <3>1, <3>2, <3>3 DEF At, AgentTyped
    <2>2. ASSUME NEW c \in Cases, Start(w, c)
          PROVE  DrainsOk'
      <3>1. PICK y : y = [phase |-> "pop", case |-> c]
        OBVIOUS
      <3>2. y # Idle /\ y.case = c
        BY <3>1 DEF Idle
      <3>3. /\ submitted[c] > 0 /\ drains[w] = Idle /\ submitted' = [submitted EXCEPT ![c] = @ - 1]
            /\ drains' = [drains EXCEPT ![w] = y] /\ UNCHANGED running
        BY <2>2, <3>1 DEF Start
      <3>4. submitted[c] = 1 /\ c \in running /\ \A x \in Pool : drains[x] # Idle => drains[x].case # c
        BY <3>3 DEF DrainsOk
      <3>5. /\ submitted'[c] = 0 /\ \A d \in Cases : d # c => submitted'[d] = submitted[d]
            /\ drains'[w] = y /\ \A x \in Pool : x # w => drains'[x] = drains[x]
        BY <1>a, <3>3, <3>4 DEF AgentTyped
      <3>6. ASSUME NEW d \in Cases, submitted'[d] > 0
            PROVE  submitted'[d] = 1 /\ d \in running' /\ \A x \in Pool : drains'[x] # Idle => drains'[x].case # d
        BY <3>2, <3>3, <3>5, <3>6 DEF DrainsOk
      <3>7. ASSUME NEW x \in Pool, drains'[x] # Idle
            PROVE  /\ drains'[x].case \in running'
                   /\ \A z \in Pool : z # x /\ drains'[z] # Idle => drains'[z].case # drains'[x].case
        BY <3>2, <3>3, <3>4, <3>5, <3>7 DEF DrainsOk
      <3> QED BY <3>6, <3>7 DEF DrainsOk
    <2>3. CASE Pop(w)
      <3>1. PICK c \in Cases : c = drains[w].case /\ drains[w] # Idle
        BY <2>3, <2>b DEF Pop
      <3>2. CASE pending[c] = NoJob
        <4>1. running' = running \ {c} /\ drains' = [drains EXCEPT ![w] = Idle] /\ UNCHANGED submitted
          BY <2>3, <3>1, <3>2 DEF Pop, NotRunning
        <4>2. drains'[w] = Idle /\ \A x \in Pool : x # w => drains'[x] = drains[x]
          BY <1>a, <4>1 DEF AgentTyped
        <4>3. submitted[c] = 0 /\ \A x \in Pool : x # w /\ drains[x] # Idle => drains[x].case # c
          BY <1>a, <3>1 DEF DrainsOk, AgentTyped
        <4>4. ASSUME NEW d \in Cases, submitted'[d] > 0
              PROVE  submitted'[d] = 1 /\ d \in running' /\ \A x \in Pool : drains'[x] # Idle => drains'[x].case # d
          BY <4>1, <4>2, <4>3, <4>4 DEF DrainsOk
        <4>5. ASSUME NEW x \in Pool, drains'[x] # Idle
              PROVE  /\ drains'[x].case \in running'
                     /\ \A z \in Pool : z # x /\ drains'[z] # Idle => drains'[z].case # drains'[x].case
          BY <4>1, <4>2, <4>3, <4>5 DEF DrainsOk
        <4> QED BY <4>4, <4>5 DEF DrainsOk
      <3>3. CASE pending[c] # NoJob
        <4>1. PICK y : y = [phase |-> "look", case |-> c, job |-> pending[c], seen |-> 0]
          OBVIOUS
        <4>2. y # Idle /\ y.case = c
          BY <4>1 DEF Idle
        <4> QED BY <2>1, <2>3, <3>1, <3>3, <4>1, <4>2 DEF Pop
      <3> QED BY <3>2, <3>3
    <2>4. CASE Look(w)
      <3>1. PICK p, y : /\ p \in Working /\ drains' = [drains EXCEPT ![w] = y]
                        /\ y = [drains[w] EXCEPT !.seen = Revision(drains[w].case), !.phase = p]
        BY <2>4, <1>a DEF Look, Working, AgentTyped
      <3>2. drains[w].phase = "look" /\ UNCHANGED <<running, submitted>>
        BY <2>4 DEF Look
      <3>3. y.phase = p /\ y.case = drains[w].case
        BY <2>a, <3>1, <3>2 DEF Drain, Idle
      <3>4. y # Idle
        BY <3>1, <3>3 DEF Idle, Working
      <3> QED BY <2>1, <2>b, <3>1, <3>2, <3>3, <3>4
    <2>5. CASE Again(w)
      <3>1. drains[w].phase = "again" /\ At(w, "pop") /\ "pop" \in Working
        BY <2>5 DEF Again, Working
      <3>2. PICK c, r, t :
              c \in Cases /\ c = drains[w].case /\ r = drains[w].seen /\ t = drains[w].job.trigger
        BY <2>b, <3>1
      <3>3. drains'[w] # Idle /\ drains'[w].case = drains[w].case
        BY <1>a, <2>d, <3>1 DEF AgentTyped
      <3> QED BY <1>a, <2>5, <2>b, <3>1, <3>2, <3>3, DrainsSchedule DEF Again
    <2>6. CASE Converse(w)
      <3>1. PICK p \in Working : At(w, p)
        BY <2>6 DEF Converse, Working
      <3> QED BY <2>1, <2>6, <2>b, <2>d, <3>1 DEF Converse
    <2>7. CASE Answered(w)
      <3>1. PICK p \in Working : At(w, p)
        BY <2>7 DEF Answered, Working
      <3> QED BY <2>1, <2>7, <2>b, <2>d, <3>1 DEF Answered
    <2>8. CASE SaveTalk(w)
      <3>1. PICK n, y : /\ drains' = [drains EXCEPT ![w] = y]
                        /\ y = [drains[w] EXCEPT !.phase = "publish", !.seen = n]
        BY <2>8, <1>a DEF SaveTalk, AgentTyped
      <3>2. drains[w].phase = "save" /\ UNCHANGED <<running, submitted>>
        BY <2>8 DEF SaveTalk
      <3>3. y.phase = "publish" /\ y.case = drains[w].case
        BY <2>a, <3>1, <3>2 DEF Drain, Idle
      <3>4. y # Idle
        BY <3>3 DEF Idle
      <3> QED BY <2>1, <2>b, <3>1, <3>2, <3>3, <3>4
    <2>9. CASE Publish(w)
      <3>1. At(w, "pop") /\ "pop" \in Working
        BY <2>9 DEF Publish, Working
      <3> QED BY <2>1, <2>9, <2>b, <2>d, <3>1 DEF Publish
    <2> QED BY <1>6, <2>2, <2>3, <2>4, <2>5, <2>6, <2>7, <2>8, <2>9 DEF WorkerStep
  <1>7. CASE RestartStep
    BY <1>7 DEF RestartStep, Forget, DrainsOk
  <1>8. ASSUME NEW q \in Requests, AskStep(q)
        PROVE  DrainsOk'
    BY <1>1, <1>8 DEF AskStep, Question, QuestionStep, LookUp, Consult, Consulted, SaveReply,
                      PublishReply, HandToStaff, agentVars, memory
  <1> QED BY <1>1, <1>2, <1>3, <1>4, <1>5, <1>6, <1>7, <1>8 DEF Step, DeskStep, agentVars

-----------------------------------------------------------------------------
(* The answers of the agent advance.                                       *)

LEMMA TrailQuiet ==
  ASSUME DeskTyped, AnswerTrail, LedgerExtends,
         UNCHANGED journal \/ \E d, e : Posted(d, e) /\ ~IsAnswer(e)
  PROVE  /\ AnswerTrail'
         /\ \A c \in Cases : \A r : AnswersUpTo(c, r) => AnswersUpTo(c, r)'
  <1>1. ASSUME NEW c \in Cases, NEW i \in DOMAIN journal'[c], IsAnswer(journal'[c][i])
        PROVE  i \in DOMAIN journal[c] /\ journal'[c][i] = journal[c][i]
    <2>1. CASE UNCHANGED journal
      BY <1>1, <2>1
    <2>2. ASSUME NEW d, NEW e, Posted(d, e), ~IsAnswer(e)
          PROVE  i \in DOMAIN journal[c] /\ journal'[c][i] = journal[c][i]
      <3>1. CASE c # d
        BY <1>1, <2>2, <3>1, JournalGrows
      <3>2. CASE c = d
        <4> DEFINE n == Len(journal[d])
        <4>1. /\ DOMAIN journal'[d] = 1 .. n + 1 /\ journal'[d][n + 1] = e
              /\ \A k \in 1 .. n : journal'[d][k] = journal[d][k]
              /\ n \in Nat /\ DOMAIN journal[d] = 1 .. n
          BY <2>2, JournalGrows
        <4> HIDE DEF n
        <4> QED BY <1>1, <2>2, <3>2, <4>1
      <3> QED BY <3>1, <3>2
    <2> QED BY <2>1, <2>2
  <1>2. ASSUME NEW c \in Cases, NEW r, AnswersUpTo(c, r)
        PROVE  AnswersUpTo(c, r)'
    BY <1>1, <1>2 DEF AnswersUpTo
  <1>3. ASSUME NEW c \in Cases, NEW i \in DOMAIN journal'[c], IsAnswer(journal'[c][i])
        PROVE  /\ journal'[c][i].revision \in Nat /\ journal'[c][i].revision <= Revision(c)'
               /\ \A k \in DOMAIN journal'[c] :
                    k > i /\ IsAnswer(journal'[c][k]) => journal'[c][i].revision <= journal'[c][k].revision
    <2>1. i \in DOMAIN journal[c] /\ journal'[c][i] = journal[c][i]
      BY <1>1, <1>3
    <2>2. /\ journal[c][i].revision \in Nat /\ journal[c][i].revision <= Revision(c)
          /\ \A k \in DOMAIN journal[c] :
               k > i /\ IsAnswer(journal[c][k]) => journal[c][i].revision <= journal[c][k].revision
      BY <1>3, <2>1 DEF AnswerTrail
    <2>3. Revision(c) \in Nat /\ Revision(c)' \in Nat /\ Revision(c) <= Revision(c)'
      BY DEF LedgerExtends
    <2> QED BY <1>1, <2>1, <2>2, <2>3
  <1> QED BY <1>2, <1>3 DEF AnswerTrail, IsAnswer

LEMMA PublishTrail ==
  ASSUME DeskTyped, AnswerTrail, UNCHANGED ledger, NEW d \in Cases, NEW n \in Nat, NEW r \in Nat,
         Posted(d, Message(AnswerId(n), r)), r <= Revision(d), AnswersUpTo(d, r)
  PROVE  /\ AnswerTrail'
         /\ \A c \in Cases : \A q : c # d /\ AnswersUpTo(c, q) => AnswersUpTo(c, q)'
  <1>1. PICK e : e = Message(AnswerId(n), r)
    OBVIOUS
  <1> DEFINE l == Len(journal[d])
  <1>2. /\ DOMAIN journal'[d] = 1 .. l + 1 /\ journal'[d][l + 1] = e
        /\ \A k \in 1 .. l : journal'[d][k] = journal[d][k]
        /\ \A c \in Cases : c # d => journal'[c] = journal[c]
        /\ l \in Nat /\ DOMAIN journal[d] = 1 .. l
    BY <1>1, JournalGrows
  <1> HIDE DEF l
  <1>3. e.revision = r
    BY <1>1 DEF Message
  <1>4. \A c \in Cases : Revision(c)' = Revision(c)
    BY DEF Revision
  <1>5. \A c \in Cases : \A q : c # d /\ AnswersUpTo(c, q) => AnswersUpTo(c, q)'
    BY <1>2 DEF AnswersUpTo
  <1>6. ASSUME NEW c \in Cases, NEW i \in DOMAIN journal'[c], IsAnswer(journal'[c][i])
        PROVE  /\ journal'[c][i].revision \in Nat /\ journal'[c][i].revision <= Revision(c)
               /\ \A k \in DOMAIN journal'[c] :
                    k > i /\ IsAnswer(journal'[c][k]) => journal'[c][i].revision <= journal'[c][k].revision
    <2>1. CASE c # d
      BY <1>2, <1>6, <2>1 DEF AnswerTrail
    <2>2. CASE c = d /\ i = l + 1
      BY <1>2, <1>3, <2>2
    <2>3. CASE c = d /\ i \in 1 .. l
      <3>1. i \in DOMAIN journal[c] /\ journal'[c][i] = journal[c][i]
        BY <1>2, <2>3
      <3>2. /\ journal[c][i].revision \in Nat /\ journal[c][i].revision <= Revision(c)
            /\ \A k \in DOMAIN journal[c] :
                 k > i /\ IsAnswer(journal[c][k]) => journal[c][i].revision <= journal[c][k].revision
            /\ journal[c][i].revision <= r
        BY <1>6, <2>3, <3>1 DEF AnswerTrail, AnswersUpTo
      <3>3. \A k \in DOMAIN journal'[c] : k = l + 1 \/ (k \in DOMAIN journal[c] /\ journal'[c][k] = journal[c][k])
        <4>1. DOMAIN journal'[c] = 1 .. l + 1 /\ DOMAIN journal[c] = 1 .. l /\ l \in Nat
          BY <1>2, <2>3
        <4>2. \A k \in 1 .. l : journal'[c][k] = journal[c][k]
          BY <1>2, <2>3
        <4>3. \A k \in 1 .. l + 1 : k = l + 1 \/ k \in 1 .. l
          BY <4>1
        <4> QED BY <4>1, <4>2, <4>3
      <3> QED BY <1>2, <1>3, <2>3, <3>1, <3>2, <3>3
    <2> QED BY <1>2, <2>1, <2>2, <2>3
  <1> QED BY <1>4, <1>5, <1>6 DEF AnswerTrail, IsAnswer

(* What a step does to the answers: a worker publishes one, or none is.    *)
Published(w) ==
  LET v == drains[w] IN
  Publish(w) /\ Effect(AnswerId(v.seen), v.case, Message(AnswerId(v.seen), v.job.revision))

LEMMA AnswerMoves ==
  ASSUME DeskTyped, HandoffsOk, Step
  PROVE  \/ UNCHANGED journal \/ \E d, e : Posted(d, e) /\ ~IsAnswer(e)
         \/ \E w \in Pool : Published(w)
  <1>1. \A e : IsAnswer(e) => e.kind = "MESSAGE" /\ Own(e.source) /\ e.source[1] = "answer"
    BY NoticeIds DEF IsAnswer
  <1>2. ASSUME NEW c \in Cases, NEW e, Moved(c, e), Said(e) \/ Made(e) \/ Worked(c, e)
        PROVE  Posted(c, e) /\ ~IsAnswer(e)
    BY <1>1, <1>2 DEF Moved, Said, Made, Worked, IsHandoff
  <1>3. CASE scan.phase = "escalate" /\ Moved(scan.case, Raised(scan.handoff)) /\ scan' = Idle
    <2>1. PICK c, e : c = scan.case /\ e = Raised(scan.handoff)
      OBVIOUS
    <2>2. IsHandoff(scan.handoff)
      BY <1>3 DEF HandoffsOk
    <2>3. e.kind = "HANDOFF"
      BY <2>1, <2>2 DEF IsHandoff, Raised
    <2> QED BY <1>1, <1>3, <2>1, <2>3 DEF Moved
  <1>4. ASSUME NEW o \in Observers, NEW x \in observers[o].left, Copies(o, x)
        PROVE  \E d, e : Posted(d, e) /\ ~IsAnswer(e)
    <2>1. PICK c \in Cases, y \in Items : c = observers[o].case /\ y = x
      BY <1>4 DEF Copies, DeskTyped, Task, Idle
    <2>2. PICK e : e = Message(NoticeId(c, y), observers[o].revision)
      OBVIOUS
    <2>3. ~IsAnswer(e)
      BY <1>1, <2>2, NoticeIds DEF Message
    <2> QED BY <1>4, <2>1, <2>2, <2>3 DEF Copies, Effect, Posted
  <1>5. ASSUME NEW c \in Cases, ScanHandoff(c)
        PROVE  UNCHANGED journal
    BY <1>5 DEF ScanHandoff
  <1>6. ASSUME NEW q \in Requests, Effect(ReplyId(asking[q].talk), q.case, Reply(q))
        PROVE  \E d, e : Posted(d, e) /\ ~IsAnswer(e)
    <2>1. PICK e : e = Reply(q)
      OBVIOUS
    <2>2. ~IsAnswer(e)
      BY <1>1, <2>1, NoticeIds DEF Reply
    <2> QED BY <1>6, <2>1, <2>2, DeskAssumption DEF Effect, Posted
  <1> QED BY <1>2, <1>3, <1>4, <1>5, <1>6, JournalMoves DEF JournalMove, Published

LEMMA WorkStays ==
  ASSUME NEW v \in Drain, WorkOk(v), LedgerExtends,
         v # Idle => \A r : AnswersUpTo(v.case, r) => AnswersUpTo(v.case, r)',
         v # Idle => \A r : Analysed(v.case, r)' => Analysed(v.case, r)
  PROVE  WorkOk(v)'
  <1>1. CASE v.phase \notin {"model", "save", "publish"}
    BY <1>1 DEF WorkOk
  <1>2. CASE v.phase \in {"model", "save", "publish"}
    <2>1. v # Idle /\ v.case \in Cases /\ v.job.revision \in Nat
      BY <1>2 DEF Drain, Idle, Job
    <2>2. Revision(v.case) \in Nat /\ Revision(v.case)' \in Nat /\ Revision(v.case) <= Revision(v.case)'
      BY <2>1 DEF LedgerExtends
    <2>3. v.job.revision <= Revision(v.case)' /\ AnswersUpTo(v.case, v.job.revision)'
      BY <1>2, <2>1, <2>2 DEF WorkOk
    <2>4. v.phase \in {"model", "save"} /\ v.job.trigger # "USER_RUN" => ~Analysed(v.case, v.job.revision)'
      BY <2>1 DEF WorkOk
    <2> QED BY <2>3, <2>4 DEF WorkOk
  <1> QED BY <1>1, <1>2

LEMMA WorkerAnswers ==
  ASSUME DeskTyped, HandoffsOk, AnswersOk, Step, NEW w \in Pool, WorkerStep(w)
  PROVE  AnswerTrail' /\ (\A x \in Pool : WorkOk(drains[x])') /\ AnalysedOnce'
  <1>a. /\ DrainsOk /\ AnswerTrail /\ (\A x \in Pool : WorkOk(drains[x])) /\ AnalysedOnce
        /\ LedgerExtends /\ drains \in [Pool -> Drain] /\ IsSeq(talks)
    BY LedgerMoves DEF AnswersOk, DeskTyped
  <1>b. UNCHANGED ledger /\ \A c : Revision(c)' = Revision(c)
    BY DEF WorkerStep, Start, Pop, Look, Again, Converse, Answered, SaveTalk, Publish, Revision
  <1>c. PICK v, t : v \in Drain /\ v = drains[w] /\ t = drains'[w]
    BY <1>a
  <1>d. v.phase \in Working \ {"pop"} => v \in [phase : Working, case : Cases, job : Job, seen : Nat]
    BY <1>c DEF Drain, Idle, Working
  <1>e. ASSUME NEW p, At(w, p)
        PROVE  t = [v EXCEPT !.phase = p] /\ \A x \in Pool : x # w => drains'[x] = drains[x]
    BY <1>a, <1>c, <1>e DEF At
  <1>f. ASSUME NEW x \in Pool, x # w, drains[x] # Idle, v # Idle
        PROVE  drains[x].case # v.case
    BY <1>a, <1>c, <1>f DEF DrainsOk
  <1>1. ASSUME UNCHANGED <<journal, talks>>, \A x \in Pool : x # w => drains'[x] = drains[x], WorkOk(t)'
        PROVE  AnswerTrail' /\ (\A x \in Pool : WorkOk(drains[x])') /\ AnalysedOnce'
    <2>1. AnswerTrail' /\ \A c \in Cases : \A r : AnswersUpTo(c, r) => AnswersUpTo(c, r)'
      BY <1>a, <1>1, TrailQuiet
    <2>2. ASSUME NEW x \in Pool
          PROVE  WorkOk(drains[x])'
      <3>1. CASE x = w
        BY <1>1, <1>c, <3>1 DEF WorkOk
      <3>2. CASE x # w
        <4>1. PICK y \in Drain : y = drains[x]
          BY <1>a
        <4>2. y # Idle => y.case \in Cases
          BY DEF Drain
        <4>3. WorkOk(y)'
          BY <1>a, <1>1, <2>1, <4>1, <4>2, WorkStays DEF Analysed, Talked
        <4> QED BY <1>1, <3>2, <4>1, <4>3 DEF WorkOk
      <3> QED BY <3>1, <3>2
    <2>3. AnalysedOnce'
      BY <1>a, <1>1 DEF AnalysedOnce, Talked
    <2> QED BY <2>1, <2>2, <2>3
  <1>2. ASSUME t.phase \notin {"model", "save", "publish"}
        PROVE  WorkOk(t)'
    BY <1>2 DEF WorkOk
  <1>3. ASSUME NEW c \in Cases, Start(w, c)
        PROVE  AnswerTrail' /\ (\A x \in Pool : WorkOk(drains[x])') /\ AnalysedOnce'
    BY <1>a, <1>1, <1>2, <1>3, <1>c DEF Start, deskVars
  <1>4. CASE Pop(w)
    BY <1>a, <1>1, <1>2, <1>4, <1>c DEF Pop, deskVars, Idle
  <1>5. CASE Look(w)
    <2>1. v \in [phase : Working, case : Cases, job : Job, seen : Nat]
      BY <1>5, <1>c, <1>d DEF Look, Working
    <2>2. PICK p \in {"ask", "again"} :
            drains' = [drains EXCEPT ![w].seen = Revision(drains[w].case), ![w].phase = p]
      BY <1>5 DEF Look
    <2>3. t.phase = p /\ \A x \in Pool : x # w => drains'[x] = drains[x]
      BY <1>a, <1>c, <2>1, <2>2
    <2> QED BY <1>1, <1>2, <1>5, <2>3 DEF Look, deskVars
  <1>6. CASE Again(w)
    <2>1. v \in [phase : Working, case : Cases, job : Job, seen : Nat]
      BY <1>6, <1>c, <1>d DEF Again, Working
    <2>2. At(w, "pop") /\ UNCHANGED <<journal, talks>>
      BY <1>6 DEF Again, deskVars
    <2>3. t.phase = "pop"
      BY <1>e, <2>1, <2>2
    <2> QED BY <1>1, <1>2, <1>e, <2>2, <2>3
  <1>7. CASE Converse(w)
    <2>1. v \in [phase : Working, case : Cases, job : Job, seen : Nat]
      BY <1>7, <1>c, <1>d DEF Converse, Working
    <2>2. CASE At(w, "pop")
      <3>1. t.phase = "pop"
        BY <1>e, <2>1, <2>2
      <3> QED BY <1>1, <1>2, <1>7, <1>e, <2>2, <3>1 DEF Converse, deskVars
    <2>3. CASE /\ At(w, "model") /\ Revision(v.case) = v.job.revision
               /\ v.job.trigger # "USER_RUN" => ~Analysed(v.case, v.job.revision)
      <3>1. t.phase = "model" /\ t.case = v.case /\ t.job = v.job
        BY <1>e, <2>1, <2>3
      <3>2. UNCHANGED <<journal, talks>>
        BY <1>7 DEF Converse, deskVars
      <3>3. AnswersUpTo(v.case, v.job.revision)
        BY <1>a, <2>1, <2>3 DEF AnswerTrail, AnswersUpTo
      <3>4. v.case \in Cases /\ v.job.revision \in Nat
        BY <2>1 DEF Job
      <3>5. AnswersUpTo(v.case, v.job.revision)' /\ v.job.revision <= Revision(v.case)'
        BY <1>b, <2>3, <3>2, <3>3, <3>4 DEF AnswersUpTo
      <3>6. WorkOk(t)'
        BY <2>3, <3>1, <3>2, <3>5 DEF WorkOk, Analysed, Talked
      <3> QED BY <1>1, <1>e, <2>3, <3>2, <3>6
    <2> QED BY <1>7, <1>c, <2>2, <2>3 DEF Converse
  <1>8. CASE Answered(w)
    <2>1. v \in [phase : Working, case : Cases, job : Job, seen : Nat] /\ v.phase = "model"
      BY <1>8, <1>c, <1>d DEF Answered, Working
    <2>2. PICK p \in {"save", "pop"} : At(w, p)
      BY <1>8 DEF Answered
    <2>3. t.phase = p /\ t.case = v.case /\ t.job = v.job
      BY <1>e, <2>1, <2>2
    <2>4. UNCHANGED <<journal, talks>>
      BY <1>8 DEF Answered, deskVars
    <2>5. WorkOk(v)
      BY <1>a, <1>c
    <2>6. AnswersUpTo(v.case, v.job.revision)' /\ v.job.revision <= Revision(v.case)'
      BY <1>b, <2>1, <2>4, <2>5 DEF AnswersUpTo, WorkOk
    <2>7. WorkOk(t)'
      BY <2>1, <2>3, <2>4, <2>5, <2>6 DEF WorkOk, Analysed, Talked
    <2> QED BY <1>1, <1>e, <2>2, <2>4, <2>7
  <1>9. CASE SaveTalk(w)
    <2>1. v \in [phase : Working, case : Cases, job : Job, seen : Nat] /\ v.phase = "save"
      BY <1>9, <1>c, <1>d DEF SaveTalk, Working
    <2>2. PICK e : e = [case |-> v.case, revision |-> v.job.revision,
                        by |-> IF v.job.trigger = "USER_RUN" THEN "user" ELSE "event"]
      OBVIOUS
    <2>3. talks' = Append(talks, e) /\ UNCHANGED journal
      BY <1>9, <1>c, <2>2 DEF SaveTalk, deskVars
    <2>4. /\ e.case = v.case /\ e.revision = v.job.revision
          /\ e.by = "event" => v.job.trigger # "USER_RUN"
      BY <2>2
    <2>5. /\ DOMAIN talks = 1 .. Len(talks) /\ Len(talks) \in Nat /\ DOMAIN talks' = 1 .. Len(talks) + 1
          /\ \A i \in 1 .. Len(talks) : talks'[i] = talks[i]
          /\ talks'[Len(talks) + 1] = e
      BY <1>a, <2>3, AppendFacts
    <2>6. WorkOk(v)
      BY <1>a, <1>c
    <2>7. t = [v EXCEPT !.phase = "publish", !.seen = Len(talks')] /\ \A x \in Pool : x # w => drains'[x] = drains[x]
      BY <1>9, <1>a, <1>c DEF SaveTalk
    <2>8. t.phase = "publish" /\ t.case = v.case /\ t.job = v.job
      BY <2>1, <2>7
    <2>9. AnswerTrail' /\ \A c \in Cases : \A r : AnswersUpTo(c, r) => AnswersUpTo(c, r)'
      BY <1>a, <2>3, TrailQuiet
    <2>10. WorkOk(t)'
      BY <1>b, <2>1, <2>6, <2>8, <2>9 DEF WorkOk
    <2>11. ASSUME NEW x \in Pool, x # w
           PROVE  WorkOk(drains[x])'
      <3>1. PICK y \in Drain : y = drains[x]
        BY <1>a
      <3>2. y # Idle => y.case \in Cases /\ y.case # v.case
        <4>1. v # Idle
          BY <2>1 DEF Idle
        <4> QED BY <1>f, <2>11, <3>1, <4>1 DEF Drain
      <3>3. y # Idle => \A r : Analysed(y.case, r)' => Analysed(y.case, r)
        BY <2>4, <2>5, <3>2 DEF Analysed, Talked
      <3>4. WorkOk(y)'
        BY <1>a, <2>9, <3>1, <3>2, <3>3, WorkStays
      <3> QED BY <2>7, <2>11, <3>1, <3>4 DEF WorkOk
    <2>12. AnalysedOnce'
      <3> SUFFICES ASSUME NEW n \in DOMAIN talks', talks'[n].by = "event", NEW m \in 1 .. n - 1,
                          talks'[m].case = talks'[n].case, talks'[m].revision = talks'[n].revision,
                          talks'[m].by # "question"
                   PROVE  FALSE
        BY DEF AnalysedOnce, Talked
      <3>1. CASE n \in 1 .. Len(talks)
        BY <1>a, <2>5, <3>1 DEF AnalysedOnce, Talked
      <3>2. CASE n = Len(talks) + 1
        <4>1. Analysed(v.case, v.job.revision)
          BY <2>4, <2>5, <3>2 DEF Analysed, Talked
        <4> QED BY <2>1, <2>4, <2>5, <2>6, <3>2, <4>1 DEF WorkOk
      <3> QED BY <2>5, <3>1, <3>2
    <2>13. WorkOk(drains[w])'
      BY <1>c, <2>10 DEF WorkOk
    <2> QED BY <2>9, <2>11, <2>12, <2>13
  <1>10. CASE Publish(w)
    <2>1. v \in [phase : Working, case : Cases, job : Job, seen : Nat] /\ v.phase = "publish"
      BY <1>10, <1>c, <1>d DEF Publish, Working
    <2>2. UNCHANGED talks /\ At(w, "pop")
      BY <1>10 DEF Publish
    <2>3. t.phase = "pop" /\ \A x \in Pool : x # w => drains'[x] = drains[x]
      BY <1>e, <2>1, <2>2
    <2>4. CASE Repeated(AnswerId(drains[w].seen))
      BY <1>1, <1>2, <2>2, <2>3, <2>4 DEF Repeated
    <2>5. CASE Effect(AnswerId(drains[w].seen), drains[w].case,
                      Message(AnswerId(drains[w].seen), drains[w].job.revision))
      <3>1. PICK n \in Nat, r \in Nat, d \in Cases : n = v.seen /\ r = v.job.revision /\ d = v.case
        BY <2>1 DEF Job
      <3>2. Posted(d, Message(AnswerId(n), r))
        BY <1>c, <2>5, <3>1 DEF Effect, Posted
      <3>3. r <= Revision(d) /\ AnswersUpTo(d, r)
        BY <1>a, <1>c, <2>1, <3>1 DEF WorkOk
      <3>4. AnswerTrail' /\ \A c \in Cases : \A q : c # d /\ AnswersUpTo(c, q) => AnswersUpTo(c, q)'
        BY <1>a, <1>b, <3>2, <3>3, PublishTrail
      <3>5. ASSUME NEW x \in Pool, x # w
            PROVE  WorkOk(drains[x])'
        <4>1. PICK y \in Drain : y = drains[x]
          BY <1>a
        <4>2. y # Idle => y.case \in Cases /\ y.case # d
          <5>1. v # Idle
            BY <2>1 DEF Idle
          <5> QED BY <1>f, <3>1, <3>5, <4>1, <5>1 DEF Drain
        <4>3. WorkOk(y)'
          BY <1>a, <2>2, <3>4, <4>1, <4>2, WorkStays DEF Analysed, Talked
        <4> QED BY <2>3, <3>5, <4>1, <4>3 DEF WorkOk
      <3>6. WorkOk(drains[w])'
        BY <1>c, <2>3 DEF WorkOk
      <3>7. AnalysedOnce'
        BY <1>a, <2>2 DEF AnalysedOnce, Talked
      <3> QED BY <3>4, <3>5, <3>6, <3>7
    <2> QED BY <1>10, <2>4, <2>5 DEF Publish, Write
  <1> QED BY <1>3, <1>4, <1>5, <1>6, <1>7, <1>8, <1>9, <1>10 DEF WorkerStep

LEMMA AnswersStep ==
  ASSUME DeskTyped, HandoffsOk, AnswersOk, Step
  PROVE  AnswersOk'
  <1>a. /\ DrainsOk /\ AnswerTrail /\ (\A x \in Pool : WorkOk(drains[x])) /\ AnalysedOnce
        /\ LedgerExtends /\ drains \in [Pool -> Drain] /\ IsSeq(talks)
    BY LedgerMoves DEF AnswersOk, DeskTyped
  <1>b. DrainsOk'
    BY <1>a, DrainsStep
  <1>1. ASSUME NEW w \in Pool, WorkerStep(w)
        PROVE  AnswersOk'
    BY <1>1, <1>b, WorkerAnswers DEF AnswersOk
  <1>2. ASSUME \A c, r : Analysed(c, r)' => Analysed(c, r),
               UNCHANGED journal \/ \E d, e : Posted(d, e) /\ ~IsAnswer(e)
        PROVE  AnswerTrail' /\ (UNCHANGED drains => \A x \in Pool : WorkOk(drains[x])')
    <2>1. AnswerTrail' /\ \A c \in Cases : \A r : AnswersUpTo(c, r) => AnswersUpTo(c, r)'
      BY <1>a, <1>2, TrailQuiet
    <2>3. ASSUME UNCHANGED drains, NEW x \in Pool
          PROVE  WorkOk(drains[x])'
      <3>1. PICK y \in Drain : y = drains[x]
        BY <1>a
      <3>2. y # Idle => y.case \in Cases
        BY DEF Drain
      <3>3. WorkOk(y)'
        BY <1>a, <1>2, <2>1, <3>1, <3>2, WorkStays
      <3> QED BY <2>3, <3>1, <3>3 DEF WorkOk
    <2> QED BY <2>1, <2>3
  <1>d. UNCHANGED talks => AnalysedOnce' /\ \A c, r : Analysed(c, r)' => Analysed(c, r)
    BY <1>a DEF AnalysedOnce, Analysed, Talked
  <1>3. ASSUME UNCHANGED drains, ~\E w \in Pool : Published(w),
               AnalysedOnce', \A c, r : Analysed(c, r)' => Analysed(c, r)
        PROVE  AnswersOk'
    BY <1>2, <1>3, <1>b, AnswerMoves DEF AnswersOk
  <1>c. ASSUME NEW w \in Pool, Published(w), UNCHANGED drains
        PROVE  FALSE
    <2>1. drains[w].phase = "publish" /\ drains' = [drains EXCEPT ![w].phase = "pop"]
      BY <1>c DEF Published, Publish, At
    <2>2. drains[w] \in [phase : Working, case : Cases, job : Job, seen : Nat]
      BY <1>a, <2>1 DEF Drain, Idle
    <2>3. drains'[w].phase = "pop"
      BY <1>a, <2>1, <2>2
    <2> QED BY <1>c, <2>1, <2>3
  <1>4. CASE UNCHANGED <<drains, talks>>
    BY <1>3, <1>4, <1>c, <1>d
  <1>5. ASSUME NEW c \in Cases, NEW a \in Triggers, OtherStep(c, a)
        PROVE  AnswersOk'
    BY <1>4, <1>5 DEF OtherStep, memory
  <1>6. ASSUME NEW u \in Uploads, FileStepDone(u)
        PROVE  AnswersOk'
    BY <1>4, <1>6 DEF FileStepDone, memory
  <1>7. ASSUME NEW c \in Cases, RepeatStep(c) \/ UserRun(c)
        PROVE  AnswersOk'
    BY <1>4, <1>7 DEF RepeatStep, UserRun, memory
  <1>8. ASSUME NEW o \in Observers, ObserverStep(o)
        PROVE  AnswersOk'
    BY <1>4, <1>8 DEF ObserverStep, ReadAgain, CopyNotice, Observe, ScheduleChange, memory
  <1>9. CASE RestartStep
    <2>1. UNCHANGED <<journal, talks>> /\ drains' = [x \in Pool |-> Idle]
      BY <1>9 DEF RestartStep, Forget
    <2>2. \A x \in Pool : WorkOk(drains[x])'
      BY <2>1 DEF WorkOk, Idle
    <2> QED BY <1>2, <1>b, <1>d, <2>1, <2>2 DEF AnswersOk
  <1>10. ASSUME NEW q \in Requests, AskStep(q)
         PROVE  AnswersOk'
    <2>1. CASE SaveReply(q)
      <3>1. PICK e : e = [case |-> q.case, revision |-> asking[q].revision, by |-> "question"]
        OBVIOUS
      <3>2. talks' = Append(talks, e) /\ e.by = "question" /\ UNCHANGED drains
        BY <2>1, <3>1 DEF SaveReply, memory
      <3>3. /\ DOMAIN talks = 1 .. Len(talks) /\ Len(talks) \in Nat
            /\ DOMAIN talks' = 1 .. Len(talks) + 1
            /\ \A i \in 1 .. Len(talks) : talks'[i] = talks[i]
            /\ talks'[Len(talks) + 1] = e
        BY <1>a, <3>2, AppendFacts
      <3>4. \A c, r : Analysed(c, r)' => Analysed(c, r)
        BY <3>2, <3>3 DEF Analysed, Talked
      <3>5. AnalysedOnce'
        BY <1>a, <3>2, <3>3 DEF AnalysedOnce, Talked
      <3> QED BY <1>3, <1>c, <3>2, <3>4, <3>5
    <2>2. CASE ~SaveReply(q)
      BY <1>4, <1>10, <2>2 DEF AskStep, Question, QuestionStep, LookUp, Consult, Consulted,
                               PublishReply, HandToStaff, agentVars, memory
    <2> QED BY <2>1, <2>2
  <1> QED BY <1>1, <1>4, <1>5, <1>6, <1>7, <1>8, <1>9, <1>10 DEF Step, DeskStep, agentVars

-----------------------------------------------------------------------------
(* A question has one reply, below it.                                     *)

AnyReply(e) == \E n \in Nat : Says(e, ReplyId(n))

Replied(q) == PublishReply(q) /\ Effect(ReplyId(asking[q].talk), q.case, Reply(q))

Grown == UNCHANGED journal \/ \E d, e : Posted(d, e)

LEMMA ReplyMoves ==
  ASSUME DeskTyped, HandoffsOk, Step
  PROVE  \/ UNCHANGED journal \/ \E d, e : Posted(d, e) /\ ~AnyReply(e)
         \/ \E q \in Requests : Replied(q)
  <1>1. \A e : AnyReply(e) => e.kind = "MESSAGE" /\ Own(e.source) /\ e.source[1] = "reply"
    BY NoticeIds DEF AnyReply, Says
  <1>2. ASSUME NEW c \in Cases, NEW e, Moved(c, e), Said(e) \/ Made(e) \/ Worked(c, e)
        PROVE  Posted(c, e) /\ ~AnyReply(e)
    BY <1>1, <1>2 DEF Moved, Said, Made, Worked, IsHandoff
  <1>3. CASE scan.phase = "escalate" /\ Moved(scan.case, Raised(scan.handoff)) /\ scan' = Idle
    <2>1. PICK c, e : c = scan.case /\ e = Raised(scan.handoff)
      OBVIOUS
    <2>2. IsHandoff(scan.handoff)
      BY <1>3 DEF HandoffsOk
    <2>3. e.kind = "HANDOFF"
      BY <2>1, <2>2 DEF IsHandoff, Raised
    <2> QED BY <1>1, <1>3, <2>1, <2>3 DEF Moved
  <1>4. ASSUME NEW o \in Observers, NEW x \in observers[o].left, Copies(o, x)
        PROVE  \E d, e : Posted(d, e) /\ ~AnyReply(e)
    <2>1. PICK c \in Cases, y \in Items : c = observers[o].case /\ y = x
      BY <1>4 DEF Copies, DeskTyped, Task, Idle
    <2>2. PICK e : e = Message(NoticeId(c, y), observers[o].revision)
      OBVIOUS
    <2>3. ~AnyReply(e)
      BY <1>1, <2>2, NoticeIds DEF Message
    <2> QED BY <1>4, <2>1, <2>2, <2>3 DEF Copies, Effect, Posted
  <1>5. ASSUME NEW c \in Cases, ScanHandoff(c)
        PROVE  UNCHANGED journal
    BY <1>5 DEF ScanHandoff
  <1>6. ASSUME NEW w \in Pool, Published(w)
        PROVE  \E d, e : Posted(d, e) /\ ~AnyReply(e)
    <2>1. PICK c \in Cases : c = drains[w].case
      BY <1>6 DEF Published, Publish, DeskTyped, Drain, Idle
    <2>2. PICK e : e = Message(AnswerId(drains[w].seen), drains[w].job.revision)
      OBVIOUS
    <2>3. ~AnyReply(e)
      BY <1>1, <2>2, NoticeIds DEF Message
    <2> QED BY <1>6, <2>1, <2>2, <2>3 DEF Published, Effect, Posted
  <1> QED BY <1>2, <1>3, <1>4, <1>5, <1>6, JournalMoves DEF JournalMove, Published, Replied

LEMMA JournalKept ==
  ASSUME DeskTyped, Grown, NEW c \in Cases
  PROVE  /\ Len(journal[c]) \in Nat /\ DOMAIN journal[c] = 1 .. Len(journal[c])
         /\ \A i \in DOMAIN journal[c] : i \in DOMAIN journal'[c] /\ journal'[c][i] = journal[c][i]
  <1>1. CASE UNCHANGED journal
    BY <1>1, Lengths
  <1>2. ASSUME NEW d, NEW e, Posted(d, e)
        PROVE  \A i \in DOMAIN journal[c] : i \in DOMAIN journal'[c] /\ journal'[c][i] = journal[c][i]
    <2>1. CASE c # d
      BY <1>2, <2>1, JournalGrows
    <2>2. CASE c = d
      <3> DEFINE n == Len(journal[d])
      <3>1. /\ DOMAIN journal'[d] = 1 .. n + 1 /\ \A i \in 1 .. n : journal'[d][i] = journal[d][i]
            /\ n \in Nat /\ DOMAIN journal[d] = 1 .. n
        BY <1>2, JournalGrows
      <3> HIDE DEF n
      <3> QED BY <2>2, <3>1
    <2> QED BY <2>1, <2>2
  <1> QED BY <1>1, <1>2, Lengths DEF Grown

LEMMA AskedStays ==
  ASSUME DeskTyped, Grown, NEW c \in Cases, NEW id, NEW k \in Int, NEW m \in Int, k <= m,
         NEW r, NEW s, 0 .. r \subseteq 0 .. s, AskedBy(c, id, k, r)
  PROVE  AskedBy(c, id, m, s)'
  <1>1. PICK i \in DOMAIN journal[c] :
          i < k /\ Says(journal[c][i], id) /\ journal[c][i].revision \in 0 .. r
    BY DEF AskedBy
  <1>2. i \in Int /\ i \in DOMAIN journal'[c] /\ journal'[c][i] = journal[c][i]
    BY JournalKept
  <1> QED BY <1>1, <1>2 DEF AskedBy, Says

(* Where each thread has got to: the newest revision its message may tell. *)
Told(q) == IF asking[q].phase = "read" THEN Revision(q.case) ELSE asking[q].revision

LEMMA ThreadStays ==
  ASSUME DeskTyped, DeskTyped', Grown, receipts \subseteq receipts',
         NEW q \in Requests, ThreadOk(q), asking[q] # Idle, 0 .. Told(q) \subseteq 0 .. Told(q)',
         \A p \in Requests : p.id = q.id /\ p # q => asking'[p] = Idle,
         asking'[q].phase # "handoff" => Unanswered(q.id)'
  PROVE  ThreadOk(q)'
  <1>1. q.case \in Cases /\ q.id \in receipts'
    BY DeskAssumption DEF ThreadOk
  <1>2. PICK k \in Nat, m \in Nat : k = Len(journal[q.case]) + 1 /\ m = Len(journal'[q.case]) + 1
    <2>1. IsSeq(journal[q.case]) /\ IsSeq(journal'[q.case])
      BY <1>1 DEF DeskTyped
    <2>2. \A s : IsSeq(s) => Len(s) \in Nat
      BY LenProperties DEF IsSeq
    <2> QED BY <2>1, <2>2
  <1>3. k <= m
    <2>1. DOMAIN journal'[q.case] = 1 .. Len(journal'[q.case])
      BY <1>1, LenProperties DEF DeskTyped, IsSeq
    <2>2. \A i \in 1 .. Len(journal[q.case]) : i \in 1 .. Len(journal'[q.case])
      BY <1>1, <2>1, JournalKept
    <2> QED BY <1>2, <2>2
  <1>4. AskedBy(q.case, q.id, k, Told(q))
    BY <1>2 DEF ThreadOk, Told
  <1>5. PICK r, s : r = Told(q) /\ s = Told(q)'
    OBVIOUS
  <1>6. AskedBy(q.case, q.id, m, s)'
    BY <1>1, <1>3, <1>4, <1>5, AskedStays
  <1> QED BY <1>1, <1>2, <1>5, <1>6 DEF ThreadOk, Told, AskedBy

LEMMA QuietReplies ==
  ASSUME DeskTyped, RepliesOk, receipts \subseteq receipts',
         UNCHANGED journal \/ \E d, e : Posted(d, e) /\ ~AnyReply(e)
  PROVE  RepliesOk' /\ \A id : Unanswered(id) => Unanswered(id)'
  <1>a. Grown
    BY DEF Grown
  <1>1. ASSUME NEW c \in Cases, NEW k \in DOMAIN journal'[c], NEW id, IsReply(journal'[c][k], id)
        PROVE  k \in DOMAIN journal[c] /\ journal'[c][k] = journal[c][k]
    <2>1. CASE UNCHANGED journal
      BY <1>1, <2>1
    <2>2. ASSUME NEW d, NEW e, Posted(d, e), ~AnyReply(e)
          PROVE  k \in DOMAIN journal[c] /\ journal'[c][k] = journal[c][k]
      <3>1. CASE c # d
        BY <1>1, <2>2, <3>1, JournalGrows
      <3>2. CASE c = d
        <4> DEFINE n == Len(journal[d])
        <4>1. /\ DOMAIN journal'[d] = 1 .. n + 1 /\ journal'[d][n + 1] = e
              /\ \A i \in 1 .. n : journal'[d][i] = journal[d][i]
              /\ n \in Nat /\ DOMAIN journal[d] = 1 .. n
          BY <2>2, JournalGrows
        <4> HIDE DEF n
        <4>2. k \in 1 .. n
          BY <1>1, <2>2, <3>2, <4>1 DEF IsReply, AnyReply
        <4> QED BY <3>2, <4>1, <4>2
      <3> QED BY <3>1, <3>2
    <2> QED BY <2>1, <2>2
  <1>2. ASSUME NEW c \in Cases, NEW q \in Requests, NEW k \in DOMAIN journal'[c],
               IsReply(journal'[c][k], q.id)
        PROVE  /\ q.id \in receipts' /\ AskedBy(c, q.id, k, journal[c][k].revision)'
               /\ \A m \in DOMAIN journal'[c] : IsReply(journal'[c][m], q.id) => m = k
    <2>1. k \in DOMAIN journal[c] /\ journal'[c][k] = journal[c][k]
      BY <1>1, <1>2
    <2>2. PICK r : r = journal[c][k].revision
      OBVIOUS
    <2>3. /\ q.id \in receipts /\ AskedBy(c, q.id, k, r)
          /\ \A m \in DOMAIN journal[c] : IsReply(journal[c][m], q.id) => m = k
      BY <1>2, <2>1, <2>2 DEF RepliesOk
    <2>4. k \in Int
      BY <2>1, Lengths
    <2>5. AskedBy(c, q.id, k, r)'
      BY <1>a, <2>3, <2>4, AskedStays
    <2> QED BY <1>1, <2>1, <2>2, <2>3, <2>5 DEF AskedBy
  <1>3. ASSUME NEW id, Unanswered(id)
        PROVE  Unanswered(id)'
    BY <1>1, <1>3 DEF Unanswered, IsReply, Says
  <1> QED BY <1>2, <1>3 DEF RepliesOk, IsReply, Says, AskedBy

LEMMA ReplyPosted ==
  ASSUME DeskTyped, QuestionsOk, receipts \subseteq receipts', NEW q \in Requests, Replied(q)
  PROVE  RepliesOk' /\ \A id : Unanswered(id) /\ id # q.id => Unanswered(id)'
  <1>1. PICK e, d, n, r : e = Reply(q) /\ d = q.case /\ n = asking[q].talk /\ r = asking[q].revision
    OBVIOUS
  <1>2. asking[q] \in Asker /\ asking[q].phase = "publish" /\ asking[q] # Idle /\ d \in Cases
    BY <1>1, DeskAssumption DEF Replied, PublishReply, DeskTyped, Idle
  <1>3. n \in Nat /\ Says(e, ReplyId(n)) /\ e.parent = q.id /\ e.revision = r
    BY <1>1, <1>2 DEF Reply, Says, Asker, Idle
  <1>4. Posted(d, e)
    BY <1>1, <1>2 DEF Replied, Effect, Posted
  <1>l. PICK l \in Nat : l = Len(journal[d])
    BY <1>2, Lengths
  <1>5. /\ DOMAIN journal'[d] = 1 .. l + 1 /\ journal'[d][l + 1] = e
        /\ \A k \in 1 .. l : journal'[d][k] = journal[d][k]
        /\ \A c \in Cases : c # d => journal'[c] = journal[c]
        /\ DOMAIN journal[d] = 1 .. l
    BY <1>4, <1>l, JournalGrows
  <1>6. q.id \in receipts /\ Unanswered(q.id) /\ AskedBy(d, q.id, l + 1, r)
    BY <1>1, <1>2, <1>l DEF QuestionsOk, ThreadOk
  <1>7. \A id : IsReply(e, id) => id = q.id
    BY <1>3 DEF IsReply
  <1>8. ASSUME NEW c \in Cases, NEW k \in DOMAIN journal'[c]
        PROVE  (c = d /\ k = l + 1) \/ (k \in DOMAIN journal[c] /\ journal'[c][k] = journal[c][k])
    <2>1. CASE c = d
      <3>1. k \in 1 .. l \/ k = l + 1
        BY <1>5, <1>8, <2>1
      <3> QED BY <1>5, <2>1, <3>1
    <2> QED BY <1>5, <1>8, <2>1
  <1>9. ASSUME NEW c \in Cases, NEW p \in Requests, NEW k \in DOMAIN journal'[c],
               IsReply(journal'[c][k], p.id)
        PROVE  /\ p.id \in receipts' /\ AskedBy(c, p.id, k, journal[c][k].revision)'
               /\ \A m \in DOMAIN journal'[c] : IsReply(journal'[c][m], p.id) => m = k
    <2>1. CASE c = d /\ k = l + 1
      <3>1. p.id = q.id /\ journal'[c][k].revision = r
        BY <1>3, <1>5, <1>7, <1>9, <2>1
      <3>2. AskedBy(d, q.id, l + 1, r)'
        <4>1. PICK m \in Int : m = l + 1
          OBVIOUS
        <4>2. AskedBy(d, q.id, m, r) /\ Grown
          BY <1>4, <1>6, <4>1 DEF Grown
        <4> QED BY <1>2, <4>1, <4>2, AskedStays
      <3>3. \A m \in DOMAIN journal'[c] : IsReply(journal'[c][m], q.id) => m = k
        BY <1>6, <1>8, <2>1 DEF Unanswered
      <3> QED BY <1>6, <2>1, <3>1, <3>2, <3>3 DEF AskedBy
    <2>2. CASE k \in DOMAIN journal[c] /\ journal'[c][k] = journal[c][k]
      <3>1. PICK s : s = journal[c][k].revision
        OBVIOUS
      <3>2. /\ p.id \in receipts /\ AskedBy(c, p.id, k, s)
            /\ \A m \in DOMAIN journal[c] : IsReply(journal[c][m], p.id) => m = k
        BY <1>9, <2>2, <3>1 DEF QuestionsOk, RepliesOk
      <3>3. p.id # q.id
        BY <1>6, <1>9, <2>2 DEF Unanswered
      <3>4. k \in Int
        BY <2>2, Lengths
      <3>5. AskedBy(c, p.id, k, s)'
        BY <1>4, <3>2, <3>4, AskedStays DEF Grown
      <3>6. ASSUME NEW m \in DOMAIN journal'[c], IsReply(journal'[c][m], p.id)
            PROVE  m = k
        <4>1. ~(c = d /\ m = l + 1)
          BY <1>5, <1>7, <3>3, <3>6
        <4> QED BY <1>8, <3>2, <3>6, <4>1
      <3> QED BY <2>2, <3>1, <3>2, <3>5, <3>6 DEF AskedBy
    <2> QED BY <1>8, <1>9, <2>1, <2>2
  <1>10. ASSUME NEW id, Unanswered(id), id # q.id
         PROVE  Unanswered(id)'
    <2> SUFFICES ASSUME NEW c \in Cases, NEW k \in DOMAIN journal'[c], IsReply(journal'[c][k], id)
                 PROVE  FALSE
      BY DEF Unanswered, IsReply, Says
    <2>1. ~(c = d /\ k = l + 1)
      BY <1>5, <1>7, <1>10
    <2> QED BY <1>8, <1>10, <2>1 DEF Unanswered
  <1> QED BY <1>9, <1>10 DEF RepliesOk, IsReply, Says, AskedBy

LEMMA QuestionsStep ==
  ASSUME DeskTyped, DeskTyped', HandoffsOk, QuestionsOk, Step
  PROVE  QuestionsOk'
  <1>a. /\ LedgerExtends /\ receipts \subseteq receipts' /\ AskMove
        /\ asking \in [Requests -> Asker] /\ asking' \in [Requests -> Asker]
    BY LedgerMoves, JournalMoves, ReceiptsGrow DEF DeskTyped, Step
  <1>b. \A q \in Requests : ThreadOk(q)
    BY DEF QuestionsOk
  <1>c. Grown
    BY ReplyMoves, DeskAssumption DEF Grown, Replied, Effect, Posted
  <1>d. ASSUME NEW q \in Requests
        PROVE  /\ q.case \in Cases /\ Revision(q.case) \in Nat /\ Revision(q.case)' \in Nat
               /\ Revision(q.case) <= Revision(q.case)'
    BY <1>a, DeskAssumption DEF LedgerExtends
  <1>e. ASSUME NEW q \in Requests, asking'[q] = asking[q]
        PROVE  0 .. Told(q) \subseteq 0 .. Told(q)'
    BY <1>d, <1>e DEF Told
  <1>f. ASSUME NEW q \in Requests, NEW p \in Requests, p # q, p.id = q.id
        PROVE  asking[q] = Idle \/ asking[p] = Idle
    BY <1>b, <1>f DEF ThreadOk
  <1>g. ASSUME NEW q \in Requests, asking'[q] = Idle
        PROVE  ThreadOk(q)'
    BY <1>g DEF ThreadOk
  (* The threads that do not move, when the thread of q does.              *)
  <1>h. ASSUME NEW q \in Requests, \A p \in Requests : p # q => asking'[p] = asking[p],
               asking[q] # Idle \/ q.id \notin receipts,
               \A id : Unanswered(id) /\ id # q.id => Unanswered(id)',
               NEW p \in Requests, p # q
        PROVE  ThreadOk(p)'
    <2>1. CASE asking[p] = Idle
      BY <1>g, <1>h, <2>1
    <2>2. CASE asking[p] # Idle
      <3>1. p.id # q.id /\ p.id \in receipts
        BY <1>b, <1>f, <1>h, <2>2 DEF ThreadOk
      <3>2. \A x \in Requests : x.id = p.id /\ x # p => asking'[x] = Idle
        BY <1>f, <1>h, <2>2, <3>1
      <3>3. asking'[p].phase # "handoff" => Unanswered(p.id)'
        BY <1>b, <1>h, <2>2, <3>1 DEF ThreadOk
      <3>4. 0 .. Told(p) \subseteq 0 .. Told(p)'
        BY <1>e, <1>h
      <3> QED BY <1>a, <1>b, <1>c, <2>2, <3>2, <3>3, <3>4, ThreadStays
    <2> QED BY <2>1, <2>2
  <1>1. ASSUME NEW q \in Requests, Replied(q)
        PROVE  QuestionsOk'
    <2>1. /\ asking[q].phase = "publish" /\ asking[q] # Idle /\ asking'[q] = [asking[q] EXCEPT !.phase = "handoff"]
          /\ \A p \in Requests : p # q => asking'[p] = asking[p]
      BY <1>1, <1>a DEF Replied, PublishReply, Going, Idle
    <2>2. asking'[q].phase = "handoff" /\ asking'[q].revision = asking[q].revision
      BY <1>a, <2>1 DEF Asker, Idle
    <2>3. RepliesOk' /\ \A id : Unanswered(id) /\ id # q.id => Unanswered(id)'
      BY <1>1, <1>a, ReplyPosted
    <2>4. \A p \in Requests : p.id = q.id /\ p # q => asking'[p] = Idle
      BY <1>f, <2>1
    <2>5. 0 .. Told(q) \subseteq 0 .. Told(q)'
      BY <2>1, <2>2 DEF Told
    <2>6. ThreadOk(q)'
      BY <1>a, <1>b, <1>c, <2>1, <2>2, <2>4, <2>5, ThreadStays
    <2>7. \A p \in Requests : p # q => ThreadOk(p)'
      BY <1>h, <2>1, <2>3
    <2>8. \A p \in Requests : ThreadOk(p)'
      BY <2>6, <2>7
    <2> QED BY <2>3, <2>8 DEF QuestionsOk
  <1>2. ASSUME ~\E q \in Requests : Replied(q)
        PROVE  RepliesOk' /\ \A id : Unanswered(id) => Unanswered(id)'
    BY <1>2, <1>a, ReplyMoves, QuietReplies DEF QuestionsOk
  <1>3. ASSUME UNCHANGED asking, ~\E q \in Requests : Replied(q)
        PROVE  \A q \in Requests : ThreadOk(q)'
    <2> SUFFICES ASSUME NEW q \in Requests, asking[q] # Idle
                 PROVE  ThreadOk(q)'
      BY <1>3, <1>g
    <2>1. \A p \in Requests : p.id = q.id /\ p # q => asking'[p] = Idle
      BY <1>3, <1>f
    <2>2. asking'[q].phase # "handoff" => Unanswered(q.id)'
      BY <1>2, <1>3, <1>b DEF ThreadOk
    <2>3. 0 .. Told(q) \subseteq 0 .. Told(q)'
      BY <1>3, <1>e
    <2> QED BY <1>a, <1>b, <1>c, <2>1, <2>2, <2>3, ThreadStays
  <1>4. ASSUME NEW q \in Requests, AskStep(q), ~\E p \in Requests : Replied(p)
        PROVE  \A p \in Requests : ThreadOk(p)'
    <2>a. UNCHANGED ledger
      BY <1>4 DEF AskStep, Question, QuestionStep, LookUp, Consult, Consulted, SaveReply,
                  PublishReply, HandToStaff
    <2>b. Revision(q.case)' = Revision(q.case)
      BY <2>a DEF Revision
    <2>1. \A p \in Requests : p # q => asking'[p] = asking[p]
      BY <1>4, <1>a DEF AskStep, Question, QuestionStep, LookUp, Consult, Consulted, SaveReply,
                        PublishReply, HandToStaff, Going, Over
    <2>2. asking[q] # Idle \/ q.id \notin receipts
      BY <1>4 DEF AskStep, Question, QuestionStep, LookUp, Consult, Consulted, SaveReply,
                  PublishReply, HandToStaff, Effect, Idle
    <2>3. \A p \in Requests : p # q => ThreadOk(p)'
      BY <1>2, <1>4, <1>h, <2>1, <2>2
    <2>4. ASSUME asking[q] # Idle, asking[q].phase # "handoff", 0 .. Told(q) \subseteq 0 .. Told(q)'
          PROVE  ThreadOk(q)'
      <3>1. \A p \in Requests : p.id = q.id /\ p # q => asking'[p] = Idle
        BY <1>f, <2>1, <2>4
      <3>2. Unanswered(q.id)'
        BY <1>2, <1>4, <1>b, <2>4 DEF ThreadOk
      <3> QED BY <1>a, <1>b, <1>c, <2>4, <3>1, <3>2, ThreadStays
    <2>5. ASSUME NEW phase, Going(q, phase), phase # "read",
                 asking[q].phase \in {"ask", "model", "save", "publish"}
          PROVE  ThreadOk(q)'
      <3>1. asking[q] # Idle /\ asking'[q] = [asking[q] EXCEPT !.phase = phase]
        BY <1>a, <2>5 DEF Going, Idle
      <3>2. asking'[q].phase = phase /\ asking'[q].revision = asking[q].revision
        BY <1>a, <2>5, <3>1 DEF Asker, Idle
      <3>3. Told(q)' = Told(q)
        BY <2>5, <3>2 DEF Told
      <3> QED BY <2>4, <2>5, <3>1, <3>3
    <2>6. Over(q) => ThreadOk(q)'
      BY <1>a, <1>g DEF Over
    <2>7. ASSUME Question(q)
        PROVE  ThreadOk(q)'
      <3>1. PICK r \in 1 .. Revision(q.case) : Effect(q.id, q.case, Message(q.id, r))
        BY <2>7 DEF Question
      <3>2. asking'[q] = [phase |-> "read"]
        BY <1>a, <2>7 DEF Question
      <3>3. asking'[q].phase = "read" /\ q.id \in receipts' /\ q.id \notin receipts
        BY <3>1, <3>2 DEF Effect, Receipted
      <3>4. \A p \in Requests : p.id = q.id /\ p # q => asking'[p] = Idle
        BY <1>b, <2>1, <3>3 DEF ThreadOk
      <3>5. Unanswered(q.id)'
        <4>1. Unanswered(q.id)
          BY <3>3 DEF Unanswered, QuestionsOk, RepliesOk
        <4> QED BY <1>2, <1>4, <4>1
      <3>6. AskedBy(q.case, q.id, Len(journal[q.case]) + 1, Revision(q.case))'
        <4>1. PICK d, e : d = q.case /\ d \in Cases /\ e = Message(q.id, r)
          BY <1>d
        <4>2. Posted(d, e) /\ Says(e, q.id) /\ e.revision = r
          BY <3>1, <4>1 DEF Effect, Posted, Message, Says
        <4> DEFINE l == Len(journal[d])
        <4>3. DOMAIN journal'[d] = 1 .. l + 1 /\ journal'[d][l + 1] = e /\ l \in Nat
          BY <4>2, JournalGrows
        <4>4. Len(journal'[d]) = l + 1
          <5>1. IsSeq(journal'[d])
            BY <4>1 DEF DeskTyped
          <5>2. Len(journal'[d]) \in Nat /\ DOMAIN journal'[d] = 1 .. Len(journal'[d])
            BY <5>1, LenProperties DEF IsSeq
          <5> QED BY <4>3, <5>2
        <4> HIDE DEF l
        <4>5. r \in 0 .. Revision(q.case)' /\ l + 1 \in DOMAIN journal'[d] /\ l + 1 < (l + 1) + 1
          BY <1>d, <2>b, <4>3
        <4> QED BY <4>1, <4>2, <4>3, <4>4, <4>5 DEF AskedBy, Says
      <3> QED BY <3>3, <3>4, <3>5, <3>6 DEF ThreadOk
    <2>8. ASSUME LookUp(q)
        PROVE  ThreadOk(q)'
      <3>1. asking'[q] = [phase |-> "ask", revision |-> Revision(q.case), talk |-> 0]
        BY <1>a, <2>8 DEF LookUp
      <3>2. asking[q].phase = "read" /\ asking[q] # Idle
        BY <2>8 DEF LookUp, Idle
      <3>3. Told(q)' = Told(q)
        BY <3>1, <3>2 DEF Told
      <3> QED BY <2>4, <3>2, <3>3
    <2>9. ASSUME Consult(q)
        PROVE  ThreadOk(q)'
      BY <2>5, <2>6, <2>9 DEF Consult
    <2>10. ASSUME Consulted(q)
         PROVE  ThreadOk(q)'
      BY <2>5, <2>6, <2>10 DEF Consulted
    <2>11. ASSUME SaveReply(q)
         PROVE  ThreadOk(q)'
      <3>1. PICK n : asking' = [asking EXCEPT ![q].phase = "publish", ![q].talk = n]
        BY <2>11 DEF SaveReply
      <3>2. asking[q].phase = "save" /\ asking[q] # Idle
        BY <2>11 DEF SaveReply, Idle
      <3>3. asking'[q].phase = "publish" /\ asking'[q].revision = asking[q].revision
        BY <1>a, <3>1, <3>2 DEF Asker, Idle
      <3>4. Told(q)' = Told(q)
        BY <3>2, <3>3 DEF Told
      <3> QED BY <2>4, <3>2, <3>4
    <2>12. ASSUME PublishReply(q)
         PROVE  ThreadOk(q)'
      BY <2>5, <2>12 DEF PublishReply
    <2>13. ASSUME HandToStaff(q)
         PROVE  ThreadOk(q)'
      BY <2>6, <2>13 DEF HandToStaff
    <2>14. ThreadOk(q)'
      BY <1>4, <2>7, <2>8, <2>9, <2>10, <2>11, <2>12, <2>13 DEF AskStep, QuestionStep
    <2> QED BY <2>3, <2>14
  <1>5. ASSUME asking' = [q \in Requests |-> Idle]
        PROVE  \A q \in Requests : ThreadOk(q)'
    BY <1>5, <1>g
  <1>6. ASSUME ~\E q \in Requests : Replied(q)
        PROVE  QuestionsOk'
    BY <1>2, <1>3, <1>4, <1>5, <1>6, <1>a DEF AskMove, QuestionsOk
  <1> QED BY <1>1, <1>6

-----------------------------------------------------------------------------
(* A file is in use once.                                                  *)

LEMMA UploadOfIs ==
  ASSUME NEW u \in Uploads, NEW k, k.id = <<"upload", u.id>>
  PROVE  UploadOf(k) = u
  <1>1. \A v \in Uploads : k.id = <<"upload", v.id>> => v = u
    BY DeskAssumption
  <1> QED BY <1>1 DEF UploadOf

LEMMA RegisteredEntry ==
  ASSUME DeskTyped, EntriesTrue, NEW c \in Cases, NEW k \in Registered(c)
  PROVE  /\ UploadOf(k) \in Uploads /\ k.id = <<"upload", UploadOf(k).id>>
         /\ k.content = stored[UploadOf(k)] /\ IsStored(UploadOf(k))
         /\ k.expected < Revision(c) /\ k.expected \in Int /\ k \in Entries(c)
  <1>1. PICK i \in DOMAIN ledger[c] : k = ledger[c][i]
    BY DEF Registered, Entries
  <1>2. k.action = "REGISTER_EVIDENCE"
    BY DEF Registered
  <1>3. PICK u \in Uploads : k.id = <<"upload", u.id>> /\ k.content = stored[u] /\ IsStored(u)
    BY <1>1, <1>2 DEF EntriesTrue
  <1>4. UploadOf(k) = u
    BY <1>3, UploadOfIs
  <1>5. k.expected = i - 1 /\ i \in 1 .. Revision(c) /\ Revision(c) \in Nat
    BY <1>1, Lengths DEF EntriesTrue
  <1> QED BY <1>1, <1>3, <1>4, <1>5 DEF Entries

(* Without another registration nothing of the files in use changes.       *)
LEMMA SameInUse ==
  ASSUME NEW c \in Cases, Registered(c)' = Registered(c)
  PROVE  InUse(c)' = InUse(c)
  BY DEF InUse

LEMMA GrownEntries ==
  ASSUME DeskTyped, NEW k, k.case \in Cases, Executed(k)
  PROVE  /\ Entries(k.case)' = Entries(k.case) \cup {k}
         /\ \A c \in Cases : c # k.case => Entries(c)' = Entries(c)
  <1>1. \A c \in Cases : c # k.case => Entries(c)' = Entries(c)
    BY LedgerGrows DEF Entries
  <1> DEFINE d == k.case
             n == Revision(k.case)
  <1>2. /\ DOMAIN ledger'[d] = 1 .. n + 1 /\ ledger'[d][n + 1] = k
        /\ \A i \in 1 .. n : ledger'[d][i] = ledger[d][i]
        /\ n \in Nat /\ DOMAIN ledger[d] = 1 .. n
    BY LedgerGrows, Lengths
  <1>3. {ledger'[d][i] : i \in DOMAIN ledger'[d]} = {ledger[d][i] : i \in DOMAIN ledger[d]} \cup {k}
    <2> HIDE DEF d, n
    <2>1. ASSUME NEW i \in DOMAIN ledger'[d]
          PROVE  ledger'[d][i] \in {ledger[d][j] : j \in DOMAIN ledger[d]} \cup {k}
      BY <1>2
    <2>2. ASSUME NEW i \in DOMAIN ledger[d]
          PROVE  ledger[d][i] \in {ledger'[d][j] : j \in DOMAIN ledger'[d]}
      BY <1>2
    <2>3. k \in {ledger'[d][j] : j \in DOMAIN ledger'[d]}
      BY <1>2
    <2> QED BY <2>1, <2>2, <2>3
  <1> QED BY <1>1, <1>3 DEF Entries

LEMMA OtherCommandFiles ==
  ASSUME DeskTyped, FilesOk, NEW k, k.case \in Cases, Executed(k), k.action # "REGISTER_EVIDENCE",
         k.expected = Revision(k.case), UNCHANGED <<uploads, stored>>
  PROVE  FilesOk'
  <1>a. EntriesTrue /\ DistinctFiles /\ \A u \in Uploads : (stored[u] = NoObject \/ IsStored(u)) /\ UploadOk(u)
    BY DEF FilesOk
  <1>1. \A c \in Cases : Registered(c)' = Registered(c)
    BY GrownEntries DEF Registered
  <1>2. \A c \in Cases : InUse(c)' = InUse(c)
    BY <1>1, SameInUse
  <1>3. EntriesTrue'
    <2> SUFFICES ASSUME NEW c \in Cases, NEW i \in DOMAIN ledger'[c]
                 PROVE  /\ ledger'[c][i].expected = i - 1
                        /\ ledger'[c][i].action = "REGISTER_EVIDENCE" =>
                             \E u \in Uploads : /\ ledger'[c][i].id = <<"upload", u.id>>
                                                /\ ledger'[c][i].content = stored[u] /\ IsStored(u)
      BY DEF EntriesTrue, IsStored
    <2>1. CASE c # k.case
      BY <1>a, <2>1, LedgerGrows DEF EntriesTrue
    <2>2. CASE c = k.case /\ i \in 1 .. Revision(c)
      <3>1. ledger'[c][i] = ledger[c][i] /\ i \in DOMAIN ledger[c]
        BY <2>2, LedgerGrows, Lengths
      <3> QED BY <1>a, <3>1 DEF EntriesTrue
    <2>3. CASE c = k.case /\ i = Revision(c) + 1
      BY <2>3, LedgerGrows, Lengths
    <2>4. c = k.case => i \in 1 .. Revision(c) \/ i = Revision(c) + 1
      BY LedgerGrows, Lengths
    <2> QED BY <2>1, <2>2, <2>3, <2>4
  <1>4. ASSUME NEW u \in Uploads
        PROVE  UploadOk(u)'
    <2> SUFFICES ASSUME uploads[u] # Idle
                 PROVE  /\ uploads[u].expected <= Revision(u.case)'
                        /\ uploads[u].clear /\ uploads[u].expected = Revision(u.case)' => IsClear(u)'
                        /\ uploads[u].phase = "register" => uploads[u].clear /\ IsStored(u)'
      BY DEF UploadOk
    <2>1. u.case \in Cases /\ uploads[u].expected \in Nat
      BY DeskAssumption DEF DeskTyped, Upload
    <2>2. IsClear(u)' <=> IsClear(u)
      BY <1>2, <2>1 DEF IsClear
    <2>3. Revision(u.case) \in Nat
      BY <2>1, Lengths
    <2>4. CASE u.case = k.case
      <3>1. Len(ledger'[u.case]) = Revision(u.case) + 1
        BY <2>4, LedgerGrows
      <3>2. Revision(u.case)' = Revision(u.case) + 1
        BY <3>1 DEF Revision
      <3> QED BY <1>a, <2>1, <2>2, <2>3, <3>2 DEF UploadOk, IsStored
    <2>5. CASE u.case # k.case
      <3>1. Revision(u.case)' = Revision(u.case)
        BY <2>1, <2>5, LedgerGrows DEF Revision
      <3> QED BY <1>a, <2>1, <2>2, <2>3, <3>1 DEF UploadOk, IsStored
    <2> QED BY <2>4, <2>5
  <1>5. DistinctFiles'
    BY <1>a, <1>2 DEF DistinctFiles
  <1> QED BY <1>a, <1>3, <1>4, <1>5 DEF FilesOk, IsStored

LEMMA FileRegistered ==
  ASSUME DeskTyped, FilesOk, NEW u \in Uploads, FileStepDone(u)
  PROVE  FilesOk'
  <1>a. EntriesTrue /\ DistinctFiles /\ \A x \in Uploads : (stored[x] = NoObject \/ IsStored(x)) /\ UploadOk(x)
    BY DEF FilesOk
  <1>b. /\ uploads[u].phase = "register" /\ Executed(Registration(u)) /\ EndUpload(u)
        /\ UNCHANGED stored /\ uploads' = [uploads EXCEPT ![u] = Idle]
    BY DEF FileStepDone, Register, EndUpload
  <1>1. PICK k : k = Registration(u)
    OBVIOUS
  <1>2. /\ k.id = <<"upload", u.id>> /\ k.action = "REGISTER_EVIDENCE" /\ k.case = u.case
        /\ k.content = stored[u] /\ k.expected = uploads[u].expected
    BY <1>1 DEF Registration, SentRevision
  <1>3. Executed(k) /\ k.case \in Cases
    BY <1>b, <1>1, <1>2, DeskAssumption
  <1>4. k.expected = Revision(k.case) /\ \A c \in Cases : \A j \in Entries(c) : j.id # k.id
    BY <1>2, <1>3 DEF Executed, Admitted, Fresh
  <1>5. UploadOf(k) = u
    BY <1>2, UploadOfIs
  <1>6. uploads[u] # Idle
    BY <1>b DEF Idle
  <1>7. IsClear(u) /\ IsStored(u)
    BY <1>a, <1>b, <1>2, <1>4, <1>6 DEF UploadOk
  <1>8. \A c \in Cases : c # k.case => Registered(c)' = Registered(c)
    BY <1>3, GrownEntries DEF Registered
  <1>9. Registered(k.case)' = Registered(k.case) \cup {k}
    BY <1>2, <1>3, GrownEntries DEF Registered
  <1>10. \A c \in Cases : c # k.case => InUse(c)' = InUse(c)
    BY <1>8, SameInUse
  <1>11. InUse(k.case)' \subseteq {m \in InUse(k.case) : ItemOf(m) # ItemOf(k)} \cup {k}
    <2> SUFFICES ASSUME NEW m \in Registered(k.case) \cup {k}, m # k,
                        \A x \in Registered(k.case) \cup {k} : ItemOf(x) = ItemOf(m) => x.expected <= m.expected
                 PROVE  m \in InUse(k.case) /\ ItemOf(m) # ItemOf(k)
      BY <1>9 DEF InUse
    <2>1. m.expected < Revision(k.case) /\ m.expected \in Int /\ Revision(k.case) \in Nat
      BY <1>a, <1>3, RegisteredEntry, Lengths
    <2> QED BY <1>4, <2>1 DEF InUse
  <1>12. ASSUME NEW m \in InUse(k.case), ItemOf(m) # ItemOf(k)
         PROVE  FileOf(m) # FileOf(k)
    <2>1. m \in Registered(k.case)
      BY DEF InUse
    <2>2. m.id = <<"upload", UploadOf(m).id>> /\ m \in Entries(k.case)
      BY <1>a, <1>3, <2>1, RegisteredEntry
    <2>3. UploadOf(m) # u
      BY <1>2, <1>3, <1>4, <2>2
    <2>4. ~ReadAnew(u, m)
      BY <1>5, <1>12 DEF ReadAnew, ItemOf
    <2> QED BY <1>2, <1>5, <1>7, <2>3, <2>4 DEF IsClear, FileOf
  <1>13. DistinctFiles'
    <2> SUFFICES ASSUME NEW c \in Cases, NEW x \in InUse(c)', NEW m \in InUse(c)', m # x
                 PROVE  FileOf(m) # FileOf(x)
      BY DEF DistinctFiles, FileOf, UploadOf
    <2>1. CASE c # k.case
      BY <1>a, <1>10, <2>1 DEF DistinctFiles
    <2>2. CASE c = k.case
      BY <1>a, <1>11, <1>12, <2>2 DEF DistinctFiles
    <2> QED BY <2>1, <2>2
  <1>14. EntriesTrue'
    <2> SUFFICES ASSUME NEW c \in Cases, NEW i \in DOMAIN ledger'[c]
                 PROVE  /\ ledger'[c][i].expected = i - 1
                        /\ ledger'[c][i].action = "REGISTER_EVIDENCE" =>
                             \E x \in Uploads : /\ ledger'[c][i].id = <<"upload", x.id>>
                                                /\ ledger'[c][i].content = stored[x] /\ IsStored(x)
      BY <1>b DEF EntriesTrue, IsStored
    <2>1. CASE c # k.case
      BY <1>a, <1>3, <2>1, LedgerGrows DEF EntriesTrue
    <2>2. CASE c = k.case /\ i \in 1 .. Revision(c)
      <3>1. ledger'[c][i] = ledger[c][i] /\ i \in DOMAIN ledger[c]
        BY <1>3, <2>2, LedgerGrows, Lengths
      <3> QED BY <1>a, <3>1 DEF EntriesTrue
    <2>3. CASE c = k.case /\ i = Revision(c) + 1
      <3>1. ledger'[c][i] = k /\ Revision(c) \in Nat
        BY <1>3, <2>3, LedgerGrows, Lengths
      <3> QED BY <1>2, <1>4, <1>7, <2>3, <3>1
    <2>4. c = k.case => i \in 1 .. Revision(c) \/ i = Revision(c) + 1
      BY <1>3, LedgerGrows, Lengths
    <2> QED BY <2>1, <2>2, <2>3, <2>4
  <1>15. ASSUME NEW x \in Uploads
         PROVE  UploadOk(x)'
    <2>1. x.case \in Cases /\ uploads[x] \in Upload /\ Revision(x.case) \in Nat
      BY DeskAssumption, Lengths DEF DeskTyped
    <2>2. CASE x = u
      BY <1>b, <2>2 DEF UploadOk, DeskTyped
    <2>3. CASE x # u /\ x.case # k.case
      <3>1. uploads'[x] = uploads[x] /\ stored'[x] = stored[x]
        BY <1>b, <2>3 DEF DeskTyped
      <3>2. Revision(x.case)' = Revision(x.case)
        BY <1>3, <2>1, <2>3, LedgerGrows DEF Revision
      <3>3. IsClear(x)' <=> IsClear(x)
        BY <1>10, <2>1, <2>3 DEF IsClear
      <3> QED BY <1>a, <3>1, <3>2, <3>3 DEF UploadOk, IsStored
    <2>4. CASE x # u /\ x.case = k.case
      <3>1. uploads'[x] = uploads[x] /\ stored'[x] = stored[x]
        BY <1>b, <2>4 DEF DeskTyped
      <3>2. Revision(x.case)' = Revision(x.case) + 1
        BY <1>3, <2>4, LedgerGrows DEF Revision
      <3>3. uploads[x] # Idle => uploads[x].expected <= Revision(x.case) /\ uploads[x].expected \in Nat
        BY <1>a, <2>1 DEF UploadOk, Upload
      <3>4. uploads[x] # Idle => uploads[x].expected # Revision(x.case)' /\ uploads[x].expected <= Revision(x.case)'
        BY <2>1, <3>2, <3>3
      <3> QED BY <1>a, <3>1, <3>4 DEF UploadOk, IsStored
    <2> QED BY <2>2, <2>3, <2>4
  <1>16. \A x \in Uploads : (stored[x] = NoObject \/ IsStored(x))'
    BY <1>a, <1>b DEF IsStored
  <1> QED BY <1>13, <1>14, <1>15, <1>16 DEF FilesOk

LEMMA Checks == \A f : ContentChecks(f) \subseteq Check
  <1>1. \A x, f : Assess(x, f) \in Assessments
    BY DEF Assess, Assessments
  <1> QED BY <1>1 DEF ContentChecks, Check, Assessments

LEMMA FileStepKeeps ==
  ASSUME DeskTyped, FilesOk, FileStep, UNCHANGED ledger
  PROVE  FilesOk'
  <1>a. EntriesTrue /\ DistinctFiles /\ \A x \in Uploads : (stored[x] = NoObject \/ IsStored(x)) /\ UploadOk(x)
    BY DEF FilesOk
  <1>b. \A c : Revision(c)' = Revision(c) /\ InUse(c)' = InUse(c)
    BY DEF Revision, InUse, Registered, Entries
  <1>c. \A x : IsClear(x)' <=> IsClear(x)
    BY <1>b DEF IsClear
  <1>d. DistinctFiles'
    BY <1>a, <1>b DEF DistinctFiles
  <1>e. uploads \in [Uploads -> Upload] /\ DOMAIN stored = Uploads /\ objects \in Nat
    BY DEF DeskTyped
  <1>1. ASSUME UNCHANGED stored, \A x \in Uploads : uploads'[x] = uploads[x] \/ UploadOk(x)'
        PROVE  FilesOk'
    <2>1. EntriesTrue'
      BY <1>a, <1>1 DEF EntriesTrue, IsStored
    <2>2. \A x \in Uploads : UploadOk(x)'
      BY <1>a, <1>b, <1>c, <1>1 DEF UploadOk, IsStored
    <2> QED BY <1>a, <1>d, <1>1, <2>1, <2>2 DEF FilesOk, IsStored
  <1>2. ASSUME NEW u \in Uploads, NEW expected \in 1 .. MaxRevision, BeginUpload(u, expected)
        PROVE  FilesOk'
    <2>1. PICK y : y = [phase |-> "store", expected |-> expected,
                        clear |-> \A k \in InUse(u.case) :
                                    UploadOf(k) = u \/ FileOf(k) # u.file \/ ReadAnew(u, k)]
      OBVIOUS
    <2>2. y.phase = "store" /\ y.expected = expected /\ (y.clear <=> IsClear(u))
      BY <2>1 DEF IsClear
    <2>3. /\ expected \in 1 .. Revision(u.case) /\ uploads' = [uploads EXCEPT ![u] = y]
          /\ UNCHANGED stored
      BY <1>2, <2>1 DEF BeginUpload
    <2>4. uploads'[u] = y /\ \A x \in Uploads : x # u => uploads'[x] = uploads[x]
      BY <1>e, <2>3
    <2>5. UploadOk(u)'
      BY <1>b, <1>c, <2>2, <2>3, <2>4 DEF UploadOk
    <2> QED BY <1>1, <2>3, <2>4, <2>5
  <1>3. ASSUME NEW u \in Uploads, UploadEnds(u)
        PROVE  FilesOk'
    <2>1. uploads' = [uploads EXCEPT ![u] = Idle] /\ UNCHANGED stored
      BY <1>3 DEF UploadEnds, EndUpload
    <2>2. UploadOk(u)'
      BY <1>e, <2>1 DEF UploadOk
    <2> QED BY <1>1, <1>e, <2>1, <2>2
  <1>4. ASSUME NEW u \in Uploads, StoreFile(u)
        PROVE  FilesOk'
    <2>1. IsStored(u)' /\ \A x \in Uploads : stored'[x] = stored[x] \/ (x = u /\ stored[u] = NoObject)
      <3>1. CASE stored[u] = NoObject
        <4>1. PICK check \in ContentChecks(u.file) :
                stored' = [stored EXCEPT ![u] = [object |-> objects + 1, check |-> check,
                                                 expected |-> uploads[u].expected]]
          BY <1>4, <3>1 DEF StoreFile, StoredOnce
        <4>2. check \in Check /\ objects + 1 \in Nat /\ uploads[u].expected \in Nat
          <5>1. uploads[u] \in Upload /\ uploads[u].phase = "store"
            BY <1>4, <1>e DEF StoreFile
          <5> QED BY <1>e, <4>1, <5>1, Checks DEF Upload, Idle
        <4>3. [object |-> objects + 1, check |-> check, expected |-> uploads[u].expected]
                \in [object : Nat, check : Check, expected : Nat]
          BY <4>2
        <4> QED BY <1>e, <3>1, <4>1, <4>3 DEF IsStored
      <3>2. CASE stored[u] # NoObject
        BY <1>4, <1>a, <3>2 DEF StoreFile, StoredOnce, IsStored
      <3> QED BY <3>1, <3>2
    <2>2. \A x \in Uploads : IsStored(x) => stored'[x] = stored[x] /\ IsStored(x)'
      BY <2>1, DeskAssumption DEF IsStored
    <2>3. EntriesTrue'
      BY <1>a, <2>2 DEF EntriesTrue
    <2>4. ASSUME NEW x \in Uploads
          PROVE  UploadOk(x)'
      <3>1. CASE x # u
        <4>1. uploads'[x] = uploads[x]
          BY <1>4, <1>e, <3>1 DEF StoreFile
        <4> QED BY <1>a, <1>b, <1>c, <2>2, <4>1 DEF UploadOk
      <3>2. CASE x = u /\ uploads[u].clear
        <4>1. uploads[u] \in Upload /\ uploads[u].phase = "store" /\ uploads[u] # Idle
          BY <1>4, <1>e DEF StoreFile, Idle
        <4>2. uploads'[u] = [uploads[u] EXCEPT !.phase = "register"]
          BY <1>4, <1>e, <3>2 DEF StoreFile
        <4>3. uploads'[u].expected = uploads[u].expected /\ uploads'[u].clear = uploads[u].clear
          BY <4>1, <4>2 DEF Upload, Idle
        <4>4. uploads[u].expected <= Revision(u.case) /\ (uploads[u].expected = Revision(u.case) => IsClear(u))
          BY <1>a, <3>2, <4>1 DEF UploadOk
        <4> QED BY <1>b, <1>c, <2>1, <3>2, <4>3, <4>4 DEF UploadOk
      <3>3. CASE x = u /\ ~uploads[u].clear
        BY <1>4, <1>e, <3>3 DEF StoreFile, UploadOk
      <3> QED BY <3>1, <3>2, <3>3
    <2>5. \A x \in Uploads : (stored[x] = NoObject \/ IsStored(x))'
      BY <1>a, <2>1, <2>2
    <2> QED BY <1>d, <2>3, <2>4, <2>5 DEF FilesOk
  <1> QED BY <1>2, <1>3, <1>4 DEF FileStep

LEMMA FilesStep ==
  ASSUME DeskTyped, FilesOk, Step
  PROVE  FilesOk'
  <1>1. CASE UNCHANGED <<ledger, uploads, stored>>
    BY <1>1 DEF FilesOk, EntriesTrue, DistinctFiles, UploadOk, IsStored, IsClear, InUse, Registered,
         Entries, Revision
  <1>2. ASSUME NEW c \in Cases, NEW a \in Triggers, OtherStep(c, a)
        PROVE  FilesOk'
    <2>1. PICK k : k = OtherCommand(c, a)
      OBVIOUS
    <2>2. k.case = c /\ k.action = a /\ k.expected = Revision(c) /\ Executed(k)
      BY <1>2, <2>1 DEF OtherStep, OtherWork, OtherCommand
    <2>3. UNCHANGED <<uploads, stored>> /\ a # "REGISTER_EVIDENCE"
      BY <1>2 DEF OtherStep, deskVars
    <2> QED BY <2>2, <2>3, OtherCommandFiles
  <1>3. ASSUME NEW u \in Uploads, FileStepDone(u)
        PROVE  FilesOk'
    BY <1>3, FileRegistered
  <1>4. CASE DeskStep
    <2>1. CASE FileStep
      BY <1>4, <2>1, FileStepKeeps DEF DeskStep
    <2>2. CASE StaffStep \/ ScanStep \/ TimePasses
      BY <1>1, <1>4, <2>2 DEF DeskStep, StaffStep, Ask, MarkRead, ScanStep, ScanHandoff, Remind,
           Escalate, HandOver, TimePasses
    <2> QED BY <1>4, <2>1, <2>2 DEF DeskStep
  <1>5. ASSUME NEW c \in Cases, RepeatStep(c) \/ UserRun(c)
        PROVE  FilesOk'
    BY <1>1, <1>5 DEF RepeatStep, UserRun, deskVars
  <1>6. ASSUME NEW o \in Observers, ObserverStep(o)
        PROVE  FilesOk'
    BY <1>1, <1>6 DEF ObserverStep, ReadAgain, CopyNotice, Observe, ScheduleChange, deskVars
  <1>7. ASSUME NEW w \in Pool, WorkerStep(w)
        PROVE  FilesOk'
    BY <1>1, <1>7 DEF WorkerStep, Start, Pop, Look, Again, Converse, Answered, SaveTalk, Publish, deskVars
  <1>8. CASE RestartStep
    <2>1. UNCHANGED <<ledger, stored>> /\ uploads' = [u \in Uploads |-> Idle]
      BY <1>8 DEF RestartStep
    <2>2. \A u \in Uploads : UploadOk(u)'
      BY <2>1 DEF UploadOk
    <2> QED BY <2>1, <2>2 DEF FilesOk, EntriesTrue, DistinctFiles, IsStored, InUse, Registered, Entries
  <1>9. ASSUME NEW q \in Requests, AskStep(q)
        PROVE  FilesOk'
    BY <1>1, <1>9 DEF AskStep, Question, QuestionStep, LookUp, Consult, Consulted, SaveReply,
         PublishReply, HandToStaff, deskVars
  <1> QED BY <1>1, <1>2, <1>3, <1>4, <1>5, <1>6, <1>7, <1>8, <1>9 DEF Step, deskVars

-----------------------------------------------------------------------------
(* The invariant, and the properties.                                      *)

LEMMA DeskInit0 == Init => DeskInv
  <1> SUFFICES ASSUME Init PROVE DeskInv
    OBVIOUS
  <1>1. IsSeq(<<>>) /\ DOMAIN <<>> = {} /\ Len(<<>>) = 0
    BY EmptySeq DEF IsSeq
  <1>2. DeskTyped
    BY <1>1 DEF Init, EngineInit, DeskInit, AgentInit, QuestionInit, DeskTyped, Upload, Task, Drain,
         Asker
  <1>3. HandoffsOk
    BY <1>1 DEF Init, DeskInit, HandoffsOk, Idle
  <1>4. FilesOk
    BY <1>1 DEF Init, EngineInit, DeskInit, FilesOk, EntriesTrue, DistinctFiles, UploadOk, InUse,
         Registered, Entries
  <1>5. NoticesOk
    BY <1>1 DEF Init, EngineInit, DeskInit, AgentInit, NoticesOk, NoticeTrail, ObserversOk, ReaderOk,
         NoticesInOrder, Idle, Copied
  <1>6. AnswersOk
    BY <1>1 DEF Init, DeskInit, AgentInit, AnswersOk, DrainsOk, AnswerTrail, WorkOk, AnalysedOnce, Idle
  <1>7. QuestionsOk
    BY <1>1 DEF Init, DeskInit, QuestionInit, QuestionsOk, ThreadOk, RepliesOk
  <1> QED BY <1>2, <1>3, <1>4, <1>5, <1>6, <1>7 DEF DeskInv

LEMMA DeskNext == DeskInv /\ [Next]_vars => DeskInv'
  BY Steps, TypedStep, JournalMoves, HandoffsStep, FilesStep, TrailStep, ObserversStep, AnswersStep,
     QuestionsStep DEF DeskInv, NoticesOk

(* What the invariant says holds of every state: threads and sequences are *)
(* well formed; a handoff is escalated once and a file in use once; an     *)
(* observer, a worker and the thread of a question each know enough of the *)
(* journal for what they will yet write to it.                             *)
THEOREM DeskKept == Spec => []DeskInv
  BY DeskInit0, DeskNext, PTL DEF Spec

LEMMA OnceEscalated == DeskInv => EscalatedOnce
  <1> SUFFICES ASSUME DeskInv, NEW c \in Cases, NEW i \in Escalations(c), NEW k \in Escalations(c),
                      journal[c][i].handoff = journal[c][k].handoff
               PROVE  i = k
    BY DEF EscalatedOnce
  <1>1. DeskTyped /\ HandoffsOk
    BY DEF DeskInv
  <1>2. Len(journal[c]) \in Nat /\ DOMAIN journal[c] = 1 .. Len(journal[c])
    BY <1>1, Lengths
  <1>3. ASSUME NEW m \in Escalations(c)
        PROVE  /\ m \in DOMAIN journal[c] /\ journal[c][m].kind = "HANDOFF"
               /\ journal[c][m].act = "ESCALATE" /\ RaisedAfter(c, m)
    BY <1>1, <1>3 DEF Escalations, HandoffsOk
  <1>4. ~(i < k) /\ ~(k < i)
    BY <1>2, <1>3 DEF RaisedAfter
  <1> QED BY <1>2, <1>3, <1>4

(* EscalatedOnce: the scan escalates a handoff once, though it reads the   *)
(* handoff in one transaction, writes it in another, and keys its command  *)
(* by a follow-up that people move in between.                             *)
THEOREM HandoffsEscalatedOnce == Spec => []EscalatedOnce
  BY DeskKept, OnceEscalated, PTL

LEMMA OnceInUse == DeskInv => FilesOnce
  <1> SUFFICES ASSUME DeskInv, NEW c \in Cases
               PROVE  /\ \A k \in Registered(c) : stored[UploadOf(k)] = k.content
                      /\ \A k, m \in InUse(c) : m # k => FileOf(m) # FileOf(k)
    BY DEF FilesOnce
  <1>1. DeskTyped /\ EntriesTrue /\ DistinctFiles
    BY DEF DeskInv, FilesOk
  <1>2. ASSUME NEW k \in Registered(c)
        PROVE  stored[UploadOf(k)] = k.content
    BY <1>1, <1>2, RegisteredEntry
  <1> QED BY <1>1, <1>2 DEF DistinctFiles

(* FilesOnce: the file a client sends is in use once, whatever is retried, *)
(* cut off or sent at the same time: the check for another copy is made    *)
(* long before the file is registered, and only the revision it was made   *)
(* at guards it.                                                           *)
THEOREM FilesInUseOnce == Spec => []FilesOnce
  BY DeskKept, OnceInUse, PTL

LEMMA InOrder == DeskInv => NoticesInOrder
  BY DEF DeskInv, NoticesOk, NoticeTrail

(* NoticesInOrder: observers of one case run in any order after their      *)
(* commits, and may be lost. The journal has each notice and each feedback *)
(* of the case once; neither goes without those of its kind before it, and *)
(* no feedback without the notices up to its review.                       *)
THEOREM NoticesKeepOrder == Spec => []NoticesInOrder
  BY DeskKept, InOrder, PTL

LEMMA Advance == DeskInv => AnswersAdvance
  <1> SUFFICES ASSUME DeskInv PROVE AnswersAdvance
    OBVIOUS
  <1>1. DeskTyped /\ AnswerTrail /\ AnalysedOnce /\ RepliesOk
    BY DEF DeskInv, AnswersOk, QuestionsOk
  <1>2. DOMAIN talks \subseteq Nat
    BY <1>1, LenProperties DEF DeskTyped, IsSeq
  <1>3. AnalysesAdvance
    <2> SUFFICES ASSUME NEW c \in Cases, NEW i \in DOMAIN journal[c], NEW k \in DOMAIN journal[c],
                        NEW m \in DOMAIN talks, NEW n \in DOMAIN talks, i < k,
                        Says(journal[c][i], AnswerId(m)), Says(journal[c][k], AnswerId(n))
                 PROVE  journal[c][i].revision <= journal[c][k].revision
      BY DEF AnalysesAdvance
    <2>1. IsAnswer(journal[c][i]) /\ IsAnswer(journal[c][k])
      BY <1>2 DEF IsAnswer, Says
    <2>2. Len(journal[c]) \in Nat /\ DOMAIN journal[c] = 1 .. Len(journal[c])
      BY <1>1, Lengths
    <2> QED BY <1>1, <2>1, <2>2 DEF AnswerTrail
  <1>4. RepliesFollow
    <2> SUFFICES ASSUME NEW c \in Cases, NEW q \in Requests, NEW k \in Replies(c, q)
                 PROVE  /\ \E i \in 1 .. k - 1 :
                             Says(journal[c][i], q.id) /\ journal[c][i].revision <= journal[c][k].revision
                        /\ \A m \in Replies(c, q) : m = k
      BY DEF RepliesFollow
    <2>1. \A m \in Replies(c, q) : m \in DOMAIN journal[c] /\ IsReply(journal[c][m], q.id)
      BY <1>2 DEF Replies, IsReply
    <2>2. Len(journal[c]) \in Nat /\ DOMAIN journal[c] = 1 .. Len(journal[c])
      BY <1>1, Lengths
    <2>3. PICK i \in DOMAIN journal[c] :
            /\ i < k /\ Says(journal[c][i], q.id)
            /\ journal[c][i].revision \in 0 .. journal[c][k].revision
      BY <1>1, <2>1 DEF RepliesOk, AskedBy
    <2>4. i \in 1 .. k - 1 /\ journal[c][i].revision <= journal[c][k].revision
      BY <2>1, <2>2, <2>3
    <2>5. \A m \in Replies(c, q) : m = k
      BY <1>1, <2>1 DEF RepliesOk
    <2> QED BY <2>3, <2>4, <2>5
  <1> QED BY <1>1, <1>3, <1>4 DEF AnswersAdvance

(* AnswersAdvance: drains, users, questions and restarts interleave. No    *)
(* analysis of the pool follows one about a newer revision, a revision is  *)
(* analysed again only because a user asks, and a question has one reply,  *)
(* below it and about no older revision than the question tells.           *)
THEOREM AnswersKeepAdvancing == Spec => []AnswersAdvance
  BY DeskKept, Advance, PTL
=============================================================================
