------------------------------ MODULE CaseDesk ------------------------------
(***************************************************************************)
(* The desk of a case: the command engine, the journal of the people around*)
(* it and the agent that watches it, run by concurrent threads in one      *)
(* process that may be restarted once.                                     *)
(***************************************************************************)
EXTENDS AgentQuestions

CONSTANTS OtherActions,  \* what is done to a case, besides uploads and its closing
          Loads          \* bounds: [revisions, requests, objects, talks, observed, repeats,
                         \*          questions]

ASSUME WorkAssumption == "REGISTER_EVIDENCE" \notin OtherActions

VARIABLES closing,       \* the cases whose closing found no open handoff
          load           \* the bounds of this run, and whether an agent observes

vars == <<ledger, deskVars, agentVars, asking, closing, load>>

Asked == {q \in Requests : q.id \in receipts /\ q.action # "ASK"}
Questions == {q \in Requests : q.id \in receipts /\ q.action = "ASK"}
ReadMarks(c) == {i \in DOMAIN journal[c] : journal[c][i].kind = "READ"}

Busy == \E c \in Cases : Cardinality(Asked) + Cardinality(ReadMarks(c)) >= load.requests

Grows(c) == Revision(c) < load.revisions

Init == EngineInit /\ DeskInit /\ AgentInit /\ QuestionInit /\ closing = {} /\ load \in Loads

(* on_change, if there is one.                                             *)
Tell(c, a) == IF load.observed THEN Committed(c, a) ELSE UNCHANGED observers

-----------------------------------------------------------------------------
(* Commands. The engine's write lock is held while a case is being closed. *)

Commit(c, a) ==
  /\ closing = {} /\ Grows(c)
  /\ OtherWork(c, a) /\ Tell(c, a)
  /\ UNCHANGED <<deskVars, runs, memory, talks, restarted, asking, closing, load>>

RegisterFile(u) ==
  /\ closing = {} /\ Grows(u.case)
  /\ Register(u) /\ Tell(u.case, "REGISTER_EVIDENCE")
  /\ UNCHANGED <<runs, memory, talks, restarted, asking, closing, load>>

(* CLOSE: the open handoffs are read from the other database, and then the *)
(* command commits. Its other conditions are those of DisputeCase.         *)
BeginClose(c) ==
  /\ closing = {} /\ Revision(c) > 0 /\ ~Closed(c) /\ Grows(c)
  /\ Unresolved(c) = {} /\ closing' = {c}
  /\ UNCHANGED <<ledger, deskVars, agentVars, asking, load>>

Close(c) ==
  /\ c \in closing /\ closing' = {}
  /\ OtherWork(c, "CLOSE") /\ Tell(c, "CLOSE")
  /\ UNCHANGED <<deskVars, runs, memory, talks, restarted, asking, load>>

CloseFails ==
  closing # {} /\ closing' = {} /\ UNCHANGED <<ledger, deskVars, agentVars, asking, load>>

Repeat(c) ==
  /\ load.repeats /\ Repetition(c)
  /\ UNCHANGED <<ledger, deskVars, runs, memory, talks, restarted, asking, closing, load>>

Commands ==
  \/ \E c \in Cases : Close(c) \/ Repeat(c) \/ (\E a \in OtherActions : Commit(c, a))
  \/ \E u \in Uploads : RegisterFile(u)

-----------------------------------------------------------------------------
Desk ==
  /\ \/ ~Busy /\ StaffStep
     \/ ScanStep
     \/ load.requests > 0 /\ TimePasses
     \/ objects < load.objects /\ FileStep
  /\ UNCHANGED <<ledger, agentVars, asking, closing, load>>

Agent ==
  /\ \/ \E o \in Observers : ObserverStep(o)
     \/ \E w \in Pool : WorkerStep(w)
     \/ Len(talks) < load.talks /\ \E c \in Cases : UserRun(c)
  /\ UNCHANGED <<asking, closing, load>>

Asking ==
  /\ \E q \in Requests :
       \/ Cardinality(Questions) < load.questions /\ Question(q)
       \/ QuestionStep(q)
  /\ UNCHANGED <<closing, load>>

(* What is in memory is lost; the databases stay.                          *)
Restart ==
  /\ ~restarted /\ restarted' = TRUE
  /\ Forget /\ closing' = {} /\ scan' = Idle /\ uploads' = [u \in Uploads |-> Idle]
  /\ asking' = [q \in Requests |-> Idle]
  /\ UNCHANGED <<ledger, journal, receipts, cursors, stored, objects, now, runs, talks, load>>

Next ==
  \/ Commands
  \/ \E c \in Cases : BeginClose(c)
  \/ CloseFails
  \/ Desk
  \/ Agent
  \/ Asking
  \/ Restart

Spec == Init /\ [][Next]_vars

(* Threads go on, in the process they are in.                              *)
FairSpec ==
  /\ Spec
  /\ \A o \in Observers : WF_vars(ObserverStep(o) /\ UNCHANGED <<asking, closing, load>>)
  /\ \A w \in Pool : WF_vars(WorkerStep(w) /\ UNCHANGED <<asking, closing, load>>)

-----------------------------------------------------------------------------
Says(e, id) == e.kind = "MESSAGE" /\ e.source = id

Copied(c, x, i) == i \in DOMAIN journal[c] /\ Says(journal[c][i], NoticeId(c, x))

(* Whoever reads of y has read of x. A notice may come before the feedback *)
(* of an earlier review: observers copy all notices first.                 *)
Before(x, y) ==
  \/ x[1] = y[1] /\ x[2] < y[2]
  \/ x[1] = "notice" /\ y[1] = "feedback" /\ x[2] <= y[2]

(***************************************************************************)
(* Observers run after their commits, in any order, and may be lost; the   *)
(* journal still has each public notice and each feedback of a case once,  *)
(* notices and feedback each in the order of the case and without a gap,   *)
(* and no feedback without the notices of the case up to its review.       *)
(***************************************************************************)
NoticesInOrder ==
  \A c \in Cases :
    LET known == Public(c, Revision(c))
    IN  \A x \in known : \A i \in DOMAIN journal[c] :
          Copied(c, x, i) =>
            /\ \A k \in DOMAIN journal[c] : Copied(c, x, k) => k = i
            /\ \A y \in known : Before(y, x) => \E k \in 1 .. i - 1 : Copied(c, y, k)

(* What the pool publishes advances.                                       *)
AnalysesAdvance ==
  \A c \in Cases : \A i, k \in DOMAIN journal[c] : \A m, n \in DOMAIN talks :
    i < k /\ Says(journal[c][i], AnswerId(m)) /\ Says(journal[c][k], AnswerId(n)) =>
      journal[c][i].revision <= journal[c][k].revision

AnalysedOnce ==
  \A n \in DOMAIN talks :
    talks[n].by = "event" => \A m \in 1 .. n - 1 : ~Talked(m, talks[n].case, talks[n].revision)

Replies(c, q) ==
  {k \in DOMAIN journal[c] : \E n \in DOMAIN talks :
     Says(journal[c][k], ReplyId(n)) /\ journal[c][k].parent = q.id}

(* A reply follows its question, and is not about what was before it.      *)
RepliesFollow ==
  \A c \in Cases : \A q \in Requests : \A k \in Replies(c, q) :
    /\ \E i \in 1 .. k - 1 :
         Says(journal[c][i], q.id) /\ journal[c][i].revision <= journal[c][k].revision
    /\ \A m \in Replies(c, q) : m = k

(***************************************************************************)
(* The pool and the threads of requests write answers to the same journal, *)
(* and none looks at the revision again before it publishes. No analysis   *)
(* follows one about a newer revision, a revision is analysed again only   *)
(* because a user asks, and a question has one reply, below it and about   *)
(* no older revision. (The reply may come after an analysis of a newer one.)*)
(***************************************************************************)
AnswersAdvance == AnalysesAdvance /\ AnalysedOnce /\ RepliesFollow

(***************************************************************************)
(* The critical change that a case stopped at is analysed in the end,      *)
(* unless the process is restarted: what was in its queue is lost.         *)
(***************************************************************************)
Owed(c) ==
  /\ Revision(c) > 0 /\ ledger[c][Revision(c)].action \in Critical
  /\ ~Analysed(c, Revision(c)) /\ load.observed /\ ~restarted

LastChangeAnalysed == \A c \in Cases : []<>~Owed(c)
=============================================================================
