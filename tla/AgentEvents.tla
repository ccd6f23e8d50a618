---------------------------- MODULE AgentEvents ----------------------------
(***************************************************************************)
(* What follows a committed command, outside its transaction               *)
(* (DisputeService.execute and DisputeAgentEvents): the thread that ran it *)
(* reads the case again, copies its public notices to the journal, saves   *)
(* the deterministic run of the revision and schedules a model analysis if *)
(* the change is a critical one. A pool analyses case after case, one      *)
(* revision at a time, and publishes the answer in the journal if the case *)
(* has not moved. Queue and threads are in memory. A model that fails      *)
(* falls back to a deterministic answer; databases answer.                 *)
(***************************************************************************)
EXTENDS Collaboration

CONSTANTS Observers,   \* threads that execute commands
          Pool,        \* the workers of the pool
          Critical,    \* the actions worth an analysis
          Noticed,     \* the actions that leave a public notice on the case
          Feedback,    \* the actions that leave a review with public feedback
          NoJob

(* People's clients draw their command identifiers at random, and none is a *)
(* key under which the program posts.                                       *)
Tags == {"notice", "feedback", "answer", "reply"}

ASSUME AgentAssumption == \A q \in Requests : q.id[1] \notin Tags

VARIABLES observers,   \* where each thread is after its commit
          runs,        \* the revisions of each case that were observed
          pending,     \* the analysis that waits, per case
          running,     \* the cases somebody is analysing
          attempted,   \* the newest revision tried, per case
          submitted,   \* the calls of _drain the pool has not begun
          drains,      \* where each worker of the pool is
          talks,       \* the conversations saved: [case, revision, by]
          restarted    \* whether the process was restarted

agentVars == <<observers, runs, pending, running, attempted, submitted, drains, talks, restarted>>
memory == <<pending, running, attempted, submitted, drains>>

AgentInit ==
  /\ observers = [o \in Observers |-> Idle]
  /\ pending = [c \in Cases |-> NoJob] /\ running = {}
  /\ attempted = [c \in Cases |-> 0] /\ submitted = [c \in Cases |-> 0]
  /\ drains = [w \in Pool |-> Idle]
  /\ runs = [c \in Cases |-> {}] /\ talks = <<>> /\ restarted = FALSE

-----------------------------------------------------------------------------
(* The observing thread.                                                   *)

Begun(task) ==
  LET idle == {o \in Observers : observers[o] = Idle}
  IN  idle # {} /\ observers' = [observers EXCEPT ![CHOOSE o \in idle : TRUE] = task]

(* A command took effect, in a thread that now is to read the case again.  *)
Committed(c, a) == Begun([phase |-> "read", case |-> c, trigger |-> a])

(* One that had taken effect is answered again: the case is read again too, *)
(* and nothing is scheduled.                                               *)
Repetition(c) == Revision(c) > 0 /\ Committed(c, "REPLAYED")

(* What observe_business copies: <<"notice", r>> is what the command of     *)
(* revision r left in the collaboration of the case, <<"feedback", r>> the  *)
(* feedback of its review.                                                 *)
Public(c, upto) ==
  {<<"notice", r>> : r \in {r \in 1 .. upto : ledger[c][r].action \in Noticed}}
  \cup {<<"feedback", r>> : r \in {r \in 1 .. upto : ledger[c][r].action \in Feedback}}

NewestOnly(c) ==   \* slip: only what the newest command left is copied
  {x \in Public(c, Revision(c)) : x[2] = Revision(c)}

ToCopy(c) == Public(c, Revision(c))

ReadAgain(o) ==
  /\ observers[o].phase = "read"
  /\ observers' = [observers EXCEPT ![o] =
       [phase |-> "copy", case |-> @.case, trigger |-> @.trigger,
        revision |-> Revision(@.case), left |-> ToCopy(@.case)]]
  /\ UNCHANGED <<ledger, deskVars, runs, memory, talks, restarted>>

NoticeId(c, x) == <<x[1], c, x[2]>>

(* All the notices first, and then all the feedback.                       *)
Sooner(x, y) ==
  \/ x[1] = "notice" /\ y[1] = "feedback"
  \/ x[1] = y[1] /\ x[2] < y[2]

(* observe_business: each in a transaction of its own.                     *)
CopyNotice(o) ==
  LET v == observers[o]
  IN  /\ v.phase = "copy"
      /\ \E x \in v.left :
           /\ \A y \in v.left : ~Sooner(y, x)
           /\ Write(NoticeId(v.case, x), v.case, Message(NoticeId(v.case, x), v.revision))
           /\ observers' = [observers EXCEPT ![o].left = @ \ {x}]
      /\ UNCHANGED <<ledger, cursors, stored, objects, uploads, scan, now, runs, memory, talks,
                     restarted>>

(* observe: refused if the case moved since it was read; then no schedule. *)
Observe(o) ==
  LET v == observers[o]
  IN  /\ v.phase = "copy" /\ v.left = {}
      /\ IF v.revision = Revision(v.case)
         THEN /\ runs' = [runs EXCEPT ![v.case] = @ \cup {v.revision}]
              /\ observers' = [observers EXCEPT ![o] =
                   IF v.trigger = "REPLAYED" THEN Idle
                   ELSE [phase |-> "schedule", case |-> v.case, trigger |-> v.trigger,
                         revision |-> v.revision]]
         ELSE observers' = [observers EXCEPT ![o] = Idle] /\ UNCHANGED runs
      /\ UNCHANGED <<ledger, deskVars, memory, talks, restarted>>

-----------------------------------------------------------------------------
(* schedule, under the lock.                                               *)

Wanted(c, r, trigger) ==
  /\ trigger \in Critical \cup {"USER_RUN"} \/ c \in running
  /\ attempted[c] < r \/ trigger = "USER_RUN"
  /\ pending[c] = NoJob \/ pending[c].revision < r

AlwaysSubmits(c) ==      \* slip: a running analysis does not keep another from being started
  running' = running \cup {c} /\ submitted' = [submitted EXCEPT ![c] = @ + 1]

Submits(c) ==
  /\ running' = running \cup {c}
  /\ submitted' = IF c \in running THEN submitted ELSE [submitted EXCEPT ![c] = @ + 1]

Schedule(c, r, trigger) ==
  IF Wanted(c, r, trigger)
  THEN /\ pending' = [pending EXCEPT ![c] = [revision |-> r, trigger |-> trigger]]
       /\ Submits(c)
  ELSE UNCHANGED <<pending, running, submitted>>

ScheduleChange(o) ==
  LET v == observers[o]
  IN  /\ v.phase = "schedule" /\ Schedule(v.case, v.revision, v.trigger)
      /\ observers' = [observers EXCEPT ![o] = Idle]
      /\ UNCHANGED <<ledger, deskVars, runs, attempted, drains, talks, restarted>>

(* A user asks for an analysis: the case is observed, and scheduled later  *)
(* by the thread of the request.                                           *)
UserRun(c) ==
  /\ Revision(c) > 0
  /\ runs' = [runs EXCEPT ![c] = @ \cup {Revision(c)}]
  /\ Begun([phase |-> "schedule", case |-> c, trigger |-> "USER_RUN", revision |-> Revision(c)])
  /\ UNCHANGED <<ledger, deskVars, memory, talks, restarted>>

-----------------------------------------------------------------------------
(* _drain, in a worker of the pool.                                        *)

Start(w, c) ==
  /\ submitted[c] > 0 /\ drains[w] = Idle
  /\ w = CHOOSE x \in Pool : drains[x] = Idle
  /\ submitted' = [submitted EXCEPT ![c] = @ - 1]
  /\ drains' = [drains EXCEPT ![w] = [phase |-> "pop", case |-> c]]
  /\ UNCHANGED <<ledger, deskVars, observers, runs, pending, running, attempted, talks, restarted>>

At(w, phase) == drains' = [drains EXCEPT ![w].phase = phase]

LeftRunning(c) == running     \* slip: the case is not taken off the running ones

NotRunning(c) == running \ {c}

(* Under the lock: the next revision to try, or nothing is running now.    *)
Pop(w) ==
  LET c == drains[w].case
  IN  /\ drains[w].phase = "pop"
      /\ IF pending[c] = NoJob
         THEN /\ running' = NotRunning(c)
              /\ drains' = [drains EXCEPT ![w] = Idle]
              /\ UNCHANGED <<pending, attempted>>
         ELSE /\ pending' = [pending EXCEPT ![c] = NoJob]
              /\ attempted' = [attempted EXCEPT ![c] = pending[c].revision]
              /\ drains' = [drains EXCEPT ![w] =
                   [phase |-> "look", case |-> c, job |-> pending[c], seen |-> 0]]
              /\ UNCHANGED running
      /\ UNCHANGED <<ledger, deskVars, observers, runs, submitted, talks, restarted>>

Look(w) ==
  /\ drains[w].phase = "look"
  /\ drains' = [drains EXCEPT ![w].seen = Revision(drains[w].case),
                              ![w].phase = IF Revision(drains[w].case) = drains[w].job.revision
                                           THEN "ask" ELSE "again"]
  /\ UNCHANGED <<ledger, deskVars, observers, runs, pending, running, attempted, submitted, talks,
                 restarted>>

(* The case moved: the revision that was seen is scheduled instead.        *)
Again(w) ==
  LET v == drains[w]
  IN  /\ v.phase = "again" /\ Schedule(v.case, v.seen, v.job.trigger) /\ At(w, "pop")
      /\ UNCHANGED <<ledger, deskVars, observers, runs, attempted, talks, restarted>>

(* A conversation about a question is no analysis of the revision.         *)
Talked(i, c, r) == talks[i].case = c /\ talks[i].revision = r /\ talks[i].by # "question"

Analysed(c, r) == \E i \in DOMAIN talks : Talked(i, c, r)

(* An analysis of this revision is repeated only for a user; converse then *)
(* reads the case for itself, and refuses a revision that has passed.      *)
Converse(w) ==
  LET v == drains[w]
      r == v.job.revision
  IN  /\ v.phase = "ask"
      /\ IF \/ v.job.trigger # "USER_RUN" /\ Analysed(v.case, r)
            \/ Revision(v.case) # r
         THEN At(w, "pop") /\ UNCHANGED runs
         ELSE At(w, "model") /\ runs' = [runs EXCEPT ![v.case] = @ \cup {r}]
      /\ UNCHANGED <<ledger, deskVars, observers, pending, running, attempted, submitted, talks,
                     restarted>>

(* The model answered: the case must still be what it was.                 *)
Answered(w) ==
  LET v == drains[w]
  IN  /\ v.phase = "model"
      /\ At(w, IF Revision(v.case) = v.job.revision THEN "save" ELSE "pop")
      /\ UNCHANGED <<ledger, deskVars, observers, runs, pending, running, attempted, submitted,
                     talks, restarted>>

SaveTalk(w) ==
  LET v == drains[w]
  IN  /\ v.phase = "save"
      /\ talks' = Append(talks, [case |-> v.case, revision |-> v.job.revision,
                                 by |-> IF v.job.trigger = "USER_RUN" THEN "user" ELSE "event"])
      /\ drains' = [drains EXCEPT ![w].phase = "publish", ![w].seen = Len(talks')]
      /\ UNCHANGED <<ledger, deskVars, observers, runs, pending, running, attempted, submitted,
                     restarted>>

AnswerId(n) == <<"answer", n>>

(* publish_agent_answer, which does not look at the revision again.        *)
Publish(w) ==
  LET v == drains[w]
  IN  /\ v.phase = "publish" /\ At(w, "pop")
      /\ Write(AnswerId(v.seen), v.case, Message(AnswerId(v.seen), v.job.revision))
      /\ UNCHANGED <<ledger, cursors, stored, objects, uploads, scan, now, observers, runs,
                     pending, running, attempted, submitted, talks, restarted>>

(* The queue and the threads are gone.                                     *)
Forget ==
  /\ observers' = [o \in Observers |-> Idle]
  /\ pending' = [c \in Cases |-> NoJob] /\ running' = {}
  /\ attempted' = [c \in Cases |-> 0] /\ submitted' = [c \in Cases |-> 0]
  /\ drains' = [w \in Pool |-> Idle]

-----------------------------------------------------------------------------
ObserverStep(o) ==
  ReadAgain(o) \/ CopyNotice(o) \/ Observe(o) \/ ScheduleChange(o)

WorkerStep(w) ==
  \/ \E c \in Cases : Start(w, c)
  \/ Pop(w) \/ Look(w) \/ Again(w) \/ Converse(w) \/ Answered(w) \/ SaveTalk(w) \/ Publish(w)
=============================================================================
