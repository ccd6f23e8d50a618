---------------------------- MODULE ContestActions ----------------------------
(***************************************************************************)
(* The commands that carry a case from its rule to an answer given upstream: *)
(* rule, merchant decision, evidence, review, package, final approval,       *)
(* submission, and the acceptance path.  Each action is one command as       *)
(* DisputeService.execute commits it: the gate of dispute_actions.py, the    *)
(* handler _on_<command>, and the audit entry package_preparers reads.       *)
(***************************************************************************)
EXTENDS CaseState

EvidenceStates ==
  {"EVIDENCE_COLLECTING", "MERCHANT_REVISION_REQUIRED", "OP_REVIEW",
   "READY_TO_SUBMIT", "SUBMISSION_PENDING_CONFIRMATION",
   "DOCUMENT_REVISION_REQUIRED"}

PublishStates ==
  {"RECEIVED", "TRIAGED", "MERCHANT_ACTION_REQUIRED", "EVIDENCE_COLLECTING",
   "MERCHANT_REVISION_REQUIRED"}

DecisionStates ==
  {"MERCHANT_ACTION_REQUIRED", "EVIDENCE_COLLECTING",
   "MERCHANT_REVISION_REQUIRED", "ACCEPT_RECOMMENDATION",
   "RESPONSE_REVIEW_REQUIRED"}

RuleStates ==
  {"RECEIVED", "TRIAGED", "MERCHANT_ACTION_REQUIRED", "EVIDENCE_COLLECTING",
   "MERCHANT_REVISION_REQUIRED", "OP_REVIEW", "READY_TO_SUBMIT",
   "SUBMISSION_PENDING_CONFIRMATION", "RESPONSE_REVIEW_REQUIRED",
   "ACCEPT_RECOMMENDATION", "DOCUMENT_REVISION_REQUIRED", "ON_HOLD"}

ResponseStates ==
  {"RESPONSE_REVIEW_REQUIRED", "WAITING_UPSTREAM", "EVIDENCE_COLLECTING",
   "ON_HOLD", "UPSTREAM_ACTION_REQUIRED", "OP_REVIEW", "READY_TO_SUBMIT",
   "SUBMISSION_PENDING_CONFIRMATION", "MERCHANT_REVISION_REQUIRED"}

(***************************************************************************)
(* Rule and rights                                                          *)
(***************************************************************************)
\* CONFIRM_RULE: a supervisor replaces the rule and its deadlines.
ConfirmRule(a, r, c) ==
  /\ a \in Supervisors
  /\ work \in RuleStates
  /\ r.verified /\ r.allowed # {}
  /\ "CONTEST" \in r.allowed => r.required # {}
  /\ Invalidate
  /\ rule' = r
  /\ clock' = c
  /\ LET lost == decision = "CONTEST" /\ "CONTEST" \notin r.allowed
         ts   == Done(InvalidatedTasks,
                      {"RULE_CONFIRMATION", "EVIDENCE", "REVISION", "DECISION"},
                      stage)
     IN /\ eligibility' = IF lost THEN "REQUIRES_RECONFIRMATION"
                                  ELSE "CONFIRMED"
        /\ work' = CASE lost -> "RESPONSE_REVIEW_REQUIRED"
                     [] decision = "NONE" -> "TRIAGED"
                     [] decision = "CONTEST" /\ ~lost -> "EVIDENCE_COLLECTING"
                     [] OTHER -> work
        /\ tasks' = CASE lost -> Todo(ts, "RESPONSE_RIGHTS", stage)
                      [] decision = "CONTEST" /\ ~lost ->
                           Todo(ts, "EVIDENCE", stage)
                      [] OTHER -> ts
  /\ UNCHANGED <<stage, decision, auth, evidence, peopleVars, channelVars,
                 eventVars, moneyVars>>

\* PUBLISH_TASK: staff ask the merchant to decide, or to give evidence.
PublishTask(a) ==
  /\ a \in Staff
  /\ RuleReady
  /\ work \in PublishStates
  /\ rule.allowed # {}
  /\ IF decision = "CONTEST"
       THEN /\ tasks' = Todo(tasks, "EVIDENCE", stage)
            /\ UNCHANGED work
       ELSE /\ tasks' = Todo(tasks, "DECISION", stage)
            /\ work' = "MERCHANT_ACTION_REQUIRED"
  /\ preparers' = preparers \union {a}
  /\ UNCHANGED <<rightsVars, fileVars, assigned, channelVars, eventVars,
                 moneyVars>>

\* MERCHANT_DECISION: the merchant decides, or staff record a decision.
MerchantDecide(a, d) ==
  /\ a \in People
  /\ auth < MaxDecisions
  /\ RuleReady
  /\ work \in DecisionStates
  /\ a \in Merchants => d \in {"ACCEPT", "CONTEST"}
  /\ \/ d \in {"ACCEPT", "AUTHORIZED_WAIVER"} /\ "ACCEPT" \in rule.allowed
     \/ /\ d = "CONTEST" /\ "CONTEST" \in rule.allowed
        /\ eligibility = "CONFIRMED" /\ clock # "EXPIRED"
     \/ d = "NO_RESPONSE" /\ decision = "NONE" /\ clock \in {"LATE", "EXPIRED"}
  /\ Invalidate
  /\ decision' = d
  /\ auth' = auth + 1
  /\ eligibility' = IF d \in {"ACCEPT", "AUTHORIZED_WAIVER"}
                      THEN "CONFIRMED" ELSE eligibility
  /\ LET ts == Done(InvalidatedTasks,
                    {"DECISION", "ACCEPT_DECISION", "EVIDENCE", "REVISION"},
                    stage)
     IN CASE d = "CONTEST" ->
               /\ work' = "EVIDENCE_COLLECTING"
               /\ tasks' = Todo(ts, "EVIDENCE", stage)
          [] d = "NO_RESPONSE" ->
               /\ work' = "RESPONSE_REVIEW_REQUIRED"
               /\ tasks' = Todo(ts, "RESPONSE_RIGHTS", stage)
          [] OTHER ->
               /\ work' = "ACCEPT_PROCESSING"
               /\ tasks' = Todo(Done(ts, {"RESPONSE_RIGHTS"}, stage),
                                "ACCEPT_PROCESSING", stage)
  /\ UNCHANGED <<stage, rule, clock, evidence, peopleVars, channelVars,
                 eventVars, moneyVars>>

RightsTasks ==
  {"RESPONSE_RIGHTS", "SLA_ESCALATION", "EVIDENCE_OVERDUE", "ESCALATION_HOLD"}

\* A slip: the decision alone is taken for the right.
DecisionStands == decision = "CONTEST"

\* RESTORE_EVIDENCE restores a contest decided before, if the rule has it.
ContestStands == decision = "CONTEST" /\ "CONTEST" \in rule.allowed

\* RESOLVE_RESPONSE, RESTORE_*: rights remain (until a deadline still ahead).
RestoreRights(a, resolution) ==
  /\ a \in Staff
  /\ work \in ResponseStates
  /\ resolution = "RESTORE_EVIDENCE" => ContestStands
  /\ Invalidate
  /\ clock' = IF clock = "EXPIRED" THEN "LATE" ELSE clock
  /\ eligibility' = "CONFIRMED"
  /\ IF resolution = "RESTORE_DECISION"
       THEN /\ decision' = "NONE"
            /\ work' = "MERCHANT_ACTION_REQUIRED"
            /\ tasks' = Done(Todo(InvalidatedTasks, "DECISION", stage),
                             RightsTasks, stage)
       ELSE /\ UNCHANGED decision
            /\ work' = "EVIDENCE_COLLECTING"
            /\ tasks' = Done(Todo(InvalidatedTasks, "EVIDENCE", stage),
                             RightsTasks, stage)
  /\ UNCHANGED <<stage, rule, auth, evidence, peopleVars, channelVars,
                 eventVars, moneyVars>>

\* RESOLVE_RESPONSE, CONFIRM_LOSS or FOLLOW_UP: wait for the upstream.
GiveUpRights(a, resolution) ==
  /\ a \in Staff
  /\ work \in ResponseStates
  /\ work' = "WAITING_UPSTREAM"
  /\ eligibility' = IF resolution = "CONFIRM_LOSS" THEN "RIGHTS_LOST"
                                                   ELSE "REQUIRES_RECONFIRMATION"
  /\ tasks' = Done(Todo(tasks, "UPSTREAM_FOLLOWUP", stage), RightsTasks, stage)
  /\ UNCHANGED <<stage, decision, rule, clock, auth, fileVars, peopleVars,
                 channelVars, eventVars, moneyVars>>

(***************************************************************************)
(* Evidence                                                                 *)
(***************************************************************************)
\* What every change of the evidence does once its own checks passed.
ChangeEvidence(a, ev) ==
  /\ Invalidate
  /\ evidence' = ev
  /\ work' = "EVIDENCE_COLLECTING"
  /\ tasks' = Todo(SyncContentReview(InvalidatedTasks, ev), "EVIDENCE", stage)
  /\ preparers' = preparers \union {a}
  /\ UNCHANGED <<rightsVars, assigned, channelVars, eventVars, moneyVars>>

\* REGISTER_EVIDENCE: a new item or a revision; u uploaded the file.
RegisterEvidence(a, u, i, c, result) ==
  /\ a \in People /\ u \in People
  /\ ContestReady /\ work \in EvidenceStates
  /\ ChangeEvidence(a, [evidence EXCEPT ![i] =
       [active |-> TRUE, stages |-> {stage}, code |-> c, auto |-> result,
        content |-> result, by |-> u]])

\* REVIEW_EVIDENCE_CONTENT: someone else reads a file the check left open.
ReviewContent(a, i, verdict) ==
  /\ a \in Staff
  /\ ContestReady /\ work \in EvidenceStates
  /\ i \in Applicable(evidence, stage)
  /\ evidence[i].auto = "NEEDS_MANUAL" /\ evidence[i].by # a
  /\ ChangeEvidence(a, [evidence EXCEPT ![i].content = verdict])

\* WITHDRAW_EVIDENCE
WithdrawEvidence(a, i) ==
  /\ a \in People
  /\ ContestReady /\ work \in EvidenceStates
  /\ evidence[i].active
  /\ ChangeEvidence(a, [evidence EXCEPT ![i].active = FALSE])

\* REUSE_EVIDENCE: staff declare items of earlier stages applicable.
ReuseEvidence(a, items) ==
  /\ a \in Staff
  /\ stage >= 2
  /\ work \in PublishStates
  /\ items # {} /\ \A i \in items : evidence[i].active
  /\ Invalidate
  /\ evidence' = [i \in Items |->
       IF i \in items
         THEN [evidence[i] EXCEPT !.stages = @ \union {stage}]
         ELSE evidence[i]]
  /\ work' = IF decision = "CONTEST" THEN "EVIDENCE_COLLECTING" ELSE work
  /\ tasks' = Done(InvalidatedTasks, {"EVIDENCE_APPLICABILITY"}, stage)
  /\ UNCHANGED <<rightsVars, peopleVars, channelVars, eventVars, moneyVars>>

\* SUBMIT_EVIDENCE: hand the complete, checked evidence over for review.
SubmitEvidence(a) ==
  /\ a \in People
  /\ ContestReady
  /\ work \in {"EVIDENCE_COLLECTING", "MERCHANT_REVISION_REQUIRED"}
  /\ EvidenceReady
  /\ work' = "OP_REVIEW"
  /\ tasks' = Todo(Done(tasks, {"EVIDENCE", "REVISION", "EVIDENCE_OVERDUE"},
                        stage), "OP_REVIEW", stage)
  /\ preparers' = preparers \union {a}
  /\ UNCHANGED <<rightsVars, fileVars, assigned, channelVars, eventVars,
                 moneyVars>>

\* REVIEW
Review(a, verdict) ==
  /\ a \in Staff
  /\ ContestReady /\ work = "OP_REVIEW"
  /\ \/ /\ verdict = "PASS" /\ EvidenceReady
        /\ work' = "READY_TO_SUBMIT"
        /\ reviewer' = a
        /\ tasks' = Done(tasks, {"OP_REVIEW"}, stage)
     \/ /\ verdict = "REVISION"
        /\ work' = "MERCHANT_REVISION_REQUIRED"
        /\ tasks' = Done(Todo(tasks, "REVISION", stage), {"OP_REVIEW"}, stage)
        /\ UNCHANGED reviewer
     \/ /\ verdict = "ACCEPT"
        /\ work' = "ACCEPT_RECOMMENDATION"
        /\ tasks' = Done(Todo(tasks, "ACCEPT_DECISION", stage), {"OP_REVIEW"},
                         stage)
        /\ UNCHANGED reviewer
  /\ preparers' = preparers \union {a}
  /\ UNCHANGED <<rightsVars, version, evidence, packages, assigned,
                 channelVars, eventVars, moneyVars>>
=============================================================================
