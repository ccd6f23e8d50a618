------------------------------- MODULE CasePlan -------------------------------
(***************************************************************************)
(* What people are told about a case: which action its gate offers to whom *)
(* (dispute_actions.py), what the plan says is next and by when            *)
(* (dispute_rules.py), and what the workflow agent makes of that: findings,*)
(* proposals, the message to the merchant, answers (dispute_agent.py).     *)
(* All of it is computed from the case and changes nothing.                *)
(***************************************************************************)
EXTENDS DisputeCase

RoleOf(a) == CASE a \in Merchants   -> "MERCHANT"
               [] a \in Operators   -> "OPERATOR"
               [] a \in Supervisors -> "SUPERVISOR"
               [] OTHER             -> "AGENT"

Business == {"OPERATOR", "SUPERVISOR"}

ActionRoles ==
  [CONFIRM_RULE |-> {"SUPERVISOR"}, PUBLISH_TASK |-> Business,
   MERCHANT_DECISION |-> Business \union {"MERCHANT"},
   REGISTER_EVIDENCE |-> Business \union {"MERCHANT"},
   REVIEW_EVIDENCE_CONTENT |-> Business,
   SUBMIT_EVIDENCE |-> Business \union {"MERCHANT"}, REVIEW |-> Business,
   BUILD_PACKAGE |-> Business \union {"AGENT"}, APPROVE_PACKAGE |-> {"SUPERVISOR"},
   FINAL_REVIEW |-> {"SUPERVISOR"}, SUBMIT |-> Business,
   PROCESS_ACCEPT |-> Business, QUERY_SUBMISSION |-> Business,
   RESOLVE_RESPONSE |-> Business, RECORD_OUTCOME |-> Business,
   VERIFY_OUTCOME |-> Business, NEXT_STAGE |-> Business, RECONCILE |-> {"SUPERVISOR"},
   NOTIFY_MERCHANT |-> Business, CLOSE |-> {"SUPERVISOR"},
   KNOWLEDGE_CANDIDATE |-> Business \union {"AGENT"}]

PlannedActions == DOMAIN ActionRoles

(***************************************************************************)
(* The gate                                                                *)
(***************************************************************************)
ContestActions_ ==
  {"REGISTER_EVIDENCE", "REVIEW_EVIDENCE_CONTENT", "SUBMIT_EVIDENCE", "REVIEW",
   "BUILD_PACKAGE", "APPROVE_PACKAGE", "FINAL_REVIEW", "SUBMIT"}

RuleActions == ContestActions_ \union {"PUBLISH_TASK", "MERCHANT_DECISION", "PROCESS_ACCEPT"}

FileActions == {"SUBMIT_EVIDENCE", "BUILD_PACKAGE", "APPROVE_PACKAGE", "SUBMIT"}

\* Where an action is possible; elsewhere it is not bound to a state.
States ==
  [CONFIRM_RULE |-> RuleStates, PUBLISH_TASK |-> PublishStates,
   MERCHANT_DECISION |-> DecisionStates, REGISTER_EVIDENCE |-> EvidenceStates,
   REVIEW_EVIDENCE_CONTENT |-> EvidenceStates,
   SUBMIT_EVIDENCE |-> {"EVIDENCE_COLLECTING", "MERCHANT_REVISION_REQUIRED"},
   REVIEW |-> {"OP_REVIEW"},
   BUILD_PACKAGE |-> {"READY_TO_SUBMIT", "DOCUMENT_REVISION_REQUIRED"},
   APPROVE_PACKAGE |-> {"SUBMISSION_PENDING_CONFIRMATION"},
   FINAL_REVIEW |-> {"SUBMISSION_PENDING_CONFIRMATION", "ON_HOLD"},
   SUBMIT |-> {"READY_TO_SUBMIT"}, VERIFY_OUTCOME |-> {"OUTCOME_VERIFICATION"},
   PROCESS_ACCEPT |-> {"ACCEPT_PROCESSING"},
   QUERY_SUBMISSION |-> {"SUBMISSION_UNCERTAIN"}, RESOLVE_RESPONSE |-> ResponseStates]

\* What somebody may decide for the merchant.
Choices(a) ==
  {d \in rule.allowed : d = "CONTEST" => eligibility = "CONFIRMED"}
  \union {d \in {"NO_RESPONSE"} : /\ a \in Staff /\ decision = "NONE"
                                  /\ clock \in {"LATE", "EXPIRED"}}
  \union {d \in {"AUTHORIZED_WAIVER"} : a \in Staff /\ "ACCEPT" \in rule.allowed}

Readable(a) == {i \in Applicable(evidence, stage) :
                  evidence[i].auto = "NEEDS_MANUAL" /\ evidence[i].by # a}

GateCodes ==
  {"FORBIDDEN", "CASE_CLOSED", "CONTEST_NOT_ELIGIBLE", "RULE_CONFIRMATION_REQUIRED",
   "NEXT_STAGE_REQUIRED", "INVALID_STATE", "CONTENT_REVIEW_NOT_REQUIRED",
   "FINALITY_REQUIRED", "REVIEWER_SEPARATION_REQUIRED", "RESPONSE_REVIEW_REQUIRED",
   "CONTENT_CHECK_REQUIRED", "MISSING_EVIDENCE", "REVIEW_REQUIRED",
   "FINAL_REVIEW_REQUIRED", "EXTERNAL_DEADLINE_EXPIRED", "NEXT_STAGE_NOT_CONFIRMED",
   "CLOSE_BLOCKED"}

Objects(code, action, a) ==
  CASE code = "FORBIDDEN" -> RoleOf(a) \notin ActionRoles[action]
    [] code = "CASE_CLOSED" -> work = "CLOSED" /\ action # "KNOWLEDGE_CANDIDATE"
    [] code = "CONTEST_NOT_ELIGIBLE" ->
         /\ action \in ContestActions_
         /\ ~(decision = "CONTEST" /\ "CONTEST" \in rule.allowed /\ eligibility = "CONFIRMED")
    [] code = "RULE_CONFIRMATION_REQUIRED" -> action \in RuleActions /\ ~rule.verified
    [] code = "NEXT_STAGE_REQUIRED" -> action \in RuleActions /\ pendingNext
    [] code = "INVALID_STATE" ->
         \/ action \in DOMAIN States /\ work \notin States[action]
         \/ action = "RECORD_OUTCOME" /\ final /\ ~reopened
    [] code = "CONTENT_REVIEW_NOT_REQUIRED" ->
         action = "REVIEW_EVIDENCE_CONTENT" /\ Readable(a) = {}
    [] code = "FINALITY_REQUIRED" -> action = "RECONCILE" /\ (~final \/ verifying)
    [] code = "REVIEWER_SEPARATION_REQUIRED" ->
         \/ action = "RECONCILE" /\ a \in recorders
         \/ action = "APPROVE_PACKAGE" /\ a \in Involved
    [] code = "RESPONSE_REVIEW_REQUIRED" -> action = "MERCHANT_DECISION" /\ Choices(a) = {}
    [] code = "CONTENT_CHECK_REQUIRED" -> action \in FileActions /\ ~ContentClear
    [] code = "MISSING_EVIDENCE" -> action \in FileActions /\ Missing # {}
    [] code = "REVIEW_REQUIRED" ->
         action \in FileActions \ {"SUBMIT_EVIDENCE"} /\ ~Reviewed
    [] code = "FINAL_REVIEW_REQUIRED" -> action = "SUBMIT" /\ ~NewestFrozen
    [] code = "EXTERNAL_DEADLINE_EXPIRED" ->
         action \in ContestActions_ \union {"PROCESS_ACCEPT"} /\ clock = "EXPIRED"
    [] code = "NEXT_STAGE_NOT_CONFIRMED" -> action = "NEXT_STAGE" /\ ~pendingNext
    [] code = "CLOSE_BLOCKED" -> action = "CLOSE" /\ ~NoBlockers

\* Why a may not do it: nothing, if the gate is open to a. (The code names the
\* first reason in the order above.)
Gate(action, a) == {code \in GateCodes : Objects(code, action, a)}

(***************************************************************************)
(* The plan                                                                *)
(***************************************************************************)
By(owner, action) == [action |-> action, owner |-> owner]

NextOf(w) ==
  CASE w = "RECEIVED"                        -> By("SUPERVISOR", "CONFIRM_RULE")
    [] w = "TRIAGED"                         -> By("OPERATOR", "PUBLISH_TASK")
    [] w \in {"MERCHANT_ACTION_REQUIRED",
              "ACCEPT_RECOMMENDATION"}       -> By("MERCHANT", "MERCHANT_DECISION")
    [] w \in {"EVIDENCE_COLLECTING",
              "MERCHANT_REVISION_REQUIRED"}  -> By("MERCHANT", "REGISTER_EVIDENCE")
    [] w = "OP_REVIEW"                       -> By("OPERATOR", "REVIEW")
    [] w \in {"READY_TO_SUBMIT",
              "DOCUMENT_REVISION_REQUIRED"}  -> By("OPERATOR", "BUILD_PACKAGE")
    [] w = "SUBMISSION_PENDING_CONFIRMATION" -> By("SUPERVISOR", "APPROVE_PACKAGE")
    [] w = "WAITING_UPSTREAM"                -> By("OPERATOR", "RECORD_OUTCOME")
    [] w = "FINANCIAL_RECONCILIATION"        -> By("SUPERVISOR", "RECONCILE")
    [] w \in {"RESPONSE_REVIEW_REQUIRED",
              "UPSTREAM_ACTION_REQUIRED"}    -> By("OPERATOR", "RESOLVE_RESPONSE")
    [] w = "ACCEPT_PROCESSING"               -> By("OPERATOR", "PROCESS_ACCEPT")
    [] w = "ON_HOLD"                         -> By("SUPERVISOR", "FINAL_REVIEW")
    [] w = "OUTCOME_VERIFICATION"            -> By("OPERATOR", "VERIFY_OUTCOME")
    [] w = "SUBMISSION_UNCERTAIN"            -> By("OPERATOR", "QUERY_SUBMISSION")
    [] w = "CLOSED"                          -> By("OPERATOR", "KNOWLEDGE_CANDIDATE")

Settled == finStatus \in {"RECONCILED", "NOT_APPLICABLE"}

\* The checklist still open; a merchant who accepts owes no evidence.
MissingRequired ==
  IF decision \in {"ACCEPT", "AUTHORIZED_WAIVER"} THEN {} ELSE Missing

\* What is left to do for a case that owes nothing any more.
\* Slip: it is closed whether or not the merchant knows.
CloseAtOnce == By("SUPERVISOR", "CLOSE")
LastStep == IF notified THEN By("SUPERVISOR", "CLOSE") ELSE By("OPERATOR", "NOTIFY_MERCHANT")

\* case_plan: what overrides the table, the last word first.
Plan ==
  IF verifying THEN By("OPERATOR", "VERIFY_OUTCOME")
  ELSE IF eligibility # "CONFIRMED" THEN By("OPERATOR", "RESOLVE_RESPONSE")
  ELSE IF pendingNext THEN By("OPERATOR", "NEXT_STAGE")
  ELSE IF /\ rule.verified /\ work \in EvidenceStates
          /\ \E i \in Applicable(evidence, stage) : evidence[i].content = "NEEDS_MANUAL"
    THEN By("OPERATOR", "REVIEW_EVIDENCE_CONTENT")
  ELSE IF MissingRequired = {} /\ work \in {"EVIDENCE_COLLECTING", "MERCHANT_REVISION_REQUIRED"}
    THEN By("MERCHANT", "SUBMIT_EVIDENCE")
  ELSE IF Settled /\ work # "CLOSED" THEN LastStep
  ELSE IF /\ work = "READY_TO_SUBMIT"
          /\ \E n \in DOMAIN packages : packages[n].status = "FROZEN"
    THEN By("OPERATOR", "SUBMIT")
  ELSE IF ~rule.verified THEN By("SUPERVISOR", "CONFIRM_RULE")
  ELSE NextOf(work)

\* Who may act for the owner of a step: a manager does what an operator does.
OfRole(owner) ==
  {a \in Actors : \/ RoleOf(a) = owner
                  \/ (owner = "OPERATOR" /\ RoleOf(a) = "SUPERVISOR")}

(***************************************************************************)
(* Deadlines                                                               *)
(***************************************************************************)
TaskOwner(type) ==
  CASE type \in {"DECISION", "EVIDENCE", "REVISION", "ACCEPT_DECISION"} -> "MERCHANT"
    [] type \in {"RULE_CONFIRMATION", "FINAL_REVIEW", "ESCALATION_HOLD",
                 "FINANCIAL_RECONCILIATION"} -> "SUPERVISOR"
    [] OTHER -> "OPERATOR"

Duties(owner) == {t \in tasks : t.stage = stage /\ TaskOwner(t.type) = owner}

\* Somebody is expected to do it: a task of this stage is open, or the case
\* waits for the upstream, for which there is no task.
Timed(owner) == Duties(owner) # {} \/ (work = "WAITING_UPSTREAM" /\ owner = "OPERATOR")

InternalWork ==
  {"CONFIRM_RULE", "REVIEW", "REVIEW_EVIDENCE_CONTENT", "RESOLVE_RESPONSE",
   "VERIFY_OUTCOME", "REUSE_EVIDENCE"}

DeadlineOf(p) == CASE p.owner = "MERCHANT" -> "merchant"
                   [] p.owner = "SUPERVISOR" \/ p.action \in InternalWork -> "internal"
                   [] OTHER -> "external"

\* current_sla: where "now" stands before that deadline. The internal deadline
\* is between the other two and is not followed.
Risk(p) ==
  IF ~Timed(p.owner) \/ ~rule.verified \/ DeadlineOf(p) = "internal" THEN "NEEDS_CONFIRMATION"
  ELSE IF DeadlineOf(p) = "external"
         THEN IF clock = "EXPIRED" THEN "OVERDUE" ELSE "ON_TRACK"
         ELSE CASE clock = "EARLY" -> "ON_TRACK" [] clock = "DUE" -> "AT_RISK" [] OTHER -> "OVERDUE"

(***************************************************************************)
(* The workflow agent                                                      *)
(***************************************************************************)
Findings ==
  {f \in {"RULE", "EVIDENCE", "DEADLINE", "NO_RESPONSE", "DISCREPANCY", "REVIEW"} :
     CASE f = "RULE"        -> ~rule.verified
       [] f = "EVIDENCE"    -> decision = "CONTEST" /\ Missing # {}
       [] f = "DEADLINE"    -> Risk(Plan) \in {"OVERDUE", "AT_RISK"}
       [] f = "NO_RESPONSE" -> decision = "NO_RESPONSE"
       [] f = "DISCREPANCY" -> finStatus = "DISCREPANCY"
       [] f = "REVIEW"      -> work = "OP_REVIEW"}

NewestWith(status) ==
  LET mine == {n \in DOMAIN packages : packages[n].status = status}
  IN {n \in mine : \A k \in mine : k <= n}

\* _proposals: one step of the plan each, with what it is about: a choice, a
\* missing code, a package (if there is one).
Proposals ==
  LET p     == Plan
      About == CASE p.action = "MERCHANT_DECISION" -> rule.allowed
                 [] p.action = "REGISTER_EVIDENCE" -> MissingRequired
                 [] p.action = "APPROVE_PACKAGE"   -> NewestWith("DRAFT")
                 [] p.action = "SUBMIT"            -> NewestWith("FROZEN")
                 [] OTHER                          -> {"NOTHING"}
  IN {[action |-> p.action, owner |-> p.owner, about |-> x] : x \in About}

\* _run_for_audience: a merchant is shown the proposals it owns and no other.
ShownTo(reader) == {p \in Proposals : reader = "MERCHANT" => p.owner = reader}

\* What a proposal asks its reader to fill in, and what it should have asked for:
\* the data of these actions has fields the agent leaves empty without a word.
AsksForInput ==
  {"REGISTER_EVIDENCE", "CONFIRM_RULE", "REVIEW", "APPROVE_PACKAGE", "RECORD_OUTCOME",
   "NEXT_STAGE", "RECONCILE"}
DraftsNothing ==
  {"RESOLVE_RESPONSE", "VERIFY_OUTCOME", "QUERY_SUBMISSION", "PROCESS_ACCEPT",
   "REVIEW_EVIDENCE_CONTENT", "FINAL_REVIEW"}

\* A proposal of this revision's run becomes a command of its owner's, and of
\* nobody else's, not even of somebody who may give the same command by hand:
\* as it stands, or edited with its action and its scope kept.
ExecutedAsIs(p, a) ==
  RoleOf(a) = p.owner /\ p.action \notin AsksForInput \union DraftsNothing

ConfirmedEdited(p, a) == RoleOf(a) = p.owner /\ p \in ShownTo(RoleOf(a))

Confirmable(p, a) == ExecutedAsIs(p, a) \/ ConfirmedEdited(p, a)

\* _prepare: which message to the merchant is drafted, the last word first.
MerchantMessage ==
  CASE final -> "RESULT"
    [] ~final /\ decision = "CONTEST" ->
         IF work = "WAITING_UPSTREAM" /\ \E n \in DOMAIN submissions : submissions[n] # NoReceipt
           THEN "SUBMITTED" ELSE "GIVE_EVIDENCE"
    [] ~final /\ decision \in {"ACCEPT", "AUTHORIZED_WAIVER"} -> "NOTHING_TO_DO"
    [] ~final /\ decision = "NO_RESPONSE" -> "PLEASE_REPLY"
    [] ~final /\ decision = "NONE" -> "PLEASE_DECIDE"

Merchant == "MERCHANT"

\* _answer to "why can I not submit?"
SubmissionAnswer(reader) ==
  IF reader # Merchant THEN "STATE"
  ELSE IF ~rule.verified THEN "RULE_OPEN"
  ELSE IF decision # "CONTEST" THEN "NOT_CONTESTED"
  ELSE IF work \notin {"EVIDENCE_COLLECTING", "MERCHANT_REVISION_REQUIRED"} THEN "NOT_YOUR_TURN"
  ELSE IF MissingRequired # {} THEN "MISSING"
  ELSE "PRESS_SUBMIT"

\* _answer to "what is missing?"
GapAnswer == IF ~rule.verified THEN "RULE_OPEN"
             ELSE IF MissingRequired = {} THEN "NOTHING" ELSE "MISSING"

(***************************************************************************)
(* Properties                                                              *)
(***************************************************************************)
\* A case is where its own work led it, and not where one of two commands that look
\* no further sent it: the rejection of a report in a later stage, or the refusal of
\* a request for a package that has been replaced (QUERY_SUBMISSION takes any
\* request of the case), after which nothing reviewed is ready to be sent.
RefusedBefore == \E n \in DOMAIN submissions : submissions[n].retry /\ ~Current(packages[n])

InPlace ==
  ~MayBeStale /\ (work = "READY_TO_SUBMIT" /\ ~Reviewed => ~RefusedBefore)

\* Three steps override the table without a look at where the case is, and these
\* alone may be out of place.
Overrides == {"VERIFY_OUTCOME", "RESOLVE_RESPONSE", "CONFIRM_RULE"}

\* What the gate may still say to all of those who may act: time is up; everybody
\* has worked on it; the plan overrode the table; tasks are left open; there is one
\* person only, who gave the files to be read herself; a file that counts for
\* nothing is in the way of the complete ones; a later draft was built since.
Understood(team) ==
  {"EXTERNAL_DEADLINE_EXPIRED", "REVIEWER_SEPARATION_REQUIRED"}
  \union {code \in {"INVALID_STATE", "CASE_CLOSED"} : Plan.action \in Overrides}
  \union {code \in {"CLOSE_BLOCKED"} : tasks # {}}
  \union {code \in {"CONTENT_REVIEW_NOT_REQUIRED"} : \E u \in team : team = {u}}
  \union {code \in {"CONTENT_CHECK_REQUIRED"} :
            /\ Plan.action = "SUBMIT_EVIDENCE"
            /\ \E i \in Applicable(evidence, stage) : evidence[i].content = "INSUFFICIENT"}
  \union {code \in {"FINAL_REVIEW_REQUIRED"} :
            \E n \in DOMAIN packages : packages[n].status = "DRAFT"}

\* The plan is possible: if there is an account that holds the role it names, or
\* acts for it, one of them finds the gate open to the step it names, or hears only
\* what is understood.
PlanIsPossible ==
  LET team == OfRole(Plan.owner)
  IN team # {} => \E a \in team : Gate(Plan.action, a) \subseteq Understood(team)

Holders(role) == {a \in Actors : RoleOf(a) = role}

\* What the engine would make of a proposal, confirmed as it stands.
Taken(p) ==
  CASE p.action = "MERCHANT_DECISION" -> p.about = "CONTEST" => eligibility = "CONFIRMED"
    [] p.action = "APPROVE_PACKAGE"   -> Approvable(p.about)
    [] p.action = "SUBMIT"            -> Sendable(p.about)
    [] OTHER                          -> TRUE

\* Its owner, of that very role, can confirm it.
OwnerConfirms(p) ==
  LET team == Holders(p.owner)
  IN team # {} => \E a \in team : /\ Confirmable(p, a)
                                  /\ Gate(p.action, a) \subseteq Understood(team)

\* The agent always has something to propose, its owner can confirm it (as long
\* as there is an account of that very role), and what is confirmed the engine
\* takes: it looks for packages by their status alone, whatever their stage and
\* evidence version; and the merchant whom it tells to press the button has
\* nothing left to give.
ProposalsWork == InPlace =>
  /\ PlanIsPossible
  /\ Proposals # {}
  /\ \A p \in Proposals : Taken(p) /\ OwnerConfirms(p)
  /\ SubmissionAnswer(Merchant) = "PRESS_SUBMIT" => Missing = {} /\ GapAnswer = "NOTHING"

\* What the merchant is told agrees with the plan: told to wait for a result, or
\* that there is nothing to do, it is not the one the plan waits for; and once it
\* has given up the contest, or its evidence is sent, no deadline of its runs out.
ToldToWait == MerchantMessage \in {"RESULT", "NOTHING_TO_DO", "SUBMITTED"}

AdviceAgrees == InPlace =>
  /\ PlanIsPossible
  /\ ToldToWait => Plan.owner # "MERCHANT"
  /\ "DEADLINE" \in Findings /\ DeadlineOf(Plan) = "merchant" => ~ToldToWait
=============================================================================
