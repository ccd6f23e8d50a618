------------------------------ MODULE CaseState ------------------------------
(***************************************************************************)
(* The state of one dispute case: the fields of the JSON aggregate that     *)
(* src/oceanpilot/application/disputes.py reads to decide something, the     *)
(* values they take, and the helpers that several commands share (opening   *)
(* and resolving tasks, invalidating reviewed work, judging the evidence).   *)
(*                                                                          *)
(* A step of the specification is one committed command: the store applies  *)
(* a command to the whole aggregate in one SQLite transaction, or not at    *)
(* all (module CommandStore).                                               *)
(***************************************************************************)
EXTENDS Naturals, Sequences, FiniteSets

CONSTANTS
  Merchants,      \* accounts with role MERCHANT
  Operators,      \* accounts with role OPERATOR
  Supervisors,    \* accounts with role SUPERVISOR (they inherit OPERATOR)
  Agents,         \* the workflow agent
  Items,          \* identities of evidence items
  Codes,          \* evidence codes a rule may require
  Checks,         \* results the automatic content check may return
  Scenarios,      \* answers of the (mock) upstream to one attempt
  Reports,        \* shapes of the upstream outcome reports that may arrive
  Clocks,         \* positions of "now" among the case's deadlines
  MaxVersion,     \* bound on evidence_version
  MaxPackages,    \* bound on packages built
  MaxDecisions,   \* bound on merchant decisions recorded
  MaxEvents,      \* bound on outcome events recorded
  MaxLedger,      \* bound on financial events recorded
  MaxStage        \* bound on stage_number

Staff  == Operators \union Supervisors
People == Merchants \union Staff
Actors == People \union Agents
Nobody == "nobody"

WorkStatus ==
  {"RECEIVED", "TRIAGED", "MERCHANT_ACTION_REQUIRED", "EVIDENCE_COLLECTING",
   "OP_REVIEW", "MERCHANT_REVISION_REQUIRED", "READY_TO_SUBMIT",
   "SUBMISSION_PENDING_CONFIRMATION", "DOCUMENT_REVISION_REQUIRED", "ON_HOLD",
   "ACCEPT_RECOMMENDATION", "ACCEPT_PROCESSING", "RESPONSE_REVIEW_REQUIRED",
   "SUBMISSION_UNCERTAIN", "WAITING_UPSTREAM", "UPSTREAM_ACTION_REQUIRED",
   "OUTCOME_VERIFICATION", "FINANCIAL_RECONCILIATION", "CLOSED"}

MerchantDecision ==
  {"NONE", "ACCEPT", "CONTEST", "NO_RESPONSE", "AUTHORIZED_WAIVER"}
Eligibility == {"CONFIRMED", "REQUIRES_RECONFIRMATION", "RIGHTS_LOST"}
Rights      == {"ACCEPT", "CONTEST"}
ContentStatus == {"SUPPORTED", "INSUFFICIENT", "NEEDS_MANUAL"}

\* "now" is well before the merchant deadline, within a day of it, past it, or
\* past the external deadline.
ClockFaces == {"EARLY", "DUE", "LATE", "EXPIRED"}

\* A rule snapshot with its deadlines: both are confirmed together or not.
Rules == [verified: BOOLEAN, allowed: SUBSET Rights, required: SUBSET Codes]

\* "auto" is what the file check stored, "content" what a human review made of it.
Evidence == [active: BOOLEAN, stages: SUBSET (1..MaxStage),
             code: Codes \union {"none"}, auto: ContentStatus,
             content: ContentStatus, by: People \union {Nobody}]
NoItem == [active |-> FALSE, stages |-> {}, code |-> "none",
           auto |-> "INSUFFICIENT", content |-> "INSUFFICIENT", by |-> Nobody]

PackageStatus == {"DRAFT", "FROZEN", "INVALIDATED"}

\* What the shared helper _mock_attempt leaves in a submission or acceptance.
AllScenarios == {"ACCEPTED", "TECHNICAL_FAILURE", "BUSINESS_REJECTED",
                 "TIMEOUT", "RESPONSE_LOST"}
Acceptance == {"NONE", "MOCK_ACCEPTED", "MOCK_REJECTED", "MOCK_NOT_ACCEPTED",
               "UNKNOWN", "NO_ACTION_REQUIRED"}
Receipt   == [scenario: AllScenarios \union {"NONE"}, acceptance: Acceptance,
              retry: BOOLEAN]
NoReceipt == [scenario |-> "NONE", acceptance |-> "NONE", retry |-> FALSE]

TaskTypes ==
  {"RULE_CONFIRMATION", "DECISION", "EVIDENCE", "REVISION", "ACCEPT_DECISION",
   "ACCEPT_PROCESSING", "RESPONSE_RIGHTS", "CONTENT_REVIEW", "OP_REVIEW",
   "DOCUMENT_REVISION", "FINAL_REVIEW", "ESCALATION_HOLD", "SUBMISSION_QUERY",
   "UPSTREAM_FOLLOWUP", "UPSTREAM_ACTION", "NEXT_STAGE",
   "OUTCOME_CONFIRMATION", "EVIDENCE_APPLICABILITY",
   "FINANCIAL_RECONCILIATION", "SLA_REMINDER", "SLA_ESCALATION",
   "EVIDENCE_OVERDUE"}

\* A slip: two queues of required work are not on the list.
ProtectedButQueues ==
  {"CONTENT_REVIEW", "FINAL_REVIEW", "OUTCOME_CONFIRMATION", "RESPONSE_RIGHTS",
   "ACCEPT_PROCESSING"}

\* RESOLVE_TASK refuses these: only their own business command resolves them.
Protected ==
  {"CONTENT_REVIEW", "OP_REVIEW", "FINAL_REVIEW", "OUTCOME_CONFIRMATION",
   "FINANCIAL_RECONCILIATION", "RESPONSE_RIGHTS", "ACCEPT_PROCESSING"}

VARIABLES
  stage,          \* stage_number
  work,           \* work_status
  decision,       \* merchant_decision
  eligibility,    \* eligibility_status
  rule,           \* rule_snapshot
  clock,          \* where "now" stands among the deadlines of the rule
  auth,           \* how many decisions were recorded: names the authorization
  version,        \* evidence_version
  evidence,       \* evidence items by identity
  reviewer,       \* who gave the EVIDENCE review PASS valid for this version
  preparers,      \* actors of the audit events package_preparers looks for
  assigned,       \* assigned_op_user_id
  packages,       \* packages, in the order they were built
  submissions,    \* submission receipt of each package, NoReceipt when none
  acceptances,    \* acceptance receipts, in the order they were created
  tasks,          \* the OPEN tasks: at most one per type and stage
  events,         \* upstream outcome events, in the order they were recorded
  outcome,        \* business_outcome: KNOWN, OTHER (mapped) or UNKNOWN
  final,          \* finality = FINAL_CONFIRMED
  outcomeVersion, \* outcome_version
  verifying,      \* outcome_verification_required
  pendingNext,    \* pending_next_stage
  reopened,       \* reopened_for_correction
  resume,         \* verification_resume_status, "NONE" when absent
  ledger,         \* financial_version, the number of financial events
  recorders,      \* who recorded financial events
  finStatus,      \* financial_status
  recon,          \* versions the last reconciliation covers
  notice,         \* versions the last merchant notification covers
  notified        \* merchant_notification_completed

rightsVars  == <<stage, decision, eligibility, rule, clock, auth>>
fileVars    == <<version, evidence, reviewer, packages>>
peopleVars  == <<preparers, assigned>>
channelVars == <<submissions, acceptances>>
eventVars   == <<events, outcome, final, outcomeVersion, verifying,
                 pendingNext, reopened, resume>>
moneyVars   == <<ledger, recorders, finStatus, recon, notice, notified>>
vars == <<work, tasks, rightsVars, fileVars, peopleVars, channelVars,
          eventVars, moneyVars>>

(***************************************************************************)
(* Tasks.  A task is open or gone; how it was resolved (completed,           *)
(* superseded, cancelled, waived) is not told apart.                         *)
(***************************************************************************)
\* _task: open a task of this stage unless one of its type is already open.
Todo(ts, type, s) == ts \union {[type |-> type, stage |-> s]}

\* _resolve_tasks: only the open tasks of stage s are reached.
Done(ts, types, s) == {t \in ts : ~(t.type \in types /\ t.stage = s)}

(***************************************************************************)
(* Evidence of the current stage.                                           *)
(***************************************************************************)
Applicable(ev, s) == {i \in Items : ev[i].active /\ s \in ev[i].stages}
Supported(ev, s)  == {i \in Applicable(ev, s) : ev[i].content = "SUPPORTED"}
Missing == rule.required \ {evidence[i].code : i \in Supported(evidence, stage)}
ContentClear == Applicable(evidence, stage) = Supported(evidence, stage)

\* What build_package copies into the package as its evidence index.
EvidenceIndex == [i \in Applicable(evidence, stage) |-> evidence[i]]

\* _sync_content_review_task, after the evidence became ev.
SyncContentReview(ts, ev) ==
  IF \E i \in Applicable(ev, stage) : ev[i].content = "NEEDS_MANUAL"
    THEN Todo(ts, "CONTENT_REVIEW", stage)
    ELSE Done(ts, {"CONTENT_REVIEW"}, stage)

(***************************************************************************)
(* _invalidate: a new evidence version, no review valid, no package usable.  *)
(* Its effect on tasks is InvalidatedTasks; a contested case also goes back  *)
(* to collecting evidence, which each caller states with its own work'.      *)
(***************************************************************************)
Live(p) == p.status \in {"DRAFT", "FROZEN"}

Retired(p) == IF Live(p) THEN [p EXCEPT !.status = "INVALIDATED"] ELSE p

\* A slip: a package already approved is left alone.
InvalidateDrafts ==
  /\ version < MaxVersion
  /\ version' = version + 1
  /\ reviewer' = Nobody
  /\ packages' = [n \in DOMAIN packages |->
       IF packages[n].status = "DRAFT" THEN Retired(packages[n]) ELSE packages[n]]

\* A slip: the reviews stay valid.
InvalidatePackages ==
  /\ version < MaxVersion
  /\ version' = version + 1
  /\ packages' = [n \in DOMAIN packages |-> Retired(packages[n])]
  /\ UNCHANGED reviewer

Invalidate ==
  /\ version < MaxVersion
  /\ version' = version + 1
  /\ reviewer' = Nobody
  /\ packages' = [n \in DOMAIN packages |-> Retired(packages[n])]

InvalidatedTasks ==
  Done(tasks, {"OP_REVIEW", "FINAL_REVIEW", "DOCUMENT_REVISION"}, stage)

(***************************************************************************)
(* The gates of domain/dispute_actions.py that many commands share.          *)
(***************************************************************************)
\* A rule that is not verified has no deadlines: no time is late for it.
Deadlines(r) == IF r.verified THEN Clocks ELSE {"EARLY"}

RuleReady == rule.verified /\ ~pendingNext

ContestReady ==
  /\ decision = "CONTEST"
  /\ "CONTEST" \in rule.allowed
  /\ eligibility = "CONFIRMED"
  /\ RuleReady
  /\ clock # "EXPIRED"

EvidenceReady == Missing = {} /\ ContentClear

\* _valid_review
Reviewed == reviewer # Nobody

Current(p) == p.version = version /\ p.stage = stage
=============================================================================
