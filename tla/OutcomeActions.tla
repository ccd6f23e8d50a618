---------------------------- MODULE OutcomeActions ----------------------------
(***************************************************************************)
(* The commands that bring the upstream's answer into a case and end it:     *)
(* outcome reports and their verification, a new stage, the ledger,          *)
(* reconciliation, notification, closing and reopening; and the ones that    *)
(* manage a case at any time (monitoring, tasks, assignment).                *)
(***************************************************************************)
EXTENDS ChannelActions

\* The reports RECORD_OUTCOME accepts: cls is the outcome reported, MAPPED an
\* OTHER that says what it amounts to; next that the next stage is named.
AllReports ==
  {r \in [cls: {"KNOWN", "MAPPED", "OTHER", "UNKNOWN"}, final: BOOLEAN,
          disp: {"WAIT", "VERIFY", "ACTION", "NEXT_STAGE", "FINAL"},
          next: BOOLEAN] :
     /\ r.final => r.cls \in {"KNOWN", "MAPPED"} /\ r.disp \in {"FINAL", "VERIFY"}
     /\ r.disp = "FINAL" => r.final
     /\ r.next => ~r.final /\ r.disp = "NEXT_STAGE" /\ r.cls = "KNOWN"}

Event == [report: AllReports, stage: 1..MaxStage, previous: WorkStatus,
          verification: {"PENDING", "CONFIRMED", "REJECTED"}]

Versions == [outcome: Nat, ledger: Nat]
Covered  == [outcome |-> outcomeVersion, ledger |-> ledger]

\* match_rule: a rule of the library, or none.  A later stage whose report does
\* not say when it happened keeps the rule but must have it confirmed.
LibraryRule(confirmed) ==
  [verified |-> confirmed, allowed |-> Rights, required |-> Codes]
NoRule == [verified |-> FALSE, allowed |-> {}, required |-> {}]
IntakeRules == {LibraryRule(TRUE), NoRule}
StageRules  == IntakeRules \union {LibraryRule(FALSE)}

(***************************************************************************)
(* A new stage                                                              *)
(***************************************************************************)
\* _advance_stage, for the fields no caller sets afterwards.
EnterStage(r, c) ==
  /\ stage < MaxStage
  /\ stage' = stage + 1
  /\ rule' = r
  /\ clock' = c
  /\ decision' = "NONE"
  /\ eligibility' = "CONFIRMED"
  /\ Invalidate
  /\ outcome' = "UNKNOWN"
  /\ pendingNext' = FALSE
  /\ notified' = FALSE

EntryWork(r) == IF r.verified THEN "TRIAGED" ELSE "RECEIVED"

\* Only open tasks of the stage being left are superseded, and not all types.
EntryTasks ==
  LET ts == Done(tasks,
                 {"DECISION", "EVIDENCE", "REVISION", "OP_REVIEW",
                  "FINAL_REVIEW", "DOCUMENT_REVISION", "ACCEPT_DECISION",
                  "RESPONSE_RIGHTS", "SLA_ESCALATION", "SLA_REMINDER",
                  "EVIDENCE_OVERDUE", "UPSTREAM_ACTION", "UPSTREAM_FOLLOWUP",
                  "EVIDENCE_APPLICABILITY", "CONTENT_REVIEW", "NEXT_STAGE"},
                 stage)
  IN IF \E i \in Items : evidence[i].active
       THEN Todo(ts, "EVIDENCE_APPLICABILITY", stage + 1) ELSE ts

\* NEXT_STAGE: staff enter the stage a report announced without naming it.
NextStage(a, r, c) ==
  /\ a \in Staff
  /\ work # "CLOSED"
  /\ ~final /\ pendingNext
  /\ EnterStage(r, c)
  /\ work' = EntryWork(r)
  /\ tasks' = EntryTasks
  /\ UNCHANGED <<auth, evidence, peopleVars, channelVars, events, final,
                 outcomeVersion, verifying, reopened, resume, ledger,
                 recorders, finStatus, recon, notice>>

(***************************************************************************)
(* Outcomes                                                                 *)
(***************************************************************************)
\* _apply_outcome, for the fields VERIFY_OUTCOME does not set afterwards.
\* r, c: the rule of the stage the report may lead into and its deadlines.
ApplyOutcome(report, r, c) ==
  /\ outcomeVersion' = outcomeVersion + 1
  /\ final' = report.final
  /\ reopened' = FALSE
  /\ IF report.next
       THEN EnterStage(r, c)
       ELSE /\ outcome' = "KNOWN"
            /\ pendingNext' = (report.disp = "NEXT_STAGE")
            /\ notified' = FALSE
            /\ UNCHANGED <<stage, rule, clock, decision, eligibility>>
            /\ IF report.final THEN Invalidate
                               ELSE UNCHANGED <<version, reviewer, packages>>
  /\ finStatus' = IF report.final THEN "PENDING" ELSE finStatus
  /\ UNCHANGED <<auth, evidence, peopleVars, channelVars, ledger, recorders,
                 recon, notice>>

\* A slip: the disposition is taken for the finality.
OutcomeWorkByDisposition(report, r) ==
  CASE report.disp = "FINAL"      -> "FINANCIAL_RECONCILIATION"
    [] report.next                -> EntryWork(r)
    [] report.disp = "NEXT_STAGE" /\ ~report.next -> "TRIAGED"
    [] report.disp = "ACTION"     -> "UPSTREAM_ACTION_REQUIRED"
    [] OTHER                      -> "WAITING_UPSTREAM"

\* Where a confirmed report leads the case.
OutcomeWork(report, r) ==
  CASE report.final               -> "FINANCIAL_RECONCILIATION"
    [] report.next                -> EntryWork(r)
    [] report.disp = "NEXT_STAGE" /\ ~report.next -> "TRIAGED"
    [] report.disp = "ACTION"     -> "UPSTREAM_ACTION_REQUIRED"
    [] OTHER                      -> "WAITING_UPSTREAM"

\* A slip: the question whether a report is right counts as dispute work.
CancelledByFinalToo ==
  {"DECISION", "EVIDENCE", "REVISION", "OP_REVIEW", "FINAL_REVIEW",
   "RESPONSE_RIGHTS", "NEXT_STAGE", "UPSTREAM_FOLLOWUP", "UPSTREAM_ACTION",
   "OUTCOME_CONFIRMATION"}

CancelledByFinal ==
  {"DECISION", "EVIDENCE", "REVISION", "OP_REVIEW", "FINAL_REVIEW",
   "DOCUMENT_REVISION", "ACCEPT_DECISION", "ACCEPT_PROCESSING",
   "RESPONSE_RIGHTS", "SLA_ESCALATION", "SLA_REMINDER", "EVIDENCE_OVERDUE",
   "NEXT_STAGE", "UPSTREAM_FOLLOWUP", "UPSTREAM_ACTION",
   "EVIDENCE_APPLICABILITY", "CONTENT_REVIEW"}

OutcomeTasks(report) ==
  CASE report.final -> Todo(Done(tasks, CancelledByFinal, stage),
                            "FINANCIAL_RECONCILIATION", stage)
    [] report.next  -> EntryTasks
    [] report.disp = "NEXT_STAGE" /\ ~report.next ->
         Todo(tasks, "NEXT_STAGE", stage)
    [] report.disp = "ACTION" -> Todo(tasks, "UPSTREAM_ACTION", stage)
    [] OTHER -> tasks

\* RECORD_OUTCOME of a report about stage s; corrects: it replaces an outcome
\* recorded before for that stage.
RecordOutcome(a, report, s, corrects, r, c) ==
  /\ a \in Staff
  /\ Len(events) < MaxEvents
  /\ work # "CLOSED"
  /\ final => reopened
  /\ reopened => corrects
  /\ corrects => \E n \in DOMAIN events : events[n].stage = s
  /\ LET unclear == \/ report.disp = "VERIFY" \/ report.cls # "KNOWN"
                    \/ corrects \/ s # stage
                    \/ work \notin {"WAITING_UPSTREAM", "UPSTREAM_ACTION_REQUIRED"}
     IN /\ events' = Append(events,
             [report |-> report, stage |-> s, previous |-> work,
              verification |-> IF unclear THEN "PENDING" ELSE "CONFIRMED"])
        /\ verifying' = unclear
        /\ IF unclear
             THEN /\ resume' = IF resume = "NONE" THEN work ELSE resume
                  /\ work' = "OUTCOME_VERIFICATION"
                  /\ tasks' = Todo(tasks, "OUTCOME_CONFIRMATION", stage)
                  /\ UNCHANGED <<rightsVars, fileVars, peopleVars, channelVars,
                                 outcome, final, outcomeVersion, pendingNext,
                                 reopened, moneyVars>>
             ELSE /\ ApplyOutcome(report, r, c)
                  /\ work' = OutcomeWork(report, r)
                  /\ tasks' = OutcomeTasks(report)
                  /\ resume' = IF resume = "NONE" THEN "NONE" ELSE work'

Pending(n) == events[n].verification = "PENDING"

\* What VERIFY_OUTCOME does once it applied or rejected event n: the case stays
\* in verification while another report is pending, else it goes to next.
Settle(n, verification, next, ts) ==
  LET more == \E m \in DOMAIN events : m # n /\ Pending(m)
  IN /\ events' = [events EXCEPT ![n].verification = verification]
     /\ verifying' = more
     /\ work' = IF more THEN "OUTCOME_VERIFICATION" ELSE next
     /\ tasks' = IF more THEN ts ELSE Done(ts, {"OUTCOME_CONFIRMATION"}, stage')

\* VERIFY_OUTCOME, CONFIRM
ConfirmOutcome(a, n, r, c) ==
  /\ a \in Staff
  /\ work = "OUTCOME_VERIFICATION"
  /\ Pending(n)
  /\ LET report == events[n].report
     IN /\ events[n].stage = stage
        /\ report.cls \in {"KNOWN", "MAPPED"}
        /\ ApplyOutcome(report, r, c)
        /\ Settle(n, "CONFIRMED", OutcomeWork(report, r), OutcomeTasks(report))
        /\ resume' = IF verifying' /\ resume # "NONE"
                       THEN OutcomeWork(report, r) ELSE "NONE"

\* VERIFY_OUTCOME, REJECT
RejectOutcome(a, n) ==
  /\ a \in Staff
  /\ work = "OUTCOME_VERIFICATION"
  /\ Pending(n)
  /\ UNCHANGED stage
  /\ Settle(n, "REJECTED",
            IF resume = "NONE" THEN events[n].previous ELSE resume, tasks)
  /\ resume' = IF verifying' THEN resume ELSE "NONE"
  /\ UNCHANGED <<decision, eligibility, rule, clock, auth, fileVars, peopleVars,
                 channelVars, outcome, final, outcomeVersion, pendingNext,
                 reopened, moneyVars>>

(***************************************************************************)
(* Money, notification, closing                                             *)
(***************************************************************************)
\* A slip: the merchant need not hear of the change.
UnsettleMoney == finStatus' = "PENDING" /\ UNCHANGED notified

\* A slip: the reconciliation is kept.
UnsettleNotice == notified' = FALSE /\ UNCHANGED finStatus

\* A new ledger event or a reopening makes both due again.
Unsettle == finStatus' = "PENDING" /\ notified' = FALSE

\* REOPEN_CASE
ReopenCase(a) ==
  /\ a \in Supervisors
  /\ work \in {"CLOSED", "FINANCIAL_RECONCILIATION"}
  /\ final
  /\ reopened' = TRUE
  /\ final' = FALSE
  /\ Unsettle
  /\ work' = "WAITING_UPSTREAM"
  /\ tasks' = Todo(tasks, "OUTCOME_CONFIRMATION", stage)
  /\ UNCHANGED <<rightsVars, fileVars, peopleVars, channelVars, events, outcome,
                 outcomeVersion, verifying, pendingNext, resume, ledger,
                 recorders, recon, notice>>

\* RECORD_FINANCIAL
RecordFinancial(a) ==
  /\ a \in Staff
  /\ work # "CLOSED"
  /\ ledger < MaxLedger
  /\ ledger' = ledger + 1
  /\ recorders' = recorders \union {a}
  /\ Unsettle
  /\ tasks' = IF final THEN Todo(tasks, "FINANCIAL_RECONCILIATION", stage)
                       ELSE tasks
  /\ UNCHANGED <<work, rightsVars, fileVars, peopleVars, channelVars, eventVars,
                 recon, notice>>

\* RECONCILE
Reconcile(a, status) ==
  /\ a \in Supervisors
  /\ work # "CLOSED"
  /\ final /\ ~verifying
  /\ a \notin recorders
  /\ status = "RECONCILED" => ledger > 0
  /\ status = "NOT_APPLICABLE" => ledger = 0
  /\ finStatus' = status
  /\ recon' = Covered
  /\ notified' = FALSE
  /\ tasks' = IF status = "DISCREPANCY"
                THEN Todo(tasks, "FINANCIAL_RECONCILIATION", stage)
                ELSE Done(tasks, {"FINANCIAL_RECONCILIATION"}, stage)
  /\ UNCHANGED <<work, rightsVars, fileVars, peopleVars, channelVars, eventVars,
                 ledger, recorders, notice>>

\* NOTIFY_MERCHANT
NotifyMerchant(a) ==
  /\ a \in Staff
  /\ work # "CLOSED"
  /\ notice' = Covered
  /\ notified' = (final /\ ~verifying)
  /\ UNCHANGED <<work, tasks, rightsVars, fileVars, peopleVars, channelVars,
                 eventVars, ledger, recorders, finStatus, recon>>

\* A slip: open tasks are forgotten.
NoBlockersButTasks ==
  /\ final /\ outcome # "UNKNOWN"
  /\ finStatus \in {"RECONCILED", "NOT_APPLICABLE"}
  /\ notified /\ ~verifying
  /\ recon.outcome = outcomeVersion /\ notice = Covered

\* close_blockers is empty.  The audit entries it also wants are there once the
\* financial status and the notification are.
NoBlockers ==
  /\ final /\ outcome # "UNKNOWN"
  /\ finStatus \in {"RECONCILED", "NOT_APPLICABLE"}
  /\ tasks = {}
  /\ notified /\ ~verifying
  /\ outcomeVersion > 0 =>
       recon.outcome = outcomeVersion /\ notice = Covered

\* CLOSE
CloseCase(a) ==
  /\ a \in Supervisors
  /\ work # "CLOSED"
  /\ NoBlockers
  /\ work' = "CLOSED"
  /\ UNCHANGED <<tasks, rightsVars, fileVars, peopleVars, channelVars, eventVars,
                 moneyVars>>

(***************************************************************************)
(* At any time                                                              *)
(***************************************************************************)
\* MONITOR_SLA, when it opens a task.
MonitorSLA(a) ==
  /\ a \in Staff \union Agents
  /\ work # "CLOSED" /\ ~final
  /\ \E type \in {"RULE_CONFIRMATION", "EVIDENCE_OVERDUE", "SLA_ESCALATION",
                  "SLA_REMINDER"} :
       /\ CASE type = "RULE_CONFIRMATION" -> ~rule.verified
            [] type = "EVIDENCE_OVERDUE" ->
                 /\ rule.verified /\ clock \in {"LATE", "EXPIRED"}
                 /\ decision = "CONTEST"
                 /\ work \in {"EVIDENCE_COLLECTING", "MERCHANT_REVISION_REQUIRED"}
            [] type = "SLA_ESCALATION" ->
                 /\ rule.verified /\ clock \in {"LATE", "EXPIRED"}
                 /\ decision = "NONE"
            [] type = "SLA_REMINDER" ->
                 /\ rule.verified /\ clock = "DUE"
                 /\ decision \in {"NONE", "CONTEST"}
       /\ tasks' = Todo(tasks, type, stage)
  /\ UNCHANGED <<work, rightsVars, fileVars, peopleVars, channelVars, eventVars,
                 moneyVars>>

\* RESOLVE_TASK: a supervisor cancels or waives a task no command is tied to.
ResolveTask(a, t) ==
  /\ a \in Supervisors
  /\ work # "CLOSED"
  /\ t.type \notin Protected
  /\ tasks' = tasks \ {t}
  /\ UNCHANGED <<work, rightsVars, fileVars, peopleVars, channelVars, eventVars,
                 moneyVars>>

\* ASSIGN_CASE
AssignCase(a, u) ==
  /\ a \in Supervisors /\ u \in Staff
  /\ work # "CLOSED"
  /\ assigned' = u
  /\ UNCHANGED <<work, tasks, rightsVars, fileVars, preparers, channelVars,
                 eventVars, moneyVars>>

\* INTAKE of a case that exists: only the audit trail changes.
DuplicateIntake(a) ==
  /\ a \in Staff
  /\ preparers' = preparers \union {a}
  /\ UNCHANGED <<work, tasks, rightsVars, fileVars, assigned, channelVars,
                 eventVars, moneyVars>>

\* Time passes, perhaps past several deadlines before anybody acts.
Tick ==
  /\ clock' \in Clocks
  /\ \/ clock = "EARLY" /\ clock' \in {"DUE", "LATE", "EXPIRED"}
     \/ clock = "DUE" /\ clock' \in {"LATE", "EXPIRED"}
     \/ clock = "LATE" /\ clock' = "EXPIRED"
  /\ UNCHANGED <<work, tasks, stage, decision, eligibility, rule, auth, fileVars,
                 peopleVars, channelVars, eventVars, moneyVars>>
=============================================================================
