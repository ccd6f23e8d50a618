------------------------------ MODULE DisputeCase ------------------------------
(***************************************************************************)
(* One dispute case from intake to closing: any command that its gate lets   *)
(* through, by anyone whose role allows it, in any order.                    *)
(***************************************************************************)
EXTENDS OutcomeActions

ASSUME PeopleAssumption ==
  /\ Nobody \notin Actors
  /\ Merchants \intersect Staff = {}
  /\ Operators \intersect Supervisors = {}
  /\ Agents \intersect People = {}

ASSUME DomainAssumption ==
  /\ IsFiniteSet(Items) /\ "none" \notin Codes
  /\ Checks \subseteq ContentStatus
  /\ Scenarios \subseteq AllScenarios
  /\ Reports \subseteq AllReports
  /\ "EARLY" \in Clocks /\ Clocks \subseteq ClockFaces
  /\ "EXPIRED" \in Clocks => "LATE" \in Clocks

ASSUME BoundAssumption ==
  /\ {MaxVersion, MaxPackages, MaxDecisions, MaxEvents, MaxLedger} \subseteq Nat
  /\ MaxStage \in Nat \ {0}

\* INTAKE of a new case by a member of staff, whom it also assigns.
Init ==
  /\ stage = 1
  /\ rule \in IntakeRules
  /\ work = EntryWork(rule)
  /\ decision = "NONE"
  /\ eligibility = "CONFIRMED"
  /\ clock \in Deadlines(rule)
  /\ auth = 0
  /\ version = 0
  /\ evidence = [i \in Items |-> NoItem]
  /\ reviewer = Nobody
  /\ packages = << >>
  /\ assigned \in Staff
  /\ preparers = {assigned}
  /\ submissions = << >>
  /\ acceptances = << >>
  /\ tasks = {}
  /\ events = << >>
  /\ outcome = "UNKNOWN"
  /\ final = FALSE
  /\ outcomeVersion = 0
  /\ verifying = FALSE
  /\ pendingNext = FALSE
  /\ reopened = FALSE
  /\ resume = "NONE"
  /\ ledger = 0
  /\ recorders = {}
  /\ finStatus = "PENDING"
  /\ recon = [outcome |-> 0, ledger |-> 0]
  /\ notice = [outcome |-> 0, ledger |-> 0]
  /\ notified = FALSE

RuleStep ==
  \E a \in People :
    \/ \E r \in Rules : \E c \in Deadlines(r) : ConfirmRule(a, r, c)
    \/ PublishTask(a)
    \/ \E d \in MerchantDecision \ {"NONE"} : MerchantDecide(a, d)
    \/ \E res \in {"RESTORE_DECISION", "RESTORE_EVIDENCE"} : RestoreRights(a, res)
    \/ \E res \in {"CONFIRM_LOSS", "FOLLOW_UP"} : GiveUpRights(a, res)

EvidenceStep ==
  \E a \in People :
    \/ \E u \in People, i \in Items, c \in Codes, check \in Checks :
         RegisterEvidence(a, u, i, c, check)
    \/ \E i \in Items, verdict \in {"SUPPORTED", "INSUFFICIENT"} :
         ReviewContent(a, i, verdict)
    \/ \E i \in Items : WithdrawEvidence(a, i)
    \/ \E items \in SUBSET Items : ReuseEvidence(a, items)
    \/ SubmitEvidence(a)
    \/ \E verdict \in {"PASS", "REVISION", "ACCEPT"} : Review(a, verdict)

PackageStep ==
  \E a \in Actors :
    \/ BuildPackage(a)
    \/ \E p \in DOMAIN packages :
         \/ ApprovePackage(a, p)
         \/ \E verdict \in {"RETURN_MATERIALS", "RETURN_DOCUMENT",
                            "RECOMMEND_ACCEPT", "HOLD"} :
              FinalReturn(a, p, verdict)
         \/ \E sc \in Scenarios : Submit(a, p, sc)

ChannelStep ==
  \E a \in Staff :
    \/ \E answer \in {"ACCEPTED", "NOT_ACCEPTED", "UNKNOWN"} :
         \/ \E p \in DOMAIN submissions : QuerySubmission(a, p, answer)
         \/ \E k \in DOMAIN acceptances : QueryAcceptance(a, k, answer)
    \/ \E mode \in {"MOCK", "NO_ACTION_REQUIRED"}, sc \in Scenarios :
         ProcessAccept(a, mode, sc)

OutcomeStep ==
  \E a \in Staff :
    \/ \E r \in StageRules : \E c \in Deadlines(r) :
         \/ \E report \in Reports, s \in 1..MaxStage, corrects \in BOOLEAN :
              RecordOutcome(a, report, s, corrects, r, c)
         \/ \E n \in DOMAIN events : ConfirmOutcome(a, n, r, c)
         \/ NextStage(a, r, c)
    \/ \E n \in DOMAIN events : RejectOutcome(a, n)
    \/ ReopenCase(a)

MoneyStep ==
  \E a \in Staff :
    \/ RecordFinancial(a)
    \/ \E status \in {"RECONCILED", "NOT_APPLICABLE", "DISCREPANCY"} :
         Reconcile(a, status)
    \/ NotifyMerchant(a)
    \/ CloseCase(a)

AnyTimeStep ==
  \/ \E a \in Actors : MonitorSLA(a)
  \/ \E a \in Staff :
       \/ \E t \in tasks : ResolveTask(a, t)
       \/ \E u \in Staff : AssignCase(a, u)
       \/ DuplicateIntake(a)
  \/ Tick

Next ==
  \/ RuleStep \/ EvidenceStep \/ PackageStep \/ ChannelStep
  \/ OutcomeStep \/ MoneyStep \/ AnyTimeStep

Spec == Init /\ [][Next]_vars

FinancialStatus == {"PENDING", "RECONCILED", "DISCREPANCY", "NOT_APPLICABLE"}

Tasks       == [type: TaskTypes, stage: 1..MaxStage]
Acceptances == [stage: 1..MaxStage, auth: Nat, receipt: Receipt]

RightsType ==
  /\ stage \in 1..MaxStage
  /\ decision \in MerchantDecision
  /\ eligibility \in Eligibility
  /\ rule \in Rules
  /\ clock \in Clocks
  /\ auth \in Nat

FileType ==
  /\ version \in Nat
  /\ evidence \in [Items -> Evidence]
  /\ reviewer \in People \union {Nobody}
  /\ packages \in Seq(Package)

PeopleType == preparers \subseteq Actors /\ assigned \in Staff

ChannelType == submissions \in Seq(Receipt) /\ acceptances \in Seq(Acceptances)

EventType ==
  /\ events \in Seq(Event)
  /\ outcome \in {"KNOWN", "UNKNOWN"}
  /\ final \in BOOLEAN /\ verifying \in BOOLEAN
  /\ pendingNext \in BOOLEAN /\ reopened \in BOOLEAN
  /\ outcomeVersion \in Nat
  /\ resume \in WorkStatus \union {"NONE"}

MoneyType ==
  /\ ledger \in Nat
  /\ recorders \subseteq Staff
  /\ finStatus \in FinancialStatus
  /\ recon \in Versions /\ notice \in Versions
  /\ notified \in BOOLEAN

\* Every field holds a value of its kind, and each package has its place for a
\* submission receipt.
TypeOK ==
  /\ work \in WorkStatus
  /\ tasks \in SUBSET Tasks
  /\ RightsType /\ FileType /\ PeopleType /\ ChannelType /\ EventType
  /\ MoneyType
  /\ Len(submissions) = Len(packages)

(***************************************************************************)
(* Safety: what is true of a case whatever order the commands come in        *)
(***************************************************************************)
\* A package that can still be approved or sent shows exactly the reviewed
\* evidence and the rule in force: _invalidate is called by every command that
\* changes one of them.
PackageFresh ==
  \A n \in DOMAIN packages : Live(packages[n]) =>
    /\ Current(packages[n])
    /\ packages[n].index = EvidenceIndex
    /\ packages[n].rule = rule
    /\ Reviewed

\* A review that counts as valid is of complete, checked evidence and of a
\* contest the rule allows: no later command leaves it valid for anything less.
ReviewFresh ==
  Reviewed => /\ EvidenceReady
              /\ decision = "CONTEST"
              /\ rule.verified /\ "CONTEST" \in rule.allowed

\* A contest whose rights count as confirmed is one the verified rule allows,
\* through every replacement of the rule and restoration of rights.
ContestHasRights ==
  decision = "CONTEST" /\ eligibility = "CONFIRMED" =>
    rule.verified /\ "CONTEST" \in rule.allowed

\* A later stage of a case in which a report was rejected: the rejection may
\* have brought back the status of a stage that is over (run stale_status).
MayBeStale ==
  stage > 1 /\ \E n \in DOMAIN events : events[n].verification = "REJECTED"

\* Four eyes: whoever froze a package neither built it nor, unless the status of
\* the case may be stale, passed the review it rests on, whatever assignments
\* and retries happened in between.
IndependentApproval ==
  \A n \in DOMAIN packages : packages[n].status = "FROZEN" =>
    /\ packages[n].approver \in Supervisors \ {packages[n].by}
    /\ packages[n].approver = reviewer => MayBeStale

\* The two human reviews are independent: whoever froze a package is not the one
\* whose review of the evidence it is sent under.
ReviewsIndependent ==
  \A n \in DOMAIN packages :
    packages[n].status = "FROZEN" => packages[n].approver # reviewer

\* Nothing goes to the upstream that a supervisor did not approve, and a package
\* that was sent does not become a draft again.
SentWasApproved ==
  \A n \in DOMAIN packages : submissions[n] # NoReceipt =>
    /\ packages[n].approver \in Supervisors
    /\ packages[n].status # "DRAFT"

\* One authorization of the merchant is carried out by one request.
OneAcceptance ==
  \A j, k \in DOMAIN acceptances :
    /\ acceptances[j].stage = acceptances[k].stage
    /\ acceptances[j].auth = acceptances[k].auth
    => j = k

\* A settled financial status is about the present terminal outcome and ledger.
SettledIsCurrent ==
  finStatus \in {"RECONCILED", "NOT_APPLICABLE"} =>
    final /\ ~verifying /\ recon = Covered

\* A merchant counted as notified was told of the present outcome and ledger.
NotifiedIsCurrent == notified => final /\ ~verifying /\ notice = Covered

\* What counts as settled, or as told to the merchant, is about the present
\* terminal outcome and ledger: every correction, reopening, ledger entry and
\* report under verification withdraws what it makes stale.
OutcomeIsCurrent == SettledIsCurrent /\ NotifiedIsCurrent

\* While a report waits for verification somebody has the open task to do it;
\* no bulk resolution of tasks may lose that task.
PendingHasTask ==
  (\E n \in DOMAIN events : Pending(n)) =>
    \E t \in tasks : t.type = "OUTCOME_CONFIRMATION"

\* What a status that waits for somebody needs: the task of this stage that no
\* supervisor can wave away is open, or what the person needs is there.
Asked(type) == [type |-> type, stage |-> stage] \in tasks
AskedFor(status) ==
  /\ status = "OP_REVIEW" => Asked("OP_REVIEW")
  /\ status = "RESPONSE_REVIEW_REQUIRED" => Asked("RESPONSE_RIGHTS")
  /\ status = "SUBMISSION_PENDING_CONFIRMATION" =>
       /\ Asked("FINAL_REVIEW")
       /\ \E n \in DOMAIN packages : packages[n].status = "DRAFT"
  /\ status = "FINANCIAL_RECONCILIATION" =>
       \/ Asked("FINANCIAL_RECONCILIATION")
       \/ finStatus \in {"RECONCILED", "NOT_APPLICABLE"}

\* A case never waits on work nobody is asked to do, nor for the verification of
\* a report when none is pending, unless its status may be stale.
WaitingIsAsked ==
  /\ MayBeStale \/ AskedFor(work)
  /\ work = "OUTCOME_VERIFICATION" => \E n \in DOMAIN events : Pending(n)

\* A terminal outcome ends all dispute work: only verification of another
\* report, reconciliation and closing remain.
FinalStopsWork ==
  final => /\ work \in {"FINANCIAL_RECONCILIATION", "OUTCOME_VERIFICATION", "CLOSED"}
           /\ ~Reviewed
           /\ \A n \in DOMAIN packages : ~Live(packages[n])

\* A closed case is settled, its merchant knows, and no report is left open.
ClosedSettled ==
  work = "CLOSED" =>
    /\ final /\ finStatus \in {"RECONCILED", "NOT_APPLICABLE"}
    /\ recon = Covered /\ notified /\ notice = Covered
    /\ tasks = {}
    /\ \A n \in DOMAIN events : ~Pending(n)

\* No open task belongs to a stage that is over, unless a supervisor can still
\* resolve it by hand: an open task blocks closing.
NoOrphanTask == \A t \in tasks : t.stage = stage \/ t.type \notin Protected

\* No request is sent while the fate of another one is unknown.
QueryBeforeRetry ==
  Cardinality({p \in DOMAIN submissions : submissions[p].acceptance = "UNKNOWN"}) <= 1

(***************************************************************************)
(* What one command may never do                                            *)
(***************************************************************************)
\* Whatever changes what was reviewed retires the review and every package.
ChangesInvalidate ==
  [][ evidence' # evidence \/ rule' # rule \/ decision' # decision
        \/ stage' # stage
      => /\ version' > version
         /\ reviewer' = Nobody
         /\ \A n \in DOMAIN packages' : ~Live(packages'[n]) ]_vars

\* A package keeps its content for ever; frozen it is never a draft again, and
\* invalidated it stays so.
PackagesSettle ==
  [][ \A n \in DOMAIN packages :
        /\ n \in DOMAIN packages'
        /\ packages'[n].index = packages[n].index
        /\ packages'[n].version = packages[n].version
        /\ packages'[n].status # packages[n].status =>
             \/ packages[n].status = "DRAFT"
             \/ packages[n].status = "FROZEN" /\ packages'[n].status = "INVALIDATED"
    ]_vars

\* A request known to be accepted is never sent or reinterpreted again.
AcceptedIsFinal ==
  [][ /\ \A p \in DOMAIN submissions :
           submissions[p].acceptance = "MOCK_ACCEPTED" =>
             submissions'[p] = submissions[p]
      /\ \A k \in DOMAIN acceptances :
           acceptances[k].receipt.acceptance = "MOCK_ACCEPTED" =>
             acceptances'[k] = acceptances[k] ]_vars
=============================================================================
