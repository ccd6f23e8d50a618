----------------------------- MODULE MCDisputeCase -----------------------------
EXTENDS CasePlan, TLC
CONSTANTS m1, o1, s1, s2, ag

NoReports == {}

Report(cls, isFinal, disp, next) ==
  [cls |-> cls, final |-> isFinal, disp |-> disp, next |-> next]

SomeReports ==
  {Report("KNOWN", TRUE, "FINAL", FALSE), Report("UNKNOWN", FALSE, "VERIFY", FALSE),
   Report("KNOWN", FALSE, "WAIT", FALSE), Report("KNOWN", TRUE, "VERIFY", FALSE), Report("KNOWN", FALSE, "NEXT_STAGE", FALSE),
   Report("KNOWN", FALSE, "NEXT_STAGE", TRUE)}

\* Two starts: the intake of a case, with every command and three changes of
\* the evidence version to come; and the second stage at the moment the contest
\* is decided on again, with one item and one accepted package left from a first
\* stage that ran as the commands allow, with all but the people's housekeeping
\* and two more changes to come.
Contested == [verified |-> TRUE, allowed |-> Rights, required |-> Codes]
Left(a) == [active |-> TRUE, stages |-> {1}, code |-> CHOOSE c \in Codes : TRUE,
            auto |-> "SUPPORTED", content |-> "SUPPORTED", by |-> a]

SecondStage(a, b) ==
  /\ stage = 2 /\ work = "EVIDENCE_COLLECTING" /\ decision = "CONTEST"
  /\ eligibility = "CONFIRMED" /\ rule = Contested /\ clock = "EARLY" /\ auth = 2
  /\ version = 4 /\ evidence = [i \in Items |-> Left(a)] /\ reviewer = Nobody
  /\ packages = <<[stage |-> 1, rule |-> Contested, version |-> 2, status |-> "INVALIDATED",
                   index |-> evidence, approver |-> b, by |-> a]>>
  /\ submissions = <<[scenario |-> "ACCEPTED", acceptance |-> "MOCK_ACCEPTED", retry |-> FALSE]>>
  /\ acceptances = <<>>
  /\ tasks = {[type |-> "EVIDENCE", stage |-> 2], [type |-> "EVIDENCE_APPLICABILITY", stage |-> 2]}
  /\ preparers = {a} /\ assigned = a
  /\ events = <<[stage |-> 1, report |-> Report("KNOWN", FALSE, "NEXT_STAGE", TRUE),
                 previous |-> "WAITING_UPSTREAM", verification |-> "CONFIRMED"]>>
  /\ outcome = "UNKNOWN" /\ final = FALSE /\ outcomeVersion = 1
  /\ verifying = FALSE /\ pendingNext = FALSE /\ reopened = FALSE /\ resume = "NONE"
  /\ ledger = 0 /\ recorders = {} /\ finStatus = "PENDING" /\ notified = FALSE
  /\ recon = [outcome |-> 0, ledger |-> 0] /\ notice = [outcome |-> 0, ledger |-> 0]

ContestInit == Init \/ \E a, b \in Supervisors : a # b /\ SecondStage(a, b)

ContestStep ==
  \/ stage = 1 /\ Next /\ version' <= 3 /\ auth' <= 1
  \/ stage = 2 /\ (EvidenceStep \/ PackageStep \/ ChannelStep \/ RuleStep)

ContestSpec == ContestInit /\ [][ContestStep]_vars

\* The commands that bring outcomes in and end a case, over two stages; a case
\* waits for the upstream because its rights were given up.
OutcomeCommands ==
  \/ OutcomeStep \/ MoneyStep
  \/ \E a \in Staff : \/ PublishTask(a) \/ GiveUpRights(a, "FOLLOW_UP")
                      \/ \E t \in tasks : ResolveTask(a, t)

OutcomeSpec == Init /\ [][OutcomeCommands]_vars

\* The end of a case, told apart by who handles it: its rights and deadlines,
\* with every command of one stage but those about outcomes and assignment; or
\* its outcomes, as above, with time standing still.
EndInit == Init /\ (assigned \in Operators => clock = "EARLY")

EndStep ==
  \/ assigned \in Supervisors /\ Next /\ UNCHANGED <<assigned, stage, events, ledger>>
  \/ assigned \in Operators /\ OutcomeCommands /\ clock' = "EARLY"

EndSpec == EndInit /\ [][EndStep]_vars

\* The commands on the way to a status that is stale: rights are given up, a
\* report announces the next stage, the rule is confirmed again, an unclear report
\* is pending when that stage opens, and rejected when its package is frozen.
UnclearOrNext == {Report("UNKNOWN", FALSE, "VERIFY", FALSE), Report("KNOWN", FALSE, "NEXT_STAGE", FALSE)}

ReportTime ==
  CASE Len(events) = 0 -> work = "WAITING_UPSTREAM"
    [] Len(events) = 1 -> work = "EVIDENCE_COLLECTING" /\ pendingNext
    [] OTHER           -> \E n \in DOMAIN packages : packages[n].status = "FROZEN"

StaleStep ==
  \/ \E a \in Staff, r \in StageRules : \E c \in Deadlines(r) :
       \/ ReportTime /\ \E report \in Reports : RecordOutcome(a, report, stage, FALSE, r, c)
       \/ NextStage(a, r, c)
  \/ \E a \in Staff :
       \/ stage = 1 /\ GiveUpRights(a, "FOLLOW_UP")
       \/ stage = 1 /\ ConfirmRule(a, LibraryRule(TRUE), "EARLY")
       \/ \E n \in DOMAIN events : RejectOutcome(a, n)
       \/ PublishTask(a) \/ Review(a, "PASS") \/ BuildPackage(a)
       \/ \E n \in DOMAIN packages : ApprovePackage(a, n)
  \/ \E a \in Merchants :
       \/ MerchantDecide(a, "CONTEST") \/ SubmitEvidence(a)
       \/ stage = 2 /\ \E i \in Items, c \in Codes : RegisterEvidence(a, a, i, c, "SUPPORTED")

StaleSpec == Init /\ [][StaleStep]_vars

StaffSymmetry == Permutations({s1, s2})
=============================================================================
