------------------------------ MODULE PlanProofs ------------------------------
(***************************************************************************)
(* What people are told about a case is right where the case stands in its  *)
(* place, for any people, evidence, deadlines, reports and bounds.          *)
(*                                                                          *)
(* The plan looks at the status; whether its step is possible depends on    *)
(* the decision, the review, the packages and the requests.  So one more    *)
(* invariant of the case is needed: PlaceInv says what a status (and, in    *)
(* the first stage, the one a rejected report would bring back) says of the *)
(* rest of the case.  The gate's reasons are then dealt with one by one.    *)
(***************************************************************************)
EXTENDS DisputeCaseProofs, CasePlan, WellFoundedInduction

USE DEF rightsVars, fileVars, peopleVars, channelVars, eventVars, moneyVars

\* The statuses only a case that is contested can be in.
ContestWork ==
  {"EVIDENCE_COLLECTING", "MERCHANT_REVISION_REQUIRED", "OP_REVIEW",
   "SUBMISSION_PENDING_CONFIRMATION", "DOCUMENT_REVISION_REQUIRED", "ON_HOLD",
   "ACCEPT_RECOMMENDATION"}

\* The last package is live if any is.
LastIsLive ==
  (\E n \in DOMAIN packages : Live(packages[n])) => Live(packages[Len(packages)])

\* What a status says of the rest of the case.
Placed(status) ==
  /\ status \in ContestWork => decision = "CONTEST"
  /\ status = "DOCUMENT_REVISION_REQUIRED" => Reviewed
  /\ status = "READY_TO_SUBMIT" => Reviewed \/ RefusedBefore
  /\ status = "SUBMISSION_PENDING_CONFIRMATION" => Live(packages[Len(packages)])
  /\ status \in {"READY_TO_SUBMIT", "SUBMISSION_UNCERTAIN"} => LastIsLive
  /\ status \in {"RECEIVED", "TRIAGED", "MERCHANT_ACTION_REQUIRED"} =>
       decision \notin {"ACCEPT", "AUTHORIZED_WAIVER"} \/ pendingNext

PlaceInv ==
  /\ ~MayBeStale => Placed(work)
  /\ stage = 1 => Placed(resume)

\* A package of the present evidence version is one of a review still valid.
VersionInv ==
  \A n \in DOMAIN packages :
    /\ packages[n].version <= version /\ packages[n].stage <= stage
    /\ Current(packages[n]) => Reviewed

PlainInv ==
  /\ final => ~pendingNext /\ outcome = "KNOWN"
  /\ rule.verified => rule.allowed # {}
  /\ \A i \in Items : evidence[i].content = "NEEDS_MANUAL" => evidence[i].auto = "NEEDS_MANUAL"

\* A step adds a current package only under a valid review, and keeps what the others
\* are about; where the review is retired the version has moved past them.
LEMMA VersionStep ==
  ASSUME TypeOK, VersionInv, [Next]_vars
  PROVE  VersionInv'
<1>1. packages \in Seq(Package) /\ version \in Nat /\ stage \in Nat
  BY DEF TypeOK, FileType, RightsType
<1>2. \A n \in DOMAIN packages : packages[n] \in Package
  BY <1>1, ElementOfSeq, LenProperties
<1>3. \A n \in DOMAIN packages : packages[n].version \in Nat /\ packages[n].stage \in Nat
  BY <1>2 DEF Package
<1>4. stage' \in {stage, stage + 1}
  BY EveryStepStale DEF StaleStep
<1> DEFINE Settles(n) ==
             /\ packages'[n].version <= version'
             /\ packages'[n].stage <= stage'
             /\ Current(packages[n])' => Reviewed'
<1> SUFFICES ASSUME NEW n \in DOMAIN packages'
             PROVE  Settles(n)
  BY DEF VersionInv
<1>5. ASSUME n \in DOMAIN packages, packages'[n].version = packages[n].version,
             packages'[n].stage = packages[n].stage,
             \/ version' = version + 1
             \/ version' = version /\ stage' = stage /\ (Reviewed => Reviewed')
      PROVE  Settles(n)
  BY <1>1, <1>3, <1>4, <1>5 DEF VersionInv, Current
<1>6. CASE Invalidate
  <2>1. /\ n \in DOMAIN packages /\ packages'[n] = Retired(packages[n])
        /\ version' = version + 1
    BY <1>6 DEF Invalidate
  <2>2. packages'[n].version = packages[n].version /\ packages'[n].stage = packages[n].stage
    BY <1>2, <2>1 DEF Retired, Package
  <2> QED BY <1>5, <2>1, <2>2
<1>7. CASE UNCHANGED <<stage, rule, decision>> /\ Passes
  <2>1. reviewer' # Nobody
    BY <1>7, PeopleAssumption DEF Passes, Actors, People
  <2> QED BY <1>5, <1>7, <2>1 DEF Passes, Reviewed
<1>8. CASE UNCHANGED <<stage, rule, decision>> /\ Builds
  <2>1. PICK new : /\ packages' = Append(packages, new)
                   /\ new.version = version /\ new.stage = stage
    <3> DEFINE p(a) == [status |-> "DRAFT", version |-> version, stage |-> stage,
                        index |-> EvidenceIndex, rule |-> rule, by |-> a,
                        approver |-> Nobody]
    <3>1. \A a : p(a).version = version /\ p(a).stage = stage
      OBVIOUS
    <3>2. \E a \in Actors : packages' = Append(packages, p(a))
      BY <1>8 DEF Builds
    <3> HIDE DEF p
    <3> QED BY <3>1, <3>2
  <2>2. n \in 1..Len(packages) + 1
    BY <1>1, <2>1, AppendProperties, LenProperties
  <2>3. CASE n = Len(packages) + 1
    <3>1. packages'[n] = new
      BY <1>1, <2>1, <2>3, AppendProperties
    <3> QED BY <1>1, <1>8, <2>1, <3>1 DEF Builds, Reviewed
  <2>4. CASE n # Len(packages) + 1
    <3>1. n \in DOMAIN packages /\ packages'[n] = packages[n]
      BY <1>1, <2>1, <2>2, <2>4, AppendProperties, LenProperties
    <3> QED BY <1>5, <1>8, <3>1 DEF Builds, Reviewed
  <2> QED BY <2>3, <2>4
<1>9. CASE UNCHANGED <<stage, rule, decision>> /\ (Freezes \/ Voids \/ UNCHANGED fileVars)
  <2> DEFINE Same == /\ n \in DOMAIN packages
                     /\ packages'[n].version = packages[n].version
                     /\ packages'[n].stage = packages[n].stage
  <2>1. ASSUME NEW p \in DOMAIN packages, NEW a,
               packages' = [packages EXCEPT ![p].status = "FROZEN", ![p].approver = a]
        PROVE  Same
    BY <2>1
  <2>2. ASSUME NEW p \in DOMAIN packages,
               packages' = [packages EXCEPT ![p].status = "INVALIDATED"]
        PROVE  Same
    BY <2>2
  <2>3. ASSUME packages' = packages
        PROVE  Same
    BY <2>3
  <2>4. version' = version /\ stage' = stage /\ (Reviewed => Reviewed')
    BY <1>9 DEF Freezes, Voids, Reviewed
  <2> HIDE DEF Same
  <2>5. Same
    BY <1>9, <2>1, <2>2, <2>3 DEF Freezes, Voids
  <2> USE DEF Same
  <2> QED BY <1>5, <2>4, <2>5
<1> HIDE DEF Settles
<1> QED BY <1>6, <1>7, <1>8, <1>9, EveryStepFiles DEF FileStep

LEMMA PlainApplied ==
  ASSUME NEW report \in AllReports, NEW r \in StageRules, NEW c, ApplyOutcome(report, r, c)
  PROVE  /\ final' => ~pendingNext' /\ outcome' = "KNOWN"
         /\ rule' = rule \/ rule' = r
         /\ evidence' = evidence
<1>1. report.final \in BOOLEAN /\ report.next \in BOOLEAN
      /\ (report.final => ~report.next /\ report.disp \in {"FINAL", "VERIFY"})
  BY DEF AllReports
<1>2. CASE report.next
  BY <1>1, <1>2 DEF ApplyOutcome, EnterStage
<1>3. CASE ~report.next
  BY <1>1, <1>3 DEF ApplyOutcome
<1> QED BY <1>1, <1>2, <1>3

LEMMA OutcomePlain ==
  ASSUME TypeOK, PlainInv, OutcomeStep
  PROVE  PlainInv'
<1>1. ASSUME NEW r \in StageRules, rule' = rule \/ rule' = r, evidence' = evidence,
             final' => ~pendingNext' /\ outcome' = "KNOWN"
      PROVE  PlainInv'
  <2>1. r.verified => r.allowed # {}
    BY DEF StageRules, IntakeRules, LibraryRule, NoRule, Rights
  <2> QED BY <1>1, <2>1 DEF PlainInv
<1>2. ASSUME NEW r \in StageRules, NEW c, NEW report \in AllReports,
             ApplyOutcome(report, r, c)
      PROVE  PlainInv'
  BY <1>1, <1>2, PlainApplied
<1>3. ASSUME NEW a, NEW r \in StageRules, NEW c, NEW report \in AllReports, NEW s,
             NEW corrects, RecordOutcome(a, report, s, corrects, r, c)
      PROVE  PlainInv'
  <2>1. \/ ApplyOutcome(report, r, c)
        \/ UNCHANGED <<rule, evidence, final, pendingNext, outcome>>
    BY <1>3 DEF RecordOutcome
  <2> QED BY <1>2, <2>1 DEF PlainInv
<1>4. ASSUME NEW a, NEW r \in StageRules, NEW c, NEW n \in DOMAIN events,
             ConfirmOutcome(a, n, r, c)
      PROVE  PlainInv'
  <2>1. events[n] \in Event
    BY ElementOfSeq, LenProperties DEF TypeOK, EventType
  <2>2. \E report \in AllReports : ApplyOutcome(report, r, c)
    BY <1>4, <2>1 DEF ConfirmOutcome, Event
  <2> QED BY <1>2, <2>2
<1>5. ASSUME NEW a, NEW n \in DOMAIN events, RejectOutcome(a, n)
      PROVE  PlainInv'
  BY <1>5 DEF RejectOutcome, PlainInv
<1>6. ASSUME NEW a, NEW r \in StageRules, NEW c, NextStage(a, r, c)
      PROVE  PlainInv'
  BY <1>1, <1>6 DEF NextStage, EnterStage
<1>7. ASSUME NEW a, ReopenCase(a)
      PROVE  PlainInv'
  BY <1>7 DEF ReopenCase, PlainInv
<1> QED BY <1>3, <1>4, <1>5, <1>6, <1>7, Kinds DEF OutcomeStep

LEMMA ContestPlain ==
  ASSUME TypeOK, PlainInv, RuleStep \/ EvidenceStep \/ PackageStep \/ ChannelStep
  PROVE  PlainInv'
<1>1. UNCHANGED <<final, pendingNext, outcome>>
  BY RuleQuiet, EvidenceQuiet, PackageQuiet, ChannelQuiet DEF Quiet
<1>2. ASSUME rule' = rule \/ rule'.allowed # {}, evidence' = evidence
      PROVE  PlainInv'
  BY <1>1, <1>2 DEF PlainInv
<1>3. CASE RuleStep
  <2>1. (rule' = rule \/ rule'.allowed # {}) /\ evidence' = evidence
    BY <1>3 DEF RuleStep, ConfirmRule, PublishTask, MerchantDecide, RestoreRights, GiveUpRights
  <2> QED BY <1>2, <2>1
<1>4. CASE EvidenceStep
  <2> DEFINE Kept(ev) == \A i \in Items :
               ev[i].content = "NEEDS_MANUAL" => ev[i].auto = "NEEDS_MANUAL"
  <2>1. Kept(evidence)
    BY DEF PlainInv
  <2>2. evidence \in [Items -> Evidence]
    BY DEF TypeOK, FileType
  <2>3. ASSUME rule' = rule, Kept(evidence')
        PROVE  PlainInv'
    BY <1>1, <2>3 DEF PlainInv
  <2>4. ASSUME NEW a, NEW u, NEW i \in Items, NEW c, NEW check, RegisterEvidence(a, u, i, c, check)
        PROVE  PlainInv'
    BY <2>1, <2>2, <2>3, <2>4 DEF RegisterEvidence, ChangeEvidence
  <2>5. ASSUME NEW a, NEW i \in Items, NEW verdict \in {"SUPPORTED", "INSUFFICIENT"},
               ReviewContent(a, i, verdict)
        PROVE  PlainInv'
    <3>1. rule' = rule /\ evidence' = [evidence EXCEPT ![i].content = verdict]
      BY <2>5 DEF ReviewContent, ChangeEvidence
    <3> QED BY <2>1, <2>2, <2>3, <3>1 DEF Evidence
  <2>6. ASSUME NEW a, NEW i \in Items, WithdrawEvidence(a, i)
        PROVE  PlainInv'
    <3>1. rule' = rule /\ evidence' = [evidence EXCEPT ![i].active = FALSE]
      BY <2>6 DEF WithdrawEvidence, ChangeEvidence
    <3> QED BY <2>1, <2>2, <2>3, <3>1 DEF Evidence
  <2>7. ASSUME NEW a, NEW items, ReuseEvidence(a, items)
        PROVE  PlainInv'
    <3>1. rule' = rule
          /\ evidence' = [i \in Items |-> IF i \in items
               THEN [evidence[i] EXCEPT !.stages = @ \union {stage}] ELSE evidence[i]]
      BY <2>7 DEF ReuseEvidence
    <3>2. \A i \in Items : evidence'[i].content = evidence[i].content
                           /\ evidence'[i].auto = evidence[i].auto
      BY <2>2, <3>1 DEF Evidence
    <3> QED BY <2>1, <2>3, <3>1, <3>2
  <2>8. ASSUME NEW a, SubmitEvidence(a)
        PROVE  PlainInv'
    BY <1>2, <2>8 DEF SubmitEvidence
  <2>9. ASSUME NEW a, NEW verdict, Review(a, verdict)
        PROVE  PlainInv'
    BY <1>2, <2>9 DEF Review
  <2> QED BY <1>4, <2>4, <2>5, <2>6, <2>7, <2>8, <2>9 DEF EvidenceStep
<1>5. CASE PackageStep
  <2>1. rule' = rule /\ evidence' = evidence
    BY <1>5 DEF PackageStep, BuildPackage, ApprovePackage, FinalReturn, Submit, Invalidate
  <2> QED BY <1>2, <2>1
<1>6. CASE ChannelStep
  <2>1. ASSUME NEW a, NEW mode, NEW sc, ProcessAccept(a, mode, sc)
        PROVE  UNCHANGED <<rightsVars, fileVars>>
    BY <2>1 DEF ProcessAccept
  <2>2. rule' = rule /\ evidence' = evidence
    BY <1>6, <2>1 DEF ChannelStep, QuerySubmission, QueryAcceptance
  <2> QED BY <1>2, <2>2
<1> QED BY <1>3, <1>4, <1>5, <1>6

LEMMA PlainStep == TypeOK /\ PlainInv /\ [Next]_vars => PlainInv'
<1> SUFFICES ASSUME TypeOK, PlainInv, [Next]_vars
             PROVE  PlainInv'
  OBVIOUS
<1>1. CASE MoneyStep
  <2>1. UNCHANGED <<rule, evidence, final, pendingNext, outcome>>
    BY <1>1 DEF MoneyStep, RecordFinancial, Reconcile, NotifyMerchant, CloseCase
  <2> QED BY <2>1 DEF PlainInv
<1>2. CASE AnyTimeStep
  <2>1. UNCHANGED <<rule, evidence, final, pendingNext, outcome>>
    BY <1>2 DEF AnyTimeStep, MonitorSLA, ResolveTask, AssignCase, DuplicateIntake, Tick
  <2> QED BY <2>1 DEF PlainInv
<1>3. CASE UNCHANGED vars
  BY <1>3 DEF vars, PlainInv
<1> QED BY <1>1, <1>2, <1>3, OutcomePlain, ContestPlain DEF Next

\* Statuses that say nothing of the rest of the case.
Free == {"RESPONSE_REVIEW_REQUIRED", "ACCEPT_PROCESSING", "WAITING_UPSTREAM",
         "UPSTREAM_ACTION_REQUIRED", "OUTCOME_VERIFICATION", "FINANCIAL_RECONCILIATION",
         "CLOSED", "NONE"}

LEMMA FreePlaced == \A status \in Free : Placed(status) /\ Placed(status)'
BY DEF Placed, Free, ContestWork

LEMMA FreePlace ==
  ASSUME work' \in Free
  PROVE  Placed(work)'
BY DEF Placed, Free, ContestWork

LEMMA ContestPlace ==
  ASSUME decision' = "CONTEST",
         work' \in {"EVIDENCE_COLLECTING", "MERCHANT_REVISION_REQUIRED", "OP_REVIEW",
                    "ON_HOLD", "ACCEPT_RECOMMENDATION"}
  PROVE  Placed(work)'
BY DEF Placed

LEMMA WorkPlaced ==
  ASSUME NEW status, work' = status, Placed(status)'
  PROVE  Placed(work)'
BY DEF Placed

LEMMA ResumePlaced ==
  ASSUME NEW status, resume' = status, Placed(status)'
  PROVE  Placed(resume)'
BY DEF Placed

\* What a status rests on.
Ground == <<stage, decision, pendingNext, version, reviewer, packages, submissions>>

LEMMA PlacedKept ==
  ASSUME NEW status, Placed(status), UNCHANGED Ground
  PROVE  Placed(status)'
BY DEF Ground, Placed, LastIsLive, Live, RefusedBefore, Current, Reviewed

LEMMA PlaceKept ==
  ASSUME Placed(work), UNCHANGED Ground, work' = work
  PROVE  Placed(work)'
<1>1. PICK status : status = work
  OBVIOUS
<1>2. Placed(status)
  BY <1>1
<1> QED BY <1>1, <1>2, PlacedKept, WorkPlaced

\* Only a contest has live packages.
LEMMA LiveContested ==
  ASSUME PackageFresh, ReviewFresh, NEW n \in DOMAIN packages, Live(packages[n])
  PROVE  Reviewed /\ decision = "CONTEST"
BY DEF PackageFresh, ReviewFresh

\* Replacing the rule does not make a refused package a current one.
LEMMA RefusedKept ==
  ASSUME TypeOK, VersionInv, RefusedBefore, Invalidate, UNCHANGED <<stage, submissions>>
  PROVE  RefusedBefore'
<1>1. PICK n \in DOMAIN submissions : submissions[n].retry /\ ~Current(packages[n])
  BY DEF RefusedBefore
<1>2. n \in DOMAIN packages /\ packages \in Seq(Package)
  BY <1>1, LenProperties DEF TypeOK, FileType, ChannelType
<1>3. packages[n] \in Package
  BY <1>2, ElementOfSeq, LenProperties
<1>4. packages'[n] = Retired(packages[n]) /\ version' = version + 1
  BY <1>2 DEF Invalidate
<1>5. packages'[n].version = packages[n].version /\ packages[n].version \in Nat
  BY <1>3, <1>4 DEF Retired, Package
<1>6. packages[n].version <= version /\ version \in Nat
  BY <1>2 DEF VersionInv, TypeOK, FileType
<1>7. ~Current(packages[n])'
  BY <1>4, <1>5, <1>6 DEF Current
<1> QED BY <1>1, <1>7 DEF RefusedBefore

\* The invariants the placing of a status rests on.
CaseInv == TypeOK /\ OutcomeInv /\ WaitInv /\ PackageFresh /\ ReviewFresh /\ RightsInv
           /\ VersionInv /\ PlainInv

\* A command puts the case in its new place, if it was in its place before.
PlaceStep == ~MayBeStale /\ Placed(work) => Placed(work)'

LEMMA RulePlaces ==
  ASSUME CaseInv, RuleStep
  PROVE  PlaceStep
<1> SUFFICES ASSUME Placed(work)
             PROVE  Placed(work)'
  BY DEF PlaceStep
<1>1. ASSUME NEW a, NEW r, NEW c, ConfirmRule(a, r, c)
      PROVE  Placed(work)'
  <2>1. /\ Invalidate /\ work \in RuleStates
        /\ UNCHANGED <<stage, decision, pendingNext, submissions>>
    BY <1>1 DEF ConfirmRule
  <2>2. CASE decision = "CONTEST"
    <3>1. work' \in {"RESPONSE_REVIEW_REQUIRED", "EVIDENCE_COLLECTING"}
      BY <1>1, <2>2 DEF ConfirmRule
    <3> QED BY <2>1, <2>2, <3>1, FreePlace, ContestPlace DEF Free
  <2>3. CASE decision = "NONE"
    <3>1. work' = "TRIAGED"
      BY <1>1, <2>3 DEF ConfirmRule
    <3> QED BY <2>1, <2>3, <3>1 DEF Placed, ContestWork
  <2>4. CASE decision \notin {"NONE", "CONTEST"}
    <3>1. work' = work /\ work \notin ContestWork
      BY <1>1, <2>4 DEF ConfirmRule, Placed
    <3>2. LastIsLive'
      BY <2>1, InvalidateRetires DEF LastIsLive
    <3>3. work = "READY_TO_SUBMIT" => RefusedBefore'
      BY <2>1, <2>4, RefusedKept DEF Placed, CaseInv, ReviewFresh
    <3> QED BY <2>1, <3>1, <3>2, <3>3 DEF Placed, ContestWork
  <2> QED BY <2>2, <2>3, <2>4
<1>2. ASSUME NEW a, PublishTask(a)
      PROVE  Placed(work)'
  <2>1. UNCHANGED Ground /\ work \in PublishStates /\ ~pendingNext
    BY <1>2 DEF PublishTask, Ground, RuleReady
  <2>2. CASE decision = "CONTEST"
    BY <1>2, <2>1, <2>2, PlaceKept DEF PublishTask
  <2>3. CASE decision # "CONTEST"
    <3>1. work' = "MERCHANT_ACTION_REQUIRED" /\ decision \notin {"ACCEPT", "AUTHORIZED_WAIVER"}
      BY <1>2, <2>1, <2>3 DEF PublishTask, PublishStates, Placed, ContestWork
    <3> QED BY <2>1, <3>1 DEF Ground, Placed, ContestWork
  <2> QED BY <2>2, <2>3
<1>3. ASSUME NEW a, NEW d, MerchantDecide(a, d)
      PROVE  Placed(work)'
  <2>1. CASE d = "CONTEST"
    BY <1>3, <2>1, ContestPlace DEF MerchantDecide
  <2>2. CASE d # "CONTEST"
    BY <1>3, <2>2, FreePlace DEF MerchantDecide, Free
  <2> QED BY <2>1, <2>2
<1>4. ASSUME NEW a, NEW res \in {"RESTORE_DECISION", "RESTORE_EVIDENCE"},
             RestoreRights(a, res)
      PROVE  Placed(work)'
  <2>1. CASE res = "RESTORE_DECISION"
    BY <1>4, <2>1 DEF RestoreRights, Placed, ContestWork
  <2>2. CASE res = "RESTORE_EVIDENCE"
    BY <1>4, <2>2, ContestPlace DEF RestoreRights, ContestStands
  <2> QED BY <2>1, <2>2
<1>5. ASSUME NEW a, NEW res, GiveUpRights(a, res)
      PROVE  Placed(work)'
  BY <1>5, FreePlace DEF GiveUpRights, Free
<1> QED BY <1>1, <1>2, <1>3, <1>4, <1>5 DEF RuleStep

LEMMA EvidencePlaces ==
  ASSUME CaseInv, EvidenceStep
  PROVE  PlaceStep
<1> SUFFICES ASSUME Placed(work), ~MayBeStale
             PROVE  Placed(work)'
  BY DEF PlaceStep
<1>1. ASSUME NEW a, NEW ev, ContestReady, ChangeEvidence(a, ev)
      PROVE  Placed(work)'
  BY <1>1, ContestPlace DEF ContestReady, ChangeEvidence
<1>2. ASSUME NEW a, NEW items, ReuseEvidence(a, items)
      PROVE  Placed(work)'
  <2>1. UNCHANGED <<decision, pendingNext>> /\ work \in PublishStates
    BY <1>2 DEF ReuseEvidence
  <2>2. CASE decision = "CONTEST"
    BY <1>2, <2>1, <2>2, ContestPlace DEF ReuseEvidence
  <2>3. CASE decision # "CONTEST"
    <3>1. work' = work /\ work \in {"RECEIVED", "TRIAGED", "MERCHANT_ACTION_REQUIRED"}
      BY <1>2, <2>1, <2>3 DEF ReuseEvidence, PublishStates, Placed, ContestWork
    <3> QED BY <2>1, <3>1 DEF Placed, ContestWork
  <2> QED BY <2>2, <2>3
<1>3. ASSUME NEW a, SubmitEvidence(a)
      PROVE  Placed(work)'
  BY <1>3, ContestPlace DEF SubmitEvidence, ContestReady
<1>4. ASSUME NEW a, NEW verdict, Review(a, verdict)
      PROVE  Placed(work)'
  <2>1. decision' = "CONTEST" /\ work = "OP_REVIEW" /\ packages' = packages
    BY <1>4 DEF Review, ContestReady
  <2>2. CASE verdict = "PASS"
    <3>1. a \in Staff /\ work' = "READY_TO_SUBMIT" /\ reviewer' = a
      BY <1>4, <2>2 DEF Review
    <3>2. Reviewed'
      BY <3>1, PeopleAssumption DEF Reviewed, Actors, People
    <3>3. ~Reviewed
      BY <2>1 DEF CaseInv, WaitInv, ReviewInv, Collecting
    <3>4. LastIsLive'
      BY <2>1, <3>3, LiveContested DEF CaseInv, LastIsLive, Live
    <3> QED BY <3>1, <3>2, <3>4 DEF Placed, ContestWork
  <2>3. CASE verdict # "PASS"
    BY <1>4, <2>1, <2>3, ContestPlace DEF Review
  <2> QED BY <2>2, <2>3
<1> QED BY <1>1, <1>2, <1>3, <1>4 DEF EvidenceStep, RegisterEvidence, ReviewContent,
           WithdrawEvidence

LEMMA PackagePlaces ==
  ASSUME CaseInv, PackageStep
  PROVE  PlaceStep
<1> SUFFICES ASSUME Placed(work)
             PROVE  Placed(work)'
  BY DEF PlaceStep
<1>1. packages \in Seq(Package)
  BY DEF CaseInv, TypeOK, FileType
<1>2. ASSUME NEW a, BuildPackage(a)
      PROVE  Placed(work)'
  <2>1. PICK new : packages' = Append(packages, new) /\ new.status = "DRAFT"
    <3> DEFINE p == [status |-> "DRAFT", version |-> version, stage |-> stage,
                     index |-> EvidenceIndex, rule |-> rule, by |-> a, approver |-> Nobody]
    <3>1. packages' = Append(packages, p) /\ p.status = "DRAFT"
      BY <1>2 DEF BuildPackage
    <3> HIDE DEF p
    <3> QED BY <3>1
  <2>2. packages'[Len(packages')].status = "DRAFT"
    <3>1. Len(packages') = Len(packages) + 1 /\ packages'[Len(packages) + 1] = new
      BY <1>1, <2>1, AppendProperties, LenProperties
    <3> QED BY <2>1, <3>1
  <2>3. work' = "SUBMISSION_PENDING_CONFIRMATION" /\ decision' = "CONTEST"
    BY <1>2 DEF BuildPackage, ContestReady
  <2> QED BY <2>2, <2>3 DEF Placed, Live
<1>3. ASSUME NEW a, NEW p \in DOMAIN packages, ApprovePackage(a, p)
      PROVE  Placed(work)'
  <2>1. /\ work = "SUBMISSION_PENDING_CONFIRMATION" /\ work' = "READY_TO_SUBMIT"
        /\ Reviewed /\ reviewer' = reviewer
        /\ packages' = [packages EXCEPT ![p].status = "FROZEN", ![p].approver = a]
    BY <1>3 DEF ApprovePackage
  <2>2. Live(packages[Len(packages)]) /\ packages[p] \in Package
    BY <1>1, <2>1, ElementOfSeq, LenProperties DEF Placed
  <2>3. Len(packages') = Len(packages)
    BY <1>1, <2>1, PackageReplaced
  <2>4. Live(packages'[Len(packages)])
    <3>1. CASE p = Len(packages)
      BY <2>1, <2>2, <3>1 DEF Live, Package
    <3>2. CASE p # Len(packages)
      <4>1. packages'[Len(packages)] = packages[Len(packages)]
        <5>1. Len(packages) \in DOMAIN packages
          BY <1>1, LenProperties
        <5> QED BY <2>1, <3>2, <5>1
      <4> QED BY <2>2, <4>1
    <3> QED BY <3>1, <3>2
  <2> QED BY <2>1, <2>3, <2>4 DEF Placed, ContestWork, LastIsLive, Live, Reviewed
<1>4. ASSUME NEW a, NEW p \in DOMAIN packages,
             NEW verdict \in {"RETURN_MATERIALS", "RETURN_DOCUMENT", "RECOMMEND_ACCEPT", "HOLD"},
             FinalReturn(a, p, verdict)
      PROVE  Placed(work)'
  <2>1. decision' = "CONTEST" /\ Current(packages[p])
    BY <1>4 DEF FinalReturn, ContestReady
  <2>2. CASE verdict = "RETURN_DOCUMENT"
    <3>1. work' = "DOCUMENT_REVISION_REQUIRED" /\ reviewer' = reviewer
      BY <1>4, <2>2 DEF FinalReturn
    <3>2. Reviewed
      BY <2>1 DEF CaseInv, VersionInv
    <3> QED BY <2>1, <3>1, <3>2 DEF Placed, Reviewed
  <2>3. CASE verdict # "RETURN_DOCUMENT"
    BY <1>4, <2>1, <2>3, ContestPlace DEF FinalReturn
  <2> QED BY <2>2, <2>3
<1>5. ASSUME NEW a, NEW p, NEW sc, Submit(a, p, sc)
      PROVE  Placed(work)'
  <2>1. work = "READY_TO_SUBMIT" /\ packages' = packages
        /\ work' \in {"WAITING_UPSTREAM", "SUBMISSION_UNCERTAIN"}
    BY <1>5 DEF Submit, Await
  <2>2. LastIsLive'
    BY <2>1 DEF Placed, LastIsLive, Live
  <2> QED BY <2>1, <2>2 DEF Placed, ContestWork
<1> QED BY <1>2, <1>3, <1>4, <1>5 DEF PackageStep

LEMMA ChannelPlaces ==
  ASSUME CaseInv, ChannelStep
  PROVE  PlaceStep
<1> SUFFICES ASSUME Placed(work)
             PROVE  Placed(work)'
  BY DEF PlaceStep
<1>1. ASSUME NEW a, NEW p \in DOMAIN submissions,
             NEW answer \in {"ACCEPTED", "NOT_ACCEPTED", "UNKNOWN"}, QuerySubmission(a, p, answer)
      PROVE  Placed(work)'
  <2>1. /\ work = "SUBMISSION_UNCERTAIN" /\ UNCHANGED <<rightsVars, fileVars>>
        /\ submissions' = [submissions EXCEPT ![p] = Queried(@, answer)]
        /\ Answered(answer, "READY_TO_SUBMIT")
    BY <1>1 DEF QuerySubmission
  <2>2. LastIsLive'
    BY <2>1 DEF Placed, LastIsLive, Live
  <2>3. CASE answer = "NOT_ACCEPTED"
    <3>1. p \in DOMAIN packages /\ submissions[p] \in Receipt
      BY ElementOfSeq, LenProperties DEF CaseInv, TypeOK, FileType, ChannelType
    <3>2. p \in DOMAIN submissions' /\ submissions'[p].retry
      BY <2>1, <2>3, <3>1 DEF Queried, Receipt
    <3>3. Current(packages[p]) => Reviewed
      BY <3>1 DEF CaseInv, VersionInv
    <3>4. Reviewed' \/ RefusedBefore'
      BY <2>1, <3>2, <3>3 DEF Reviewed, RefusedBefore, Current
    <3> QED BY <2>1, <2>2, <2>3, <3>4 DEF Answered, Placed, ContestWork
  <2>4. CASE answer # "NOT_ACCEPTED"
    BY <2>1, <2>2, <2>4 DEF Answered, Placed, ContestWork
  <2> QED BY <2>3, <2>4
<1>2. ASSUME NEW a, NEW k, NEW answer \in {"ACCEPTED", "NOT_ACCEPTED", "UNKNOWN"},
             QueryAcceptance(a, k, answer)
      PROVE  Placed(work)'
  <2>1. work = "SUBMISSION_UNCERTAIN" /\ UNCHANGED <<rightsVars, fileVars>>
        /\ Answered(answer, "ACCEPT_PROCESSING")
    BY <1>2 DEF QueryAcceptance
  <2>2. LastIsLive'
    BY <2>1 DEF Placed, LastIsLive, Live
  <2> QED BY <2>1, <2>2 DEF Answered, Placed, ContestWork
<1>3. ASSUME NEW a, NEW mode, NEW sc, ProcessAccept(a, mode, sc)
      PROVE  Placed(work)'
  <2>1. /\ decision # "CONTEST" /\ packages' = packages
        /\ work' \in {"WAITING_UPSTREAM", "SUBMISSION_UNCERTAIN"}
    BY <1>3 DEF ProcessAccept, Await
  <2>2. LastIsLive'
    BY <2>1, LiveContested DEF CaseInv, LastIsLive, Live
  <2> QED BY <2>1, <2>2 DEF Placed, ContestWork
<1> QED BY <1>1, <1>2, <1>3 DEF ChannelStep

LEMMA QuietPlaces ==
  ASSUME CaseInv, PlaceInv, Quiet, PlaceStep
  PROVE  PlaceInv'
<1>1. MayBeStale' = MayBeStale
  BY DEF Quiet, MayBeStale
<1>2. stage' = 1 => resume' = "NONE"
  BY DEF CaseInv, WaitInv, Quiet, Over
<1>3. Placed("NONE")'
  BY FreePlaced DEF Free
<1> QED BY <1>1, <1>2, <1>3, ResumePlaced DEF PlaceInv, PlaceStep

\* Where a confirmed report leads, the case is in its place.
LEMMA AppliedPlace ==
  ASSUME NEW report \in AllReports, NEW r, NEW c, ApplyOutcome(report, r, c),
         NEW status, status = OutcomeWork(report, r)
  PROVE  Placed(status)'
<1>1. report.final \in BOOLEAN /\ report.next \in BOOLEAN
  BY DEF AllReports
<1>2. status \in {"FINANCIAL_RECONCILIATION", "RECEIVED", "TRIAGED",
                  "UPSTREAM_ACTION_REQUIRED", "WAITING_UPSTREAM"}
  BY DEF OutcomeWork, EntryWork
<1>3. CASE status \in {"RECEIVED", "TRIAGED"}
  <2>1. CASE report.next
    <3>1. decision' = "NONE"
      BY <2>1 DEF ApplyOutcome, EnterStage
    <3> QED BY <1>3, <3>1 DEF Placed, ContestWork
  <2>2. CASE ~report.next
    <3>1. report.disp = "NEXT_STAGE"
      BY <1>1, <1>3, <2>2 DEF OutcomeWork
    <3>2. pendingNext'
      BY <2>2, <3>1 DEF ApplyOutcome
    <3> QED BY <1>3, <3>2 DEF Placed, ContestWork
  <2> QED BY <1>1, <2>1, <2>2
<1>4. CASE status \notin {"RECEIVED", "TRIAGED"}
  BY <1>2, <1>4, FreePlaced DEF Free
<1> QED BY <1>3, <1>4

LEMMA RecordPlaces ==
  ASSUME CaseInv, PlaceInv, NEW a, NEW report \in AllReports, NEW s, NEW corrects,
         NEW r, NEW c, RecordOutcome(a, report, s, corrects, r, c)
  PROVE  PlaceInv'
<1> DEFINE unclear == \/ report.disp = "VERIFY" \/ report.cls # "KNOWN"
                      \/ corrects \/ s # stage
                      \/ work \notin {"WAITING_UPSTREAM", "UPSTREAM_ACTION_REQUIRED"}
<1> HIDE DEF unclear
<1>1. stage \in Nat
  BY DEF CaseInv, TypeOK, RightsType
<1>2. CASE unclear
  <2>1. /\ resume' = IF resume = "NONE" THEN work ELSE resume
        /\ work' = "OUTCOME_VERIFICATION"
        /\ UNCHANGED Ground
    BY <1>2 DEF RecordOutcome, Ground, unclear
  <2>2. PICK status : status = IF resume = "NONE" THEN work ELSE resume
    OBVIOUS
  <2>3. stage = 1 => Placed(status)
    <3>1. CASE resume = "NONE"
      <4>1. status = work
        BY <2>2, <3>1
      <4>2. stage = 1 => ~MayBeStale
        BY DEF MayBeStale
      <4> QED BY <4>1, <4>2 DEF PlaceInv
    <3>2. CASE resume # "NONE"
      <4>1. status = resume
        BY <2>2, <3>2
      <4> QED BY <4>1 DEF PlaceInv
    <3> QED BY <3>1, <3>2
  <2>4. stage' = 1 => Placed(status)'
    BY <2>1, <2>3, PlacedKept DEF Ground
  <2>5. Placed(work)'
    BY <2>1, FreePlace DEF Free
  <2> QED BY <2>1, <2>2, <2>4, <2>5, ResumePlaced DEF PlaceInv
<1>3. CASE ~unclear
  <2>1. /\ ApplyOutcome(report, r, c)
        /\ work' = OutcomeWork(report, r)
        /\ resume' = IF resume = "NONE" THEN "NONE" ELSE work'
        /\ work # "OUTCOME_VERIFICATION"
    BY <1>3 DEF RecordOutcome, unclear
  <2>2. PICK status : status = OutcomeWork(report, r)
    OBVIOUS
  <2>3. Placed(status)' /\ Placed("NONE")'
    BY <2>1, <2>2, AppliedPlace, FreePlaced DEF Free
  <2>4. stage' = 1 => resume' = "NONE"
    <3>1. stage' \in {stage, stage + 1}
      BY <2>1, AppliedStage
    <3> QED BY <1>1, <2>1, <3>1 DEF CaseInv, TypeOK, RightsType, WaitInv
  <2> QED BY <2>1, <2>2, <2>3, <2>4, WorkPlaced, ResumePlaced DEF PlaceInv
<1> QED BY <1>2, <1>3

LEMMA ConfirmPlaces ==
  ASSUME CaseInv, NEW a, NEW n \in DOMAIN events, NEW r, NEW c, ConfirmOutcome(a, n, r, c)
  PROVE  PlaceInv'
<1> DEFINE report == events[n].report
<1>1. report \in AllReports
  <2>1. events[n] \in Event
    BY ElementOfSeq, LenProperties DEF CaseInv, TypeOK, EventType
  <2> QED BY <2>1 DEF Event
<1>2. /\ ApplyOutcome(report, r, c)
      /\ Settle(n, "CONFIRMED", OutcomeWork(report, r), OutcomeTasks(report))
      /\ resume' = IF verifying' /\ resume # "NONE"
                     THEN OutcomeWork(report, r) ELSE "NONE"
  BY DEF ConfirmOutcome
<1> HIDE DEF report
<1>3. PICK status : status = OutcomeWork(report, r)
  OBVIOUS
<1>4. work' \in {"OUTCOME_VERIFICATION", status} /\ resume' \in {"NONE", status}
  BY <1>2, <1>3 DEF Settle
<1>5. Placed(status)' /\ Placed("NONE")' /\ Placed("OUTCOME_VERIFICATION")'
  BY <1>1, <1>2, <1>3, AppliedPlace, FreePlaced DEF Free
<1> QED BY <1>4, <1>5, WorkPlaced, ResumePlaced DEF PlaceInv

LEMMA RejectPlaces ==
  ASSUME CaseInv, PlaceInv, NEW a, NEW n \in DOMAIN events, RejectOutcome(a, n)
  PROVE  PlaceInv'
<1>1. work = "OUTCOME_VERIFICATION" /\ Pending(n) /\ stage \in Nat \ {0}
  BY DEF CaseInv, RejectOutcome, TypeOK, RightsType
<1>2. resume # "NONE"
  BY <1>1 DEF CaseInv, OutcomeInv, ResumeInv
<1>3. /\ Settle(n, "REJECTED", resume, tasks)
      /\ resume' = IF verifying' THEN resume ELSE "NONE"
      /\ UNCHANGED Ground
  BY <1>2 DEF RejectOutcome, Ground
<1>4. /\ work' = IF verifying' THEN "OUTCOME_VERIFICATION" ELSE resume
      /\ n \in DOMAIN events' /\ events'[n].verification = "REJECTED"
  BY <1>1, <1>3, SettleWaits DEF CaseInv
<1>5. (~MayBeStale' => stage = 1) /\ stage' = stage
  BY <1>1, <1>3, <1>4 DEF MayBeStale, Ground
<1>6. PICK status : status = resume
  OBVIOUS
<1>7. stage = 1 => Placed(status)'
  <2>1. stage = 1 => Placed(status)
    BY <1>6 DEF PlaceInv
  <2> QED BY <1>3, <2>1, PlacedKept
<1>8. Placed("NONE")' /\ Placed("OUTCOME_VERIFICATION")'
  BY FreePlaced DEF Free
<1> QED BY <1>3, <1>4, <1>5, <1>6, <1>7, <1>8, WorkPlaced, ResumePlaced DEF PlaceInv

LEMMA NextStagePlaces ==
  ASSUME CaseInv, NEW a, NEW r, NEW c, NextStage(a, r, c)
  PROVE  PlaceInv'
<1>1. work' \in {"TRIAGED", "RECEIVED"} /\ stage' = stage + 1 /\ decision' = "NONE"
  BY DEF NextStage, EnterStage, EntryWork
<1>2. stage' # 1
  BY <1>1 DEF CaseInv, TypeOK, RightsType
<1> QED BY <1>1, <1>2 DEF PlaceInv, Placed, ContestWork

LEMMA ReopenPlaces ==
  ASSUME CaseInv, NEW a, ReopenCase(a)
  PROVE  PlaceInv'
<1>1. /\ work # "OUTCOME_VERIFICATION" /\ work' = "WAITING_UPSTREAM"
      /\ UNCHANGED <<stage, resume>>
  BY DEF ReopenCase
<1>2. stage' = 1 => resume' = "NONE"
  BY <1>1 DEF CaseInv, WaitInv
<1> QED BY <1>1, <1>2, FreePlace, FreePlaced, ResumePlaced DEF PlaceInv, Free

\* What leaves the status and what it rests on alone.
LEMMA FramePlaces ==
  ASSUME PlaceInv, UNCHANGED <<work, resume, events, Ground>>
  PROVE  PlaceInv'
<1>1. MayBeStale' = MayBeStale
  BY DEF MayBeStale, Ground
<1>2. PICK status : status = resume
  OBVIOUS
<1>3. stage' = 1 => Placed(status)'
  <2>1. stage' = 1 => Placed(status)
    BY <1>2 DEF PlaceInv, Ground
  <2> QED BY <2>1, PlacedKept
<1>4. ~MayBeStale' => Placed(work)'
  BY <1>1, PlaceKept DEF PlaceInv
<1> QED BY <1>2, <1>3, <1>4, ResumePlaced DEF PlaceInv

LEMMA MoneyPlaces ==
  ASSUME CaseInv, PlaceInv, MoneyStep
  PROVE  PlaceInv'
<1>1. ASSUME NEW a, RecordFinancial(a)
      PROVE  PlaceInv'
  BY <1>1, FramePlaces DEF RecordFinancial, Ground
<1>2. ASSUME NEW a, NEW status, Reconcile(a, status)
      PROVE  PlaceInv'
  BY <1>2, FramePlaces DEF Reconcile, Ground
<1>3. ASSUME NEW a, NotifyMerchant(a)
      PROVE  PlaceInv'
  BY <1>3, FramePlaces DEF NotifyMerchant, Ground
<1>4. ASSUME NEW a, CloseCase(a)
      PROVE  PlaceInv'
  <2>1. work' = "CLOSED" /\ ~verifying /\ UNCHANGED <<stage, resume>>
    BY <1>4 DEF CloseCase, NoBlockers
  <2>2. stage' = 1 => resume' = "NONE"
    BY <2>1 DEF CaseInv, WaitInv, OutcomeInv, ResumeInv
  <2> QED BY <2>1, <2>2, FreePlace, FreePlaced, ResumePlaced DEF PlaceInv, Free
<1> QED BY <1>1, <1>2, <1>3, <1>4 DEF MoneyStep

LEMMA AnyTimePlaces ==
  ASSUME PlaceInv, AnyTimeStep
  PROVE  PlaceInv'
<1>1. UNCHANGED <<work, resume, events, Ground>>
  BY DEF AnyTimeStep, MonitorSLA, ResolveTask, AssignCase, DuplicateIntake, Tick, Ground
<1> QED BY <1>1, FramePlaces

LEMMA PlaceInvStep == CaseInv /\ PlaceInv /\ [Next]_vars => PlaceInv'
<1> SUFFICES ASSUME CaseInv, PlaceInv, [Next]_vars
             PROVE  PlaceInv'
  OBVIOUS
<1>1. CASE RuleStep \/ EvidenceStep \/ PackageStep \/ ChannelStep
  BY <1>1, RuleQuiet, EvidenceQuiet, PackageQuiet, ChannelQuiet, RulePlaces,
     EvidencePlaces, PackagePlaces, ChannelPlaces, QuietPlaces
<1>2. CASE OutcomeStep
  BY <1>2, Kinds, RecordPlaces, ConfirmPlaces, RejectPlaces, NextStagePlaces, ReopenPlaces
     DEF OutcomeStep
<1>3. CASE UNCHANGED vars
  BY <1>3, FramePlaces DEF vars, Ground
<1> QED BY <1>1, <1>2, <1>3, MoneyPlaces, AnyTimePlaces DEF Next

LEMMA InitPlaces == Init => RightsInv /\ VersionInv /\ PlainInv /\ PlaceInv
<1> SUFFICES ASSUME Init
             PROVE  RightsInv /\ VersionInv /\ PlainInv /\ PlaceInv
  OBVIOUS
<1>1. rule.verified => rule.allowed # {}
  BY DEF Init, IntakeRules, LibraryRule, NoRule, Rights
<1>2. PlainInv
  BY <1>1 DEF Init, PlainInv, NoItem
<1>3. VersionInv
  BY DEF Init, VersionInv
<1>4. PlaceInv
  BY FreePlaced DEF Init, EntryWork, PlaceInv, Placed, ContestWork, Free
<1> QED BY <1>2, <1>3, <1>4 DEF Init, RightsInv, ContestHasRights

\* Where the case stands, what its file and its rule hold: all the properties below
\* rest on.
LEMMA CaseHolds == Spec => []CaseInv
<1>1. Init => RightsInv /\ VersionInv /\ PlainInv
  BY InitPlaces
<1>2. TypeOK /\ VersionInv /\ [Next]_vars => VersionInv'
  BY VersionStep
<1>3. RightsInv /\ [Next]_vars => RightsInv'
  BY RightsStep
<1>4. TypeOK /\ PlainInv /\ [Next]_vars => PlainInv'
  BY PlainStep
<1>5. TypeOK /\ OutcomeInv /\ WaitInv /\ PackageFresh /\ ReviewFresh /\ RightsInv
      /\ VersionInv /\ PlainInv => CaseInv
  BY DEF CaseInv
<1> QED BY <1>1, <1>2, <1>3, <1>4, <1>5, TypeCorrect, OutcomesHold, StatusesFit,
           PackagesAreFresh, ReviewsAreFresh, PTL DEF Spec

\* In every reachable case the present status, and in the first stage the one a
\* rejection would bring back, is one its decision, its review, its packages and its
\* requests can have led to.
THEOREM StatusesInPlace == Spec => []PlaceInv
<1>1. Init => PlaceInv
  BY InitPlaces
<1> QED BY <1>1, PlaceInvStep, CaseHolds, PTL DEF Spec

-----------------------------------------------------------------------------
\* What the gate says of an action, code by code.
LEMMA ObjectsAre ==
  ASSUME NEW action, NEW a
  PROVE  /\ Objects("FORBIDDEN", action, a) <=> RoleOf(a) \notin ActionRoles[action]
         /\ Objects("CASE_CLOSED", action, a) <=>
              work = "CLOSED" /\ action # "KNOWLEDGE_CANDIDATE"
         /\ Objects("CONTEST_NOT_ELIGIBLE", action, a) <=>
              /\ action \in ContestActions_
              /\ ~(decision = "CONTEST" /\ "CONTEST" \in rule.allowed
                   /\ eligibility = "CONFIRMED")
         /\ Objects("RULE_CONFIRMATION_REQUIRED", action, a) <=>
              action \in RuleActions /\ ~rule.verified
         /\ Objects("NEXT_STAGE_REQUIRED", action, a) <=> action \in RuleActions /\ pendingNext
         /\ Objects("INVALID_STATE", action, a) <=>
              \/ action \in DOMAIN States /\ work \notin States[action]
              \/ action = "RECORD_OUTCOME" /\ final /\ ~reopened
         /\ Objects("CONTENT_REVIEW_NOT_REQUIRED", action, a) <=>
              action = "REVIEW_EVIDENCE_CONTENT" /\ Readable(a) = {}
         /\ Objects("FINALITY_REQUIRED", action, a) <=>
              action = "RECONCILE" /\ (~final \/ verifying)
         /\ Objects("RESPONSE_REVIEW_REQUIRED", action, a) <=>
              action = "MERCHANT_DECISION" /\ Choices(a) = {}
         /\ Objects("CONTENT_CHECK_REQUIRED", action, a) <=>
              action \in FileActions /\ ~ContentClear
         /\ Objects("MISSING_EVIDENCE", action, a) <=> action \in FileActions /\ Missing # {}
         /\ Objects("REVIEW_REQUIRED", action, a) <=>
              action \in FileActions \ {"SUBMIT_EVIDENCE"} /\ ~Reviewed
         /\ Objects("FINAL_REVIEW_REQUIRED", action, a) <=> action = "SUBMIT" /\ ~NewestFrozen
         /\ Objects("NEXT_STAGE_NOT_CONFIRMED", action, a) <=>
              action = "NEXT_STAGE" /\ ~pendingNext
         /\ Objects("CLOSE_BLOCKED", action, a) <=> action = "CLOSE" /\ ~NoBlockers
BY DEF Objects

\* So nothing is said but what is among said, if each code is either not called for or
\* said.
LEMMA GateSays ==
  ASSUME NEW action, NEW a, NEW said,
         "EXTERNAL_DEADLINE_EXPIRED" \in said, "REVIEWER_SEPARATION_REQUIRED" \in said,
         RoleOf(a) \in ActionRoles[action],
         work = "CLOSED" => action = "KNOWLEDGE_CANDIDATE" \/ "CASE_CLOSED" \in said,
         action \in ContestActions_ =>
           decision = "CONTEST" /\ "CONTEST" \in rule.allowed /\ eligibility = "CONFIRMED",
         action \in RuleActions => rule.verified /\ ~pendingNext,
         action \in DOMAIN States => work \in States[action] \/ "INVALID_STATE" \in said,
         action = "RECORD_OUTCOME" => ~final,
         action = "REVIEW_EVIDENCE_CONTENT" =>
           Readable(a) # {} \/ "CONTENT_REVIEW_NOT_REQUIRED" \in said,
         action = "RECONCILE" => final /\ ~verifying,
         action = "MERCHANT_DECISION" => Choices(a) # {},
         action \in FileActions =>
           Missing = {} /\ (ContentClear \/ "CONTENT_CHECK_REQUIRED" \in said),
         action \in FileActions \ {"SUBMIT_EVIDENCE"} => Reviewed,
         action = "SUBMIT" => NewestFrozen \/ "FINAL_REVIEW_REQUIRED" \in said,
         action = "NEXT_STAGE" => pendingNext,
         action = "CLOSE" => NoBlockers \/ "CLOSE_BLOCKED" \in said
  PROVE  Gate(action, a) \subseteq said
<1> SUFFICES ASSUME NEW code \in GateCodes, Objects(code, action, a)
             PROVE  code \in said
  BY DEF Gate
<1>1. CASE code \in {"FORBIDDEN", "CASE_CLOSED", "CONTEST_NOT_ELIGIBLE",
                     "RULE_CONFIRMATION_REQUIRED", "NEXT_STAGE_REQUIRED"}
  BY <1>1, ObjectsAre
<1>2. CASE code \in {"INVALID_STATE", "CONTENT_REVIEW_NOT_REQUIRED", "FINALITY_REQUIRED",
                     "RESPONSE_REVIEW_REQUIRED"}
  BY <1>2, ObjectsAre
<1>3. CASE code \in {"CONTENT_CHECK_REQUIRED", "MISSING_EVIDENCE", "REVIEW_REQUIRED"}
  BY <1>3, ObjectsAre
<1>4. CASE code \in {"FINAL_REVIEW_REQUIRED", "NEXT_STAGE_NOT_CONFIRMED", "CLOSE_BLOCKED",
                     "EXTERNAL_DEADLINE_EXPIRED", "REVIEWER_SEPARATION_REQUIRED"}
  BY <1>4, ObjectsAre
<1> QED BY <1>1, <1>2, <1>3, <1>4 DEF GateCodes

\* What is understood.
LEMMA AlwaysUnderstood ==
  ASSUME NEW team
  PROVE  /\ "EXTERNAL_DEADLINE_EXPIRED" \in Understood(team)
         /\ "REVIEWER_SEPARATION_REQUIRED" \in Understood(team)
         /\ Plan.action \in Overrides =>
              "INVALID_STATE" \in Understood(team) /\ "CASE_CLOSED" \in Understood(team)
         /\ tasks # {} => "CLOSE_BLOCKED" \in Understood(team)
         /\ (\E u \in team : team = {u}) => "CONTENT_REVIEW_NOT_REQUIRED" \in Understood(team)
         /\ Plan.action = "SUBMIT_EVIDENCE"
            /\ (\E i \in Applicable(evidence, stage) : evidence[i].content = "INSUFFICIENT")
              => "CONTENT_CHECK_REQUIRED" \in Understood(team)
         /\ (\E n \in DOMAIN packages : packages[n].status = "DRAFT")
              => "FINAL_REVIEW_REQUIRED" \in Understood(team)
BY DEF Understood

\* Nothing of what overrides the table first is the case.
Settling == ~verifying /\ eligibility = "CONFIRMED" /\ ~pendingNext

\* A file of a contest is still to be read by somebody.
Unread ==
  /\ rule.verified /\ work \in EvidenceStates
  /\ \E i \in Applicable(evidence, stage) : evidence[i].content = "NEEDS_MANUAL"

Complete ==
  MissingRequired = {} /\ work \in {"EVIDENCE_COLLECTING", "MERCHANT_REVISION_REQUIRED"}

Sendables ==
  work = "READY_TO_SUBMIT" /\ \E n \in DOMAIN packages : packages[n].status = "FROZEN"

LEMMA PlanIs ==
  \/ Plan.action \in Overrides
  \/ ~verifying /\ pendingNext /\ Plan = By("OPERATOR", "NEXT_STAGE")
  \/ Settling /\ Unread /\ Plan = By("OPERATOR", "REVIEW_EVIDENCE_CONTENT")
  \/ Settling /\ ~Unread /\ Complete /\ Plan = By("MERCHANT", "SUBMIT_EVIDENCE")
  \/ Settling /\ Settled /\ work # "CLOSED" /\ Plan = LastStep
  \/ Settling /\ Sendables /\ Plan = By("OPERATOR", "SUBMIT")
  \/ /\ Settling /\ ~Unread /\ ~Complete /\ ~(Settled /\ work # "CLOSED") /\ ~Sendables
     /\ rule.verified /\ Plan = NextOf(work)
<1>1. CASE verifying \/ eligibility # "CONFIRMED"
  BY <1>1 DEF Plan, By, Overrides
<1>2. CASE ~verifying /\ eligibility = "CONFIRMED" /\ pendingNext
  BY <1>2 DEF Plan
<1>3. CASE Settling /\ (Unread \/ Complete)
  BY <1>3 DEF Plan, Settling, Unread, Complete
<1>4. CASE Settling /\ ~Unread /\ ~Complete /\ Settled /\ work # "CLOSED"
  BY <1>4 DEF Plan, Settling, Unread, Complete
<1>5. CASE Settling /\ ~Unread /\ ~Complete /\ ~(Settled /\ work # "CLOSED") /\ Sendables
  BY <1>5 DEF Plan, Settling, Unread, Complete, Sendables
<1>6. CASE Settling /\ ~Unread /\ ~Complete /\ ~(Settled /\ work # "CLOSED") /\ ~Sendables
  <2>1. Plan = IF ~rule.verified THEN By("SUPERVISOR", "CONFIRM_RULE") ELSE NextOf(work)
    BY <1>6 DEF Plan, Settling, Unread, Complete, Sendables
  <2>2. By("SUPERVISOR", "CONFIRM_RULE").action \in Overrides
    BY DEF By, Overrides
  <2> QED BY <1>6, <2>1, <2>2
<1> QED BY <1>1, <1>2, <1>3, <1>4, <1>5, <1>6 DEF Settling

\* What the action table and the table of states say, action by action.
LEMMA TablesAre ==
  /\ "NEXT_STAGE" \notin DOMAIN States /\ "NOTIFY_MERCHANT" \notin DOMAIN States
  /\ "CLOSE" \notin DOMAIN States /\ "RECORD_OUTCOME" \notin DOMAIN States
  /\ "RECONCILE" \notin DOMAIN States /\ "KNOWLEDGE_CANDIDATE" \notin DOMAIN States
  /\ States["PUBLISH_TASK"] = PublishStates
  /\ States["MERCHANT_DECISION"] = DecisionStates
  /\ States["REGISTER_EVIDENCE"] = EvidenceStates
  /\ States["REVIEW_EVIDENCE_CONTENT"] = EvidenceStates
  /\ States["SUBMIT_EVIDENCE"] = {"EVIDENCE_COLLECTING", "MERCHANT_REVISION_REQUIRED"}
  /\ States["REVIEW"] = {"OP_REVIEW"}
  /\ States["BUILD_PACKAGE"] = {"READY_TO_SUBMIT", "DOCUMENT_REVISION_REQUIRED"}
  /\ States["APPROVE_PACKAGE"] = {"SUBMISSION_PENDING_CONFIRMATION"}
  /\ States["FINAL_REVIEW"] = {"SUBMISSION_PENDING_CONFIRMATION", "ON_HOLD"}
  /\ States["SUBMIT"] = {"READY_TO_SUBMIT"}
  /\ States["PROCESS_ACCEPT"] = {"ACCEPT_PROCESSING"}
  /\ States["QUERY_SUBMISSION"] = {"SUBMISSION_UNCERTAIN"}
BY DEF States

\* Where the case stands when nothing overrides the plan first.
LEMMA Standing ==
  ASSUME CaseInv, PlaceInv, InPlace
  PROVE  /\ Placed(work) /\ Fits(work)
         /\ work = "CLOSED" => final /\ Settled
         /\ final => ~pendingNext /\ outcome = "KNOWN" /\ work \in Over
         /\ Settled => final /\ ~verifying
         /\ rule.verified => rule.allowed # {}
         /\ work = "OUTCOME_VERIFICATION" => verifying
         /\ Reviewed => EvidenceReady /\ decision = "CONTEST"
         /\ decision = "CONTEST" /\ eligibility = "CONFIRMED" =>
              rule.verified /\ "CONTEST" \in rule.allowed
         /\ work = "READY_TO_SUBMIT" => Reviewed
<1>1. Placed(work) /\ Fits(work)
  BY DEF PlaceInv, InPlace, CaseInv, WaitInv, FitInv
<1>2. work = "READY_TO_SUBMIT" => Reviewed
  BY <1>1 DEF Placed, InPlace
<1>3. final => work \in Over
  BY DEF CaseInv, OutcomeInv, FinalStopsWork, Over
<1> QED BY <1>1, <1>2, <1>3
        DEF CaseInv, OutcomeInv, ClosedSettled, SettledIsCurrent, Settled, ResumeInv,
            PlainInv, ReviewFresh, RightsInv, ContestHasRights

\* The rights of a contest are there as long as nothing overrides the plan.
ContestOpen ==
  /\ decision = "CONTEST" /\ "CONTEST" \in rule.allowed /\ eligibility = "CONFIRMED"
  /\ rule.verified /\ ~pendingNext /\ work # "CLOSED"

LEMMA ContestIsOpen ==
  ASSUME CaseInv, PlaceInv, InPlace, Settling,
         work \in ContestWork \union {"READY_TO_SUBMIT"}
  PROVE  ContestOpen
<1>1. decision = "CONTEST" /\ work # "CLOSED"
  BY Standing DEF Placed, ContestWork
<1> QED BY <1>1, Standing DEF ContestOpen, Settling

\* The plan names a step that those who hold its role find open.
GateOpen(team) == \E a \in team : Gate(Plan.action, a) \subseteq Understood(team)

LEMMA OverrideOpen ==
  ASSUME NEW team, NEW a, RoleOf(a) \in ActionRoles[Plan.action], Plan.action \in Overrides
  PROVE  Gate(Plan.action, a) \subseteq Understood(team)
<1>1. PICK action : action = Plan.action
  OBVIOUS
<1>2. action \in {"VERIFY_OUTCOME", "RESOLVE_RESPONSE", "CONFIRM_RULE"}
  BY <1>1 DEF Overrides
<1> HIDE DEF Plan
<1>3. Gate(action, a) \subseteq Understood(team)
  BY <1>1, <1>2, GateSays, AlwaysUnderstood DEF ContestActions_, RuleActions, FileActions
<1> QED BY <1>1, <1>3

LEMMA NextStageOpen ==
  ASSUME CaseInv, PlaceInv, InPlace, NEW team, NEW a, RoleOf(a) \in ActionRoles[Plan.action],
         pendingNext, Plan = By("OPERATOR", "NEXT_STAGE")
  PROVE  Gate(Plan.action, a) \subseteq Understood(team)
<1>1. Plan.action = "NEXT_STAGE"
  BY DEF By
<1>2. work # "CLOSED"
  BY Standing
<1>3. Gate("NEXT_STAGE", a) \subseteq Understood(team)
  BY <1>1, <1>2, GateSays, AlwaysUnderstood, TablesAre DEF ContestActions_, RuleActions, FileActions
<1> QED BY <1>1, <1>3

\* A file waits to be read by whoever did not give it.
LEMMA ReadingOpen ==
  ASSUME CaseInv, PlaceInv, InPlace, NEW team, team # {},
         \A a \in team : RoleOf(a) \in ActionRoles[Plan.action],
         Settling, Unread, Plan = By("OPERATOR", "REVIEW_EVIDENCE_CONTENT")
  PROVE  GateOpen(team)
<1>1. Plan.action = "REVIEW_EVIDENCE_CONTENT"
  BY DEF By
<1>2. ContestOpen
  BY ContestIsOpen DEF Unread, EvidenceStates, ContestWork
<1>3. PICK i \in Applicable(evidence, stage) : evidence[i].content = "NEEDS_MANUAL"
  BY DEF Unread
<1>4. evidence[i].auto = "NEEDS_MANUAL"
  BY <1>3 DEF CaseInv, PlainInv, Applicable
<1>5. PICK a \in team : Readable(a) # {} \/ \E u \in team : team = {u}
  <2>1. CASE \E a \in team : evidence[i].by # a
    BY <1>3, <1>4, <2>1 DEF Readable
  <2>2. CASE \A a \in team : evidence[i].by = a
    BY <2>2
  <2> QED BY <2>1, <2>2
<1>6. Gate("REVIEW_EVIDENCE_CONTENT", a) \subseteq Understood(team)
  BY <1>1, <1>2, <1>5, GateSays, AlwaysUnderstood, TablesAre
     DEF ContestActions_, RuleActions, FileActions, ContestOpen, Unread
<1> QED BY <1>1, <1>5, <1>6 DEF GateOpen

LEMMA GivingOpen ==
  ASSUME CaseInv, PlaceInv, InPlace, NEW team, NEW a, RoleOf(a) \in ActionRoles[Plan.action],
         Settling, ~Unread, Complete, Plan = By("MERCHANT", "SUBMIT_EVIDENCE")
  PROVE  Gate(Plan.action, a) \subseteq Understood(team)
<1>1. Plan.action = "SUBMIT_EVIDENCE"
  BY DEF By
<1>2. ContestOpen /\ work \in EvidenceStates
  BY ContestIsOpen DEF Complete, EvidenceStates, ContestWork
<1>3. Missing = {}
  BY <1>2 DEF Complete, MissingRequired, ContestOpen
<1>4. ContentClear \/ \E i \in Applicable(evidence, stage) : evidence[i].content = "INSUFFICIENT"
  <2>1. \A i \in Applicable(evidence, stage) : evidence[i].content \in ContentStatus
    BY DEF CaseInv, TypeOK, FileType, Evidence, Applicable
  <2>2. \A i \in Applicable(evidence, stage) : evidence[i].content # "NEEDS_MANUAL"
    BY <1>2 DEF Unread, ContestOpen
  <2> QED BY <2>1, <2>2 DEF ContentClear, Supported, ContentStatus
<1>5. ContentClear \/ "CONTENT_CHECK_REQUIRED" \in Understood(team)
  BY <1>1, <1>4, AlwaysUnderstood
<1>6. Gate("SUBMIT_EVIDENCE", a) \subseteq Understood(team)
  BY <1>1, <1>2, <1>3, <1>5, GateSays, AlwaysUnderstood, TablesAre
     DEF ContestActions_, RuleActions, FileActions, ContestOpen, Complete
<1> QED BY <1>1, <1>6

\* A case that owes nothing any more is made known, then closed.
LEMMA LastStepOpen ==
  ASSUME CaseInv, PlaceInv, InPlace, NEW team, NEW a, RoleOf(a) \in ActionRoles[Plan.action],
         Settled, work # "CLOSED", Plan = LastStep
  PROVE  Gate(Plan.action, a) \subseteq Understood(team)
<1>1. CASE ~notified
  <2>1. Plan.action = "NOTIFY_MERCHANT"
    BY <1>1 DEF By, LastStep
  <2>2. Gate("NOTIFY_MERCHANT", a) \subseteq Understood(team)
    BY <2>1, GateSays, AlwaysUnderstood, TablesAre DEF ContestActions_, RuleActions, FileActions
  <2> QED BY <2>1, <2>2
<1>2. CASE notified
  <2>1. Plan.action = "CLOSE"
    BY <1>2 DEF By, LastStep
  <2>2. recon = Covered /\ notice = Covered
    BY <1>2 DEF CaseInv, OutcomeInv, SettledIsCurrent, NotifiedIsCurrent, Settled
  <2>3. NoBlockers \/ "CLOSE_BLOCKED" \in Understood(team)
    BY <1>2, <2>2, Standing, AlwaysUnderstood DEF NoBlockers, Settled, Covered
  <2>4. Gate("CLOSE", a) \subseteq Understood(team)
    BY <2>1, <2>3, GateSays, AlwaysUnderstood, TablesAre DEF ContestActions_, RuleActions, FileActions
  <2> QED BY <2>1, <2>4
<1> QED BY <1>1, <1>2

\* A frozen package is current and reviewed; unless a draft came after it, it is the
\* newest of the stage.
LEMMA SendingOpen ==
  ASSUME CaseInv, PlaceInv, InPlace, NEW team, NEW a, RoleOf(a) \in ActionRoles[Plan.action],
         Settling, Sendables, Plan = By("OPERATOR", "SUBMIT")
  PROVE  Gate(Plan.action, a) \subseteq Understood(team)
<1>1. Plan.action = "SUBMIT"
  BY DEF By
<1>2. ContestOpen /\ work = "READY_TO_SUBMIT" /\ Reviewed
  BY ContestIsOpen, Standing DEF Sendables
<1>3. EvidenceReady
  BY <1>2, Standing
<1>4. DOMAIN packages = 1..Len(packages) /\ Len(packages) \in Nat
  BY LenProperties DEF CaseInv, TypeOK, FileType
<1>5. Live(packages[Len(packages)]) /\ Len(packages) \in DOMAIN packages
  <2>1. \E n \in DOMAIN packages : Live(packages[n])
    BY DEF Sendables, Live
  <2> QED BY <1>2, <1>4, <2>1, Standing DEF Placed, LastIsLive
<1>6. NewestFrozen \/ \E n \in DOMAIN packages : packages[n].status = "DRAFT"
  <2>1. CASE packages[Len(packages)].status = "FROZEN"
    <3>1. packages[Len(packages)].stage = stage
      BY <1>5 DEF CaseInv, PackageFresh, Current
    <3> QED BY <1>4, <1>5, <2>1, <3>1 DEF NewestFrozen
  <2> QED BY <1>5, <2>1 DEF Live
<1>7. NewestFrozen \/ "FINAL_REVIEW_REQUIRED" \in Understood(team)
  BY <1>6, AlwaysUnderstood
<1>8. Gate("SUBMIT", a) \subseteq Understood(team)
  BY <1>1, <1>2, <1>3, <1>7, GateSays, AlwaysUnderstood, TablesAre
     DEF ContestActions_, RuleActions, FileActions, ContestOpen, EvidenceReady
<1> QED BY <1>1, <1>8

\* The table's step is possible where the table names it.
LEMMA TableOpen ==
  ASSUME CaseInv, PlaceInv, InPlace, NEW team, NEW a, RoleOf(a) \in ActionRoles[Plan.action],
         Settling, ~(Settled /\ work # "CLOSED"), rule.verified, Plan = NextOf(work)
  PROVE  Gate(Plan.action, a) \subseteq Understood(team)
<1> DEFINE Open(action) == Gate(action, a) \subseteq Understood(team)
<1> SUFFICES Open(Plan.action)
  OBVIOUS
<1>1. work \in WorkStatus
  BY DEF CaseInv, TypeOK
<1>2. CASE work \in {"RECEIVED", "RESPONSE_REVIEW_REQUIRED", "UPSTREAM_ACTION_REQUIRED",
                     "OUTCOME_VERIFICATION"}
  <2>1. Plan.action \in Overrides
    BY <1>2 DEF NextOf, By, Overrides
  <2> QED BY <2>1, OverrideOpen
<1>3. CASE work = "TRIAGED"
  <2>1. Plan.action = "PUBLISH_TASK"
    BY <1>3 DEF NextOf, By
  <2>2. Open("PUBLISH_TASK")
    BY <1>3, <2>1, GateSays, AlwaysUnderstood, TablesAre
       DEF ContestActions_, RuleActions, FileActions, PublishStates, Settling
  <2> QED BY <2>1, <2>2
<1>4. CASE work \in {"MERCHANT_ACTION_REQUIRED", "ACCEPT_RECOMMENDATION"}
  <2>1. Plan.action = "MERCHANT_DECISION"
    BY <1>4 DEF NextOf, By
  <2>2. Choices(a) # {}
    BY Standing DEF Choices, Settling
  <2>3. Open("MERCHANT_DECISION")
    BY <1>4, <2>1, <2>2, GateSays, AlwaysUnderstood, TablesAre
       DEF ContestActions_, RuleActions, FileActions, DecisionStates, Settling
  <2> QED BY <2>1, <2>3
<1>5. CASE work \in {"EVIDENCE_COLLECTING", "MERCHANT_REVISION_REQUIRED"}
  <2>1. Plan.action = "REGISTER_EVIDENCE"
    BY <1>5 DEF NextOf, By
  <2>2. ContestOpen
    BY <1>5, ContestIsOpen DEF ContestWork
  <2>3. Open("REGISTER_EVIDENCE")
    BY <1>5, <2>1, <2>2, GateSays, AlwaysUnderstood, TablesAre
       DEF ContestActions_, RuleActions, FileActions, EvidenceStates, ContestOpen
  <2> QED BY <2>1, <2>3
<1>6. CASE work = "OP_REVIEW"
  <2>1. Plan.action = "REVIEW"
    BY <1>6 DEF NextOf, By
  <2>2. ContestOpen
    BY <1>6, ContestIsOpen DEF ContestWork
  <2>3. Open("REVIEW")
    BY <1>6, <2>1, <2>2, GateSays, AlwaysUnderstood, TablesAre
       DEF ContestActions_, RuleActions, FileActions, ContestOpen
  <2> QED BY <2>1, <2>3
<1>7. CASE work \in {"READY_TO_SUBMIT", "DOCUMENT_REVISION_REQUIRED"}
  <2>1. Plan.action = "BUILD_PACKAGE"
    BY <1>7 DEF NextOf, By
  <2>2. ContestOpen /\ Reviewed /\ EvidenceReady
    BY <1>7, ContestIsOpen, Standing DEF ContestWork, Placed
  <2>3. Open("BUILD_PACKAGE")
    BY <1>7, <2>1, <2>2, GateSays, AlwaysUnderstood, TablesAre
       DEF ContestActions_, RuleActions, FileActions, ContestOpen, EvidenceReady
  <2> QED BY <2>1, <2>3
<1>8. CASE work = "SUBMISSION_PENDING_CONFIRMATION"
  <2>1. Plan.action = "APPROVE_PACKAGE"
    BY <1>8 DEF NextOf, By
  <2>2. ContestOpen
    BY <1>8, ContestIsOpen DEF ContestWork
  <2>3. Reviewed /\ EvidenceReady
    <3>1. \E n \in DOMAIN packages : Live(packages[n])
      BY <1>8, Standing DEF Fits, AskedFor, Live
    <3>2. Reviewed
      BY <3>1, LiveContested DEF CaseInv
    <3> QED BY <3>2, Standing
  <2>4. Open("APPROVE_PACKAGE")
    BY <1>8, <2>1, <2>2, <2>3, GateSays, AlwaysUnderstood, TablesAre
       DEF ContestActions_, RuleActions, FileActions, ContestOpen, EvidenceReady
  <2> QED BY <2>1, <2>4
<1>9. CASE work = "ON_HOLD"
  <2>1. Plan.action = "FINAL_REVIEW"
    BY <1>9 DEF NextOf, By
  <2>2. ContestOpen
    BY <1>9, ContestIsOpen DEF ContestWork
  <2>3. Open("FINAL_REVIEW")
    BY <1>9, <2>1, <2>2, GateSays, AlwaysUnderstood, TablesAre
       DEF ContestActions_, RuleActions, FileActions, ContestOpen
  <2> QED BY <2>1, <2>3
<1>10. CASE work = "WAITING_UPSTREAM"
  <2>1. Plan.action = "RECORD_OUTCOME"
    BY <1>10 DEF NextOf, By
  <2>2. ~final
    BY <1>10, Standing DEF Over
  <2>3. Open("RECORD_OUTCOME")
    BY <1>10, <2>1, <2>2, GateSays, AlwaysUnderstood, TablesAre
       DEF ContestActions_, RuleActions, FileActions
  <2> QED BY <2>1, <2>3
<1>11. CASE work = "FINANCIAL_RECONCILIATION"
  <2>1. Plan.action = "RECONCILE"
    BY <1>11 DEF NextOf, By
  <2>2. final /\ ~verifying
    BY <1>11, Standing DEF Fits, Settling
  <2>3. Open("RECONCILE")
    BY <1>11, <2>1, <2>2, GateSays, AlwaysUnderstood, TablesAre
       DEF ContestActions_, RuleActions, FileActions
  <2> QED BY <2>1, <2>3
<1>12. CASE work = "ACCEPT_PROCESSING"
  <2>1. Plan.action = "PROCESS_ACCEPT"
    BY <1>12 DEF NextOf, By
  <2>2. Open("PROCESS_ACCEPT")
    BY <1>12, <2>1, GateSays, AlwaysUnderstood, TablesAre
       DEF ContestActions_, RuleActions, FileActions, Settling
  <2> QED BY <2>1, <2>2
<1>13. CASE work = "SUBMISSION_UNCERTAIN"
  <2>1. Plan.action = "QUERY_SUBMISSION"
    BY <1>13 DEF NextOf, By
  <2>2. Open("QUERY_SUBMISSION")
    BY <1>13, <2>1, GateSays, AlwaysUnderstood, TablesAre
       DEF ContestActions_, RuleActions, FileActions
  <2> QED BY <2>1, <2>2
<1>14. CASE work = "CLOSED"
  <2>1. Plan.action = "KNOWLEDGE_CANDIDATE"
    BY <1>14 DEF NextOf, By
  <2>2. Open("KNOWLEDGE_CANDIDATE")
    BY <1>14, <2>1, GateSays, AlwaysUnderstood, TablesAre
       DEF ContestActions_, RuleActions, FileActions
  <2> QED BY <2>1, <2>2
<1> HIDE DEF Open
<1> QED BY <1>1, <1>2, <1>3, <1>4, <1>5, <1>6, <1>7, <1>8, <1>9, <1>10, <1>11, <1>12, <1>13,
           <1>14 DEF WorkStatus

\* Whose steps the plan names.
MerchantSteps   == {"MERCHANT_DECISION", "REGISTER_EVIDENCE", "SUBMIT_EVIDENCE"}
SupervisorSteps == {"CONFIRM_RULE", "APPROVE_PACKAGE", "FINAL_REVIEW", "RECONCILE", "CLOSE"}
OperatorSteps   ==
  {"PUBLISH_TASK", "REVIEW_EVIDENCE_CONTENT", "REVIEW", "BUILD_PACKAGE", "SUBMIT",
   "PROCESS_ACCEPT", "QUERY_SUBMISSION", "RESOLVE_RESPONSE", "RECORD_OUTCOME",
   "VERIFY_OUTCOME", "NEXT_STAGE", "NOTIFY_MERCHANT", "KNOWLEDGE_CANDIDATE"}

OwnStep(p) == \/ p.owner = "MERCHANT" /\ p.action \in MerchantSteps
              \/ p.owner = "SUPERVISOR" /\ p.action \in SupervisorSteps
              \/ p.owner = "OPERATOR" /\ p.action \in OperatorSteps

LEMMA ByOwns ==
  /\ \A x \in MerchantSteps : OwnStep(By("MERCHANT", x))
  /\ \A x \in SupervisorSteps : OwnStep(By("SUPERVISOR", x))
  /\ \A x \in OperatorSteps : OwnStep(By("OPERATOR", x))
BY DEF OwnStep, By

LEMMA TableOwns ==
  ASSUME NEW w \in WorkStatus
  PROVE  OwnStep(NextOf(w))
<1>1. CASE w \in {"RECEIVED", "SUBMISSION_PENDING_CONFIRMATION", "FINANCIAL_RECONCILIATION",
                  "ON_HOLD"}
  <2>1. NextOf(w) \in {By("SUPERVISOR", "CONFIRM_RULE"), By("SUPERVISOR", "APPROVE_PACKAGE"),
                       By("SUPERVISOR", "RECONCILE"), By("SUPERVISOR", "FINAL_REVIEW")}
    BY <1>1 DEF NextOf
  <2> QED BY <2>1, ByOwns DEF SupervisorSteps
<1>2. CASE w \in {"MERCHANT_ACTION_REQUIRED", "ACCEPT_RECOMMENDATION", "EVIDENCE_COLLECTING",
                  "MERCHANT_REVISION_REQUIRED"}
  <2>1. NextOf(w) \in {By("MERCHANT", "MERCHANT_DECISION"), By("MERCHANT", "REGISTER_EVIDENCE")}
    BY <1>2 DEF NextOf
  <2> QED BY <2>1, ByOwns DEF MerchantSteps
<1>3. CASE w \in {"TRIAGED", "OP_REVIEW", "READY_TO_SUBMIT", "DOCUMENT_REVISION_REQUIRED",
                  "WAITING_UPSTREAM"}
  <2>1. NextOf(w) \in {By("OPERATOR", "PUBLISH_TASK"), By("OPERATOR", "REVIEW"),
                       By("OPERATOR", "BUILD_PACKAGE"), By("OPERATOR", "RECORD_OUTCOME")}
    BY <1>3 DEF NextOf
  <2> QED BY <2>1, ByOwns DEF OperatorSteps
<1>4. CASE w \in {"RESPONSE_REVIEW_REQUIRED", "UPSTREAM_ACTION_REQUIRED", "ACCEPT_PROCESSING",
                  "OUTCOME_VERIFICATION", "SUBMISSION_UNCERTAIN", "CLOSED"}
  <2>1. NextOf(w) \in {By("OPERATOR", "RESOLVE_RESPONSE"), By("OPERATOR", "PROCESS_ACCEPT"),
                       By("OPERATOR", "VERIFY_OUTCOME"), By("OPERATOR", "QUERY_SUBMISSION"),
                       By("OPERATOR", "KNOWLEDGE_CANDIDATE")}
    BY <1>4 DEF NextOf
  <2> QED BY <2>1, ByOwns DEF OperatorSteps
<1> QED BY <1>1, <1>2, <1>3, <1>4 DEF WorkStatus

LEMMA PlanOwns ==
  ASSUME TypeOK
  PROVE  OwnStep(Plan)
<1>1. OwnStep(NextOf(work))
  BY TableOwns DEF TypeOK
<1>2. OwnStep(LastStep)
  BY ByOwns DEF LastStep, SupervisorSteps, OperatorSteps
<1>3. Plan \in {By("OPERATOR", "VERIFY_OUTCOME"), By("OPERATOR", "RESOLVE_RESPONSE"),
                By("OPERATOR", "NEXT_STAGE"), By("OPERATOR", "REVIEW_EVIDENCE_CONTENT"),
                By("MERCHANT", "SUBMIT_EVIDENCE"), By("OPERATOR", "SUBMIT"),
                By("SUPERVISOR", "CONFIRM_RULE"), LastStep, NextOf(work)}
  BY DEF Plan
<1> QED BY <1>1, <1>2, <1>3, ByOwns DEF MerchantSteps, SupervisorSteps, OperatorSteps

\* Whoever acts for the owner of a step holds a role of the action.
LEMMA OwnersMayAct ==
  ASSUME NEW p, OwnStep(p), NEW a,
         RoleOf(a) = p.owner \/ (p.owner = "OPERATOR" /\ RoleOf(a) = "SUPERVISOR")
  PROVE  RoleOf(a) \in ActionRoles[p.action]
<1>1. \A x \in MerchantSteps : "MERCHANT" \in ActionRoles[x]
  BY DEF MerchantSteps, ActionRoles
<1>2. \A x \in SupervisorSteps : "SUPERVISOR" \in ActionRoles[x]
  BY DEF SupervisorSteps, ActionRoles, Business
<1>3. \A x \in OperatorSteps : "OPERATOR" \in ActionRoles[x] /\ "SUPERVISOR" \in ActionRoles[x]
  BY DEF OperatorSteps, ActionRoles, Business
<1> QED BY <1>1, <1>2, <1>3 DEF OwnStep

\* Among any who hold a role of it, the plan's step is open to one.
LEMMA PlanOpen ==
  ASSUME CaseInv, PlaceInv, InPlace, NEW team, team # {},
         \A a \in team : RoleOf(a) \in ActionRoles[Plan.action]
  PROVE  GateOpen(team)
<1> PICK a \in team : TRUE
  OBVIOUS
<1>1. RoleOf(a) \in ActionRoles[Plan.action]
  OBVIOUS
<1>2. CASE Gate(Plan.action, a) \subseteq Understood(team)
  BY <1>2 DEF GateOpen
<1>3. CASE Settling /\ Unread /\ Plan = By("OPERATOR", "REVIEW_EVIDENCE_CONTENT")
  BY <1>3, ReadingOpen
<1>4. CASE Plan.action \in Overrides
  BY <1>1, <1>2, <1>4, OverrideOpen
<1>5. CASE ~verifying /\ pendingNext /\ Plan = By("OPERATOR", "NEXT_STAGE")
  BY <1>1, <1>2, <1>5, NextStageOpen
<1>6. CASE Settling /\ ~Unread /\ Complete /\ Plan = By("MERCHANT", "SUBMIT_EVIDENCE")
  BY <1>1, <1>2, <1>6, GivingOpen
<1>7. CASE Settling /\ Settled /\ work # "CLOSED" /\ Plan = LastStep
  BY <1>1, <1>2, <1>7, LastStepOpen
<1>8. CASE Settling /\ Sendables /\ Plan = By("OPERATOR", "SUBMIT")
  BY <1>1, <1>2, <1>8, SendingOpen
<1>9. CASE /\ Settling /\ ~(Settled /\ work # "CLOSED") /\ rule.verified /\ Plan = NextOf(work)
  BY <1>1, <1>2, <1>9, TableOpen
<1> QED BY <1>3, <1>4, <1>5, <1>6, <1>7, <1>8, <1>9, PlanIs

LEMMA PlanPossible ==
  ASSUME CaseInv, PlaceInv, InPlace
  PROVE  PlanIsPossible
<1>1. \A a \in OfRole(Plan.owner) : RoleOf(a) \in ActionRoles[Plan.action]
  BY PlanOwns, OwnersMayAct DEF OfRole, CaseInv
<1> QED BY <1>1, PlanOpen DEF PlanIsPossible, GateOpen
-----------------------------------------------------------------------------
\* Of some positions in a list one is the last.
LEMMA LastOfSome ==
  ASSUME NEW N \in Nat, NEW S \in SUBSET (1..N), S # {}
  PROVE  \E n \in S : \A k \in S : k <= n
<1> DEFINE R == {ss \in Nat \X Nat : ss[1] < ss[2]}
           T == {m \in Nat : N - m \in S}
<1>1. IsWellFoundedOn(R, Nat)
  BY NatLessThanWellFounded DEF OpToRel
<1>2. T \subseteq Nat /\ T # {}
  <2>1. PICK n \in S : n \in 1..N
    OBVIOUS
  <2>2. N - n \in Nat /\ N - (N - n) = n
    BY <2>1
  <2> QED BY <2>1, <2>2
<1>3. PICK x \in T : \A y \in T : ~(<<y, x>> \in R)
  <2> HIDE DEF R, T
  <2> QED BY <1>1, <1>2, WFMin
<1>4. x \in Nat /\ N - x \in S
  BY <1>3
<1>5. ASSUME NEW k \in S
      PROVE  k <= N - x
  <2>1. k \in 1..N /\ N - k \in Nat /\ N - (N - k) = k
    OBVIOUS
  <2>2. N - k \in T
    BY <2>1
  <2>3. <<N - k, x>> \notin R
    BY <1>3, <2>2
  <2>4. ~(N - k < x)
    BY <1>4, <2>1, <2>3
  <2> QED BY <1>4, <2>1, <2>4
<1> QED BY <1>4, <1>5

LEMMA NewestIs ==
  ASSUME TypeOK, NEW status, \E n \in DOMAIN packages : packages[n].status = status
  PROVE  NewestWith(status) # {}
<1> DEFINE mine == {n \in DOMAIN packages : packages[n].status = status}
<1>1. DOMAIN packages = 1..Len(packages) /\ Len(packages) \in Nat
  BY LenProperties DEF TypeOK, FileType
<1>2. mine \in SUBSET (1..Len(packages)) /\ mine # {}
  BY <1>1
<1>3. PICK n \in mine : \A k \in mine : k <= n
  <2> HIDE DEF mine
  <2> QED BY <1>1, <1>2, LastOfSome
<1> QED BY <1>3 DEF NewestWith

\* Where the table names a step that is about something.
LEMMA TableActs ==
  ASSUME NEW w \in WorkStatus
  PROVE  /\ NextOf(w).action # "SUBMIT"
         /\ NextOf(w).action = "REGISTER_EVIDENCE" =>
              w \in {"EVIDENCE_COLLECTING", "MERCHANT_REVISION_REQUIRED"}
         /\ NextOf(w).action = "APPROVE_PACKAGE" => w = "SUBMISSION_PENDING_CONFIRMATION"
         /\ NextOf(w).owner = "MERCHANT" =>
              w \in {"MERCHANT_ACTION_REQUIRED", "ACCEPT_RECOMMENDATION",
                     "EVIDENCE_COLLECTING", "MERCHANT_REVISION_REQUIRED"}
<1>1. CASE w \in {"MERCHANT_ACTION_REQUIRED", "ACCEPT_RECOMMENDATION"}
  BY <1>1 DEF NextOf, By
<1>2. CASE w \in {"EVIDENCE_COLLECTING", "MERCHANT_REVISION_REQUIRED",
                  "SUBMISSION_PENDING_CONFIRMATION"}
  BY <1>2 DEF NextOf, By
<1>3. CASE w \in {"RECEIVED", "FINANCIAL_RECONCILIATION", "ON_HOLD"}
  <2>1. NextOf(w) \in {By("SUPERVISOR", "CONFIRM_RULE"), By("SUPERVISOR", "RECONCILE"),
                       By("SUPERVISOR", "FINAL_REVIEW")}
    BY <1>3 DEF NextOf
  <2> QED BY <2>1 DEF By
<1>4. CASE w \in {"TRIAGED", "OP_REVIEW", "READY_TO_SUBMIT", "DOCUMENT_REVISION_REQUIRED",
                  "WAITING_UPSTREAM"}
  <2>1. NextOf(w) \in {By("OPERATOR", "PUBLISH_TASK"), By("OPERATOR", "REVIEW"),
                       By("OPERATOR", "BUILD_PACKAGE"), By("OPERATOR", "RECORD_OUTCOME")}
    BY <1>4 DEF NextOf
  <2> QED BY <2>1 DEF By
<1>5. CASE w \in {"RESPONSE_REVIEW_REQUIRED", "UPSTREAM_ACTION_REQUIRED", "ACCEPT_PROCESSING",
                  "OUTCOME_VERIFICATION", "SUBMISSION_UNCERTAIN", "CLOSED"}
  <2>1. NextOf(w) \in {By("OPERATOR", "RESOLVE_RESPONSE"), By("OPERATOR", "PROCESS_ACCEPT"),
                       By("OPERATOR", "VERIFY_OUTCOME"), By("OPERATOR", "QUERY_SUBMISSION"),
                       By("OPERATOR", "KNOWLEDGE_CANDIDATE")}
    BY <1>5 DEF NextOf
  <2> QED BY <2>1 DEF By
<1> QED BY <1>1, <1>2, <1>3, <1>4, <1>5 DEF WorkStatus
Giving == {"EVIDENCE_COLLECTING", "MERCHANT_REVISION_REQUIRED"}

\* Where the plan names a step that is about something, or waits for the merchant.
LEMMA PlanArises ==
  ASSUME TypeOK
  PROVE  /\ Plan.action = "MERCHANT_DECISION" => Settling /\ rule.verified
         /\ Plan.action = "REGISTER_EVIDENCE" => Settling /\ ~Complete /\ work \in Giving
         /\ Plan.action = "APPROVE_PACKAGE" => work = "SUBMISSION_PENDING_CONFIRMATION"
         /\ Plan.action = "SUBMIT" => Sendables
         /\ Plan.owner = "MERCHANT" =>
              /\ Settling
              /\ work \in Giving \union {"MERCHANT_ACTION_REQUIRED", "ACCEPT_RECOMMENDATION"}
<1>1. CASE Plan.action \in Overrides
  <2>1. Plan.action \notin MerchantSteps \union {"APPROVE_PACKAGE", "SUBMIT"}
    BY <1>1 DEF Overrides, MerchantSteps
  <2> QED BY <2>1, PlanOwns DEF OwnStep, MerchantSteps
<1>2. CASE Plan = By("OPERATOR", "NEXT_STAGE") \/ Plan = By("OPERATOR", "REVIEW_EVIDENCE_CONTENT")
  BY <1>2 DEF By
<1>3. CASE Settling /\ Complete /\ Plan = By("MERCHANT", "SUBMIT_EVIDENCE")
  BY <1>3 DEF By, Complete, Giving
<1>4. CASE Plan = LastStep
  BY <1>4 DEF By, LastStep
<1>5. CASE Sendables /\ Plan = By("OPERATOR", "SUBMIT")
  BY <1>5 DEF By
<1>6. CASE Settling /\ ~Complete /\ rule.verified /\ Plan = NextOf(work)
  <2>1. PICK w \in WorkStatus : w = work
    BY DEF TypeOK
  <2> QED BY <1>6, <2>1, TableActs DEF Giving
<1> QED BY <1>1, <1>2, <1>3, <1>4, <1>5, <1>6, PlanIs

\* What a proposal is about.
Subjects(action) ==
  CASE action = "MERCHANT_DECISION" -> rule.allowed
    [] action = "REGISTER_EVIDENCE" -> MissingRequired
    [] action = "APPROVE_PACKAGE"   -> NewestWith("DRAFT")
    [] action = "SUBMIT"            -> NewestWith("FROZEN")
    [] OTHER                        -> {"NOTHING"}

LEMMA ProposalsAre ==
  /\ Subjects(Plan.action) # {} => Proposals # {}
  /\ \A p \in Proposals : /\ p.action = Plan.action /\ p.owner = Plan.owner
                          /\ p.about \in Subjects(Plan.action)
<1>1. PICK action, owner, S :
        action = Plan.action /\ owner = Plan.owner /\ S = Subjects(Plan.action)
  OBVIOUS
<1>2. Proposals = {[action |-> action, owner |-> owner, about |-> x] : x \in S}
  BY <1>1 DEF Proposals, Subjects
<1>3. \A x \in S : [action |-> action, owner |-> owner, about |-> x] \in Proposals
  BY <1>2
<1>4. \A p \in Proposals : p.action = action /\ p.owner = owner /\ p.about \in S
  BY <1>2
<1> QED BY <1>1, <1>3, <1>4

\* There is something to propose, and the engine takes it.
LEMMA ProposalsExist ==
  ASSUME CaseInv, PlaceInv, InPlace
  PROVE  Proposals # {}
<1>1. PICK action : action = Plan.action
  OBVIOUS
<1>2. TypeOK
  BY DEF CaseInv
<1>3. CASE action = "MERCHANT_DECISION"
  BY <1>1, <1>2, <1>3, PlanArises, Standing, ProposalsAre DEF Subjects
<1>4. CASE action = "REGISTER_EVIDENCE"
  <2>1. MissingRequired # {}
    BY <1>1, <1>2, <1>4, PlanArises DEF Complete, Giving
  <2> QED BY <1>1, <1>4, <2>1, ProposalsAre DEF Subjects
<1>5. CASE action = "APPROVE_PACKAGE"
  <2>1. \E n \in DOMAIN packages : packages[n].status = "DRAFT"
    BY <1>1, <1>2, <1>5, PlanArises, Standing DEF Fits, AskedFor
  <2> QED BY <1>1, <1>2, <1>5, <2>1, NewestIs, ProposalsAre DEF Subjects
<1>6. CASE action = "SUBMIT"
  <2>1. \E n \in DOMAIN packages : packages[n].status = "FROZEN"
    BY <1>1, <1>2, <1>6, PlanArises DEF Sendables
  <2> QED BY <1>1, <1>2, <1>6, <2>1, NewestIs, ProposalsAre DEF Subjects
<1>7. CASE action \notin {"MERCHANT_DECISION", "REGISTER_EVIDENCE", "APPROVE_PACKAGE", "SUBMIT"}
  BY <1>1, <1>7, ProposalsAre DEF Subjects
<1> QED BY <1>3, <1>4, <1>5, <1>6, <1>7

LEMMA ProposalsTaken ==
  ASSUME CaseInv, PlaceInv, InPlace, NEW p \in Proposals
  PROVE  Taken(p)
<1>1. TypeOK /\ p.action = Plan.action /\ p.about \in Subjects(p.action)
  BY ProposalsAre DEF CaseInv
<1>2. ASSUME NEW n \in DOMAIN packages, packages[n].status \in {"DRAFT", "FROZEN"}
      PROVE  Current(packages[n])
  BY <1>2 DEF CaseInv, PackageFresh, Live
<1>3. CASE p.action = "MERCHANT_DECISION"
  BY <1>1, <1>3, PlanArises DEF Taken, Settling
<1>4. CASE p.action = "APPROVE_PACKAGE"
  <2>1. p.about \in DOMAIN packages /\ packages[p.about].status = "DRAFT"
    BY <1>1, <1>4 DEF Subjects, NewestWith
  <2> QED BY <1>2, <1>4, <2>1 DEF Taken, Approvable
<1>5. CASE p.action = "SUBMIT"
  <2>1. p.about \in DOMAIN packages /\ packages[p.about].status = "FROZEN"
    BY <1>1, <1>5 DEF Subjects, NewestWith
  <2> QED BY <1>2, <1>5, <2>1 DEF Taken, Sendable
<1>6. CASE p.action \notin {"MERCHANT_DECISION", "APPROVE_PACKAGE", "SUBMIT"}
  BY <1>6 DEF Taken
<1> QED BY <1>3, <1>4, <1>5, <1>6

LEMMA ProposalsConfirmed ==
  ASSUME CaseInv, PlaceInv, InPlace, NEW p \in Proposals
  PROVE  OwnerConfirms(p)
<1>1. p.action = Plan.action /\ p.owner = Plan.owner
  BY ProposalsAre
<1>2. SUFFICES ASSUME Holders(p.owner) # {}
               PROVE  \E a \in Holders(p.owner) :
                        /\ Confirmable(p, a)
                        /\ Gate(p.action, a) \subseteq Understood(Holders(p.owner))
  BY DEF OwnerConfirms
<1>3. \A a \in Holders(p.owner) : RoleOf(a) = p.owner
  BY DEF Holders
<1>4. \A a \in Holders(p.owner) : RoleOf(a) \in ActionRoles[Plan.action]
  BY <1>1, <1>3, PlanOwns, OwnersMayAct DEF CaseInv
<1>5. PICK a \in Holders(p.owner) : Gate(Plan.action, a) \subseteq Understood(Holders(p.owner))
  BY <1>2, <1>4, PlanOpen DEF GateOpen
<1>6. Confirmable(p, a)
  BY <1>3 DEF Confirmable, ConfirmedEdited, ShownTo
<1> QED BY <1>1, <1>5, <1>6

\* The workflow agent always has something to propose where the case stands in its
\* place, its owner can confirm it, and what is confirmed the engine takes; the plan it
\* follows names a step that is open to those it is for.
THEOREM ProposalsAlwaysWork == Spec => []ProposalsWork
<1>1. CaseInv /\ PlaceInv => ProposalsWork
  <2> SUFFICES ASSUME CaseInv, PlaceInv, InPlace
               PROVE  /\ PlanIsPossible
                      /\ Proposals # {}
                      /\ \A p \in Proposals : Taken(p) /\ OwnerConfirms(p)
                      /\ SubmissionAnswer(Merchant) = "PRESS_SUBMIT" =>
                           Missing = {} /\ GapAnswer = "NOTHING"
    BY DEF ProposalsWork
  <2>1. SubmissionAnswer(Merchant) = "PRESS_SUBMIT" => Missing = {} /\ GapAnswer = "NOTHING"
    BY DEF SubmissionAnswer, Merchant, GapAnswer, MissingRequired
  <2> QED BY <2>1, PlanPossible, ProposalsExist, ProposalsTaken, ProposalsConfirmed
<1> QED BY <1>1, CaseHolds, StatusesInPlace, PTL

\* A merchant whom the plan waits for is not told to wait.
LEMMA WaitedForIsTold ==
  ASSUME CaseInv, PlaceInv, InPlace, Plan.owner = "MERCHANT"
  PROVE  ~ToldToWait
<1>1. /\ Settling
      /\ work \in Giving \union {"MERCHANT_ACTION_REQUIRED", "ACCEPT_RECOMMENDATION"}
  BY PlanArises DEF CaseInv
<1>2. ~final /\ work # "WAITING_UPSTREAM"
  BY <1>1, Standing DEF Over, Giving
<1>3. decision \in {"NONE", "CONTEST", "NO_RESPONSE"}
  <2>1. decision \notin {"ACCEPT", "AUTHORIZED_WAIVER"}
    BY <1>1, Standing DEF Placed, ContestWork, Giving, Settling
  <2> QED BY <2>1 DEF CaseInv, TypeOK, RightsType, MerchantDecision
<1>4. MerchantMessage \in {"GIVE_EVIDENCE", "PLEASE_REPLY", "PLEASE_DECIDE"}
  BY <1>2, <1>3 DEF MerchantMessage
<1> QED BY <1>4 DEF ToldToWait

\* What the merchant is told agrees with the plan: told to wait, it is not the one the
\* plan waits for, and no deadline of its runs out.
THEOREM AdviceAlwaysAgrees == Spec => []AdviceAgrees
<1>1. CaseInv /\ PlaceInv => AdviceAgrees
  <2> SUFFICES ASSUME CaseInv, PlaceInv, InPlace
               PROVE  /\ PlanIsPossible
                      /\ ToldToWait => Plan.owner # "MERCHANT"
                      /\ "DEADLINE" \in Findings /\ DeadlineOf(Plan) = "merchant" => ~ToldToWait
    BY DEF AdviceAgrees
  <2>1. DeadlineOf(Plan) = "merchant" => Plan.owner = "MERCHANT"
    BY DEF DeadlineOf
  <2> QED BY <2>1, PlanPossible, WaitedForIsTold
<1> QED BY <1>1, CaseHolds, StatusesInPlace, PTL
=============================================================================
