-------------------------- MODULE DisputeCaseProofs --------------------------
(***************************************************************************)
(* Type correctness of a dispute case, the safety of its contest, and the   *)
(* safety of outcomes, money and closing, proved for any people, evidence,  *)
(* deadlines, reports and bounds.  What the shared helpers (tasks,          *)
(* invalidation, attempts, outcome application) keep is stated first; the   *)
(* step of each command then follows from its helpers.                      *)
(***************************************************************************)
EXTENDS DisputeCase, TLAPS, SequenceTheorems

(***************************************************************************)
(* Helpers                                                                  *)
(***************************************************************************)
\* Opening a task and resolving tasks keep the set of open tasks well formed.
LEMMA TodoTyped ==
  ASSUME NEW ts \in SUBSET Tasks, NEW type \in TaskTypes, NEW s \in 1..MaxStage
  PROVE  Todo(ts, type, s) \in SUBSET Tasks
BY DEF Todo, Tasks

LEMMA DoneTyped ==
  ASSUME NEW ts \in SUBSET Tasks, NEW types, NEW s
  PROVE  Done(ts, types, s) \in SUBSET Tasks
BY DEF Done

\* _sync_content_review_task only opens or resolves CONTENT_REVIEW.
LEMMA SyncTyped ==
  ASSUME TypeOK, NEW ts \in SUBSET Tasks, NEW ev
  PROVE  SyncContentReview(ts, ev) \in SUBSET Tasks
<1>1. stage \in 1..MaxStage /\ "CONTENT_REVIEW" \in TaskTypes
  BY DEF TypeOK, RightsType, TaskTypes
<1> QED BY <1>1, TodoTyped, DoneTyped DEF SyncContentReview

LEMMA InvalidatedTyped ==
  ASSUME TypeOK
  PROVE  InvalidatedTasks \in SUBSET Tasks
BY DoneTyped DEF InvalidatedTasks, TypeOK

\* A function over the positions of a sequence is a sequence.
LEMMA SameShape ==
  ASSUME NEW S, NEW s \in Seq(S), NEW t, DOMAIN t = DOMAIN s,
         t = [n \in DOMAIN t |-> t[n]],
         \A n \in DOMAIN s : t[n] \in S
  PROVE  t \in Seq(S) /\ Len(t) = Len(s)
<1>1. DOMAIN s = 1..Len(s) /\ Len(s) \in Nat
  BY LenProperties
<1>2. t \in [1..Len(s) -> S]
  BY <1>1
<1>3. t \in Seq(S)
  BY <1>1, <1>2, SeqDef
<1> QED BY <1>1, <1>2, <1>3, LenProperties

\* _invalidate keeps the list of packages and raises the version.
LEMMA InvalidateTyped ==
  ASSUME TypeOK, Invalidate
  PROVE  /\ version' \in Nat /\ reviewer' = Nobody
         /\ packages' \in Seq(Package) /\ Len(packages') = Len(packages)
<1>1. packages \in Seq(Package)
  BY DEF TypeOK, FileType
<1>2. \A n \in DOMAIN packages : packages[n] \in Package
  BY <1>1, ElementOfSeq, LenProperties
<1>3. \A n \in DOMAIN packages : packages'[n] \in Package
  BY <1>2 DEF Invalidate, Retired, Package, PackageStatus
<1>4. packages' \in Seq(Package) /\ Len(packages') = Len(packages)
  BY <1>1, <1>3, SameShape DEF Invalidate
<1> QED BY <1>4 DEF Invalidate, TypeOK, FileType

(***************************************************************************)
(* Commands                                                                 *)
(***************************************************************************)
USE DEF rightsVars, fileVars, peopleVars, channelVars, eventVars, moneyVars

\* The values these constants of the model take are of their kinds.
LEMMA Kinds ==
  /\ \A r : Deadlines(r) \subseteq Clocks
  /\ "LATE" \in Clocks \/ "EXPIRED" \notin Clocks
  /\ Reports \subseteq AllReports
  /\ StageRules \subseteq Rules /\ IntakeRules \subseteq Rules
BY DomainAssumption
   DEF Deadlines, StageRules, IntakeRules, LibraryRule, NoRule, Rules, Rights

\* Commands about the rule and the merchant's rights keep the types.
LEMMA RuleTyped ==
  ASSUME TypeOK, RuleStep
  PROVE  TypeOK'
<1> USE DEF TypeOK, RightsType, FileType, PeopleType, ChannelType, EventType,
            MoneyType
<1>1. ASSUME NEW a \in People, NEW r \in Rules, NEW c \in Deadlines(r),
             ConfirmRule(a, r, c)
      PROVE  TypeOK'
  <2> DEFINE ts == Done(InvalidatedTasks,
               {"RULE_CONFIRMATION", "EVIDENCE", "REVISION", "DECISION"}, stage)
  <2>1. ts \in SUBSET Tasks
    BY InvalidatedTyped, DoneTyped
  <2>2. \A type \in {"RESPONSE_RIGHTS", "EVIDENCE"} :
          Todo(ts, type, stage) \in SUBSET Tasks
    BY <2>1, TodoTyped DEF TaskTypes
  <2> HIDE DEF ts
  <2>3. tasks' \in SUBSET Tasks
    BY <1>1, <2>1, <2>2 DEF ConfirmRule, ts
  <2>4. work' \in WorkStatus
    BY <1>1 DEF ConfirmRule, WorkStatus
  <2>5. eligibility' \in Eligibility /\ clock' \in Clocks
    BY <1>1, Kinds DEF ConfirmRule, Eligibility
  <2> QED BY <1>1, <2>3, <2>4, <2>5, InvalidateTyped DEF ConfirmRule
<1>2. ASSUME NEW a \in People, PublishTask(a)
      PROVE  TypeOK'
  <2>1. \A type \in {"EVIDENCE", "DECISION"} :
          Todo(tasks, type, stage) \in SUBSET Tasks
    BY TodoTyped DEF TaskTypes
  <2>2. tasks' \in SUBSET Tasks
    BY <1>2, <2>1 DEF PublishTask
  <2>3. work' \in WorkStatus /\ preparers' \subseteq Actors
    BY <1>2 DEF PublishTask, WorkStatus, Actors
  <2> QED BY <1>2, <2>2, <2>3 DEF PublishTask
<1>3. ASSUME NEW a \in People, NEW d \in MerchantDecision \ {"NONE"},
             MerchantDecide(a, d)
      PROVE  TypeOK'
  <2> DEFINE ts == Done(InvalidatedTasks,
               {"DECISION", "ACCEPT_DECISION", "EVIDENCE", "REVISION"}, stage)
  <2>1. ts \in SUBSET Tasks
    BY InvalidatedTyped, DoneTyped
  <2>2. \A type \in {"RESPONSE_RIGHTS", "EVIDENCE"} :
          Todo(ts, type, stage) \in SUBSET Tasks
    BY <2>1, TodoTyped DEF TaskTypes
  <2>3. Todo(Done(ts, {"RESPONSE_RIGHTS"}, stage), "ACCEPT_PROCESSING", stage)
          \in SUBSET Tasks
    BY <2>1, TodoTyped, DoneTyped DEF TaskTypes
  <2> HIDE DEF ts
  <2>4. tasks' \in SUBSET Tasks
    BY <1>3, <2>1, <2>2, <2>3 DEF MerchantDecide, ts
  <2>5. work' \in WorkStatus
    BY <1>3 DEF MerchantDecide, WorkStatus
  <2>6. eligibility' \in Eligibility /\ decision' \in MerchantDecision
        /\ auth' \in Nat
    BY <1>3 DEF MerchantDecide, Eligibility
  <2> QED BY <1>3, <2>4, <2>5, <2>6, InvalidateTyped DEF MerchantDecide
<1>4. ASSUME NEW a \in People,
             NEW res \in {"RESTORE_DECISION", "RESTORE_EVIDENCE"},
             RestoreRights(a, res)
      PROVE  TypeOK'
  <2>1. \A type \in {"EVIDENCE", "DECISION"} :
          Todo(InvalidatedTasks, type, stage) \in SUBSET Tasks
    BY InvalidatedTyped, TodoTyped DEF TaskTypes
  <2>2. tasks' \in SUBSET Tasks
    BY <1>4, <2>1, DoneTyped DEF RestoreRights
  <2>3. work' \in WorkStatus
    BY <1>4 DEF RestoreRights, WorkStatus
  <2>4. eligibility' \in Eligibility /\ decision' \in MerchantDecision
        /\ clock' \in Clocks
    BY <1>4, Kinds DEF RestoreRights, Eligibility, MerchantDecision
  <2> QED BY <1>4, <2>2, <2>3, <2>4, InvalidateTyped DEF RestoreRights
<1>5. ASSUME NEW a \in People, NEW res \in {"CONFIRM_LOSS", "FOLLOW_UP"},
             GiveUpRights(a, res)
      PROVE  TypeOK'
  <2>1. tasks' \in SUBSET Tasks
    BY <1>5, TodoTyped, DoneTyped DEF GiveUpRights, TaskTypes
  <2>2. work' \in WorkStatus /\ eligibility' \in Eligibility
    BY <1>5 DEF GiveUpRights, WorkStatus, Eligibility
  <2> QED BY <1>5, <2>1, <2>2 DEF GiveUpRights
<1> QED BY <1>1, <1>2, <1>3, <1>4, <1>5 DEF RuleStep

\* Every change of the evidence keeps the types.
LEMMA ChangeTyped ==
  ASSUME TypeOK, NEW a \in People, NEW ev \in [Items -> Evidence],
         ChangeEvidence(a, ev)
  PROVE  TypeOK'
<1> USE DEF TypeOK, RightsType, FileType, PeopleType, ChannelType, EventType,
            MoneyType
<1>1. SyncContentReview(InvalidatedTasks, ev) \in SUBSET Tasks
  BY InvalidatedTyped, SyncTyped
<1>2. Todo(SyncContentReview(InvalidatedTasks, ev), "EVIDENCE", stage)
        \in SUBSET Tasks
  BY <1>1, TodoTyped DEF TaskTypes
<1>3. work' \in WorkStatus /\ preparers' \subseteq Actors
  BY DEF ChangeEvidence, WorkStatus, Actors
<1> QED BY <1>2, <1>3, InvalidateTyped DEF ChangeEvidence

\* Commands about the evidence and its review keep the types.
LEMMA EvidenceTyped ==
  ASSUME TypeOK, EvidenceStep
  PROVE  TypeOK'
<1> USE DEF TypeOK, RightsType, FileType, PeopleType, ChannelType, EventType,
            MoneyType
<1>1. ASSUME NEW a \in People, NEW u \in People, NEW i \in Items,
             NEW c \in Codes, NEW check \in Checks,
             RegisterEvidence(a, u, i, c, check)
      PROVE  TypeOK'
  <2> DEFINE item == [active |-> TRUE, stages |-> {stage}, code |-> c,
                      auto |-> check, content |-> check, by |-> u]
  <2>1. item \in Evidence
    BY DomainAssumption DEF Evidence
  <2> HIDE DEF item
  <2>2. [evidence EXCEPT ![i] = item] \in [Items -> Evidence]
    BY <2>1
  <2> QED BY <1>1, <2>2, ChangeTyped DEF RegisterEvidence, item
<1>2. ASSUME NEW a \in People, NEW i \in Items,
             NEW verdict \in {"SUPPORTED", "INSUFFICIENT"},
             ReviewContent(a, i, verdict)
      PROVE  TypeOK'
  <2>1. [evidence EXCEPT ![i].content = verdict] \in [Items -> Evidence]
    <3>1. evidence[i] \in Evidence
      OBVIOUS
    <3>2. [evidence[i] EXCEPT !.content = verdict] \in Evidence
      BY <3>1 DEF Evidence, ContentStatus
    <3> QED BY <3>2
  <2>2. ChangeEvidence(a, [evidence EXCEPT ![i].content = verdict])
    BY <1>2 DEF ReviewContent
  <2> QED BY <2>1, <2>2, ChangeTyped
<1>3. ASSUME NEW a \in People, NEW i \in Items, WithdrawEvidence(a, i)
      PROVE  TypeOK'
  <2>1. [evidence EXCEPT ![i].active = FALSE] \in [Items -> Evidence]
    BY DEF Evidence
  <2>2. ChangeEvidence(a, [evidence EXCEPT ![i].active = FALSE])
    BY <1>3 DEF WithdrawEvidence
  <2> QED BY <2>1, <2>2, ChangeTyped
<1>4. ASSUME NEW a \in People, NEW items \in SUBSET Items,
             ReuseEvidence(a, items)
      PROVE  TypeOK'
  <2>1. \A i \in Items : [evidence[i] EXCEPT !.stages = @ \union {stage}] \in Evidence
    BY DEF Evidence
  <2>2. evidence' \in [Items -> Evidence]
    BY <1>4, <2>1 DEF ReuseEvidence
  <2>3. tasks' \in SUBSET Tasks
    BY <1>4, InvalidatedTyped, DoneTyped DEF ReuseEvidence
  <2>4. work' \in WorkStatus
    BY <1>4 DEF ReuseEvidence, WorkStatus
  <2> QED BY <1>4, <2>2, <2>3, <2>4, InvalidateTyped DEF ReuseEvidence
<1>5. ASSUME NEW a \in People, SubmitEvidence(a)
      PROVE  TypeOK'
  <2> DEFINE ts == Done(tasks, {"EVIDENCE", "REVISION", "EVIDENCE_OVERDUE"}, stage)
  <2>1. ts \in SUBSET Tasks
    BY DoneTyped
  <2>2. Todo(ts, "OP_REVIEW", stage) \in SUBSET Tasks
    BY <2>1, TodoTyped DEF TaskTypes
  <2>3. work' \in WorkStatus /\ preparers' \subseteq Actors
    BY <1>5 DEF SubmitEvidence, WorkStatus, Actors
  <2> QED BY <1>5, <2>2, <2>3 DEF SubmitEvidence
<1>6. ASSUME NEW a \in People, NEW verdict, Review(a, verdict)
      PROVE  TypeOK'
  <2>1. \A type \in {"REVISION", "ACCEPT_DECISION"} :
          Todo(tasks, type, stage) \in SUBSET Tasks
    BY TodoTyped DEF TaskTypes
  <2>2. tasks' \in SUBSET Tasks
    BY <1>6, <2>1, DoneTyped DEF Review
  <2>3. work' \in WorkStatus /\ preparers' \subseteq Actors
        /\ reviewer' \in People \union {Nobody}
    BY <1>6 DEF Review, WorkStatus, Actors
  <2> QED BY <1>6, <2>2, <2>3 DEF Review
<1> QED BY <1>1, <1>2, <1>3, <1>4, <1>5, <1>6 DEF EvidenceStep

\* Replacing one package by one of the kind keeps the list's kind and length.
LEMMA PackageReplaced ==
  ASSUME TypeOK, NEW p \in DOMAIN packages, NEW new \in Package
  PROVE  /\ [packages EXCEPT ![p] = new] \in Seq(Package)
         /\ Len([packages EXCEPT ![p] = new]) = Len(packages)
BY ExceptSeq, LenProperties DEF TypeOK, FileType

\* What an attempt or the answer of a query leaves is a receipt.
LEMMA ReceiptTyped ==
  /\ \A sc \in AllScenarios : Attempt(sc) \in Receipt
  /\ \A r \in Receipt : \A answer \in {"ACCEPTED", "NOT_ACCEPTED", "UNKNOWN"} :
       Queried(r, answer) \in Receipt
  /\ \A r \in Receipt : [r EXCEPT !.acceptance = "NO_ACTION_REQUIRED"] \in Receipt
  /\ NoReceipt \in Receipt
<1>1. \A sc \in AllScenarios : Attempt(sc) \in Receipt
  BY DEF Attempt, AllScenarios, Receipt, Acceptance
<1>2. ASSUME NEW r \in Receipt,
             NEW answer \in {"ACCEPTED", "NOT_ACCEPTED", "UNKNOWN"}
      PROVE  Queried(r, answer) \in Receipt
  BY DEF Queried, Receipt, Acceptance
<1>3. \A r \in Receipt : [r EXCEPT !.acceptance = "NO_ACTION_REQUIRED"] \in Receipt
  BY DEF Receipt, Acceptance
<1>4. NoReceipt \in Receipt
  BY DEF NoReceipt, Receipt, Acceptance
<1> QED BY <1>1, <1>2, <1>3, <1>4

\* Commands about packages keep the types.
LEMMA PackageTyped ==
  ASSUME TypeOK, PackageStep
  PROVE  TypeOK'
<1> USE DEF TypeOK, RightsType, FileType, PeopleType, ChannelType, EventType,
            MoneyType
<1>1. \A n \in DOMAIN packages : packages[n] \in Package
  BY ElementOfSeq, LenProperties
<1>2. DOMAIN submissions = DOMAIN packages
  BY LenProperties
<1>3. ASSUME NEW a \in Actors, BuildPackage(a)
      PROVE  TypeOK'
  <2> DEFINE new == [status |-> "DRAFT", version |-> version, stage |-> stage,
                     index |-> EvidenceIndex, rule |-> rule, by |-> a,
                     approver |-> Nobody]
  <2>1. EvidenceIndex \in [Applicable(evidence, stage) -> Evidence]
    BY DEF EvidenceIndex, Applicable
  <2>2. EvidenceIndex \in UNION {[S -> Evidence] : S \in SUBSET Items}
    BY <2>1 DEF Applicable
  <2>3. new \in Package
    BY <2>2 DEF Package, PackageStatus
  <2> HIDE DEF new
  <2>4. packages' \in Seq(Package) /\ Len(packages') = Len(packages) + 1
    BY <1>3, <2>3, AppendProperties DEF BuildPackage, new
  <2>5. submissions' \in Seq(Receipt) /\ Len(submissions') = Len(submissions) + 1
    BY <1>3, ReceiptTyped, AppendProperties DEF BuildPackage
  <2>6. Done(tasks, {"DOCUMENT_REVISION"}, stage) \in SUBSET Tasks
    BY DoneTyped
  <2>7. Todo(Done(tasks, {"DOCUMENT_REVISION"}, stage), "FINAL_REVIEW", stage)
          \in SUBSET Tasks
    BY <2>6, TodoTyped DEF TaskTypes
  <2>8. work' \in WorkStatus /\ preparers' \subseteq Actors
    BY <1>3 DEF BuildPackage, WorkStatus
  <2> QED BY <1>3, <2>4, <2>5, <2>7, <2>8 DEF BuildPackage
<1>4. ASSUME NEW a \in Actors, NEW p \in DOMAIN packages, ApprovePackage(a, p)
      PROVE  TypeOK'
  <2>1. [packages[p] EXCEPT !.status = "FROZEN", !.approver = a] \in Package
    BY <1>1, <1>4 DEF ApprovePackage, Package, PackageStatus, People, Staff
  <2>2. packages' = [packages EXCEPT ![p] =
          [packages[p] EXCEPT !.status = "FROZEN", !.approver = a]]
    BY <1>4 DEF ApprovePackage
  <2>3. packages' \in Seq(Package) /\ Len(packages') = Len(packages)
    BY <2>1, <2>2, PackageReplaced
  <2>4. tasks' \in SUBSET Tasks /\ work' \in WorkStatus
    BY <1>4, DoneTyped DEF ApprovePackage, WorkStatus
  <2> QED BY <1>4, <2>3, <2>4 DEF ApprovePackage
<1>5. ASSUME NEW a \in Actors, NEW p \in DOMAIN packages, NEW verdict,
             FinalReturn(a, p, verdict)
      PROVE  TypeOK'
  <2> DEFINE ts == Done(tasks, {"FINAL_REVIEW", "ESCALATION_HOLD"}, stage)
             us == Done(InvalidatedTasks, {"FINAL_REVIEW", "ESCALATION_HOLD"}, stage)
  <2>1. ts \in SUBSET Tasks /\ us \in SUBSET Tasks
    BY DoneTyped, InvalidatedTyped
  <2>2. Todo(us, "REVISION", stage) \in SUBSET Tasks
        /\ \A type \in {"DOCUMENT_REVISION", "ACCEPT_DECISION", "ESCALATION_HOLD"} :
             Todo(ts, type, stage) \in SUBSET Tasks
    BY <2>1, TodoTyped DEF TaskTypes
  <2> HIDE DEF ts, us
  <2>3. tasks' \in SUBSET Tasks
    BY <1>5, <2>2 DEF FinalReturn, ts, us
  <2>4. work' \in WorkStatus
    BY <1>5 DEF FinalReturn, WorkStatus
  <2>5. [packages[p] EXCEPT !.status = "INVALIDATED"] \in Package
    BY <1>1 DEF Package, PackageStatus
  <2>6. [packages EXCEPT ![p].status = "INVALIDATED"] =
        [packages EXCEPT ![p] = [packages[p] EXCEPT !.status = "INVALIDATED"]]
    OBVIOUS
  <2>7. FileType' /\ Len(packages') = Len(packages)
    <3>1. CASE verdict = "RETURN_MATERIALS"
      BY <1>5, <3>1, InvalidateTyped DEF FinalReturn
    <3>2. CASE verdict # "RETURN_MATERIALS"
      BY <1>5, <3>2, <2>5, <2>6, PackageReplaced DEF FinalReturn
    <3> QED BY <3>1, <3>2
  <2> QED BY <1>5, <2>3, <2>4, <2>7 DEF FinalReturn
<1>6. ASSUME NEW a \in Actors, NEW p \in DOMAIN packages, NEW sc \in Scenarios,
             Submit(a, p, sc)
      PROVE  TypeOK'
  <2>1. Attempt(sc) \in Receipt
    BY ReceiptTyped, DomainAssumption
  <2>2. submissions' \in Seq(Receipt) /\ Len(submissions') = Len(submissions)
    BY <1>2, <1>6, <2>1, ExceptSeq, LenProperties DEF Submit
  <2>3. Todo(tasks, "SUBMISSION_QUERY", stage) \in SUBSET Tasks
    BY TodoTyped DEF TaskTypes
  <2>4. tasks' \in SUBSET Tasks /\ work' \in WorkStatus
    BY <1>6, <2>3 DEF Submit, Await, WorkStatus
  <2> QED BY <1>6, <2>2, <2>4 DEF Submit
<1> QED BY <1>3, <1>4, <1>5, <1>6 DEF PackageStep

\* Queries and acceptances keep the types.
LEMMA ChannelTyped ==
  ASSUME TypeOK, ChannelStep
  PROVE  TypeOK'
<1> USE DEF TypeOK, RightsType, FileType, PeopleType, ChannelType, EventType,
            MoneyType
<1>1. /\ \A p \in DOMAIN submissions : submissions[p] \in Receipt
      /\ \A k \in DOMAIN acceptances : acceptances[k] \in Acceptances
  BY ElementOfSeq, LenProperties
<1>2. ASSUME NEW answer, NEW back \in WorkStatus, Answered(answer, back)
      PROVE  work' \in WorkStatus /\ tasks' \in SUBSET Tasks
  BY <1>2, DoneTyped DEF Answered, WorkStatus
<1>3. ASSUME NEW k \in DOMAIN acceptances, NEW r \in Receipt
      PROVE  [acceptances EXCEPT ![k].receipt = r] \in Seq(Acceptances)
  <2>1. [acceptances[k] EXCEPT !.receipt = r] \in Acceptances
    BY <1>1 DEF Acceptances
  <2>2. [acceptances EXCEPT ![k].receipt = r] =
        [acceptances EXCEPT ![k] = [acceptances[k] EXCEPT !.receipt = r]]
    OBVIOUS
  <2> QED BY <2>1, <2>2, ExceptSeq, LenProperties
<1>4. ASSUME NEW a \in Staff, NEW answer \in {"ACCEPTED", "NOT_ACCEPTED", "UNKNOWN"},
             NEW p \in DOMAIN submissions, QuerySubmission(a, p, answer)
      PROVE  TypeOK'
  <2>1. Queried(submissions[p], answer) \in Receipt
    BY <1>1, ReceiptTyped
  <2>2. submissions' \in Seq(Receipt) /\ Len(submissions') = Len(submissions)
    BY <1>4, <2>1, ExceptSeq, LenProperties DEF QuerySubmission
  <2>3. work' \in WorkStatus /\ tasks' \in SUBSET Tasks
    BY <1>2, <1>4 DEF QuerySubmission, WorkStatus
  <2> QED BY <1>4, <2>2, <2>3 DEF QuerySubmission
<1>5. ASSUME NEW a \in Staff, NEW answer \in {"ACCEPTED", "NOT_ACCEPTED", "UNKNOWN"},
             NEW k \in DOMAIN acceptances, QueryAcceptance(a, k, answer)
      PROVE  TypeOK'
  <2>1. acceptances[k].receipt \in Receipt
    BY <1>1 DEF Acceptances
  <2>2. Queried(acceptances[k].receipt, answer) \in Receipt
    BY <2>1, ReceiptTyped
  <2>3. acceptances' \in Seq(Acceptances)
    BY <1>3, <1>5, <2>2 DEF QueryAcceptance
  <2>4. work' \in WorkStatus /\ tasks' \in SUBSET Tasks
    BY <1>2, <1>5 DEF QueryAcceptance, WorkStatus
  <2> QED BY <1>5, <2>3, <2>4 DEF QueryAcceptance
<1>6. ASSUME NEW a \in Staff, NEW mode \in {"MOCK", "NO_ACTION_REQUIRED"},
             NEW sc \in Scenarios, ProcessAccept(a, mode, sc)
      PROVE  TypeOK'
  <2> DEFINE Sent(r) == IF mode = "MOCK"
                          THEN Attempt(sc)
                          ELSE [r EXCEPT !.acceptance = "NO_ACTION_REQUIRED"]
  <2>1. \A r \in Receipt : Sent(r) \in Receipt
    BY ReceiptTyped, DomainAssumption
  <2> HIDE DEF Sent
  <2>2. acceptances' \in Seq(Acceptances)
    <3>1. CASE acceptances' = Append(acceptances,
                 [stage |-> stage, auth |-> auth, receipt |-> Sent(NoReceipt)])
      <4>1. [stage |-> stage, auth |-> auth, receipt |-> Sent(NoReceipt)]
              \in Acceptances
        BY <2>1, ReceiptTyped DEF Acceptances
      <4> QED BY <3>1, <4>1, AppendProperties
    <3>2. ASSUME NEW k \in PreviousRequests,
                 acceptances' = [acceptances EXCEPT ![k].receipt = Sent(@)]
          PROVE  acceptances' \in Seq(Acceptances)
      <4>1. k \in DOMAIN acceptances /\ acceptances[k].receipt \in Receipt
        BY <1>1 DEF PreviousRequests, Acceptances
      <4>2. Sent(acceptances[k].receipt) \in Receipt
        BY <2>1, <4>1
      <4> QED BY <1>3, <3>2, <4>1, <4>2
    <3> QED BY <1>6, <3>1, <3>2 DEF ProcessAccept, Sent
  <2>3. Todo(tasks, "SUBMISSION_QUERY", stage) \in SUBSET Tasks
    BY TodoTyped DEF TaskTypes
  <2>4. tasks' \in SUBSET Tasks /\ work' \in WorkStatus
    BY <1>6, <2>3, DoneTyped DEF ProcessAccept, Await, WorkStatus
  <2> QED BY <1>6, <2>2, <2>4 DEF ProcessAccept
<1> QED BY <1>4, <1>5, <1>6 DEF ChannelStep

(***************************************************************************)
(* Outcomes                                                                 *)
(***************************************************************************)
\* Entering a stage leaves the fields it sets well typed.
LEMMA EnterTyped ==
  ASSUME TypeOK, NEW r \in Rules, NEW c \in Deadlines(r), EnterStage(r, c)
  PROVE  /\ auth' \in Nat => RightsType'
         /\ version' \in Nat /\ reviewer' = Nobody /\ packages' \in Seq(Package)
         /\ Len(packages') = Len(packages)
         /\ EntryTasks \in SUBSET Tasks
         /\ EntryWork(r) \in WorkStatus
<1>1. stage' \in 1..MaxStage
  BY BoundAssumption DEF EnterStage, TypeOK, RightsType
<1>2. auth' \in Nat => RightsType'
  BY <1>1, Kinds DEF EnterStage, TypeOK, RightsType, MerchantDecision, Eligibility
<1>3. \A ts \in SUBSET Tasks :
        Todo(ts, "EVIDENCE_APPLICABILITY", stage + 1) \in SUBSET Tasks
  BY <1>1, TodoTyped DEF EnterStage, TaskTypes
<1>4. EntryTasks \in SUBSET Tasks
  BY <1>3, DoneTyped DEF EntryTasks, TypeOK
<1>5. EntryWork(r) \in WorkStatus
  BY DEF EntryWork, WorkStatus
<1> QED BY <1>2, <1>4, <1>5, InvalidateTyped DEF EnterStage

\* _apply_outcome leaves everything but the work, the tasks, the events and the
\* verification fields, which its callers set, well typed.
LEMMA AppliedTyped ==
  ASSUME TypeOK, NEW report \in AllReports, NEW r \in Rules,
         NEW c \in Deadlines(r), ApplyOutcome(report, r, c)
  PROVE  /\ RightsType' /\ FileType' /\ Len(packages') = Len(packages)
         /\ PeopleType' /\ ChannelType' /\ submissions' = submissions
         /\ MoneyType'
         /\ outcome' \in {"KNOWN", "UNKNOWN"}
         /\ final' \in BOOLEAN /\ pendingNext' \in BOOLEAN /\ reopened' \in BOOLEAN
         /\ outcomeVersion' \in Nat
         /\ OutcomeTasks(report) \in SUBSET Tasks
         /\ OutcomeWork(report, r) \in WorkStatus
<1> USE DEF TypeOK, RightsType, FileType, PeopleType, ChannelType, EventType,
            MoneyType
<1>1. report.final \in BOOLEAN /\ report.next \in BOOLEAN
  BY DEF AllReports
<1>2. RightsType' /\ FileType' /\ Len(packages') = Len(packages)
  <2>1. CASE report.next
    BY <2>1, EnterTyped DEF ApplyOutcome
  <2>2. CASE ~report.next
    BY <2>2, InvalidateTyped DEF ApplyOutcome
  <2> QED BY <2>1, <2>2, <1>1
<1>3. OutcomeTasks(report) \in SUBSET Tasks /\ OutcomeWork(report, r) \in WorkStatus
  <2> DEFINE ts == Done(tasks, CancelledByFinal, stage)
  <2>1. ts \in SUBSET Tasks
    BY DoneTyped
  <2>2. /\ Todo(ts, "FINANCIAL_RECONCILIATION", stage) \in SUBSET Tasks
        /\ Todo(tasks, "NEXT_STAGE", stage) \in SUBSET Tasks
        /\ Todo(tasks, "UPSTREAM_ACTION", stage) \in SUBSET Tasks
    BY <2>1, TodoTyped DEF TaskTypes
  <2>3. report.next => EntryTasks \in SUBSET Tasks /\ EntryWork(r) \in WorkStatus
    BY EnterTyped DEF ApplyOutcome
  <2>4. OutcomeTasks(report) \in SUBSET Tasks
    BY <1>1, <2>2, <2>3 DEF OutcomeTasks
  <2>5. OutcomeWork(report, r) \in WorkStatus
    BY <1>1, <2>3 DEF OutcomeWork, WorkStatus
  <2> QED BY <2>4, <2>5
<1>4. outcome' \in {"KNOWN", "UNKNOWN"} /\ pendingNext' \in BOOLEAN
      /\ notified' \in BOOLEAN
  <2>1. CASE report.next
    BY <2>1 DEF ApplyOutcome, EnterStage
  <2>2. CASE ~report.next
    BY <2>2 DEF ApplyOutcome
  <2> QED BY <2>1, <2>2, <1>1
<1>5. final' = report.final /\ reopened' = FALSE
  BY DEF ApplyOutcome
<1>6. final' \in BOOLEAN /\ reopened' \in BOOLEAN
  BY <1>1, <1>5
<1>7. outcomeVersion' \in Nat /\ finStatus' \in FinancialStatus
  BY DEF ApplyOutcome, FinancialStatus
<1> QED BY <1>2, <1>3, <1>4, <1>6, <1>7 DEF ApplyOutcome

\* Settling an event keeps the list of events and the kind of what it sets.
LEMMA SettledTyped ==
  ASSUME TypeOK, NEW n \in DOMAIN events,
         NEW v \in {"CONFIRMED", "REJECTED"}, NEW next \in WorkStatus,
         NEW ts \in SUBSET Tasks, Settle(n, v, next, ts)
  PROVE  /\ events' \in Seq(Event) /\ verifying' \in BOOLEAN
         /\ work' \in WorkStatus /\ tasks' \in SUBSET Tasks
<1>1. events \in Seq(Event)
  BY DEF TypeOK, EventType
<1>2. [events[n] EXCEPT !.verification = v] \in Event
  <2>1. events[n] \in Event
    BY <1>1, ElementOfSeq, LenProperties
  <2> QED BY <2>1 DEF Event
<1>3. events' = [events EXCEPT ![n] = [events[n] EXCEPT !.verification = v]]
  BY DEF Settle
<1>4. events' \in Seq(Event)
  BY <1>1, <1>2, <1>3, ExceptSeq, LenProperties
<1>5. verifying' \in BOOLEAN /\ work' \in WorkStatus /\ tasks' \in SUBSET Tasks
  BY DoneTyped DEF Settle, WorkStatus
<1> QED BY <1>4, <1>5

\* Outcome reports, their verification, new stages and reopening keep the types.
LEMMA OutcomeTyped ==
  ASSUME TypeOK, OutcomeStep
  PROVE  TypeOK'
<1> USE DEF TypeOK, RightsType, FileType, PeopleType, ChannelType, EventType,
            MoneyType
<1>1. \A n \in DOMAIN events : events[n] \in Event
  BY ElementOfSeq, LenProperties
<1>2. ASSUME NEW a \in Staff, NEW r \in StageRules, NEW c \in Deadlines(r),
             NEW report \in Reports, NEW s \in 1..MaxStage,
             NEW corrects \in BOOLEAN,
             RecordOutcome(a, report, s, corrects, r, c)
      PROVE  TypeOK'
  <2> DEFINE unclear == \/ report.disp = "VERIFY" \/ report.cls # "KNOWN"
                        \/ corrects \/ s # stage
                        \/ work \notin {"WAITING_UPSTREAM", "UPSTREAM_ACTION_REQUIRED"}
             new == [report |-> report, stage |-> s, previous |-> work,
                     verification |-> IF unclear THEN "PENDING" ELSE "CONFIRMED"]
  <2>1. report \in AllReports /\ r \in Rules
    BY Kinds
  <2>2. new \in Event
    BY <2>1 DEF Event
  <2> HIDE DEF new, unclear
  <2>3. events' \in Seq(Event)
    BY <1>2, <2>2, AppendProperties DEF RecordOutcome, new, unclear
  <2>4. verifying' \in BOOLEAN
    BY <1>2 DEF RecordOutcome
  <2>5. CASE unclear
    <3>1. Todo(tasks, "OUTCOME_CONFIRMATION", stage) \in SUBSET Tasks
      BY TodoTyped DEF TaskTypes
    <3>2. tasks' \in SUBSET Tasks /\ work' \in WorkStatus
          /\ resume' \in WorkStatus \union {"NONE"}
      BY <1>2, <2>5, <3>1 DEF RecordOutcome, unclear, WorkStatus
    <3>3. UNCHANGED <<rightsVars, fileVars, peopleVars, channelVars, outcome,
                      final, outcomeVersion, pendingNext, reopened, moneyVars>>
      BY <1>2, <2>5 DEF RecordOutcome, unclear
    <3> QED BY <2>3, <2>4, <3>2, <3>3
  <2>6. CASE ~unclear
    <3>1. /\ ApplyOutcome(report, r, c)
          /\ work' = OutcomeWork(report, r) /\ tasks' = OutcomeTasks(report)
          /\ resume' \in {"NONE", work'}
      BY <1>2, <2>6 DEF RecordOutcome, unclear
    <3> QED BY <2>1, <2>3, <2>4, <3>1, AppliedTyped
  <2> QED BY <2>5, <2>6
<1>3. ASSUME NEW a \in Staff, NEW r \in StageRules, NEW c \in Deadlines(r),
             NEW n \in DOMAIN events, ConfirmOutcome(a, n, r, c)
      PROVE  TypeOK'
  <2> DEFINE report == events[n].report
  <2>1. report \in AllReports /\ r \in Rules
    BY <1>1, Kinds DEF Event
  <2>2. /\ ApplyOutcome(report, r, c)
        /\ Settle(n, "CONFIRMED", OutcomeWork(report, r), OutcomeTasks(report))
        /\ resume' \in {"NONE", OutcomeWork(report, r)}
    BY <1>3 DEF ConfirmOutcome
  <2> HIDE DEF report
  <2> QED BY <2>1, <2>2, AppliedTyped, SettledTyped
<1>4. ASSUME NEW a \in Staff, NEW r \in StageRules, NEW c \in Deadlines(r),
             NextStage(a, r, c)
      PROVE  TypeOK'
  <2>1. r \in Rules /\ EnterStage(r, c)
    BY <1>4, Kinds DEF NextStage
  <2> QED BY <1>4, <2>1, EnterTyped DEF NextStage, EnterStage
<1>5. ASSUME NEW a \in Staff, NEW n \in DOMAIN events, RejectOutcome(a, n)
      PROVE  TypeOK'
  <2> DEFINE next == IF resume = "NONE" THEN events[n].previous ELSE resume
  <2>1. next \in WorkStatus
    BY <1>1 DEF Event
  <2>2. Settle(n, "REJECTED", next, tasks)
    BY <1>5 DEF RejectOutcome
  <2> HIDE DEF next
  <2>3. resume' \in WorkStatus \union {"NONE"}
    BY <1>5 DEF RejectOutcome
  <2> QED BY <1>5, <2>1, <2>2, <2>3, SettledTyped DEF RejectOutcome
<1>6. ASSUME NEW a \in Staff, ReopenCase(a)
      PROVE  TypeOK'
  <2>1. tasks' \in SUBSET Tasks
    BY <1>6, TodoTyped DEF ReopenCase, TaskTypes
  <2>2. work' \in WorkStatus /\ finStatus' \in FinancialStatus
    BY <1>6 DEF ReopenCase, Unsettle, WorkStatus, FinancialStatus
  <2> QED BY <1>6, <2>1, <2>2 DEF ReopenCase, Unsettle
<1> QED BY <1>2, <1>3, <1>4, <1>5, <1>6 DEF OutcomeStep

\* The ledger, reconciliation, notification and closing keep the types.
LEMMA MoneyTyped ==
  ASSUME TypeOK, MoneyStep
  PROVE  TypeOK'
<1> USE DEF TypeOK, RightsType, FileType, PeopleType, ChannelType, EventType,
            MoneyType
<1>1. Todo(tasks, "FINANCIAL_RECONCILIATION", stage) \in SUBSET Tasks
  BY TodoTyped DEF TaskTypes
<1>2. Covered \in Versions
  BY DEF Covered, Versions
<1>3. ASSUME NEW a \in Staff, RecordFinancial(a)
      PROVE  TypeOK'
  <2>1. tasks' \in SUBSET Tasks
    BY <1>1, <1>3 DEF RecordFinancial
  <2>2. notified' \in BOOLEAN
    BY <1>3 DEF RecordFinancial, Unsettle
  <2>3. ledger' \in Nat /\ recorders' \subseteq Staff
        /\ finStatus' \in FinancialStatus
    BY <1>3 DEF RecordFinancial, Unsettle, FinancialStatus
  <2> QED BY <1>3, <2>1, <2>2, <2>3 DEF RecordFinancial
<1>4. ASSUME NEW a \in Staff,
             NEW status \in {"RECONCILED", "NOT_APPLICABLE", "DISCREPANCY"},
             Reconcile(a, status)
      PROVE  TypeOK'
  <2>1. tasks' \in SUBSET Tasks
    BY <1>1, <1>4, DoneTyped DEF Reconcile
  <2> QED BY <1>2, <1>4, <2>1 DEF Reconcile, FinancialStatus
<1>5. ASSUME NEW a \in Staff, NotifyMerchant(a)
      PROVE  TypeOK'
  <2>1. notified' \in BOOLEAN
    BY <1>5 DEF NotifyMerchant
  <2> QED BY <1>2, <1>5, <2>1 DEF NotifyMerchant
<1>6. ASSUME NEW a \in Staff, CloseCase(a)
      PROVE  TypeOK'
  BY <1>6 DEF CloseCase, WorkStatus
<1> QED BY <1>3, <1>4, <1>5, <1>6 DEF MoneyStep

\* Monitoring, task resolution, assignment and time keep the types.
LEMMA AnyTimeTyped ==
  ASSUME TypeOK, AnyTimeStep
  PROVE  TypeOK'
<1> USE DEF TypeOK, RightsType, FileType, PeopleType, ChannelType, EventType,
            MoneyType
<1>1. ASSUME NEW a \in Actors, MonitorSLA(a)
      PROVE  TypeOK'
  <2>1. PICK type \in {"RULE_CONFIRMATION", "EVIDENCE_OVERDUE", "SLA_ESCALATION",
                       "SLA_REMINDER"} : tasks' = Todo(tasks, type, stage)
    BY <1>1 DEF MonitorSLA
  <2>2. tasks' \in SUBSET Tasks
    BY <2>1, TodoTyped DEF TaskTypes
  <2> QED BY <1>1, <2>2 DEF MonitorSLA
<1>2. ASSUME NEW a \in Staff, NEW t \in tasks, ResolveTask(a, t)
      PROVE  TypeOK'
  BY <1>2 DEF ResolveTask
<1>3. ASSUME NEW a \in Staff, NEW u \in Staff, AssignCase(a, u)
      PROVE  TypeOK'
  BY <1>3 DEF AssignCase
<1>4. ASSUME NEW a \in Staff, DuplicateIntake(a)
      PROVE  TypeOK'
  BY <1>4 DEF DuplicateIntake, Actors, People
<1>5. ASSUME Tick
      PROVE  TypeOK'
  <2>1. clock' \in Clocks
    BY <1>5 DEF Tick
  <2>2. RightsType'
    BY <1>5, <2>1 DEF Tick
  <2> QED BY <1>5, <2>2 DEF Tick
<1> QED BY <1>1, <1>2, <1>3, <1>4, <1>5 DEF AnyTimeStep

(***************************************************************************)
(* Type correctness                                                         *)
(***************************************************************************)
LEMMA InitTyped == Init => TypeOK
<1> SUFFICES ASSUME Init PROVE TypeOK
  OBVIOUS
<1> USE DEF Init
<1>1. rule \in Rules /\ clock \in Clocks
  BY Kinds
<1>2. RightsType
  BY <1>1, BoundAssumption DEF RightsType, MerchantDecision, Eligibility
<1>3. NoItem \in Evidence
  BY DEF NoItem, Evidence, ContentStatus
<1>4. FileType
  BY <1>3 DEF FileType
<1>5. PeopleType /\ ChannelType
  BY DEF PeopleType, ChannelType, Actors, People
<1>6. final \in BOOLEAN /\ verifying \in BOOLEAN /\ pendingNext \in BOOLEAN
      /\ reopened \in BOOLEAN /\ notified \in BOOLEAN
  OBVIOUS
<1>7. EventType /\ MoneyType
  BY <1>6 DEF EventType, MoneyType, FinancialStatus, Versions
<1>8. work \in WorkStatus /\ tasks \in SUBSET Tasks
      /\ Len(submissions) = Len(packages)
  BY DEF EntryWork, WorkStatus
<1> QED BY <1>2, <1>4, <1>5, <1>7, <1>8 DEF TypeOK

\* A stuttering step changes nothing.
LEMMA StutterTyped == TypeOK /\ UNCHANGED vars => TypeOK'
BY DEF vars, TypeOK, RightsType, FileType, PeopleType, ChannelType, EventType,
       MoneyType

\* One command keeps the types.
LEMMA StepTyped == TypeOK /\ [Next]_vars => TypeOK'
BY RuleTyped, EvidenceTyped, PackageTyped, ChannelTyped, OutcomeTyped,
   MoneyTyped, AnyTimeTyped, StutterTyped DEF Next

\* Every case keeps the shape the code relies on, whatever its people, evidence,
\* deadlines, reports and bounds: each command commits a well-formed aggregate.
THEOREM TypeCorrect == Spec => []TypeOK
BY InitTyped, StepTyped, PTL DEF Spec

-----------------------------------------------------------------------------
(***************************************************************************)
(* Safety of the contest: what is reviewed, approved and sent.  Every command *)
(* treats the reviewed file in one of six ways (FileStep); one lemma shows    *)
(* that over all commands, and the properties of reviews and packages follow  *)
(* from it.                                                                 *)
(***************************************************************************)
\* REVIEW with PASS.
Passes ==
  /\ work = "OP_REVIEW" /\ ContestReady /\ EvidenceReady
  /\ reviewer' \in Staff
  /\ UNCHANGED <<version, evidence, packages>>

\* BUILD_PACKAGE.
Builds ==
  /\ Reviewed
  /\ \E a \in Actors : packages' = Append(packages,
       [status |-> "DRAFT", version |-> version, stage |-> stage,
        index |-> EvidenceIndex, rule |-> rule, by |-> a, approver |-> Nobody])
  /\ UNCHANGED <<version, evidence, reviewer>>

\* APPROVE_PACKAGE.
Freezes ==
  /\ \E p \in DOMAIN packages, a \in Supervisors :
       /\ packages[p].status = "DRAFT" /\ a \notin {reviewer, packages[p].by}
       /\ packages' =
            [packages EXCEPT ![p].status = "FROZEN", ![p].approver = a]
  /\ UNCHANGED <<version, evidence, reviewer>>

\* FINAL_REVIEW that sends the document back.
Voids ==
  /\ \E p \in DOMAIN packages :
       packages' = [packages EXCEPT ![p].status = "INVALIDATED"]
  /\ UNCHANGED <<version, evidence, reviewer>>

FileStep ==
  \/ Invalidate
  \/ /\ UNCHANGED <<stage, rule, decision>>
     /\ Passes \/ Builds \/ Freezes \/ Voids \/ UNCHANGED fileVars

\* Only _apply_outcome with a final or a named next stage invalidates.
LEMMA AppliedFiles ==
  ASSUME NEW report \in AllReports, NEW r, NEW c, ApplyOutcome(report, r, c)
  PROVE  FileStep
<1>1. report.final \in BOOLEAN /\ report.next \in BOOLEAN
  BY DEF AllReports
<1>2. CASE report.next
  BY <1>2 DEF ApplyOutcome, EnterStage, FileStep
<1>3. CASE ~report.next /\ report.final
  BY <1>3 DEF ApplyOutcome, FileStep
<1>4. CASE ~report.next /\ ~report.final
  BY <1>4 DEF ApplyOutcome, FileStep
<1> QED BY <1>1, <1>2, <1>3, <1>4

\* Each command retires all reviewed work, or leaves stage, rule and decision
\* alone and touches the file as one of Passes, Builds, Freezes, Voids.
LEMMA EveryStepFiles ==
  ASSUME TypeOK, [Next]_vars
  PROVE  FileStep
<1>1. CASE RuleStep
  BY <1>1 DEF RuleStep, ConfirmRule, PublishTask, MerchantDecide, RestoreRights,
              GiveUpRights, FileStep
<1>2. CASE EvidenceStep
  <2>1. ASSUME NEW a \in People, NEW verdict, Review(a, verdict)
        PROVE  FileStep
    BY <2>1 DEF Review, FileStep, Passes
  <2>2. ASSUME NEW a \in People, SubmitEvidence(a)
        PROVE  FileStep
    BY <2>2 DEF SubmitEvidence, FileStep
  <2>3. ASSUME NEW a, NEW ev, ChangeEvidence(a, ev)
        PROVE  FileStep
    BY <2>3 DEF ChangeEvidence, FileStep
  <2>4. ASSUME NEW a, NEW u, NEW i, NEW c, NEW check,
               RegisterEvidence(a, u, i, c, check)
        PROVE  FileStep
    BY <2>3, <2>4 DEF RegisterEvidence
  <2>5. ASSUME NEW a, NEW i, NEW verdict, ReviewContent(a, i, verdict)
        PROVE  FileStep
    BY <2>3, <2>5 DEF ReviewContent
  <2>6. ASSUME NEW a, NEW i, WithdrawEvidence(a, i)
        PROVE  FileStep
    BY <2>3, <2>6 DEF WithdrawEvidence
  <2>7. ASSUME NEW a, NEW items, ReuseEvidence(a, items)
        PROVE  FileStep
    BY <2>7 DEF ReuseEvidence, FileStep
  <2> QED BY <1>2, <2>1, <2>2, <2>4, <2>5, <2>6, <2>7 DEF EvidenceStep
<1>3. CASE PackageStep
  <2>1. ASSUME NEW a \in Actors, BuildPackage(a)
        PROVE  FileStep
    BY <2>1 DEF BuildPackage, FileStep, Builds
  <2>2. ASSUME NEW a \in Actors, NEW p \in DOMAIN packages, ApprovePackage(a, p)
        PROVE  FileStep
    BY <2>2 DEF ApprovePackage, Approvable, Involved, FileStep, Freezes
  <2>3. ASSUME NEW a \in Actors, NEW p \in DOMAIN packages, NEW verdict,
               FinalReturn(a, p, verdict)
        PROVE  FileStep
    <3>1. CASE verdict = "RETURN_MATERIALS"
      BY <2>3, <3>1 DEF FinalReturn, FileStep
    <3>2. CASE verdict # "RETURN_MATERIALS"
      BY <2>3, <3>2 DEF FinalReturn, FileStep, Voids
    <3> QED BY <3>1, <3>2
  <2>4. ASSUME NEW a \in Actors, NEW p \in DOMAIN packages, NEW sc,
               Submit(a, p, sc)
        PROVE  FileStep
    BY <2>4 DEF Submit, FileStep
  <2> QED BY <1>3, <2>1, <2>2, <2>3, <2>4 DEF PackageStep
<1>4. CASE ChannelStep
  <2>1. ASSUME NEW a \in Staff, NEW mode, NEW sc, ProcessAccept(a, mode, sc)
        PROVE  UNCHANGED <<rightsVars, fileVars>>
    BY <2>1 DEF ProcessAccept
  <2> QED BY <1>4, <2>1 DEF ChannelStep, QuerySubmission, QueryAcceptance,
             FileStep
<1>5. CASE OutcomeStep
  <2>1. \A n \in DOMAIN events : events[n].report \in AllReports
    <3>1. \A n \in DOMAIN events : events[n] \in Event
      BY ElementOfSeq, LenProperties DEF TypeOK, EventType
    <3> QED BY <3>1 DEF Event
  <2>2. ASSUME NEW a \in Staff, NEW r, NEW c, NEW report \in Reports, NEW s,
               NEW corrects, RecordOutcome(a, report, s, corrects, r, c)
        PROVE  FileStep
    <3>1. \/ ApplyOutcome(report, r, c)
          \/ UNCHANGED <<rightsVars, fileVars>>
      BY <2>2 DEF RecordOutcome
    <3> QED BY <3>1, AppliedFiles, Kinds DEF FileStep
  <2>3. ASSUME NEW a \in Staff, NEW r, NEW c, NEW n \in DOMAIN events,
               ConfirmOutcome(a, n, r, c)
        PROVE  FileStep
    BY <2>1, <2>3, AppliedFiles DEF ConfirmOutcome
  <2>4. ASSUME NEW a \in Staff, NEW r, NEW c, NextStage(a, r, c)
        PROVE  FileStep
    BY <2>4 DEF NextStage, EnterStage, FileStep
  <2>5. ASSUME NEW a \in Staff, NEW n \in DOMAIN events, RejectOutcome(a, n)
        PROVE  FileStep
    BY <2>5 DEF RejectOutcome, FileStep
  <2>6. ASSUME NEW a \in Staff, ReopenCase(a)
        PROVE  FileStep
    BY <2>6 DEF ReopenCase, FileStep
  <2> QED BY <1>5, <2>2, <2>3, <2>4, <2>5, <2>6 DEF OutcomeStep
<1>6. CASE MoneyStep
  BY <1>6 DEF MoneyStep, RecordFinancial, Reconcile, NotifyMerchant, CloseCase,
              FileStep
<1>7. CASE AnyTimeStep
  BY <1>7 DEF AnyTimeStep, MonitorSLA, ResolveTask, AssignCase, DuplicateIntake,
              Tick, FileStep
<1>8. CASE UNCHANGED vars
  BY <1>8 DEF vars, FileStep
<1> QED BY <1>1, <1>2, <1>3, <1>4, <1>5, <1>6, <1>7, <1>8 DEF Next

(***************************************************************************)
(* Reviews and packages                                                     *)
(***************************************************************************)
\* After _invalidate no review counts and no package is live.
LEMMA InvalidateRetires ==
  ASSUME Invalidate
  PROVE  reviewer' = Nobody /\ \A n \in DOMAIN packages' : ~Live(packages'[n])
BY DEF Invalidate, Retired, Live

\* Passing a review starts from complete evidence of a contest the rule allows,
\* and whatever changes one of those retires the review.
LEMMA ReviewFreshStep ==
  ASSUME TypeOK, ReviewFresh, [Next]_vars
  PROVE  ReviewFresh'
<1>1. CASE Invalidate
  BY <1>1 DEF Invalidate, ReviewFresh, Reviewed
<1>2. CASE Passes /\ UNCHANGED <<stage, rule, decision>>
  BY <1>2 DEF Passes, ContestReady, RuleReady, ReviewFresh, EvidenceReady,
              Missing, ContentClear
<1>3. CASE UNCHANGED <<stage, rule, decision, version, evidence, reviewer>>
  BY <1>3 DEF ReviewFresh, Reviewed, EvidenceReady, Missing, ContentClear
<1> QED BY <1>1, <1>2, <1>3, EveryStepFiles
           DEF FileStep, Builds, Freezes, Voids

\* A live package keeps showing the evidence and the rule in force.
LEMMA PackageFreshStep ==
  ASSUME TypeOK, PackageFresh, [Next]_vars
  PROVE  PackageFresh'
<1> DEFINE Fresh(q) == /\ Current(q)
                       /\ q.index = EvidenceIndex /\ q.rule = rule /\ Reviewed
<1>1. \A n \in DOMAIN packages : Live(packages[n]) => Fresh(packages[n])
  BY DEF PackageFresh
<1>2. packages \in Seq(Package)
  BY DEF TypeOK, FileType
<1> SUFFICES ASSUME NEW n \in DOMAIN packages', Live(packages'[n])
             PROVE  Fresh(packages[n])'
  BY DEF PackageFresh, Live
<1>3. CASE Invalidate
  BY <1>3, InvalidateRetires
<1>4. CASE UNCHANGED <<stage, rule, decision>> /\ Passes
  <2>1. reviewer' # Nobody
    BY <1>4, PeopleAssumption DEF Passes, Actors, People
  <2> QED BY <1>1, <1>4, <2>1
             DEF Passes, Current, EvidenceIndex, Reviewed, Live
<1>5. CASE UNCHANGED <<stage, rule, decision>> /\ Builds
  <2>1. PICK a \in Actors : packages' = Append(packages,
          [status |-> "DRAFT", version |-> version, stage |-> stage,
           index |-> EvidenceIndex, rule |-> rule, by |-> a, approver |-> Nobody])
    BY <1>5 DEF Builds
  <2>2. CASE n \in DOMAIN packages
    <3>1. packages'[n] = packages[n]
      BY <1>2, <2>1, <2>2, AppendProperties, LenProperties
    <3> QED BY <1>1, <1>5, <2>2, <3>1
               DEF Builds, Current, EvidenceIndex, Reviewed, Live
  <2>3. CASE n \notin DOMAIN packages
    <3>1. n = Len(packages) + 1
      BY <1>2, <2>1, <2>3, LenProperties
    <3>2. packages'[n].version = version /\ packages'[n].stage = stage
          /\ packages'[n].index = EvidenceIndex /\ packages'[n].rule = rule
      BY <1>2, <2>1, <3>1
    <3> QED BY <1>5, <3>2 DEF Builds, Current, EvidenceIndex, Reviewed
  <2> QED BY <2>2, <2>3
<1>6. CASE /\ UNCHANGED <<stage, rule, decision, version, evidence, reviewer>>
           /\ Freezes \/ Voids \/ UNCHANGED packages
  <2> DEFINE Same == /\ n \in DOMAIN packages /\ Live(packages[n])
                     /\ packages'[n].version = packages[n].version
                     /\ packages'[n].stage = packages[n].stage
                     /\ packages'[n].index = packages[n].index
                     /\ packages'[n].rule = packages[n].rule
  <2>1. ASSUME packages' = packages
        PROVE  Same
    BY <2>1 DEF Live
  <2>2. ASSUME NEW p \in DOMAIN packages,
               packages' = [packages EXCEPT ![p].status = "INVALIDATED"]
        PROVE  Same
    BY <2>2 DEF Live
  <2>3. ASSUME NEW p \in DOMAIN packages, NEW a, packages[p].status = "DRAFT",
               packages' =
                 [packages EXCEPT ![p].status = "FROZEN", ![p].approver = a]
        PROVE  Same
    BY <2>3 DEF Live
  <2>4. Same
    BY <1>6, <2>1, <2>2, <2>3 DEF Freezes, Voids
  <2> QED BY <1>1, <1>6, <2>4 DEF Current, EvidenceIndex, Reviewed
<1> QED BY <1>3, <1>4, <1>5, <1>6, EveryStepFiles
           DEF FileStep, Builds, Freezes, Voids

\* A valid review is of complete, checked evidence and of a contest the verified
\* rule allows, in every reachable case.
THEOREM ReviewsAreFresh == Spec => []ReviewFresh
<1>1. Init => ReviewFresh
  BY DEF Init, ReviewFresh, Reviewed
<1>2. TypeOK /\ ReviewFresh /\ [Next]_vars => ReviewFresh'
  BY ReviewFreshStep
<1> QED BY <1>1, <1>2, TypeCorrect, PTL DEF Spec

\* A package that can be approved or sent shows exactly the reviewed evidence and
\* the rule in force, in every reachable case.
THEOREM PackagesAreFresh == Spec => []PackageFresh
<1>1. Init => PackageFresh
  BY DEF Init, PackageFresh
<1>2. TypeOK /\ PackageFresh /\ [Next]_vars => PackageFresh'
  BY PackageFreshStep
<1> QED BY <1>1, <1>2, TypeCorrect, PTL DEF Spec

\* Whatever changes the evidence, the rule, the decision or the stage raises the
\* version and retires the review and every package, for any command.
THEOREM ChangesRetire == Spec => ChangesInvalidate
<1> DEFINE Changed == evidence' # evidence \/ rule' # rule
                        \/ decision' # decision \/ stage' # stage
           Retiring == /\ version' > version /\ reviewer' = Nobody
                       /\ \A n \in DOMAIN packages' : ~Live(packages'[n])
<1>1. TypeOK /\ [Next]_vars => [Changed => Retiring]_vars
  <2> SUFFICES ASSUME TypeOK, [Next]_vars, Changed PROVE Retiring
    OBVIOUS
  <2>1. Invalidate
    BY EveryStepFiles DEF FileStep, Passes, Builds, Freezes, Voids
  <2> QED BY <2>1, InvalidateRetires DEF Invalidate, TypeOK, FileType
<1> QED BY <1>1, TypeCorrect, PTL DEF Spec, ChangesInvalidate

\* A package keeps its content; it goes from draft to frozen to invalidated.
THEOREM PackagesAreSettled == Spec => PackagesSettle
<1> DEFINE Settles(n) ==
      /\ n \in DOMAIN packages'
      /\ packages'[n].index = packages[n].index
      /\ packages'[n].version = packages[n].version
      /\ packages'[n].status # packages[n].status =>
           \/ packages[n].status = "DRAFT"
           \/ packages[n].status = "FROZEN" /\ packages'[n].status = "INVALIDATED"
<1>1. TypeOK /\ [Next]_vars => [\A n \in DOMAIN packages : Settles(n)]_vars
  <2> SUFFICES ASSUME TypeOK, [Next]_vars, NEW n \in DOMAIN packages
               PROVE  Settles(n)
    OBVIOUS
  <2>1. packages \in Seq(Package) /\ packages[n] \in Package
    BY ElementOfSeq, LenProperties DEF TypeOK, FileType
  <2>2. packages[n].status \in PackageStatus
    BY <2>1 DEF Package
  <2>3. CASE Invalidate
    BY <2>1, <2>2, <2>3 DEF Invalidate, Retired, Live, Package, PackageStatus
  <2>4. CASE Builds
    <3>1. ASSUME NEW new, packages' = Append(packages, new)
          PROVE  n \in DOMAIN packages' /\ packages'[n] = packages[n]
      BY <2>1, <3>1, LenProperties
    <3> QED BY <2>4, <3>1 DEF Builds
  <2>5. CASE Freezes
    BY <2>1, <2>5 DEF Freezes
  <2>6. CASE Voids
    BY <2>1, <2>2, <2>6 DEF Voids, PackageStatus
  <2>7. CASE packages' = packages
    BY <2>7
  <2> QED BY <2>3, <2>4, <2>5, <2>6, <2>7, EveryStepFiles DEF FileStep, Passes
<1> QED BY <1>1, TypeCorrect, PTL DEF Spec, PackagesSettle

(***************************************************************************)
(* Rights                                                                   *)
(***************************************************************************)
\* Inductive: a merchant contests only under a verified rule, which stays
\* verified until a new stage asks the merchant again.
RightsInv == ContestHasRights /\ (decision = "CONTEST" => rule.verified)

LEMMA RightsStep ==
  ASSUME RightsInv, [Next]_vars
  PROVE  RightsInv'
<1> USE DEF RightsInv, ContestHasRights
<1>1. CASE RuleStep
  <2>1. ASSUME NEW a, NEW r, NEW c, ConfirmRule(a, r, c)
        PROVE  RightsInv'
    BY <2>1 DEF ConfirmRule
  <2>2. ASSUME NEW a, NEW d, MerchantDecide(a, d)
        PROVE  RightsInv'
    BY <2>2 DEF MerchantDecide, RuleReady
  <2>3. ASSUME NEW a, NEW res \in {"RESTORE_DECISION", "RESTORE_EVIDENCE"},
               RestoreRights(a, res)
        PROVE  RightsInv'
    BY <2>3 DEF RestoreRights, ContestStands
  <2>4. ASSUME NEW a, NEW res, GiveUpRights(a, res)
        PROVE  RightsInv'
    BY <2>4 DEF GiveUpRights
  <2>5. ASSUME NEW a, PublishTask(a)
        PROVE  RightsInv'
    BY <2>5 DEF PublishTask
  <2> QED BY <1>1, <2>1, <2>2, <2>3, <2>4, <2>5 DEF RuleStep
<1>2. CASE EvidenceStep
  <2>1. ASSUME NEW a, NEW ev, ChangeEvidence(a, ev)
        PROVE  UNCHANGED rightsVars
    BY <2>1 DEF ChangeEvidence
  <2>2. ASSUME NEW a, NEW u, NEW i, NEW c, NEW check,
               RegisterEvidence(a, u, i, c, check)
        PROVE  UNCHANGED rightsVars
    BY <2>1, <2>2 DEF RegisterEvidence
  <2>3. ASSUME NEW a, NEW i, NEW verdict, ReviewContent(a, i, verdict)
        PROVE  UNCHANGED rightsVars
    BY <2>1, <2>3 DEF ReviewContent
  <2>4. ASSUME NEW a, NEW i, WithdrawEvidence(a, i)
        PROVE  UNCHANGED rightsVars
    BY <2>1, <2>4 DEF WithdrawEvidence
  <2>5. ASSUME NEW a, NEW items, ReuseEvidence(a, items)
        PROVE  UNCHANGED rightsVars
    BY <2>5 DEF ReuseEvidence
  <2>6. ASSUME NEW a, SubmitEvidence(a)
        PROVE  UNCHANGED rightsVars
    BY <2>6 DEF SubmitEvidence
  <2>7. ASSUME NEW a, NEW verdict, Review(a, verdict)
        PROVE  UNCHANGED rightsVars
    BY <2>7 DEF Review
  <2>8. UNCHANGED rightsVars
    BY <1>2, <2>2, <2>3, <2>4, <2>5, <2>6, <2>7 DEF EvidenceStep
  <2> QED BY <2>8 DEF rightsVars
<1>3. CASE PackageStep
  <2>1. ASSUME NEW a, BuildPackage(a)
        PROVE  UNCHANGED rightsVars
    BY <2>1 DEF BuildPackage
  <2>2. ASSUME NEW a, NEW p, ApprovePackage(a, p)
        PROVE  UNCHANGED rightsVars
    BY <2>2 DEF ApprovePackage
  <2>3. ASSUME NEW a, NEW p, NEW verdict, FinalReturn(a, p, verdict)
        PROVE  UNCHANGED rightsVars
    BY <2>3 DEF FinalReturn
  <2>4. ASSUME NEW a, NEW p, NEW sc, Submit(a, p, sc)
        PROVE  UNCHANGED rightsVars
    BY <2>4 DEF Submit
  <2>5. UNCHANGED rightsVars
    BY <1>3, <2>1, <2>2, <2>3, <2>4 DEF PackageStep
  <2> QED BY <2>5 DEF rightsVars
<1>4. CASE ChannelStep
  <2>1. ASSUME NEW a, NEW mode, NEW sc, ProcessAccept(a, mode, sc)
        PROVE  RightsInv'
    BY <2>1 DEF ProcessAccept
  <2> QED BY <1>4, <2>1 DEF ChannelStep, QuerySubmission, QueryAcceptance
<1>5. CASE OutcomeStep
  <2>1. ASSUME NEW r, NEW c, NEW report, ApplyOutcome(report, r, c)
        PROVE  RightsInv'
    BY <2>1 DEF ApplyOutcome, EnterStage
  <2>2. ASSUME NEW a, NEW report, NEW s, NEW corrects, NEW r, NEW c,
               RecordOutcome(a, report, s, corrects, r, c)
        PROVE  RightsInv'
    BY <2>1, <2>2 DEF RecordOutcome
  <2>3. ASSUME NEW a, NEW n, NEW r, NEW c, ConfirmOutcome(a, n, r, c)
        PROVE  RightsInv'
    BY <2>1, <2>3 DEF ConfirmOutcome
  <2> QED BY <1>5, <2>2, <2>3
             DEF OutcomeStep, NextStage, EnterStage, RejectOutcome, ReopenCase
<1>6. CASE MoneyStep
  BY <1>6 DEF MoneyStep, RecordFinancial, Reconcile, NotifyMerchant, CloseCase
<1>7. CASE AnyTimeStep
  BY <1>7 DEF AnyTimeStep, MonitorSLA, ResolveTask, AssignCase, DuplicateIntake,
              Tick
<1>8. CASE UNCHANGED vars
  BY <1>8 DEF vars
<1> QED BY <1>1, <1>2, <1>3, <1>4, <1>5, <1>6, <1>7, <1>8 DEF Next

\* Confirmed contest rights are rights the verified rule gives, for any rules,
\* deadlines and sequence of decisions and restorations.
THEOREM RightsAreHeld == Spec => []ContestHasRights
<1>1. Init => RightsInv
  BY DEF Init, RightsInv, ContestHasRights
<1>2. RightsInv => ContestHasRights
  BY DEF RightsInv
<1> QED BY <1>1, <1>2, RightsStep, PTL DEF Spec

(***************************************************************************)
(* Requests to the upstream                                                 *)
(***************************************************************************)
\* SUBMIT of package p, first or again.
Sends(p, sc) ==
  /\ packages[p].status = "FROZEN"
  /\ submissions[p] # NoReceipt => submissions[p].retry
  /\ submissions' = [submissions EXCEPT ![p] = Attempt(sc)]
  /\ UNCHANGED <<packages, acceptances>>

\* The answer of a query about the request of package p.
Learns(p, answer) ==
  /\ Queryable(submissions[p])
  /\ submissions' = [submissions EXCEPT ![p] = Queried(@, answer)]
  /\ UNCHANGED <<packages, acceptances>>

\* PROCESS_ACCEPT for an authorization without a request, or again.
Accepts(r) ==
  /\ r.acceptance = "MOCK_ACCEPTED" => ~r.retry
  /\ \/ /\ PreviousRequests = {}
        /\ acceptances' = Append(acceptances,
             [stage |-> stage, auth |-> auth, receipt |-> r])
     \/ \E k \in PreviousRequests :
          /\ acceptances[k].receipt.retry
          /\ acceptances' = [acceptances EXCEPT ![k].receipt = r]
  /\ UNCHANGED submissions

\* The answer of a query about acceptance k.
LearnsAccept(k, answer) ==
  /\ Queryable(acceptances[k].receipt)
  /\ acceptances' = [acceptances EXCEPT ![k].receipt = Queried(@, answer)]
  /\ UNCHANGED submissions

RequestStep ==
  \/ UNCHANGED channelVars
  \/ /\ submissions' = Append(submissions, NoReceipt) /\ Builds
     /\ UNCHANGED acceptances
  \/ \E p \in DOMAIN packages, sc \in Scenarios : Sends(p, sc)
  \/ \E p \in DOMAIN submissions : \E answer : Learns(p, answer)
  \/ \E r \in Receipt : Accepts(r)
  \/ \E k \in DOMAIN acceptances : \E answer : LearnsAccept(k, answer)

\* _apply_outcome touches no request.
LEMMA AppliedRequests ==
  ASSUME NEW report, NEW r, NEW c, ApplyOutcome(report, r, c)
  PROVE  UNCHANGED channelVars
BY DEF ApplyOutcome

\* PROCESS_ACCEPT in terms of the receipt it leaves.
LEMMA ProcessedRequests ==
  ASSUME TypeOK, NEW a \in Staff, NEW mode \in {"MOCK", "NO_ACTION_REQUIRED"},
         NEW sc \in Scenarios, ProcessAccept(a, mode, sc)
  PROVE  \E r \in Receipt : Accepts(r)
<1> DEFINE Sent(r) == IF mode = "MOCK"
                        THEN Attempt(sc)
                        ELSE [r EXCEPT !.acceptance = "NO_ACTION_REQUIRED"]
<1>1. ASSUME NEW r \in Receipt
      PROVE  /\ Sent(r) \in Receipt
             /\ Sent(r).acceptance = "MOCK_ACCEPTED" => ~Sent(r).retry
  <2>1. CASE mode = "MOCK"
    BY <2>1, ReceiptTyped, DomainAssumption DEF Attempt
  <2>2. CASE mode # "MOCK"
    BY <2>2, ReceiptTyped DEF Receipt
  <2> QED BY <2>1, <2>2
<1>2. \A k \in DOMAIN acceptances : acceptances[k].receipt \in Receipt
  <2>1. \A k \in DOMAIN acceptances : acceptances[k] \in Acceptances
    BY ElementOfSeq, LenProperties DEF TypeOK, ChannelType
  <2> QED BY <2>1 DEF Acceptances
<1> HIDE DEF Sent
<1>3. UNCHANGED submissions
  BY DEF ProcessAccept
<1>4. CASE /\ PreviousRequests = {}
           /\ acceptances' = Append(acceptances,
                [stage |-> stage, auth |-> auth, receipt |-> Sent(NoReceipt)])
  BY <1>1, <1>3, <1>4, ReceiptTyped DEF Accepts
<1>5. ASSUME NEW k \in PreviousRequests, acceptances[k].receipt.retry,
             acceptances' = [acceptances EXCEPT ![k].receipt = Sent(@)]
      PROVE  \E r \in Receipt : Accepts(r)
  <2>1. acceptances[k].receipt \in Receipt
    BY <1>2 DEF PreviousRequests
  <2>2. acceptances' =
          [acceptances EXCEPT ![k].receipt = Sent(acceptances[k].receipt)]
    BY <1>5
  <2>3. Accepts(Sent(acceptances[k].receipt))
    BY <1>1, <1>3, <1>5, <2>1, <2>2 DEF Accepts
  <2> QED BY <1>1, <2>1, <2>3
<1> QED BY <1>4, <1>5 DEF ProcessAccept, Sent

\* Each command treats the requests to the upstream in one of these ways.
LEMMA EveryStepRequests ==
  ASSUME TypeOK, [Next]_vars
  PROVE  RequestStep
<1>1. CASE RuleStep
  BY <1>1 DEF RuleStep, ConfirmRule, PublishTask, MerchantDecide, RestoreRights,
              GiveUpRights, RequestStep
<1>2. CASE EvidenceStep
  <2>1. ASSUME NEW a, NEW verdict, Review(a, verdict)
        PROVE  UNCHANGED channelVars
    BY <2>1 DEF Review
  <2>2. ASSUME NEW a, NEW ev, ChangeEvidence(a, ev)
        PROVE  UNCHANGED channelVars
    BY <2>2 DEF ChangeEvidence
  <2>3. UNCHANGED channelVars
    BY <1>2, <2>1, <2>2 DEF EvidenceStep, RegisterEvidence, ReviewContent,
       WithdrawEvidence, ReuseEvidence, SubmitEvidence
  <2> QED BY <2>3 DEF RequestStep
<1>3. CASE PackageStep
  <2>1. ASSUME NEW a \in Actors, BuildPackage(a)
        PROVE  RequestStep
    BY <2>1 DEF BuildPackage, RequestStep, Builds
  <2>2. ASSUME NEW a \in Actors, NEW p \in DOMAIN packages, NEW sc \in Scenarios,
               Submit(a, p, sc)
        PROVE  RequestStep
    <3>1. Sends(p, sc)
      BY <2>2 DEF Submit, Sends, Sendable
    <3> QED BY <3>1 DEF RequestStep
  <2>3. ASSUME NEW a, NEW p, ApprovePackage(a, p)
        PROVE  RequestStep
    BY <2>3 DEF ApprovePackage, RequestStep
  <2>4. ASSUME NEW a, NEW p, NEW verdict, FinalReturn(a, p, verdict)
        PROVE  RequestStep
    BY <2>4 DEF FinalReturn, RequestStep
  <2> QED BY <1>3, <2>1, <2>2, <2>3, <2>4 DEF PackageStep
<1>4. CASE ChannelStep
  <2>1. ASSUME NEW a \in Staff, NEW mode \in {"MOCK", "NO_ACTION_REQUIRED"},
               NEW sc \in Scenarios, ProcessAccept(a, mode, sc)
        PROVE  RequestStep
    BY <2>1, ProcessedRequests DEF RequestStep
  <2>2. ASSUME NEW a \in Staff, NEW p \in DOMAIN submissions, NEW answer,
               QuerySubmission(a, p, answer)
        PROVE  RequestStep
    <3>1. Learns(p, answer)
      BY <2>2 DEF QuerySubmission, Learns
    <3> QED BY <3>1 DEF RequestStep
  <2>3. ASSUME NEW a \in Staff, NEW k \in DOMAIN acceptances, NEW answer,
               QueryAcceptance(a, k, answer)
        PROVE  RequestStep
    <3>1. LearnsAccept(k, answer)
      BY <2>3 DEF QueryAcceptance, LearnsAccept
    <3> QED BY <3>1 DEF RequestStep
  <2> QED BY <1>4, <2>1, <2>2, <2>3 DEF ChannelStep
<1>5. CASE OutcomeStep
  <2>1. ASSUME NEW a, NEW report, NEW s, NEW corrects, NEW r, NEW c,
               RecordOutcome(a, report, s, corrects, r, c)
        PROVE  UNCHANGED channelVars
    BY <2>1, AppliedRequests DEF RecordOutcome
  <2>2. ASSUME NEW a, NEW n, NEW r, NEW c, ConfirmOutcome(a, n, r, c)
        PROVE  UNCHANGED channelVars
    BY <2>2, AppliedRequests DEF ConfirmOutcome
  <2> QED BY <1>5, <2>1, <2>2
             DEF OutcomeStep, NextStage, RejectOutcome, ReopenCase, RequestStep
<1>6. CASE MoneyStep
  BY <1>6 DEF MoneyStep, RecordFinancial, Reconcile, NotifyMerchant, CloseCase,
              RequestStep
<1>7. CASE AnyTimeStep
  BY <1>7 DEF AnyTimeStep, MonitorSLA, ResolveTask, AssignCase, DuplicateIntake,
              Tick, RequestStep
<1>8. CASE UNCHANGED vars
  BY <1>8 DEF vars, RequestStep
<1> QED BY <1>1, <1>2, <1>3, <1>4, <1>5, <1>6, <1>7, <1>8 DEF Next

\* One request per authorization: PROCESS_ACCEPT makes a new one only where none
\* is, and reuses the one there is.
THEOREM OneRequestPerAuthorization == Spec => []OneAcceptance
<1>1. Init => OneAcceptance
  BY DEF Init, OneAcceptance
<1>2. ASSUME TypeOK, OneAcceptance, [Next]_vars
      PROVE  OneAcceptance'
  <2>1. acceptances \in Seq(Acceptances)
    BY <1>2 DEF TypeOK, ChannelType
  <2>2. ASSUME NEW k \in DOMAIN acceptances, NEW r,
               acceptances' = [acceptances EXCEPT ![k].receipt = r]
        PROVE  OneAcceptance'
    <3>1. \A j \in DOMAIN acceptances :
            /\ acceptances'[j].stage = acceptances[j].stage
            /\ acceptances'[j].auth = acceptances[j].auth
      <4>1. \A j \in DOMAIN acceptances : acceptances[j] \in Acceptances
        BY <2>1, ElementOfSeq, LenProperties
      <4> QED BY <2>2, <4>1 DEF Acceptances
    <3> QED BY <1>2, <2>2, <3>1 DEF OneAcceptance
  <2>3. ASSUME NEW r, PreviousRequests = {},
               acceptances' = Append(acceptances,
                 [stage |-> stage, auth |-> auth, receipt |-> r])
        PROVE  OneAcceptance'
    <3> DEFINE L == Len(acceptances) + 1
    <3>1. /\ DOMAIN acceptances' = 1..L /\ DOMAIN acceptances = 1..(L - 1)
          /\ L \in Nat
          /\ acceptances'[L].stage = stage /\ acceptances'[L].auth = auth
          /\ \A j \in 1..(L - 1) : acceptances'[j] = acceptances[j]
      BY <2>1, <2>3, LenProperties
    <3>2. \A j \in 1..(L - 1) :
            ~(acceptances[j].stage = stage /\ acceptances[j].auth = auth)
      BY <2>3, <3>1 DEF PreviousRequests
    <3> HIDE DEF L
    <3> QED BY <1>2, <3>1, <3>2 DEF OneAcceptance
  <2>4. ASSUME acceptances' = acceptances
        PROVE  OneAcceptance'
    BY <1>2, <2>4 DEF OneAcceptance
  <2>5. ASSUME NEW r \in Receipt, Accepts(r)
        PROVE  OneAcceptance'
    BY <2>2, <2>3, <2>5 DEF Accepts, PreviousRequests
  <2>6. ASSUME NEW k \in DOMAIN acceptances, NEW answer, LearnsAccept(k, answer)
        PROVE  OneAcceptance'
    BY <2>2, <2>6 DEF LearnsAccept
  <2> QED BY <1>2, <2>4, <2>5, <2>6, EveryStepRequests
             DEF RequestStep, Sends, Learns
<1> QED BY <1>1, <1>2, TypeCorrect, PTL DEF Spec

\* Inductive: no retry is allowed for a request known to be accepted.
AcceptedNoRetry ==
  /\ \A p \in DOMAIN submissions :
       submissions[p].acceptance = "MOCK_ACCEPTED" => ~submissions[p].retry
  /\ \A k \in DOMAIN acceptances :
       acceptances[k].receipt.acceptance = "MOCK_ACCEPTED" =>
         ~acceptances[k].receipt.retry

\* A fresh attempt allows no retry, and an answer only when it is not accepted.
LEMMA ReceiptNoRetry ==
  /\ \A sc \in AllScenarios : ~Attempt(sc).retry
  /\ \A r \in Receipt : \A answer :
       /\ Queryable(r)
       /\ Queried(r, answer).acceptance = "MOCK_ACCEPTED"
       => ~Queried(r, answer).retry
<1>1. \A sc \in AllScenarios : ~Attempt(sc).retry
  BY DEF Attempt
<1>2. ASSUME NEW r \in Receipt, NEW answer, Queryable(r),
             Queried(r, answer).acceptance = "MOCK_ACCEPTED"
      PROVE  ~Queried(r, answer).retry
  <2>1. answer # "NOT_ACCEPTED"
    BY <1>2 DEF Queried, Receipt
  <2> QED BY <2>1 DEF Queried, Receipt
<1> QED BY <1>1, <1>2

LEMMA AcceptedStep ==
  ASSUME TypeOK, AcceptedNoRetry, [Next]_vars
  PROVE  /\ AcceptedNoRetry'
         /\ \A p \in DOMAIN submissions :
              submissions[p].acceptance = "MOCK_ACCEPTED" =>
                submissions'[p] = submissions[p]
         /\ \A k \in DOMAIN acceptances :
              acceptances[k].receipt.acceptance = "MOCK_ACCEPTED" =>
                acceptances'[k] = acceptances[k]
<1> DEFINE SubsKept == \A p \in DOMAIN submissions :
             submissions[p].acceptance = "MOCK_ACCEPTED" =>
               submissions'[p] = submissions[p]
           AccsKept == \A k \in DOMAIN acceptances :
             acceptances[k].receipt.acceptance = "MOCK_ACCEPTED" =>
               acceptances'[k] = acceptances[k]
           SubsSafe == \A p \in DOMAIN submissions :
             submissions[p].acceptance = "MOCK_ACCEPTED" => ~submissions[p].retry
           AccsSafe == \A k \in DOMAIN acceptances :
             acceptances[k].receipt.acceptance = "MOCK_ACCEPTED" =>
               ~acceptances[k].receipt.retry
<1>1. /\ submissions \in Seq(Receipt) /\ acceptances \in Seq(Acceptances)
      /\ DOMAIN submissions = DOMAIN packages
  BY LenProperties DEF TypeOK, ChannelType, FileType
<1>2. /\ \A p \in DOMAIN submissions : submissions[p] \in Receipt
      /\ \A k \in DOMAIN acceptances : acceptances[k] \in Acceptances
                                       /\ acceptances[k].receipt \in Receipt
  <2>1. /\ \A p \in DOMAIN submissions : submissions[p] \in Receipt
        /\ \A k \in DOMAIN acceptances : acceptances[k] \in Acceptances
    BY <1>1, ElementOfSeq, LenProperties
  <2> QED BY <2>1 DEF Acceptances
<1>3. SubsSafe /\ AccsSafe
  BY DEF AcceptedNoRetry
<1>4. ASSUME submissions' = submissions
      PROVE  SubsKept /\ SubsSafe'
  BY <1>3, <1>4
<1>5. ASSUME acceptances' = acceptances
      PROVE  AccsKept /\ AccsSafe'
  BY <1>3, <1>5
<1>6. ASSUME NEW p \in DOMAIN submissions, NEW r,
             submissions' = [submissions EXCEPT ![p] = r],
             submissions[p].acceptance # "MOCK_ACCEPTED",
             r.acceptance = "MOCK_ACCEPTED" => ~r.retry
      PROVE  SubsKept /\ SubsSafe'
  BY <1>3, <1>6
<1>7. ASSUME NEW k \in DOMAIN acceptances, NEW r,
             acceptances' = [acceptances EXCEPT ![k].receipt = r],
             acceptances[k].receipt.acceptance # "MOCK_ACCEPTED",
             r.acceptance = "MOCK_ACCEPTED" => ~r.retry
      PROVE  AccsKept /\ AccsSafe'
  <2>1. acceptances'[k].receipt = r
    BY <1>2, <1>7 DEF Acceptances
  <2>2. DOMAIN acceptances' = DOMAIN acceptances
        /\ \A j \in DOMAIN acceptances : j # k => acceptances'[j] = acceptances[j]
    BY <1>7
  <2> QED BY <1>3, <1>7, <2>1, <2>2
<1>8. ASSUME UNCHANGED channelVars
      PROVE  SubsKept /\ SubsSafe' /\ AccsKept /\ AccsSafe'
  BY <1>4, <1>5, <1>8
<1>9. ASSUME submissions' = Append(submissions, NoReceipt), UNCHANGED acceptances
      PROVE  SubsKept /\ SubsSafe' /\ AccsKept /\ AccsSafe'
  <2>1. /\ \A p \in DOMAIN submissions : submissions'[p] = submissions[p]
        /\ \A p \in DOMAIN submissions' :
             p \in DOMAIN submissions \/ submissions'[p] = NoReceipt
    BY <1>1, <1>9, AppendProperties, LenProperties
  <2>2. NoReceipt.acceptance # "MOCK_ACCEPTED"
    BY DEF NoReceipt
  <2>3. SubsKept /\ SubsSafe'
    BY <1>3, <2>1, <2>2
  <2> QED BY <1>5, <1>9, <2>3
<1>10. ASSUME NEW p \in DOMAIN packages, NEW sc \in Scenarios, Sends(p, sc)
       PROVE  SubsKept /\ SubsSafe' /\ acceptances' = acceptances
  <2>1. submissions[p].acceptance # "MOCK_ACCEPTED"
    BY <1>1, <1>3, <1>10 DEF Sends, NoReceipt
  <2>2. ~Attempt(sc).retry
    BY ReceiptNoRetry, DomainAssumption
  <2> QED BY <1>1, <1>6, <1>10, <2>1, <2>2 DEF Sends
<1>11. ASSUME NEW p \in DOMAIN submissions, NEW answer, Learns(p, answer)
       PROVE  SubsKept /\ SubsSafe' /\ acceptances' = acceptances
  <2>1. submissions[p].acceptance # "MOCK_ACCEPTED"
    BY <1>11 DEF Learns, Queryable
  <2>2. submissions' = [submissions EXCEPT ![p] = Queried(submissions[p], answer)]
    BY <1>11 DEF Learns
  <2>3. Queried(submissions[p], answer).acceptance = "MOCK_ACCEPTED" =>
          ~Queried(submissions[p], answer).retry
    BY <1>2, <1>11, ReceiptNoRetry DEF Learns
  <2> QED BY <1>6, <1>11, <2>1, <2>2, <2>3 DEF Learns
<1>12. ASSUME NEW r \in Receipt, Accepts(r)
       PROVE  AccsKept /\ AccsSafe' /\ submissions' = submissions
  <2>1. CASE acceptances' = Append(acceptances,
               [stage |-> stage, auth |-> auth, receipt |-> r])
    <3> DEFINE new == [stage |-> stage, auth |-> auth, receipt |-> r]
    <3>1. /\ \A k \in DOMAIN acceptances : acceptances'[k] = acceptances[k]
          /\ \A k \in DOMAIN acceptances' :
               k \in DOMAIN acceptances \/ acceptances'[k] = new
      BY <1>1, <2>1, LenProperties
    <3>2. new.receipt = r
      OBVIOUS
    <3> HIDE DEF new
    <3> QED BY <1>3, <1>12, <3>1, <3>2 DEF Accepts
  <2>2. ASSUME NEW k \in PreviousRequests, acceptances[k].receipt.retry,
               acceptances' = [acceptances EXCEPT ![k].receipt = r]
        PROVE  AccsKept /\ AccsSafe'
    BY <1>3, <1>7, <1>12, <2>2 DEF Accepts, PreviousRequests
  <2> QED BY <1>12, <2>1, <2>2 DEF Accepts
<1>13. ASSUME NEW k \in DOMAIN acceptances, NEW answer, LearnsAccept(k, answer)
       PROVE  AccsKept /\ AccsSafe' /\ submissions' = submissions
  <2>1. acceptances[k].receipt.acceptance # "MOCK_ACCEPTED"
    BY <1>13 DEF LearnsAccept, Queryable
  <2>2. acceptances' = [acceptances EXCEPT ![k].receipt =
                          Queried(acceptances[k].receipt, answer)]
    BY <1>13 DEF LearnsAccept
  <2>3. Queried(acceptances[k].receipt, answer).acceptance = "MOCK_ACCEPTED" =>
          ~Queried(acceptances[k].receipt, answer).retry
    BY <1>2, <1>13, ReceiptNoRetry DEF LearnsAccept
  <2> QED BY <1>7, <1>13, <2>1, <2>2, <2>3 DEF LearnsAccept
<1> HIDE DEF SubsKept, AccsKept, SubsSafe, AccsSafe
<1>14. SubsKept /\ SubsSafe' /\ AccsKept /\ AccsSafe'
  BY <1>4, <1>5, <1>8, <1>9, <1>10, <1>11, <1>12, <1>13, EveryStepRequests
     DEF RequestStep
<1> QED BY <1>14 DEF AcceptedNoRetry, SubsKept, AccsKept, SubsSafe, AccsSafe

\* What is known to be accepted is neither sent again nor reinterpreted.
THEOREM AcceptedStays == Spec => AcceptedIsFinal
<1>1. Init => AcceptedNoRetry
  BY DEF Init, AcceptedNoRetry
<1> QED BY <1>1, AcceptedStep, TypeCorrect, PTL DEF Spec, AcceptedIsFinal

\* Appending keeps the positions there were and adds one.
LEMMA Appended ==
  ASSUME NEW S, NEW s \in Seq(S), NEW e
  PROVE  /\ Len(s) \in Nat /\ DOMAIN s = 1..Len(s)
         /\ DOMAIN Append(s, e) = 1..(Len(s) + 1)
         /\ DOMAIN Append(s, e) # DOMAIN s
         /\ \A n \in DOMAIN s : Append(s, e)[n] = s[n]
         /\ \A n \in DOMAIN Append(s, e) :
              n \in DOMAIN s \/ Append(s, e)[n] = e
<1>1. Len(s) \in Nat /\ DOMAIN s = 1..Len(s)
  BY LenProperties
<1>2. DOMAIN Append(s, e) = 1..(Len(s) + 1)
  BY <1>1
<1>3. /\ \A n \in DOMAIN s : Append(s, e)[n] = s[n]
      /\ \A n \in DOMAIN Append(s, e) : n \in DOMAIN s \/ Append(s, e)[n] = e
  BY <1>1, <1>2
<1>4. DOMAIN Append(s, e) # DOMAIN s
  <2>1. Len(s) + 1 \in DOMAIN Append(s, e) /\ Len(s) + 1 \notin DOMAIN s
    BY <1>1, <1>2
  <2> QED BY <2>1
<1> QED BY <1>1, <1>2, <1>3, <1>4

\* Inductive: what is frozen or was sent has a supervisor's approval on it.
ApprovedInv ==
  \A n \in DOMAIN packages :
    /\ packages[n].status = "FROZEN" => packages[n].approver \in Supervisors
    /\ submissions[n] # NoReceipt => /\ packages[n].approver \in Supervisors
                                     /\ packages[n].status # "DRAFT"

LEMMA ApprovedStep ==
  ASSUME TypeOK, ApprovedInv, [Next]_vars
  PROVE  ApprovedInv'
<1>1. /\ packages \in Seq(Package) /\ submissions \in Seq(Receipt)
      /\ DOMAIN packages = 1..Len(packages) /\ DOMAIN submissions = DOMAIN packages
  BY LenProperties DEF TypeOK, ChannelType, FileType
<1>2. \A n \in DOMAIN packages :
        /\ packages[n] = [packages[n] EXCEPT !.status = packages[n].status]
        /\ "status" \in DOMAIN packages[n] /\ "approver" \in DOMAIN packages[n]
  <2>1. \A n \in DOMAIN packages : packages[n] \in Package
    BY <1>1, ElementOfSeq
  <2> QED BY <2>1 DEF Package
<1>3. CASE submissions' = submissions
  <2>1. DOMAIN packages' = DOMAIN packages
    <3>1. packages' \in Seq(Package) /\ Len(packages') = Len(packages)
      BY <1>3, StepTyped DEF TypeOK, FileType
    <3> QED BY <1>1, <3>1, LenProperties
  <2>2. CASE Invalidate
    <3>1. \A n \in DOMAIN packages :
            /\ packages'[n].approver = packages[n].approver
            /\ packages'[n].status \in {packages[n].status, "INVALIDATED"}
      BY <1>2, <2>2 DEF Invalidate, Retired
    <3> QED BY <1>3, <2>1, <3>1 DEF ApprovedInv
  <2>3. CASE Voids
    <3>1. \A n \in DOMAIN packages :
            /\ packages'[n].approver = packages[n].approver
            /\ packages'[n].status \in {packages[n].status, "INVALIDATED"}
      BY <1>2, <2>3 DEF Voids
    <3> QED BY <1>3, <2>1, <3>1 DEF ApprovedInv
  <2>4. CASE Freezes
    <3>1. PICK p \in DOMAIN packages, a \in Supervisors :
            /\ packages[p].status = "DRAFT"
            /\ packages' =
                 [packages EXCEPT ![p].status = "FROZEN", ![p].approver = a]
      BY <2>4 DEF Freezes
    <3>2. packages'[p].approver = a /\ packages'[p].status = "FROZEN"
      BY <1>2, <3>1
    <3>3. \A n \in DOMAIN packages : n # p => packages'[n] = packages[n]
      BY <3>1
    <3> QED BY <1>3, <2>1, <3>2, <3>3 DEF ApprovedInv
  <2>5. CASE packages' = packages
    BY <1>3, <2>5 DEF ApprovedInv
  <2>6. ~Builds
    <3> SUFFICES ASSUME NEW new, packages' = Append(packages, new) PROVE FALSE
      BY DEF Builds
    <3> QED BY <1>1, <2>1, Appended
  <2> QED BY <2>2, <2>3, <2>4, <2>5, <2>6, EveryStepFiles DEF FileStep, Passes
<1>4. CASE submissions' = Append(submissions, NoReceipt) /\ Builds
  <2>1. PICK new : packages' = Append(packages, new) /\ new.status = "DRAFT"
    BY <1>4 DEF Builds
  <2>2. /\ \A n \in DOMAIN packages : packages'[n] = packages[n]
                                      /\ submissions'[n] = submissions[n]
        /\ \A n \in DOMAIN packages' :
             n \in DOMAIN packages
               \/ (packages'[n] = new /\ submissions'[n] = NoReceipt)
    <3>1. Len(submissions) = Len(packages) /\ Len(packages) \in Nat
      BY <1>1, LenProperties DEF TypeOK
    <3>2. /\ DOMAIN packages' = 1..(Len(packages) + 1)
          /\ \A n \in DOMAIN packages : packages'[n] = packages[n]
          /\ \A n \in DOMAIN packages' : n \in DOMAIN packages \/ packages'[n] = new
      BY <1>1, <2>1, Appended
    <3>3. /\ DOMAIN submissions' = 1..(Len(packages) + 1)
          /\ \A n \in DOMAIN submissions : submissions'[n] = submissions[n]
          /\ \A n \in DOMAIN submissions' :
               n \in DOMAIN submissions \/ submissions'[n] = NoReceipt
      BY <1>1, <1>4, <3>1, Appended
    <3>4. DOMAIN submissions' = DOMAIN packages' /\ DOMAIN submissions = DOMAIN packages
      BY <1>1, <3>2, <3>3
    <3> QED BY <3>2, <3>3, <3>4
  <2> QED BY <2>1, <2>2 DEF ApprovedInv
<1>5. ASSUME NEW p \in DOMAIN packages, NEW sc, Sends(p, sc)
      PROVE  ApprovedInv'
  <2>1. packages' = packages /\ packages[p].status = "FROZEN"
        /\ \A n \in DOMAIN packages : n # p => submissions'[n] = submissions[n]
    BY <1>1, <1>5 DEF Sends
  <2> QED BY <2>1 DEF ApprovedInv
<1>6. ASSUME NEW p \in DOMAIN submissions, NEW answer, Learns(p, answer)
      PROVE  ApprovedInv'
  <2>1. packages' = packages /\ submissions[p] # NoReceipt
        /\ \A n \in DOMAIN packages : n # p => submissions'[n] = submissions[n]
    BY <1>1, <1>6 DEF Learns, Queryable, NoReceipt
  <2> QED BY <1>1, <2>1 DEF ApprovedInv
<1> QED BY <1>3, <1>4, <1>5, <1>6, EveryStepRequests
           DEF RequestStep, Accepts, LearnsAccept

\* Whatever was put to the upstream carries a supervisor's approval, through every
\* retry, query and invalidation.
THEOREM SentIsApproved == Spec => []SentWasApproved
<1>1. Init => ApprovedInv
  BY DEF Init, ApprovedInv
<1>2. ApprovedInv => SentWasApproved
  BY DEF ApprovedInv, SentWasApproved
<1> QED BY <1>1, <1>2, ApprovedStep, TypeCorrect, PTL DEF Spec

-----------------------------------------------------------------------------
(***************************************************************************)
(* Outcomes, money and closing, by one inductive invariant.                 *)
(*                                                                          *)
(* The properties are not inductive as they stand: a report may still be     *)
(* pending when a terminal outcome is confirmed, and rejecting it sends the  *)
(* case back to the status it resumes.  ResumeInv and TerminalInv say what   *)
(* that status can be, and that a terminal outcome is never also reopened.   *)
(***************************************************************************)

Over == {"FINANCIAL_RECONCILIATION", "OUTCOME_VERIFICATION", "CLOSED"}

ResumeInv ==
  /\ work = "OUTCOME_VERIFICATION" => verifying /\ resume # "NONE"
  /\ resume \notin {"OUTCOME_VERIFICATION", "CLOSED"}

TerminalInv ==
  final => /\ ~reopened
           /\ work = "OUTCOME_VERIFICATION" => resume = "FINANCIAL_RECONCILIATION"

OutcomeInv ==
  /\ ResumeInv /\ TerminalInv /\ FinalStopsWork
  /\ SettledIsCurrent /\ NotifiedIsCurrent
  /\ PendingHasTask /\ ClosedSettled

Accounted == finStatus \in {"RECONCILED", "NOT_APPLICABLE"}

(***************************************************************************)
(* Tasks                                                                    *)
(***************************************************************************)
\* us holds every open OUTCOME_CONFIRMATION task of ts.
Keeps(ts, us) == \A t \in ts : t.type = "OUTCOME_CONFIRMATION" => t \in us

LEMMA TodoKeeps == \A ts, us, type, s : Keeps(ts, us) => Keeps(ts, Todo(us, type, s))
BY DEF Keeps, Todo

LEMMA DoneKeeps ==
  ASSUME NEW ts, NEW us, NEW types, NEW s, Keeps(ts, us),
         "OUTCOME_CONFIRMATION" \notin types
  PROVE  Keeps(ts, Done(us, types, s))
BY DEF Keeps, Done

LEMMA SameKeeps == \A ts : Keeps(ts, ts)
BY DEF Keeps

LEMMA InvalidatedKeeps == Keeps(tasks, InvalidatedTasks)
BY SameKeeps, DoneKeeps DEF InvalidatedTasks

LEMMA EntryKeeps == Keeps(tasks, EntryTasks)
<1> DEFINE types == {"DECISION", "EVIDENCE", "REVISION", "OP_REVIEW",
                  "FINAL_REVIEW", "DOCUMENT_REVISION", "ACCEPT_DECISION",
                  "RESPONSE_RIGHTS", "SLA_ESCALATION", "SLA_REMINDER",
                  "EVIDENCE_OVERDUE", "UPSTREAM_ACTION", "UPSTREAM_FOLLOWUP",
                  "EVIDENCE_APPLICABILITY", "CONTENT_REVIEW", "NEXT_STAGE"}
<1>1. "OUTCOME_CONFIRMATION" \notin types
  OBVIOUS
<1> HIDE DEF types
<1>2. Keeps(tasks, Done(tasks, types, stage))
  BY <1>1, SameKeeps, DoneKeeps
<1> QED BY <1>2, TodoKeeps DEF EntryTasks, types

LEMMA OutcomeTasksKeep ==
  ASSUME NEW report \in AllReports
  PROVE  Keeps(tasks, OutcomeTasks(report))
<1>1. report.final \in BOOLEAN /\ report.next \in BOOLEAN
  BY DEF AllReports
<1>2. "OUTCOME_CONFIRMATION" \notin CancelledByFinal
  BY DEF CancelledByFinal
<1>3. Keeps(tasks, Done(tasks, CancelledByFinal, stage))
  BY <1>2, SameKeeps, DoneKeeps
<1> QED BY <1>1, <1>3, SameKeeps, TodoKeeps, EntryKeeps DEF OutcomeTasks

\* While an OUTCOME_CONFIRMATION task is kept, so is the property about it.
LEMMA PendingKept ==
  ASSUME PendingHasTask, Keeps(tasks, tasks'),
         (\E n \in DOMAIN events' : Pending(n)') => \E n \in DOMAIN events : Pending(n)
  PROVE  PendingHasTask'
BY DEF PendingHasTask, Keeps

(***************************************************************************)
(* Commands of the contest                                                  *)
(***************************************************************************)
\* They need a case that is not over, do not end it, and touch neither outcome,
\* money nor OUTCOME_CONFIRMATION tasks.
Quiet ==
  /\ work \notin Over /\ work' \notin Over
  /\ UNCHANGED <<stage, eventVars, moneyVars>>
  /\ Keeps(tasks, tasks')

LEMMA RuleQuiet ==
  ASSUME RuleStep
  PROVE  Quiet
<1>1. ASSUME NEW a, NEW r, NEW c, ConfirmRule(a, r, c)
      PROVE  Quiet
  <2> DEFINE types == {"RULE_CONFIRMATION", "EVIDENCE", "REVISION", "DECISION"}
             ts == Done(InvalidatedTasks, types, stage)
  <2>1. Keeps(tasks, ts)
    BY InvalidatedKeeps, DoneKeeps
  <2> HIDE DEF ts
  <2>2. Keeps(tasks, tasks')
    BY <1>1, <2>1, TodoKeeps DEF ConfirmRule, ts
  <2>3. work \notin Over /\ work' \notin Over
    BY <1>1 DEF ConfirmRule, RuleStates, Over
  <2> QED BY <1>1, <2>2, <2>3 DEF ConfirmRule, Quiet
<1>2. ASSUME NEW a, PublishTask(a)
      PROVE  Quiet
  <2>1. Keeps(tasks, tasks')
    BY <1>2, SameKeeps, TodoKeeps DEF PublishTask
  <2>2. work \notin Over /\ work' \notin Over
    BY <1>2 DEF PublishTask, PublishStates, Over
  <2> QED BY <1>2, <2>1, <2>2 DEF PublishTask, Quiet
<1>3. ASSUME NEW a, NEW d, MerchantDecide(a, d)
      PROVE  Quiet
  <2> DEFINE types == {"DECISION", "ACCEPT_DECISION", "EVIDENCE", "REVISION"}
             ts == Done(InvalidatedTasks, types, stage)
  <2>1. Keeps(tasks, ts)
    BY InvalidatedKeeps, DoneKeeps
  <2> HIDE DEF ts
  <2>2. Keeps(tasks, Done(ts, {"RESPONSE_RIGHTS"}, stage))
    BY <2>1, DoneKeeps
  <2>3. Keeps(tasks, tasks')
    BY <1>3, <2>1, <2>2, TodoKeeps DEF MerchantDecide, ts
  <2>4. work \notin Over /\ work' \notin Over
    BY <1>3 DEF MerchantDecide, DecisionStates, Over
  <2> QED BY <1>3, <2>3, <2>4 DEF MerchantDecide, Quiet
<1>4. ASSUME NEW a, NEW res, RestoreRights(a, res)
      PROVE  Quiet
  <2>1. Keeps(tasks, tasks')
    BY <1>4, InvalidatedKeeps, DoneKeeps, TodoKeeps DEF RestoreRights, RightsTasks
  <2>2. work \notin Over /\ work' \notin Over
    BY <1>4 DEF RestoreRights, ResponseStates, Over
  <2> QED BY <1>4, <2>1, <2>2 DEF RestoreRights, Quiet
<1>5. ASSUME NEW a, NEW res, GiveUpRights(a, res)
      PROVE  Quiet
  <2>1. Keeps(tasks, tasks')
    BY <1>5, SameKeeps, DoneKeeps, TodoKeeps DEF GiveUpRights, RightsTasks
  <2>2. work \notin Over /\ work' \notin Over
    BY <1>5 DEF GiveUpRights, ResponseStates, Over
  <2> QED BY <1>5, <2>1, <2>2 DEF GiveUpRights, Quiet
<1> QED BY <1>1, <1>2, <1>3, <1>4, <1>5 DEF RuleStep

LEMMA EvidenceQuiet ==
  ASSUME EvidenceStep
  PROVE  Quiet
<1>1. ASSUME NEW a, NEW ev, work \in EvidenceStates, ChangeEvidence(a, ev)
      PROVE  Quiet
  <2>1. Keeps(tasks, SyncContentReview(InvalidatedTasks, ev))
    BY InvalidatedKeeps, DoneKeeps, TodoKeeps DEF SyncContentReview
  <2>2. Keeps(tasks, tasks')
    BY <1>1, <2>1, TodoKeeps DEF ChangeEvidence
  <2>3. work \notin Over /\ work' \notin Over
    BY <1>1 DEF ChangeEvidence, EvidenceStates, Over
  <2> QED BY <1>1, <2>2, <2>3 DEF ChangeEvidence, Quiet
<1>2. ASSUME NEW a, NEW items, ReuseEvidence(a, items)
      PROVE  Quiet
  <2>1. Keeps(tasks, tasks')
    BY <1>2, InvalidatedKeeps, DoneKeeps DEF ReuseEvidence
  <2>2. work \notin Over /\ work' \notin Over
    BY <1>2 DEF ReuseEvidence, PublishStates, Over
  <2> QED BY <1>2, <2>1, <2>2 DEF ReuseEvidence, Quiet
<1>3. ASSUME NEW a, SubmitEvidence(a)
      PROVE  Quiet
  <2>1. Keeps(tasks, Done(tasks, {"EVIDENCE", "REVISION", "EVIDENCE_OVERDUE"}, stage))
    BY SameKeeps, DoneKeeps
  <2> QED BY <1>3, <2>1, TodoKeeps DEF SubmitEvidence, Quiet, Over
<1>4. ASSUME NEW a, NEW verdict, Review(a, verdict)
      PROVE  Quiet
  <2>1. Keeps(tasks, tasks')
    BY <1>4, SameKeeps, DoneKeeps, TodoKeeps DEF Review
  <2>2. work \notin Over /\ work' \notin Over
    BY <1>4 DEF Review, Over
  <2> QED BY <1>4, <2>1, <2>2 DEF Review, Quiet
<1> QED BY <1>1, <1>2, <1>3, <1>4 DEF EvidenceStep, RegisterEvidence,
           ReviewContent, WithdrawEvidence

LEMMA PackageQuiet ==
  ASSUME PackageStep
  PROVE  Quiet
<1>1. ASSUME NEW a, BuildPackage(a)
      PROVE  Quiet
  <2>1. Keeps(tasks, Done(tasks, {"DOCUMENT_REVISION"}, stage))
    BY SameKeeps, DoneKeeps
  <2> QED BY <1>1, <2>1, TodoKeeps DEF BuildPackage, Quiet, Over
<1>2. ASSUME NEW a, NEW p, ApprovePackage(a, p)
      PROVE  Quiet
  <2>1. Keeps(tasks, tasks')
    BY <1>2, SameKeeps, DoneKeeps DEF ApprovePackage
  <2> QED BY <1>2, <2>1 DEF ApprovePackage, Quiet, Over
<1>3. ASSUME NEW a, NEW p, NEW verdict, FinalReturn(a, p, verdict)
      PROVE  Quiet
  <2> DEFINE ts == Done(tasks, {"FINAL_REVIEW", "ESCALATION_HOLD"}, stage)
             us == Done(InvalidatedTasks, {"FINAL_REVIEW", "ESCALATION_HOLD"}, stage)
  <2>1. Keeps(tasks, ts) /\ Keeps(tasks, us)
    BY SameKeeps, InvalidatedKeeps, DoneKeeps
  <2> HIDE DEF ts, us
  <2>2. Keeps(tasks, tasks')
    BY <1>3, <2>1, TodoKeeps DEF FinalReturn, ts, us
  <2>3. work \notin Over /\ work' \notin Over
    BY <1>3 DEF FinalReturn, Over
  <2> QED BY <1>3, <2>2, <2>3 DEF FinalReturn, Quiet
<1>4. ASSUME NEW a, NEW p, NEW sc, Submit(a, p, sc)
      PROVE  Quiet
  <2>1. Keeps(tasks, tasks')
    BY <1>4, SameKeeps, TodoKeeps DEF Submit
  <2> QED BY <1>4, <2>1 DEF Submit, Await, Quiet, Over
<1> QED BY <1>1, <1>2, <1>3, <1>4 DEF PackageStep

LEMMA ChannelQuiet ==
  ASSUME ChannelStep
  PROVE  Quiet
<1>1. ASSUME NEW answer, NEW back, back \notin Over, work \notin Over,
             Answered(answer, back)
      PROVE  work' \notin Over /\ Keeps(tasks, tasks')
  <2>1. Keeps(tasks, tasks')
    BY <1>1, SameKeeps, DoneKeeps DEF Answered
  <2> QED BY <1>1, <2>1 DEF Answered, Over
<1>2. ASSUME NEW a, NEW p, NEW answer, QuerySubmission(a, p, answer)
      PROVE  Quiet
  <2>1. work \notin Over /\ "READY_TO_SUBMIT" \notin Over
    BY <1>2 DEF QuerySubmission, Over
  <2> QED BY <1>1, <1>2, <2>1 DEF QuerySubmission, Quiet
<1>3. ASSUME NEW a, NEW k, NEW answer, QueryAcceptance(a, k, answer)
      PROVE  Quiet
  <2>1. work \notin Over /\ "ACCEPT_PROCESSING" \notin Over
    BY <1>3 DEF QueryAcceptance, Over
  <2> QED BY <1>1, <1>3, <2>1 DEF QueryAcceptance, Quiet
<1>4. ASSUME NEW a, NEW mode, NEW sc, ProcessAccept(a, mode, sc)
      PROVE  Quiet
  <2>1. Keeps(tasks, tasks')
    BY <1>4, SameKeeps, DoneKeeps, TodoKeeps DEF ProcessAccept
  <2>2. work \notin Over /\ work' \notin Over
    BY <1>4 DEF ProcessAccept, Await, Over
  <2>3. UNCHANGED <<stage, eventVars, moneyVars>>
    BY <1>4 DEF ProcessAccept
  <2> QED BY <2>1, <2>2, <2>3 DEF Quiet
<1> QED BY <1>2, <1>3, <1>4 DEF ChannelStep

\* So they keep the invariant: while they are possible nothing is final.
LEMMA QuietKeeps ==
  ASSUME OutcomeInv, Quiet
  PROVE  OutcomeInv'
<1>1. ~final
  BY DEF OutcomeInv, FinalStopsWork, Quiet, Over
<1>2. ~final' /\ work' # "OUTCOME_VERIFICATION" /\ work' # "CLOSED"
  BY <1>1 DEF Quiet, Over
<1>3. SettledIsCurrent' /\ NotifiedIsCurrent'
  BY <1>1 DEF OutcomeInv, SettledIsCurrent, NotifiedIsCurrent, Quiet
<1>4. PendingHasTask'
  BY PendingKept DEF OutcomeInv, Quiet, Pending
<1>5. ResumeInv' /\ TerminalInv' /\ FinalStopsWork' /\ ClosedSettled'
  BY <1>2 DEF OutcomeInv, ResumeInv, TerminalInv, FinalStopsWork, ClosedSettled,
              Quiet
<1> QED BY <1>3, <1>4, <1>5 DEF OutcomeInv

(***************************************************************************)
(* Outcome commands                                                         *)
(***************************************************************************)
\* What a confirmed report makes of the case, in the terms of the invariant.
LEMMA Applied ==
  ASSUME NEW report \in AllReports, NEW r, NEW c, ApplyOutcome(report, r, c)
  PROVE  /\ final' = report.final /\ report.final \in BOOLEAN
         /\ ~reopened' /\ ~notified'
         /\ IF report.final THEN finStatus' = "PENDING"
                            ELSE finStatus' = finStatus
         /\ report.final => ~Reviewed' /\ \A n \in DOMAIN packages' : ~Live(packages'[n])
         /\ report.final => OutcomeWork(report, r) = "FINANCIAL_RECONCILIATION"
         /\ OutcomeWork(report, r) \notin {"OUTCOME_VERIFICATION", "CLOSED", "NONE"}
<1>1. report.final \in BOOLEAN /\ report.next \in BOOLEAN
  BY DEF AllReports
<1>2. report.final => ~report.next
  BY DEF AllReports
<1>3. final' = report.final /\ ~reopened'
  BY DEF ApplyOutcome
<1>4. ~notified'
  BY <1>1 DEF ApplyOutcome, EnterStage
<1>5. IF report.final THEN finStatus' = "PENDING" ELSE finStatus' = finStatus
  BY DEF ApplyOutcome
<1>6. ASSUME report.final
      PROVE  ~Reviewed' /\ \A n \in DOMAIN packages' : ~Live(packages'[n])
  <2>1. Invalidate
    BY <1>1, <1>2, <1>6 DEF ApplyOutcome
  <2> QED BY <2>1, InvalidateRetires DEF Reviewed
<1>7. ASSUME report.final
      PROVE  OutcomeWork(report, r) = "FINANCIAL_RECONCILIATION"
  <2>1. report.disp \in {"FINAL", "VERIFY"}
    BY <1>7 DEF AllReports
  <2> QED BY <1>2, <1>7, <2>1 DEF OutcomeWork
<1>8. OutcomeWork(report, r) \notin {"OUTCOME_VERIFICATION", "CLOSED", "NONE"}
  BY DEF OutcomeWork, EntryWork
<1> QED BY <1>1, <1>3, <1>4, <1>5, <1>6, <1>7, <1>8

LEMMA RecordKeeps ==
  ASSUME TypeOK, OutcomeInv, NEW a, NEW report \in AllReports, NEW s, NEW corrects,
         NEW r, NEW c, RecordOutcome(a, report, s, corrects, r, c)
  PROVE  OutcomeInv'
<1> DEFINE unclear == \/ report.disp = "VERIFY" \/ report.cls # "KNOWN"
                      \/ corrects \/ s # stage
                      \/ work \notin {"WAITING_UPSTREAM", "UPSTREAM_ACTION_REQUIRED"}
           new == [report |-> report, stage |-> s, previous |-> work,
                   verification |-> IF unclear THEN "PENDING" ELSE "CONFIRMED"]
<1> HIDE DEF unclear
<1>1. ~final /\ work # "CLOSED"
  BY DEF RecordOutcome, OutcomeInv, TerminalInv
<1>2. ~Accounted /\ ~notified
  BY <1>1 DEF OutcomeInv, SettledIsCurrent, NotifiedIsCurrent, Accounted
<1>3. events' = Append(events, new)
  BY DEF RecordOutcome, unclear
<1>4. \A n \in DOMAIN events' :
        (n \in DOMAIN events /\ events'[n] = events[n]) \/ events'[n] = new
  BY <1>3, Appended DEF TypeOK, EventType
<1>5. CASE unclear
  <2>1. /\ resume' = IF resume = "NONE" THEN work ELSE resume
        /\ work' = "OUTCOME_VERIFICATION"
        /\ tasks' = Todo(tasks, "OUTCOME_CONFIRMATION", stage)
        /\ UNCHANGED <<final, outcomeVersion, reopened, moneyVars>>
    BY <1>5 DEF RecordOutcome, unclear
  <2>2. verifying'
    <3>1. verifying' = unclear
      BY DEF RecordOutcome, unclear
    <3>2. unclear
      BY <1>5
    <3> HIDE DEF new
    <3> QED BY <3>1, <3>2, Zenon
  <2>3. ResumeInv'
    <3>1. work # "NONE"
      BY DEF TypeOK, WorkStatus
    <3> QED BY <1>1, <2>1, <2>2, <3>1 DEF OutcomeInv, ResumeInv
  <2>4. ~final' /\ ~Accounted' /\ ~notified'
    BY <1>1, <1>2, <2>1 DEF Accounted
  <2>5. PendingHasTask'
    <3>1. [type |-> "OUTCOME_CONFIRMATION", stage |-> stage] \in tasks'
      BY <2>1 DEF Todo
    <3> QED BY <3>1 DEF PendingHasTask
  <2> QED BY <2>1, <2>3, <2>4, <2>5 DEF OutcomeInv, TerminalInv, FinalStopsWork,
        SettledIsCurrent, NotifiedIsCurrent, ClosedSettled, Accounted
<1>6. CASE ~unclear
  <2>1. /\ ApplyOutcome(report, r, c)
        /\ work' = OutcomeWork(report, r)
        /\ tasks' = OutcomeTasks(report)
        /\ resume' = IF resume = "NONE" THEN "NONE" ELSE work'
    BY <1>6 DEF RecordOutcome, unclear
  <2>2. ResumeInv' /\ TerminalInv' /\ FinalStopsWork'
    BY <2>1, Applied DEF ResumeInv, TerminalInv, FinalStopsWork
  <2>3. ~Accounted' /\ ~notified' /\ work' # "CLOSED"
    BY <1>2, <2>1, Applied DEF Accounted
  <2>4. PendingHasTask'
    <3>1. new.verification = "CONFIRMED"
      BY <1>6
    <3>2. (\E n \in DOMAIN events' : Pending(n)') => \E n \in DOMAIN events : Pending(n)
      BY <1>4, <3>1 DEF Pending
    <3> QED BY <2>1, <3>2, OutcomeTasksKeep, PendingKept DEF OutcomeInv
  <2> QED BY <2>2, <2>3, <2>4 DEF OutcomeInv, SettledIsCurrent,
        NotifiedIsCurrent, ClosedSettled, Accounted
<1> QED BY <1>5, <1>6

\* What VERIFY_OUTCOME leaves pending, and the task for it.
LEMMA SettleKeeps ==
  ASSUME TypeOK, PendingHasTask, NEW n \in DOMAIN events, Pending(n),
         NEW v \in {"CONFIRMED", "REJECTED"}, NEW next, NEW ts, Keeps(tasks, ts),
         Settle(n, v, next, ts)
  PROVE  /\ PendingHasTask'
         /\ work' = IF verifying' THEN "OUTCOME_VERIFICATION" ELSE next
<1> DEFINE more == \E m \in DOMAIN events : m # n /\ Pending(m)
<1> HIDE DEF more
<1>1. /\ events' = [events EXCEPT ![n].verification = v]
      /\ verifying' = more
      /\ work' = IF more THEN "OUTCOME_VERIFICATION" ELSE next
      /\ more => tasks' = ts
  BY DEF Settle, more
<1>2. work' = IF verifying' THEN "OUTCOME_VERIFICATION" ELSE next
  BY <1>1
<1>3. events'[n].verification = v
  <2>1. events[n] \in Event
    BY ElementOfSeq, LenProperties DEF TypeOK, EventType
  <2> QED BY <1>1, <2>1 DEF Event
<1>4. DOMAIN events' = DOMAIN events
      /\ \A m \in DOMAIN events : m # n => events'[m] = events[m]
  BY <1>1
<1>5. (\E m \in DOMAIN events' : Pending(m)') => more
  BY <1>3, <1>4 DEF Pending, more
<1>6. CASE more
  <2>1. PICK t \in tasks : t.type = "OUTCOME_CONFIRMATION"
    BY DEF PendingHasTask
  <2> QED BY <1>1, <1>2, <1>6, <2>1 DEF Keeps, PendingHasTask
<1>7. CASE ~more
  BY <1>2, <1>5, <1>7 DEF PendingHasTask
<1> QED BY <1>6, <1>7

LEMMA ConfirmKeeps ==
  ASSUME TypeOK, OutcomeInv, NEW a, NEW n \in DOMAIN events, NEW r, NEW c,
         ConfirmOutcome(a, n, r, c)
  PROVE  OutcomeInv'
<1> DEFINE report == events[n].report
<1>1. report \in AllReports
  <2>1. events[n] \in Event
    BY ElementOfSeq, LenProperties DEF TypeOK, EventType
  <2> QED BY <2>1 DEF Event
<1>2. /\ ApplyOutcome(report, r, c)
      /\ Settle(n, "CONFIRMED", OutcomeWork(report, r), OutcomeTasks(report))
      /\ resume' = IF verifying' /\ resume # "NONE"
                     THEN OutcomeWork(report, r) ELSE "NONE"
      /\ work = "OUTCOME_VERIFICATION" /\ Pending(n)
  BY DEF ConfirmOutcome
<1> HIDE DEF report
<1>3. verifying /\ resume # "NONE"
  BY <1>2 DEF OutcomeInv, ResumeInv
<1>4. ~Accounted
  BY <1>3 DEF OutcomeInv, SettledIsCurrent, Accounted
<1>5. /\ PendingHasTask'
      /\ work' = IF verifying' THEN "OUTCOME_VERIFICATION" ELSE OutcomeWork(report, r)
  BY <1>1, <1>2, SettleKeeps, OutcomeTasksKeep DEF OutcomeInv
<1>6. ResumeInv'
  BY <1>1, <1>2, <1>3, <1>5, Applied DEF ResumeInv
<1>7. TerminalInv' /\ FinalStopsWork'
  BY <1>1, <1>2, <1>3, <1>5, Applied DEF TerminalInv, FinalStopsWork
<1>8. ~Accounted' /\ ~notified' /\ work' # "CLOSED"
  BY <1>1, <1>2, <1>4, <1>5, Applied DEF Accounted
<1> QED BY <1>5, <1>6, <1>7, <1>8 DEF OutcomeInv, SettledIsCurrent,
           NotifiedIsCurrent, ClosedSettled, Accounted

LEMMA RejectKeeps ==
  ASSUME TypeOK, OutcomeInv, NEW a, NEW n \in DOMAIN events, RejectOutcome(a, n)
  PROVE  OutcomeInv'
<1>1. work = "OUTCOME_VERIFICATION" /\ Pending(n)
  BY DEF RejectOutcome
<1>2. verifying /\ resume # "NONE"
  BY <1>1 DEF OutcomeInv, ResumeInv
<1>3. /\ Settle(n, "REJECTED", resume, tasks)
      /\ resume' = IF verifying' THEN resume ELSE "NONE"
      /\ UNCHANGED <<fileVars, final, reopened, moneyVars>>
  BY <1>2 DEF RejectOutcome
<1>4. /\ PendingHasTask'
      /\ work' = IF verifying' THEN "OUTCOME_VERIFICATION" ELSE resume
  BY <1>1, <1>3, SettleKeeps, SameKeeps DEF OutcomeInv
<1>5. ResumeInv'
  BY <1>2, <1>3, <1>4 DEF OutcomeInv, ResumeInv
<1>6. TerminalInv' /\ FinalStopsWork'
  BY <1>1, <1>3, <1>4 DEF OutcomeInv, TerminalInv, FinalStopsWork, Reviewed
<1>7. ~Accounted' /\ ~notified' /\ work' # "CLOSED"
  BY <1>2, <1>3, <1>4 DEF OutcomeInv, ResumeInv, SettledIsCurrent,
     NotifiedIsCurrent, Accounted
<1> QED BY <1>4, <1>5, <1>6, <1>7 DEF OutcomeInv, SettledIsCurrent,
           NotifiedIsCurrent, ClosedSettled, Accounted

LEMMA NextStageKeeps ==
  ASSUME OutcomeInv, NEW a, NEW r, NEW c, NextStage(a, r, c)
  PROVE  OutcomeInv'
<1>1. ~final /\ ~final' /\ ~notified' /\ UNCHANGED <<events, resume, finStatus>>
  BY DEF NextStage, EnterStage
<1>2. work' # "OUTCOME_VERIFICATION" /\ work' # "CLOSED"
  BY DEF NextStage, EntryWork
<1>3. ~Accounted'
  BY <1>1 DEF OutcomeInv, SettledIsCurrent, Accounted
<1>4. Keeps(tasks, tasks')
  BY EntryKeeps DEF NextStage
<1>5. PendingHasTask'
  BY <1>1, <1>4, PendingKept DEF OutcomeInv, Pending
<1> QED BY <1>1, <1>2, <1>3, <1>5 DEF OutcomeInv, ResumeInv, TerminalInv,
       FinalStopsWork, SettledIsCurrent, NotifiedIsCurrent, ClosedSettled, Accounted

LEMMA ReopenKeeps ==
  ASSUME OutcomeInv, NEW a, ReopenCase(a)
  PROVE  OutcomeInv'
<1>1. ~final' /\ ~notified' /\ UNCHANGED <<events, resume>>
  BY DEF ReopenCase, Unsettle
<1>2. work' = "WAITING_UPSTREAM" /\ finStatus' = "PENDING"
  BY DEF ReopenCase, Unsettle
<1>3. Keeps(tasks, tasks')
  BY SameKeeps, TodoKeeps DEF ReopenCase
<1>4. PendingHasTask'
  BY <1>1, <1>3, PendingKept DEF OutcomeInv, Pending
<1> QED BY <1>1, <1>2, <1>4 DEF OutcomeInv, ResumeInv, TerminalInv,
       FinalStopsWork, SettledIsCurrent, NotifiedIsCurrent, ClosedSettled

LEMMA OutcomeKeeps ==
  ASSUME TypeOK, OutcomeInv, OutcomeStep
  PROVE  OutcomeInv'
BY Kinds, RecordKeeps, ConfirmKeeps, RejectKeeps, NextStageKeeps, ReopenKeeps
   DEF OutcomeStep

(***************************************************************************)
(* Money, closing, and what happens at any time                             *)
(***************************************************************************)
LEMMA MoneyKeeps ==
  ASSUME OutcomeInv, MoneyStep
  PROVE  OutcomeInv'
<1> USE DEF OutcomeInv, ResumeInv, TerminalInv, SettledIsCurrent,
            NotifiedIsCurrent, ClosedSettled
<1>1. ASSUME UNCHANGED <<work, fileVars, final>>
      PROVE  FinalStopsWork'
  BY <1>1 DEF FinalStopsWork, Reviewed
<1>2. ASSUME UNCHANGED events, Keeps(tasks, tasks')
      PROVE  PendingHasTask'
  BY <1>2, PendingKept DEF Pending
<1>3. ASSUME NEW a, RecordFinancial(a)
      PROVE  OutcomeInv'
  <2>1. Keeps(tasks, tasks')
    BY <1>3, SameKeeps, TodoKeeps DEF RecordFinancial
  <2>2. work # "CLOSED" /\ ~notified' /\ finStatus' = "PENDING"
        /\ UNCHANGED <<work, fileVars, eventVars>>
    BY <1>3 DEF RecordFinancial, Unsettle
  <2> QED BY <1>1, <1>2, <2>1, <2>2
<1>4. ASSUME NEW a, NEW status, Reconcile(a, status)
      PROVE  OutcomeInv'
  <2>1. Keeps(tasks, tasks')
    BY <1>4, SameKeeps, DoneKeeps, TodoKeeps DEF Reconcile
  <2>2. /\ work # "CLOSED" /\ final /\ ~verifying /\ ~notified'
        /\ recon' = Covered
        /\ UNCHANGED <<work, fileVars, eventVars, ledger>>
    BY <1>4 DEF Reconcile
  <2>3. recon' = Covered'
    BY <2>2 DEF Covered
  <2> QED BY <1>1, <1>2, <2>1, <2>2, <2>3
<1>5. ASSUME NEW a, NotifyMerchant(a)
      PROVE  OutcomeInv'
  <2>1. /\ work # "CLOSED" /\ notice' = Covered /\ notified' = (final /\ ~verifying)
        /\ UNCHANGED <<work, tasks, fileVars, eventVars, ledger, finStatus, recon>>
    BY <1>5 DEF NotifyMerchant
  <2>2. Covered' = Covered
    BY <2>1 DEF Covered
  <2>3. Keeps(tasks, tasks')
    BY <2>1, SameKeeps
  <2>4. NotifiedIsCurrent' /\ SettledIsCurrent'
    BY <2>1, <2>2
  <2> QED BY <1>1, <1>2, <2>1, <2>3, <2>4
<1>6. ASSUME NEW a, CloseCase(a)
      PROVE  OutcomeInv'
  <2>1. /\ final /\ Accounted /\ tasks = {} /\ notified /\ work' = "CLOSED"
        /\ UNCHANGED <<tasks, fileVars, eventVars, moneyVars>>
    BY <1>6 DEF CloseCase, NoBlockers, Accounted
  <2>2. Covered' = Covered /\ ~Reviewed'
    BY <2>1 DEF Covered, Reviewed, FinalStopsWork
  <2>3. \A n \in DOMAIN events : ~Pending(n)
    BY <2>1 DEF PendingHasTask
  <2>4. PendingHasTask' /\ \A n \in DOMAIN events' : ~Pending(n)'
    BY <2>1, <2>3 DEF PendingHasTask, Pending
  <2>5. FinalStopsWork'
    BY <2>1, <2>2 DEF FinalStopsWork
  <2>6. SettledIsCurrent' /\ NotifiedIsCurrent'
    BY <2>1, <2>2
  <2>7. ClosedSettled'
    BY <2>1, <2>2, <2>4, <2>6 DEF Accounted
  <2> QED BY <2>1, <2>4, <2>5, <2>6, <2>7
<1> QED BY <1>3, <1>4, <1>5, <1>6 DEF MoneyStep

\* What leaves work, file, events and money alone and loses no OUTCOME_CONFIRMATION
\* task keeps the invariant; a closed case has no tasks to add to.
LEMMA FrameKeeps ==
  ASSUME OutcomeInv, UNCHANGED <<work, fileVars, eventVars, moneyVars>>,
         Keeps(tasks, tasks'), work = "CLOSED" => tasks' = tasks
  PROVE  OutcomeInv'
<1>1. Covered' = Covered
  BY DEF Covered
<1>2. PendingHasTask'
  BY PendingKept DEF OutcomeInv, Pending
<1>3. FinalStopsWork' /\ ResumeInv' /\ TerminalInv'
  BY DEF OutcomeInv, FinalStopsWork, ResumeInv, TerminalInv, Reviewed
<1>4. SettledIsCurrent' /\ NotifiedIsCurrent'
  BY <1>1 DEF OutcomeInv, SettledIsCurrent, NotifiedIsCurrent
<1>5. ClosedSettled'
  BY <1>1 DEF OutcomeInv, ClosedSettled, Pending
<1> QED BY <1>2, <1>3, <1>4, <1>5 DEF OutcomeInv

LEMMA AnyTimeKeeps ==
  ASSUME OutcomeInv, AnyTimeStep
  PROVE  OutcomeInv'
<1>1. ASSUME NEW a, MonitorSLA(a)
      PROVE  OutcomeInv'
  <2>1. Keeps(tasks, tasks') /\ work # "CLOSED"
    BY <1>1, SameKeeps, TodoKeeps DEF MonitorSLA
  <2> QED BY <1>1, <2>1, FrameKeeps DEF MonitorSLA
<1>2. ASSUME NEW a, NEW t, ResolveTask(a, t)
      PROVE  OutcomeInv'
  <2>1. t.type # "OUTCOME_CONFIRMATION"
    BY <1>2 DEF ResolveTask, Protected
  <2>2. Keeps(tasks, tasks') /\ work # "CLOSED"
    BY <1>2, <2>1 DEF ResolveTask, Keeps
  <2> QED BY <1>2, <2>2, FrameKeeps DEF ResolveTask
<1>3. ASSUME NEW a, NEW u, AssignCase(a, u)
      PROVE  OutcomeInv'
  BY <1>3, SameKeeps, FrameKeeps DEF AssignCase
<1>4. ASSUME NEW a, DuplicateIntake(a)
      PROVE  OutcomeInv'
  BY <1>4, SameKeeps, FrameKeeps DEF DuplicateIntake
<1>5. ASSUME Tick
      PROVE  OutcomeInv'
  BY <1>5, SameKeeps, FrameKeeps DEF Tick
<1> QED BY <1>1, <1>2, <1>3, <1>4, <1>5 DEF AnyTimeStep

(***************************************************************************)
(* The theorems                                                             *)
(***************************************************************************)
LEMMA InitOutcome == Init => OutcomeInv
BY DEF Init, OutcomeInv, ResumeInv, TerminalInv, FinalStopsWork, SettledIsCurrent,
       NotifiedIsCurrent, PendingHasTask, ClosedSettled, EntryWork

LEMMA StepOutcome == TypeOK /\ OutcomeInv /\ [Next]_vars => OutcomeInv'
<1> SUFFICES ASSUME TypeOK, OutcomeInv, [Next]_vars
             PROVE  OutcomeInv'
  OBVIOUS
<1>1. CASE RuleStep \/ EvidenceStep \/ PackageStep \/ ChannelStep
  BY <1>1, RuleQuiet, EvidenceQuiet, PackageQuiet, ChannelQuiet, QuietKeeps
<1>2. CASE UNCHANGED vars
  BY <1>2, SameKeeps, FrameKeeps DEF vars
<1> QED BY <1>1, <1>2, OutcomeKeeps, MoneyKeeps, AnyTimeKeeps DEF Next

\* In every reachable case the statuses a verification resumes and a terminal
\* outcome leaves are the ones the properties below rest on.
THEOREM OutcomesHold == Spec => []OutcomeInv
BY InitOutcome, StepOutcome, TypeCorrect, PTL DEF Spec

\* A settled financial status and a merchant counted as notified are about the
\* present terminal outcome and ledger, whatever corrections, reopenings, ledger
\* events and reports there were.
THEOREM OutcomeCurrent == Spec => []OutcomeIsCurrent
<1>1. OutcomeInv => OutcomeIsCurrent
  BY DEF OutcomeInv, OutcomeIsCurrent
<1> QED BY <1>1, OutcomesHold, PTL

\* A report waiting for verification always has somebody asked to verify it.
THEOREM PendingAsked == Spec => []PendingHasTask
<1>1. OutcomeInv => PendingHasTask
  BY DEF OutcomeInv
<1> QED BY <1>1, OutcomesHold, PTL

\* A terminal outcome ends all dispute work.
THEOREM FinalStops == Spec => []FinalStopsWork
<1>1. OutcomeInv => FinalStopsWork
  BY DEF OutcomeInv
<1> QED BY <1>1, OutcomesHold, PTL

\* A closed case is settled, its merchant knows, and nothing is left open.
THEOREM ClosedIsSettled == Spec => []ClosedSettled
<1>1. OutcomeInv => ClosedSettled
  BY DEF OutcomeInv
<1> QED BY <1>1, OutcomesHold, PTL

-----------------------------------------------------------------------------
(***************************************************************************)
(* Nobody is waited for who was not asked, and the two human reviews are     *)
(* independent. Both depend on the status a rejected report brings back, so  *)
(* the invariant says of that status what it says of the present one: in the *)
(* first stage it still fits the case, since only a new stage could have     *)
(* made it stale.                                                            *)
(***************************************************************************)

\* The tasks a waiting status needs; all of them are protected.
Waited == {"OP_REVIEW", "RESPONSE_RIGHTS", "FINAL_REVIEW", "FINANCIAL_RECONCILIATION"}

\* What is asked for is there, and the case is where such a status comes from.
Fits(status) ==
  /\ AskedFor(status)
  /\ status \in {"OP_REVIEW", "SUBMISSION_PENDING_CONFIRMATION"} => decision = "CONTEST"
  /\ status = "FINANCIAL_RECONCILIATION" => final

\* Statuses in which the evidence is still to be reviewed.
Collecting == {"EVIDENCE_COLLECTING", "MERCHANT_REVISION_REQUIRED", "OP_REVIEW"}

FitInv ==
  /\ ~MayBeStale => Fits(work)
  /\ stage = 1 => Fits(resume)

ReviewInv ==
  /\ ~MayBeStale => (work \in Collecting => ~Reviewed)
  /\ stage = 1 => (resume \in Collecting => ~Reviewed)

WaitInv ==
  /\ work = "OUTCOME_VERIFICATION" => \E n \in DOMAIN events : Pending(n)
  /\ stage = 1 => (resume # "NONE" => work = "OUTCOME_VERIFICATION")
  /\ FitInv /\ ReviewInv

(***************************************************************************)
(* What a step may lose                                                     *)
(***************************************************************************)
\* us holds every task of ts that a waiting status may need.
Stands(ts, us) == \A t \in ts : t.type \in Waited => t \in us

LEMMA TodoStands == \A ts, us, type, s : Stands(ts, us) => Stands(ts, Todo(us, type, s))
BY DEF Stands, Todo

LEMMA DoneStands ==
  ASSUME NEW ts, NEW us, NEW types, NEW s, Stands(ts, us), Waited \intersect types = {}
  PROVE  Stands(ts, Done(us, types, s))
BY DEF Stands, Done

LEMMA SameStands == \A ts : Stands(ts, ts)
BY DEF Stands

LEMMA TodoAsks == \A ts, type, s : [type |-> type, stage |-> s] \in Todo(ts, type, s)
BY DEF Todo

\* Nothing is asked for in most statuses.
LEMMA PlainFits ==
  ASSUME NEW status,
         status \notin {"OP_REVIEW", "RESPONSE_REVIEW_REQUIRED",
                       "SUBMISSION_PENDING_CONFIRMATION", "FINANCIAL_RECONCILIATION"}
  PROVE  Fits(status) /\ Fits(status)'
BY DEF Fits, AskedFor

\* While decision, stage and packages stay and no such task is lost, a status that
\* fits goes on to fit; reconciliation also needs its own task, or to be settled.
LEMMA FitsKept ==
  ASSUME NEW status, Fits(status),
         UNCHANGED <<stage, decision, packages, final>>,
         \A t \in tasks :
           t.type \in Waited /\ t.type # "FINANCIAL_RECONCILIATION" => t \in tasks',
         final /\ AskedFor("FINANCIAL_RECONCILIATION") =>
           AskedFor("FINANCIAL_RECONCILIATION")'
  PROVE  Fits(status)'
<1>1. \A type \in Waited \ {"FINANCIAL_RECONCILIATION"} :
        [type |-> type, stage |-> stage] \in tasks => [type |-> type, stage |-> stage'] \in tasks'
  OBVIOUS
<1>2. CASE status = "FINANCIAL_RECONCILIATION"
  BY <1>2 DEF Fits, AskedFor
<1>3. CASE status # "FINANCIAL_RECONCILIATION"
  BY <1>1, <1>3 DEF Fits, AskedFor, Waited, Asked
<1> QED BY <1>2, <1>3

\* So does it when all such tasks are kept and the money is left alone.
LEMMA FitsOn ==
  ASSUME NEW status, Fits(status), Stands(tasks, tasks'),
         UNCHANGED <<stage, decision, packages, final, finStatus>>
  PROVE  Fits(status)'
<1>1. AskedFor("FINANCIAL_RECONCILIATION") => AskedFor("FINANCIAL_RECONCILIATION")'
  BY DEF AskedFor, Asked, Stands, Waited
<1> QED BY <1>1, FitsKept DEF Stands

LEMMA WorkFits ==
  ASSUME NEW status, work' = status, Fits(status)'
  PROVE  Fits(work)'
BY DEF Fits, AskedFor

LEMMA ResumeFits ==
  ASSUME NEW status, resume' = status, Fits(status)'
  PROVE  Fits(resume)'
BY DEF Fits, AskedFor

(***************************************************************************)
(* Commands of the contest                                                  *)
(***************************************************************************)
\* The statuses the commands of the contest lead to without asking for anything.
Plain == {"RECEIVED", "TRIAGED", "MERCHANT_ACTION_REQUIRED", "EVIDENCE_COLLECTING",
          "MERCHANT_REVISION_REQUIRED", "READY_TO_SUBMIT", "DOCUMENT_REVISION_REQUIRED",
          "ON_HOLD", "ACCEPT_RECOMMENDATION", "ACCEPT_PROCESSING",
          "SUBMISSION_UNCERTAIN", "WAITING_UPSTREAM", "UPSTREAM_ACTION_REQUIRED",
          "OUTCOME_VERIFICATION", "CLOSED"}

LEMMA PlainWork ==
  ASSUME work' \in Plain
  PROVE  Fits(work)'
<1>1. PICK status : status = work'
  OBVIOUS
<1> QED BY <1>1, PlainFits, WorkFits DEF Plain

\* A command asks for what its new status waits for, ...
FitStep == Fits(work) => Fits(work)'

\* ... and a status in which evidence is collected follows from another one or
\* with every review retired.
CollectStep ==
  work' \in Collecting =>
    \/ reviewer' = Nobody
    \/ work \in Collecting /\ reviewer' = reviewer

LEMMA RuleWaits ==
  ASSUME RuleStep
  PROVE  FitStep /\ CollectStep
<1>1. ASSUME NEW a, NEW r, NEW c, ConfirmRule(a, r, c)
      PROVE  FitStep /\ CollectStep
  <2>1. CollectStep
    BY <1>1, InvalidateRetires DEF ConfirmRule, CollectStep
  <2> DEFINE lost == decision = "CONTEST" /\ "CONTEST" \notin r.allowed
             types == {"RULE_CONFIRMATION", "EVIDENCE", "REVISION", "DECISION"}
             ts == Done(InvalidatedTasks, types, stage)
  <2> SUFFICES ASSUME Fits(work)
               PROVE  Fits(work)'
    BY <2>1 DEF FitStep
  <2>2. CASE lost
    <3>1. work' = "RESPONSE_REVIEW_REQUIRED" /\ tasks' = Todo(ts, "RESPONSE_RIGHTS", stage)
          /\ stage' = stage
      BY <1>1, <2>2 DEF ConfirmRule
    <3> QED BY <3>1, TodoAsks DEF Fits, AskedFor, Asked
  <2>3. CASE ~lost /\ decision \in {"NONE", "CONTEST"}
    <3>1. work' \in {"TRIAGED", "EVIDENCE_COLLECTING"}
      BY <1>1, <2>3 DEF ConfirmRule
    <3> QED BY <3>1, PlainWork DEF Plain
  <2>4. CASE decision \notin {"NONE", "CONTEST"}
    <3>1. work' = work /\ tasks' = ts /\ stage' = stage
      BY <1>1, <2>4 DEF ConfirmRule
    <3>2. work \notin {"OP_REVIEW", "SUBMISSION_PENDING_CONFIRMATION",
                      "FINANCIAL_RECONCILIATION"}
      BY <1>1, <2>4 DEF Fits, ConfirmRule, RuleStates
    <3>3. Asked("RESPONSE_RIGHTS") => Asked("RESPONSE_RIGHTS")'
      BY <3>1 DEF Asked, InvalidatedTasks, Done
    <3> QED BY <3>1, <3>2, <3>3 DEF Fits, AskedFor, Asked
  <2> QED BY <2>2, <2>3, <2>4
<1>2. ASSUME NEW a, PublishTask(a)
      PROVE  FitStep /\ CollectStep
  <2>1. work' \in Plain
    BY <1>2 DEF PublishTask, PublishStates, Plain
  <2> QED BY <1>2, <2>1, PlainWork DEF PublishTask, FitStep, CollectStep, Collecting
<1>3. ASSUME NEW a, NEW d, MerchantDecide(a, d)
      PROVE  FitStep /\ CollectStep
  <2>1. CollectStep
    BY <1>3, InvalidateRetires DEF MerchantDecide, CollectStep
  <2>2. CASE d = "NO_RESPONSE"
    <3>1. work' = "RESPONSE_REVIEW_REQUIRED" /\ stage' = stage
          /\ \E ts : tasks' = Todo(ts, "RESPONSE_RIGHTS", stage)
      BY <1>3, <2>2 DEF MerchantDecide
    <3> QED BY <2>1, <3>1, TodoAsks DEF FitStep, Fits, AskedFor, Asked
  <2>3. CASE d # "NO_RESPONSE"
    <3>1. work' \in {"EVIDENCE_COLLECTING", "ACCEPT_PROCESSING"}
      BY <1>3, <2>3 DEF MerchantDecide
    <3> QED BY <2>1, <3>1, PlainWork DEF FitStep, Plain
  <2> QED BY <2>2, <2>3
<1>4. ASSUME NEW a, NEW res, RestoreRights(a, res)
      PROVE  FitStep /\ CollectStep
  <2>1. work' \in Plain
    BY <1>4 DEF RestoreRights, Plain
  <2> QED BY <1>4, <2>1, PlainWork, InvalidateRetires DEF RestoreRights, FitStep, CollectStep
<1>5. ASSUME NEW a, NEW res, GiveUpRights(a, res)
      PROVE  FitStep /\ CollectStep
  <2>1. work' = "WAITING_UPSTREAM"
    BY <1>5 DEF GiveUpRights
  <2> QED BY <2>1, PlainWork DEF FitStep, CollectStep, Plain, Collecting
<1> QED BY <1>1, <1>2, <1>3, <1>4, <1>5 DEF RuleStep

LEMMA EvidenceWaits ==
  ASSUME EvidenceStep
  PROVE  FitStep /\ CollectStep
<1>1. ASSUME NEW a, NEW ev, ChangeEvidence(a, ev)
      PROVE  FitStep /\ CollectStep
  BY <1>1, PlainWork, InvalidateRetires DEF ChangeEvidence, FitStep, CollectStep, Plain
<1>2. ASSUME NEW a, NEW items, ReuseEvidence(a, items)
      PROVE  FitStep /\ CollectStep
  <2>1. work' \in Plain
    BY <1>2 DEF ReuseEvidence, PublishStates, Plain
  <2> QED BY <1>2, <2>1, PlainWork, InvalidateRetires DEF ReuseEvidence, FitStep, CollectStep
<1>3. ASSUME NEW a, SubmitEvidence(a)
      PROVE  FitStep /\ CollectStep
  <2>1. /\ work \in Collecting /\ work' = "OP_REVIEW" /\ UNCHANGED <<stage, reviewer>>
        /\ decision' = "CONTEST"
        /\ \E ts : tasks' = Todo(ts, "OP_REVIEW", stage)
    BY <1>3 DEF SubmitEvidence, ContestReady, Collecting
  <2> QED BY <2>1, TodoAsks DEF FitStep, CollectStep, Fits, AskedFor, Asked
<1>4. ASSUME NEW a, NEW verdict, Review(a, verdict)
      PROVE  FitStep /\ CollectStep
  <2>1. work' \in Plain /\ work \in Collecting
    BY <1>4 DEF Review, Plain, Collecting
  <2>2. CollectStep
    BY <1>4, <2>1 DEF Review, CollectStep, Collecting
  <2> QED BY <2>1, <2>2, PlainWork DEF FitStep
<1> QED BY <1>1, <1>2, <1>3, <1>4 DEF EvidenceStep, RegisterEvidence, ReviewContent,
           WithdrawEvidence

LEMMA PackageWaits ==
  ASSUME TypeOK, PackageStep
  PROVE  FitStep /\ CollectStep
<1>1. ASSUME NEW a, BuildPackage(a)
      PROVE  FitStep /\ CollectStep
  <2>1. PICK new, ts :
          /\ packages' = Append(packages, new) /\ new.status = "DRAFT"
          /\ tasks' = Todo(ts, "FINAL_REVIEW", stage)
          /\ work' = "SUBMISSION_PENDING_CONFIRMATION" /\ stage' = stage
          /\ decision' = "CONTEST"
    <3> DEFINE p == [status |-> "DRAFT", version |-> version, stage |-> stage,
                     index |-> EvidenceIndex, rule |-> rule, by |-> a, approver |-> Nobody]
    <3>1. packages' = Append(packages, p) /\ p.status = "DRAFT"
      BY <1>1 DEF BuildPackage
    <3>2. /\ \E ts : tasks' = Todo(ts, "FINAL_REVIEW", stage)
          /\ work' = "SUBMISSION_PENDING_CONFIRMATION" /\ stage' = stage
          /\ decision' = "CONTEST"
      BY <1>1 DEF BuildPackage, ContestReady
    <3> HIDE DEF p
    <3> QED BY <3>1, <3>2
  <2>2. \E n \in DOMAIN packages' : packages'[n].status = "DRAFT"
    <3>1. /\ Len(packages) + 1 \in DOMAIN packages'
          /\ packages'[Len(packages) + 1] = new
      BY <2>1, AppendProperties, LenProperties DEF TypeOK, FileType
    <3> QED BY <2>1, <3>1
  <2> QED BY <2>1, <2>2, TodoAsks DEF FitStep, CollectStep, Collecting, Fits, AskedFor, Asked
<1>2. ASSUME NEW a, NEW p, ApprovePackage(a, p)
      PROVE  FitStep /\ CollectStep
  BY <1>2, PlainWork DEF ApprovePackage, FitStep, CollectStep, Plain, Collecting
<1>3. ASSUME NEW a, NEW p, NEW verdict, FinalReturn(a, p, verdict)
      PROVE  FitStep /\ CollectStep
  <2>1. work' \in Plain /\ (work' \in Collecting => Invalidate)
    BY <1>3 DEF FinalReturn, Plain, Collecting
  <2> QED BY <2>1, PlainWork, InvalidateRetires DEF FitStep, CollectStep
<1>4. ASSUME NEW a, NEW p, NEW sc, Submit(a, p, sc)
      PROVE  FitStep /\ CollectStep
  BY <1>4, PlainWork DEF Submit, Await, FitStep, CollectStep, Plain, Collecting
<1> QED BY <1>1, <1>2, <1>3, <1>4 DEF PackageStep

LEMMA ChannelWaits ==
  ASSUME ChannelStep
  PROVE  FitStep /\ CollectStep
<1>1. work' \in {"WAITING_UPSTREAM", "SUBMISSION_UNCERTAIN", "READY_TO_SUBMIT",
                "ACCEPT_PROCESSING"}
  <2>1. ASSUME NEW a, NEW mode, NEW sc, ProcessAccept(a, mode, sc)
        PROVE  work' \in {"WAITING_UPSTREAM", "SUBMISSION_UNCERTAIN"}
    BY <2>1 DEF ProcessAccept, Await
  <2> QED BY <2>1 DEF ChannelStep, QuerySubmission, QueryAcceptance, Answered
<1> QED BY <1>1, PlainWork DEF FitStep, CollectStep, Plain, Collecting

\* They leave the reports alone, and no status to resume is remembered meanwhile.
LEMMA QuietWaits ==
  ASSUME WaitInv, Quiet, FitStep, CollectStep
  PROVE  WaitInv'
<1>1. /\ work \notin Over /\ work' \notin Over
      /\ UNCHANGED <<stage, events, resume>>
  BY DEF Quiet
<1>2. work # "OUTCOME_VERIFICATION" /\ work' # "OUTCOME_VERIFICATION"
  BY <1>1 DEF Over
<1>3. MayBeStale' = MayBeStale
  BY <1>1 DEF MayBeStale
<1>4. stage = 1 => resume = "NONE"
  BY <1>2 DEF WaitInv
<1>5. FitInv'
  <2>1. Fits("NONE")'
    BY PlainFits
  <2> QED BY <1>1, <1>3, <1>4, <2>1, ResumeFits DEF WaitInv, FitInv, FitStep
<1>6. ReviewInv'
  BY <1>1, <1>3, <1>4 DEF WaitInv, ReviewInv, CollectStep, Collecting, Reviewed
<1> QED BY <1>1, <1>2, <1>4, <1>5, <1>6 DEF WaitInv

(***************************************************************************)
(* Outcome commands                                                         *)
(***************************************************************************)
\* Where a confirmed report leads, and that its tasks ask for it.
LEMMA OutcomeFits ==
  ASSUME NEW report \in AllReports, NEW r, NEW c, ApplyOutcome(report, r, c),
         report.final => [type |-> "FINANCIAL_RECONCILIATION", stage |-> stage] \in tasks'
  PROVE  /\ Fits(OutcomeWork(report, r))'
         /\ OutcomeWork(report, r) \notin Collecting \union {"OUTCOME_VERIFICATION", "NONE"}
<1>1. report.final \in BOOLEAN /\ report.next \in BOOLEAN
  BY DEF AllReports
<1>2. OutcomeWork(report, r) \notin Collecting \union {"OUTCOME_VERIFICATION", "NONE"}
  BY DEF OutcomeWork, EntryWork, Collecting
<1>3. CASE report.final
  <2>1. OutcomeWork(report, r) = "FINANCIAL_RECONCILIATION" /\ final'
    BY <1>3, Applied
  <2>2. stage' = stage
    BY <1>1, <1>3 DEF ApplyOutcome, AllReports
  <2>3. Asked("FINANCIAL_RECONCILIATION")'
    BY <1>3, <2>2 DEF Asked
  <2>4. Fits("FINANCIAL_RECONCILIATION")'
    BY <2>1, <2>3 DEF Fits, AskedFor
  <2> QED BY <1>2, <2>1, <2>4
<1>4. CASE ~report.final
  <2>1. PICK status : status = OutcomeWork(report, r)
    OBVIOUS
  <2>2. status \notin {"OP_REVIEW", "RESPONSE_REVIEW_REQUIRED",
                      "SUBMISSION_PENDING_CONFIRMATION", "FINANCIAL_RECONCILIATION"}
    BY <1>4, <2>1 DEF OutcomeWork, EntryWork
  <2>3. Fits(status)'
    BY <2>2, PlainFits
  <2> QED BY <1>2, <2>1, <2>3
<1> QED BY <1>1, <1>3, <1>4

LEMMA AppliedStage ==
  ASSUME NEW report \in AllReports, NEW r, NEW c, ApplyOutcome(report, r, c)
  PROVE  stage' \in {stage, stage + 1}
<1>1. report.next \in BOOLEAN
  BY DEF AllReports
<1> QED BY <1>1 DEF ApplyOutcome, EnterStage

LEMMA FinalAsks ==
  ASSUME NEW report \in AllReports, report.final
  PROVE  [type |-> "FINANCIAL_RECONCILIATION", stage |-> stage] \in OutcomeTasks(report)
<1>1. ~report.next /\ report.disp # "NEXT_STAGE" /\ report.disp # "ACTION"
  BY DEF AllReports
<1>2. OutcomeTasks(report) =
        Todo(Done(tasks, CancelledByFinal, stage), "FINANCIAL_RECONCILIATION", stage)
  BY <1>1 DEF OutcomeTasks
<1> QED BY <1>2, TodoAsks

LEMMA RecordWaits ==
  ASSUME TypeOK, WaitInv, NEW a, NEW report \in AllReports, NEW s, NEW corrects,
         NEW r, NEW c, RecordOutcome(a, report, s, corrects, r, c)
  PROVE  WaitInv'
<1> DEFINE unclear == \/ report.disp = "VERIFY" \/ report.cls # "KNOWN"
                      \/ corrects \/ s # stage
                      \/ work \notin {"WAITING_UPSTREAM", "UPSTREAM_ACTION_REQUIRED"}
           new == [report |-> report, stage |-> s, previous |-> work,
                   verification |-> IF unclear THEN "PENDING" ELSE "CONFIRMED"]
<1> HIDE DEF unclear
<1>1. events' = Append(events, new)
  BY DEF RecordOutcome, unclear
<1>2. \A n \in DOMAIN events : n \in DOMAIN events' /\ events'[n] = events[n]
  BY <1>1, AppendProperties, LenProperties DEF TypeOK, EventType
<1>3. stage \in Nat /\ (stage = 1 => ~MayBeStale)
  BY DEF TypeOK, RightsType, MayBeStale
<1>4. CASE unclear
  <2>1. /\ resume' = IF resume = "NONE" THEN work ELSE resume
        /\ work' = "OUTCOME_VERIFICATION"
        /\ tasks' = Todo(tasks, "OUTCOME_CONFIRMATION", stage)
        /\ UNCHANGED <<stage, decision, packages, reviewer, final, finStatus>>
    BY <1>4 DEF RecordOutcome, unclear
  <2>2. \E n \in DOMAIN events' : Pending(n)'
    <3>1. /\ Len(events) + 1 \in DOMAIN events'
          /\ events'[Len(events) + 1] = new
      BY <1>1, AppendProperties, LenProperties DEF TypeOK, EventType
    <3>2. new.verification = "PENDING"
      BY <1>4
    <3> HIDE DEF new
    <3> QED BY <3>1, <3>2 DEF Pending
  <2>3. Stands(tasks, tasks')
    BY <2>1, SameStands, TodoStands
  <2>4. stage = 1 => Fits(resume)'
    <3>1. PICK status : status = IF resume = "NONE" THEN work ELSE resume
      OBVIOUS
    <3>2. stage = 1 => Fits(status)
      <4>1. CASE resume = "NONE"
        <5>1. status = work
          BY <3>1, <4>1
        <5> QED BY <1>3, <5>1 DEF WaitInv, FitInv
      <4>2. CASE resume # "NONE"
        <5>1. status = resume
          BY <3>1, <4>2
        <5> QED BY <5>1 DEF WaitInv, FitInv
      <4> QED BY <4>1, <4>2
    <3>3. stage = 1 => Fits(status)'
      BY <2>1, <2>3, <3>2, FitsOn
    <3> QED BY <2>1, <3>1, <3>3, ResumeFits
  <2>5. Fits(work)'
    BY <2>1, PlainWork DEF Plain
  <2>6. stage = 1 => (resume' \in Collecting => ~Reviewed')
    BY <1>3, <2>1 DEF WaitInv, ReviewInv, Reviewed
  <2> QED BY <2>1, <2>2, <2>4, <2>5, <2>6 DEF WaitInv, FitInv, ReviewInv, Collecting
<1>5. CASE ~unclear
  <2>1. /\ ApplyOutcome(report, r, c)
        /\ work' = OutcomeWork(report, r)
        /\ tasks' = OutcomeTasks(report)
        /\ resume' = IF resume = "NONE" THEN "NONE" ELSE work'
        /\ work # "OUTCOME_VERIFICATION"
    BY <1>5 DEF RecordOutcome, unclear
  <2>2. stage' \in {stage, stage + 1}
    BY <2>1, AppliedStage
  <2>3. stage' = 1 => resume' = "NONE"
    BY <1>3, <2>1, <2>2 DEF WaitInv, TypeOK, RightsType
  <2>4. report.final => [type |-> "FINANCIAL_RECONCILIATION", stage |-> stage] \in tasks'
    BY <2>1, FinalAsks
  <2>5. Fits(work)' /\ work' \notin Collecting \union {"OUTCOME_VERIFICATION"}
    <3>1. PICK status : status = OutcomeWork(report, r)
      OBVIOUS
    <3>2. Fits(status)' /\ status \notin Collecting \union {"OUTCOME_VERIFICATION"}
      BY <2>1, <2>4, <3>1, OutcomeFits
    <3> QED BY <2>1, <3>1, <3>2, WorkFits
  <2>6. Fits("NONE")'
    BY PlainFits
  <2> QED BY <2>3, <2>5, <2>6, ResumeFits DEF WaitInv, FitInv, ReviewInv, Collecting
<1> QED BY <1>4, <1>5

\* What VERIFY_OUTCOME does to the reports and to the tasks a status may need.
LEMMA SettleWaits ==
  ASSUME TypeOK, NEW n \in DOMAIN events, Pending(n),
         NEW v \in {"CONFIRMED", "REJECTED"}, NEW next, NEW ts, Settle(n, v, next, ts)
  PROVE  /\ work' = IF verifying' THEN "OUTCOME_VERIFICATION" ELSE next
         /\ verifying' => \E m \in DOMAIN events' : Pending(m)'
         /\ Stands(ts, tasks')
         /\ n \in DOMAIN events' /\ events'[n].verification = v
<1> DEFINE more == \E m \in DOMAIN events : m # n /\ Pending(m)
<1> HIDE DEF more
<1>1. /\ events' = [events EXCEPT ![n].verification = v]
      /\ verifying' = more
      /\ work' = IF more THEN "OUTCOME_VERIFICATION" ELSE next
      /\ tasks' = IF more THEN ts ELSE Done(ts, {"OUTCOME_CONFIRMATION"}, stage')
  BY DEF Settle, more
<1>2. \A m \in DOMAIN events : m \in DOMAIN events' /\ (m # n => events'[m] = events[m])
  BY <1>1
<1>3. more => \E m \in DOMAIN events' : Pending(m)'
  BY <1>2 DEF more, Pending
<1>4. Stands(ts, Done(ts, {"OUTCOME_CONFIRMATION"}, stage'))
  BY DEF Stands, Done, Waited
<1>5. events'[n].verification = v
  <2>1. events[n] \in Event
    BY ElementOfSeq, LenProperties DEF TypeOK, EventType
  <2> QED BY <1>1, <2>1 DEF Event
<1>6. Stands(ts, tasks')
  <2>1. CASE more
    BY <1>1, <2>1, SameStands
  <2>2. CASE ~more
    BY <1>1, <1>4, <2>2
  <2> QED BY <2>1, <2>2
<1>7. work' = IF verifying' THEN "OUTCOME_VERIFICATION" ELSE next
  BY <1>1
<1>8. verifying' => \E m \in DOMAIN events' : Pending(m)'
  BY <1>1, <1>3
<1> QED BY <1>2, <1>5, <1>6, <1>7, <1>8

LEMMA ConfirmWaits ==
  ASSUME TypeOK, OutcomeInv, WaitInv, NEW a, NEW n \in DOMAIN events, NEW r, NEW c,
         ConfirmOutcome(a, n, r, c)
  PROVE  WaitInv'
<1> DEFINE report == events[n].report
<1>1. report \in AllReports
  <2>1. events[n] \in Event
    BY ElementOfSeq, LenProperties DEF TypeOK, EventType
  <2> QED BY <2>1 DEF Event
<1>2. /\ ApplyOutcome(report, r, c)
      /\ Settle(n, "CONFIRMED", OutcomeWork(report, r), OutcomeTasks(report))
      /\ resume' = IF verifying' /\ resume # "NONE"
                     THEN OutcomeWork(report, r) ELSE "NONE"
      /\ work = "OUTCOME_VERIFICATION" /\ Pending(n)
  BY DEF ConfirmOutcome
<1> HIDE DEF report
<1>3. /\ work' = IF verifying' THEN "OUTCOME_VERIFICATION" ELSE OutcomeWork(report, r)
      /\ verifying' => \E m \in DOMAIN events' : Pending(m)'
      /\ Stands(OutcomeTasks(report), tasks')
  BY <1>2, SettleWaits
<1>4. report.final => [type |-> "FINANCIAL_RECONCILIATION", stage |-> stage] \in tasks'
  <2> SUFFICES ASSUME report.final
               PROVE  [type |-> "FINANCIAL_RECONCILIATION", stage |-> stage] \in tasks'
    OBVIOUS
  <2>1. [type |-> "FINANCIAL_RECONCILIATION", stage |-> stage] \in OutcomeTasks(report)
    BY <1>1, FinalAsks
  <2> QED BY <1>3, <2>1 DEF Stands, Waited
<1>5. PICK status : status = OutcomeWork(report, r)
  OBVIOUS
<1>6. Fits(status)' /\ status \notin Collecting \union {"OUTCOME_VERIFICATION", "NONE"}
  BY <1>1, <1>2, <1>4, <1>5, OutcomeFits
<1>7. Fits("NONE")' /\ Fits("OUTCOME_VERIFICATION")'
  BY PlainFits
<1>8. FitInv'
  BY <1>2, <1>3, <1>5, <1>6, <1>7, WorkFits, ResumeFits DEF FitInv
<1>9. ReviewInv'
  BY <1>2, <1>3, <1>5, <1>6 DEF ReviewInv, Collecting
<1> QED BY <1>2, <1>3, <1>5, <1>6, <1>8, <1>9 DEF WaitInv

LEMMA RejectWaits ==
  ASSUME TypeOK, OutcomeInv, WaitInv, NEW a, NEW n \in DOMAIN events,
         RejectOutcome(a, n)
  PROVE  WaitInv'
<1>1. work = "OUTCOME_VERIFICATION" /\ Pending(n) /\ stage \in Nat
  BY DEF RejectOutcome, TypeOK, RightsType
<1>2. resume # "NONE" /\ resume # "OUTCOME_VERIFICATION"
  BY <1>1 DEF OutcomeInv, ResumeInv
<1>3. /\ Settle(n, "REJECTED", resume, tasks)
      /\ resume' = IF verifying' THEN resume ELSE "NONE"
      /\ UNCHANGED <<stage, decision, fileVars, final, finStatus>>
  BY <1>2 DEF RejectOutcome
<1>4. /\ work' = IF verifying' THEN "OUTCOME_VERIFICATION" ELSE resume
      /\ verifying' => \E m \in DOMAIN events' : Pending(m)'
      /\ Stands(tasks, tasks')
      /\ n \in DOMAIN events' /\ events'[n].verification = "REJECTED"
  BY <1>1, <1>3, SettleWaits
<1>5. ~MayBeStale' => stage = 1
  BY <1>1, <1>3, <1>4 DEF MayBeStale, TypeOK, RightsType
<1>6. PICK status : status = resume
  OBVIOUS
<1>7. stage = 1 => Fits(status)'
  <2>1. stage = 1 => Fits(status)
    BY <1>6 DEF WaitInv, FitInv
  <2> QED BY <1>3, <1>4, <2>1, FitsOn
<1>8. Fits("NONE")' /\ Fits("OUTCOME_VERIFICATION")'
  BY PlainFits
<1>9. FitInv'
  BY <1>3, <1>4, <1>5, <1>6, <1>7, <1>8, WorkFits, ResumeFits DEF FitInv
<1>10. ReviewInv'
  BY <1>3, <1>4, <1>5 DEF WaitInv, ReviewInv, Collecting, Reviewed
<1> QED BY <1>2, <1>3, <1>4, <1>9, <1>10 DEF WaitInv

LEMMA NextStageWaits ==
  ASSUME TypeOK, NEW a, NEW r, NEW c, NextStage(a, r, c)
  PROVE  WaitInv'
<1>1. work' \in {"TRIAGED", "RECEIVED"} /\ stage' = stage + 1 /\ reviewer' = Nobody
  BY InvalidateRetires DEF NextStage, EnterStage, EntryWork
<1>2. stage' # 1
  BY <1>1 DEF TypeOK, RightsType
<1> QED BY <1>1, <1>2, PlainWork DEF WaitInv, FitInv, ReviewInv, Plain, Reviewed

LEMMA ReopenWaits ==
  ASSUME WaitInv, NEW a, ReopenCase(a)
  PROVE  WaitInv'
<1>1. /\ work # "OUTCOME_VERIFICATION" /\ work' = "WAITING_UPSTREAM"
      /\ UNCHANGED <<stage, resume>>
  BY DEF ReopenCase
<1>2. stage' = 1 => resume' = "NONE"
  BY <1>1 DEF WaitInv
<1>3. Fits("NONE")'
  BY PlainFits
<1> QED BY <1>1, <1>2, <1>3, PlainWork, ResumeFits
           DEF WaitInv, FitInv, ReviewInv, Plain, Collecting

LEMMA OutcomeWaits ==
  ASSUME TypeOK, OutcomeInv, WaitInv, OutcomeStep
  PROVE  WaitInv'
BY Kinds, RecordWaits, ConfirmWaits, RejectWaits, NextStageWaits, ReopenWaits
   DEF OutcomeStep

(***************************************************************************)
(* Money, closing, and what happens at any time                             *)
(***************************************************************************)
\* Commands that leave the status of the case alone and lose no task it needs.
LEMMA FrameWaits ==
  ASSUME WaitInv, UNCHANGED <<work, stage, decision, reviewer, packages, events, resume, final>>,
         \A t \in tasks :
           t.type \in Waited /\ t.type # "FINANCIAL_RECONCILIATION" => t \in tasks',
         final /\ AskedFor("FINANCIAL_RECONCILIATION") =>
           AskedFor("FINANCIAL_RECONCILIATION")'
  PROVE  WaitInv'
<1>1. MayBeStale' = MayBeStale
  BY DEF MayBeStale
<1>2. ASSUME NEW status, Fits(status)
      PROVE  Fits(status)'
  BY <1>2, FitsKept
<1>3. FitInv'
  <2>1. PICK w, q : w = work /\ q = resume
    OBVIOUS
  <2>2. (Fits(work) => Fits(w)) /\ (Fits(resume) => Fits(q))
    BY <2>1
  <2> QED BY <1>1, <1>2, <2>1, <2>2, WorkFits, ResumeFits DEF WaitInv, FitInv
<1>4. ReviewInv'
  BY <1>1 DEF WaitInv, ReviewInv, Reviewed
<1> QED BY <1>3, <1>4 DEF WaitInv, Pending

LEMMA MoneyWaits ==
  ASSUME OutcomeInv, WaitInv, MoneyStep
  PROVE  WaitInv'
<1>1. ASSUME NEW a, RecordFinancial(a)
      PROVE  WaitInv'
  <2>1. /\ UNCHANGED <<work, stage, decision, reviewer, packages, events, resume, final>>
        /\ Stands(tasks, tasks')
    BY <1>1, SameStands, TodoStands DEF RecordFinancial
  <2>2. final => AskedFor("FINANCIAL_RECONCILIATION")'
    BY <1>1, TodoAsks DEF RecordFinancial, AskedFor, Asked
  <2> QED BY <2>1, <2>2, FrameWaits DEF Stands
<1>2. ASSUME NEW a, NEW status \in {"RECONCILED", "NOT_APPLICABLE", "DISCREPANCY"},
             Reconcile(a, status)
      PROVE  WaitInv'
  <2>1. UNCHANGED <<work, stage, decision, reviewer, packages, events, resume, final>>
    BY <1>2 DEF Reconcile
  <2>2. \A t \in tasks :
           t.type \in Waited /\ t.type # "FINANCIAL_RECONCILIATION" => t \in tasks'
    BY <1>2 DEF Reconcile, Todo, Done
  <2>3. AskedFor("FINANCIAL_RECONCILIATION")'
    BY <1>2, TodoAsks DEF Reconcile, AskedFor, Asked
  <2> QED BY <2>1, <2>2, <2>3, FrameWaits
<1>3. ASSUME NEW a, NotifyMerchant(a)
      PROVE  WaitInv'
  <2>1. /\ UNCHANGED <<work, stage, decision, reviewer, packages, events, resume, final>>
        /\ UNCHANGED <<tasks, finStatus>>
    BY <1>3 DEF NotifyMerchant
  <2>2. AskedFor("FINANCIAL_RECONCILIATION") => AskedFor("FINANCIAL_RECONCILIATION")'
    BY <2>1 DEF AskedFor, Asked
  <2> QED BY <2>1, <2>2, FrameWaits
<1>4. ASSUME NEW a, CloseCase(a)
      PROVE  WaitInv'
  <2>1. /\ ~verifying /\ work' = "CLOSED"
        /\ UNCHANGED <<stage, resume>>
    BY <1>4 DEF CloseCase, NoBlockers
  <2>2. stage' = 1 => resume' = "NONE"
    BY <2>1 DEF WaitInv, OutcomeInv, ResumeInv
  <2>3. Fits("NONE")'
    BY PlainFits
  <2> QED BY <2>1, <2>2, <2>3, PlainWork, ResumeFits
             DEF WaitInv, FitInv, ReviewInv, Plain, Collecting
<1> QED BY <1>1, <1>2, <1>3, <1>4 DEF MoneyStep

LEMMA AnyTimeWaits ==
  ASSUME WaitInv, AnyTimeStep
  PROVE  WaitInv'
<1>1. ASSUME UNCHANGED <<work, stage, decision, fileVars, eventVars, moneyVars>>,
             Stands(tasks, tasks')
      PROVE  WaitInv'
  <2>1. AskedFor("FINANCIAL_RECONCILIATION") => AskedFor("FINANCIAL_RECONCILIATION")'
    BY <1>1 DEF AskedFor, Asked, Stands, Waited
  <2> QED BY <1>1, <2>1, FrameWaits DEF Stands
<1>2. ASSUME NEW a, MonitorSLA(a)
      PROVE  WaitInv'
  <2>1. Stands(tasks, tasks')
    BY <1>2, SameStands, TodoStands DEF MonitorSLA
  <2> QED BY <1>1, <1>2, <2>1 DEF MonitorSLA
<1>3. ASSUME NEW a, NEW t, ResolveTask(a, t)
      PROVE  WaitInv'
  <2>1. t.type \notin Waited /\ tasks' = tasks \ {t}
    BY <1>3 DEF ResolveTask, Protected, Waited
  <2>2. Stands(tasks, tasks')
    BY <2>1 DEF Stands
  <2> QED BY <1>1, <1>3, <2>2 DEF ResolveTask
<1>4. ASSUME NEW a, NEW u, AssignCase(a, u)
      PROVE  WaitInv'
  BY <1>1, <1>4, SameStands DEF AssignCase
<1>5. ASSUME NEW a, DuplicateIntake(a)
      PROVE  WaitInv'
  BY <1>1, <1>5, SameStands DEF DuplicateIntake
<1>6. ASSUME Tick
      PROVE  WaitInv'
  BY <1>1, <1>6, SameStands DEF Tick
<1> QED BY <1>2, <1>3, <1>4, <1>5, <1>6 DEF AnyTimeStep

LEMMA StepWaits == TypeOK /\ OutcomeInv /\ WaitInv /\ [Next]_vars => WaitInv'
<1> SUFFICES ASSUME TypeOK, OutcomeInv, WaitInv, [Next]_vars
             PROVE  WaitInv'
  OBVIOUS
<1>1. CASE RuleStep \/ EvidenceStep \/ PackageStep \/ ChannelStep
  BY <1>1, RuleQuiet, EvidenceQuiet, PackageQuiet, ChannelQuiet, RuleWaits,
     EvidenceWaits, PackageWaits, ChannelWaits, QuietWaits
<1>2. CASE UNCHANGED vars
  <2>1. AskedFor("FINANCIAL_RECONCILIATION") => AskedFor("FINANCIAL_RECONCILIATION")'
    BY <1>2 DEF AskedFor, Asked, vars
  <2> QED BY <1>2, <2>1, FrameWaits DEF vars
<1> QED BY <1>1, <1>2, OutcomeWaits, MoneyWaits, AnyTimeWaits DEF Next

LEMMA InitWaits == Init => WaitInv
<1> SUFFICES ASSUME Init
             PROVE  WaitInv
  OBVIOUS
<1>1. /\ work \in {"TRIAGED", "RECEIVED"} /\ resume = "NONE" /\ reviewer = Nobody
  BY DEF Init, EntryWork
<1>2. Fits(work) /\ Fits(resume)
  BY <1>1 DEF Fits, AskedFor
<1> QED BY <1>1, <1>2 DEF WaitInv, FitInv, ReviewInv, Reviewed

(***************************************************************************)
(* Who approves what                                                        *)
(***************************************************************************)
\* A rejected report is not forgotten and a stage that is over does not return.
StaleStep ==
  /\ stage' \in {stage, stage + 1}
  /\ \A n \in DOMAIN events : n \in DOMAIN events' /\
       (events[n].verification = "REJECTED" => events'[n].verification = "REJECTED")

LEMMA SettledStale ==
  ASSUME NEW n \in DOMAIN events, Pending(n), NEW v, NEW next, NEW ts,
         Settle(n, v, next, ts)
  PROVE  \A m \in DOMAIN events : m \in DOMAIN events' /\
           (events[m].verification = "REJECTED" => events'[m].verification = "REJECTED")
<1>1. events' = [events EXCEPT ![n].verification = v]
  BY DEF Settle
<1> QED BY <1>1 DEF Pending

LEMMA EveryStepStale ==
  ASSUME TypeOK, [Next]_vars
  PROVE  StaleStep
<1>1. CASE RuleStep \/ EvidenceStep \/ PackageStep \/ ChannelStep
  BY <1>1, RuleQuiet, EvidenceQuiet, PackageQuiet, ChannelQuiet DEF Quiet, StaleStep
<1>2. CASE OutcomeStep
  <2>1. ASSUME NEW a, NEW report \in AllReports, NEW s, NEW corrects, NEW r, NEW c,
               RecordOutcome(a, report, s, corrects, r, c)
        PROVE  StaleStep
    <3>1. PICK new : events' = Append(events, new)
      BY <2>1 DEF RecordOutcome
    <3>2. \A n \in DOMAIN events : n \in DOMAIN events' /\ events'[n] = events[n]
      BY <3>1, AppendProperties, LenProperties DEF TypeOK, EventType
    <3>3. ApplyOutcome(report, r, c) \/ stage' = stage
      BY <2>1 DEF RecordOutcome
    <3> QED BY <3>2, <3>3, AppliedStage DEF StaleStep
  <2>2. ASSUME NEW a, NEW n \in DOMAIN events, NEW r, NEW c, ConfirmOutcome(a, n, r, c)
        PROVE  StaleStep
    <3>1. events[n] \in Event
      BY ElementOfSeq, LenProperties DEF TypeOK, EventType
    <3>2. PICK report \in AllReports : ApplyOutcome(report, r, c)
      BY <2>2, <3>1 DEF ConfirmOutcome, Event
    <3>3. Pending(n) /\ \E next, ts : Settle(n, "CONFIRMED", next, ts)
      BY <2>2 DEF ConfirmOutcome
    <3> QED BY <3>2, <3>3, AppliedStage, SettledStale DEF StaleStep
  <2>3. ASSUME NEW a, NEW n \in DOMAIN events, RejectOutcome(a, n)
        PROVE  StaleStep
    <3>1. Pending(n) /\ stage' = stage /\ \E next, ts : Settle(n, "REJECTED", next, ts)
      BY <2>3 DEF RejectOutcome
    <3> QED BY <3>1, SettledStale DEF StaleStep
  <2> QED BY <1>2, <2>1, <2>2, <2>3, Kinds
             DEF OutcomeStep, NextStage, EnterStage, ReopenCase, StaleStep
<1>3. CASE MoneyStep \/ AnyTimeStep \/ UNCHANGED vars
  BY <1>3 DEF MoneyStep, RecordFinancial, Reconcile, NotifyMerchant, CloseCase,
              AnyTimeStep, MonitorSLA, ResolveTask, AssignCase, DuplicateIntake, Tick,
              vars, StaleStep
<1> QED BY <1>1, <1>2, <1>3 DEF Next

LEMMA StaleStays ==
  ASSUME TypeOK, [Next]_vars, MayBeStale
  PROVE  MayBeStale'
<1>1. StaleStep /\ stage \in Nat
  BY EveryStepStale DEF TypeOK, RightsType
<1> QED BY <1>1 DEF StaleStep, MayBeStale

\* A review passes only where no package is live, a package is frozen only by
\* someone else, and neither changes otherwise.
LEMMA IndependenceStep ==
  ASSUME TypeOK, PackageFresh, WaitInv, IndependentApproval, [Next]_vars
  PROVE  IndependentApproval'
<1> DEFINE Independent(q) == /\ q.approver \in Supervisors \ {q.by}
                             /\ q.approver = reviewer => MayBeStale
<1>1. \A n \in DOMAIN packages : packages[n].status = "FROZEN" => Independent(packages[n])
  BY DEF IndependentApproval
<1>2. packages \in Seq(Package)
  BY DEF TypeOK, FileType
<1> SUFFICES ASSUME NEW n \in DOMAIN packages', packages'[n].status = "FROZEN"
             PROVE  Independent(packages[n])'
  BY DEF IndependentApproval
<1>3. CASE Invalidate
  BY <1>3, InvalidateRetires DEF Live
<1>4. CASE Passes
  <2>1. CASE MayBeStale
    BY <1>1, <1>4, <2>1, StaleStays DEF Passes
  <2>2. CASE ~MayBeStale
    <3>1. ~Reviewed
      BY <1>4, <2>2 DEF Passes, WaitInv, ReviewInv, Collecting
    <3>2. ~Live(packages[n])
      BY <1>4, <3>1 DEF Passes, PackageFresh
    <3> QED BY <1>4, <3>2 DEF Passes, Live
  <2> QED BY <2>1, <2>2
<1>5. CASE Builds
  <2>1. PICK new : packages' = Append(packages, new) /\ new.status = "DRAFT"
    <3> DEFINE p(a) == [status |-> "DRAFT", version |-> version, stage |-> stage,
                        index |-> EvidenceIndex, rule |-> rule, by |-> a,
                        approver |-> Nobody]
    <3>1. \A a : p(a).status = "DRAFT"
      OBVIOUS
    <3>2. \E a \in Actors : packages' = Append(packages, p(a))
      BY <1>5 DEF Builds
    <3> HIDE DEF p
    <3> QED BY <3>1, <3>2
  <2>2. n \in DOMAIN packages /\ packages'[n] = packages[n]
    <3>1. n \in 1..Len(packages) + 1
      BY <1>2, <2>1, AppendProperties, LenProperties
    <3>2. n # Len(packages) + 1
      BY <1>2, <2>1, AppendProperties
    <3> QED BY <1>2, <2>1, <3>1, <3>2, AppendProperties, LenProperties
  <2> QED BY <1>1, <1>5, <2>2, StaleStays DEF Builds
<1>6. CASE Freezes
  <2>1. PICK p \in DOMAIN packages, a \in Supervisors :
          /\ a \notin {reviewer, packages[p].by}
          /\ packages' = [packages EXCEPT ![p].status = "FROZEN", ![p].approver = a]
    BY <1>6 DEF Freezes
  <2>2. packages[p] \in Package
    BY <1>2, ElementOfSeq, LenProperties
  <2>3. CASE n = p
    <3>1. packages'[n].approver = a /\ packages'[n].by = packages[p].by
      BY <2>1, <2>2, <2>3 DEF Package
    <3> QED BY <1>6, <2>1, <3>1 DEF Freezes
  <2>4. CASE n # p
    <3>1. n \in DOMAIN packages /\ packages'[n] = packages[n]
      BY <2>1, <2>4
    <3> QED BY <1>1, <1>6, <3>1, StaleStays DEF Freezes
  <2> QED BY <2>3, <2>4
<1>7. CASE Voids
  <2>1. PICK p \in DOMAIN packages : packages' = [packages EXCEPT ![p].status = "INVALIDATED"]
    BY <1>7 DEF Voids
  <2>2. packages[p] \in Package
    BY <1>2, ElementOfSeq, LenProperties
  <2>3. n # p
    BY <2>1, <2>2 DEF Package
  <2>4. n \in DOMAIN packages /\ packages'[n] = packages[n]
    BY <2>1, <2>3
  <2> QED BY <1>1, <1>7, <2>4, StaleStays DEF Voids
<1>8. CASE UNCHANGED fileVars
  BY <1>1, <1>8, StaleStays
<1> QED BY <1>3, <1>4, <1>5, <1>6, <1>7, <1>8, EveryStepFiles DEF FileStep

(***************************************************************************)
(* The theorems                                                             *)
(***************************************************************************)
\* In every reachable case the present status, and in the first stage the one a
\* rejection would bring back, fits the tasks, the decision and the review.
THEOREM StatusesFit == Spec => []WaitInv
BY InitWaits, StepWaits, TypeCorrect, OutcomesHold, PTL DEF Spec

\* A case never waits on work nobody is asked to do, unless its status may be the
\* stale one a rejection brings back in a later stage.
THEOREM WaitingAlwaysAsked == Spec => []WaitingIsAsked
<1>1. WaitInv => WaitingIsAsked
  BY DEF WaitInv, FitInv, Fits, WaitingIsAsked
<1> QED BY <1>1, StatusesFit, PTL

\* Whoever froze a package neither built it nor passed the review it rests on, for
\* any people, assignments and retries, with the same exception.
THEOREM ApprovalIsIndependent == Spec => []IndependentApproval
<1>1. Init => IndependentApproval
  BY DEF Init, IndependentApproval
<1>2. TypeOK /\ PackageFresh /\ WaitInv /\ IndependentApproval /\ [Next]_vars
        => IndependentApproval'
  BY IndependenceStep
<1> QED BY <1>1, <1>2, TypeCorrect, PackagesAreFresh, StatusesFit, PTL DEF Spec
=============================================================================
