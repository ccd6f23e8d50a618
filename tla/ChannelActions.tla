---------------------------- MODULE ChannelActions ----------------------------
(***************************************************************************)
(* The commands that turn reviewed evidence into a package, have it approved *)
(* by someone else, and put it (or an acceptance) to the upstream, whose     *)
(* answer may be lost.                                                       *)
(***************************************************************************)
EXTENDS ContestActions

Package == [status: PackageStatus, version: Nat, stage: 1..MaxStage,
            index: UNION {[S -> Evidence] : S \in SUBSET Items},
            rule: Rules, by: Actors, approver: People \union {Nobody}]

\* BUILD_PACKAGE: the agent may draft too.
BuildPackage(a) ==
  /\ a \in Staff \union Agents
  /\ Len(packages) < MaxPackages
  /\ ContestReady
  /\ work \in {"READY_TO_SUBMIT", "DOCUMENT_REVISION_REQUIRED"}
  /\ Reviewed /\ EvidenceReady
  /\ packages' = Append(packages,
       [status |-> "DRAFT", version |-> version, stage |-> stage,
        index |-> EvidenceIndex, rule |-> rule, by |-> a,
        approver |-> Nobody])
  /\ submissions' = Append(submissions, NoReceipt)
  /\ work' = "SUBMISSION_PENDING_CONFIRMATION"
  /\ tasks' = Todo(Done(tasks, {"DOCUMENT_REVISION"}, stage),
                   "FINAL_REVIEW", stage)
  /\ preparers' = preparers \union {a}
  /\ UNCHANGED <<rightsVars, version, evidence, reviewer, assigned,
                 acceptances, eventVars, moneyVars>>

\* A slip: only the present handler counts as involved.
InvolvedNow == {assigned}

\* package_preparers: who may not approve.
Involved == preparers \union {assigned} \union
            {packages[n].by : n \in DOMAIN packages}

\* A slip: any current package may be approved.
ApprovableCurrent(p) == Current(packages[p])

Approvable(p) == Current(packages[p]) /\ packages[p].status = "DRAFT"

\* _on_approve_package, reached by APPROVE_PACKAGE (whose gate asks for the
\* evidence once more) and by FINAL_REVIEW with decision APPROVE.
ApprovePackage(a, p) ==
  /\ a \in Supervisors
  /\ ContestReady
  /\ work = "SUBMISSION_PENDING_CONFIRMATION"
  /\ Reviewed
  /\ reviewer # a
  /\ Approvable(p)
  /\ a \notin Involved
  /\ packages' = [packages EXCEPT ![p].status = "FROZEN", ![p].approver = a]
  /\ work' = "READY_TO_SUBMIT"
  /\ tasks' = Done(tasks, {"FINAL_REVIEW"}, stage)
  /\ UNCHANGED <<rightsVars, version, evidence, reviewer, peopleVars,
                 channelVars, eventVars, moneyVars>>

\* FINAL_REVIEW with any other decision.
FinalReturn(a, p, verdict) ==
  /\ a \in Supervisors
  /\ ContestReady
  /\ work \in {"SUBMISSION_PENDING_CONFIRMATION", "ON_HOLD"}
  /\ Current(packages[p])
  /\ LET ts == Done(tasks, {"FINAL_REVIEW", "ESCALATION_HOLD"}, stage)
     IN \/ /\ verdict = "RETURN_MATERIALS"
           /\ Invalidate
           /\ work' = "MERCHANT_REVISION_REQUIRED"
           /\ tasks' = Todo(Done(InvalidatedTasks,
                                 {"FINAL_REVIEW", "ESCALATION_HOLD"}, stage),
                            "REVISION", stage)
        \/ /\ verdict # "RETURN_MATERIALS"
           /\ packages' = [packages EXCEPT ![p].status = "INVALIDATED"]
           /\ UNCHANGED <<version, reviewer>>
           /\ \/ /\ verdict = "RETURN_DOCUMENT"
                 /\ work' = "DOCUMENT_REVISION_REQUIRED"
                 /\ tasks' = Todo(ts, "DOCUMENT_REVISION", stage)
              \/ /\ verdict = "RECOMMEND_ACCEPT"
                 /\ work' = "ACCEPT_RECOMMENDATION"
                 /\ tasks' = Todo(ts, "ACCEPT_DECISION", stage)
              \/ /\ verdict = "HOLD"
                 /\ work' = "ON_HOLD"
                 /\ tasks' = Todo(ts, "ESCALATION_HOLD", stage)
  /\ UNCHANGED <<rightsVars, evidence, peopleVars, channelVars, eventVars,
                 moneyVars>>

(***************************************************************************)
(* Requests to the upstream                                                 *)
(***************************************************************************)
\* _mock_attempt: what one attempt leaves in the receipt.
Attempt(sc) ==
  [scenario   |-> sc,
   acceptance |-> CASE sc = "ACCEPTED"          -> "MOCK_ACCEPTED"
                    [] sc = "BUSINESS_REJECTED" -> "MOCK_REJECTED"
                    [] OTHER                    -> "UNKNOWN",
   retry      |-> FALSE]

\* Once sent, the case waits for the upstream or must first ask what happened.
Await(accepted) ==
  IF accepted
    THEN work' = "WAITING_UPSTREAM"
    ELSE work' = "SUBMISSION_UNCERTAIN"

\* The gate looks at the newest package of the stage, whichever is submitted.
NewestFrozen ==
  LET mine == {n \in DOMAIN packages : packages[n].stage = stage}
  IN \E n \in mine : /\ \A m \in mine : m <= n
                     /\ packages[n].status = "FROZEN"

\* A slip: what was chosen is trusted to be the newest package.
SendableCurrent(p) == Current(packages[p])

Sendable(p) == Current(packages[p]) /\ packages[p].status = "FROZEN"

\* SUBMIT: send package p, again only once a query allowed a retry.
Submit(a, p, sc) ==
  /\ a \in Staff
  /\ ContestReady
  /\ work = "READY_TO_SUBMIT"
  /\ Reviewed /\ EvidenceReady
  /\ NewestFrozen
  /\ Sendable(p)
  /\ submissions[p] # NoReceipt => submissions[p].retry
  /\ submissions' = [submissions EXCEPT ![p] = Attempt(sc)]
  /\ Await(sc = "ACCEPTED")
  /\ tasks' = IF sc = "ACCEPTED" THEN tasks
                                 ELSE Todo(tasks, "SUBMISSION_QUERY", stage)
  /\ UNCHANGED <<rightsVars, fileVars, peopleVars, acceptances, eventVars,
                 moneyVars>>

\* What a query may truthfully answer about a request.
Answers(sc) ==
  CASE sc = "RESPONSE_LOST" -> {"ACCEPTED", "UNKNOWN"}
    [] sc \in {"TECHNICAL_FAILURE", "BUSINESS_REJECTED"} ->
         {"NOT_ACCEPTED", "UNKNOWN"}
    [] OTHER -> {"ACCEPTED", "NOT_ACCEPTED", "UNKNOWN"}

\* What the answer of a query makes of the receipt.
Queried(r, answer) ==
  [r EXCEPT !.retry = (answer = "NOT_ACCEPTED"),
            !.acceptance = CASE answer = "ACCEPTED" -> "MOCK_ACCEPTED"
                             [] answer = "NOT_ACCEPTED" -> "MOCK_NOT_ACCEPTED"
                             [] OTHER -> @]

\* A slip: a request already accepted may be queried again.
QueryableAlways(r) == r.scenario # "NONE"

\* An attempt was made and it is not known to be accepted.
Queryable(r) == r.scenario # "NONE" /\ r.acceptance # "MOCK_ACCEPTED"

\* How the answer moves the case; back is where a refused request is redone.
Answered(answer, back) ==
  /\ work' = CASE answer = "ACCEPTED"     -> "WAITING_UPSTREAM"
               [] answer = "NOT_ACCEPTED" -> back
               [] OTHER                   -> work
  /\ tasks' = CASE answer = "ACCEPTED" ->
                     Done(tasks, {"SUBMISSION_QUERY", "ACCEPT_PROCESSING"},
                          stage)
                [] answer = "NOT_ACCEPTED" ->
                     Done(tasks, {"SUBMISSION_QUERY"}, stage)
                [] OTHER -> tasks

\* QUERY_SUBMISSION names any request of the case, a package's...
QuerySubmission(a, p, answer) ==
  /\ a \in Staff
  /\ work = "SUBMISSION_UNCERTAIN"
  /\ Queryable(submissions[p])
  /\ answer \in Answers(submissions[p].scenario)
  /\ submissions' = [submissions EXCEPT ![p] = Queried(@, answer)]
  /\ Answered(answer, "READY_TO_SUBMIT")
  /\ UNCHANGED <<rightsVars, fileVars, peopleVars, acceptances, eventVars,
                 moneyVars>>

\* ... or an acceptance's.
QueryAcceptance(a, k, answer) ==
  /\ a \in Staff
  /\ work = "SUBMISSION_UNCERTAIN"
  /\ Queryable(acceptances[k].receipt)
  /\ answer \in Answers(acceptances[k].receipt.scenario)
  /\ acceptances' = [acceptances EXCEPT ![k].receipt = Queried(@, answer)]
  /\ Answered(answer, "ACCEPT_PROCESSING")
  /\ UNCHANGED <<rightsVars, fileVars, peopleVars, submissions, eventVars,
                 moneyVars>>

\* A slip: a request that was refused no longer counts.
OpenRequests ==
  {k \in DOMAIN acceptances :
     /\ acceptances[k].stage = stage /\ acceptances[k].auth = auth
     /\ acceptances[k].receipt.acceptance # "MOCK_NOT_ACCEPTED"}

\* The request made for the authorization in force, if any.
PreviousRequests ==
  {k \in DOMAIN acceptances :
     acceptances[k].stage = stage /\ acceptances[k].auth = auth}

\* PROCESS_ACCEPT: carry out the acceptance the current decision authorizes,
\* by a request to the channel or, mode NO_ACTION_REQUIRED, without one.
ProcessAccept(a, mode, sc) ==
  /\ a \in Staff
  /\ RuleReady /\ clock # "EXPIRED"
  /\ work = "ACCEPT_PROCESSING"
  /\ decision \in {"ACCEPT", "AUTHORIZED_WAIVER"} /\ "ACCEPT" \in rule.allowed
  /\ LET done    == mode = "NO_ACTION_REQUIRED" \/ sc = "ACCEPTED"
         Sent(r) == IF mode = "MOCK"
                      THEN Attempt(sc)
                      ELSE [r EXCEPT !.acceptance = "NO_ACTION_REQUIRED"]
     IN /\ \/ /\ PreviousRequests = {}
              /\ acceptances' = Append(acceptances,
                   [stage |-> stage, auth |-> auth, receipt |-> Sent(NoReceipt)])
           \/ \E k \in PreviousRequests :
                /\ acceptances[k].receipt.retry
                /\ acceptances' = [acceptances EXCEPT ![k].receipt = Sent(@)]
        /\ Await(done)
        /\ tasks' = IF done THEN Done(tasks, {"ACCEPT_PROCESSING"}, stage)
                            ELSE Todo(tasks, "SUBMISSION_QUERY", stage)
  /\ UNCHANGED <<rightsVars, fileVars, peopleVars, submissions, eventVars,
                 moneyVars>>
=============================================================================
