# A verification project for OceanPilot EvidenceOS

OceanPilot EvidenceOS handles card disputes: an upstream (a card scheme or an
acquirer) disputes a payment, the merchant accepts or contests, staff collect
and review evidence, send a package, receive an outcome, reconcile the money
and close the case. This directory models in TLA+ the parts of it that decide
what may happen to a case and what people are told about it, checks them with
TLC on small instances, and proves with TLAPS, for instances of any size, what
matters most.

Paths below are relative to `src/oceanpilot/` of the repository unless they
begin with `docs/`.

## 1. The system

| Part | Where | State it keeps | Operations | Talks to |
|---|---|---|---|---|
| Dispute command engine | `application/disputes.py`, `domain/dispute.py`, `domain/dispute_actions.py` | one JSON aggregate per case | about thirty commands, each a gate (`action_gate`) and a handler (`_on_<command>`) | the store (inside its transaction), the rule catalogue, observers after the commit |
| Atomic command store | `adapters/persistence/disputes.py` | SQLite tables: snapshots, command receipts, upstream events, upstream links, audit | `execute_atomic`, reads | the engine's handler, as a callback in the transaction |
| Scheme rules and plan | `domain/dispute_rules.py`, `domain/dispute_actions.py` | constant catalogue | `match_rule`, the plan of a case | intake, a new stage, the agent, the pages |
| Normalized inbox | `application/dispute_intake.py`, `adapters/persistence/dispute_intake.py` | inbox events with their attempts | receive, retry; prepare, execute, finish | sends commands to the engine |
| Feishu adapter and outbox | `adapters/channels/feishu/v2.py`, `outbox.py` | callback receipts, cards to deliver and their delivery state | callbacks, previews, claims, sends | Feishu over HTTP; callbacks become commands |
| Private chats | `adapters/channels/feishu/private_cases.py` | pairs, links, buttons, messages, in a database of its own | pairing, the two presses of a decision, notices, a worker | the engine, Feishu |
| Agent and event scheduler | `application/dispute_agent.py`, `application/dispute_agent_events.py` | runs, conversations; pending and running maps in memory | observe, schedule, drain, answer, propose | reads cases, calls a remote model |
| Collaboration | `application/dispute_collaboration.py`, `evidence_documents.py` | threads, handoffs, evidence files, in a database of its own | post, handoffs, escalation on a tick, uploads | the engine registers files, and reads open handoffs before CLOSE |
| Update feed, accounts, pages | `adapters/persistence/dispute_updates.py`, `dispute_identity.py`, `application/dispute_access.py`, `web/v2/app.js`, `collaboration.js` | cursors over four tables, users and sessions, what a page shows | poll, read again, mark read, login, disable | each other, over HTTP |
| V1 diagnosis | `application/case_service.py`, `adapters/persistence/sqlite.py`, `domain/evidence_policy.py` | incidents, evidence, diagnoses, audit trail | create, add evidence, diagnose, show | its own API |
| V1 chargeback workspace | `application/workspace.py`, `chargeback_*.py`, `case_agent.py`, `domain/chargeback.py` | chargeback cases, materials, concerns, reviews, summaries, network rules | workspace commands, turns, proposals, channel requests | shares its tables with the V1 channel |
| Everything else | knowledge library, simulation, views, model adapters, HTTP routers | reference data or nothing | lookups, rendering | |

`PROJECT.json` lists every component with its sources, its modules, whether it
is modelled and what was left out of it.

What makes it hard:

* *Any order.* A command is accepted if its gate passes on the aggregate as it
  is. Thirty commands by five kinds of people interleave freely, over several
  stages of one dispute, so an approval, a review, a reconciliation or a pending
  report can always become stale before it is used.
* *History as state.* Who prepared a package is searched in the audit trail,
  tasks belong to a stage, reports to a verification that may come much later.
* *An unreliable upstream.* Attempts time out, answers are lost, queries answer
  late, reports arrive out of order and are corrected.
* *Unreliable clients.* Commands are resent with the same identifier, the same
  upstream event comes under several identifiers, two people write from one
  revision, the process dies between any two statements.
* *Several databases.* The engine, the chats and the collaboration each commit on
  their own, and observers run after a commit, in any order.
* *Readers behind.* Pages, chats and analyses show or use a revision that may be
  over when they are acted upon.

What makes each part correct:

* engine: nothing outdated is approved, sent, settled or closed; duties are
  separate; one authorization leads to one request; a case never waits for
  something nobody is asked to do; the plan and the agent advise what the gates
  accept;
* store: a command takes effect at most once, only on the revision its author
  saw, and an acknowledged effect stays; the database never stays locked;
* clients of the engine (inbox, callbacks, chats): what is to be done is written
  down first, is done once, and what is reported is what happened; a decision is
  made on what its person was shown;
* desk (handoffs, files, observers, analyses, questions): nothing is escalated or
  registered twice, notices and review feedback are each in order, analyses advance
  and a question has one reply, the last critical change is analysed;
* feed and pages: a page that has fallen silent shows the present;
* diagnosis: an answer is about one moment, a case counts as diagnosed on its
  present evidence, the trail tells every change;
* workspace: what is approved is what the reviewer saw, confirmed facts stand,
  summaries are of the case they name.

## 2. The modules

Indentation is EXTENDS unless said otherwise.

```
CaseState            the fields of the aggregate, tasks, evidence, _invalidate
  ContestActions       rules, publishing, decisions, rights, evidence, review
    ChannelActions       packages, four-eyes approval, submission, acceptance
      OutcomeActions       reports, verification, stages, money, closing, tasks
        DisputeCase          Init, Next, Spec, assumptions, properties
          CasePlan             gates as offered, plan, findings, proposals, advice
            MCDisputeCase        reports and sub-specifications for TLC
          DisputeCaseProofs    the properties of a case, and what they rest on
            PlanProofs           (and CasePlan) plan, proposals, advice

CaseLedger           what the store promises
  CommandStore         workers, transactions, tables; INSTANCEs CaseLedger
    MCCommandStore, CommandStoreProofs

EngineView           the engine as its clients see it: a ledger of commands
  IntakeInbox, FeishuCallbacks     the inbox; callbacks and outbox
    ClientPaths          both, and (INSTANCE) the private chats, on one engine
      MCClientPaths
      ClientProofs
  PrivateLinks         accounts, pairs, links
    PrivateCases         buttons, messages, decisions in the chats
  Collaboration        messages, handoffs, escalation, files
    AgentEvents          observers, notices, scheduling, analyses
      AgentQuestions       messages that ask the agent, and its replies
        CaseDesk             all around one case, with closing and restart
          MCCaseDesk, DeskProofs

CaseFeed             rows, cursors, scopes, accounts
  CaseScreens          the pages that follow the feed
    MCCaseScreens, ScreenProofs

ChargebackCases      the row of a chargeback case and the channel's requests
  Assessment           the gate and the phase made of it
RuleBook             the catalogue of network rules
  ReviewWorkspace      (and Assessment) commands, turns, reviews, summaries
    MCReviewWorkspace, WorkspaceProofs

EvidencePolicy       the fold of evidence, readiness, the rules
  DiagnosisCases       the requests that add evidence and diagnose
    MCDiagnosisCases, DiagnosisProofs
```

### 2.1 DisputeCase: one case, one command per step

A step is one committed command. That is justified by the store: the handler
runs on the snapshot inside the transaction, so commands on a case are
sequential and atomic; `CommandStore` shows it. An action is the gate from
`dispute_actions.py`, the handler, and the bookkeeping they share (task
synchronisation, the audit entry). Actions carry the names of the commands:
`CONFIRM_RULE` is `ConfirmRule`, `REVIEW_EVIDENCE_CONTENT` is `ReviewContent`,
`RESOLVE_RESPONSE` is `RestoreRights` and `GiveUpRights`, `VERIFY_OUTCOME` is
`ConfirmOutcome` and `RejectOutcome`, `FINAL_REVIEW` is `FinalReturn` (and
`ApprovePackage` when it approves), `QUERY_SUBMISSION` is `QuerySubmission` and
`QueryAcceptance`. `Tick` is time passing.

| Variable | Field of the aggregate |
|---|---|
| `stage`, `work`, `decision`, `eligibility` | `stage_number`, `work_status`, `merchant_decision`, `eligibility_status` |
| `rule`, `clock` | `rule_snapshot`, and where now stands among the deadlines it sets |
| `auth` | number of recorded decisions: names the authorization an acceptance carries |
| `version`, `evidence`, `reviewer` | `evidence_version`, `evidence`, the actor of the valid PASS review |
| `packages`, `submissions`, `acceptances` | the lists of the same names; receipts as `_mock_attempt` leaves them |
| `preparers`, `assigned` | the audit entries `package_preparers` looks for, `assigned_op_user_id` |
| `tasks` | the open tasks, by type and stage |
| `events`, `outcome`, `final`, `outcomeVersion`, `verifying`, `resume` | `upstream_events`, `business_outcome`, `finality`, `outcome_version`, `outcome_verification_required`, `verification_resume_status` |
| `pendingNext`, `reopened` | `pending_next_stage`, `reopened_for_correction` |
| `ledger`, `recorders`, `finStatus`, `recon`, `notice`, `notified` | `financial_version`, who recorded, `financial_status`, what the last reconciliation and notification cover |

Data the properties do not tell apart is left out: amounts, texts, file names,
references. A rule is whether it is verified, which rights it allows and which
evidence it requires. Time is four positions among the deadlines (`EARLY`,
`DUE`, `LATE`, `EXPIRED`), passing several at once; the internal deadline is not
followed. The automatic content check returns any of its results. Tasks are open
or gone. The mock upstream answers with any scenario. Comments, messages and
knowledge candidates are left out because no guard of a modelled command reads
them.

`CasePlan` adds operators only, over the same state: the gate as it is offered to
a role (`Gate`), what the plan says is next, by whom and by when, the findings,
the proposals with the guard of their confirmation (`Confirmable`), the message
to the merchant and the answers of `converse`.

### 2.2 CommandStore: many workers, one database

`DisputeService.execute` builds the keys of a command, and
`DisputeStore.execute_atomic` runs it: `Acquire` is `BEGIN IMMEDIATE`,
`ReplayCommand` and `ReplayEvent` the two ways of finding that it was done,
`Apply` the handler and the four writes, `Refuse` every refusal (conflict, stale
revision, unknown case, and the handler's own), `StorageFails` an sqlite error,
`Commit` the commit, `Respond` and `LoseAnswer` what the client sees, `Busy` the
lock timeout, `Crash` the death of the process with everything uncommitted
undone by the journal. A snapshot is the list of commands in its audit list; its
length is the revision. What a command does to the case is `DisputeCase`.

`CaseLedger` is the promise: each case has a log, a command takes effect once
and only on the revision its author named, one upstream event takes effect once
whatever identifiers it comes under, and an answer names an entry of the log
that is the command or reported the same event with the same content.
`CommandStore` implements it with `log <- db.snapshot`: tables, lock, workers
and drafts are hidden, and every step but `Commit` of an applied command and
`Respond` is a stutter.

### 2.3 The clients: ClientPaths

`EngineView` is the engine to a client: a ledger of the commands that took effect
on each case, an answer that repeats for a repeated identifier, a conflict for
other content, and a refusal of a stale revision. That is what `CommandStore`
provides, and each client's command to it is one step.

`IntakeInbox` has a row and the tries of each source event (`inbox`), and what
each thread is doing (`work`): `Receive` and `RetryEvent` begin, `Prepare` writes
the command down, `Dispatch` runs it, `Finish` saves the result. What `_validate`
compares of merchant and payment is one fact: the registry agrees or not.

`FeishuCallbacks` has the receipts of callbacks with their frozen command, the
rows of the outbox, what each handler and each sender is doing, and the messages
Feishu shows (`chat`, external). A redelivery finds the frozen command. A send is
`Check`, `Claim`, `Call` outside any transaction, `SaveResult`; a claim older than
a minute may be taken over.

`PrivateLinks` and `PrivateCases` are the chats of merchants: pairing, linking and
unlinking, buttons (`tokens`), outgoing messages (`jobs`), what the chats show,
the press in the middle of a decision (`call`) and the worker. The click runs
inside one transaction of the bot while the engine commits in its own database,
so `ExecuteDecision` and `FinishDecision` are two steps with a crash between.
Confirming and opening the channel are not mounted by the application and left
out.

`ClientPaths` joins them on one ledger with others working on the cases, and a
crash of the process. A behaviour follows the chats or the other two
(`followed`): the chats share nothing with the inbox and the callbacks but the
ledger, which `OthersStep` moves for either.

### 2.4 The desk: CaseDesk

`Collaboration` is the journal of a case (messages and handoffs), the scan that
reads a snapshot and escalates or reminds in a later transaction, and uploads:
`BeginUpload`, `StoreFile`, `EndUpload` and the registration with the engine are
steps of their own over two databases; a document may be read anew and may
replace another. `AgentEvents` is what follows a commit: `ReadAgain`,
`CopyNotice`, `Observe`, `Schedule`, then the pool's `_drain` with its maps, the
checks of the revision before and after the model call, saving and publishing.
An observer copies as `observe_business` does
(`application/dispute_collaboration.py:107`): all public notices of the revision it
read and then all public review feedback (`Sooner`), each in a transaction of its
own. `AgentQuestions` is a message with `ask_agent`, in the thread of its request:
the message is posted, the case read, the model asked between two checks of the
revision, then the conversation saved, the reply published and the case perhaps
handed over, with no further look at the revision. It writes the journal the pool
writes, and neither waits for the other. `CaseDesk` adds other commands, closing
against open handoffs, repeats and restart.

Left out: one of the two journals; withdrawing a file; the copying of all cases when
the process starts (`api/dispute_collaboration.py:101`), which does what an observer's
copying does before anything is served, and neither observes nor schedules. A question
that Feishu delivers is answered from the frozen plan
(`adapters/channels/feishu/v2.py:675`) and is in `FeishuCallbacks`: its reply tells
the revision of its callback whenever that is resumed, and `AnswersAdvance` says
nothing of it.

### 2.5 Feed and pages: CaseScreens

`CaseFeed` has the four tables as sequences of rows in the order of their rowid,
the participants and accounts, and the cursor a reader gets: the highest row of
each table it may see. `CaseScreens` is the loop of `app.js`: poll, read again
what changed, and only then move the cursor; a user or a thread may start a
reading at any time, only the newer of two is shown, and the screen of a case is
put together from three requests. Each request is answered at one moment. The
first reading of `openCase`, the polling of `refreshAgent`, queue predicates and
paging are left out. Readers are checked one page at a time.

### 2.6 Chargeback workspace: ReviewWorkspace

`ChargebackCases` has the row with the revision each evidence code was added at,
and the channel's load, change and save without a revision check. `Assessment`
computes the gate and the phase, `RuleBook` the rule of a network and reason as
releases replace the catalogue. `ReviewWorkspace` runs every workspace command
against the revision its client saw, repeated at will; concerns; reviews by form
or by a proposal of the agent, confirmed in a transaction later than the reads it
rests on (`BeginConfirm`, `Confirm`); the turns that open a case; and summaries.
Turns that propose nothing, the change of a network inside a turn, and
monitoring are left out; rule rows never return to an earlier edition; there is
one case.

### 2.7 Diagnosis: DiagnosisCases

`EvidencePolicy` folds evidence into one slot per code, says whether it is
enough, and evaluates the rules. `DiagnosisCases` serves requests by threads:
each read is a transaction (`LoadForEvidence`, `LoadForDiagnosis`, `FindDiagnosis`,
`ReloadForDiagnosis`), each write one that compares revisions (`AppendEvidence`,
`CommitDiagnosis`), with replays, retries, an unavailable database and a release
of another policy. Identifiers are numbers compared as the UUIDs are; evidence
added over HTTP is USER_REPORTED.

## 3. The runs

| Run | What it asks | Bounds |
|---|---|---|
| `contest` | all commands on a contest in its first stage, and the contest of a second stage against the evidence of the first: freshness, four eyes, waiting, proposals | one merchant, two supervisors (symmetric), one item and code, checks SUPPORTED and NEEDS_MANUAL; three evidence versions from the start and two more in the second stage; 2 packages, 2 decisions |
| `end` | deadlines, rights and the acceptance path; reports, verification, stages, money, closing; advice | one merchant, operator, supervisor, the agent; all clock positions; four scenarios; six shapes of report, 2 events, 1 ledger entry, 2 stages |
| `store` | replay, conflicts, crashes, refinement, progress | two workers; three notices of one upstream case, two of them of the same event; one report, one change; revisions 0 to 3; 2 remembered answers |
| `clients` | the inbox, callbacks and chats on one engine | 2 threads, 2 handlers, 2 senders, 2 operators; three source events, a click, a typed decision, a query, a preview; one account and chat |
| `desk` | handoffs, files, observers, analyses and questions around one case | three handoff requests, two questions, four uploads, 2 observers, 2 workers, 3 revisions; a command that leaves a notice and one that leaves review feedback; eight loads: people and the scan, people and other commands, uploads, observers and the pool, a user's run, repeats, a question beside observers and the pool, two questions |
| `workspace` | commands, channel, turns, summaries and rules on one case | two reasons, two networks, two codes, 2 clients, three releases of the rules |
| `diagnosis` | requests that add evidence and diagnose at once | 2 threads, 4 requests, seven items to add, two policy versions |
| `feed` | pages that follow the feed | two cases, three users, nine mixes of changes |
| `blind_retry`, `orphan_task`, `stale_status`, `skipped_message` | four statements of the repository the code does not keep (section 5) | as small as the counterexample needs |

Why the bounds are enough. Each hazard needs few things to go wrong: a second
package to confuse with the first, a second supervisor to be independent, a
second pending report, a second stage, a second thread with an old copy. Evidence
versions only grow and are only compared for equality with the present one; a
few let something be reviewed, packaged, changed and redone. The configurations
`contest` and `end` use sub-specifications of `Spec` (in `MCDisputeCase`) that
leave out commands the other one covers; what they check of `DisputeCase` is
proved of the whole `Spec` and for all bounds. Where actors of different kinds would only
multiply each other's states, a module takes a set of loads (`Loads`,
`ChatLoads`, `Mixes`): a behaviour follows one of them, which bounds how often
each kind of step happens, and the union of the loads pairs every kind with the
ones it shares state with. The bounds stand in guards: `MaxVersion`,
`MaxPackages`, `MaxDecisions`, `MaxEvents`, `MaxLedger`, `MaxStage` (the case),
`MaxAnswers`, `MaxRevision` (how far cases go), `MaxAttempts` (tries at an inbox
event: a failed or refused try and another), `MaxSends` (attempts at a delivery:
one that is taken over and one that takes over), `MaxOthers`, `MaxTime` (due
times of follow-ups: before and after an escalation), `MaxCalls` (two requests
of each thread).

Properties. Of `DisputeCase`: `PackageFresh` (a usable package shows the reviewed
evidence and the rule in force), `ReviewFresh`, `IndependentApproval` (whoever
froze a package neither built it nor passed its review), `SentWasApproved`,
`WaitingIsAsked` (a case that waits has an open task no supervisor can wave away,
or what the person needs), `ContestHasRights`, `OneAcceptance`,
`OutcomeIsCurrent`, `PendingHasTask`, `FinalStopsWork`, `ClosedSettled`; of its
steps `ChangesInvalidate`, `AcceptedIsFinal`. Of `CasePlan`: `ProposalsWork` (the
agent always has something to propose, its owner can confirm it, and the engine
takes it), `AdviceAgrees` (the step planned is possible, and a merchant told to
wait is not the one it waits for). Of `CommandStore`: `AnswersStand`,
`OneCasePerUpstream`, `Implements` (the refinement), `WritesResume`. Of
`ClientPaths`: `InboxIsTrue`, `TriesStand`, `AnsweredIsDecided`, `OneDelivery`,
`OneEffect`, `ShownBeforeDecided`, `InactiveIsInert`, `DoneIsDecided`. Of
`CaseDesk`: `EscalatedOnce`, `FilesOnce`, `NoticesInOrder` (each notice and each
review feedback once, either kind in its order and without a gap, and no feedback
before the notices up to its review), `AnswersAdvance` (no analysis of the pool
follows one about a newer revision, only a user has a revision analysed again, a
question has one reply, below it and about no older revision than it tells),
`LastChangeAnalysed`. Of `ReviewWorkspace`: `ApprovedAsSeen`,
`ConfirmedFactsStand`, `SummariesCurrent`. Of `DiagnosisCases`:
`AnswersAreMoments`, `DiagnosisIsWarranted`, `WritesAreSound`, `TrailTells`. Of
`CaseScreens`: `NothingMissed`.

Two say less than a reader might hope, because the code does less. `NoticesInOrder`
lets a notice stand before the feedback of an earlier review, as an observer that
reads two revisions at once copies the notices first. `AnswersAdvance` orders the
replies to questions against their questions only: a reply may come after an
automatic analysis of a newer revision (section 5).

Some name an exception the code makes necessary. `IndependentApproval`,
`WaitingIsAsked`, `ProposalsWork` and `AdviceAgrees` say nothing of a later stage of
a case in which a report was rejected (`MayBeStale`): there the code may bring back
the status of the stage before, which run `stale_status` shows. The last two also
exempt (`InPlace`) a case that is READY_TO_SUBMIT although nothing is reviewed,
because the request of a replaced package was queried. And the one who is to take the
planned step may hear from the gate (`Understood`) that time is up, that everybody
has worked on the case, that tasks are left open, that the plan overrode the
status table, that the only account of the role gave the files it is to read itself,
that an applicable file is INSUFFICIENT, or that a later draft was built since.
Both ask nothing of a role that has no account. `NothingMissed` exempts a page
whose user's own reading failed, or was overtaken by one of the feed's that
failed, and was not repeated (`failed`): the loop may have moved its cursor for
the reading the user's superseded (`app.js:1541`). And it asks nothing of the
similar cases an operator is shown (`ShowsAgent`): being brought into one leaves
no row of the case whose page lists it.

Definitions commented as a slip are plausible mistakes in the code (a forgotten
reset, a dropped guard); each property is violated when one of them replaces the
definition that follows it, as `PROJECT.json` records.

*Fairness.* `DisputeCase`, the clients, workspace, diagnosis and feed have none:
nothing obliges people, upstreams or networks to act, so they make no liveness
claim. `CommandStore` assumes weak fairness of `Serve(w)`: a worker thread that
holds a request keeps running, and SQLite neither blocks it for ever (`Busy`
after the timeout) nor stops; `WritesResume` says that under it the write lock is
free again and again, on error paths too. `CaseDesk` assumes weak fairness of
`ObserverStep(o)` and `WorkerStep(w)`: a thread past its commit, and a worker of
the pool, keep running; arrivals, crashes and people are not fair.
`LastChangeAnalysed` rests on it.

*Deadlock.* `store` is checked for it. Elsewhere `CHECK_DEADLOCK FALSE` stands
because the system really may stop: a closed case takes no more commands, served
requests leave idle threads, and the bounds run out.

## 4. What is proved

All theorems are about the specifications for any sets of people, items, codes,
reports, workers, cases, commands, threads and accounts, and any bounds.

| Module | Theorems | Argument |
|---|---|---|
| `DisputeCaseProofs` | `TypeCorrect` | `TypeOK` is inductive, one lemma per group of commands |
| | `ReviewsAreFresh`, `PackagesAreFresh`, `ChangesRetire`, `PackagesAreSettled`, `SentIsApproved` | every command does one of six things to the files of a case (passes a review, builds, freezes or voids a package, invalidates, or leaves them): `FileStep`. The invariants follow from that relation alone |
| | `RightsAreHeld` | strengthened by: a contest is under a verified rule |
| | `OneRequestPerAuthorization`, `AcceptedStays` | every command is one of a few things to the requests: `RequestStep`; an accepted request is neither retryable nor queryable |
| | `OutcomesHold`, and from it `OutcomeCurrent`, `PendingAsked`, `FinalStops`, `ClosedIsSettled` | none is inductive alone: they need what the case resumes after verification (`ResumeInv`) and what a terminal outcome settles (`TerminalInv`), so `OutcomeInv` is their conjunction with both |
| | `StatusesFit`, and from it `WaitingAlwaysAsked`, `ApprovalIsIndependent` | both depend on the status a rejected report brings back, so `WaitInv` says of it what it says of the present one: in the first stage it fits the tasks and the decision (`FitInv`), and no valid review is around where evidence is still collected (`ReviewInv`). A review then passes only where no package is live, and independence follows from `FileStep` |
| `PlanProofs` | `StatusesInPlace`, and from it `ProposalsAlwaysWork`, `AdviceAlwaysAgrees` | the plan reads the status, the gate of its step reads the decision, review, packages and requests. `PlaceInv` says of the present status, and in the first stage of the one a rejected report brings back, what it tells of the rest: a contest under way is decided, a case ready to be sent is reviewed or was refused before, the last package is live if any is. With `VersionInv` (a package of the present version is of a review still valid) and `PlainInv` (a final outcome is known and awaits no stage; a verified rule allows something) it is inductive. Each planned step is then followed through the reasons of the gate, one lemma for each kind of step; the newest package a proposal names is found as the least element of a set of numbers (`LastOfSome`) |
| `CommandStoreProofs` | `StoreTyped`, `StoreSound`, and from it `StoreImplementsLedger`, `AnswersKept`, `UpstreamsOpenOneCase` | `StoreInv`: the committed tables are sound (each row names the log entry that serves its command, each log entry has its rows, no two entries are the same command or event, a link names the case it opened), a staged transaction is sound for its request, and a finished one and a delivered answer have their row |
| `ClientProofs` | `ClientsStaySound`, and from it `InboxTellsTheTruth`, `AnswersStand`, `DeliveredOnce`, `EffectsAreOne`, `DecidedWhatWasShown`, `CutLinksAreInert`, `DoneMeansDecided`; `HistoryOnlyGrows` | `ClientsInv` is one invariant per client, each over its own rows and the ledger: a row that is being served belongs to its thread and its try is prepared (`InboxInv`), a frozen command is the only one its callback can run (`HandlersInv`), a row of the outbox has one key and at most one card (`OutboxInv`), a button carries the revision it showed and a decision of a button is in the ledger only while the call holds it or the button is done (`ChatInv`). A step of one client leaves the others' rows alone and only appends to the ledger, with identifiers of its own kind, so each part survives the others' steps and no identifier is in the ledger twice |
| `DeskProofs` | `DeskKept`, and from it `HandoffsEscalatedOnce`, `FilesInUseOnce`, `NoticesKeepOrder`, `AnswersKeepAdvancing` | `DeskInv` says of each thing that was read and not yet acted upon what still holds of it. `HandoffsOk`: an entry after an escalation keeps the level, and the snapshot of the scan is of a handoff that was not escalated. `FilesOk`: entries are numbered by the revision they expect, and what an upload found clear is clear while its revision is the present one. `NoticesOk`: a receipt of a notice or feedback stands for its message, and an observer has the receipts of all it read of and is not still to copy; so when it comes to one, those of its kind before it, and for feedback the notices, are in the journal. `AnswersOk`: a case has one drain, submitted or under way, and what that is about to publish is not older than what was published. `QuestionsOk`: a thread that has not published has its message in the journal, no reply to it there, and holds a revision no older than the message tells; two requests of one identifier are not both under way |
| `DiagnosisProofs` | `DiagnosisKept`, and from it `AnswersStayMoments`, `DiagnosisStaysWarranted`, `WritesStaySound`, `TrailKeepsTelling` | `DiagnosisInv` keeps every view the case went through: a request holds one of them, no older than its beginning (`Moment`), and a view whose revision is still the present one is what the tables say (`HistoryOk`). So a write that passes the comparison of revisions was worked out from the present rows, and what it works out is sound: drafts refer to the evidence they were made from, batches have one event of each kind the store asks for. `TableOk` has at most one diagnosis for a revision of the evidence, and the one for the present revision is current; hence what is found for an older view was its diagnosis, and fails to replay only if it was superseded since |
| `ScreenProofs` | `FeedTellsAll`; `NoStepBack` | accounts and sessions come and go, but what a user is entitled to with a usable account (`Standing`) only grows, and rows are only added. So a cursor ends at rows its reader may still see (`Taken`), and what is beyond it (`Unread`) stays beyond it: once a cursor has missed something, the feed has news for it for good (`NewsOfUnread`). While nothing is beyond a cursor, every answer the newest reading was served since fits what there is (`Served`), and `PageInv` says that the screen fits, or a reading of the user's own is to come, or `failed`; a reading that ends well leaves a screen that fits. An account disabled for a while hides rows, which the feed answers with a reset, but takes nothing from `Standing`. `NoStepBack` is the same invariant: the answers of the newest reading are not of an earlier revision than the screen (`InOrder`) |
| `WorkspaceProofs` | `RevisionStands`, and from it `ApprovalsHold`, `FactsStay`, `SummariesShow` | every step leaves a case alone or numbers it anew (`CaseMoves`), so what was seen at the present revision is what there is (`ViewOk`). The rules move without the revision: a review or a proposal therefore carries that the gate was open under the rules it names (`Ripe`), and counts only while those are in force |

Proof attempts found out more than they confirmed in four places. `WaitInv` is not
inductive without the exception for a later stage with a rejected report: TLC
then found the case of section 5 in which one person gives both reviews. The
inbox needed an assumption (below) without which two source events could share
their commands. And `ProposalsWork` and `AdviceAgrees`, as the runs first checked
them, held on the small instances only: with a second draft, a team of one, a file
read as INSUFFICIENT or a query of a replaced package, which those bounds leave
out, the planned step is refused. Both now name these cases (`InPlace`,
`Understood`), and section 5 lists them. `NothingMissed` was in the same position
twice: TLC then found, in a mix added for it, the page that stays behind after a
reset while its account was disabled; the similar cases of an operator are beyond
every mix. Both are exceptions now (`failed`, `ShowsAgent`) and in section 5.

Assumptions, all named, all evaluated by TLC in every run of their modules.
`PeopleAssumption` (an account has one role, and nobody is an account),
`DomainAssumption` (finitely many items; the small domains are subsets of the
code's enumerations), `BoundAssumption` (the bounds are numbers);
`OrderAssumption` (each command has the event its action needs, and an event is
reported by one kind of command, as the key of an event includes it) and
`RowAssumption` (the null values are not rows) in `CommandStore`;
`DeskAssumption` (uploads have identifiers of their own, requests and uploads are
about cases, the null object is no object); `AgentAssumption` (no request of a
person has an identifier of the kinds the program makes for notices, feedback,
analyses and replies, `application/dispute_collaboration.py:144` and `:283`: the web
client draws its own at random, `collaboration.js:97`); `WorkAssumption` (files are registered by
uploads only); `FeedAssumption` (finitely many cases of before the upgrade, no set
of people is the null value, no case has the name of the list) and `PageAssumption`
(a page is the list or a case, and belongs to a user) of the feed and its pages;
`EngineAssumption`, `EnvelopeAssumption` (source events have identifiers of their
own, the key of their table), `PoliciesAssumption` (the null value is no reason) and
`LoadsAssumption` (a sample is of a known reason and one of its codes) in
`ReviewWorkspace`, `CallbackAssumption`, `RowAssumption` in
`FeishuCallbacks` (the null value is no row), `ChatAssumption`; and in
`DiagnosisCases` `NullAssumption` (the null value is no number, row or answer),
`StartAssumption` (the evidence of a case that is there has valid items with
identifiers of their own) and `PolicyAssumption` (a policy is known by its version, and there is one).

`TypeCorrect`, `StoreTyped`, `PackagesAreSettled`, `NoStepBack` and the inductive
invariants (`DiagnosisKept`, `RevisionStands` and the like) are proved of definitions
no run checks; every other theorem about a property is about one that a run checks on a
small instance first.

Every safety property a passing run checks is proved. Only model-checked are
`WritesResume` and `LastChangeAnalysed`: liveness under fairness is beyond the
prover.

What a fold of evidence or a sorted list computes for every input (the phases, the
catalogue) needs induction over data, which the installed provers cannot do;
`DiagnosisProofs` takes `Readiness` and `Evaluate` as the functions they are.

## 5. Where the code and its documents disagree

Each is a run that finds the violation, and a finding in `PROJECT.json`.

* `blind_retry`: the requirement says to query before a retry and never to send
  twice because of a timeout (`docs/v2/v21-requirements.md:76`). `SUBMIT`
  looks only at the receipt of the package it sends, so an old package whose
  query answered "not accepted" can be sent again while a newer one is unknown.
* `orphan_task`: confirming a report that opens the next stage resolves
  `OUTCOME_CONFIRMATION` for the stage entered, not the one left. The task stays
  open; its type is protected from `RESOLVE_TASK`, and an open task blocks
  closing.
* `stale_status`: the status a case had when a report arrived is kept in
  `verification_resume_status` until no report is pending, also when
  `NEXT_STAGE` opens another stage meanwhile. Rejecting the report there
  (`application/disputes.py:2240`) brings back the status of the stage before,
  `EVIDENCE_COLLECTING` for instance, with a valid review and a frozen package.
  The manager who froze it may then pass the review it is sent under, although
  the two human reviews are to be independent (`docs/v2/acceptance.md:31`).
* `skipped_message`: `activity` reads new messages and the highest cursor over two
  connections (`application/dispute_collaboration.py:78`); a message posted
  between the two is passed over for good, although the cursor is said to be the
  position that was returned (`docs/v2/v21-collaboration.md:11`).

Observations made while modelling, which no run is about:

* An observer that reads a case after two commands, or in the place of one that was
  lost, puts the message of the second before the review feedback of the first:
  `observe_business` collects `collaboration` and then `reviews`
  (`application/dispute_collaboration.py:107` and `:113`).
* A question is checked against the revision when the model has answered and not
  again when the reply is published, nor does its thread wait for the pool
  (`application/dispute_collaboration.py:241`): its reply may come after an automatic
  analysis of a newer revision. `docs/v2/v21-collaboration.md` (messages) promises a
  discarded reply only when the case changes while the model runs.
* The rejection of `stale_status` may also leave a second stage in
  `RESPONSE_REVIEW_REQUIRED` without the task that resolves it.
* A repeated diagnosis loads the case and the diagnosis in two transactions
  (`application/case_service.py:298` and `:306`); evidence committed between them
  ends it in an internal error instead of a conflict or another try.
* Confirming a report that was already pending replaces a terminal outcome
  without `REOPEN_CASE` (`application/disputes.py:2243`), which recording one
  would need.
* The answers to `CONFIRM_RULE`, `RESOLVE_RESPONSE` and `VERIFY_OUTCOME` name steps
  the gate refuses in some statuses (`WAITING_UPSTREAM`,
  `FINANCIAL_RECONCILIATION`, `CLOSED`), and the plan says CLOSE while leftover
  tasks block it.
* Once the external deadline has expired `ACCEPT_PROCESSING` has no way on.
* `SUBMIT_EVIDENCE` is planned although another applicable item is INSUFFICIENT
  (`domain/dispute_rules.py`, about 390), which the gate refuses.
* The final review may approve an older draft of the present evidence
  (`application/disputes.py:1672`); `SUBMIT` looks at the newest package
  (`domain/dispute_actions.py:251`), still a draft, and refuses.
* Querying the request of a replaced package that was not accepted makes a case
  READY_TO_SUBMIT whose evidence nobody reviewed (`application/disputes.py:1864`).
* `_prepare` tells the merchant that the package of this round was submitted when
  there is any earlier submission (`application/dispute_agent.py`, about 1019).
* `current_sla` follows no deadline where no task of the owner is open, though
  `docs/v2/v21-requirements.md:69` asks for one; a DEADLINE finding is always titled
  as the merchant's.
* Proposals for `RESOLVE_RESPONSE`, `VERIFY_OUTCOME`, `QUERY_SUBMISSION`,
  `PROCESS_ACCEPT`, `REVIEW_EVIDENCE_CONTENT` and `FINAL_REVIEW` carry no data for
  fields the request needs (`docs/v2/agent-workflow.md:23`); only the exact role of
  a proposal's owner may confirm it.
* A case page of an operator lists similar cases, which change with the access of
  the operator and without any row of the feed.
* While an account is disabled a poll that is still waiting sees no case and resets
  its page; the reading that follows takes the place of one the user had asked for
  (`web/v2/app.js:1526`). If it ends in an error the loop retries, and the account
  is enabled and logged in again meanwhile, the cursor has nothing beyond it and the
  page stays as it was.
* After a change of policy a diagnosed case answers CASE_NOT_READY until new
  evidence comes; adding evidence does not retry a concurrent write.
* A workspace registration may be refused for ever after FINALIZE or a withdrawal
  by the channel (`application/workspace.py:457`); a stale save of the channel
  turns the unknown source of a material into LEGACY, contrary to
  `docs/implementation/2026-09-06-workspace-contract.md:48`; the rule status
  HUMAN_CONFIRMED is never written.

## 6. Hazards

`PROJECT.json` lists, at their lines, the ways this code can go wrong that tests
hardly reach, each with the properties that would show it. Two have none. Nothing
in the code or its documents promises that a handoff cannot be opened on a closed
case, and patched cards carry no identifier that would tell in which order they
were shown.

## 7. Plan

Done: the command engine with its plan and advice, the store, the clients, the
desk, the feed with its pages, the chargeback workspace, the diagnosis; proofs of
every safety property the passing runs check.

Left: the second journal of the collaboration and withdrawing a file; the turns of
the copilot that analyse.

Not modelled, and why: the callbacks of V1 (retired, their endpoints answer 410);
the PostgreSQL layer, which emulates the transactions of SQLite that the modules
assume (one writer at a time, reads of committed rows, rollback on a crash);
login windows and form tokens; queue predicates, paging and the progress of
teams, which filter what others store; simulation, demo, views, the knowledge
bot, model adapters, HTTP routers, the layout of pages and process wiring, which
hold reference data, render, or move bytes. About three tenths of the
implementation's lines are mapped to definitions.
