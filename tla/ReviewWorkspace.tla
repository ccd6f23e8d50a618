--------------------------- MODULE ReviewWorkspace ---------------------------
(***************************************************************************)
(* The review workspace of a chargeback case (WorkspaceService over        *)
(* SqliteWorkspaceStore): commands of merchants and reviewers, made against*)
(* the revision they saw and repeated at will; concerns; reviews by a form *)
(* or through a proposal of the agent; summaries. It shares its tables with*)
(* the requests of the channel service, and its rules with a catalogue that*)
(* may be replaced at any time, but not by one that it already had.        *)
(***************************************************************************)
EXTENDS Assessment, RuleBook

CONSTANTS Releases,     \* the successive seeds of the rule catalogue
          NetworkRules, \* the <<network, reason>> with a rule built into the program
          Clients,      \* each waits for one command at a time
          Turns, Summaries,
          Loads         \* bounds: [revisions, samples, actions, channel, turns, summaries, books];
                        \* a sample is [reason, network, critical, reviewed]

ASSUME ReleasesAssumption ==
  /\ Len(Releases) > 0 /\ \A i \in DOMAIN Releases : Usable(Releases[i])
  /\ NetworkRules \subseteq Networks \X Reasons

(* What can be sent to a case that exists.                                 *)
Actions ==
  {"REGISTER_MATERIAL", "WITHDRAW_MATERIAL", "CONFIRM_REASON", "SET_NETWORK", "FINALIZE",
   "ADD_CONCERN", "RESOLVE_CONCERN", "REVIEW"}

ASSUME LoadsAssumption ==
  \A l \in Loads :
    /\ l.actions \subseteq Actions
    /\ \A p \in l.samples :
         /\ p.reason \in Reasons /\ p.network \in Networks /\ p.reviewed \in BOOLEAN
         /\ p.critical \in ToSet(RequiredFor(p.reason))

VARIABLES materials,    \* the source of the active registration of a code
          concerns, reviews,
          asked,        \* the command a client has sent, with what it saw before
          turns,        \* the turns of the agent, that open a case or propose a decision
          drafts,       \* the summaries being rendered
          summaries,    \* those that were saved
          book, rules,  \* the release in force and the rows of the catalogue
          load

vars == <<caseVars, materials, concerns, reviews, asked, turns, drafts, summaries, book, rules, load>>

requestVars == <<loaded, asked, turns, drafts, summaries, book, rules, load>>

Init ==
  /\ CasesInit /\ materials = [c \in Codes |-> None]
  /\ concerns = {} /\ reviews = {} /\ summaries = <<>>
  /\ asked = [k \in Clients |-> None] /\ turns = [t \in Turns |-> None]
  /\ drafts = [s \in Summaries |-> None]
  /\ book = 1 /\ rules = Seed({}, Releases[1]) /\ load \in Loads

Grows == Exists /\ case.revision < load.revisions

-----------------------------------------------------------------------------
(* What the view of a case is made of.                                     *)

Shown == [row |-> [case EXCEPT !.revision = 0], materials |-> materials, concerns |-> concerns]

Source(c) ==
  IF c \notin Collected(case) THEN None
  ELSE IF materials[c] = None THEN "LEGACY" ELSE materials[c]

(* InMemoryBankRules, asked for no bank.                                   *)
BuiltInRule(s) ==
  BuiltIn(IF <<s.network, s.reason>> \in NetworkRules THEN "network" ELSE "default",
          s.reason, RequiredFor(s.reason))

RuleFor(s) == Lookup(rules, s.network, BuiltInRule(s))

Unmatched(s) == None \in {s.reason, s.network}

ExactRule(s) == ~Unmatched(s) /\ IsExact(RuleFor(s)) /\ Detail(rules, RuleFor(s)) # {}

(* Without a reason and a network it says only that there is no rule.      *)
FingerprintOf(s) == IF Unmatched(s) THEN <<s.network>> ELSE <<RuleFor(s), Detail(rules, RuleFor(s))>>

Fingerprint == FingerprintOf(case)

Doubtful == (\E x \in concerns : x.open) \/ \E c \in Codes : Source(c) = "UNKNOWN"

(* gate.can_review: an approval is possible.                               *)
Gate == case.confirmed /\ Absent(case) = {} /\ ExactRule(case) /\ ~Doubtful

(* The review that counts is one of this revision, under these rules.      *)
Current == {r \in reviews : r.revision = case.revision /\ r.rule = Fingerprint}

Approved == \E r \in Current : r.status = "APPROVED"

(* The phase that is shown: the first that applies.                        *)
Phase ==
  IF ~case.confirmed THEN "REASON_PROPOSED"
  ELSE IF Doubtful THEN "NEEDS_REVIEW"
  ELSE IF MaterialGate(case) = "CRITICAL_MISSING" THEN "CRITICAL_MISSING"
  ELSE IF MaterialGate(case) = "LIMITED" THEN "LIMITED_ANALYSIS"
  ELSE IF ~ExactRule(case) THEN "NO_EXACT_RULE"
  ELSE IF Current = {} THEN "READY_FOR_REVIEW"
  ELSE IF Approved THEN "HUMAN_APPROVED"
  ELSE "RETURNED"

(* The turns that may be shown as the analysis of the case as it is.       *)
Analyses ==
  {t \in Turns :
     /\ turns[t] # None /\ turns[t].phase \in {"saved", "confirming"}
     /\ turns[t].saw.revision = case.revision /\ turns[t].saw.rule = Fingerprint}

View == [shown |-> Shown, revision |-> case.revision, rule |-> Fingerprint, approved |-> Approved]

-----------------------------------------------------------------------------
(* The workspace's own writes to the row: touch and correct_fact.          *)

Touched(r) == [r EXCEPT !.revision = @ + 1, !.finalized = FALSE]

Facts == {"reason_code", "card_network"}

Fact(r, field) == IF field = "reason_code" THEN r.reason ELSE r.network

Values(field) == IF field = "reason_code" THEN Reasons ELSE Networks

Corrected(r, field, value) ==
  IF field = "reason_code" THEN [r EXCEPT !.reason = value, !.confirmed = TRUE]
  ELSE [r EXCEPT !.network = value]

Concern(kind, field, old, new, revision) ==
  [id |-> revision, kind |-> kind, field |-> field, old |-> old, new |-> new, open |-> TRUE]

CloseConcern(x) ==
  x.open /\ concerns' = (concerns \ {x}) \cup {[x EXCEPT !.open = FALSE]}

RecordMaterial(c, source) ==
  materials[c] = None /\ materials' = [materials EXCEPT ![c] = source]

RetireMaterial(c) == materials' = [materials EXCEPT ![c] = None]

RaiseConcern(r, kind, field, old, new) ==
  /\ case' = Touched(r)
  /\ concerns' = concerns \cup {Concern(kind, field, old, new, r.revision + 1)}

-----------------------------------------------------------------------------
(* Creation, in one transaction: of a case as described, or of a sample    *)
(* with its materials and, for one of them, a review that is out of date.  *)

Opened(reason, confirmed) ==
  [NewCase EXCEPT !.revision = 1, !.reason = reason, !.confirmed = confirmed]

(* The codes the sample's materials are registered for, in order.          *)
SampleCodes(p) ==
  LET required == RequiredFor(p.reason) IN
  RemoveAt(required, CHOOSE i \in DOMAIN required : required[i] = p.critical)
  \o (IF p.reviewed THEN <<p.critical>> ELSE <<>>)

Registered(r, codes) ==
  [r EXCEPT !.revision = @ + Len(codes),
            !.added = [c \in Codes |-> IF c \in ToSet(codes)
                                       THEN r.revision + SelectInSeq(codes, LAMBDA d : d = c) ELSE 0]]

Templates(codes) == [c \in Codes |-> IF c \in ToSet(codes) THEN "KNOWN" ELSE None]

CreateCase ==
  /\ ~Exists /\ load.samples = {}
  /\ \E x \in Classified, n \in Networks \cup {None} :
       case' = WithNetwork(Opened(x.reason, x.confident), n)
  /\ UNCHANGED <<loaded, materials, concerns, reviews>>

CopySample(p) ==
  LET codes == SampleCodes(p)
      full == Registered(WithNetwork(Opened(p.reason, TRUE), p.network), codes) IN
  /\ ~Exists
  /\ p.reviewed => ExactRule(full)
  /\ case' = IF p.reviewed THEN Withdrawn([full EXCEPT !.revision = @ + 1], p.critical) ELSE full
  /\ materials' = [Templates(codes) EXCEPT ![p.critical] = None]
  /\ reviews' = IF ~p.reviewed THEN {}
                ELSE {[revision |-> full.revision + 1, status |-> "APPROVED",
                       rule |-> FingerprintOf(full), turn |-> None,
                       seen |-> [row |-> [full EXCEPT !.revision = 0],
                                 materials |-> Templates(codes), concerns |-> {}]]}
  /\ UNCHANGED <<loaded, concerns>>

Create ==
  /\ CreateCase \/ \E p \in load.samples : CopySample(p)
  /\ UNCHANGED <<asked, turns, drafts, summaries, book, rules, load>>

-----------------------------------------------------------------------------
(* Commands on a case. Someone sends one after having seen the case.       *)

Wishes(action) ==
  CASE action = "REGISTER_MATERIAL" -> [action : {action}, code : Codes, source : {"KNOWN", "UNKNOWN"}]
    [] action = "WITHDRAW_MATERIAL" -> [action : {action}, code : Codes]
    [] action = "CONFIRM_REASON" -> [action : {action}, field : {"reason_code"}, value : Reasons]
    [] action = "SET_NETWORK" -> [action : {action}, field : {"card_network"}, value : Networks]
    [] action = "FINALIZE" -> {[action |-> action]}
    [] action = "ADD_CONCERN" ->
         [action : {action}, kind : {"FACT_CONFLICT"}, field : {"reason_code"}, old : Reasons, new : Reasons]
         \cup [action : {action}, kind : {"SOURCE_ISSUE"}, field : Codes, old : {None}, new : {None}]
    [] action = "RESOLVE_CONCERN" ->
         [action : {action}, concern : {x.id : x \in concerns},
          resolution : {"KEEP_ORIGINAL", "ACCEPT_PROPOSED", "ACKNOWLEDGE"}]
    [] action = "REVIEW" -> [action : {action}, decision : {"APPROVED", "REJECTED"}]

Ask(k) ==
  /\ asked[k] = None /\ Grows
  /\ \E a \in load.actions : \E d \in Wishes(a) :
       asked' = [asked EXCEPT ![k] = [does |-> d, saw |-> View]]
  /\ UNCHANGED <<caseVars, materials, concerns, reviews, turns, drafts, summaries, book, rules, load>>

(* _register. A state that is no longer finalized is refused by the latch  *)
(* of the store when the case is.                                          *)
RegisterMaterial(d) ==
  LET s == [Submitted(case, d.code) EXCEPT !.finalized = FALSE] IN
  /\ d.action = "REGISTER_MATERIAL" /\ d.code \notin Collected(case)
  /\ ~Rejects(case, s) /\ RecordMaterial(d.code, d.source)
  /\ IF d.source = "UNKNOWN"
     THEN RaiseConcern(Saved(case, s), "SOURCE_ISSUE", d.code, None, None)
     ELSE case' = Saved(case, s) /\ UNCHANGED concerns
  /\ UNCHANGED reviews

WithdrawMaterial(d) ==
  /\ d.action = "WITHDRAW_MATERIAL" /\ d.code \in Collected(case)
  /\ case' = Withdrawn(case, d.code)
  /\ RetireMaterial(d.code)
  /\ UNCHANGED <<concerns, reviews>>

(* CONFIRM_REASON and SET_NETWORK: another value only raises a concern.    *)
SetFact(d) ==
  /\ d.action \in {"CONFIRM_REASON", "SET_NETWORK"}
  /\ IF Fact(case, d.field) \notin {None, d.value}
     THEN RaiseConcern(case, "FACT_CONFLICT", d.field, Fact(case, d.field), d.value)
     ELSE /\ case' = IF d.field = "card_network" THEN WithNetwork(case, d.value)
                     ELSE Saved(case, [case EXCEPT !.reason = d.value, !.confirmed = TRUE])
          /\ UNCHANGED concerns
  /\ UNCHANGED <<materials, reviews>>

Finalize(d) ==
  /\ d.action = "FINALIZE" /\ case' = Saved(case, Finalized(case))
  /\ UNCHANGED <<materials, concerns, reviews>>

AddConcern(d) ==
  /\ d.action = "ADD_CONCERN" /\ RaiseConcern(case, d.kind, d.field, d.old, d.new)
  /\ UNCHANGED <<materials, reviews>>

(* A source that is still unknown cannot be resolved, and a comparison     *)
(* with a fact that has changed since can only be acknowledged.            *)
Resolvable(x, resolution) ==
  /\ ~(x.kind = "SOURCE_ISSUE" /\ x.field \in Codes /\ Source(x.field) = "UNKNOWN")
  /\ x.field \in Facts /\ Fact(case, x.field) # x.old => resolution = "ACKNOWLEDGE"

ResolveConcern(d) ==
  /\ d.action = "RESOLVE_CONCERN"
  /\ \E x \in concerns :
       LET accepts == d.resolution = "ACCEPT_PROPOSED" IN
       /\ x.id = d.concern /\ CloseConcern(x) /\ Resolvable(x, d.resolution)
       /\ accepts => x.field \in Facts /\ x.new \in Values(x.field)
       /\ case' = Touched(IF accepts THEN Corrected(case, x.field, x.new) ELSE case)
  /\ UNCHANGED <<materials, reviews>>

(* confirm_review: the decision is about the revision it makes.            *)
Decide(status, rule, seen, turn) ==
  /\ case' = [case EXCEPT !.revision = @ + 1]
  /\ reviews' = reviews \cup
       {[revision |-> case.revision + 1, status |-> status, rule |-> rule, seen |-> seen, turn |-> turn]}

Review(d, saw) ==
  /\ d.action = "REVIEW" /\ saw.rule = Fingerprint
  /\ d.decision = "APPROVED" => Gate
  /\ Decide(d.decision, Fingerprint, saw.shown, None)
  /\ UNCHANGED <<materials, concerns>>

\* slip: the revision the sender saw is not compared
AnyRevision(saw) == Exists

SameRevision(saw) == saw.revision = case.revision

(* execute, in one transaction with the receipt that answers any repeat of *)
(* the command. The revision of a case never returns: a command that is    *)
(* refused for it can be forgotten.                                        *)
Execute(k) ==
  /\ asked[k] # None /\ SameRevision(asked[k].saw) /\ asked' = [asked EXCEPT ![k] = None]
  /\ LET d == asked[k].does IN
     \/ RegisterMaterial(d)
     \/ WithdrawMaterial(d)
     \/ SetFact(d)
     \/ Finalize(d)
     \/ AddConcern(d)
     \/ ResolveConcern(d)
     \/ Review(d, asked[k].saw)
  /\ UNCHANGED <<loaded, turns, drafts, summaries, book, rules, load>>

Refuse(k) ==
  /\ asked[k] # None /\ asked' = [asked EXCEPT ![k] = None]
  /\ UNCHANGED <<caseVars, materials, concerns, reviews, turns, drafts, summaries, book, rules, load>>

-----------------------------------------------------------------------------
(* A turn of the agent: it reads the case, waits for the model, and is     *)
(* saved if the case is still at that revision. One that opens a case does *)
(* so by a command of its own and reads it afterwards; it proposes nothing.*)

Opens(t) ==
  /\ load.turns /\ turns[t] = None /\ CreateCase
  /\ turns' = [turns EXCEPT ![t] = [phase |-> "opened"]]
  /\ UNCHANGED <<asked, drafts, summaries, book, rules, load>>

Describe(t) ==
  /\ turns[t] # None /\ turns[t].phase = "opened"
  /\ turns' = [turns EXCEPT ![t] = [phase |-> "drafted", status |-> "UNREVIEWED", saw |-> View]]
  /\ UNCHANGED <<caseVars, materials, concerns, reviews, asked, drafts, summaries, book, rules, load>>

StartTurn(t) ==
  /\ Grows /\ load.turns /\ turns[t] = None
  /\ \E status \in {"REJECTED", IF Gate THEN "APPROVED" ELSE "NEEDS_MORE_INFO"} :
       turns' = [turns EXCEPT ![t] = [phase |-> "drafted", status |-> status, saw |-> View]]
  /\ UNCHANGED <<caseVars, materials, concerns, reviews, asked, drafts, summaries, book, rules, load>>

(* The rules are compared before the transaction of save_turn, and again   *)
(* after it, when the turn is there already.                               *)
StoreTurn(t) ==
  SameRevision(turns[t].saw) /\ turns' = [turns EXCEPT ![t].phase = "saved"]

LoseTurn(t) ==
  /\ turns[t].saw.revision # case.revision \/ turns[t].saw.rule # Fingerprint
  /\ turns' = [turns EXCEPT ![t].phase = "failed"]

SaveTurn(t) ==
  /\ turns[t] # None /\ turns[t].phase = "drafted"
  /\ StoreTurn(t) \/ LoseTurn(t)
  /\ UNCHANGED <<caseVars, materials, concerns, reviews, asked, drafts, summaries, book, rules, load>>

Decided(t) == \E r \in reviews : r.turn = t

(* confirm_review of the agent service reads the case first; a turn of     *)
(* another revision, or decided before, is left to the store.              *)
BeginConfirm(t) ==
  /\ turns[t] # None /\ turns[t].phase = "saved" /\ turns[t].status # "UNREVIEWED"
  /\ ~Decided(t) /\ turns[t].saw.revision = case.revision =>
       /\ turns[t].saw.rule = Fingerprint
       /\ turns[t].status = "APPROVED" => Gate
  /\ turns' = [turns EXCEPT ![t].phase = "confirming"]
  /\ UNCHANGED <<caseVars, materials, concerns, reviews, asked, drafts, summaries, book, rules, load>>

Confirm(t) ==
  /\ turns[t] # None /\ turns[t].phase = "confirming"
  /\ turns' = [turns EXCEPT ![t].phase = "saved"]
  /\ IF ~Decided(t) /\ SameRevision(turns[t].saw)
     THEN Decide(turns[t].status, turns[t].saw.rule, turns[t].saw.shown, t)
     ELSE UNCHANGED <<case, reviews>>
  /\ UNCHANGED <<loaded, materials, concerns, asked, drafts, summaries, book, rules, load>>

-----------------------------------------------------------------------------
(* A summary is rendered from one read of the case and saved later.        *)

StartSummary(s) ==
  /\ Exists /\ load.summaries /\ drafts[s] = None /\ Len(summaries) < Cardinality(Summaries)
  /\ drafts' = [drafts EXCEPT ![s] = View]
  /\ UNCHANGED <<caseVars, materials, concerns, reviews, asked, turns, summaries, book, rules, load>>

\* slip: only the revision is compared before a summary is saved
SameCase(draft) == SameRevision(draft)

Unmoved(draft) == SameRevision(draft) /\ draft.rule = Fingerprint

SaveSummary(s) ==
  /\ drafts[s] # None /\ drafts' = [drafts EXCEPT ![s] = None]
  /\ summaries' = IF Unmoved(drafts[s]) THEN Append(summaries, drafts[s]) ELSE summaries
  /\ UNCHANGED <<caseVars, materials, concerns, reviews, asked, turns, book, rules, load>>

-----------------------------------------------------------------------------
Channel ==
  /\ \/ \E w \in Threads : (load.channel /\ Grows /\ LoadFor(w)) \/ Save(w)
     \/ load.channel /\ Grows /\ \E c \in Codes : WithdrawLatest(c)
  /\ UNCHANGED <<materials, concerns, reviews, asked, turns, drafts, summaries, book, rules, load>>

(* The program starts with another release of the catalogue.               *)
NewBook ==
  /\ book < load.books /\ book' = book + 1
  /\ rules' = Seed(rules, Releases[book'])
  /\ Usable(rules')
  /\ UNCHANGED <<caseVars, materials, concerns, reviews, asked, turns, drafts, summaries, load>>

Next ==
  \/ Create
  \/ \E k \in Clients : Ask(k) \/ Execute(k) \/ Refuse(k)
  \/ \E t \in Turns : Opens(t) \/ Describe(t) \/ StartTurn(t) \/ SaveTurn(t) \/ BeginConfirm(t) \/ Confirm(t)
  \/ \E s \in Summaries : StartSummary(s) \/ SaveSummary(s)
  \/ Channel
  \/ NewBook

Spec == Init /\ [][Next]_vars

-----------------------------------------------------------------------------
(***************************************************************************)
(* While a case is shown as approved, it is what the reviewer saw: nothing *)
(* of its facts, evidence, materials and concerns has changed, by whatever *)
(* path, and its gate is open under the rules in force. Both readings of   *)
(* the case say so: the phase of the workspace, which puts doubts and gaps *)
(* first, and that of the supervisor, which asks for nothing more. And an  *)
(* analysis is shown only of the case as it is.                            *)
(***************************************************************************)
ApprovedAsSeen ==
  /\ \A r \in Current : r.status = "APPROVED" => r.seen = Shown /\ Gate
  /\ Approved <=> Phase = "HUMAN_APPROVED"
  /\ Approved => Snapshot(case).phase = "ASSESSED"
  /\ \A t \in Analyses : turns[t].saw.shown = Shown

(***************************************************************************)
(* A confirmed reason and a chosen network stand: only the acceptance of a *)
(* concern about that very value replaces them, whatever an older state a  *)
(* request of the channel is still to save.                                *)
(***************************************************************************)
Accepted(field) ==
  \E x \in concerns :
    /\ x.open /\ x.field = field /\ x.old = Fact(case, field) /\ x.new = Fact(case, field)'
    /\ [x EXCEPT !.open = FALSE] \in concerns'

ConfirmedFactsStand ==
  [][/\ case.confirmed => case'.confirmed
     /\ case.confirmed /\ case'.reason # case.reason => Accepted("reason_code")
     /\ case.network \notin {None, case'.network} => Accepted("card_network")]_vars

(***************************************************************************)
(* A summary enters the record only while the case is exactly what the     *)
(* summary shows, its review and the rules it names included.              *)
(***************************************************************************)
SummariesCurrent == [][Len(summaries') > Len(summaries) => Last(summaries') = View]_vars
=============================================================================
