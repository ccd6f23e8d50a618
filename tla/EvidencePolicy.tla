--------------------------- MODULE EvidencePolicy ---------------------------
(***************************************************************************)
(* What a set of evidence says: the values a code admits, the fold of the  *)
(* items into one slot per code, whether they are enough for a diagnosis,  *)
(* and the draft the rules make of them (domain/evidence_policy.py,        *)
(* adapters/diagnosis/rules.py).                                           *)
(* An item has a number for its id: numbers are compared as ids are.       *)
(***************************************************************************)
EXTENDS Integers, FiniteSets, TLC

Unavailable == "CONFIRMED_UNAVAILABLE"

Item(id, code, value, source) == [id |-> id, code |-> code, value |-> value, source |-> source]

(* In hundredths. The merchant's API reports as USER_REPORTED, the         *)
(* synthetic adapter as SYNTHETIC_TEST.                                    *)
SourceQuality ==
  [SYSTEM_OF_RECORD |-> 100, VERIFIED_DOCUMENT |-> 90, SYNTHETIC_TEST |-> 80,
   OPERATOR_CONFIRMED |-> 75, USER_REPORTED |-> 55]

(* Codes with a list of values; the others take any reference, moment,     *)
(* country, currency or version.                                           *)
FieldCatalog ==
  ("context.environment"        :> {"PROD", "SANDBOX"}) @@
  ("payment.method"             :> {"CARD", "APPLE_PAY", "GOOGLE_PAY", "KLARNA", "LOCAL_PAYMENT", "OTHER"}) @@
  ("integration.type"           :> {"API", "PLUGIN"}) @@
  ("integration.platform"       :> {"SHOPIFY", "WOOCOMMERCE", "MAGENTO", "CUSTOM"}) @@
  ("symptom.status"             :> {"PENDING", "FAILED", "SUCCEEDED", "DECLINED", "UNKNOWN"}) @@
  ("authentication.status"      :> {"REQUIRED", "CHALLENGE_PENDING", "AUTHENTICATED", "FAILED", "UNKNOWN"}) @@
  ("callback.delivery_status"   :> {"NOT_RECEIVED", "DELIVERED", "FAILED", "UNKNOWN"}) @@
  ("configuration.check_result" :> {"MERCHANT_SIDE_MISMATCH", "PSP_PROFILE_MISMATCH", "NO_MISMATCH", "UNKNOWN"})

(* An item that says its fact is unavailable has no value to check.        *)
Fits(i) ==
  i.value # Unavailable /\ i.code \in DOMAIN FieldCatalog => i.value \in FieldCatalog[i.code]

-----------------------------------------------------------------------------
(* The active view.                                                        *)
Given(E, code) == {i \in E : i.code = code}
Available(E, code) == {i \in Given(E, code) : i.value # Unavailable}

Conflicting(E, code) == Cardinality({i.value : i \in Available(E, code)}) > 1

Better(i, j) ==
  \/ SourceQuality[i.source] > SourceQuality[j.source]
  \/ SourceQuality[i.source] = SourceQuality[j.source] /\ i.id < j.id

(* The item a code counts with: none when its values disagree.             *)
Selected(E, code) ==
  IF Conflicting(E, code) THEN {}
  ELSE {i \in Available(E, code) : \A j \in Available(E, code) \ {i} : Better(i, j)}

KnownUnknown(E, code) == Given(E, code) # {} /\ Available(E, code) = {}

-----------------------------------------------------------------------------
(* Readiness. The symptom is one row answered by any of several codes.     *)
Symptoms ==
  {"symptom.status", "symptom.error_code", "authentication.status", "authentication.result_code",
   "callback.delivery_status", "risk.decision_code", "configuration.check_result"}

CodesOf(row) == IF row = "symptom.signal" THEN Symptoms ELSE {row}

CoreRows ==
  {"transaction.reference", "transaction.occurred_at", "context.environment", "symptom.signal"}

PluginActive(E) == \E i \in Selected(E, "integration.type") : i.value = "PLUGIN"

ActiveRows(E) ==
  CoreRows \union {"integration.type"}
    \union (IF PluginActive(E) THEN {"integration.platform", "integration.plugin_version"} ELSE {})

Answered(E, row) == \E c \in CodesOf(row) : Available(E, c) # {}
ConfirmedUnknown(E, row) == \A c \in CodesOf(row) : KnownUnknown(E, c)
Missing(E, row) == ~Answered(E, row) /\ ~ConfirmedUnknown(E, row)

Rows == CoreRows \union {"integration.type", "integration.platform", "integration.plugin_version"}

Readings ==
  [missing : SUBSET Rows, unknown : SUBSET Rows,
   stop : {"NEED_MORE_EVIDENCE", "CONFIRMED_UNKNOWN", "READY"}]

(* missing_fields lists a core row that is confirmed unknown as well. The  *)
(* question asked next and the completion ratio follow from these.         *)
Readiness(E) ==
  LET open    == {r \in ActiveRows(E) : Missing(E, r)}
      unknown == {r \in ActiveRows(E) : ConfirmedUnknown(E, r)}
  IN  [missing |-> open \union (unknown \intersect CoreRows),
       unknown |-> unknown \ CoreRows,
       stop    |-> IF open # {} THEN "NEED_MORE_EVIDENCE"
                   ELSE IF unknown \intersect CoreRows # {} THEN "CONFIRMED_UNKNOWN" ELSE "READY"]

Ready(r) == r.stop = "READY"

-----------------------------------------------------------------------------
(* The rules: what each asks of the facts, and whom it is for.             *)
Mismatch(result) ==
  {<<"symptom.status", {"PENDING", "FAILED"}>>,
   <<"context.environment", FieldCatalog["context.environment"]>>,
   <<"payment.method", FieldCatalog["payment.method"]>>,
   <<"configuration.check_result", {result}>>}

RuleBook ==
  {[id |-> "THREEDS_INCOMPLETE_V1", team |-> "TECHNICAL_SUPPORT", forced |-> {},
    needs |-> {<<"symptom.status", {"PENDING", "FAILED"}>>,
               <<"authentication.status", {"REQUIRED", "CHALLENGE_PENDING", "FAILED"}>>,
               <<"callback.delivery_status", {"NOT_RECEIVED", "FAILED"}>>}],
   [id |-> "RISK_DECLINE_V1", team |-> "RISK", forced |-> {"RISK_DECISION"},
    needs |-> {<<"symptom.status", {"DECLINED", "FAILED"}>>,
               <<"risk.decision_code", {"RISK_DECLINE"}>>}],
   [id |-> "CONFIG_MISMATCH_MERCHANT_V1", team |-> "TECHNICAL_SUPPORT", forced |-> {},
    needs |-> Mismatch("MERCHANT_SIDE_MISMATCH")],
   [id |-> "CONFIG_MISMATCH_PSP_V1", team |-> "PSP_SUPPORT", forced |-> {},
    needs |-> Mismatch("PSP_PROFILE_MISMATCH")]}

Matches(rule, E) == \A n \in rule.needs : \E i \in Selected(E, n[1]) : i.value \in n[2]

Decisive(rule, E) == UNION {Selected(E, n[1]) : n \in rule.needs}

(* The confidence is half coverage, three tenths the poorest source and a  *)
(* fifth consistency; the rules give full coverage and consistency.        *)
Doubts(items) ==
  LET poorest == CHOOSE q \in {SourceQuality[i.source] : i \in items} :
                   \A i \in items : q <= SourceQuality[i.source]
  IN  (IF 50 * 100 + 30 * poorest + 20 * 100 < 90 * 100 THEN {"LOW_CONFIDENCE"} ELSE {})
      \union (IF poorest < 75 THEN {"INSUFFICIENT_SOURCE_QUALITY"} ELSE {})

(* A draft has at most one hypothesis, one route and one ticket.           *)
HumanOnly(reason) ==
  [hypotheses |-> {}, routes |-> {}, tickets |-> {}, human |-> TRUE, reasons |-> {reason}]

Advised(rule, items) ==
  LET reasons == rule.forced \union Doubts(items)
      guess   == [rule |-> rule.id, refs |-> {i.id : i \in items}]
  IN  [hypotheses |-> {guess},
       routes  |-> {[team |-> rule.team, refs |-> guess.refs,
                     human |-> reasons # {}, reasons |-> reasons]},
       tickets |-> {[team |-> rule.team, hypotheses |-> {guess}]},
       human   |-> reasons # {}, reasons |-> reasons]

(* No route and no hypothesis when values disagree, when no rule matches   *)
(* or when several do.                                                     *)
Evaluate(E) ==
  LET matched == {r \in RuleBook : Matches(r, E)}
  IN  IF (\E i \in E : Conflicting(E, i.code)) \/ Cardinality(matched) > 1
      THEN HumanOnly("CONFLICTING_EVIDENCE")
      ELSE IF matched = {} THEN HumanOnly("POLICY_GAP")
      ELSE LET rule == CHOOSE r \in matched : TRUE IN Advised(rule, Decisive(rule, E))
=============================================================================
