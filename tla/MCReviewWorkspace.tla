-------------------------- MODULE MCReviewWorkspace --------------------------
(* Two reasons; one that asks for two codes, one that asks for one.        *)
EXTENDS ReviewWorkspace

CONSTANTS fraud, lost, visa, mastercard, threeds, receipt

Policy == (fraud :> [required |-> <<receipt, threeds>>, critical |-> {threeds}])
          @@ (lost :> [required |-> <<receipt>>, critical |-> {}])

BuiltInRules == {<<visa, lost>>}

Rule(id, scheme, reason, mapped, version) ==
  [id |-> id, scheme |-> scheme, reason |-> reason, mapped |-> mapped, version |-> version,
   needs |-> RequiredFor(reason), window |-> TRUE]

(* A new edition of the rule for fraud; then it is only displayed, and the *)
(* other network has none.                                                 *)
Seeds ==
  <<{Rule("visa-fraud", visa, fraud, TRUE, 1), Rule("mc-fraud", mastercard, fraud, TRUE, 1),
     Rule("visa-lost", visa, lost, TRUE, 1)},
    {Rule("visa-fraud", visa, fraud, TRUE, 2), Rule("mc-fraud", mastercard, fraud, TRUE, 1),
     Rule("visa-lost", visa, lost, TRUE, 1)},
    {Rule("visa-fraud", visa, fraud, FALSE, 2)}>>

Sample(b) == {[reason |-> fraud, network |-> visa, critical |-> threeds, reviewed |-> b]}

Order == <<receipt, threeds>>

Load(r, x, a, c, t, s, b) ==
  [revisions |-> r, samples |-> x, actions |-> a, channel |-> c, turns |-> t, summaries |-> s, books |-> b]

Mixes ==
  {Load(6, Sample(FALSE), {"REGISTER_MATERIAL", "WITHDRAW_MATERIAL", "REVIEW"}, TRUE, FALSE, FALSE, 1),
   Load(8, Sample(TRUE), {"REGISTER_MATERIAL", "REVIEW"}, TRUE, FALSE, FALSE, 1),
   Load(4, {}, {"CONFIRM_REASON", "SET_NETWORK", "RESOLVE_CONCERN", "FINALIZE"}, TRUE, FALSE, FALSE, 1),
   Load(3, {}, {"CONFIRM_REASON", "SET_NETWORK"}, FALSE, TRUE, FALSE, 2),
   Load(6, Sample(FALSE), {"ADD_CONCERN", "RESOLVE_CONCERN"}, FALSE, FALSE, FALSE, 1),
   Load(6, Sample(FALSE), {"REGISTER_MATERIAL", "RESOLVE_CONCERN"}, TRUE, TRUE, FALSE, 1),
   Load(5, Sample(FALSE), {"REGISTER_MATERIAL", "REVIEW"}, FALSE, TRUE, FALSE, 3),
   Load(5, Sample(FALSE), {"REGISTER_MATERIAL", "REVIEW", "ADD_CONCERN"}, FALSE, FALSE, TRUE, 2)}
=============================================================================
