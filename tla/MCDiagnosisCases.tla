-------------------------- MODULE MCDiagnosisCases --------------------------
(* A case with the core facts answered, the items that still may come, and *)
(* the requests that bring and judge them.                                 *)
EXTENDS DiagnosisCases

CONSTANTS t1, t2

Said(id, code, value) == Item(id, code, value, "USER_REPORTED")
Measured(id, code, value) == Item(id, code, value, "SYNTHETIC_TEST")

Core ==
  {Measured(1, "transaction.reference", "txn"), Measured(2, "transaction.occurred_at", "noon"),
   Measured(3, "context.environment", "PROD"), Measured(5, "symptom.status", "FAILED")}

Almost == Core \union {Measured(6, "authentication.status", "REQUIRED"),
                       Measured(7, "callback.delivery_status", "FAILED")}

NoType  == Said(8, "integration.type", Unavailable)
Plugin  == Said(9, "integration.type", "PLUGIN")
Other   == Said(4, "symptom.status", "PENDING")
Same    == Said(4, "symptom.status", "FAILED")
Risk    == Measured(10, "risk.decision_code", "RISK_DECLINE")
Method  == Said(11, "payment.method", "CARD")
Misfit  == Said(12, "integration.type", "POS")

Begins == {None, Almost \union {NoType}}

Add(i) == [kind |-> "ADD", item |-> i]
Ask(kind) == [kind |-> kind]

Asked ==
  {Add(NoType), Add(Plugin), Add(Other), Add(Same), Add(Risk), Add(Method), Add(Misfit),
   Ask("DIAGNOSE"), Ask("CREATE"), Ask("SHOW")}

Released == <<"POLICY_V1", "POLICY_V2">>

Alike == Permutations(Threads)
=============================================================================
