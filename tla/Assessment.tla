------------------------------ MODULE Assessment ------------------------------
(***************************************************************************)
(* What the program makes of the row of a chargeback case without a model: *)
(* the evidence its reason still asks for, the gate that follows from it,  *)
(* and the phase the supervisor shows (domain/chargeback.py,               *)
(* ChargebackSupervisor.snapshot).                                         *)
(***************************************************************************)
EXTENDS ChargebackCases

CONSTANTS Policies,       \* for each reason, the evidence [required, critical]
          DefaultReason   \* of a description that nothing could classify

ASSUME PoliciesAssumption ==
  /\ None \notin Reasons
  /\ DOMAIN Policies = Reasons /\ DefaultReason \in Reasons
  /\ \A r \in Reasons :
       /\ Policies[r].required \in Seq(Codes) \ {<<>>} /\ IsInjective(Policies[r].required)
       /\ Policies[r].critical \subseteq ToSet(Policies[r].required)

(* IntakeAgent.classify: the model may answer any reason, sure of it or    *)
(* not; keywords are taken as sure; else a default is proposed.            *)
Classified ==
  [reason : Reasons, confident : BOOLEAN]           \* an answer of the model
  \cup [reason : Reasons, confident : {TRUE}]       \* a plain answer, or keywords
  \cup {[reason |-> DefaultReason, confident |-> FALSE]}

RequiredFor(reason) == Policies[reason].required

Absent(s) == ToSet(RequiredFor(s.reason)) \ Collected(s)

AbsentCritical(s) == Absent(s) \cap Policies[s.reason].critical

MaterialGate(s) ==
  CASE AbsentCritical(s) # {} -> "CRITICAL_MISSING"
    [] AbsentCritical(s) = {} /\ Absent(s) # {} -> "LIMITED"
    [] Absent(s) = {} -> "READY_FOR_REVIEW"

(* The one code the merchant is asked for next: the first in the order of  *)
(* the policy, of the critical ones if any is missing.                     *)
NextEvidence(s) ==
  LET required == RequiredFor(s.reason)
      wanted == IF AbsentCritical(s) # {} THEN AbsentCritical(s) ELSE Absent(s) IN
  IF wanted = {} THEN None
  ELSE required[Min({i \in DOMAIN required : required[i] \in wanted})]

(* Collection that was declared finished stops the questions, unless a     *)
(* critical code is missing.                                               *)
Asking(s) ==
  \/ MaterialGate(s) = "CRITICAL_MISSING"
  \/ MaterialGate(s) = "LIMITED" /\ ~s.finalized

Snapshot(s) ==
  CASE s.reason = None -> [phase |-> "NEEDS_INTAKE", next |-> None]
    [] s.reason # None /\ ~s.confirmed -> [phase |-> "REASON_PROPOSED", next |-> None]
    [] s.reason # None /\ s.confirmed ->
         IF Asking(s) THEN [phase |-> "NEED_EVIDENCE", next |-> NextEvidence(s)]
         ELSE [phase |-> "ASSESSED", next |-> None]
=============================================================================
