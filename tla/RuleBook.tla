------------------------------- MODULE RuleBook -------------------------------
(***************************************************************************)
(* The catalogue of card network rules (SqliteRuleRepository) as a set of  *)
(* rows, seeded anew by every release, and the rule it has for a case. A   *)
(* row is [id, scheme, reason, mapped, version, needs, window]: the rule of*)
(* a network, the internal reason it stands for, whether it may be used or *)
(* is only displayed, its edition, the evidence it requires in order, and  *)
(* whether it has a submission window.                                     *)
(***************************************************************************)
EXTENDS Naturals, FiniteSets, Sequences, SequencesExt

Ids(rows) == {x.id : x \in rows}

-----------------------------------------------------------------------------
(* Seeding, in one transaction.                                            *)

DeleteUnseeded(rows, seeds) == {x \in rows : x.id \in Ids(seeds)}

Upsert(rows, seeds) == {x \in rows : x.id \notin Ids(seeds)} \cup seeds

Seed(rows, seeds) == Upsert(DeleteUnseeded(rows, seeds), seeds)

-----------------------------------------------------------------------------
(* The one usable row for a network and a reason.                          *)

Mapped(rows, scheme, reason) ==
  {x \in rows : x.scheme = scheme /\ x.reason = reason /\ x.mapped}

(* lookup fails for a catalogue with two such rows, or with one that lacks *)
(* evidence or a window.                                                   *)
Usable(rows) ==
  \A x \in rows : x.mapped =>
    /\ Mapped(rows, x.scheme, x.reason) = {x}
    /\ x.needs # <<>> /\ IsInjective(x.needs) /\ x.window

DemoRule(x) ==
  [source |-> "network-guidance", reason |-> x.reason, id |-> x.id, version |-> x.version,
   evidence |-> x.needs]

(* The catalogue goes before the rules built into the program, which name  *)
(* no row; without a network there is only the default one.                *)
BuiltIn(source, reason, needs) ==
  [source |-> source, reason |-> reason, id |-> "", version |-> "", evidence |-> needs]

Lookup(rows, scheme, builtIn) ==
  LET found == Mapped(rows, scheme, builtIn.reason) IN
  IF found = {} THEN builtIn ELSE DemoRule(CHOOSE x \in found : TRUE)

Detail(rows, entry) == {x \in rows : x.id = entry.id}

(* Only a rule with its whole provenance counts as an exact one.           *)
IsExact(entry) == entry.source # "default" /\ entry.id # ""
=============================================================================
