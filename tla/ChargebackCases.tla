--------------------------- MODULE ChargebackCases ---------------------------
(***************************************************************************)
(* The row of a chargeback case and its evidence, as                       *)
(* SqliteChargebackCaseStore keeps them, and the requests of the channel   *)
(* service, which load a state, change it in memory and save it in a later *)
(* transaction that compares no revision.                                  *)
(***************************************************************************)
EXTENDS Naturals, Sequences, SequencesExt

CONSTANTS Reasons, Networks,
          Catalogue,    \* the evidence codes, in the order of their values
          Threads,      \* requests of the channel service served at a time
          None

ASSUME CatalogueAssumption == IsInjective(Catalogue)

VARIABLES case,         \* the row, with the revision each code was added at
          loaded        \* the state a request of the channel is to save

caseVars == <<case, loaded>>

Codes == ToSet(Catalogue)

NewCase ==
  [revision |-> 0, reason |-> None, confirmed |-> FALSE, finalized |-> FALSE,
   network |-> None, added |-> [c \in Codes |-> 0]]

CasesInit == case = NewCase /\ loaded = [w \in Threads |-> None]

(* A case is created with its reason, in one transaction.                  *)
Exists == case.revision > 0

Collected(s) == {c \in Codes : s.added[c] > 0}

Position(c) == CHOOSE i \in DOMAIN Catalogue : Catalogue[i] = c

(* The last one added; of two added at once, the last in the catalogue.    *)
IsLatest(s, c) ==
  /\ c \in Collected(s)
  /\ \A d \in Collected(s) :
       \/ s.added[d] < s.added[c]
       \/ s.added[d] = s.added[c] /\ Position(d) <= Position(c)

-----------------------------------------------------------------------------
(* The store. A state s replaces the row r, or is refused.                 *)

\* slip: a reason that was confirmed is not compared
RejectsLess(r, s) ==
  \/ ~(Collected(r) \subseteq Collected(s)) \/ s.network # r.network
  \/ r.finalized /\ ~s.finalized

(* Evidence is append-only; a reason is never unset, and once confirmed is *)
(* immutable; confirmation and finalization are latches; the network is    *)
(* written by its own command.                                             *)
Rejects(r, s) ==
  \/ ~(Collected(r) \subseteq Collected(s)) \/ s.network # r.network
  \/ r.reason # None /\ s.reason = None
  \/ r.confirmed /\ (s.reason # r.reason \/ ~s.confirmed)
  \/ r.finalized /\ ~s.finalized

Adds(r, s) ==
  \/ s.reason # r.reason \/ Collected(s) # Collected(r)
  \/ s.confirmed /\ ~r.confirmed
  \/ s.finalized /\ ~r.finalized

Merged(r, s, revision) ==
  [s EXCEPT !.revision = revision,
            !.added = [c \in Codes |-> IF c \in Collected(s) \ Collected(r)
                                       THEN r.revision + 1 ELSE r.added[c]]]

Saved(r, s) == IF Adds(r, s) THEN Merged(r, s, r.revision + 1) ELSE r

Withdrawn(r, c) ==
  [r EXCEPT !.revision = @ + 1, !.finalized = FALSE, !.added[c] = 0]

WithNetwork(r, n) ==
  IF r.network = n THEN r ELSE [r EXCEPT !.revision = @ + 1, !.network = n]

-----------------------------------------------------------------------------
(* The channel service.                                                    *)

Submitted(s, c) == [s EXCEPT !.added[c] = s.revision + 1]

Finalized(s) == [s EXCEPT !.finalized = TRUE]

LoadFor(w) ==
  /\ Exists /\ loaded[w] = None
  /\ \E s \in {Submitted(case, c) : c \in Codes \ Collected(case)} \cup {Finalized(case)} :
       loaded' = [loaded EXCEPT ![w] = s]
  /\ UNCHANGED case

Save(w) ==
  /\ loaded[w] # None /\ loaded' = [loaded EXCEPT ![w] = None]
  /\ case' = IF Rejects(case, loaded[w]) THEN case ELSE Saved(case, loaded[w])

WithdrawLatest(c) ==
  /\ IsLatest(case, c) /\ case' = Withdrawn(case, c)
  /\ UNCHANGED loaded
=============================================================================
