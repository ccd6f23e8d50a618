----------------------------- MODULE CaseLedger -----------------------------
(***************************************************************************)
(* What the V2 command service promises its callers, whatever they resend: *)
(* each case is a list of the commands that took effect on it, nothing     *)
(* takes effect twice, a change takes effect only on the revision its      *)
(* author had seen, and a success answer names an entry that stays.        *)
(* CommandStore implements this.                                           *)
(***************************************************************************)
EXTENDS Naturals, Sequences

CONSTANTS Cases,    \* the case identifiers
          Orders,   \* what callers may ask for, the expected revision aside
          Revisions,  \* the expected revisions callers may name
          NoEvent   \* the event of an order that reports no upstream event

VARIABLES log,      \* for each case, the commands that took effect, in order
          answers   \* the success answers callers have received

ledgerVars == <<log, answers>>

Command == [order : Orders, expected : Revisions]

(***************************************************************************)
(* Two commands that must not both take effect: one command identifier, or *)
(* one upstream event reported under two identifiers.                      *)
(***************************************************************************)
Same(j, k) ==
  \/ j.order.id = k.order.id
  \/ j.order.event # NoEvent /\ j.order.event = k.order.event

(***************************************************************************)
(* Entry j serves as the effect of command k: it is k, or it reported the  *)
(* same event with the same content.                                       *)
(***************************************************************************)
Serves(j, k) ==
  \/ j = k
  \/ /\ j.order.event # NoEvent /\ j.order.event = k.order.event
     /\ j.order.content = k.order.content

LedgerInit ==
  /\ log = [c \in Cases |-> <<>>]
  /\ answers = {}

TakeEffect(c, k) ==
  /\ \A d \in Cases : \A i \in DOMAIN log[d] : ~Same(log[d][i], k)
  /\ \/ k.order.action = "INTAKE"
     \/ /\ log[c] # <<>> /\ k.order.case = c
        /\ k.expected = Len(log[c])
  /\ log' = [log EXCEPT ![c] = Append(@, k)]
  /\ UNCHANGED answers

Answer(c, i, k) ==
  /\ Serves(log[c][i], k)
  /\ \A a \in answers : a.command.order.id = k.order.id => a.command = k
  /\ answers' = answers \cup {[command |-> k, case |-> c, revision |-> i]}
  /\ UNCHANGED log

LedgerNext ==
  \E c \in Cases, k \in Command :
    \/ TakeEffect(c, k)
    \/ \E i \in DOMAIN log[c] : Answer(c, i, k)

LedgerSpec == LedgerInit /\ [][LedgerNext]_ledgerVars
=============================================================================
