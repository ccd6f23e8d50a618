----------------------------- MODULE EngineView -----------------------------
(***************************************************************************)
(* The dispute command engine as the code around it sees it: each case is  *)
(* the list of commands that took effect on it (CommandStore implements    *)
(* this, DisputeCase says what each command does). The inbox, the Feishu   *)
(* callbacks, the private chats and the desk of the staff are clients.     *)
(* A case stands for its upstream case, so its link table is left out.     *)
(***************************************************************************)
EXTENDS Naturals, Sequences, FiniteSets

CONSTANTS Cases,       \* the cases
          MaxRevision, \* bound: how far the revision of a case may go
          NoEvent      \* the event of a command that reports none

ASSUME EngineAssumption == MaxRevision \in Nat

VARIABLE ledger        \* for each case, the commands that took effect

Entries(c) == {ledger[c][i] : i \in DOMAIN ledger[c]}
Revision(c) == Len(ledger[c])
Stage(c) == 1 + Cardinality({i \in DOMAIN ledger[c] : ledger[c][i].action = "NEXT_STAGE"})

(* CLOSED, or final: no report is taken before an authorized reopening.    *)
Closed(c) ==
  \E i \in DOMAIN ledger[c] :
    /\ ledger[c][i].action = "CLOSE"
    /\ \A j \in i .. Len(ledger[c]) : ledger[c][j].action # "REOPEN_CASE"

EngineInit == ledger = [c \in Cases |-> <<>>]

-----------------------------------------------------------------------------
(* One command: [id, action, case, event, content, expected].              *)

FreshId(k) ==      \* slip: an event counts as new under a new identifier
  \A c \in Cases : \A j \in Entries(c) : j.id # k.id

Fresh(k) ==
  \A c \in Cases : \A j \in Entries(c) :
    /\ j.id # k.id
    /\ k.event # NoEvent => j.event # k.event

Admitted(k) ==
  \/ k.action = "INTAKE"
  \/ /\ Revision(k.case) > 0
     /\ k.expected = Revision(k.case)
     /\ ~Closed(k.case) \/ k.action = "REOPEN_CASE"

(* The command takes effect, and its receipt is the new revision.          *)
Executed(k) ==
  /\ Fresh(k) /\ Admitted(k) /\ Revision(k.case) < MaxRevision
  /\ ledger' = [ledger EXCEPT ![k.case] = Append(@, k)]

(* Entry j answers for k: the same command, or the same report again.      *)
Answers(j, k) ==
  \/ j = k
  \/ j.event # NoEvent /\ j.event = k.event /\ j.content = k.content

(* The command or its event is known already: the receipt of revision r.   *)
Replayed(k, r) ==
  /\ r \in DOMAIN ledger[k.case] /\ Answers(ledger[k.case][r], k)
  /\ UNCHANGED ledger

(***************************************************************************)
(* Any DisputeError: a conflict, a stale revision, the handler's refusal,  *)
(* an account without the right, or a database that stayed busy.           *)
(***************************************************************************)
Refused(k) == UNCHANGED ledger

-----------------------------------------------------------------------------
(* Everybody else's commands.                                              *)

OtherCommand(c, a) ==
  [id |-> <<"other", c, Revision(c) + 1>>, action |-> a, case |-> c, event |-> NoEvent,
   content |-> Stage(c), expected |-> Revision(c)]

OtherWork(c, a) ==
  /\ a = "INTAKE" <=> Revision(c) = 0
  /\ a = "REOPEN_CASE" <=> Closed(c)
  /\ Executed(OtherCommand(c, a))
=============================================================================
