---------------------------- MODULE CommandStore ----------------------------
(***************************************************************************)
(* DisputeService.execute over DisputeStore.execute_atomic: HTTP workers   *)
(* run commands against one SQLite file. A client may resend a command     *)
(* whose answer it lost, two clients may send the same upstream event      *)
(* under identifiers of their own or write from revisions read long ago,   *)
(* the process may die at any point. A snapshot is the list of commands in *)
(* its audit list; what each one does to the case is DisputeCase.          *)
(***************************************************************************)
EXTENDS Naturals, Sequences, FiniteSets

CONSTANTS Workers,   \* the worker threads, each serving one request
          Cases,     \* the case identifiers
          Orders,    \* the commands clients send, expected_revision aside:
                     \* [id, action, case, event, upstream, content]
          Revisions, \* the revisions a client may name as expected
          MaxAnswers, \* bound: how many delivered answers a run remembers
          NoWorker, NoRow, NoCase, NoEvent

ASSUME OrderAssumption ==
  /\ \A o \in Orders : o.action \in {"INTAKE", "REPORT", "CHANGE"} /\ o.case \in Cases
  /\ \A o \in Orders : o.event = NoEvent <=> o.action = "CHANGE"
  /\ \A o, p \in Orders : o.event = p.event => o.action = p.action
  /\ 0 \in Revisions /\ Revisions \subseteq Nat
  /\ NoCase \notin Cases /\ NoWorker \notin Workers

VARIABLES db,        \* the committed tables
          lock,      \* who is past BEGIN IMMEDIATE
          pc,        \* where each worker is
          request,   \* the command it serves
          draft,     \* the tables as its transaction would leave them
          receipt,   \* the receipt it will answer with
          answers    \* the success answers clients received

serving == <<pc, request, draft, receipt>>
vars == <<db, lock, serving, answers>>

Command == [order : Orders, expected : Revisions]
Receipt == [case : Cases, revision : Nat]
Ids == {o.id : o \in Orders}
Events == {o.event : o \in Orders} \ {NoEvent}
Upstreams == {o.upstream : o \in Orders}

Tables ==
  [snapshot : [Cases -> Seq(Command)],
   commands : [Ids -> {NoRow} \cup [command : Command, receipt : Receipt]],
   events : [Events -> {NoRow} \cup [content : {o.content : o \in Orders}, receipt : Receipt]],
   links : [Upstreams -> {NoCase} \cup Cases]]

ASSUME RowAssumption ==
  /\ NoRow \notin [command : Command, receipt : Receipt]
  /\ NoRow \notin [content : {o.content : o \in Orders}, receipt : Receipt]

EmptyTables ==
  [snapshot |-> [c \in Cases |-> <<>>],
   commands |-> [i \in Ids |-> NoRow],
   events |-> [e \in Events |-> NoRow],
   links |-> [u \in Upstreams |-> NoCase]]

Init ==
  /\ db = EmptyTables /\ lock = NoWorker /\ answers = {}
  /\ pc = [w \in Workers |-> "idle"]
  /\ request = [w \in Workers |-> NoRow]
  /\ draft = [w \in Workers |-> NoRow]
  /\ receipt = [w \in Workers |-> NoRow]

-----------------------------------------------------------------------------
(* What the statements of one transaction read and write.                  *)

Revision(d, c) == Len(d.snapshot[c])
Intake(k) == k.order.action = "INTAKE"
Linked(d, k) == Intake(k) /\ d.links[k.order.upstream] # NoCase
Resolved(d, k) == IF Linked(d, k) THEN d.links[k.order.upstream] ELSE k.order.case

EventRowOfCase(d, k) ==      \* slip: looks the event up within the named case
  IF \/ k.order.event = NoEvent
     \/ /\ d.events[k.order.event] # NoRow
        /\ d.events[k.order.event].receipt.case # k.order.case
  THEN NoRow
  ELSE d.events[k.order.event]

EventRow(d, k) == IF k.order.event = NoEvent THEN NoRow ELSE d.events[k.order.event]

CommandRow(d, k) == d.commands[k.order.id]

(* The saved receipt of the same command by the same actor.                *)
Repeated(d, k) == CommandRow(d, k) # NoRow /\ CommandRow(d, k).command = k

(* A new identifier for an event already recorded with the same content.   *)
Reported(d, k) ==
  /\ CommandRow(d, k) = NoRow
  /\ EventRow(d, k) # NoRow
  /\ Intake(k) \/ EventRow(d, k).receipt.case = k.order.case
  /\ EventRow(d, k).content = k.order.content

Admitted(d, k) ==
  /\ CommandRow(d, k) = NoRow /\ EventRow(d, k) = NoRow
  /\ IF Intake(k)
     THEN d.snapshot[Resolved(d, k)] = <<>> \/ Linked(d, k)
     ELSE /\ d.snapshot[k.order.case] # <<>>
          /\ k.expected = Revision(d, k.order.case)

Saved(d, k, r) == [d.commands EXCEPT ![k.order.id] = [command |-> k, receipt |-> r]]

LinksForgotten(d, k) == d.links      \* slip: the upstream case is never linked

LinksAfter(d, k) ==
  IF Intake(k) /\ ~Linked(d, k)
  THEN [d.links EXCEPT ![k.order.upstream] = k.order.case]
  ELSE d.links

EventsAfter(d, k, r) ==
  IF k.order.event = NoEvent
  THEN d.events
  ELSE [d.events EXCEPT ![k.order.event] = [content |-> k.order.content, receipt |-> r]]

NewReceipt(d, k) ==
  [case |-> Resolved(d, k), revision |-> Revision(d, Resolved(d, k)) + 1]

Applied(d, k) ==
  [snapshot |-> [d.snapshot EXCEPT ![Resolved(d, k)] = Append(@, k)],
   commands |-> Saved(d, k, NewReceipt(d, k)),
   events |-> EventsAfter(d, k, NewReceipt(d, k)),
   links |-> LinksAfter(d, k)]

-----------------------------------------------------------------------------
(* One worker.                                                             *)

(***************************************************************************)
(* A request arrives: new, resent, or written from any revision the client *)
(* once read. INTAKE carries no expected revision.                         *)
(***************************************************************************)
Send(w, o, r) ==
  /\ pc[w] = "idle"
  /\ o.action = "INTAKE" => r = 0
  /\ o.action # "INTAKE" => r >= 1
  /\ pc' = [pc EXCEPT ![w] = "waiting"]
  /\ request' = [request EXCEPT ![w] = [order |-> o, expected |-> r]]
  /\ UNCHANGED <<db, lock, draft, receipt, answers>>

(* The worker is through with its request.                                 *)
Leave(w) ==
  /\ pc' = [pc EXCEPT ![w] = "idle"]
  /\ request' = [request EXCEPT ![w] = NoRow]
  /\ draft' = [draft EXCEPT ![w] = NoRow]
  /\ receipt' = [receipt EXCEPT ![w] = NoRow]

AcquireShared(w) ==      \* slip: BEGIN, with no write lock
  /\ pc[w] = "waiting"
  /\ lock' = w
  /\ pc' = [pc EXCEPT ![w] = "open"]
  /\ UNCHANGED <<db, request, draft, receipt, answers>>

Acquire(w) ==
  /\ pc[w] = "waiting" /\ lock = NoWorker
  /\ lock' = w
  /\ pc' = [pc EXCEPT ![w] = "open"]
  /\ UNCHANGED <<db, request, draft, receipt, answers>>

(* "database is locked" after the busy timeout: STORAGE_UNAVAILABLE.       *)
Busy(w) ==
  /\ pc[w] = "waiting" /\ lock # NoWorker
  /\ Leave(w)
  /\ UNCHANGED <<db, lock, answers>>

Stage(w, d, r) ==
  /\ draft' = [draft EXCEPT ![w] = d]
  /\ receipt' = [receipt EXCEPT ![w] = r]
  /\ pc' = [pc EXCEPT ![w] = "staged"]
  /\ UNCHANGED <<db, lock, request, answers>>

ReplayCommand(w) ==
  /\ pc[w] = "open" /\ Repeated(db, request[w])
  /\ Stage(w, db, CommandRow(db, request[w]).receipt)

ReplayEvent(w) ==
  LET k == request[w]
      r == EventRow(db, k).receipt
  IN  /\ pc[w] = "open" /\ Reported(db, k)
      /\ Stage(w, [db EXCEPT !.commands = Saved(db, k, r)], r)

Apply(w) ==
  /\ pc[w] = "open" /\ Admitted(db, request[w])
  /\ Stage(w, Applied(db, request[w]), NewReceipt(db, request[w]))

(***************************************************************************)
(* A conflict, a stale revision, a missing or an existing case, or the     *)
(* handler's own refusal of an admitted command: roll back and say so.     *)
(***************************************************************************)
RefuseUnclosed(w) ==      \* slip: the connection is not closed on the error path
  /\ pc[w] = "open" /\ ~Repeated(db, request[w]) /\ ~Reported(db, request[w])
  /\ Leave(w)
  /\ UNCHANGED <<db, lock, answers>>

Refuse(w) ==
  /\ pc[w] = "open" /\ ~Repeated(db, request[w]) /\ ~Reported(db, request[w])
  /\ Leave(w)
  /\ lock' = NoWorker
  /\ UNCHANGED <<db, answers>>

(* An sqlite3 error inside the transaction.                                *)
StorageFails(w) ==
  /\ pc[w] \in {"open", "staged"}
  /\ Leave(w)
  /\ lock' = NoWorker
  /\ UNCHANGED <<db, answers>>

Commit(w) ==
  /\ pc[w] = "staged"
  /\ db' = draft[w]
  /\ lock' = NoWorker
  /\ pc' = [pc EXCEPT ![w] = "committed"]
  /\ draft' = [draft EXCEPT ![w] = NoRow]
  /\ UNCHANGED <<request, receipt, answers>>

(* After the observers ran, whose failure changes nothing here.            *)
Respond(w) ==
  /\ pc[w] = "committed" /\ Cardinality(answers) < MaxAnswers
  /\ answers' = answers \cup
       {[command |-> request[w], case |-> receipt[w].case, revision |-> receipt[w].revision]}
  /\ Leave(w)
  /\ UNCHANGED <<db, lock>>

(* The client has gone or its connection broke: it never sees the answer.  *)
LoseAnswer(w) ==
  /\ pc[w] = "committed"
  /\ Leave(w)
  /\ UNCHANGED <<db, lock, answers>>

(* The process dies; SQLite's journal undoes what was not committed.       *)
Crash ==
  /\ \E w \in Workers : pc[w] # "idle"
  /\ pc' = [w \in Workers |-> "idle"]
  /\ request' = [w \in Workers |-> NoRow]
  /\ draft' = [w \in Workers |-> NoRow]
  /\ receipt' = [w \in Workers |-> NoRow]
  /\ lock' = NoWorker
  /\ UNCHANGED <<db, answers>>

Serve(w) ==
  \/ Acquire(w)
  \/ Busy(w)
  \/ ReplayCommand(w)
  \/ ReplayEvent(w)
  \/ Apply(w)
  \/ Refuse(w)
  \/ StorageFails(w)
  \/ Commit(w)
  \/ Respond(w)
  \/ LoseAnswer(w)

Next ==
  \/ Crash
  \/ \E w \in Workers :
       \/ Serve(w)
       \/ \E o \in Orders : \E r \in {n \in Revisions : n <= Revision(db, o.case)} :
            Send(w, o, r)

Spec == Init /\ [][Next]_vars

(* A worker thread that holds a request keeps running.                     *)
FairSpec == Spec /\ \A w \in Workers : WF_vars(Serve(w))

-----------------------------------------------------------------------------
(***************************************************************************)
(* The reads and writes stay in their types, and an open transaction is    *)
(* that of the worker holding the lock.                                    *)
(***************************************************************************)
StoreTypeOK ==
  /\ db \in Tables
  /\ lock \in Workers \cup {NoWorker}
  /\ pc \in [Workers -> {"idle", "waiting", "open", "staged", "committed"}]
  /\ request \in [Workers -> Command \cup {NoRow}]
  /\ draft = [w \in Workers |-> draft[w]]
  /\ receipt \in [Workers -> Receipt \cup {NoRow}]
  /\ answers \subseteq [command : Command, case : Cases, revision : Nat]
  /\ \A w \in Workers :
       /\ pc[w] \in {"open", "staged"} => lock = w
       /\ pc[w] # "idle" => request[w] \in Command
       /\ pc[w] = "staged" => draft[w] \in Tables
       /\ pc[w] \in {"staged", "committed"} => receipt[w] \in Receipt

(***************************************************************************)
(* Whatever is resent, duplicated, lost or interrupted, the callers see    *)
(* the abstract ledger: one effect per command and per upstream event,     *)
(* only on the revision its author saw, and answers that stand             *)
(* (execute_atomic's replay, conflict and revision checks).                *)
(***************************************************************************)
Ledger == INSTANCE CaseLedger WITH log <- db.snapshot
Implements == Ledger!LedgerSpec

(***************************************************************************)
(* A success answer is about work that is in the case now: no later        *)
(* transaction, retry or crash overwrites an acknowledged revision.        *)
(***************************************************************************)
AnswersStand ==
  \A a \in answers :
    /\ a.revision \in 1 .. Revision(db, a.case)
    /\ Ledger!Serves(db.snapshot[a.case][a.revision], a.command)

(***************************************************************************)
(* Notices of one upstream case never open two cases, even when they       *)
(* arrive at once, under different events and command identifiers          *)
(* (v2_dispute_upstream_cases).                                            *)
(***************************************************************************)
OneCasePerUpstream ==
  \A c, d \in Cases :
    /\ db.snapshot[c] # <<>> /\ db.snapshot[d] # <<>>
    /\ db.snapshot[c][1].order.upstream = db.snapshot[d][1].order.upstream
    => c = d

(***************************************************************************)
(* Writing never stops for good: every path out of a transaction, error    *)
(* paths included, gives the lock back.                                    *)
(***************************************************************************)
WritesResume == []<>(lock = NoWorker)
=============================================================================
