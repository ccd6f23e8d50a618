---------------------------- MODULE IntakeInbox -----------------------------
(***************************************************************************)
(* The normalized upstream inbox (DisputeIntakeService over its SQLite     *)
(* store): operators confirm source events, each is remembered once, and   *)
(* every try at turning it into a command is written down before the       *)
(* command is dispatched, so that it can be resumed after a crash. The     *)
(* inbox and the engine are two databases.                                 *)
(***************************************************************************)
EXTENDS EngineView

CONSTANTS Operators,   \* the staff accounts that confirm source events
          Threads,     \* the server threads that serve them
          Envelopes,   \* the source events: [source, type, case, stage, outcome, final]
          MaxAttempts, \* bound: tries at one event
          NoReceipt

EventTypes == {"FORMAL_DISPUTE", "ALERT", "INQUIRY", "WITHDRAWAL", "CORRECTION"}

(* _envelope: what is let in at all. A withdrawal is terminal, and a stage *)
(* is positive where the event names one (0: it names none).               *)
WellFormed(e) ==
  /\ e.type \in EventTypes /\ e.stage \in Nat
  /\ e.type = "WITHDRAWAL" => e.outcome = "WITHDRAWN" /\ e.final

(* Another content under the identifier of a known event is refused.       *)
ASSUME EnvelopeAssumption ==
  /\ \A e \in Envelopes :
       WellFormed(e) /\ e.type # "CORRECTION" /\ e.case \in Cases /\ e.source # NoEvent
  /\ \A e, f \in Envelopes : e.source = f.source => e = f
  /\ MaxAttempts \in Nat /\ NoReceipt \notin Nat

VARIABLES registered,  \* the registry agrees on the facts of the events
          inbox,       \* the rows of v21_intake_events
          work         \* what each thread is doing

inboxVars == <<registered, inbox, work>>

Idle == [phase |-> "idle"]
NotReceived == [status |-> "NONE", attempts |-> <<>>, receipt |-> NoReceipt]

InboxInit ==
  /\ registered = FALSE
  /\ inbox = [e \in Envelopes |-> NotReceived]
  /\ work = [t \in Threads |-> Idle]

(* Registered facts are immutable. Wrong ones do for good what none do: no *)
(* event of the transaction passes.                                        *)
StoreFacts == ~registered /\ registered' = TRUE

Register ==
  /\ StoreFacts
  /\ UNCHANGED <<ledger, inbox, work>>

(* _validate: what keeps an event out of the engine.                       *)
Quarantined(e) ==
  \/ ~registered
  \/ e.type = "WITHDRAWAL" /\ (Revision(e.case) = 0 \/ Closed(e.case))

Outcome(e) ==
  CASE Quarantined(e) -> "QUARANTINED"
    [] ~Quarantined(e) /\ e.type \in {"ALERT", "INQUIRY"} -> "RECORDED"
    [] OTHER -> "PROCESSING"

CommandId(e, n) == <<"inbox", e.source, n>>

(* A report names the stage of the case as it stands, unless it says which. *)
CommandFor(e, n) ==
  IF e.type = "FORMAL_DISPUTE"
  THEN [id |-> CommandId(e, n), action |-> "INTAKE", case |-> e.case, event |-> e.source,
        content |-> 0, expected |-> 0]
  ELSE [id |-> CommandId(e, n), action |-> "RECORD_OUTCOME", case |-> e.case,
        event |-> e.source, content |-> IF e.stage = 0 THEN Stage(e.case) ELSE e.stage,
        expected |-> Revision(e.case)]

Try(e, a, n) ==
  [actor |-> a, status |-> Outcome(e), command |-> CommandFor(e, n)]

Pending(e) == inbox[e].attempts[Len(inbox[e].attempts)]

Dispatching(e, n) == [phase |-> "dispatch", event |-> e, number |-> n]

-----------------------------------------------------------------------------
(***************************************************************************)
(* receive and retry_event up to the prepared try. A row in PROCESSING is  *)
(* resumed by the operator of its last try and by nobody else.             *)
(***************************************************************************)
StartOn(t, e, a) ==
  IF inbox[e].status = "PROCESSING"
  THEN /\ Pending(e).actor = a
       /\ work' = [work EXCEPT ![t] = Dispatching(e, Len(inbox[e].attempts))]
  ELSE /\ Len(inbox[e].attempts) < MaxAttempts
       /\ work' = [work EXCEPT ![t] =
            [phase |-> "prepare", event |-> e, actor |-> a,
             try |-> Try(e, a, Len(inbox[e].attempts) + 1),
             seen |-> Len(inbox[e].attempts)]]

(* A source event is kept once: later receptions find the row.             *)
Remembered(e) == [inbox EXCEPT ![e].status = IF @ = "NONE" THEN "RECEIVED" ELSE @]

Receive(t, e, a) ==
  /\ work[t] = Idle /\ inbox[e].status \in {"NONE", "RECEIVED", "PROCESSING"}
  /\ inbox' = Remembered(e)
  /\ StartOn(t, e, a)
  /\ UNCHANGED <<ledger, registered>>

RetryEvent(t, e, a) ==
  /\ work[t] = Idle /\ inbox[e].status \notin {"NONE", "PROCESSED", "RECORDED"}
  /\ StartOn(t, e, a)
  /\ UNCHANGED <<ledger, registered, inbox>>

FirstTry(e, seen) == Len(inbox[e].attempts) = seen /\ inbox[e].status # "PROCESSED"

Replacing(old, try) ==   \* slip: the new try takes the place of the last
  IF old = <<>> THEN <<try>> ELSE [old EXCEPT ![Len(old)] = try]

Keeping(old, try) == Append(old, try)

(***************************************************************************)
(* prepare: the first of concurrent tries is stored, the others are        *)
(* dropped; then the stored one is dispatched, by its own operator.        *)
(***************************************************************************)
Prepare(t) ==
  LET w == work[t]
      e == w.event
  IN  /\ w.phase = "prepare"
      /\ inbox' = IF FirstTry(e, w.seen)
                  THEN [inbox EXCEPT ![e].attempts = Keeping(@, w.try),
                                     ![e].status = w.try.status]
                  ELSE inbox
      /\ work' = [work EXCEPT ![t] =
            IF inbox'[e].status = "PROCESSING"
               /\ inbox'[e].attempts[Len(inbox'[e].attempts)].actor = w.actor
            THEN Dispatching(e, Len(inbox'[e].attempts))
            ELSE Idle]
      /\ UNCHANGED <<ledger, registered>>

Finishing(w, status, receipt) ==
  [phase |-> "finish", event |-> w.event, number |-> w.number,
   status |-> status, receipt |-> receipt]

TakenAsDone(w, k) ==   \* slip: a conflict is taken for a repetition
  Finishing(w, "PROCESSED", k.expected + 1)

Failing(w, k) == Finishing(w, "QUARANTINED", NoReceipt)

(* disputes.execute on the command of the try, byte for byte as prepared.  *)
Dispatch(t) ==
  LET w == work[t]
      k == inbox[w.event].attempts[w.number].command
  IN  /\ w.phase = "dispatch"
      /\ \/ /\ Executed(k)
            /\ work' = [work EXCEPT ![t] = Finishing(w, "PROCESSED", Revision(k.case) + 1)]
         \/ \E r \in DOMAIN ledger[k.case] :
              /\ Replayed(k, r)
              /\ work' = [work EXCEPT ![t] = Finishing(w, "PROCESSED", r)]
         \/ /\ Refused(k)
            /\ work' = [work EXCEPT ![t] = Failing(w, k)]
      /\ UNCHANGED <<registered, inbox>>

AlwaysOpen(w) == TRUE      \* slip: the result is saved whatever the row holds

OpenTry(w) ==
  Len(inbox[w.event].attempts) = w.number /\ inbox[w.event].status # "PROCESSED"

(* finish: a result that comes after a later try, or too late, is dropped. *)
Finish(t) ==
  LET w == work[t]
  IN  /\ w.phase = "finish"
      /\ inbox' = IF OpenTry(w)
                  THEN [inbox EXCEPT ![w.event].status = w.status,
                                     ![w.event].receipt = w.receipt,
                                     ![w.event].attempts[w.number].status = w.status]
                  ELSE inbox
      /\ work' = [work EXCEPT ![t] = Idle]
      /\ UNCHANGED <<ledger, registered>>

(* The result could not be saved: PENDING_RECEIPT, and the row stays.      *)
FinishFails(t) ==
  /\ work[t].phase = "finish"
  /\ work' = [work EXCEPT ![t] = Idle]
  /\ UNCHANGED <<ledger, registered, inbox>>

InboxServe(t) == Prepare(t) \/ Dispatch(t) \/ Finish(t) \/ FinishFails(t)

-----------------------------------------------------------------------------
Statuses == {"NONE", "RECEIVED", "QUARANTINED", "RECORDED", "PROCESSING", "PROCESSED"}

(***************************************************************************)
(* Rows and threads keep their shape, a thread works on a row that exists, *)
(* and a row counts as many tries as its bound allows.                     *)
(***************************************************************************)
InboxTypeOK ==
  /\ registered \in BOOLEAN
  /\ \A e \in Envelopes :
       /\ inbox[e].status \in Statuses
       /\ Len(inbox[e].attempts) <= MaxAttempts
       /\ inbox[e].receipt # NoReceipt <=> inbox[e].status = "PROCESSED"
       /\ inbox[e].status \in Statuses \ {"NONE", "RECEIVED"} =>
            inbox[e].attempts # <<>> /\ Pending(e).status = inbox[e].status
  /\ \A t \in Threads :
       work[t].phase \in {"dispatch", "finish"} =>
         work[t].number \in 1 .. Len(inbox[work[t].event].attempts)

(***************************************************************************)
(* An event reported as processed is in the case at the revision of its    *)
(* receipt, whichever of its tries got there.                              *)
(***************************************************************************)
ProcessedIsRecorded ==
  \A e \in Envelopes :
    inbox[e].status = "PROCESSED" =>
      /\ inbox[e].receipt \in DOMAIN ledger[e.case]
      /\ ledger[e.case][inbox[e].receipt].event = e.source

(***************************************************************************)
(* Nothing of the inbox takes effect that is not written down first: after *)
(* any crash the stored try is the very command that took effect.          *)
(***************************************************************************)
EffectsWerePrepared ==
  \A e \in Envelopes : \A j \in Entries(e.case) :
    j.event = e.source =>
      \E n \in DOMAIN inbox[e].attempts : inbox[e].attempts[n].command = j

(***************************************************************************)
(* The row of an event and the ledger of its case tell the same story,     *)
(* whoever died or lost an answer in between.                              *)
(***************************************************************************)
InboxIsTrue == ProcessedIsRecorded /\ EffectsWerePrepared

(***************************************************************************)
(* The history of an event only grows: a stored try keeps its command and  *)
(* its operator, only the newest changes its status, and PROCESSED and     *)
(* RECORDED are final, whatever late results still come in.                *)
(***************************************************************************)
TriesStand ==
  [][\A e \in Envelopes :
       LET old == inbox[e].attempts
           new == inbox'[e].attempts
       IN  /\ Len(old) <= Len(new)
           /\ \A n \in DOMAIN old :
                /\ new[n].command = old[n].command /\ new[n].actor = old[n].actor
                /\ n < Len(old) => new[n] = old[n]
           /\ inbox[e].status \in {"PROCESSED", "RECORDED"} => inbox'[e] = inbox[e]]_inbox
=============================================================================
