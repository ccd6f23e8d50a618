--------------------------- MODULE FeishuCallbacks --------------------------
(***************************************************************************)
(* Verified Feishu callbacks into the case engine (FeishuV2Adapter over    *)
(* FeishuV2Store) and the outbox of their answers (FeishuDisputeOutbox).   *)
(* Feishu delivers a callback again until it is answered; the command of   *)
(* its first delivery is frozen and its response is replayed. Answers are  *)
(* sent by a worker thread, or by operators, outside any transaction.      *)
(* The binding of accounts and chats is deployment configuration.          *)
(***************************************************************************)
EXTENDS EngineView

CONSTANTS Callbacks,   \* what Feishu delivers: [ref, kind, case, card]
          Previews,    \* cards staff prepare: [ref, kind, case]
          Handlers,    \* the threads that serve callbacks
          Senders,     \* who sends: the worker and operators
          Worker,      \* the worker among the senders
          MaxSends,    \* bound: attempts at one delivery
          NoRow

ASSUME CallbackAssumption ==
  /\ Worker \in Senders /\ MaxSends \in Nat
  /\ \A b \in Callbacks : /\ b.kind \in {"CARD", "DECISION", "MESSAGE", "QUERY"}
                          /\ b.case \in Cases
  /\ \A p \in Previews : p.kind = "PREVIEW" /\ p.case \in Cases

Rows == Callbacks \cup Previews

CallbackCommandId(b) == <<"feishu", b.ref>>

DecisionCommand ==
  [id : {CallbackCommandId(b) : b \in Callbacks}, action : {"MERCHANT_DECISION"}, case : Cases,
   event : {NoEvent}, content : {b.kind : b \in Callbacks}, expected : Nat]

ReceiptRow == [command : DecisionCommand, response : Nat]

OutboxRow ==
  [state : {"PREVIEW", "PENDING", "SENDING", "SENT", "UNCERTAIN", "BLOCKED"}, auto : BOOLEAN,
   attempts : 0 .. MaxSends, old : BOOLEAN, operation : {"SEND", "UPDATE", "REPLY"}, revision : Nat]

ASSUME RowAssumption == NoRow \notin ReceiptRow /\ NoRow \notin OutboxRow

VARIABLES receipts,    \* dispute_feishu_receipts
          handling,    \* what each handler is doing
          outbox,      \* v21_feishu_outbox, by what is answered or previewed
          sending,     \* what each sender is doing
          chat,        \* external: the messages Feishu shows, by their keys
          unattended   \* history: the worker's own attempts at each row

callbackVars == <<receipts, handling, outbox, sending, chat, unattended>>

AtRest == [phase |-> "idle"]

CallbackInit ==
  /\ receipts = [b \in Callbacks |-> NoRow]
  /\ handling = [h \in Handlers |-> AtRest]
  /\ outbox = [b \in Rows |-> NoRow]
  /\ sending = [s \in Senders |-> AtRest]
  /\ chat = {} /\ unattended = [b \in Rows |-> 0]

-----------------------------------------------------------------------------
(* handle.                                                                 *)

Business(b) == b.kind \in {"CARD", "DECISION"}

(***************************************************************************)
(* A card fixes the revision it was rendered at, a typed decision takes    *)
(* that of its first delivery. Messages and queries change no case.        *)
(***************************************************************************)
FrozenCommand(b) ==
  [id |-> CallbackCommandId(b), action |-> "MERCHANT_DECISION", case |-> b.case,
   event |-> NoEvent, content |-> b.kind,
   expected |-> IF b.kind = "CARD" THEN b.card ELSE Revision(b.case)]

(* The first delivery reads no receipt and builds the command; a later one *)
(* finds the command, and its response when there is one.                  *)
Deliver(h, b) ==
  /\ handling[h] = AtRest
  /\ b.kind = "QUERY" \/ Revision(b.case) > 0
  /\ b.kind = "CARD" => b.card \in 1 .. Revision(b.case)
  /\ \/ /\ receipts[b] = NoRow
        /\ handling' = [handling EXCEPT ![h] =
             [phase |-> "remember", callback |-> b, command |-> FrozenCommand(b)]]
     \/ /\ receipts[b] # NoRow /\ receipts[b].response = 0
        /\ handling' = [handling EXCEPT ![h] = [phase |-> "execute", callback |-> b]]
  /\ UNCHANGED <<ledger, receipts, outbox, sending, chat, unattended>>

KeepLast(b, k) == [command |-> k, response |-> 0]   \* slip: INSERT OR REPLACE

KeepFirst(b, k) == IF receipts[b] = NoRow THEN [command |-> k, response |-> 0] ELSE receipts[b]

(* INSERT OR IGNORE, and the row that is there now.                        *)
Remember(h) ==
  LET b == handling[h].callback
  IN  /\ handling[h].phase = "remember"
      /\ receipts' = [receipts EXCEPT ![b] = KeepFirst(b, handling[h].command)]
      /\ handling' = [handling EXCEPT ![h] = [phase |-> "execute", callback |-> b]]
      /\ UNCHANGED <<ledger, outbox, sending, chat, unattended>>

Answering(b, r) == [phase |-> "answer", callback |-> b, revision |-> r]

(* A refusal leaves the receipt open: Feishu gets an error, no response.   *)
ExecuteDecision(h) ==
  LET b == handling[h].callback
      k == receipts[b].command
  IN  /\ handling[h].phase = "execute" /\ Business(b)
      /\ \/ /\ Executed(k)
            /\ handling' = [handling EXCEPT ![h] = Answering(b, Revision(b.case) + 1)]
         \/ \E r \in DOMAIN ledger[b.case] :
              /\ Replayed(k, r)
              /\ handling' = [handling EXCEPT ![h] = Answering(b, r)]
         \/ /\ Refused(k)
            /\ handling' = [handling EXCEPT ![h] = AtRest]
      /\ UNCHANGED <<receipts, outbox, sending, chat, unattended>>

(* Posting to the thread and its frozen answer repeat by command id; a     *)
(* query reads. The answer names the revision as it is by then.            *)
PostOrQuery(h) ==
  LET b == handling[h].callback
  IN  /\ handling[h].phase = "execute" /\ ~Business(b)
      /\ handling' = [handling EXCEPT ![h] = Answering(b, IF b.kind = "QUERY" THEN 1 ELSE Revision(b.case))]
      /\ UNCHANGED <<ledger, receipts, outbox, sending, chat, unattended>>

(***************************************************************************)
(* One row per callback, whatever is delivered again. auto_send is what    *)
(* the deployment authorized.                                              *)
(***************************************************************************)
Queued(operation, revision, auto) ==
  [state |-> IF auto THEN "PENDING" ELSE "PREVIEW", auto |-> auto, attempts |-> 0,
   old |-> FALSE, operation |-> operation, revision |-> revision]

(* callback: the card that was clicked is updated, a message is replied to. *)
CaseRow(b, auto) ==
  Queued(CASE b.kind = "CARD" -> "UPDATE" [] b.kind = "PREVIEW" -> "SEND" [] OTHER -> "REPLY",
         Revision(b.case), auto)

(* static_callback: an answer to a query belongs to no case.               *)
StaticRow(auto) == Queued("REPLY", 0, auto)

NewRow(b, auto) == IF b.kind = "QUERY" THEN StaticRow(auto) ELSE CaseRow(b, auto)

(* No row for a message that is not verified, or a card this outbox did    *)
(* not deliver.                                                            *)
NotQueued(b) == b.kind # "PREVIEW" /\ UNCHANGED outbox

QueueAnswer(h) ==
  LET b == handling[h].callback
  IN  /\ handling[h].phase = "answer"
      /\ \/ /\ outbox[b] = NoRow
            /\ \E auto \in BOOLEAN : outbox' = [outbox EXCEPT ![b] = NewRow(b, auto)]
         \/ NotQueued(b)     \* or there already
      /\ handling' = [handling EXCEPT ![h].phase = "complete"]
      /\ UNCHANGED <<ledger, receipts, sending, chat, unattended>>

(* complete: an UPDATE with no condition on what is there.                 *)
CompleteCallback(h) ==
  LET b == handling[h].callback
  IN  /\ handling[h].phase = "complete"
      /\ receipts' = [receipts EXCEPT ![b].response = handling[h].revision]
      /\ handling' = [handling EXCEPT ![h] = AtRest]
      /\ UNCHANGED <<ledger, outbox, sending, chat, unattended>>

Handle(h) ==
  \/ Remember(h)
  \/ ExecuteDecision(h)
  \/ PostOrQuery(h)
  \/ QueueAnswer(h)
  \/ CompleteCallback(h)

-----------------------------------------------------------------------------
(* The outbox.                                                             *)

Outdated(b) == b.kind # "QUERY" /\ outbox[b].revision # Revision(b.case)

DrainUnsent(b) ==      \* slip: the worker tries again what it does not know
  outbox[b].auto /\ outbox[b].state \in {"PENDING", "UNCERTAIN"}

(* drain picks PENDING rows meant to be sent without a person.             *)
DrainPending(b) == outbox[b].auto /\ outbox[b].state = "PENDING"

(* preview: one row per command of the staff, never sent by itself.        *)
Preview(p) ==
  /\ outbox[p] = NoRow /\ Revision(p.case) > 0
  /\ outbox' = [outbox EXCEPT ![p] = NewRow(p, FALSE)]
  /\ UNCHANGED <<ledger, receipts, handling, sending, chat, unattended>>

Picks(s, b) ==
  /\ sending[s] = AtRest /\ outbox[b] # NoRow
  /\ s = Worker => DrainPending(b)
  /\ sending' = [sending EXCEPT ![s] = [phase |-> "check", row |-> b]]
  /\ UNCHANGED <<ledger, receipts, handling, outbox, chat, unattended>>

(***************************************************************************)
(* The checks of send, before its transaction: a sent row is done, an      *)
(* update must be of the present revision, and so must be a first send,    *)
(* which may also be more than an hour late (any refusal is possible).     *)
(***************************************************************************)
Checked(b) ==
  /\ outbox[b].state # "SENT"
  /\ Outdated(b) => outbox[b].operation # "UPDATE" /\ outbox[b].state \in {"UNCERTAIN", "SENDING"}

GiveUp(s, b) ==
  sending' = [sending EXCEPT ![s] =
    IF s = Worker /\ outbox[b].state # "SENT" THEN [phase |-> "block", row |-> b] ELSE AtRest]

Check(s) ==
  LET b == sending[s].row
  IN  /\ sending[s].phase = "check"
      /\ \/ /\ Checked(b)
            /\ sending' = [sending EXCEPT ![s].phase = "claim"]
         \/ GiveUp(s, b)
      /\ UNCHANGED <<ledger, receipts, handling, outbox, chat, unattended>>

(* The claim, in one transaction; a claim of over 60 s may be taken over.  *)
Claimable(b) ==
  outbox[b].state # "SENT" /\ (outbox[b].state = "SENDING" => outbox[b].old)

Claim(s) ==
  LET b == sending[s].row
  IN  /\ sending[s].phase = "claim" /\ Claimable(b)
      /\ outbox[b].attempts < MaxSends
      /\ outbox' = [outbox EXCEPT ![b].state = "SENDING", ![b].old = FALSE, ![b].attempts = @ + 1]
      /\ sending' = [sending EXCEPT ![s] =
           [phase |-> "call", row |-> b, number |-> outbox[b].attempts + 1]]
      /\ unattended' = IF s = Worker THEN [unattended EXCEPT ![b] = @ + 1] ELSE unattended
      /\ UNCHANGED <<ledger, receipts, handling, chat>>

ClaimRefused(s) ==
  /\ sending[s].phase = "claim" /\ ~Claimable(sending[s].row)
  /\ GiveUp(s, sending[s].row)
  /\ UNCHANGED <<ledger, receipts, handling, outbox, chat, unattended>>

IdempotencyKey(b, number) == b.ref

(* External: Feishu shows one message per key; the receipt may be lost.    *)
Call(s) ==
  LET w == sending[s]
      Saving(result) == [phase |-> "save", row |-> w.row, number |-> w.number, result |-> result]
  IN  /\ w.phase = "call"
      /\ \/ /\ chat' = chat \cup {[row |-> w.row, key |-> IdempotencyKey(w.row, w.number)]}
            /\ \E result \in {"SENT", "UNCERTAIN"} :
                 sending' = [sending EXCEPT ![s] = Saving(result)]
         \/ /\ UNCHANGED chat
            /\ sending' = [sending EXCEPT ![s] = Saving("UNCERTAIN")]
      /\ UNCHANGED <<ledger, receipts, handling, outbox, unattended>>

(* The row as it was claimed, with the result, over whatever it is by now. *)
SaveResult(s) ==
  LET w == sending[s]
  IN  /\ w.phase = "save"
      /\ outbox' = [outbox EXCEPT ![w.row].state = w.result, ![w.row].old = FALSE,
                                  ![w.row].attempts = w.number]
      /\ sending' = [sending EXCEPT ![s] = AtRest]
      /\ UNCHANGED <<ledger, receipts, handling, chat, unattended>>

(***************************************************************************)
(* drain's answer to any refusal: read the row again, and if it still      *)
(* waits write it back as blocked, in a transaction that begins after the  *)
(* read.                                                                   *)
(***************************************************************************)
ReadAgain(s) ==
  LET b == sending[s].row
  IN  /\ sending[s].phase = "block"
      /\ sending' = [sending EXCEPT ![s] =
           IF outbox[b].state = "PENDING" THEN [phase |-> "write", row |-> b] ELSE AtRest]
      /\ UNCHANGED <<ledger, receipts, handling, outbox, chat, unattended>>

Block(s) ==
  /\ sending[s].phase = "write"
  /\ outbox' = [outbox EXCEPT ![sending[s].row].state = "BLOCKED", ![sending[s].row].old = FALSE,
                              ![sending[s].row].attempts = 0]
  /\ sending' = [sending EXCEPT ![s] = AtRest]
  /\ UNCHANGED <<ledger, receipts, handling, chat, unattended>>

SendStep(s) ==
  \/ Check(s)
  \/ Claim(s)
  \/ ClaimRefused(s)
  \/ Call(s)
  \/ SaveResult(s)
  \/ ReadAgain(s)
  \/ Block(s)

(* A minute passes over a claim.                                           *)
ClaimAges(b) ==
  /\ outbox[b] # NoRow /\ outbox[b].state = "SENDING" /\ ~outbox[b].old
  /\ outbox' = [outbox EXCEPT ![b].old = TRUE]
  /\ UNCHANGED <<ledger, receipts, handling, sending, chat, unattended>>

-----------------------------------------------------------------------------
(***************************************************************************)
(* Rows and threads keep their shape; whoever works on a row finds it.     *)
(***************************************************************************)
CallbackTypeOK ==
  /\ \A b \in Callbacks :
       /\ receipts[b] # NoRow =>
            receipts[b].command.id = CallbackCommandId(b) /\ receipts[b].response \in Nat
  /\ \A b \in Rows : outbox[b] # NoRow =>
       /\ outbox[b].state \in {"PREVIEW", "PENDING", "SENDING", "SENT", "UNCERTAIN", "BLOCKED"}
       /\ outbox[b].attempts \in 0 .. MaxSends
       /\ outbox[b].state = "PENDING" => outbox[b].auto
  /\ \A h \in Handlers :
       handling[h].phase \in {"execute", "answer", "complete"} =>
         receipts[handling[h].callback] # NoRow
  /\ \A s \in Senders : sending[s] # AtRest => outbox[sending[s].row] # NoRow

(***************************************************************************)
(* A merchant's decision that was answered to Feishu is in the case at the *)
(* revision of the answer, as it was frozen at its first delivery.         *)
(***************************************************************************)
AnsweredIsDecided ==
  \A b \in Callbacks :
    Business(b) /\ receipts[b] # NoRow /\ receipts[b].response # 0 =>
      /\ receipts[b].response \in DOMAIN ledger[b.case]
      /\ ledger[b.case][receipts[b].response] = receipts[b].command

(***************************************************************************)
(* However often a row is claimed, taken over after a minute, retried by   *)
(* people or cut off by a crash, its chat sees one message, the worker by  *)
(* itself attempts it at most once, and SENT is said only of a message     *)
(* that is there.                                                          *)
(***************************************************************************)
OneDelivery ==
  \A b \in Rows :
    /\ Cardinality({m \in chat : m.row = b}) <= 1
    /\ unattended[b] <= 1
    /\ outbox[b] # NoRow /\ outbox[b].state = "SENT" => \E m \in chat : m.row = b
=============================================================================
