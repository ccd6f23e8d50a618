---------------------------- MODULE ClientPaths -----------------------------
(***************************************************************************)
(* The inbox of upstream events, the Feishu callbacks and the private      *)
(* chats at work on the same engine, with everybody else's commands in     *)
(* between, and a process that may die at any point: threads are lost,     *)
(* what is stored stays.                                                   *)
(***************************************************************************)
EXTENDS IntakeInbox, FeishuCallbacks

CONSTANTS OtherActions, \* what everybody else does to cases
          Loads,        \* bound: how many requests the inbox and how many
                        \* deliveries and sends the callbacks get, as pairs
          Accounts, Chats, NoChat, NoAccount, Decisions, NoCall,
          ChatActions,  \* what others do to a case the chats are about
          ChatLoads,    \* bound: links, buttons and messages of the chats
          MaxOthers     \* bound: the commands of others beside the chats

ASSUME ChatAssumption ==
  ChatLoads \subseteq Nat \X Nat \X Nat /\ NoChat \notin Chats /\ NoAccount \notin Accounts

VARIABLES arrivals,     \* how many they got so far
          followed,     \* whose steps this behaviour follows
          enabled, pairs, links, tokens, jobs, shown, call, worker

Private == INSTANCE PrivateCases WITH Loads <- ChatLoads, OtherActions <- ChatActions

chatVars == <<enabled, pairs, links, tokens, jobs, shown, call, worker>>
vars == <<ledger, inboxVars, callbackVars, arrivals, followed, chatVars>>

Init ==
  /\ EngineInit /\ InboxInit /\ CallbackInit
  /\ Private!LinksInit /\ Private!CasesInit
  /\ arrivals = <<0, 0>>
  /\ followed \in {"CLIENTS", "CHATS"}

(***************************************************************************)
(* The inbox and the callbacks are followed together; the chats, which     *)
(* meet them in the ledger only, with the commands of others in their      *)
(* place.                                                                  *)
(***************************************************************************)
Arrives(client) ==
  /\ arrivals' = [arrivals EXCEPT ![client] = @ + 1]
  /\ \E load \in Loads : arrivals'[1] <= load[1] /\ arrivals'[2] <= load[2]

InboxStep ==
  \/ /\ UNCHANGED <<callbackVars, chatVars, arrivals>>
     /\ \/ Register
        \/ \E t \in Threads : InboxServe(t)
  \/ /\ Arrives(1) /\ UNCHANGED <<callbackVars, chatVars>>
     /\ \E t \in Threads, e \in Envelopes, a \in Operators : Receive(t, e, a) \/ RetryEvent(t, e, a)

CallbackStep ==
  \/ /\ UNCHANGED <<inboxVars, chatVars, arrivals>>
     /\ \/ \E h \in Handlers : Handle(h)
        \/ \E s \in Senders : SendStep(s)
        \/ \E b \in Rows : ClaimAges(b)
  \/ /\ Arrives(2) /\ UNCHANGED <<inboxVars, chatVars>>
     /\ \/ \E h \in Handlers, b \in Callbacks : Deliver(h, b)
        \/ \E p \in Previews : Preview(p)
        \/ \E s \in Senders, b \in Rows : Picks(s, b)

ChatStep ==
  /\ Private!Next
  /\ UNCHANGED <<inboxVars, callbackVars, arrivals>>

OthersStep ==
  /\ \E c \in Cases, a \in OtherActions : OtherWork(c, a)
  /\ UNCHANGED <<inboxVars, callbackVars, chatVars, arrivals>>

Crash ==
  /\ work' = [t \in Threads |-> Idle]
  /\ handling' = [h \in Handlers |-> AtRest]
  /\ sending' = [s \in Senders |-> AtRest]
  /\ <<work, handling, sending>>' # <<work, handling, sending>>
  /\ UNCHANGED <<ledger, registered, inbox, receipts, outbox, chat, unattended, arrivals, chatVars>>

Next ==
  /\ UNCHANGED followed
  /\ \/ followed = "CHATS" /\ ChatStep
     \/ followed = "CLIENTS" /\ (InboxStep \/ CallbackStep \/ OthersStep \/ Crash)

Spec == Init /\ [][Next]_vars

-----------------------------------------------------------------------------
(* Both clients keep their types.                                          *)
ClientsTypeOK == InboxTypeOK /\ CallbackTypeOK

(***************************************************************************)
(* Nothing takes effect twice: one upstream event, one command, however    *)
(* often it is tried, resumed, delivered again or retried after a crash.   *)
(***************************************************************************)
OneEffect ==
  \A c, d \in Cases : \A i \in DOMAIN ledger[c], j \in DOMAIN ledger[d] :
    <<c, i>> # <<d, j>> =>
      /\ ledger[c][i].id # ledger[d][j].id
      /\ ledger[c][i].event # NoEvent => ledger[c][i].event # ledger[d][j].event

(***************************************************************************)
(* What the bot decides for a merchant was confirmed on a card made for    *)
(* that very decision, after the first card had been seen, and the case    *)
(* had not moved since that first card was written (the two presses of     *)
(* PrivateCaseBot.click).                                                  *)
(***************************************************************************)
ShownBeforeDecided == Private!ShownBeforeDecided

(***************************************************************************)
(* Nothing hangs on a link that was cut: its buttons are dead for good and *)
(* none of its messages waits to be sent, whatever the sending worker was  *)
(* about when PrivateCaseBot.unlink cut it.                                *)
(***************************************************************************)
InactiveIsInert == Private!InactiveIsInert

(***************************************************************************)
(* A confirmation that reads as done took effect: the bot's database and   *)
(* the engine's agree whatever fails between their commits.                *)
(***************************************************************************)
DoneIsDecided == Private!DoneIsDecided
=============================================================================
