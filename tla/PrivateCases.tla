---------------------------- MODULE PrivateCases ----------------------------
(***************************************************************************)
(* Merchant cases in linked private chats (PrivateCaseBot). A summary card *)
(* carries a button per decision; pressing it only brings a second card    *)
(* whose button executes the decision with a command of its own. Buttons   *)
(* are tokens stored with version, case and revision, and count only on    *)
(* messages known to be delivered. Callbacks run in one transaction of the *)
(* bot's database around the engine's own; a worker thread turns committed *)
(* revisions into notices and sends queued cards. Replies that carry no    *)
(* case (help, pairing phrases) and repetitions of a recorded callback     *)
(* event, which do nothing, are left out; a button that submits evidence   *)
(* takes the very path of one that decides.                                *)
(***************************************************************************)
EXTENDS PrivateLinks

CONSTANTS Decisions,   \* what a merchant may decide
          OtherActions, \* what the staff and the website do to a case meanwhile
          MaxOthers,    \* bound on that
          NoCall

VARIABLES tokens,      \* the buttons, numbered
          jobs,        \* the outgoing messages, numbered
          shown,       \* external: the messages the chats show
          call,        \* the callback that is in the middle of a decision
          worker       \* where the worker thread is

privateVars == <<tokens, jobs, shown, call, worker>>

Resting == [phase |-> "idle"]

CasesInit ==
  /\ tokens = <<>> /\ jobs = <<>> /\ shown = {}
  /\ call = NoCall /\ worker = Resting

Unlocked == call = NoCall     \* BEGIN IMMEDIATE of the bot's database

PrivateId(t) == <<"private", t>>

(* The case as it was at revision r has a decision.                        *)
Decided(c, r) ==
  \E i \in 1 .. r : ledger[c][i].action = "MERCHANT_DECISION"

-----------------------------------------------------------------------------
(* Cards.                                                                  *)

Token(v, c, r, kind, decision) ==
  [version |-> v, case |-> c, revision |-> r, kind |-> kind, decision |-> decision,
   state |-> "READY", expired |-> FALSE, messages |-> {}, next |-> 0]

Job(v, c, r, buttons) ==
  [version |-> v, case |-> c, revision |-> r, buttons |-> buttons, state |-> "PENDING",
   notice |-> FALSE]

Within(l, t, j) == \E m \in Loads : l <= m[1] /\ t <= m[2] /\ j <= m[3]

Room(n) == Within(Len(links), Len(tokens) + n, Len(jobs) + 1)

(***************************************************************************)
(* summary: what the case said at revision r, and a button for a decision  *)
(* that its gate allows. The bound on buttons may leave it out.            *)
(***************************************************************************)
Summary(v, c, r, notice) ==
  \/ /\ Decided(c, r) \/ ~Room(1)
     /\ Room(0)
     /\ jobs' = Append(jobs, [Job(v, c, r, {}) EXCEPT !.notice = notice])
     /\ UNCHANGED tokens
  \/ /\ ~Decided(c, r) /\ Room(1)
     /\ \E d \in Decisions : tokens' = Append(tokens, Token(v, c, r, "PREPARE", d))
     /\ jobs' = Append(jobs, [Job(v, c, r, {Len(tokens')}) EXCEPT !.notice = notice])

Linked(v) == Active(v) /\ links[v].account \in enabled

(* query: the linked user asks for a case, or picks one of a list.         *)
Query(v, c) ==
  /\ Unlocked /\ Linked(v) /\ Revision(c) > 0
  /\ Summary(v, c, Revision(c), FALSE)
  /\ UNCHANGED <<ledger, linkVars, shown, call, worker>>

(* query with several cases: a list, with a button to select each.         *)
SelectFrom(v, c) ==
  /\ Unlocked /\ Linked(v) /\ Revision(c) > 0 /\ Room(1)
  /\ tokens' = Append(tokens, Token(v, c, Revision(c), "SELECT", "NONE"))
  /\ jobs' = Append(jobs, Job(v, c, Revision(c), {Len(tokens')}))
  /\ UNCHANGED <<ledger, linkVars, shown, call, worker>>

-----------------------------------------------------------------------------
(* click: a user presses button t of message j.                            *)

Known(j, t) == tokens[t].messages

Pressed(j, t) ==
  /\ Unlocked /\ j \in shown /\ t \in jobs[j].buttons
  /\ Linked(tokens[t].version)
  /\ tokens[t].state # "REVOKED" /\ j \in Known(j, t)

Current(t) == tokens[t].revision = Revision(tokens[t].case)

Reply(t, buttons) ==
  Job(tokens[t].version, tokens[t].case, Revision(tokens[t].case), buttons)

PressSelect(j, t) ==
  /\ Pressed(j, t) /\ tokens[t].kind = "SELECT" /\ ~tokens[t].expired /\ Current(t)
  /\ Summary(tokens[t].version, tokens[t].case, Revision(tokens[t].case), FALSE)
  /\ UNCHANGED <<ledger, linkVars, shown, call, worker>>

(* The first press makes the confirmation, another brings the same again.  *)
PressPrepare(j, t) ==
  /\ Pressed(j, t) /\ tokens[t].kind = "PREPARE" /\ ~tokens[t].expired /\ Current(t)
  /\ ~Decided(tokens[t].case, tokens[t].revision)
  /\ IF tokens[t].state = "PREPARED"
     THEN /\ Room(0) /\ UNCHANGED tokens
          /\ jobs' = Append(jobs, Reply(t, {tokens[t].next}))
     ELSE /\ Room(1)
          /\ tokens' = Append([tokens EXCEPT ![t].state = "PREPARED", ![t].next = Len(tokens) + 1],
                              Token(tokens[t].version, tokens[t].case, tokens[t].revision,
                                    "CONFIRM", tokens[t].decision))
          /\ jobs' = Append(jobs, Reply(t, {Len(tokens) + 1}))
  /\ UNCHANGED <<ledger, linkVars, shown, call, worker>>

(* The decision is made already: the case as it is.                        *)
PressDone(j, t) ==
  /\ Pressed(j, t) /\ tokens[t].kind = "CONFIRM" /\ tokens[t].state = "DONE"
  /\ Summary(tokens[t].version, tokens[t].case, Revision(tokens[t].case), FALSE)
  /\ UNCHANGED <<ledger, linkVars, shown, call, worker>>

(***************************************************************************)
(* The press that decides, in three steps: the checks, under the bot's     *)
(* write lock; the engine's own transaction; the card is DONE and answered *)
(* in the bot's. The command is the token's, whenever it is tried again.   *)
(***************************************************************************)
PressConfirm(j, t) ==
  /\ Pressed(j, t) /\ tokens[t].kind = "CONFIRM"
  /\ tokens[t].state # "DONE" /\ ~tokens[t].expired
  /\ call' = [phase |-> "execute", token |-> t]
  /\ UNCHANGED <<ledger, linkVars, tokens, jobs, shown, worker>>

LatestRevision(t) == Revision(tokens[t].case)   \* slip: the command takes the present revision

SeenRevision(t) == tokens[t].revision

Decision(t) ==
  [id |-> PrivateId(t), action |-> "MERCHANT_DECISION", case |-> tokens[t].case,
   event |-> NoEvent, content |-> tokens[t].decision, expected |-> SeenRevision(t)]

AnyAnswer(k) ==     \* slip: a refusal closes the button too
  Executed(k) \/ (\E r \in DOMAIN ledger[k.case] : Replayed(k, r)) \/ Refused(k)

Accepted(k) ==
  \/ Executed(k) /\ ~Decided(k.case, Revision(k.case))
  \/ \E r \in DOMAIN ledger[k.case] : Replayed(k, r)

(* The engine checks the account again, inside its transaction.            *)
ExecuteDecision ==
  LET t == call.token
      k == Decision(t)
  IN  /\ call # NoCall /\ call.phase = "execute"
      /\ \/ /\ links[tokens[t].version].account \in enabled
            /\ Accepted(k)
            /\ call' = [call EXCEPT !.phase = "done"]
         \/ Refused(k) /\ call' = NoCall
      /\ UNCHANGED <<linkVars, tokens, jobs, shown, worker>>

FinishDecision ==
  LET t == call.token
  IN  /\ call # NoCall /\ call.phase = "done"
      /\ tokens' = [tokens EXCEPT ![t].state = "DONE"]
      /\ jobs' = IF Room(0)
                 THEN Append(jobs, Reply(t, {})) ELSE jobs
      /\ call' = NoCall
      /\ UNCHANGED <<ledger, linkVars, shown, worker>>

(* The account's row may have become disabled: the transaction rolls back. *)
RollBack ==
  /\ call # NoCall /\ call' = NoCall
  /\ UNCHANGED <<ledger, linkVars, tokens, jobs, shown, worker>>

TokenExpires(t) ==
  /\ ~tokens[t].expired /\ tokens[t].state # "REVOKED"
  /\ tokens' = [tokens EXCEPT ![t].expired = TRUE]
  /\ UNCHANGED <<ledger, linkVars, jobs, shown, call, worker>>

-----------------------------------------------------------------------------
(* The website's side, in the bot's database. A code is typed in a chat.   *)

Pair(a) ==
  /\ Unlocked
  /\ \/ CreatePair(a)
     \/ \E chat \in Chats : ClaimPair(a, chat)
     \/ ConfirmPair(a) /\ Within(Len(links) + 1, Len(tokens), Len(jobs))
  /\ UNCHANGED <<ledger, privateVars>>

Revoked(a) ==
  [t \in DOMAIN tokens |->
     IF links[tokens[t].version].account = a
     THEN [tokens[t] EXCEPT !.state = "REVOKED"] ELSE tokens[t]]

Unlink(a) ==
  /\ Unlocked /\ SignedIn(a)
  /\ links' = Cut(a) /\ tokens' = Revoked(a)
  /\ pairs' = [pairs EXCEPT ![a].state = IF @ = "NONE" THEN @ ELSE "REVOKED"]
  /\ jobs' = [j \in DOMAIN jobs |->
       IF links[jobs[j].version].account = a /\ jobs[j].state = "PENDING"
       THEN [jobs[j] EXCEPT !.state = "BLOCKED"] ELSE jobs[j]]
  /\ UNCHANGED <<ledger, enabled, shown, call, worker>>

-----------------------------------------------------------------------------
(* The worker: observe, then drain.                                        *)

(* The cases are read first, then a link is locked and noticed.            *)
Look(v, c) ==
  /\ worker = Resting /\ Linked(v) /\ Revision(c) > 0
  /\ worker' = [phase |-> "notice", version |-> v, case |-> c, revision |-> Revision(c)]
  /\ UNCHANGED <<ledger, linkVars, tokens, jobs, shown, call>>

Noticed(v, c, r) ==
  \E j \in DOMAIN jobs :
    jobs[j].notice /\ jobs[j].version = v /\ jobs[j].case = c /\ jobs[j].revision = r

(* One notice per version, case and revision, of the case that was read.   *)
Observe ==
  /\ Unlocked /\ worker.phase = "notice"
  /\ worker' = Resting
  /\ IF Linked(worker.version) /\ ~Noticed(worker.version, worker.case, worker.revision)
        /\ Room(0)
     THEN Summary(worker.version, worker.case, worker.revision, TRUE)
     ELSE UNCHANGED <<tokens, jobs>>
  /\ UNCHANGED <<ledger, linkVars, shown, call>>

(* validate_delivery: the link, the account, the case and every button.    *)
Deliverable(j) ==
  /\ Linked(jobs[j].version)
  /\ jobs[j].revision = Revision(jobs[j].case)
  /\ \A t \in jobs[j].buttons :
       tokens[t].state # "REVOKED" /\ ~tokens[t].expired /\ Current(t)

(* Claimed if it may still be sent, else blocked, in one transaction.      *)
ClaimJob(j) ==
  /\ Unlocked /\ worker = Resting /\ jobs[j].state = "PENDING"
  /\ IF Deliverable(j)
     THEN /\ jobs' = [jobs EXCEPT ![j].state = "SENDING"]
          /\ worker' = [phase |-> "compose", job |-> j]
     ELSE /\ jobs' = [jobs EXCEPT ![j].state = "BLOCKED"]
          /\ UNCHANGED worker
  /\ UNCHANGED <<ledger, linkVars, tokens, shown, call>>

Saving(j, state) == [phase |-> "save", job |-> j, state |-> state]

(* After the language model: all of it is checked again before the send.   *)
Revalidate ==
  /\ worker.phase = "compose"
  /\ \/ Deliverable(worker.job) /\ worker' = [worker EXCEPT !.phase = "send"]
     \/ worker' = Saving(worker.job, "BLOCKED")
  /\ UNCHANGED <<ledger, linkVars, tokens, jobs, shown, call>>

(* External: the chat shows the message, or not; its receipt may be lost.  *)
SendMessage ==
  LET j == worker.job
  IN  /\ worker.phase = "send"
      /\ \/ /\ shown' = shown \cup {j}
            /\ worker' = Saving(j, "SENT") \/ worker' = Saving(j, "UNCERTAIN")
         \/ UNCHANGED shown /\ worker' = Saving(j, "UNCERTAIN")
      /\ UNCHANGED <<ledger, linkVars, tokens, jobs, call>>

Resurrected(j) ==      \* slip: the buttons are written back as they were made
  [t \in DOMAIN tokens |->
     IF t \in jobs[j].buttons
     THEN [tokens[t] EXCEPT !.messages = @ \cup {j}, !.state = "READY"] ELSE tokens[t]]

(* Buttons of a delivered message count there, unless revoked meanwhile.   *)
Bound(j) ==
  [t \in DOMAIN tokens |->
     IF t \in jobs[j].buttons /\ tokens[t].state # "REVOKED"
     THEN [tokens[t] EXCEPT !.messages = @ \cup {j}] ELSE tokens[t]]

SaveJob ==
  LET j == worker.job
  IN  /\ Unlocked /\ worker.phase = "save"
      /\ tokens' = IF worker.state = "SENT" THEN Bound(j) ELSE tokens
      /\ jobs' = [jobs EXCEPT ![j].state = worker.state]
      /\ worker' = Resting
      /\ UNCHANGED <<ledger, linkVars, shown, call>>

Stale(j) == worker = Resting /\ jobs[j].state = "SENDING"

(* A send cut off by a crash is over two minutes old: its fate is unknown. *)
GiveUpStale(j) ==
  /\ Unlocked /\ Stale(j)
  /\ jobs' = [jobs EXCEPT ![j].state = "UNCERTAIN"]
  /\ UNCHANGED <<ledger, linkVars, tokens, shown, call, worker>>

WorkerStep ==
  \/ Observe
  \/ Revalidate
  \/ SendMessage
  \/ SaveJob
  \/ \E j \in DOMAIN jobs : ClaimJob(j) \/ GiveUpStale(j)

-----------------------------------------------------------------------------
Elsewhere(c) == {i \in DOMAIN ledger[c] : ledger[c][i].id[1] # "private"}

(* The database stays locked for ten seconds: the worker starts over.      *)
WorkerFails ==
  /\ worker.phase \in {"notice", "save"} /\ worker' = Resting
  /\ UNCHANGED <<ledger, linkVars, tokens, jobs, shown, call>>

Others(c, a) ==
  /\ Cardinality(Elsewhere(c)) < MaxOthers
  /\ a = "MERCHANT_DECISION" => ~Decided(c, Revision(c))
  /\ OtherWork(c, a)
  /\ UNCHANGED <<linkVars, privateVars>>

Crash ==
  /\ <<call, worker>> # <<NoCall, Resting>>
  /\ call' = NoCall /\ worker' = Resting
  /\ UNCHANGED <<ledger, linkVars, tokens, jobs, shown>>

Press(j, t) ==
  PressSelect(j, t) \/ PressPrepare(j, t) \/ PressDone(j, t) \/ PressConfirm(j, t)

Website ==
  \/ AccountStep /\ UNCHANGED <<ledger, privateVars>>
  \/ \E a \in Accounts : Pair(a) \/ Unlink(a)

Chatting ==
  \/ \E v \in DOMAIN links, c \in Cases : Query(v, c) \/ SelectFrom(v, c)
  \/ \E j \in DOMAIN jobs, t \in DOMAIN tokens : Press(j, t)

Deciding == ExecuteDecision \/ FinishDecision

Init == EngineInit /\ LinksInit /\ CasesInit

Next ==
  \/ Website
  \/ Chatting
  \/ Deciding
  \/ RollBack
  \/ \E t \in DOMAIN tokens : TokenExpires(t)
  \/ \E v \in DOMAIN links, c \in Cases : Look(v, c)
  \/ WorkerStep
  \/ WorkerFails
  \/ \E c \in Cases, a \in OtherActions : Others(c, a)
  \/ Crash

vars == <<ledger, linkVars, privateVars>>

Spec == Init /\ [][Next]_vars

-----------------------------------------------------------------------------
(***************************************************************************)
(* What the bot decided for a merchant was confirmed on a card made for    *)
(* that very decision, after the first card had been seen, and the case    *)
(* had not moved since that first card was written.                        *)
(***************************************************************************)
ShownBeforeDecided ==
  \A c \in Cases : \A r \in DOMAIN ledger[c] :
    ledger[c][r].id[1] = "private" =>
      LET t == ledger[c][r].id[2]
      IN  /\ tokens[t].kind = "CONFIRM" /\ tokens[t].messages # {}
          /\ \E p \in DOMAIN tokens :
               /\ tokens[p].kind = "PREPARE" /\ tokens[p].next = t
               /\ tokens[p].messages # {}
               /\ tokens[p].case = c /\ tokens[p].version = tokens[t].version
               /\ tokens[p].decision = ledger[c][r].content
               /\ tokens[p].revision = r - 1

(***************************************************************************)
(* Nothing hangs on a link that was cut: its buttons are dead for good and *)
(* none of its messages waits to be sent.                                  *)
(***************************************************************************)
InactiveIsInert ==
  /\ \A t \in DOMAIN tokens : ~Active(tokens[t].version) => tokens[t].state = "REVOKED"
  /\ \A j \in DOMAIN jobs : ~Active(jobs[j].version) => jobs[j].state # "PENDING"

(***************************************************************************)
(* A confirmation that reads as done took effect: the two databases agree  *)
(* whatever fails between their commits.                                   *)
(***************************************************************************)
DoneIsDecided ==
  \A t \in DOMAIN tokens :
    tokens[t].state = "DONE" => \E k \in Entries(tokens[t].case) : k.id = PrivateId(t)
=============================================================================
