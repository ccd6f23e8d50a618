---------------------------- MODULE ClientProofs ----------------------------
(***************************************************************************)
(* The inbox, the Feishu callbacks and the private chats on one engine,    *)
(* for every set of events, callbacks, accounts, threads and bound: each   *)
(* client's rows tell what the engine's ledger holds, whatever the others  *)
(* do and whatever dies in between.                                        *)
(***************************************************************************)
EXTENDS ClientPaths, SequenceTheorems, FiniteSetTheorems, TLAPS

(***************************************************************************)
(* The ledger as all its clients use it, and the private chats: what every *)
(* step of PrivateCases keeps, for any accounts, chats, cases and bounds.  *)
(***************************************************************************)

Sources == {e.source : e \in Envelopes}
CommandIds ==
  ({"inbox"} \X Sources \X Nat) \cup ({"feishu"} \X {b.ref : b \in Callbacks})
    \cup ({"other"} \X Cases \X Nat) \cup ({"private"} \X Nat)

Command ==
  [id : CommandIds,
   action : {"INTAKE", "RECORD_OUTCOME", "MERCHANT_DECISION"} \cup OtherActions \cup ChatActions,
   case : Cases, event : Sources \cup {NoEvent},
   content : Nat \cup {b.kind : b \in Callbacks} \cup Decisions, expected : Nat]

LedgerOk == ledger \in [Cases -> Seq(Command)]

(* Command k takes effect in this step.                                    *)
Effect(k) ==
  /\ k \in Command /\ Fresh(k)
  /\ ledger' = [ledger EXCEPT ![k.case] = Append(@, k)]

-----------------------------------------------------------------------------
(* The chats.                                                              *)

Link == [account : Accounts, chat : Chats \cup {NoChat}, active : BOOLEAN]

Pairing ==
  [state : {"NONE", "PENDING", "CLAIMED", "CONFIRMED", "REVOKED"}, chat : Chats \cup {NoChat},
   expired : BOOLEAN]

Button ==
  [version : Nat, case : Cases, revision : Nat, kind : {"SELECT", "PREPARE", "CONFIRM"},
   decision : Decisions \cup {"NONE"}, state : {"READY", "PREPARED", "DONE", "REVOKED"},
   expired : BOOLEAN, messages : SUBSET Nat, next : Nat]

Message ==
  [version : Nat, case : Cases, revision : Nat, buttons : SUBSET Nat,
   state : {"PENDING", "SENDING", "SENT", "UNCERTAIN", "BLOCKED"}, notice : BOOLEAN]

WorkerStates ==
  {Private!Resting}
  \cup [phase : {"notice"}, version : DOMAIN links, case : Cases, revision : Nat]
  \cup [phase : {"compose", "send"}, job : DOMAIN jobs]
  \cup [phase : {"save"}, job : DOMAIN jobs, state : {"SENT", "UNCERTAIN", "BLOCKED"}]

ChatTyped ==
  /\ pairs \in [Accounts -> Pairing]
  /\ links \in Seq(Link)
  /\ tokens \in Seq(Button)
  /\ jobs \in Seq(Message)
  /\ call # NoCall => call \in [phase : {"execute", "done"}, token : DOMAIN tokens]
  /\ worker \in WorkerStates

(* Buttons and messages hang on links that exist, and on cut ones they are *)
(* dead.                                                                   *)
LinksOk ==
  /\ \A t \in DOMAIN tokens :
       /\ tokens[t].version \in DOMAIN links
       /\ ~links[tokens[t].version].active => tokens[t].state = "REVOKED"
  /\ \A j \in DOMAIN jobs :
       /\ jobs[j].version \in DOMAIN links
       /\ ~links[jobs[j].version].active => jobs[j].state # "PENDING"

(* Button p was pressed when it was shown, and brought confirmation t.     *)
Brings(p, t) ==
  /\ tokens[p].kind = "PREPARE" /\ tokens[p].state \in {"PREPARED", "REVOKED"}
  /\ tokens[p].next = t /\ tokens[p].messages # {}
  /\ tokens[p].case = tokens[t].case /\ tokens[p].version = tokens[t].version
  /\ tokens[p].decision = tokens[t].decision /\ tokens[p].revision = tokens[t].revision

IsDone(t) == \E k \in Entries(tokens[t].case) : k.id = Private!PrivateId(t)

ButtonsOk ==
  \A t \in DOMAIN tokens :
    /\ tokens[t].kind = "CONFIRM" =>
         tokens[t].decision \in Decisions /\ \E p \in DOMAIN tokens : Brings(p, t)
    /\ tokens[t].kind = "PREPARE" => tokens[t].decision \in Decisions
    /\ tokens[t].state = "DONE" => tokens[t].kind = "CONFIRM" /\ IsDone(t)

CallOk ==
  call # NoCall =>
    /\ tokens[call.token].kind = "CONFIRM" /\ tokens[call.token].messages # {}
    /\ links[tokens[call.token].version].active
    /\ call.phase = "done" => IsDone(call.token)

(* Entry r of case c, if a chat decided it, is the decision of a button    *)
(* that confirms it.                                                       *)
FromButton(c, r) ==
  ledger[c][r].id[1] = "private" =>
    LET t == ledger[c][r].id[2]
    IN  /\ t \in DOMAIN tokens /\ tokens[t].kind = "CONFIRM" /\ tokens[t].messages # {}
        /\ tokens[t].case = c /\ tokens[t].decision = ledger[c][r].content
        /\ tokens[t].revision = r - 1

ChatSound ==
  /\ LinksOk /\ ButtonsOk /\ CallOk
  /\ \A c \in Cases : \A r \in DOMAIN ledger[c] : FromButton(c, r)

ChatInv == ChatTyped /\ ChatSound

-----------------------------------------------------------------------------
(* The ledger under one command.                                           *)

LEMMA EffectGrows ==
  ASSUME LedgerOk, NEW k, Effect(k)
  PROVE  /\ LedgerOk'
         /\ \A c \in Cases : \A i \in DOMAIN ledger[c] :
              i \in DOMAIN ledger'[c] /\ ledger'[c][i] = ledger[c][i]
         /\ \A c \in Cases : \A i \in DOMAIN ledger'[c] :
              i \in DOMAIN ledger[c] \/ (c = k.case /\ i = Revision(c) + 1 /\ ledger'[c][i] = k)
         /\ Revision(k.case) + 1 \in DOMAIN ledger'[k.case]
         /\ ledger'[k.case][Revision(k.case) + 1] = k
         /\ k.case \in Cases /\ Revision(k.case) \in Nat
  <1>1. k \in Command /\ k.case \in Cases /\ ledger' = [ledger EXCEPT ![k.case] = Append(@, k)]
    BY DEF Effect, Command
  <1>2. ledger'[k.case] = Append(ledger[k.case], k)
    BY <1>1 DEF LedgerOk
  <1>3. \A c \in Cases : c # k.case => ledger'[c] = ledger[c]
    BY <1>1 DEF LedgerOk
  <1>4. ledger[k.case] \in Seq(Command)
    BY <1>1 DEF LedgerOk
  <1> DEFINE s == ledger[k.case]
  <1>5. /\ Append(s, k) \in Seq(Command) /\ Len(Append(s, k)) = Len(s) + 1
        /\ \A i \in 1 .. Len(s) : Append(s, k)[i] = s[i]
        /\ Append(s, k)[Len(s) + 1] = k
        /\ Len(s) \in Nat /\ DOMAIN s = 1 .. Len(s)
        /\ DOMAIN Append(s, k) = 1 .. Len(s) + 1
    BY <1>1, <1>4, AppendProperties, LenProperties
  <1>6. LedgerOk'
    BY <1>1, <1>2, <1>5 DEF LedgerOk
  <1>7. ASSUME NEW c \in Cases
        PROVE  /\ \A i \in DOMAIN ledger[c] :
                    i \in DOMAIN ledger'[c] /\ ledger'[c][i] = ledger[c][i]
               /\ \A i \in DOMAIN ledger'[c] :
                    i \in DOMAIN ledger[c] \/ (c = k.case /\ i = Revision(c) + 1 /\ ledger'[c][i] = k)
    <2>1. CASE c = k.case
      BY <1>2, <1>5, <2>1 DEF Revision
    <2>2. CASE c # k.case
      BY <1>3, <2>2
    <2> QED BY <2>1, <2>2
  <1> QED BY <1>1, <1>2, <1>5, <1>6, <1>7 DEF Revision

LEMMA StageTyped ==
  ASSUME LedgerOk, NEW c \in Cases
  PROVE  Stage(c) \in Nat /\ Revision(c) \in Nat /\ DOMAIN ledger[c] = 1 .. Revision(c)
  <1>1. ledger[c] \in Seq(Command) /\ Len(ledger[c]) \in Nat /\ DOMAIN ledger[c] = 1 .. Len(ledger[c])
    BY LenProperties DEF LedgerOk
  <1> DEFINE N == {i \in DOMAIN ledger[c] : ledger[c][i].action = "NEXT_STAGE"}
  <1>2. IsFiniteSet(1 .. Len(ledger[c]))
    BY <1>1, FS_Interval
  <1>3. IsFiniteSet(N)
    BY <1>1, <1>2, FS_Subset
  <1>4. Cardinality(N) \in Nat
    BY <1>3, FS_CardinalityType
  <1> QED BY <1>1, <1>4 DEF Stage, Revision

LEMMA OthersEffect ==
  ASSUME LedgerOk, NEW c \in Cases, NEW a \in OtherActions \cup ChatActions, OtherWork(c, a)
  PROVE  Effect(OtherCommand(c, a)) /\ OtherCommand(c, a).event = NoEvent
  <1>1. Stage(c) \in Nat /\ Revision(c) \in Nat
    BY StageTyped
  <1>2. <<"other", c, Revision(c) + 1>> \in CommandIds
    BY <1>1 DEF CommandIds
  <1> QED BY <1>1, <1>2 DEF OtherWork, OtherCommand, Executed, Effect, Command

-----------------------------------------------------------------------------
(* What a step of the chats may do to buttons and messages.                *)

ButtonKept(t) ==
  /\ t \in DOMAIN tokens'
  /\ tokens'[t].version = tokens[t].version /\ tokens'[t].case = tokens[t].case
  /\ tokens'[t].revision = tokens[t].revision /\ tokens'[t].kind = tokens[t].kind
  /\ tokens'[t].decision = tokens[t].decision
  /\ tokens[t].messages # {} => tokens'[t].messages # {}
  /\ tokens[t].state = "REVOKED" /\ ~links[tokens[t].version].active =>
       tokens'[t].state = "REVOKED"
  /\ tokens[t].kind = "PREPARE" /\ tokens[t].state \in {"PREPARED", "REVOKED"} =>
       tokens'[t].state \in {"PREPARED", "REVOKED"} /\ tokens'[t].next = tokens[t].next
  /\ tokens'[t].state = "DONE" =>
       tokens[t].state = "DONE" \/ (tokens[t].kind = "CONFIRM" /\ IsDone(t))

ButtonNew(t) ==
  /\ tokens'[t].version \in DOMAIN links /\ links[tokens'[t].version].active
  /\ tokens'[t].kind \in {"PREPARE", "CONFIRM"} => tokens'[t].decision \in Decisions
  /\ tokens'[t].kind = "CONFIRM" => \E p \in DOMAIN tokens' : Brings(p, t)'
  /\ tokens'[t].state # "DONE"

MessageKept(j) ==
  /\ j \in DOMAIN jobs' /\ jobs'[j].version = jobs[j].version
  /\ jobs'[j].state = "PENDING" => jobs[j].state = "PENDING"

MessageNew(j) ==
  jobs'[j].version \in DOMAIN links /\ links[jobs'[j].version].active

LEMMA ButtonsMove ==
  ASSUME ChatInv, UNCHANGED ledger,
         \A t \in DOMAIN tokens : ButtonKept(t),
         \A t \in DOMAIN tokens' \ DOMAIN tokens : ButtonNew(t)
  PROVE  /\ ButtonsOk'
         /\ \A c \in Cases : \A r \in DOMAIN ledger'[c] : FromButton(c, r)'
         /\ \A t \in DOMAIN tokens : IsDone(t) => IsDone(t)'
  <1>1. \A t \in DOMAIN tokens : IsDone(t) => IsDone(t)'
    BY DEF ButtonKept, IsDone, Entries
  <1>2. \A p, t \in DOMAIN tokens : Brings(p, t) => Brings(p, t)'
    BY DEF ButtonKept, Brings
  <1>3. ASSUME NEW t \in DOMAIN tokens'
        PROVE  /\ tokens'[t].kind = "CONFIRM" =>
                    tokens'[t].decision \in Decisions /\ \E p \in DOMAIN tokens' : Brings(p, t)'
               /\ tokens'[t].kind = "PREPARE" => tokens'[t].decision \in Decisions
               /\ tokens'[t].state = "DONE" => tokens'[t].kind = "CONFIRM" /\ IsDone(t)'
    <2>1. CASE t \in DOMAIN tokens
      <3>1. ButtonKept(t) /\ \A p \in DOMAIN tokens : p \in DOMAIN tokens'
        BY <2>1 DEF ButtonKept
      <3> QED BY <1>1, <1>2, <2>1, <3>1 DEF ButtonKept, ChatInv, ChatSound, ButtonsOk
    <2>2. CASE t \notin DOMAIN tokens
      BY <2>2 DEF ButtonNew
    <2> QED BY <2>1, <2>2
  <1>4. ButtonsOk'
    BY <1>3 DEF ButtonsOk
  <1>5. ASSUME NEW c \in Cases, NEW r \in DOMAIN ledger'[c]
        PROVE  FromButton(c, r)'
    <2>1. FromButton(c, r)
      BY DEF ChatInv, ChatSound
    <2> QED BY <2>1 DEF FromButton, ButtonKept
  <1> QED BY <1>1, <1>4, <1>5

LEMMA ChatMoves ==
  ASSUME ChatInv, UNCHANGED <<ledger, links>>, pairs' \in [Accounts -> Pairing],
         tokens' \in Seq(Button), jobs' \in Seq(Message),
         \A t \in DOMAIN tokens : ButtonKept(t),
         \A t \in DOMAIN tokens' \ DOMAIN tokens : ButtonNew(t),
         \A j \in DOMAIN jobs : MessageKept(j),
         \A j \in DOMAIN jobs' \ DOMAIN jobs : MessageNew(j),
         call' \in {call, NoCall}, worker' \in WorkerStates
  PROVE  ChatInv'
  <1>1. /\ ButtonsOk'
        /\ \A c \in Cases : \A r \in DOMAIN ledger'[c] : FromButton(c, r)'
        /\ \A t \in DOMAIN tokens : IsDone(t) => IsDone(t)'
    BY ButtonsMove
  <1>2. /\ \A t \in DOMAIN tokens : t \in DOMAIN tokens'
        /\ \A j \in DOMAIN jobs : j \in DOMAIN jobs'
    BY DEF ButtonKept, MessageKept
  <1>3. LinksOk'
    <2>1. ASSUME NEW t \in DOMAIN tokens'
          PROVE  /\ tokens'[t].version \in DOMAIN links'
                 /\ ~links'[tokens'[t].version].active => tokens'[t].state = "REVOKED"
      BY DEF ChatInv, ChatSound, LinksOk, ButtonKept, ButtonNew
    <2>2. ASSUME NEW j \in DOMAIN jobs'
          PROVE  /\ jobs'[j].version \in DOMAIN links'
                 /\ ~links'[jobs'[j].version].active => jobs'[j].state # "PENDING"
      BY DEF ChatInv, ChatSound, LinksOk, MessageKept, MessageNew
    <2> QED BY <2>1, <2>2 DEF LinksOk
  <1>4. call' # NoCall => call' = call /\ call \in [phase : {"execute", "done"}, token : DOMAIN tokens]
    BY DEF ChatInv, ChatTyped
  <1>5. ChatTyped'
    <2>1. call' # NoCall => call' \in [phase : {"execute", "done"}, token : DOMAIN tokens']
      BY <1>2, <1>4
    <2>2. worker' \in WorkerStates'
      BY <1>2 DEF WorkerStates, Private!Resting
    <2> QED BY <2>1, <2>2 DEF ChatInv, ChatTyped
  <1>6. CallOk'
    <2> SUFFICES ASSUME call' # NoCall
                 PROVE  CallOk'
      BY DEF CallOk
    <2>1. PICK t \in DOMAIN tokens : t = call.token /\ call' = call
      BY <1>4
    <2>2. /\ tokens[t].kind = "CONFIRM" /\ tokens[t].messages # {}
          /\ links[tokens[t].version].active
          /\ call.phase = "done" => IsDone(t)
      BY <1>4, <2>1 DEF ChatInv, ChatSound, CallOk
    <2>3. ButtonKept(t)
      OBVIOUS
    <2> QED BY <1>1, <2>1, <2>2, <2>3 DEF CallOk, ButtonKept
  <1> QED BY <1>1, <1>3, <1>5, <1>6 DEF ChatInv, ChatSound

LEMMA Appended ==
  ASSUME NEW S, NEW s \in Seq(S), NEW x \in S
  PROVE  /\ Append(s, x) \in Seq(S) /\ Len(s) \in Nat
         /\ DOMAIN s = 1 .. Len(s) /\ DOMAIN Append(s, x) = DOMAIN s \cup {Len(s) + 1}
         /\ Len(s) + 1 \notin DOMAIN s /\ Append(s, x)[Len(s) + 1] = x
         /\ \A i \in DOMAIN s : Append(s, x)[i] = s[i]
  BY AppendProperties, LenProperties

LEMMA Elements ==
  ASSUME NEW S, NEW s \in Seq(S)
  PROVE  \A i \in DOMAIN s : s[i] \in S /\ i \in Nat
  BY LenProperties

(* Buttons and messages as they are, or with no more than new states.      *)
LEMMA Kept ==
  ASSUME ChatInv
  PROVE  /\ tokens' = tokens => \A t \in DOMAIN tokens : ButtonKept(t)
         /\ jobs' = jobs => \A j \in DOMAIN jobs : MessageKept(j)
  BY DEF ButtonKept, MessageKept

LEMMA CardAppears ==
  ASSUME ChatInv, UNCHANGED <<ledger, links, pairs, call>>, worker' \in WorkerStates,
         NEW v \in DOMAIN links, links[v].active, NEW c \in Cases, NEW r \in Nat,
         NEW card \in Message, card.version = v, jobs' = Append(jobs, card),
         \/ tokens' = tokens
         \/ \E kind \in {"SELECT", "PREPARE"}, d \in Decisions \cup {"NONE"} :
              /\ kind = "PREPARE" => d \in Decisions
              /\ tokens' = Append(tokens, Private!Token(v, c, r, kind, d))
  PROVE  ChatInv'
  <1>1. tokens \in Seq(Button) /\ jobs \in Seq(Message) /\ links \in Seq(Link)
    BY DEF ChatInv, ChatTyped
  <1>2. v \in Nat
    BY <1>1, LenProperties
  <1>4. /\ jobs' \in Seq(Message)
        /\ \A j \in DOMAIN jobs : MessageKept(j)
        /\ \A j \in DOMAIN jobs' \ DOMAIN jobs : MessageNew(j)
    BY <1>1, Appended DEF MessageKept, MessageNew
  <1>5. /\ tokens' \in Seq(Button)
        /\ \A t \in DOMAIN tokens : ButtonKept(t)
        /\ \A t \in DOMAIN tokens' \ DOMAIN tokens : ButtonNew(t)
    <2>1. CASE tokens' = tokens
      BY <1>1, <2>1, Kept
    <2>2. CASE tokens' # tokens
      <3>1. PICK kind \in {"SELECT", "PREPARE"}, d \in Decisions \cup {"NONE"} :
                   /\ kind = "PREPARE" => d \in Decisions
                   /\ tokens' = Append(tokens, Private!Token(v, c, r, kind, d))
        BY <2>2
      <3> DEFINE button == Private!Token(v, c, r, kind, d)
      <3>2. /\ button \in Button /\ button.version = v /\ button.kind = kind
            /\ button.decision = d /\ button.state = "READY"
        BY <1>2 DEF Private!Token, Button
      <3>3. tokens' = Append(tokens, button)
        BY <3>1
      <3> HIDE DEF button
      <3> QED BY <1>1, <3>1, <3>2, <3>3, Appended DEF ButtonKept, ButtonNew
    <2> QED BY <2>1, <2>2
  <1>6. pairs' \in [Accounts -> Pairing]
    BY DEF ChatInv, ChatTyped
  <1> QED BY <1>4, <1>5, <1>6, ChatMoves

LEMMA JobTyped ==
  ASSUME ChatInv, NEW v \in DOMAIN links, NEW c \in Cases, NEW r \in Nat, NEW buttons \in SUBSET Nat
  PROVE  Private!Job(v, c, r, buttons) \in Message /\ Private!Job(v, c, r, buttons).version = v
  <1>1. links \in Seq(Link)
    BY DEF ChatInv, ChatTyped
  <1>2. v \in Nat
    BY <1>1, LenProperties
  <1> QED BY <1>2 DEF Private!Job, Message

LEMMA NoticeTyped ==
  ASSUME NEW job \in Message, NEW notice \in BOOLEAN, NEW card,
         card = [job EXCEPT !.notice = notice]
  PROVE  card \in Message /\ card.version = job.version
  BY DEF Message

(* The commands of the chats are judged like all others.                   *)
LEMMA PrivateView ==
  /\ \A c : Private!Revision(c) = Revision(c) /\ Private!Entries(c) = Entries(c)
  /\ \A k, r : Private!Replayed(k, r) <=> Replayed(k, r)
  /\ \A k : (Private!Executed(k) <=> Executed(k)) /\ (Private!Refused(k) <=> Refused(k))
  /\ \A c, a : Private!OtherWork(c, a) <=> OtherWork(c, a)
  <1>1. \A c : Private!Revision(c) = Revision(c) /\ Private!Entries(c) = Entries(c)
    BY DEF Private!Revision, Revision, Private!Entries, Entries
  <1>2. \A c : (Private!Closed(c) <=> Closed(c)) /\ Private!Stage(c) = Stage(c)
    <2>1. \A c : Private!Closed(c) <=> Closed(c)
      BY DEF Private!Closed, Closed
    <2>2. \A S : Private!Cardinality(S) = Cardinality(S)
      BY DEF Private!Cardinality, Cardinality, Private!IsFiniteSet, IsFiniteSet
    <2> QED BY <2>1, <2>2 DEF Private!Stage, Stage
  <1>3. \A k : (Private!Fresh(k) <=> Fresh(k)) /\ (Private!Admitted(k) <=> Admitted(k))
    BY <1>1, <1>2 DEF Private!Fresh, Fresh, Private!Admitted, Admitted
  <1>4. \A k : (Private!Executed(k) <=> Executed(k)) /\ (Private!Refused(k) <=> Refused(k))
    BY <1>1, <1>3 DEF Private!Executed, Executed, Private!Refused, Refused
  <1>5. \A k, r : Private!Replayed(k, r) <=> Replayed(k, r)
    BY DEF Private!Replayed, Replayed, Private!Answers, Answers
  <1>6. \A c, a : Private!OtherCommand(c, a) = OtherCommand(c, a)
    BY <1>1, <1>2 DEF Private!OtherCommand, OtherCommand
  <1>7. \A c, a : Private!OtherWork(c, a) <=> OtherWork(c, a)
    BY <1>1, <1>2, <1>4, <1>6 DEF Private!OtherWork, OtherWork
  <1> QED BY <1>1, <1>4, <1>5, <1>7

LEMMA SummaryKeeps ==
  ASSUME ChatInv, UNCHANGED <<ledger, links, pairs, call>>, worker' \in WorkerStates,
         NEW v \in DOMAIN links, links[v].active, NEW c \in Cases, NEW r \in Nat,
         NEW notice \in BOOLEAN, Private!Summary(v, c, r, notice)
  PROVE  ChatInv'
  <1>1. CASE tokens' = tokens /\ jobs' = Append(jobs, [Private!Job(v, c, r, {}) EXCEPT !.notice = notice])
    <2>1. PICK card : /\ card = [Private!Job(v, c, r, {}) EXCEPT !.notice = notice]
                      /\ jobs' = Append(jobs, card)
      BY <1>1, Zenon
    <2>2. card \in Message /\ card.version = v
      BY <2>1, JobTyped, NoticeTyped
    <2> QED BY <1>1, <2>1, <2>2, CardAppears
  <1>2. CASE /\ \E d \in Decisions : tokens' = Append(tokens, Private!Token(v, c, r, "PREPARE", d))
             /\ jobs' = Append(jobs, [Private!Job(v, c, r, {Len(tokens')}) EXCEPT !.notice = notice])
    <2>1. PICK d \in Decisions : tokens' = Append(tokens, Private!Token(v, c, r, "PREPARE", d))
      BY <1>2
    <2>2. tokens \in Seq(Button) /\ v \in Nat
      BY LenProperties DEF ChatInv, ChatTyped
    <2>3. Private!Token(v, c, r, "PREPARE", d) \in Button
      BY <2>2 DEF Private!Token, Button
    <2>4. Len(tokens') \in Nat
      BY <2>1, <2>2, <2>3, AppendProperties, LenProperties
    <2>5. PICK buttons \in SUBSET Nat : buttons = {Len(tokens')}
      BY <2>4
    <2>6. PICK card : /\ card = [Private!Job(v, c, r, buttons) EXCEPT !.notice = notice]
                      /\ jobs' = Append(jobs, card)
      BY <1>2, <2>5, Zenon
    <2>7. card \in Message /\ card.version = v
      BY <2>6, JobTyped, NoticeTyped
    <2> QED BY <2>1, <2>6, <2>7, CardAppears
  <1> QED BY <1>1, <1>2 DEF Private!Summary

LEMMA Cards ==
  ASSUME ChatInv, LedgerOk,
         \/ \E v \in DOMAIN links, c \in Cases : Private!Query(v, c) \/ Private!SelectFrom(v, c)
         \/ \E j \in DOMAIN jobs, t \in DOMAIN tokens :
              Private!PressSelect(j, t) \/ Private!PressDone(j, t)
         \/ Private!Observe
  PROVE  ChatInv'
  <1>1. /\ tokens \in Seq(Button) /\ worker \in WorkerStates
        /\ \A c \in Cases : Private!Revision(c) = Revision(c) /\ Revision(c) \in Nat
    BY StageTyped, PrivateView DEF ChatInv, ChatTyped
  <1>a. \A t \in DOMAIN tokens : tokens[t].case \in Cases
    <2>1. \A t \in DOMAIN tokens : tokens[t] \in Button
      BY <1>1, Elements
    <2> QED BY <2>1 DEF Button
  <1>b. \A t \in DOMAIN tokens : tokens[t].version \in DOMAIN links
    BY DEF ChatInv, ChatSound, LinksOk
  <1>c. Private!Resting \in WorkerStates
    BY DEF WorkerStates
  <1>2. ASSUME NEW v \in DOMAIN links, NEW c \in Cases, Private!Query(v, c)
        PROVE  ChatInv'
    BY <1>1, <1>2, SummaryKeeps DEF Private!Query, Private!Linked, Private!Active, Private!linkVars
  <1>3. ASSUME NEW v \in DOMAIN links, NEW c \in Cases, Private!SelectFrom(v, c)
        PROVE  ChatInv'
    <2> DEFINE button == Private!Token(v, c, Revision(c), "SELECT", "NONE")
    <2>1. /\ tokens' = Append(tokens, button)
          /\ jobs' = Append(jobs, Private!Job(v, c, Revision(c), {Len(tokens')}))
          /\ links[v].active /\ UNCHANGED <<ledger, links, pairs, shown, call, worker>>
      BY <1>1, <1>3 DEF Private!SelectFrom, Private!Linked, Private!Active, Private!linkVars
    <2>2. links \in Seq(Link) /\ v \in Nat
      BY LenProperties DEF ChatInv, ChatTyped
    <2>3. button \in Button
      BY <1>1, <2>2 DEF Private!Token, Button
    <2>4. PICK buttons \in SUBSET Nat : buttons = {Len(tokens')}
      <3>1. Append(tokens, button) \in Seq(Button)
        <4> HIDE DEF button
        <4> QED BY <1>1, <2>3, AppendProperties
      <3>2. tokens' \in Seq(Button)
        BY <2>1, <3>1
      <3>3. Len(tokens') \in Nat
        BY <3>2, LenProperties
      <3> QED BY <3>3
    <2>5. PICK card \in Message : card.version = v /\ jobs' = Append(jobs, card)
      BY <1>1, <2>1, <2>4, JobTyped
    <2> QED BY <1>1, <2>1, <2>5, CardAppears
  <1>4. ASSUME NEW j \in DOMAIN jobs, NEW t \in DOMAIN tokens,
               Private!PressSelect(j, t) \/ Private!PressDone(j, t)
        PROVE  ChatInv'
    BY <1>1, <1>a, <1>b, <1>4, SummaryKeeps
       DEF Private!PressSelect, Private!PressDone, Private!Pressed, Private!Linked, Private!Active,
           Private!linkVars
  <1>5. ASSUME Private!Observe
        PROVE  ChatInv'
    <2>1. /\ worker.phase = "notice" /\ worker' = Private!Resting
          /\ UNCHANGED <<ledger, links, pairs, shown, call>>
      BY <1>5 DEF Private!Observe, Private!linkVars
    <2>2. worker \in [phase : {"notice"}, version : DOMAIN links, case : Cases, revision : Nat]
      BY <1>1, <2>1 DEF WorkerStates, Private!Resting
    <2>3. CASE /\ Private!Linked(worker.version)
               /\ Private!Summary(worker.version, worker.case, worker.revision, TRUE)
      BY <1>c, <2>1, <2>2, <2>3, SummaryKeeps DEF Private!Linked, Private!Active
    <2>4. CASE UNCHANGED <<tokens, jobs>>
      BY <1>c, <2>1, <2>4, Kept, ChatMoves DEF ChatInv, ChatTyped
    <2> QED BY <1>5, <2>3, <2>4 DEF Private!Observe
  <1> QED BY <1>2, <1>3, <1>4, <1>5

(***************************************************************************)
(* The first press of a button that prepares a decision makes the button   *)
(* that confirms it.                                                       *)
(***************************************************************************)
LEMMA PrepareBrings ==
  ASSUME ChatInv, LedgerOk, NEW j \in DOMAIN jobs, NEW t \in DOMAIN tokens,
         Private!PressPrepare(j, t)
  PROVE  ChatInv'
  <1>1. /\ tokens \in Seq(Button) /\ jobs \in Seq(Message) /\ links \in Seq(Link)
        /\ worker \in WorkerStates
        /\ Private!Revision(tokens[t].case) = Revision(tokens[t].case)
    BY PrivateView DEF ChatInv, ChatTyped
  <1>2. /\ tokens[t] \in Button /\ tokens[t].version \in DOMAIN links
        /\ links[tokens[t].version].active /\ tokens[t].kind = "PREPARE"
        /\ tokens[t].messages # {} /\ tokens[t].state # "REVOKED"
        /\ tokens[t].revision = Revision(tokens[t].case)
        /\ UNCHANGED <<ledger, links, pairs, call, worker>>
        /\ tokens[t].decision \in Decisions
    BY <1>1 DEF Private!PressPrepare, Private!Pressed, Private!Linked, Private!Active, Private!Known,
                Private!Current, Private!linkVars, ChatInv, ChatSound, LinksOk, ButtonsOk
  <1>3. PICK v, c, r, d : /\ v = tokens[t].version /\ c = tokens[t].case
                          /\ r = tokens[t].revision /\ d = tokens[t].decision
    OBVIOUS
  <1>4. v \in DOMAIN links /\ v \in Nat /\ c \in Cases /\ r \in Nat /\ d \in Decisions
    BY <1>1, <1>2, <1>3, LenProperties DEF Button
  <1>5. \A buttons \in SUBSET Nat :
          Private!Reply(t, buttons) \in Message /\ Private!Reply(t, buttons).version = v
    BY <1>1, <1>2, <1>3, <1>4, JobTyped DEF Private!Reply
  <1>6. \/ tokens[t].state = "PREPARED" /\ tokens' = tokens /\ jobs' = Append(jobs, Private!Reply(t, {tokens[t].next}))
        \/ /\ tokens[t].state # "PREPARED"
           /\ tokens' = Append([tokens EXCEPT ![t].state = "PREPARED", ![t].next = Len(tokens) + 1],
                               Private!Token(v, c, r, "CONFIRM", d))
           /\ jobs' = Append(jobs, Private!Reply(t, {Len(tokens) + 1}))
    BY <1>3 DEF Private!PressPrepare
  <1>7. {tokens[t].next} \in SUBSET Nat /\ {Len(tokens) + 1} \in SUBSET Nat
    BY <1>1, <1>2, LenProperties DEF Button
  <1>8. PICK card \in Message : card.version = v /\ jobs' = Append(jobs, card)
    BY <1>5, <1>6, <1>7
  <1>9. /\ jobs' \in Seq(Message)
        /\ \A i \in DOMAIN jobs : MessageKept(i)
        /\ \A i \in DOMAIN jobs' \ DOMAIN jobs : MessageNew(i)
    BY <1>1, <1>2, <1>3, <1>8, Appended DEF MessageKept, MessageNew
  <1>10. /\ tokens' \in Seq(Button)
         /\ \A i \in DOMAIN tokens : ButtonKept(i)
         /\ \A i \in DOMAIN tokens' \ DOMAIN tokens : ButtonNew(i)
    <2>1. CASE tokens' = tokens
      BY <1>1, <2>1, Kept
    <2>2. CASE /\ tokens[t].state # "PREPARED"
               /\ tokens' = Append([tokens EXCEPT ![t].state = "PREPARED", ![t].next = Len(tokens) + 1],
                                   Private!Token(v, c, r, "CONFIRM", d))
      <3>1. PICK n \in Nat : n = Len(tokens) + 1 /\ DOMAIN tokens = 1 .. Len(tokens)
        BY <1>1, LenProperties
      <3> DEFINE pressed == [tokens[t] EXCEPT !.state = "PREPARED", !.next = n]
                 new == [tokens EXCEPT ![t] = pressed]
                 button == Private!Token(v, c, r, "CONFIRM", d)
      <3>2. /\ pressed \in Button /\ pressed.state = "PREPARED" /\ pressed.next = n
            /\ pressed.version = v /\ pressed.case = c /\ pressed.revision = r
            /\ pressed.kind = "PREPARE" /\ pressed.decision = d
            /\ pressed.messages # {}
        BY <1>2, <1>3 DEF Button
      <3>3. /\ new \in Seq(Button) /\ DOMAIN new = DOMAIN tokens /\ Len(new) = Len(tokens)
            /\ new[t] = pressed
            /\ \A i \in DOMAIN tokens : i # t => new[i] = tokens[i]
        <4> HIDE DEF pressed
        <4> QED BY <1>1, <3>1, <3>2, ExceptSeq
      <3>4. /\ button \in Button /\ button.version = v /\ button.case = c /\ button.revision = r
            /\ button.kind = "CONFIRM" /\ button.decision = d /\ button.state = "READY"
        BY <1>4 DEF Private!Token, Button
      <3>a. tokens' = Append(new, button)
        BY <2>2, <3>1
      <3>5. /\ tokens' \in Seq(Button) /\ DOMAIN tokens' = DOMAIN tokens \cup {n}
            /\ n \notin DOMAIN tokens /\ tokens'[n] = button
            /\ \A i \in DOMAIN tokens : tokens'[i] = new[i]
        <4> HIDE DEF pressed, new, button
        <4> QED BY <3>1, <3>3, <3>4, <3>a, Appended
      <3> HIDE DEF pressed, new, button
      <3>6. /\ tokens'[t].state = "PREPARED" /\ tokens'[t].next = n
            /\ tokens'[t].version = v /\ tokens'[t].case = c /\ tokens'[t].revision = r
            /\ tokens'[t].kind = "PREPARE" /\ tokens'[t].decision = d
            /\ tokens'[t].messages # {}
        BY <3>2, <3>3, <3>5
      <3>7. \A i \in DOMAIN tokens : ButtonKept(i)
        BY <1>2, <1>3, <2>2, <3>3, <3>5, <3>6 DEF ButtonKept
      <3>8. t \in DOMAIN tokens' /\ Brings(t, n)'
        BY <3>4, <3>5, <3>6 DEF Brings
      <3> QED BY <1>2, <1>3, <1>4, <3>4, <3>5, <3>7, <3>8 DEF ButtonNew
    <2> QED BY <1>6, <2>1, <2>2
  <1> QED BY <1>1, <1>2, <1>9, <1>10, ChatMoves DEF ChatInv, ChatTyped

-----------------------------------------------------------------------------
(* Commands that take effect.                                              *)

LEMMA ChatUnderEffect ==
  ASSUME ChatInv, LedgerOk, NEW k, Effect(k), UNCHANGED <<pairs, links, tokens, jobs, worker>>,
         k.id[1] = "private" =>
           /\ k.id[2] \in DOMAIN tokens /\ tokens[k.id[2]].kind = "CONFIRM"
           /\ tokens[k.id[2]].messages # {} /\ tokens[k.id[2]].case = k.case
           /\ tokens[k.id[2]].decision = k.content /\ tokens[k.id[2]].revision = Revision(k.case),
         call' # NoCall =>
           /\ call' \in [phase : {"execute", "done"}, token : DOMAIN tokens]
           /\ tokens[call'.token].kind = "CONFIRM" /\ tokens[call'.token].messages # {}
           /\ links[tokens[call'.token].version].active
           /\ call'.phase = "done" =>
                \/ IsDone(call'.token)
                \/ k.id = Private!PrivateId(call'.token) /\ k.case = tokens[call'.token].case
  PROVE  ChatInv'
  <1>1. /\ \A c \in Cases : \A i \in DOMAIN ledger[c] : i \in DOMAIN ledger'[c] /\ ledger'[c][i] = ledger[c][i]
        /\ \A c \in Cases : \A i \in DOMAIN ledger'[c] :
             i \in DOMAIN ledger[c] \/ (c = k.case /\ i = Revision(c) + 1 /\ ledger'[c][i] = k)
        /\ Revision(k.case) + 1 \in DOMAIN ledger'[k.case]
        /\ ledger'[k.case][Revision(k.case) + 1] = k
        /\ k.case \in Cases /\ Revision(k.case) \in Nat
    BY EffectGrows
  <1>2. tokens \in Seq(Button) /\ \A t \in DOMAIN tokens : tokens[t].case \in Cases
    <2>1. tokens \in Seq(Button)
      BY DEF ChatInv, ChatTyped
    <2>2. \A t \in DOMAIN tokens : tokens[t] \in Button
      BY <2>1, Elements
    <2> QED BY <2>1, <2>2 DEF Button
  <1>3. \A t \in DOMAIN tokens : IsDone(t) => IsDone(t)'
    BY <1>1, <1>2 DEF IsDone, Entries, Private!PrivateId
  <1>4. \A t \in DOMAIN tokens : k.id = Private!PrivateId(t) /\ k.case = tokens[t].case => IsDone(t)'
    BY <1>1 DEF IsDone, Entries, Private!PrivateId
  <1>5. LinksOk'
    BY DEF ChatInv, ChatSound, LinksOk
  <1>6. ButtonsOk'
    BY <1>3 DEF ChatInv, ChatSound, ButtonsOk, Brings
  <1>7. CallOk'
    BY <1>3, <1>4 DEF CallOk
  <1>8. ASSUME NEW c \in Cases, NEW r \in DOMAIN ledger'[c]
        PROVE  FromButton(c, r)'
    <2>1. CASE r \in DOMAIN ledger[c]
      <3>1. FromButton(c, r) /\ ledger'[c][r] = ledger[c][r]
        BY <1>1, <2>1 DEF ChatInv, ChatSound
      <3> QED BY <3>1 DEF FromButton
    <2>2. CASE r \notin DOMAIN ledger[c]
      <3>1. c = k.case /\ r = Revision(c) + 1 /\ ledger'[c][r] = k
        BY <1>1, <2>2
      <3>2. Revision(c) = r - 1 /\ Revision(k.case) = r - 1
        BY <1>1, <3>1
      <3>3. /\ tokens' = tokens /\ ledger'[c][r].id = k.id /\ ledger'[c][r].content = k.content
        BY <3>1
      <3>4. k.id[1] = "private" =>
              /\ k.id[2] \in DOMAIN tokens /\ tokens[k.id[2]].kind = "CONFIRM"
              /\ tokens[k.id[2]].messages # {} /\ tokens[k.id[2]].case = c
              /\ tokens[k.id[2]].decision = k.content /\ tokens[k.id[2]].revision = r - 1
        BY <3>1, <3>2
      <3> QED BY <3>3, <3>4 DEF FromButton
    <2> QED BY <2>1, <2>2
  <1>9. ChatTyped'
    BY DEF ChatInv, ChatTyped, WorkerStates
  <1> QED BY <1>5, <1>6, <1>7, <1>8, <1>9 DEF ChatInv, ChatSound

LEMMA ChatAside ==
  ASSUME ChatInv, LedgerOk, UNCHANGED chatVars,
         UNCHANGED ledger \/ \E k : Effect(k) /\ k.id[1] # "private"
  PROVE  ChatInv'
  <1>1. CASE UNCHANGED ledger
    BY <1>1, Kept, ChatMoves DEF chatVars, ChatInv, ChatTyped
  <1>2. CASE \E k : Effect(k) /\ k.id[1] # "private"
    <2>1. PICK k : Effect(k) /\ k.id[1] # "private"
      BY <1>2
    <2>2. UNCHANGED <<pairs, links, tokens, jobs, worker, call>>
      BY DEF chatVars
    <2>3. call # NoCall =>
            /\ call \in [phase : {"execute", "done"}, token : DOMAIN tokens]
            /\ tokens[call.token].kind = "CONFIRM" /\ tokens[call.token].messages # {}
            /\ links[tokens[call.token].version].active
            /\ call.phase = "done" => IsDone(call.token)
      BY DEF ChatInv, ChatTyped, ChatSound, CallOk
    <2> QED BY <2>1, <2>2, <2>3, ChatUnderEffect
  <1> QED BY <1>1, <1>2

LEMMA PressConfirmKeeps ==
  ASSUME ChatInv, LedgerOk, NEW j \in DOMAIN jobs, NEW t \in DOMAIN tokens,
         Private!PressConfirm(j, t)
  PROVE  ChatInv'
  <1>1. /\ UNCHANGED <<ledger, pairs, links, tokens, jobs, worker>>
        /\ call' = [phase |-> "execute", token |-> t]
        /\ tokens[t].kind = "CONFIRM" /\ tokens[t].messages # {}
        /\ links[tokens[t].version].active
    BY DEF Private!PressConfirm, Private!Pressed, Private!Linked, Private!Active, Private!Known,
           Private!linkVars
  <1>2. /\ ButtonsOk'
        /\ \A c \in Cases : \A r \in DOMAIN ledger'[c] : FromButton(c, r)'
    BY <1>1, Kept, ButtonsMove
  <1>3. LinksOk'
    BY <1>1 DEF ChatInv, ChatSound, LinksOk
  <1>4. CallOk'
    BY <1>1 DEF CallOk
  <1>5. ChatTyped'
    BY <1>1 DEF ChatInv, ChatTyped, WorkerStates
  <1> QED BY <1>2, <1>3, <1>4, <1>5 DEF ChatInv, ChatSound

LEMMA ExecuteKeeps ==
  ASSUME ChatInv, LedgerOk, Private!ExecuteDecision
  PROVE  ChatInv' /\ (UNCHANGED ledger \/ \E k : Effect(k) /\ k.event = NoEvent)
  <1>1. call # NoCall /\ call \in [phase : {"execute", "done"}, token : DOMAIN tokens]
    BY DEF Private!ExecuteDecision, ChatInv, ChatTyped
  <1>2. PICK t \in DOMAIN tokens : t = call.token
    BY <1>1
  <1> DEFINE k == Private!Decision(t)
  <1>3. /\ UNCHANGED <<pairs, links, tokens, jobs, worker>>
        /\ tokens \in Seq(Button) /\ tokens[t] \in Button /\ t \in Nat
        /\ tokens[t].kind = "CONFIRM" /\ tokens[t].messages # {}
        /\ links[tokens[t].version].active
        /\ tokens[t].decision \in Decisions
    BY <1>1, <1>2, LenProperties
       DEF Private!ExecuteDecision, Private!linkVars, ChatInv, ChatTyped, ChatSound, CallOk, ButtonsOk
  <1>4. /\ k \in Command /\ k.id = Private!PrivateId(t) /\ k.id[1] = "private" /\ k.id[2] = t
        /\ k.case = tokens[t].case /\ k.content = tokens[t].decision /\ k.event = NoEvent
        /\ k.expected = tokens[t].revision /\ k.action = "MERCHANT_DECISION"
    BY <1>3 DEF Private!Decision, Private!PrivateId, Private!SeenRevision, Command, CommandIds, Button
  <1> HIDE DEF k
  <1>5. \/ Executed(k) /\ call' = [call EXCEPT !.phase = "done"]
        \/ (\E r \in DOMAIN ledger[k.case] : Replayed(k, r)) /\ call' = [call EXCEPT !.phase = "done"]
        \/ Refused(k) /\ call' = NoCall
    BY <1>2, PrivateView DEF Private!ExecuteDecision, Private!Accepted, k
  <1>6. CASE Executed(k) /\ call' = [call EXCEPT !.phase = "done"]
    <2>1. Effect(k) /\ Revision(k.case) = tokens[t].revision
      BY <1>4, <1>6 DEF Executed, Effect, Admitted
    <2>2. call'.token = t /\ call' \in [phase : {"execute", "done"}, token : DOMAIN tokens]
      BY <1>1, <1>2, <1>6
    <2>3. ChatInv'
      BY <1>3, <1>4, <2>1, <2>2, ChatUnderEffect
    <2> QED BY <1>4, <2>1, <2>3
  <1>7. CASE (\E r \in DOMAIN ledger[k.case] : Replayed(k, r)) /\ call' = [call EXCEPT !.phase = "done"]
    <2>1. UNCHANGED ledger /\ \E r \in DOMAIN ledger[k.case] : ledger[k.case][r] = k
      BY <1>4, <1>7 DEF Replayed, Answers
    <2>2. IsDone(t)
      BY <1>4, <2>1 DEF IsDone, Entries
    <2>3. call'.token = t /\ call' \in [phase : {"execute", "done"}, token : DOMAIN tokens]
      BY <1>1, <1>2, <1>7
    <2>4. /\ ButtonsOk'
          /\ \A c \in Cases : \A r \in DOMAIN ledger'[c] : FromButton(c, r)'
          /\ IsDone(t)'
      BY <1>3, <2>1, <2>2, Kept, ButtonsMove
    <2>5. LinksOk'
      BY <1>3 DEF ChatInv, ChatSound, LinksOk
    <2>6. CallOk'
      BY <1>3, <2>3, <2>4 DEF CallOk
    <2>7. ChatTyped'
      BY <1>3, <2>3 DEF ChatInv, ChatTyped, WorkerStates
    <2> QED BY <2>1, <2>4, <2>5, <2>6, <2>7 DEF ChatInv, ChatSound
  <1>8. CASE Refused(k) /\ call' = NoCall
    BY <1>3, <1>8, Kept, ChatMoves DEF Refused, ChatInv, ChatTyped
  <1> QED BY <1>5, <1>6, <1>7, <1>8

-----------------------------------------------------------------------------
(* The rest of a decision, and the worker.                                 *)

LEMMA FinishDecisionKeeps ==
  ASSUME ChatInv, LedgerOk, Private!FinishDecision
  PROVE  ChatInv'
  <1>1. /\ call # NoCall /\ call.phase = "done" /\ call' = NoCall
        /\ call \in [phase : {"execute", "done"}, token : DOMAIN tokens]
    BY DEF Private!FinishDecision, ChatInv, ChatTyped
  <1>2. PICK t \in DOMAIN tokens : t = call.token
    BY <1>1
  <1>3. /\ UNCHANGED <<ledger, pairs, links, worker>>
        /\ tokens' = [tokens EXCEPT ![t].state = "DONE"]
        /\ jobs' = jobs \/ jobs' = Append(jobs, Private!Reply(t, {}))
    BY <1>2 DEF Private!FinishDecision, Private!linkVars
  <1>4. /\ tokens \in Seq(Button) /\ tokens[t] \in Button /\ jobs \in Seq(Message)
        /\ tokens[t].kind = "CONFIRM" /\ IsDone(t)
        /\ tokens[t].version \in DOMAIN links /\ links[tokens[t].version].active
    BY <1>1, <1>2 DEF ChatInv, ChatTyped, ChatSound, CallOk, LinksOk
  <1>5. [tokens[t] EXCEPT !.state = "DONE"] \in Button
    BY <1>4 DEF Button
  <1>6. /\ tokens' \in Seq(Button) /\ DOMAIN tokens' = DOMAIN tokens
        /\ tokens'[t] = [tokens[t] EXCEPT !.state = "DONE"]
        /\ \A i \in DOMAIN tokens : i # t => tokens'[i] = tokens[i]
    BY <1>3, <1>4, <1>5, ExceptSeq
  <1>7. ASSUME NEW i \in DOMAIN tokens
        PROVE  ButtonKept(i)
    <2>1. CASE i = t
      BY <1>4, <1>6, <2>1 DEF ButtonKept, Button
    <2>2. CASE i # t
      BY <1>6, <2>2 DEF ButtonKept
    <2> QED BY <2>1, <2>2
  <1>8. /\ jobs' \in Seq(Message)
        /\ \A i \in DOMAIN jobs : MessageKept(i)
        /\ \A i \in DOMAIN jobs' \ DOMAIN jobs : MessageNew(i)
    <2>1. CASE jobs' = jobs
      BY <1>4, <2>1, Kept
    <2>2. CASE jobs' = Append(jobs, Private!Reply(t, {}))
      <3>1. /\ tokens[t].case \in Cases /\ Private!Revision(tokens[t].case) \in Nat
            /\ {} \in SUBSET Nat
        BY <1>4, StageTyped, PrivateView DEF Button
      <3>2. PICK card \in Message : card.version = tokens[t].version /\ jobs' = Append(jobs, card)
        BY <1>4, <2>2, <3>1, JobTyped DEF Private!Reply
      <3> QED BY <1>4, <3>2, Appended DEF MessageKept, MessageNew
    <2> QED BY <1>3, <2>1, <2>2
  <1>9. pairs' \in [Accounts -> Pairing] /\ worker' \in WorkerStates
    BY <1>3 DEF ChatInv, ChatTyped
  <1> QED BY <1>1, <1>3, <1>6, <1>7, <1>8, <1>9, ChatMoves

LEMMA TokenExpiresKeeps ==
  ASSUME ChatInv, NEW t \in DOMAIN tokens, Private!TokenExpires(t)
  PROVE  ChatInv'
  <1>1. /\ UNCHANGED <<ledger, pairs, links, jobs, call, worker>>
        /\ tokens' = [tokens EXCEPT ![t].expired = TRUE]
    BY DEF Private!TokenExpires, Private!linkVars
  <1>2. tokens \in Seq(Button) /\ tokens[t] \in Button
    BY DEF ChatInv, ChatTyped
  <1>3. [tokens[t] EXCEPT !.expired = TRUE] \in Button
    BY <1>2 DEF Button
  <1>4. /\ tokens' \in Seq(Button) /\ DOMAIN tokens' = DOMAIN tokens
        /\ tokens'[t] = [tokens[t] EXCEPT !.expired = TRUE]
        /\ \A i \in DOMAIN tokens : i # t => tokens'[i] = tokens[i]
    BY <1>1, <1>2, <1>3, ExceptSeq
  <1>5. \A i \in DOMAIN tokens : ButtonKept(i)
    BY <1>2, <1>4 DEF ButtonKept, Button
  <1> QED BY <1>1, <1>4, <1>5, Kept, ChatMoves DEF ChatInv, ChatTyped

(* One message moves on, but never back to PENDING.                        *)
LEMMA MessageMoves ==
  ASSUME ChatInv, UNCHANGED <<ledger, pairs, links, call>>,
         tokens' \in Seq(Button), DOMAIN tokens' = DOMAIN tokens,
         \A t \in DOMAIN tokens : ButtonKept(t),
         NEW j \in DOMAIN jobs, NEW state \in {"SENDING", "SENT", "UNCERTAIN", "BLOCKED"},
         jobs' = [jobs EXCEPT ![j].state = state], worker' \in WorkerStates
  PROVE  ChatInv'
  <1>1. jobs \in Seq(Message) /\ jobs[j] \in Message
    BY DEF ChatInv, ChatTyped
  <1>2. [jobs[j] EXCEPT !.state = state] \in Message
    BY <1>1 DEF Message
  <1>3. /\ jobs' \in Seq(Message) /\ DOMAIN jobs' = DOMAIN jobs
        /\ jobs'[j] = [jobs[j] EXCEPT !.state = state]
        /\ \A i \in DOMAIN jobs : i # j => jobs'[i] = jobs[i]
    BY <1>1, <1>2, ExceptSeq
  <1>4. \A i \in DOMAIN jobs : MessageKept(i)
    BY <1>1, <1>3 DEF MessageKept, Message
  <1> QED BY <1>3, <1>4, ChatMoves DEF ChatInv, ChatTyped

LEMMA WorkerMoves ==
  ASSUME ChatInv, UNCHANGED <<ledger, pairs, links, tokens, jobs>>, call' \in {call, NoCall},
         worker' \in WorkerStates
  PROVE  ChatInv'
  BY Kept, ChatMoves DEF ChatInv, ChatTyped

LEMMA Mapped ==
  ASSUME NEW S, NEW s \in Seq(S), NEW f \in [DOMAIN s -> S]
  PROVE  f \in Seq(S)
  <1>1. DOMAIN s = 1 .. Len(s) /\ Len(s) \in Nat
    BY LenProperties
  <1> QED BY <1>1, SeqDef

LEMMA WorkerKeeps ==
  ASSUME ChatInv, LedgerOk,
         \/ \E v \in DOMAIN links, c \in Cases : Private!Look(v, c)
         \/ Private!Revalidate \/ Private!SendMessage \/ Private!WorkerFails
         \/ Private!RollBack \/ Private!Crash
  PROVE  ChatInv'
  <1>1. /\ worker \in WorkerStates /\ Private!Resting \in WorkerStates
        /\ UNCHANGED <<ledger, pairs, links, tokens, jobs>> /\ call' \in {call, NoCall}
    BY DEF ChatInv, ChatTyped, WorkerStates, Private!Look, Private!Revalidate, Private!SendMessage,
           Private!WorkerFails, Private!RollBack, Private!Crash, Private!linkVars
  <1>2. ASSUME NEW v \in DOMAIN links, NEW c \in Cases, Private!Look(v, c)
        PROVE  worker' \in WorkerStates
    BY <1>2, StageTyped, PrivateView DEF Private!Look, WorkerStates
  <1>3. ASSUME worker.phase \in {"compose", "send"}
        PROVE  worker \in [phase : {"compose", "send"}, job : DOMAIN jobs]
    BY <1>1, <1>3 DEF WorkerStates, Private!Resting
  <1>4. ASSUME Private!Revalidate
        PROVE  worker' \in WorkerStates
    BY <1>3, <1>4 DEF Private!Revalidate, Private!Saving, WorkerStates
  <1>5. ASSUME Private!SendMessage
        PROVE  worker' \in WorkerStates
    BY <1>3, <1>5 DEF Private!SendMessage, Private!Saving, WorkerStates
  <1>6. ASSUME Private!WorkerFails \/ Private!RollBack \/ Private!Crash
        PROVE  worker' \in WorkerStates
    BY <1>1, <1>6 DEF Private!WorkerFails, Private!RollBack, Private!Crash
  <1> QED BY <1>1, <1>2, <1>4, <1>5, <1>6, WorkerMoves

LEMMA ClaimJobKeeps ==
  ASSUME ChatInv, NEW j \in DOMAIN jobs, Private!ClaimJob(j) \/ Private!GiveUpStale(j)
  PROVE  ChatInv'
  <1>1. /\ UNCHANGED <<ledger, pairs, links, tokens, call>>
        /\ tokens \in Seq(Button) /\ worker \in WorkerStates
    BY DEF ChatInv, ChatTyped, Private!ClaimJob, Private!GiveUpStale, Private!linkVars
  <1>2. \E state \in {"SENDING", "SENT", "UNCERTAIN", "BLOCKED"} : jobs' = [jobs EXCEPT ![j].state = state]
    BY DEF Private!ClaimJob, Private!GiveUpStale
  <1>3. worker' \in WorkerStates
    BY <1>1 DEF Private!ClaimJob, Private!GiveUpStale, WorkerStates
  <1> QED BY <1>1, <1>2, <1>3, Kept, MessageMoves

(* A message that was sent binds its buttons; dead ones stay as they are.  *)
LEMMA SaveJobKeeps ==
  ASSUME ChatInv, Private!SaveJob
  PROVE  ChatInv'
  <1>1. /\ worker \in [phase : {"save"}, job : DOMAIN jobs, state : {"SENT", "UNCERTAIN", "BLOCKED"}]
        /\ tokens \in Seq(Button) /\ jobs \in Seq(Message)
        /\ UNCHANGED <<ledger, pairs, links, call>>
        /\ worker' \in WorkerStates
    BY DEF ChatInv, ChatTyped, WorkerStates, Private!Resting, Private!SaveJob, Private!linkVars
  <1>2. PICK j \in DOMAIN jobs : j = worker.job
    BY <1>1
  <1>3. /\ jobs' = [jobs EXCEPT ![j].state = worker.state]
        /\ tokens' = tokens \/ tokens' = Private!Bound(j)
    BY <1>2 DEF Private!SaveJob
  <1>4. j \in Nat
    BY <1>1, LenProperties
  <1>5. /\ tokens' \in Seq(Button) /\ DOMAIN tokens' = DOMAIN tokens
        /\ \A t \in DOMAIN tokens : ButtonKept(t)
    <2>1. CASE tokens' = tokens
      BY <1>1, <2>1, Kept
    <2>2. CASE tokens' = Private!Bound(j)
      <3>1. \A t \in DOMAIN tokens :
              tokens[t] \in Button /\ [tokens[t] EXCEPT !.messages = @ \cup {j}] \in Button
        <4>1. \A t \in DOMAIN tokens : tokens[t] \in Button
          BY <1>1, Elements
        <4> QED BY <1>4, <4>1 DEF Button
      <3>2. /\ tokens' \in [DOMAIN tokens -> Button] /\ DOMAIN tokens' = DOMAIN tokens
            /\ \A t \in DOMAIN tokens :
                 tokens'[t] \in {tokens[t], [tokens[t] EXCEPT !.messages = @ \cup {j}]}
        BY <2>2, <3>1 DEF Private!Bound
      <3>3. tokens' \in Seq(Button)
        BY <1>1, <3>2, Mapped
      <3>4. \A t \in DOMAIN tokens : ButtonKept(t)
        BY <3>1, <3>2 DEF ButtonKept, Button
      <3> QED BY <3>2, <3>3, <3>4
    <2> QED BY <1>3, <2>1, <2>2
  <1> QED BY <1>1, <1>3, <1>5, MessageMoves

-----------------------------------------------------------------------------
(* The website: accounts, pairs, and links made and cut.                   *)

LEMMA PairsKeep ==
  ASSUME ChatInv,
         \/ Private!AccountStep /\ UNCHANGED <<ledger, Private!privateVars>>
         \/ \E a \in Accounts :
              /\ \/ Private!CreatePair(a)
                 \/ \E chat1 \in Chats : Private!ClaimPair(a, chat1)
              /\ UNCHANGED <<ledger, Private!privateVars>>
  PROVE  ChatInv'
  <1>1. /\ pairs \in [Accounts -> Pairing] /\ tokens \in Seq(Button) /\ jobs \in Seq(Message)
        /\ worker \in WorkerStates
    BY DEF ChatInv, ChatTyped
  <1>2. UNCHANGED <<ledger, links, tokens, jobs, call, worker>>
    BY DEF Private!AccountStep, Private!SetDisabled, Private!SetEnabled, Private!PairExpires,
           Private!CreatePair, Private!ClaimPair, Private!privateVars
  <1>3. pairs' \in [Accounts -> Pairing]
    <2>1. \A a \in Accounts : /\ pairs[a] \in Pairing /\ [pairs[a] EXCEPT !.expired = TRUE] \in Pairing
                              /\ \A chat1 \in Chats : [pairs[a] EXCEPT !.state = "CLAIMED", !.chat = chat1] \in Pairing
      BY <1>1 DEF Pairing
    <2>2. [state |-> "PENDING", chat |-> NoChat, expired |-> FALSE] \in Pairing
      BY DEF Pairing
    <2>3. CASE pairs' = pairs
      BY <1>1, <2>3
    <2>4. CASE \E a \in Accounts : Private!PairExpires(a)
      BY <1>1, <2>1, <2>4 DEF Private!PairExpires
    <2>5. CASE \E a \in Accounts : Private!CreatePair(a)
      BY <1>1, <2>2, <2>5 DEF Private!CreatePair
    <2>6. CASE \E a \in Accounts, chat1 \in Chats : Private!ClaimPair(a, chat1)
      <3>1. PICK a \in Accounts, chat1 \in Chats :
                   pairs' = [pairs EXCEPT ![a].state = "CLAIMED", ![a].chat = chat1]
        BY <2>6 DEF Private!ClaimPair
      <3>2. pairs' = [pairs EXCEPT ![a] = [pairs[a] EXCEPT !.state = "CLAIMED", !.chat = chat1]]
        BY <3>1
      <3>3. [pairs[a] EXCEPT !.state = "CLAIMED", !.chat = chat1] \in Pairing
        BY <2>1
      <3> QED BY <1>1, <3>2, <3>3
    <2> QED BY <2>3, <2>4, <2>5, <2>6 DEF Private!AccountStep, Private!SetDisabled, Private!SetEnabled
  <1> QED BY <1>1, <1>2, <1>3, Kept, ChatMoves

LEMMA ConfirmPairKeeps ==
  ASSUME ChatInv, NEW a \in Accounts, Private!ConfirmPair(a), UNCHANGED <<ledger, Private!privateVars>>
  PROVE  ChatInv'
  <1>1. /\ pairs \in [Accounts -> Pairing] /\ tokens \in Seq(Button) /\ jobs \in Seq(Message)
        /\ links \in Seq(Link) /\ worker \in WorkerStates
    BY DEF ChatInv, ChatTyped
  <1>2. PICK link : /\ link = [account |-> a, chat |-> pairs[a].chat, active |-> TRUE]
                    /\ links' = Append(links, link)
    BY DEF Private!ConfirmPair
  <1>3. link \in Link
    BY <1>1, <1>2 DEF Link, Pairing
  <1>4. /\ links' \in Seq(Link) /\ \A v \in DOMAIN links : v \in DOMAIN links' /\ links'[v] = links[v]
    BY <1>1, <1>2, <1>3, Appended
  <1>5. pairs' \in [Accounts -> Pairing]
    <2>1. [pairs[a] EXCEPT !.state = "CONFIRMED"] \in Pairing
      BY <1>1 DEF Pairing
    <2> QED BY <1>1, <2>1 DEF Private!ConfirmPair
  <1>6. UNCHANGED <<ledger, tokens, jobs, call, worker>>
    BY DEF Private!privateVars
  <1>7. /\ ButtonsOk'
        /\ \A c \in Cases : \A r \in DOMAIN ledger'[c] : FromButton(c, r)'
        /\ \A t \in DOMAIN tokens : IsDone(t) => IsDone(t)'
    BY <1>6, Kept, ButtonsMove
  <1>8. LinksOk'
    BY <1>4, <1>6 DEF ChatInv, ChatSound, LinksOk
  <1>9. CallOk'
    BY <1>4, <1>6, <1>7 DEF ChatInv, ChatTyped, ChatSound, CallOk, LinksOk
  <1>10. worker' \in WorkerStates'
    BY <1>1, <1>4, <1>6 DEF WorkerStates, Private!Resting
  <1>11. ChatTyped'
    BY <1>4, <1>5, <1>6, <1>10 DEF ChatInv, ChatTyped
  <1> QED BY <1>7, <1>8, <1>9, <1>11 DEF ChatInv, ChatSound

(* Cutting a link kills its buttons and messages in the same transaction.  *)
LEMMA UnlinkKeeps ==
  ASSUME ChatInv, NEW a \in Accounts, Private!Unlink(a)
  PROVE  ChatInv'
  <1>1. /\ pairs \in [Accounts -> Pairing] /\ tokens \in Seq(Button) /\ jobs \in Seq(Message)
        /\ links \in Seq(Link) /\ worker \in WorkerStates
        /\ call = NoCall /\ UNCHANGED <<ledger, call, worker>>
    BY DEF ChatInv, ChatTyped, Private!Unlink, Private!Unlocked
  <1>2. pairs' \in [Accounts -> Pairing]
    <2>1. [pairs[a] EXCEPT !.state = IF @ = "NONE" THEN @ ELSE "REVOKED"] \in Pairing
      BY <1>1 DEF Pairing
    <2> QED BY <1>1, <2>1 DEF Private!Unlink
  <1>3. /\ links' \in Seq(Link) /\ DOMAIN links' = DOMAIN links
        /\ \A v \in DOMAIN links :
             links[v].account # a => links'[v] = links[v]
    <2>1. \A v \in DOMAIN links : links[v] \in Link /\ [links[v] EXCEPT !.active = FALSE] \in Link
      <3>1. \A v \in DOMAIN links : links[v] \in Link
        BY <1>1, Elements
      <3> QED BY <3>1 DEF Link
    <2>2. /\ links' \in [DOMAIN links -> Link]
          /\ \A v \in DOMAIN links : links[v].account # a => links'[v] = links[v]
      BY <2>1 DEF Private!Unlink, Private!Cut
    <2> QED BY <1>1, <2>2, Mapped
  <1>4. \A t \in DOMAIN tokens : tokens[t].version \in DOMAIN links
    BY DEF ChatInv, ChatSound, LinksOk
  <1>5. /\ tokens' \in Seq(Button) /\ DOMAIN tokens' = DOMAIN tokens
        /\ \A t \in DOMAIN tokens :
             /\ tokens'[t] \in {tokens[t], [tokens[t] EXCEPT !.state = "REVOKED"]}
             /\ links[tokens[t].version].account = a => tokens'[t].state = "REVOKED"
             /\ ButtonKept(t)
    <2>1. \A t \in DOMAIN tokens : tokens[t] \in Button /\ [tokens[t] EXCEPT !.state = "REVOKED"] \in Button
      <3>1. \A t \in DOMAIN tokens : tokens[t] \in Button
        BY <1>1, Elements
      <3> QED BY <3>1 DEF Button
    <2>2. /\ tokens' \in [DOMAIN tokens -> Button] /\ DOMAIN tokens' = DOMAIN tokens
          /\ \A t \in DOMAIN tokens :
               /\ tokens'[t] \in {tokens[t], [tokens[t] EXCEPT !.state = "REVOKED"]}
               /\ links[tokens[t].version].account = a => tokens'[t] = [tokens[t] EXCEPT !.state = "REVOKED"]
      BY <2>1 DEF Private!Unlink, Private!Revoked
    <2>3. tokens' \in Seq(Button)
      BY <1>1, <2>2, Mapped
    <2>4. \A t \in DOMAIN tokens :
             /\ links[tokens[t].version].account = a => tokens'[t].state = "REVOKED"
             /\ ButtonKept(t)
      BY <2>1, <2>2 DEF ButtonKept, Button
    <2> QED BY <2>2, <2>3, <2>4
  <1>6. /\ jobs' \in Seq(Message) /\ DOMAIN jobs' = DOMAIN jobs
        /\ \A j \in DOMAIN jobs :
             /\ jobs'[j].version = jobs[j].version
             /\ links[jobs[j].version].account = a => jobs'[j].state # "PENDING"
             /\ jobs'[j].state = "PENDING" => jobs[j].state = "PENDING"
    <2>1. \A j \in DOMAIN jobs : jobs[j] \in Message /\ [jobs[j] EXCEPT !.state = "BLOCKED"] \in Message
      <3>1. \A j \in DOMAIN jobs : jobs[j] \in Message
        BY <1>1, Elements
      <3> QED BY <3>1 DEF Message
    <2>2. /\ jobs' \in [DOMAIN jobs -> Message] /\ DOMAIN jobs' = DOMAIN jobs
          /\ \A j \in DOMAIN jobs :
               \/ jobs'[j] = [jobs[j] EXCEPT !.state = "BLOCKED"]
               \/ /\ jobs'[j] = jobs[j]
                  /\ ~(links[jobs[j].version].account = a /\ jobs[j].state = "PENDING")
      BY <2>1 DEF Private!Unlink
    <2>3. jobs' \in Seq(Message)
      BY <1>1, <2>2, Mapped
    <2> QED BY <2>1, <2>2, <2>3 DEF Message
  <1>7. /\ ButtonsOk'
        /\ \A c \in Cases : \A r \in DOMAIN ledger'[c] : FromButton(c, r)'
    BY <1>1, <1>5, ButtonsMove
  <1>8. LinksOk'
    <2>1. ASSUME NEW t \in DOMAIN tokens'
          PROVE  /\ tokens'[t].version \in DOMAIN links'
                 /\ ~links'[tokens'[t].version].active => tokens'[t].state = "REVOKED"
      BY <1>3, <1>4, <1>5 DEF ChatInv, ChatSound, LinksOk, ButtonKept
    <2>2. ASSUME NEW j \in DOMAIN jobs'
          PROVE  /\ jobs'[j].version \in DOMAIN links'
                 /\ ~links'[jobs'[j].version].active => jobs'[j].state # "PENDING"
      BY <1>3, <1>6 DEF ChatInv, ChatSound, LinksOk
    <2> QED BY <2>1, <2>2 DEF LinksOk
  <1>9. CallOk'
    BY <1>1 DEF CallOk
  <1>10. worker' \in WorkerStates'
    BY <1>1, <1>3, <1>6 DEF WorkerStates, Private!Resting
  <1>11. ChatTyped'
    BY <1>1, <1>2, <1>3, <1>5, <1>6, <1>10 DEF ChatTyped
  <1> QED BY <1>7, <1>8, <1>9, <1>11 DEF ChatInv, ChatSound

-----------------------------------------------------------------------------
(* The chats as a whole.                                                   *)

LEMMA OthersKeepChats ==
  ASSUME ChatInv, LedgerOk, NEW c \in Cases, NEW a \in ChatActions, Private!Others(c, a)
  PROVE  ChatInv' /\ \E k : Effect(k) /\ k.event = NoEvent
  <1>1. OtherWork(c, a) /\ UNCHANGED <<pairs, links, tokens, jobs, call, worker>>
    BY PrivateView DEF Private!Others, Private!linkVars, Private!privateVars
  <1>2. PICK k : k = OtherCommand(c, a) /\ Effect(k) /\ k.event = NoEvent
    BY <1>1, OthersEffect
  <1>3. k.id[1] # "private"
    BY <1>2 DEF OtherCommand
  <1>4. call # NoCall =>
          /\ call \in [phase : {"execute", "done"}, token : DOMAIN tokens]
          /\ tokens[call.token].kind = "CONFIRM" /\ tokens[call.token].messages # {}
          /\ links[tokens[call.token].version].active
          /\ call.phase = "done" => IsDone(call.token)
    BY DEF ChatInv, ChatTyped, ChatSound, CallOk
  <1>5. ChatInv'
    BY <1>1, <1>2, <1>3, <1>4, ChatUnderEffect
  <1> QED BY <1>2, <1>5

LEMMA ChatKeeps ==
  ASSUME ChatInv, LedgerOk, Private!Next
  PROVE  ChatInv' /\ (UNCHANGED ledger \/ \E k : Effect(k) /\ k.event = NoEvent)
  <1>1. CASE Private!Website
    <2>1. CASE Private!AccountStep /\ UNCHANGED <<ledger, Private!privateVars>>
      BY <2>1, PairsKeep
    <2>2. CASE \E a \in Accounts : Private!Pair(a)
      <3>1. PICK a \in Accounts : Private!Pair(a)
        BY <2>2
      <3> QED BY <3>1, PairsKeep, ConfirmPairKeeps DEF Private!Pair
    <2>3. CASE \E a \in Accounts : Private!Unlink(a)
      BY <2>3, UnlinkKeeps DEF Private!Unlink
    <2> QED BY <1>1, <2>1, <2>2, <2>3 DEF Private!Website, Private!Pair
  <1>2. CASE Private!Chatting
    <2>1. UNCHANGED ledger
      BY <1>2 DEF Private!Chatting, Private!Query, Private!SelectFrom, Private!Press, Private!PressSelect,
                  Private!PressPrepare, Private!PressDone, Private!PressConfirm
    <2>2. CASE \E v \in DOMAIN links, c \in Cases : Private!Query(v, c) \/ Private!SelectFrom(v, c)
      BY <2>1, <2>2, Cards
    <2>3. CASE \E j \in DOMAIN jobs, t \in DOMAIN tokens : Private!Press(j, t)
      <3>1. PICK j \in DOMAIN jobs, t \in DOMAIN tokens : Private!Press(j, t)
        BY <2>3
      <3> QED BY <2>1, <3>1, Cards, PrepareBrings, PressConfirmKeeps DEF Private!Press
    <2> QED BY <1>2, <2>2, <2>3 DEF Private!Chatting
  <1>3. CASE Private!Deciding
    BY <1>3, ExecuteKeeps, FinishDecisionKeeps DEF Private!Deciding, Private!FinishDecision
  <1>4. CASE \/ Private!RollBack \/ Private!WorkerFails \/ Private!Crash
             \/ \E v \in DOMAIN links, c \in Cases : Private!Look(v, c)
    BY <1>4, WorkerKeeps DEF Private!RollBack, Private!WorkerFails, Private!Crash, Private!Look
  <1>5. CASE \E t \in DOMAIN tokens : Private!TokenExpires(t)
    BY <1>5, TokenExpiresKeeps DEF Private!TokenExpires
  <1>6. CASE Private!WorkerStep
    <2>1. UNCHANGED ledger
      BY <1>6 DEF Private!WorkerStep, Private!Observe, Private!Revalidate, Private!SendMessage,
                  Private!SaveJob, Private!ClaimJob, Private!GiveUpStale
    <2> QED BY <1>6, <2>1, Cards, WorkerKeeps, SaveJobKeeps, ClaimJobKeeps DEF Private!WorkerStep
  <1>7. CASE \E c \in Cases, a \in ChatActions : Private!Others(c, a)
    BY <1>7, OthersKeepChats
  <1> QED BY <1>1, <1>2, <1>3, <1>4, <1>5, <1>6, <1>7 DEF Private!Next

LEMMA ChatBegins ==
  ASSUME EngineInit, Private!LinksInit, Private!CasesInit
  PROVE  ChatInv
  <1>1. /\ links = <<>> /\ tokens = <<>> /\ jobs = <<>> /\ call = NoCall /\ worker = Private!Resting
        /\ pairs = [a \in Accounts |-> Private!NoPair] /\ ledger = [c \in Cases |-> <<>>]
    BY DEF EngineInit, Private!LinksInit, Private!CasesInit
  <1>2. Private!NoPair \in Pairing
    BY DEF Private!NoPair, Pairing
  <1>3. ChatTyped
    BY <1>1, <1>2 DEF ChatTyped, WorkerStates
  <1>4. ChatSound
    BY <1>1 DEF ChatSound, LinksOk, ButtonsOk, CallOk, FromButton
  <1> QED BY <1>3, <1>4 DEF ChatInv

LEMMA ChatSays ==
  ASSUME ChatInv
  PROVE  ShownBeforeDecided /\ InactiveIsInert /\ DoneIsDecided
  <1>1. ShownBeforeDecided
    <2> SUFFICES ASSUME NEW c \in Cases, NEW r \in DOMAIN ledger[c], ledger[c][r].id[1] = "private",
                        NEW t, t = ledger[c][r].id[2]
                 PROVE  /\ tokens[t].kind = "CONFIRM" /\ tokens[t].messages # {}
                        /\ \E p \in DOMAIN tokens :
                             /\ tokens[p].kind = "PREPARE" /\ tokens[p].next = t
                             /\ tokens[p].messages # {}
                             /\ tokens[p].case = c /\ tokens[p].version = tokens[t].version
                             /\ tokens[p].decision = ledger[c][r].content
                             /\ tokens[p].revision = r - 1
      BY DEF ShownBeforeDecided, Private!ShownBeforeDecided
    <2>1. /\ t \in DOMAIN tokens /\ tokens[t].kind = "CONFIRM" /\ tokens[t].messages # {}
          /\ tokens[t].case = c /\ tokens[t].decision = ledger[c][r].content
          /\ tokens[t].revision = r - 1
      BY DEF ChatInv, ChatSound, FromButton
    <2>2. PICK p \in DOMAIN tokens : Brings(p, t)
      BY <2>1 DEF ChatInv, ChatSound, ButtonsOk
    <2> QED BY <2>1, <2>2 DEF Brings
  <1>2. InactiveIsInert
    BY DEF ChatInv, ChatSound, LinksOk, InactiveIsInert, Private!InactiveIsInert, Private!Active
  <1>3. DoneIsDecided
    BY PrivateView DEF ChatInv, ChatSound, ButtonsOk, IsDone, DoneIsDecided, Private!DoneIsDecided
  <1> QED BY <1>1, <1>2, <1>3

-----------------------------------------------------------------------------
(***************************************************************************)
(* The other clients: the rows of the inbox, of the callbacks and of the   *)
(* outbox, and all clients together.                                       *)
(***************************************************************************)
InboxCommand ==
  [id : {"inbox"} \X Sources \X Nat, action : {"INTAKE", "RECORD_OUTCOME"}, case : Cases,
   event : Sources, content : Nat, expected : Nat]

Attempt ==
  [actor : Operators, status : {"QUARANTINED", "RECORDED", "PROCESSING", "PROCESSED"},
   command : InboxCommand]

EventRow == [status : Statuses, attempts : Seq(Attempt), receipt : Nat \cup {NoReceipt}]

Work ==
  {Idle}
  \cup [phase : {"prepare"}, event : Envelopes, actor : Operators, try : Attempt, seen : Nat]
  \cup [phase : {"dispatch"}, event : Envelopes, number : Nat]
  \cup [phase : {"finish"}, event : Envelopes, number : Nat,
        status : {"PROCESSED", "QUARANTINED"}, receipt : Nat \cup {NoReceipt}]

InboxTyped ==
  /\ registered \in BOOLEAN
  /\ inbox \in [Envelopes -> EventRow]
  /\ work \in [Threads -> Work]

Recorded(e, r) == r \in DOMAIN ledger[e.case] /\ ledger[e.case][r].event = e.source
IsTryOf(e, a) == a.command.event = e.source /\ a.command.case = e.case

RowOk(e) ==
  /\ \A n \in DOMAIN inbox[e].attempts : IsTryOf(e, inbox[e].attempts[n])
  /\ Len(inbox[e].attempts) <= MaxAttempts
  /\ inbox[e].receipt # NoReceipt <=> inbox[e].status = "PROCESSED"
  /\ inbox[e].status \notin {"NONE", "RECEIVED"} =>
       inbox[e].attempts # <<>> /\ Pending(e).status = inbox[e].status
  /\ inbox[e].status = "PROCESSED" => Recorded(e, inbox[e].receipt)

(* A try that was begun is of its event, counts what was there when it was *)
(* begun, and meets a RECORDED row only after another try was stored.      *)
BeginsRight(w) ==
  w.phase = "prepare" =>
    /\ IsTryOf(w.event, w.try) /\ w.try.status # "PROCESSED"
    /\ w.seen <= Len(inbox[w.event].attempts) /\ w.seen < MaxAttempts
    /\ w.seen = Len(inbox[w.event].attempts) => inbox[w.event].status # "RECORDED"

GoesOnRight(w) ==
  w.phase \in {"dispatch", "finish"} =>
    /\ w.number \in 1 .. Len(inbox[w.event].attempts)
    /\ w.number = Len(inbox[w.event].attempts) => inbox[w.event].status # "RECORDED"

EndsRight(w) ==
  w.phase = "finish" =>
    /\ w.receipt # NoReceipt <=> w.status = "PROCESSED"
    /\ w.status = "PROCESSED" => Recorded(w.event, w.receipt)

ThreadOk(t) == BeginsRight(work[t]) /\ GoesOnRight(work[t]) /\ EndsRight(work[t])

InboxSound ==
  /\ \A e \in Envelopes : RowOk(e)
  /\ \A t \in Threads : ThreadOk(t)
  /\ EffectsWerePrepared

InboxInv == LedgerOk /\ InboxTyped /\ InboxSound

-----------------------------------------------------------------------------
(* The callbacks and their outbox.                                         *)

Handling ==
  {AtRest}
  \cup [phase : {"remember"}, callback : Callbacks, command : DecisionCommand]
  \cup [phase : {"execute"}, callback : Callbacks]
  \cup [phase : {"answer", "complete"}, callback : Callbacks, revision : Nat]

Sending ==
  {AtRest}
  \cup [phase : {"check", "claim", "block", "write"}, row : Rows]
  \cup [phase : {"call"}, row : Rows, number : 0 .. MaxSends]
  \cup [phase : {"save"}, row : Rows, number : 0 .. MaxSends, result : {"SENT", "UNCERTAIN"}]

ReceiptsTyped ==
  /\ receipts \in [Callbacks -> {NoRow} \cup ReceiptRow]
  /\ handling \in [Handlers -> Handling]

OutboxTyped ==
  /\ outbox \in [Rows -> {NoRow} \cup OutboxRow]
  /\ sending \in [Senders -> Sending]
  /\ unattended \in [Rows -> Nat]

(* The decision frozen for b is entry r of its case.                       *)
DecidedAt(b, r) ==
  r \in DOMAIN ledger[b.case] /\ ledger[b.case][r] = receipts[b].command

ReceiptOk(b) ==
  receipts[b] # NoRow =>
    /\ receipts[b].command.id = CallbackCommandId(b) /\ receipts[b].command.case = b.case
    /\ Business(b) /\ receipts[b].response # 0 => DecidedAt(b, receipts[b].response)

HandlerOk(w) ==
  /\ w.phase = "remember" =>
       w.command.id = CallbackCommandId(w.callback) /\ w.command.case = w.callback.case
  /\ w.phase \in {"execute", "answer", "complete"} => receipts[w.callback] # NoRow
  /\ w.phase \in {"answer", "complete"} /\ Business(w.callback) => DecidedAt(w.callback, w.revision)

Arrived(b) == \E m \in chat : m.row = b

DeliveryOk(b) ==
  /\ unattended[b] <= 1
  /\ unattended[b] = 1 => outbox[b] # NoRow /\ outbox[b].state # "PENDING"
  /\ outbox[b] # NoRow =>
       /\ outbox[b].state = "SENT" => Arrived(b)
       /\ outbox[b].state = "PENDING" => outbox[b].auto = TRUE

(* The worker is on its way to a first attempt, or past it.                *)
SenderOk(s, w) ==
  w.phase # "idle" =>
    /\ outbox[w.row] # NoRow
    /\ s = Worker /\ w.phase \in {"check", "claim"} => unattended[w.row] = 0
    /\ w.phase = "save" /\ w.result = "SENT" => Arrived(w.row)

HandlersSound ==
  /\ \A b \in Callbacks : ReceiptOk(b)
  /\ \A h \in Handlers : HandlerOk(handling[h])

HandlersInv == ReceiptsTyped /\ HandlersSound

OutboxSound ==
  /\ \A b \in Rows : DeliveryOk(b)
  /\ \A s \in Senders : SenderOk(s, sending[s])
  /\ \A m \in chat : m = [row |-> m.row, key |-> m.row.ref]

OutboxInv == OutboxTyped /\ OutboxSound

-----------------------------------------------------------------------------
(* The inbox.                                                              *)

LEMMA TryTyped ==
  ASSUME LedgerOk, NEW e \in Envelopes, NEW a \in Operators, NEW n \in Nat
  PROVE  /\ Try(e, a, n) \in Attempt /\ IsTryOf(e, Try(e, a, n))
         /\ Try(e, a, n).status # "PROCESSED"
  <1>1. e.case \in Cases /\ e.stage \in Nat /\ e.source \in Sources
    BY EnvelopeAssumption DEF WellFormed, Sources
  <1>2. Stage(e.case) \in Nat /\ Revision(e.case) \in Nat
    BY <1>1, StageTyped
  <1>3. CommandId(e, n) \in {"inbox"} \X Sources \X Nat
    BY <1>1 DEF CommandId
  <1>4. CommandFor(e, n) \in InboxCommand
    BY <1>1, <1>2, <1>3 DEF CommandFor, InboxCommand
  <1>5. CommandFor(e, n).event = e.source /\ CommandFor(e, n).case = e.case
    BY DEF CommandFor
  <1>6. Outcome(e) \in {"QUARANTINED", "RECORDED", "PROCESSING"}
    BY DEF Outcome
  <1> QED BY <1>4, <1>5, <1>6 DEF Try, Attempt, IsTryOf

LEMMA RowTyped ==
  ASSUME InboxTyped, NEW e \in Envelopes
  PROVE  /\ inbox[e].status \in Statuses /\ inbox[e].attempts \in Seq(Attempt)
         /\ inbox[e].receipt \in Nat \cup {NoReceipt}
         /\ Len(inbox[e].attempts) \in Nat
         /\ DOMAIN inbox[e].attempts = 1 .. Len(inbox[e].attempts)
  <1>1. inbox[e] \in EventRow
    BY DEF InboxTyped
  <1> QED BY <1>1, LenProperties DEF EventRow

LEMMA WorkTyped ==
  ASSUME InboxTyped, NEW t \in Threads
  PROVE  /\ work[t].phase = "prepare" =>
              /\ work[t].event \in Envelopes /\ work[t].actor \in Operators
              /\ work[t].try \in Attempt /\ work[t].seen \in Nat
         /\ work[t].phase = "dispatch" =>
              work[t].event \in Envelopes /\ work[t].number \in Nat
         /\ work[t].phase = "finish" =>
              /\ work[t].event \in Envelopes /\ work[t].number \in Nat
              /\ work[t].status \in {"PROCESSED", "QUARANTINED"}
              /\ work[t].receipt \in Nat \cup {NoReceipt}
         /\ work[t].phase \in {"idle", "prepare", "dispatch", "finish"}
  <1>1. work[t] \in Work
    BY DEF InboxTyped
  <1> QED BY <1>1 DEF Work, Idle

(* What the ledger holds it keeps. A new entry that reports an event of    *)
(* the inbox must be a stored try.                                         *)
LEMMA InboxUnderEffect ==
  ASSUME InboxInv, UNCHANGED inbox, NEW k, Effect(k),
         \A e \in Envelopes :
           k.event = e.source => \E n \in DOMAIN inbox[e].attempts : inbox[e].attempts[n].command = k
  PROVE  /\ LedgerOk' /\ EffectsWerePrepared'
         /\ \A e \in Envelopes : RowOk(e)'
         /\ \A e \in Envelopes : \A r : Recorded(e, r) => Recorded(e, r)'
  <1>1. /\ LedgerOk'
        /\ \A c \in Cases : \A i \in DOMAIN ledger[c] :
             i \in DOMAIN ledger'[c] /\ ledger'[c][i] = ledger[c][i]
        /\ \A c \in Cases : \A i \in DOMAIN ledger'[c] :
             i \in DOMAIN ledger[c] \/ ledger'[c][i] = k
    BY EffectGrows DEF InboxInv
  <1>2. \A e \in Envelopes : e.case \in Cases
    BY EnvelopeAssumption
  <1>3. \A e \in Envelopes : \A r : Recorded(e, r) => Recorded(e, r)'
    BY <1>1, <1>2 DEF Recorded
  <1>4. \A e \in Envelopes : RowOk(e)'
    BY <1>3 DEF InboxInv, InboxSound, RowOk, Pending
  <1>5. EffectsWerePrepared'
    <2> SUFFICES ASSUME NEW e \in Envelopes, NEW i \in DOMAIN ledger'[e.case],
                        ledger'[e.case][i].event = e.source
                 PROVE  \E n \in DOMAIN inbox[e].attempts :
                          inbox[e].attempts[n].command = ledger'[e.case][i]
      BY DEF EffectsWerePrepared, Entries
    <2>1. CASE ledger'[e.case][i] = k
      BY <2>1
    <2>2. CASE i \in DOMAIN ledger[e.case]
      <3>1. ledger'[e.case][i] = ledger[e.case][i]
        BY <1>1, <1>2, <2>2
      <3> QED BY <2>2, <3>1 DEF InboxInv, InboxSound, EffectsWerePrepared, Entries
    <2> QED BY <1>1, <1>2, <2>1, <2>2
  <1> QED BY <1>1, <1>3, <1>4, <1>5

(* Other clients' steps: nothing takes effect, or a command with no event. *)
LEMMA InboxAside ==
  ASSUME InboxInv, UNCHANGED inboxVars,
         UNCHANGED ledger \/ \E k : Effect(k) /\ k.event = NoEvent
  PROVE  InboxInv'
  <1>1. CASE UNCHANGED ledger
    BY <1>1 DEF InboxInv, InboxSound, InboxTyped, LedgerOk, RowOk, ThreadOk, BeginsRight, GoesOnRight,
       EndsRight, Recorded, EffectsWerePrepared, Entries, Pending, inboxVars
  <1>2. ASSUME NEW k, Effect(k), k.event = NoEvent
        PROVE  InboxInv'
    <2>1. \A e \in Envelopes : k.event # e.source
      BY <1>2, EnvelopeAssumption
    <2>2. /\ LedgerOk' /\ EffectsWerePrepared'
          /\ \A e \in Envelopes : RowOk(e)'
          /\ \A e \in Envelopes : \A r : Recorded(e, r) => Recorded(e, r)'
      BY <1>2, <2>1, InboxUnderEffect DEF inboxVars
    <2>3. \A t \in Threads : ThreadOk(t)'
      <3> SUFFICES ASSUME NEW t \in Threads
                   PROVE  ThreadOk(t)'
        OBVIOUS
      <3>1. ThreadOk(t) /\ inbox' = inbox /\ work' = work
        BY DEF InboxInv, InboxSound, inboxVars
      <3>2. work[t].phase = "finish" => work[t].event \in Envelopes
        BY WorkTyped DEF InboxInv
      <3> QED BY <2>2, <3>1, <3>2 DEF ThreadOk, BeginsRight, GoesOnRight, EndsRight
    <2> QED BY <2>2, <2>3 DEF InboxInv, InboxSound, InboxTyped, inboxVars
  <1> QED BY <1>1, <1>2

(* Steps that leave the ledger and the stored tries alone: a row changes   *)
(* its status at most from NONE to RECEIVED, and one thread goes on.       *)
LEMMA ThreadMoves ==
  ASSUME InboxInv, NEW t \in Threads, NEW w \in Work, work' = [work EXCEPT ![t] = w],
         UNCHANGED <<ledger, registered>>, inbox' \in [Envelopes -> EventRow],
         \A e \in Envelopes :
           /\ inbox'[e].attempts = inbox[e].attempts /\ inbox'[e].receipt = inbox[e].receipt
           /\ \/ inbox'[e].status = inbox[e].status
              \/ inbox[e].status = "NONE" /\ inbox'[e].status = "RECEIVED",
         BeginsRight(w) /\ GoesOnRight(w) /\ EndsRight(w)
  PROVE  InboxInv'
  <1>1. LedgerOk' /\ InboxTyped'
    BY DEF InboxInv, InboxTyped, LedgerOk
  <1>2. \A e \in Envelopes : RowOk(e)'
    BY DEF InboxInv, InboxSound, RowOk, Recorded, IsTryOf, Pending
  <1>3. \A u \in Threads : ThreadOk(u)'
    <2> SUFFICES ASSUME NEW u \in Threads
                 PROVE  ThreadOk(u)'
      OBVIOUS
    <2>1. work'[u] \in Work /\ BeginsRight(work'[u]) /\ GoesOnRight(work'[u]) /\ EndsRight(work'[u])
      BY DEF InboxInv, InboxTyped, InboxSound, ThreadOk
    <2>2. work'[u].phase # "idle" => work'[u].event \in Envelopes
      BY <2>1 DEF Work, Idle
    <2>3. work'[u].phase \in {"prepare", "dispatch", "finish"} =>
            /\ inbox'[work'[u].event].attempts = inbox[work'[u].event].attempts
            /\ inbox[work'[u].event].status # "RECORDED" => inbox'[work'[u].event].status # "RECORDED"
      BY <2>2
    <2>4. \A e, r : Recorded(e, r) => Recorded(e, r)'
      BY DEF Recorded
    <2>5. /\ BeginsRight(work[u])' /\ GoesOnRight(work[u])' /\ EndsRight(work[u])'
      BY <2>1, <2>3, <2>4 DEF BeginsRight, GoesOnRight, EndsRight
    <2> QED BY <2>5 DEF ThreadOk
  <1>4. EffectsWerePrepared'
    <2>1. EffectsWerePrepared /\ \A e \in Envelopes : inbox'[e].attempts = inbox[e].attempts
      BY DEF InboxInv, InboxSound
    <2>2. \A c : Entries(c)' = Entries(c)
      BY DEF Entries
    <2> QED BY <2>1, <2>2 DEF EffectsWerePrepared
  <1> QED BY <1>1, <1>2, <1>3, <1>4 DEF InboxInv, InboxSound

LEMMA StartKeeps ==
  ASSUME InboxInv, NEW t \in Threads, NEW e \in Envelopes, NEW a \in Operators,
         Receive(t, e, a) \/ RetryEvent(t, e, a)
  PROVE  InboxInv'
  <1>1. /\ inbox[e].status \notin {"PROCESSED", "RECORDED"} /\ StartOn(t, e, a)
        /\ inbox' = inbox \/ inbox' = Remembered(e)
        /\ UNCHANGED <<ledger, registered>>
    BY DEF Receive, RetryEvent
  <1>2. inbox[e] \in EventRow /\ RowOk(e) /\ LedgerOk /\ inbox \in [Envelopes -> EventRow]
    BY DEF InboxInv, InboxSound, InboxTyped
  <1>3. /\ inbox' \in [Envelopes -> EventRow]
        /\ \A f \in Envelopes :
             /\ inbox'[f].attempts = inbox[f].attempts /\ inbox'[f].receipt = inbox[f].receipt
             /\ \/ inbox'[f].status = inbox[f].status
                \/ inbox[f].status = "NONE" /\ inbox'[f].status = "RECEIVED"
    <2>1. CASE inbox' = inbox
      BY <1>2, <2>1
    <2>2. CASE inbox' = Remembered(e)
      <3> DEFINE s == IF inbox[e].status = "NONE" THEN "RECEIVED" ELSE inbox[e].status
                 row == [inbox[e] EXCEPT !.status = s]
      <3>1. inbox' = [inbox EXCEPT ![e] = row]
        BY <2>2 DEF Remembered
      <3>2. s \in Statuses
        BY <1>2 DEF EventRow, Statuses
      <3>3. /\ row \in EventRow /\ row.attempts = inbox[e].attempts
            /\ row.receipt = inbox[e].receipt /\ row.status = s
        BY <1>2, <3>2 DEF EventRow
      <3> HIDE DEF row
      <3> QED BY <1>2, <3>1, <3>3
    <2> QED BY <1>1, <2>1, <2>2
  <1>4. Len(inbox[e].attempts) \in Nat
    BY RowTyped DEF InboxInv
  <1>5. CASE inbox[e].status = "PROCESSING"
    <2> DEFINE w == Dispatching(e, Len(inbox[e].attempts))
    <2>1. work' = [work EXCEPT ![t] = w]
      BY <1>1, <1>5 DEF StartOn
    <2>2. inbox[e].attempts # <<>>
      BY <1>2, <1>5 DEF RowOk
    <2>3. Len(inbox[e].attempts) # 0
      BY <2>2, RowTyped, EmptySeq DEF InboxInv
    <2>4. w \in Work /\ BeginsRight(w) /\ GoesOnRight(w) /\ EndsRight(w)
      BY <1>1, <1>4, <2>3 DEF Dispatching, Work, BeginsRight, GoesOnRight, EndsRight
    <2> HIDE DEF w
    <2> QED BY <1>1, <1>3, <2>1, <2>4, ThreadMoves
  <1>6. CASE inbox[e].status # "PROCESSING"
    <2> DEFINE n == Len(inbox[e].attempts)
               w == [phase |-> "prepare", event |-> e, actor |-> a, try |-> Try(e, a, n + 1),
                     seen |-> n]
    <2>1. work' = [work EXCEPT ![t] = w] /\ n < MaxAttempts
      BY <1>1, <1>6 DEF StartOn
    <2>2. /\ Try(e, a, n + 1) \in Attempt /\ IsTryOf(e, Try(e, a, n + 1))
          /\ Try(e, a, n + 1).status # "PROCESSED"
      BY <1>2, <1>4, TryTyped
    <2>3. w \in Work /\ BeginsRight(w) /\ GoesOnRight(w) /\ EndsRight(w)
      BY <1>1, <1>4, <2>1, <2>2 DEF Work, BeginsRight, GoesOnRight, EndsRight
    <2> HIDE DEF w
    <2> QED BY <1>1, <1>3, <2>1, <2>3, ThreadMoves
  <1> QED BY <1>5, <1>6

LEMMA PrepareKeeps ==
  ASSUME InboxInv, NEW t \in Threads, Prepare(t)
  PROVE  InboxInv'
  <1> DEFINE w == work[t]
             e == w.event
             old == inbox[e].attempts
             on == IF /\ inbox'[e].status = "PROCESSING"
                      /\ inbox'[e].attempts[Len(inbox'[e].attempts)].actor = w.actor
                   THEN Dispatching(e, Len(inbox'[e].attempts)) ELSE Idle
  <1>1. /\ w.phase = "prepare" /\ UNCHANGED <<ledger, registered>>
        /\ inbox' = IF FirstTry(e, w.seen)
                    THEN [inbox EXCEPT ![e].attempts = Append(@, w.try), ![e].status = w.try.status]
                    ELSE inbox
        /\ work' = [work EXCEPT ![t] = on]
    BY DEF Prepare, Keeping
  <1>2. /\ e \in Envelopes /\ w.actor \in Operators /\ w.try \in Attempt /\ w.seen \in Nat
        /\ LedgerOk /\ inbox \in [Envelopes -> EventRow] /\ inbox[e] \in EventRow
        /\ RowOk(e) /\ work \in [Threads -> Work]
    BY <1>1, WorkTyped DEF InboxInv, InboxSound, InboxTyped
  <1>3. /\ IsTryOf(e, w.try) /\ w.try.status # "PROCESSED"
        /\ w.seen <= Len(old) /\ w.seen < MaxAttempts
    BY <1>1 DEF InboxInv, InboxSound, ThreadOk, BeginsRight
  <1>4. /\ old \in Seq(Attempt) /\ Len(old) \in Nat /\ DOMAIN old = 1 .. Len(old)
        /\ old # <<>> => Len(old) # 0
    BY <1>2, RowTyped, EmptySeq DEF InboxInv
  <1>5. CASE ~FirstTry(e, w.seen)
    <2>1. inbox' = inbox
      BY <1>1, <1>5
    <2>2. inbox[e].status = "PROCESSING" => Len(old) # 0
      BY <1>2, <1>4 DEF RowOk
    <2>3. on \in Work /\ BeginsRight(on) /\ GoesOnRight(on) /\ EndsRight(on)
      <3>1. CASE inbox[e].status = "PROCESSING" /\ old[Len(old)].actor = w.actor
        <4>1. on = Dispatching(e, Len(old)) /\ Len(old) \in 1 .. Len(old)
          BY <1>4, <2>1, <2>2, <3>1
        <4> HIDE DEF on
        <4> QED BY <1>2, <3>1, <4>1 DEF Dispatching, Work, BeginsRight, GoesOnRight, EndsRight
      <3>2. CASE ~(inbox[e].status = "PROCESSING" /\ old[Len(old)].actor = w.actor)
        <4>1. on = Idle
          BY <2>1, <3>2
        <4> HIDE DEF on
        <4> QED BY <4>1 DEF Idle, Work, BeginsRight, GoesOnRight, EndsRight
      <3> QED BY <3>1, <3>2
    <2> HIDE DEF on
    <2> QED BY <1>1, <1>2, <2>1, <2>3, ThreadMoves
  <1>6. CASE FirstTry(e, w.seen)
    <2> DEFINE new == Append(old, w.try)
               row == [inbox[e] EXCEPT !.attempts = new, !.status = w.try.status]
    <2>1. inbox' = [inbox EXCEPT ![e] = row]
      BY <1>1, <1>6
    <2>2. /\ new \in Seq(Attempt) /\ Len(new) = Len(old) + 1 /\ DOMAIN new = 1 .. Len(old) + 1
          /\ \A n \in 1 .. Len(old) : new[n] = old[n]
          /\ new[Len(old) + 1] = w.try
      BY <1>2, <1>4, AppendProperties, LenProperties
    <2>3. w.try.status \in {"QUARANTINED", "RECORDED", "PROCESSING"}
      BY <1>2, <1>3 DEF Attempt
    <2>4. /\ row \in EventRow /\ row.attempts = new /\ row.status = w.try.status
          /\ row.receipt = inbox[e].receipt
      BY <1>2, <2>2, <2>3 DEF EventRow, Statuses
    <2>5. Len(old) = w.seen /\ inbox[e].status # "PROCESSED"
      BY <1>6 DEF FirstTry
    <2> HIDE DEF row, new
    <2>6. inbox'[e] = row /\ \A f \in Envelopes : f # e => inbox'[f] = inbox[f]
      BY <1>2, <2>1
    <2>7. InboxTyped' /\ LedgerOk'
      <3>1. on \in Work
        BY <1>2, <1>4, <2>2, <2>4, <2>6 DEF Dispatching, Work, Idle
      <3> HIDE DEF on
      <3> QED BY <1>1, <1>2, <2>1, <2>4, <3>1 DEF InboxTyped, InboxInv, LedgerOk
    <2>8. ASSUME NEW f \in Envelopes
          PROVE  RowOk(f)'
      <3>1. CASE f # e
        BY <1>1, <2>6, <3>1 DEF InboxInv, InboxSound, RowOk, Pending, Recorded
      <3>2. CASE f = e
        <4>1. \A n \in DOMAIN new : IsTryOf(e, new[n])
          BY <1>2, <1>3, <1>4, <2>2 DEF RowOk
        <4>2. Len(new) <= MaxAttempts
          BY <1>3, <2>2, <2>5, EnvelopeAssumption
        <4>3. inbox[e].receipt = NoReceipt
          BY <1>2, <2>5 DEF RowOk
        <4>4. new # <<>> /\ new[Len(new)].status = w.try.status
          BY <1>4, <2>2, EmptySeq
        <4> QED BY <2>3, <2>4, <2>6, <3>2, <4>1, <4>2, <4>3, <4>4 DEF RowOk, Pending, IsTryOf
      <3> QED BY <3>1, <3>2
    <2>9. ASSUME NEW u \in Threads
          PROVE  ThreadOk(u)'
      <3>1. CASE u # t
        <4>1. work'[u] = work[u] /\ ThreadOk(u)
          BY <1>1, <1>2, <3>1 DEF InboxInv, InboxSound
        <4>2. work[u].phase # "idle" => work[u].event \in Envelopes
          BY WorkTyped DEF InboxInv
        <4>3. \A f, r : Recorded(f, r)' <=> Recorded(f, r)
          BY <1>1 DEF Recorded
        <4>4. work[u].phase = "prepare" => work[u].seen \in Nat
          BY WorkTyped DEF InboxInv
        <4>5. work[u].phase \in {"dispatch", "finish"} => work[u].number \in Nat
          BY WorkTyped DEF InboxInv
        <4>6. CASE work[u].event # e
          BY <2>6, <4>1, <4>2, <4>3, <4>6 DEF ThreadOk, BeginsRight, GoesOnRight, EndsRight
        <4>7. CASE work[u].event = e
          <5>1. inbox'[work[u].event].attempts = new
            BY <2>4, <2>6, <4>7
          <5>2. BeginsRight(work[u])'
            BY <1>4, <2>2, <4>1, <4>4, <4>7, <5>1 DEF ThreadOk, BeginsRight
          <5>3. GoesOnRight(work[u])'
            BY <1>4, <2>2, <4>1, <4>5, <4>7, <5>1 DEF ThreadOk, GoesOnRight
          <5>4. EndsRight(work[u])'
            BY <4>1, <4>3 DEF ThreadOk, EndsRight
          <5> QED BY <5>2, <5>3, <5>4 DEF ThreadOk
        <4> QED BY <4>6, <4>7
      <3>2. CASE u = t
        <4>1. work'[u] = on
          BY <1>1, <1>2, <3>2
        <4>2. CASE on = Idle
          <5>1. work'[u].phase = "idle"
            BY <4>1, <4>2 DEF Idle
          <5> QED BY <5>1 DEF ThreadOk, BeginsRight, GoesOnRight, EndsRight
        <4>3. CASE on # Idle
          <5>1. inbox'[e].attempts = new /\ inbox'[e].status = "PROCESSING"
            BY <2>4, <2>6, <4>3
          <5>2. work'[u] = [phase |-> "dispatch", event |-> e, number |-> Len(new)]
            BY <4>1, <4>3, <5>1 DEF Dispatching
          <5>3. Len(new) \in 1 .. Len(new)
            BY <1>4, <2>2
          <5> HIDE DEF on
          <5>4. /\ work'[u].phase = "dispatch" /\ work'[u].event = e
                /\ work'[u].number = Len(new)
            BY <5>2
          <5> QED BY <5>1, <5>3, <5>4 DEF ThreadOk, BeginsRight, GoesOnRight, EndsRight
        <4> QED BY <4>2, <4>3
      <3> QED BY <3>1, <3>2
    <2>10. EffectsWerePrepared'
      <3> SUFFICES ASSUME NEW f \in Envelopes, NEW j \in Entries(f.case)', j.event = f.source
                   PROVE  \E n \in DOMAIN inbox'[f].attempts : inbox'[f].attempts[n].command = j
        BY DEF EffectsWerePrepared
      <3>1. PICK n \in DOMAIN inbox[f].attempts : inbox[f].attempts[n].command = j
        BY <1>1 DEF InboxInv, InboxSound, EffectsWerePrepared, Entries
      <3>2. CASE f # e
        BY <2>6, <3>1, <3>2
      <3>3. CASE f = e
        <4>0. n \in 1 .. Len(old)
          BY <1>4, <3>3
        <4>1. n \in DOMAIN new /\ new[n] = old[n]
          BY <1>4, <2>2, <4>0
        <4>2. inbox'[f].attempts = new
          BY <2>4, <2>6, <3>3
        <4> QED BY <3>1, <3>3, <4>1, <4>2
      <3> QED BY <3>2, <3>3
    <2> QED BY <2>7, <2>8, <2>9, <2>10 DEF InboxInv, InboxSound
  <1> QED BY <1>5, <1>6

LEMMA DispatchKeeps ==
  ASSUME InboxInv, NEW t \in Threads, Dispatch(t)
  PROVE  InboxInv' /\ (UNCHANGED ledger \/ \E k : Effect(k) /\ k.id[1] # "private")
  <1>1. PICK w \in Work : w = work[t]
    BY DEF InboxInv, InboxTyped
  <1> DEFINE e == w.event
  <1>2. e \in Envelopes /\ w.number \in Nat /\ LedgerOk /\ work \in [Threads -> Work] /\ RowOk(e)
    BY <1>1, WorkTyped DEF Dispatch, InboxInv, InboxSound, InboxTyped
  <1>3. w.number \in DOMAIN inbox[e].attempts /\ GoesOnRight(w)
    BY <1>1, <1>2, RowTyped DEF Dispatch, InboxInv, InboxSound, ThreadOk, GoesOnRight
  <1>4. PICK k \in InboxCommand : /\ k = inbox[e].attempts[w.number].command /\ k \in Command
                                 /\ k.event = e.source /\ k.case = e.case /\ e.case \in Cases
    <2>1. inbox[e].attempts[w.number] \in Attempt
      BY <1>2, <1>3, RowTyped, ElementOfSeq DEF InboxInv
    <2>2. InboxCommand \subseteq Command
      BY DEF InboxCommand, Command, CommandIds
    <2> QED BY <1>2, <1>3, <2>1, <2>2, EnvelopeAssumption DEF Attempt, RowOk, IsTryOf
  <1>0. /\ w.phase = "dispatch" /\ UNCHANGED <<registered, inbox>>
        /\ \/ Executed(k) /\ work' = [work EXCEPT ![t] = Finishing(w, "PROCESSED", Revision(k.case) + 1)]
           \/ \E r \in DOMAIN ledger[k.case] :
                Replayed(k, r) /\ work' = [work EXCEPT ![t] = Finishing(w, "PROCESSED", r)]
           \/ UNCHANGED ledger /\ work' = [work EXCEPT ![t] = Finishing(w, "QUARANTINED", NoReceipt)]
    BY <1>1, <1>4 DEF Dispatch, Failing, Refused
  <1>5. /\ LedgerOk' /\ EffectsWerePrepared'
        /\ \A f \in Envelopes : RowOk(f)'
        /\ \A f \in Envelopes : \A r : Recorded(f, r) => Recorded(f, r)'
    <2>1. CASE UNCHANGED ledger
      BY <1>0, <2>1 DEF InboxInv, InboxSound, LedgerOk, EffectsWerePrepared, Entries, RowOk, Pending,
         Recorded
    <2>2. CASE Executed(k)
      <3>1. Effect(k)
        BY <1>4, <2>2 DEF Executed, Effect
      <3>2. \A f \in Envelopes : k.event = f.source => f = e
        BY <1>2, <1>4, EnvelopeAssumption
      <3>3. \A f \in Envelopes : k.event = f.source =>
              \E n \in DOMAIN inbox[f].attempts : inbox[f].attempts[n].command = k
        BY <1>3, <1>4, <3>2
      <3> QED BY <1>0, <3>1, <3>3, InboxUnderEffect
    <2> QED BY <1>0, <2>1, <2>2 DEF Replayed
  <1>6. PICK s \in {"PROCESSED", "QUARANTINED"}, r \in Nat \cup {NoReceipt} :
          /\ work' = [work EXCEPT ![t] = Finishing(w, s, r)]
          /\ r # NoReceipt <=> s = "PROCESSED"
          /\ s = "PROCESSED" => Recorded(e, r)'
    <2>1. CASE Executed(k) /\ work' = [work EXCEPT ![t] = Finishing(w, "PROCESSED", Revision(k.case) + 1)]
      <3>1. Effect(k)
        BY <1>4, <2>1 DEF Executed, Effect
      <3>2. /\ Revision(k.case) + 1 \in DOMAIN ledger'[k.case] /\ Revision(k.case) \in Nat
            /\ ledger'[k.case][Revision(k.case) + 1] = k
        BY <1>2, <3>1, EffectGrows
      <3>3. PICK n \in Nat : n = Revision(k.case) + 1
        BY <3>2
      <3>4. Recorded(e, n)'
        BY <1>4, <3>2, <3>3 DEF Recorded
      <3> QED BY <2>1, <3>3, <3>4, EnvelopeAssumption
    <2>2. ASSUME NEW r \in DOMAIN ledger[k.case], Replayed(k, r),
                 work' = [work EXCEPT ![t] = Finishing(w, "PROCESSED", r)]
          PROVE  \E s \in {"PROCESSED", "QUARANTINED"}, q \in Nat \cup {NoReceipt} :
                   /\ work' = [work EXCEPT ![t] = Finishing(w, s, q)]
                   /\ q # NoReceipt <=> s = "PROCESSED"
                   /\ s = "PROCESSED" => Recorded(e, q)'
      <3>1. r \in Nat /\ r # NoReceipt
        BY <1>2, <1>4, <2>2, StageTyped, EnvelopeAssumption
      <3>2. Recorded(e, r)'
        BY <1>4, <2>2 DEF Replayed, Answers, Recorded
      <3> QED BY <2>2, <3>1, <3>2
    <2>3. CASE work' = [work EXCEPT ![t] = Finishing(w, "QUARANTINED", NoReceipt)]
      BY <2>3
    <2> QED BY <1>0, <2>1, <2>2, <2>3
  <1> DEFINE v == Finishing(w, s, r)
  <1>7. /\ v \in Work /\ v.phase = "finish" /\ v.event = e /\ v.number = w.number
        /\ v.status = s /\ v.receipt = r
    BY <1>2 DEF Finishing, Work
  <1> HIDE DEF v
  <1>8. InboxTyped'
    BY <1>0, <1>6, <1>7 DEF InboxInv, InboxTyped, v
  <1>9. ASSUME NEW u \in Threads
        PROVE  ThreadOk(u)'
    <2>1. CASE u # t
      <3>1. work'[u] = work[u] /\ ThreadOk(u)
        BY <1>2, <1>6, <2>1 DEF InboxInv, InboxSound
      <3>2. work[u].phase = "finish" => work[u].event \in Envelopes
        BY WorkTyped DEF InboxInv
      <3> QED BY <1>0, <1>5, <3>1, <3>2 DEF ThreadOk, BeginsRight, GoesOnRight, EndsRight
    <2>2. CASE u = t
      <3>1. work'[u] = v
        BY <1>2, <1>6, <2>2 DEF v
      <3>2. GoesOnRight(v)' /\ EndsRight(v)' /\ BeginsRight(v)'
        BY <1>0, <1>3, <1>6, <1>7 DEF BeginsRight, GoesOnRight, EndsRight
      <3> QED BY <3>1, <3>2 DEF ThreadOk, BeginsRight, GoesOnRight, EndsRight
    <2> QED BY <2>1, <2>2
  <1>10. UNCHANGED ledger \/ \E j : Effect(j) /\ j.id[1] # "private"
    <2>1. k.id[1] # "private"
      BY DEF InboxCommand
    <2> QED BY <1>0, <1>4, <2>1 DEF Executed, Effect, Replayed
  <1> QED BY <1>5, <1>8, <1>9, <1>10 DEF InboxInv, InboxSound

LEMMA FinishKeeps ==
  ASSUME InboxInv, NEW t \in Threads, Finish(t)
  PROVE  InboxInv'
  <1>1. PICK w \in Work : w = work[t]
    BY DEF InboxInv, InboxTyped
  <1> DEFINE e == w.event
  <1>2. /\ w.phase = "finish" /\ UNCHANGED <<ledger, registered>>
        /\ inbox' = IF OpenTry(w)
                    THEN [inbox EXCEPT ![e].status = w.status, ![e].receipt = w.receipt,
                                       ![e].attempts[w.number].status = w.status]
                    ELSE inbox
        /\ work' = [work EXCEPT ![t] = Idle]
    BY <1>1 DEF Finish
  <1>3. /\ e \in Envelopes /\ w.number \in Nat /\ LedgerOk /\ RowOk(e) /\ inbox[e] \in EventRow
        /\ inbox \in [Envelopes -> EventRow]
        /\ w.status \in {"PROCESSED", "QUARANTINED"} /\ w.receipt \in Nat \cup {NoReceipt}
    BY <1>1, <1>2, WorkTyped DEF InboxInv, InboxSound, InboxTyped
  <1>4. w.number \in DOMAIN inbox[e].attempts /\ EndsRight(w)
    BY <1>1, <1>2, <1>3, RowTyped DEF InboxInv, InboxSound, ThreadOk, GoesOnRight
  <1>5. Idle \in Work /\ BeginsRight(Idle) /\ GoesOnRight(Idle) /\ EndsRight(Idle)
    BY DEF Idle, Work, BeginsRight, GoesOnRight, EndsRight
  <1>6. CASE ~OpenTry(w)
    BY <1>2, <1>3, <1>5, <1>6, ThreadMoves
  <1>7. CASE OpenTry(w)
    <2>0. PICK old \in Seq(Attempt) : old = inbox[e].attempts
      BY <1>3, RowTyped DEF InboxInv
    <2> DEFINE new == [old EXCEPT ![w.number] = [@ EXCEPT !.status = w.status]]
               row == [inbox[e] EXCEPT !.status = w.status, !.receipt = w.receipt, !.attempts = new]
    <2>1. inbox' = [inbox EXCEPT ![e] = row]
      BY <1>2, <1>3, <1>7, <2>0
    <2>2. /\ old \in Seq(Attempt) /\ Len(old) \in Nat /\ DOMAIN old = 1 .. Len(old)
          /\ \A n \in DOMAIN old : old[n] \in Attempt
      BY LenProperties, ElementOfSeq
    <2>3. /\ [old[w.number] EXCEPT !.status = w.status] \in Attempt
          /\ [old[w.number] EXCEPT !.status = w.status].command = old[w.number].command
          /\ [old[w.number] EXCEPT !.status = w.status].status = w.status
      BY <1>3, <1>4, <2>0, <2>2 DEF Attempt
    <2>4. /\ new \in Seq(Attempt) /\ Len(new) = Len(old) /\ DOMAIN new = DOMAIN old
          /\ \A n \in DOMAIN old : n # w.number => new[n] = old[n]
          /\ new[w.number] = [old[w.number] EXCEPT !.status = w.status]
      BY <1>4, <2>0, <2>2, <2>3, ExceptSeq, LenProperties
    <2>5. /\ row \in EventRow /\ row.attempts = new /\ row.status = w.status
          /\ row.receipt = w.receipt
      BY <1>3, <2>4 DEF EventRow, Statuses
    <2>6. w.number = Len(old)
      BY <1>7, <2>0 DEF OpenTry
    <2> HIDE DEF row, new
    <2>7. inbox'[e] = row /\ \A f \in Envelopes : f # e => inbox'[f] = inbox[f]
      BY <1>3, <2>1
    <2>8. InboxTyped' /\ LedgerOk'
      BY <1>2, <1>3, <1>5, <2>1, <2>5 DEF InboxTyped, InboxInv, LedgerOk
    <2>9. ASSUME NEW f \in Envelopes
          PROVE  RowOk(f)'
      <3>1. CASE f # e
        BY <1>2, <2>7, <3>1 DEF InboxInv, InboxSound, RowOk, Pending, Recorded
      <3>2. CASE f = e
        <4>1. \A n \in DOMAIN new : IsTryOf(e, new[n])
          <5>1. \A n \in DOMAIN old : IsTryOf(e, old[n]) /\ new[n].command = old[n].command
            BY <1>3, <2>0, <2>3, <2>4 DEF RowOk
          <5> QED BY <2>4, <5>1 DEF IsTryOf
        <4>2. new # <<>> /\ new[Len(new)].status = w.status /\ Len(new) <= MaxAttempts
          <5>1. Len(old) <= MaxAttempts /\ Len(old) # 0
            BY <1>3, <1>4, <2>0, <2>2, <2>6 DEF RowOk
          <5> QED BY <2>3, <2>4, <2>6, <5>1, EmptySeq
        <4>3. w.status = "PROCESSED" => Recorded(e, w.receipt)'
          BY <1>2, <1>4 DEF EndsRight, Recorded
        <4>4. w.receipt # NoReceipt <=> w.status = "PROCESSED"
          BY <1>2, <1>4 DEF EndsRight
        <4> QED BY <2>5, <2>7, <3>2, <4>1, <4>2, <4>3, <4>4 DEF RowOk, Pending, IsTryOf
      <3> QED BY <3>1, <3>2
    <2>10. ASSUME NEW u \in Threads
           PROVE  ThreadOk(u)'
      <3>1. PICK v \in Work : v = work'[u]
        BY <2>8 DEF InboxTyped
      <3>2. CASE u = t
        <4>1. v.phase = "idle"
          BY <1>2, <3>1, <3>2 DEF InboxInv, InboxTyped, Idle
        <4> QED BY <3>1, <4>1 DEF ThreadOk, BeginsRight, GoesOnRight, EndsRight
      <3>3. CASE u # t
        <4>1. v = work[u] /\ BeginsRight(v) /\ GoesOnRight(v) /\ EndsRight(v)
          BY <1>2, <3>1, <3>3 DEF InboxInv, InboxTyped, InboxSound, ThreadOk
        <4>2. v.phase # "idle" => v.event \in Envelopes
          BY <4>1, WorkTyped DEF InboxInv
        <4>3. v.phase # "idle" =>
                /\ Len(inbox'[v.event].attempts) = Len(inbox[v.event].attempts)
                /\ inbox'[v.event].status = "RECORDED" => inbox[v.event].status = "RECORDED"
          BY <1>3, <2>0, <2>4, <2>5, <2>7, <4>2
        <4>4. \A f, r : Recorded(f, r) => Recorded(f, r)'
          BY <1>2 DEF Recorded
        <4>5. BeginsRight(v)' /\ GoesOnRight(v)' /\ EndsRight(v)'
          BY <4>1, <4>3, <4>4 DEF BeginsRight, GoesOnRight, EndsRight
        <4> QED BY <3>1, <4>5 DEF ThreadOk
      <3> QED BY <3>2, <3>3
    <2>11. EffectsWerePrepared'
      <3> SUFFICES ASSUME NEW f \in Envelopes, NEW j \in Entries(f.case)', j.event = f.source
                   PROVE  \E n \in DOMAIN inbox'[f].attempts : inbox'[f].attempts[n].command = j
        BY DEF EffectsWerePrepared
      <3>1. PICK n \in DOMAIN inbox[f].attempts : inbox[f].attempts[n].command = j
        <4>1. Entries(f.case)' = Entries(f.case)
          BY <1>2 DEF Entries
        <4> QED BY <4>1 DEF InboxInv, InboxSound, EffectsWerePrepared
      <3>2. CASE f # e
        BY <2>7, <3>1, <3>2
      <3>3. CASE f = e
        <4>1. n \in DOMAIN new /\ new[n].command = old[n].command
          BY <2>0, <2>3, <2>4, <3>1, <3>3
        <4> QED BY <2>0, <2>5, <2>7, <3>1, <3>3, <4>1
      <3> QED BY <3>2, <3>3
    <2> QED BY <2>8, <2>9, <2>10, <2>11 DEF InboxInv, InboxSound
  <1> QED BY <1>6, <1>7

-----------------------------------------------------------------------------
(* The callbacks.                                                          *)

(* The ledger stays, or one command takes effect on it.                    *)
Grows == UNCHANGED ledger \/ \E k : Effect(k)

LEMMA DecidedStands ==
  ASSUME LedgerOk, Grows, NEW b \in Callbacks, NEW r, DecidedAt(b, r),
         receipts'[b].command = receipts[b].command
  PROVE  DecidedAt(b, r)'
  <1>1. b.case \in Cases
    BY CallbackAssumption
  <1>2. CASE UNCHANGED ledger
    BY <1>2 DEF DecidedAt
  <1>3. ASSUME NEW k, Effect(k)
        PROVE  DecidedAt(b, r)'
    BY <1>1, <1>3, EffectGrows DEF DecidedAt
  <1> QED BY <1>2, <1>3 DEF Grows

LEMMA HandlingTyped ==
  ASSUME NEW w \in Handling
  PROVE  /\ w.phase \in {"idle", "remember", "execute", "answer", "complete"}
         /\ w.phase # "idle" => w.callback \in Callbacks /\ w.callback.case \in Cases
         /\ w.phase = "remember" => w.command \in DecisionCommand
         /\ w.phase \in {"answer", "complete"} => w.revision \in Nat
  BY CallbackAssumption DEF Handling, AtRest

LEMMA HandlerGoesOn ==
  ASSUME LedgerOk, HandlersInv, Grows, UNCHANGED receipts, NEW h \in Handlers, NEW w \in Handling,
         handling' = [handling EXCEPT ![h] = w], HandlerOk(w)'
  PROVE  HandlersInv'
  <1>1. ReceiptsTyped'
    BY DEF HandlersInv, ReceiptsTyped
  <1>2. \A b \in Callbacks : ReceiptOk(b)'
    BY DecidedStands DEF HandlersInv, HandlersSound, ReceiptOk
  <1>3. ASSUME NEW g \in Handlers
        PROVE  HandlerOk(handling[g])'
    <2>1. CASE g = h
      BY <2>1 DEF HandlersInv, ReceiptsTyped
    <2>2. CASE g # h
      <3>1. PICK v \in Handling : v = handling[g] /\ v = handling'[g]
        BY <2>2 DEF HandlersInv, ReceiptsTyped
      <3>2. HandlerOk(v)
        BY <3>1 DEF HandlersInv, HandlersSound
      <3>3. HandlerOk(v)'
        BY <3>2, DecidedStands, HandlingTyped DEF HandlerOk
      <3> QED BY <3>1, <3>3
    <2> QED BY <2>1, <2>2
  <1> QED BY <1>1, <1>2, <1>3 DEF HandlersInv, HandlersSound

(* Everybody else's steps, and a crash of the handlers.                    *)
LEMMA HandlersAside ==
  ASSUME LedgerOk, HandlersInv, Grows, UNCHANGED receipts,
         UNCHANGED handling \/ handling' = [h \in Handlers |-> AtRest]
  PROVE  HandlersInv'
  <1>1. ReceiptsTyped'
    BY DEF HandlersInv, ReceiptsTyped, Handling
  <1>2. \A b \in Callbacks : ReceiptOk(b)'
    BY DecidedStands DEF HandlersInv, HandlersSound, ReceiptOk
  <1>3. ASSUME NEW g \in Handlers
        PROVE  HandlerOk(handling[g])'
    <2>1. PICK v \in Handling : v = handling'[g]
      BY <1>1 DEF ReceiptsTyped
    <2>2. CASE v.phase = "idle"
      BY <2>1, <2>2 DEF HandlerOk
    <2>3. CASE v.phase # "idle"
      <3>1. v = handling[g] /\ HandlerOk(v)
        BY <2>1, <2>3 DEF HandlersInv, HandlersSound, AtRest
      <3>2. HandlerOk(v)'
        BY <3>1, DecidedStands, HandlingTyped DEF HandlerOk
      <3> QED BY <2>1, <3>2
    <2> QED BY <2>2, <2>3
  <1> QED BY <1>1, <1>2, <1>3 DEF HandlersInv, HandlersSound

LEMMA FrozenTyped ==
  ASSUME LedgerOk, NEW b \in Callbacks, b.kind = "CARD" => b.card \in 1 .. Revision(b.case)
  PROVE  /\ FrozenCommand(b) \in DecisionCommand /\ FrozenCommand(b).id = CallbackCommandId(b)
         /\ FrozenCommand(b).case = b.case
  <1>1. b.case \in Cases /\ Revision(b.case) \in Nat
    BY CallbackAssumption, StageTyped
  <1>2. (IF b.kind = "CARD" THEN b.card ELSE Revision(b.case)) \in Nat
    BY <1>1
  <1> QED BY <1>1, <1>2 DEF FrozenCommand, DecisionCommand

LEMMA DeliverKeeps ==
  ASSUME LedgerOk, HandlersInv, NEW h \in Handlers, NEW b \in Callbacks, Deliver(h, b)
  PROVE  HandlersInv'
  <1>1. UNCHANGED <<ledger, receipts>> /\ Grows
    BY DEF Deliver, Grows
  <1>2. CASE receipts[b] = NoRow /\ handling' = [handling EXCEPT ![h] =
               [phase |-> "remember", callback |-> b, command |-> FrozenCommand(b)]]
    <2>1. PICK k \in DecisionCommand : /\ k = FrozenCommand(b) /\ k.id = CallbackCommandId(b)
                                      /\ k.case = b.case
      BY FrozenTyped DEF Deliver
    <2> DEFINE w == [phase |-> "remember", callback |-> b, command |-> k]
    <2>2. w \in Handling /\ HandlerOk(w)'
      BY <2>1 DEF Handling, HandlerOk
    <2> QED BY <1>1, <1>2, <2>1, <2>2, HandlerGoesOn
  <1>3. CASE receipts[b] # NoRow /\ handling' = [handling EXCEPT ![h] =
               [phase |-> "execute", callback |-> b]]
    <2> DEFINE w == [phase |-> "execute", callback |-> b]
    <2>2. w \in Handling /\ HandlerOk(w)'
      BY <1>1, <1>3 DEF Handling, HandlerOk
    <2> QED BY <1>1, <1>3, <2>2, HandlerGoesOn
  <1> QED BY <1>2, <1>3 DEF Deliver

LEMMA RememberKeeps ==
  ASSUME LedgerOk, HandlersInv, NEW h \in Handlers, Remember(h)
  PROVE  HandlersInv'
  <1>1. PICK v \in Handling : v = handling[h] /\ v.phase = "remember" /\ HandlerOk(v)
    BY DEF Remember, HandlersInv, ReceiptsTyped, HandlersSound
  <1>2. PICK b \in Callbacks, k \in DecisionCommand :
          /\ b = v.callback /\ k = v.command /\ k.id = CallbackCommandId(b) /\ k.case = b.case
    BY <1>1, HandlingTyped DEF HandlerOk
  <1> DEFINE w == [phase |-> "execute", callback |-> b]
             row == KeepFirst(b, k)
  <1>3. /\ receipts' = [receipts EXCEPT ![b] = row] /\ handling' = [handling EXCEPT ![h] = w]
        /\ UNCHANGED ledger
    BY <1>1, <1>2 DEF Remember
  <1>4. /\ row \in ReceiptRow
        /\ receipts[b] # NoRow => row = receipts[b]
        /\ receipts[b] = NoRow => row = [command |-> k, response |-> 0]
    BY <1>2 DEF KeepFirst, ReceiptRow, HandlersInv, ReceiptsTyped
  <1>5. row # NoRow
    BY <1>4, RowAssumption
  <1>6. /\ receipts'[b] = row /\ receipts' \in [Callbacks -> {NoRow} \cup ReceiptRow]
        /\ \A a \in Callbacks : receipts[a] # NoRow => receipts'[a] = receipts[a]
        /\ \A a \in Callbacks : a # b => receipts'[a] = receipts[a]
    BY <1>3, <1>4 DEF HandlersInv, ReceiptsTyped
  <1> HIDE DEF row
  <1>7. w \in Handling /\ w.phase = "execute" /\ w.callback = b
    BY DEF Handling
  <1> HIDE DEF w
  <1>8. ReceiptsTyped'
    BY <1>3, <1>6, <1>7 DEF HandlersInv, ReceiptsTyped
  <1>9. ASSUME NEW a \in Callbacks
        PROVE  ReceiptOk(a)'
    <2>1. CASE receipts[a] # NoRow \/ a # b
      BY <1>3, <1>6, <2>1 DEF HandlersInv, HandlersSound, ReceiptOk, DecidedAt
    <2>2. CASE receipts[a] = NoRow /\ a = b
      <3>1. receipts'[a].command = k /\ receipts'[a].response = 0
        BY <1>4, <1>6, <2>2
      <3> QED BY <1>2, <2>2, <3>1 DEF ReceiptOk
    <2> QED BY <2>1, <2>2
  <1>10. ASSUME NEW g \in Handlers
         PROVE  HandlerOk(handling[g])'
    <2>1. PICK u \in Handling : u = handling'[g]
      BY <1>8 DEF ReceiptsTyped
    <2>2. CASE g = h
      <3>1. u.phase = "execute" /\ u.callback = b
        BY <1>3, <1>7, <2>1, <2>2 DEF HandlersInv, ReceiptsTyped
      <3> QED BY <1>5, <1>6, <2>1, <3>1 DEF HandlerOk
    <2>3. CASE g # h
      <3>1. u = handling[g] /\ HandlerOk(u)
        BY <1>3, <2>1, <2>3 DEF HandlersInv, ReceiptsTyped, HandlersSound
      <3>2. HandlerOk(u)'
        BY <1>3, <1>5, <1>6, <3>1, HandlingTyped DEF HandlerOk, DecidedAt
      <3> QED BY <2>1, <3>2
    <2> QED BY <2>2, <2>3
  <1> QED BY <1>8, <1>9, <1>10 DEF HandlersInv, HandlersSound

(* A decision as a command of the engine.                                  *)
LEMMA DecisionIsCommand ==
  ASSUME NEW k \in DecisionCommand
  PROVE  k \in Command /\ k.event = NoEvent /\ k.id[1] # "private"
  BY DEF DecisionCommand, CallbackCommandId, Command, CommandIds

LEMMA DecisionKeeps ==
  ASSUME LedgerOk, HandlersInv, NEW h \in Handlers, ExecuteDecision(h)
  PROVE  /\ HandlersInv' /\ UNCHANGED <<outbox, sending, chat, unattended>>
         /\ \/ UNCHANGED ledger
            \/ \E k : Effect(k) /\ k.event = NoEvent /\ k.id[1] # "private"
  <1>1. PICK v \in Handling : v = handling[h] /\ v.phase = "execute" /\ HandlerOk(v)
    BY DEF ExecuteDecision, HandlersInv, ReceiptsTyped, HandlersSound
  <1>2. PICK b \in Callbacks : b = v.callback /\ b.case \in Cases /\ receipts[b] \in ReceiptRow
    BY <1>1, HandlingTyped DEF HandlerOk, HandlersInv, ReceiptsTyped
  <1>3. PICK k \in DecisionCommand : k = receipts[b].command /\ k.case = b.case
    BY <1>1, <1>2 DEF ReceiptRow, HandlersInv, HandlersSound, ReceiptOk, HandlerOk
  <1>4. k \in Command /\ k.event = NoEvent /\ k.id[1] # "private"
    BY DecisionIsCommand
  <1>5. /\ UNCHANGED receipts /\ UNCHANGED <<outbox, sending, chat, unattended>>
        /\ \/ /\ Executed(k)
              /\ handling' = [handling EXCEPT ![h] = Answering(b, Revision(b.case) + 1)]
           \/ \E r \in DOMAIN ledger[b.case] :
                /\ Replayed(k, r)
                /\ handling' = [handling EXCEPT ![h] = Answering(b, r)]
           \/ UNCHANGED ledger /\ handling' = [handling EXCEPT ![h] = AtRest]
    BY <1>1, <1>2, <1>3 DEF ExecuteDecision, Refused
  <1>6. CASE /\ Executed(k)
             /\ handling' = [handling EXCEPT ![h] = Answering(b, Revision(b.case) + 1)]
    <2>1. Effect(k) /\ Grows
      BY <1>4, <1>6 DEF Executed, Effect, Grows
    <2>2. PICK n \in Nat : n = Revision(b.case) + 1
      BY <1>2, StageTyped
    <2>3. n \in DOMAIN ledger'[b.case] /\ ledger'[b.case][n] = k
      BY <1>3, <2>1, <2>2, EffectGrows
    <2> DEFINE w == Answering(b, n)
    <2>4. w \in Handling /\ HandlerOk(w)'
      BY <1>2, <1>3, <1>5, <2>3, RowAssumption DEF Answering, Handling, HandlerOk, DecidedAt
    <2> QED BY <1>4, <1>5, <1>6, <2>1, <2>2, <2>4, HandlerGoesOn
  <1>7. ASSUME NEW r \in DOMAIN ledger[b.case], Replayed(k, r),
               handling' = [handling EXCEPT ![h] = Answering(b, r)]
        PROVE  HandlersInv' /\ UNCHANGED ledger
    <2>1. r \in Nat
      BY <1>2, StageTyped
    <2>2. UNCHANGED ledger /\ ledger[b.case][r] = k /\ Grows
      BY <1>3, <1>4, <1>7 DEF Replayed, Answers, Grows
    <2> DEFINE w == Answering(b, r)
    <2>3. w \in Handling /\ HandlerOk(w)'
      BY <1>2, <1>3, <1>5, <2>1, <2>2, RowAssumption DEF Answering, Handling, HandlerOk, DecidedAt
    <2> QED BY <1>5, <1>7, <2>2, <2>3, HandlerGoesOn
  <1>8. CASE UNCHANGED ledger /\ handling' = [handling EXCEPT ![h] = AtRest]
    <2>1. AtRest \in Handling /\ HandlerOk(AtRest)'
      BY DEF AtRest, Handling, HandlerOk
    <2> QED BY <1>5, <1>8, <2>1, HandlerGoesOn DEF Grows
  <1> QED BY <1>5, <1>6, <1>7, <1>8, <1>4 DEF Executed, Effect

LEMMA AnswerKeeps ==
  ASSUME LedgerOk, HandlersInv, NEW h \in Handlers, PostOrQuery(h) \/ QueueAnswer(h)
  PROVE  HandlersInv'
  <1>1. PICK v \in Handling : v = handling[h] /\ HandlerOk(v)
    BY DEF HandlersInv, ReceiptsTyped, HandlersSound
  <1>2. UNCHANGED <<ledger, receipts>> /\ Grows
    BY DEF PostOrQuery, QueueAnswer, Grows
  <1>3. v.phase \in {"execute", "answer"} /\ v.callback \in Callbacks /\ v.callback.case \in Cases
    BY <1>1, HandlingTyped DEF PostOrQuery, QueueAnswer
  <1>4. CASE PostOrQuery(h)
    <2>1. PICK n \in Nat : n = IF v.callback.kind = "QUERY" THEN 1 ELSE Revision(v.callback.case)
      BY <1>3, StageTyped
    <2> DEFINE w == Answering(v.callback, n)
    <2>2. handling' = [handling EXCEPT ![h] = w] /\ ~Business(v.callback) /\ v.phase = "execute"
      BY <1>1, <1>4, <2>1 DEF PostOrQuery
    <2>3. w \in Handling /\ HandlerOk(w)'
      BY <1>1, <1>2, <1>3, <2>2 DEF Answering, Handling, HandlerOk, Business
    <2> QED BY <1>2, <2>2, <2>3, HandlerGoesOn
  <1>5. CASE QueueAnswer(h)
    <2> DEFINE w == [v EXCEPT !.phase = "complete"]
    <2>1. handling' = [handling EXCEPT ![h] = w] /\ v.phase = "answer"
      BY <1>1, <1>5 DEF QueueAnswer, HandlersInv, ReceiptsTyped
    <2>2. w \in Handling /\ w.phase = "complete" /\ w.callback = v.callback /\ w.revision = v.revision
      BY <2>1 DEF Handling, AtRest
    <2> HIDE DEF w
    <2>3. HandlerOk(w)'
      BY <1>1, <1>2, <2>1, <2>2 DEF HandlerOk, DecidedAt
    <2> QED BY <1>2, <2>1, <2>2, <2>3, HandlerGoesOn
  <1> QED BY <1>4, <1>5

LEMMA CompleteKeeps ==
  ASSUME LedgerOk, HandlersInv, NEW h \in Handlers, CompleteCallback(h)
  PROVE  HandlersInv'
  <1>1. PICK v \in Handling : v = handling[h] /\ v.phase = "complete" /\ HandlerOk(v)
    BY DEF CompleteCallback, HandlersInv, ReceiptsTyped, HandlersSound
  <1>2. PICK b \in Callbacks : b = v.callback /\ receipts[b] \in ReceiptRow /\ v.revision \in Nat
    BY <1>1, HandlingTyped DEF HandlerOk, HandlersInv, ReceiptsTyped
  <1> DEFINE row == [receipts[b] EXCEPT !.response = v.revision]
  <1>3. /\ receipts' = [receipts EXCEPT ![b] = row] /\ handling' = [handling EXCEPT ![h] = AtRest]
        /\ UNCHANGED ledger
    BY <1>1, <1>2 DEF CompleteCallback, HandlersInv, ReceiptsTyped
  <1>4. row \in ReceiptRow /\ row.command = receipts[b].command /\ row.response = v.revision
    BY <1>2 DEF ReceiptRow
  <1> HIDE DEF row
  <1>5. /\ receipts'[b] = row /\ row # NoRow /\ receipts[b] # NoRow
        /\ receipts' \in [Callbacks -> {NoRow} \cup ReceiptRow]
        /\ \A a \in Callbacks : a # b => receipts'[a] = receipts[a]
        /\ \A a \in Callbacks : receipts'[a].command = receipts[a].command
    BY <1>2, <1>3, <1>4, RowAssumption DEF HandlersInv, ReceiptsTyped
  <1>6. ReceiptsTyped'
    BY <1>3, <1>5 DEF HandlersInv, ReceiptsTyped, Handling
  <1>7. \A a \in Callbacks : \A r : DecidedAt(a, r) => DecidedAt(a, r)'
    BY <1>3, <1>5 DEF DecidedAt
  <1>8. ASSUME NEW a \in Callbacks
        PROVE  ReceiptOk(a)'
    <2>1. ReceiptOk(a)
      BY DEF HandlersInv, HandlersSound
    <2>2. CASE a # b
      BY <1>5, <1>7, <2>1, <2>2 DEF ReceiptOk
    <2>3. CASE a = b
      <3>1. /\ receipts[a].command.id = CallbackCommandId(a) /\ receipts[a].command.case = a.case
            /\ receipts'[a].response = v.revision
        BY <1>4, <1>5, <2>1, <2>3 DEF ReceiptOk
      <3>2. Business(a) => DecidedAt(a, v.revision)
        BY <1>1, <1>2, <2>3 DEF HandlerOk
      <3> QED BY <1>5, <1>7, <3>1, <3>2 DEF ReceiptOk
    <2> QED BY <2>2, <2>3
  <1>9. ASSUME NEW g \in Handlers
        PROVE  HandlerOk(handling[g])'
    <2>1. PICK u \in Handling : u = handling'[g]
      BY <1>6 DEF ReceiptsTyped
    <2>2. CASE u.phase = "idle"
      BY <2>1, <2>2 DEF HandlerOk
    <2>3. CASE u.phase # "idle"
      <3>1. u = handling[g] /\ HandlerOk(u)
        BY <1>3, <2>1, <2>3 DEF HandlersInv, ReceiptsTyped, HandlersSound, AtRest
      <3>2. HandlerOk(u)'
        BY <1>5, <1>7, <3>1, HandlingTyped DEF HandlerOk
      <3> QED BY <2>1, <3>2
    <2> QED BY <2>2, <2>3
  <1> QED BY <1>6, <1>8, <1>9 DEF HandlersInv, HandlersSound

-----------------------------------------------------------------------------
(* The outbox.                                                             *)

LEMMA SendingTyped ==
  ASSUME NEW w \in Sending
  PROVE  /\ w.phase \in {"idle", "check", "claim", "block", "write", "call", "save"}
         /\ w.phase # "idle" => w.row \in Rows
         /\ w.phase \in {"call", "save"} => w.number \in 0 .. MaxSends
         /\ w.phase = "save" => w.result \in {"SENT", "UNCERTAIN"}
  BY DEF Sending, AtRest

(* A step that changes at most one row, adds at most messages, and leaves  *)
(* every sender alone or where it may be.                                  *)
LEMMA OutboxMoves ==
  ASSUME OutboxInv, OutboxTyped', NEW b \in Rows,
         \A a \in Rows : a # b => outbox'[a] = outbox[a] /\ unattended'[a] = unattended[a],
         outbox[b] # NoRow => outbox'[b] # NoRow,
         DeliveryOk(b)',
         \A m \in chat : m \in chat',
         \A m \in chat' : m = [row |-> m.row, key |-> m.row.ref],
         \A u \in Senders :
           \/ SenderOk(u, sending[u])'
           \/ sending'[u] = sending[u] /\ (u = Worker => unattended' = unattended)
  PROVE  OutboxInv'
  <1>1. \A a \in Rows : Arrived(a) => Arrived(a)'
    BY DEF Arrived
  <1>2. \A a \in Rows : DeliveryOk(a)'
    BY <1>1 DEF OutboxInv, OutboxSound, DeliveryOk
  <1>3. ASSUME NEW u \in Senders
        PROVE  SenderOk(u, sending[u])'
    <2>1. CASE sending'[u] = sending[u] /\ (u = Worker => unattended' = unattended)
      <3>1. PICK w \in Sending : w = sending'[u] /\ SenderOk(u, w)
        BY <2>1 DEF OutboxInv, OutboxSound, OutboxTyped
      <3>2. SenderOk(u, w)'
        BY <1>1, <2>1, <3>1, SendingTyped DEF SenderOk
      <3> QED BY <3>1, <3>2
    <2> QED BY <2>1
  <1> QED BY <1>2, <1>3 DEF OutboxInv, OutboxSound

LEMMA OutboxAside ==
  ASSUME OutboxInv, UNCHANGED <<outbox, chat, unattended>>,
         UNCHANGED sending \/ sending' = [s \in Senders |-> AtRest]
  PROVE  OutboxInv'
  <1>1. OutboxTyped'
    BY DEF OutboxInv, OutboxTyped, Sending
  <1>2. \A a \in Rows : DeliveryOk(a)'
    BY DEF OutboxInv, OutboxSound, DeliveryOk, Arrived
  <1>3. ASSUME NEW u \in Senders
        PROVE  SenderOk(u, sending[u])'
    <2>1. PICK w \in Sending : w = sending'[u]
      BY <1>1 DEF OutboxTyped
    <2>2. w.phase # "idle" => SenderOk(u, w)
      BY <2>1 DEF OutboxInv, OutboxSound, AtRest
    <2>3. SenderOk(u, w)'
      BY <2>2 DEF SenderOk, Arrived
    <2> QED BY <2>1, <2>3
  <1> QED BY <1>1, <1>2, <1>3 DEF OutboxInv, OutboxSound

LEMMA SenderMoves ==
  ASSUME OutboxInv, UNCHANGED <<outbox, unattended>>, NEW s \in Senders, NEW w \in Sending,
         sending' = [sending EXCEPT ![s] = w], SenderOk(s, w)',
         \A m \in chat : m \in chat',
         \A m \in chat' : m = [row |-> m.row, key |-> m.row.ref]
  PROVE  OutboxInv'
  <1>1. OutboxTyped'
    BY DEF OutboxInv, OutboxTyped
  <1>2. \A a \in Rows : DeliveryOk(a)'
    BY DEF OutboxInv, OutboxSound, DeliveryOk, Arrived
  <1>3. ASSUME NEW u \in Senders
        PROVE  SenderOk(u, sending[u])'
    <2>1. CASE u = s
      BY <2>1 DEF OutboxInv, OutboxTyped
    <2>2. CASE u # s
      <3>1. PICK v \in Sending : v = sending'[u] /\ SenderOk(u, v)
        BY <2>2 DEF OutboxInv, OutboxSound, OutboxTyped
      <3>2. SenderOk(u, v)'
        BY <3>1, SendingTyped DEF SenderOk, Arrived
      <3> QED BY <3>1, <3>2
    <2> QED BY <2>1, <2>2
  <1> QED BY <1>1, <1>2, <1>3 DEF OutboxInv, OutboxSound

LEMMA NewRowTyped ==
  ASSUME LedgerOk, NEW b \in Rows, NEW auto \in BOOLEAN
  PROVE  /\ NewRow(b, auto) \in OutboxRow /\ NewRow(b, auto).state \in {"PENDING", "PREVIEW"}
         /\ NewRow(b, auto).state = "PENDING" => NewRow(b, auto).auto = TRUE
  <1>1. b.case \in Cases /\ Revision(b.case) \in Nat /\ MaxSends \in Nat
    BY CallbackAssumption, StageTyped DEF Rows
  <1>2. ASSUME NEW o \in {"UPDATE", "SEND", "REPLY"}, NEW r \in Nat
        PROVE  /\ Queued(o, r, auto) \in OutboxRow /\ Queued(o, r, auto).state \in {"PENDING", "PREVIEW"}
               /\ Queued(o, r, auto).state = "PENDING" => Queued(o, r, auto).auto = TRUE
    BY <1>1 DEF Queued, OutboxRow
  <1>3. (CASE b.kind = "CARD" -> "UPDATE" [] b.kind = "PREVIEW" -> "SEND" [] OTHER -> "REPLY")
          \in {"UPDATE", "SEND", "REPLY"}
    OBVIOUS
  <1>4. NewRow(b, auto) = IF b.kind = "QUERY" THEN Queued("REPLY", 0, auto)
          ELSE Queued(CASE b.kind = "CARD" -> "UPDATE" [] b.kind = "PREVIEW" -> "SEND" [] OTHER -> "REPLY",
                      Revision(b.case), auto)
    BY DEF NewRow, StaticRow, CaseRow
  <1>5. CASE b.kind = "QUERY"
    BY <1>2, <1>4, <1>5
  <1>6. CASE b.kind # "QUERY"
    BY <1>1, <1>2, <1>3, <1>4, <1>6
  <1> QED BY <1>5, <1>6

(* A row is queued once, before anything was tried on it.                  *)
LEMMA RowAppears ==
  ASSUME OutboxInv, NEW b \in Rows, NEW row \in OutboxRow, outbox[b] = NoRow,
         row.state \in {"PENDING", "PREVIEW"}, row.state = "PENDING" => row.auto = TRUE,
         outbox' = [outbox EXCEPT ![b] = row], UNCHANGED <<sending, chat, unattended>>
  PROVE  OutboxInv'
  <1>1. OutboxTyped' /\ outbox'[b] = row
    BY DEF OutboxInv, OutboxTyped
  <1>2. unattended[b] # 1 /\ unattended[b] <= 1
    BY DEF OutboxInv, OutboxSound, DeliveryOk
  <1>3. DeliveryOk(b)'
    BY <1>1, <1>2 DEF DeliveryOk
  <1>4. \A a \in Rows : a # b => outbox'[a] = outbox[a]
    BY DEF OutboxInv, OutboxTyped
  <1> QED BY <1>1, <1>3, <1>4, OutboxMoves, RowAssumption DEF OutboxInv, OutboxSound

LEMMA QueueKeeps ==
  ASSUME LedgerOk, HandlersInv, OutboxInv,
         (\E h \in Handlers : QueueAnswer(h)) \/ (\E p \in Previews : Preview(p))
  PROVE  OutboxInv'
  <1>1. UNCHANGED <<sending, chat, unattended>>
    BY DEF QueueAnswer, Preview
  <1>2. CASE UNCHANGED outbox
    BY <1>1, <1>2, OutboxAside
  <1>3. ASSUME NEW b \in Rows, outbox[b] = NoRow,
               \E auto \in BOOLEAN : outbox' = [outbox EXCEPT ![b] = NewRow(b, auto)]
        PROVE  OutboxInv'
    <2>1. PICK row \in OutboxRow :
            /\ outbox' = [outbox EXCEPT ![b] = row]
            /\ row.state \in {"PENDING", "PREVIEW"}
            /\ row.state = "PENDING" => row.auto = TRUE
      BY <1>3, NewRowTyped, Zenon
    <2> QED BY <1>1, <1>3, <2>1, RowAppears
  <1>4. ASSUME NEW h \in Handlers, QueueAnswer(h)
        PROVE  handling[h].callback \in Rows
    <2>1. handling[h] \in Handling /\ handling[h].phase = "answer"
      BY <1>4 DEF QueueAnswer, HandlersInv, ReceiptsTyped
    <2> QED BY <2>1, HandlingTyped DEF Rows
  <1>5. (\E h \in Handlers : QueueAnswer(h)) =>
          UNCHANGED outbox \/ \E b \in Rows : /\ outbox[b] = NoRow
            /\ \E auto \in BOOLEAN : outbox' = [outbox EXCEPT ![b] = NewRow(b, auto)]
    BY <1>4, Zenon DEF QueueAnswer, NotQueued
  <1>6. (\E p \in Previews : Preview(p)) => \E b \in Rows : /\ outbox[b] = NoRow
            /\ \E auto \in BOOLEAN : outbox' = [outbox EXCEPT ![b] = NewRow(b, auto)]
    BY Zenon DEF Preview, Rows
  <1> QED BY <1>2, <1>3, <1>5, <1>6

LEMMA PickKeeps ==
  ASSUME OutboxInv, NEW s \in Senders, NEW b \in Rows, Picks(s, b)
  PROVE  OutboxInv'
  <1> DEFINE w == [phase |-> "check", row |-> b]
  <1>1. /\ UNCHANGED <<outbox, chat, unattended>> /\ sending' = [sending EXCEPT ![s] = w]
        /\ outbox[b] # NoRow
        /\ s = Worker => outbox[b].state = "PENDING"
    BY DEF Picks, DrainPending
  <1>2. unattended[b] \in Nat /\ unattended[b] <= 1
        /\ (unattended[b] = 1 => outbox[b].state # "PENDING")
    BY DEF OutboxInv, OutboxTyped, OutboxSound, DeliveryOk
  <1>3. w \in Sending /\ SenderOk(s, w)'
    BY <1>1, <1>2 DEF Sending, SenderOk
  <1> QED BY <1>1, <1>3, SenderMoves DEF OutboxInv, OutboxSound

(* What a sender does without touching the row.                            *)
LEMMA CheckKeeps ==
  ASSUME OutboxInv, NEW s \in Senders, Check(s) \/ ClaimRefused(s) \/ ReadAgain(s)
  PROVE  OutboxInv'
  <1>1. PICK v \in Sending : v = sending[s] /\ SenderOk(s, v)
    BY DEF OutboxInv, OutboxTyped, OutboxSound
  <1>2. UNCHANGED <<outbox, chat, unattended>> /\ v.phase # "idle"
    BY <1>1 DEF Check, ClaimRefused, ReadAgain
  <1>3. v.row \in Rows /\ outbox[v.row] # NoRow
    BY <1>1, <1>2, SendingTyped DEF SenderOk
  <1>4. \A m \in chat : m = [row |-> m.row, key |-> m.row.ref]
    BY DEF OutboxInv, OutboxSound
  <1>5. ASSUME NEW phase \in {"block", "write"}, sending' = [sending EXCEPT ![s] = [phase |-> phase, row |-> v.row]]
        PROVE  OutboxInv'
    <2> DEFINE w == [phase |-> phase, row |-> v.row]
    <2>1. w \in Sending /\ SenderOk(s, w)'
      BY <1>2, <1>3 DEF Sending, SenderOk
    <2> QED BY <1>2, <1>4, <1>5, <2>1, SenderMoves
  <1>6. CASE sending' = [sending EXCEPT ![s] = AtRest]
    <2>1. AtRest \in Sending /\ SenderOk(s, AtRest)'
      BY DEF AtRest, Sending, SenderOk
    <2> QED BY <1>2, <1>4, <1>6, <2>1, SenderMoves
  <1>7. CASE v.phase = "check" /\ sending' = [sending EXCEPT ![s].phase = "claim"]
    <2> DEFINE w == [phase |-> "claim", row |-> v.row]
    <2>1. [v EXCEPT !.phase = "claim"] = w
      BY <1>1, <1>7 DEF Sending, AtRest
    <2>2. sending' = [sending EXCEPT ![s] = w]
      BY <1>1, <1>7, <2>1 DEF OutboxInv, OutboxTyped
    <2>3. w \in Sending /\ SenderOk(s, w)'
      BY <1>1, <1>2, <1>3, <1>7 DEF Sending, SenderOk
    <2> QED BY <1>2, <1>4, <2>2, <2>3, SenderMoves
  <1> QED BY <1>1, <1>5, <1>6, <1>7 DEF Check, ClaimRefused, ReadAgain, GiveUp

LEMMA ClaimKeeps ==
  ASSUME OutboxInv, NEW s \in Senders, Claim(s)
  PROVE  OutboxInv'
  <1>1. PICK v \in Sending : v = sending[s] /\ v.phase = "claim" /\ SenderOk(s, v)
    BY DEF OutboxInv, OutboxTyped, OutboxSound, Claim
  <1>2. PICK b \in Rows : b = v.row /\ outbox[b] # NoRow /\ outbox[b] \in OutboxRow
    BY <1>1, SendingTyped DEF SenderOk, OutboxInv, OutboxTyped
  <1>3. PICK n \in 0 .. MaxSends : n = outbox[b].attempts + 1
    BY <1>1, <1>2, CallbackAssumption DEF Claim, OutboxRow
  <1> DEFINE w == [phase |-> "call", row |-> b, number |-> n]
  <1>4. PICK row \in OutboxRow :
          /\ row = [outbox[b] EXCEPT !.state = "SENDING", !.old = FALSE, !.attempts = n]
          /\ row.state = "SENDING"
    <2> DEFINE new == [outbox[b] EXCEPT !.state = "SENDING", !.old = FALSE, !.attempts = n]
    <2>1. new \in OutboxRow /\ new.state = "SENDING"
      BY <1>2 DEF OutboxRow
    <2> QED BY <2>1
  <1>5. /\ outbox' = [outbox EXCEPT ![b] = row] /\ sending' = [sending EXCEPT ![s] = w]
        /\ UNCHANGED chat
        /\ unattended' = IF s = Worker THEN [unattended EXCEPT ![b] = @ + 1] ELSE unattended
    BY <1>1, <1>2, <1>3, <1>4 DEF Claim, OutboxInv, OutboxTyped
  <1>6. w \in Sending /\ w.row = b /\ w.phase = "call"
    BY DEF Sending
  <1> HIDE DEF w
  <1>7. OutboxTyped' /\ outbox'[b] = row /\ sending'[s] = w
    BY <1>5, <1>6 DEF OutboxInv, OutboxTyped
  <1>8. unattended'[b] \in Nat /\ unattended'[b] <= 1
    <2>1. CASE s = Worker
      BY <1>1, <1>2, <1>5, <2>1 DEF SenderOk, OutboxInv, OutboxTyped
    <2>2. CASE s # Worker
      BY <1>5, <2>2 DEF OutboxInv, OutboxTyped, OutboxSound, DeliveryOk
    <2> QED BY <2>1, <2>2
  <1>9. DeliveryOk(b)' /\ row # NoRow
    BY <1>4, <1>7, <1>8, RowAssumption DEF DeliveryOk
  <1>10. SenderOk(s, w)'
    BY <1>6, <1>7, <1>9 DEF SenderOk
  <1>11. \A u \in Senders :
           \/ SenderOk(u, sending[u])'
           \/ sending'[u] = sending[u] /\ (u = Worker => unattended' = unattended)
    BY <1>5, <1>7, <1>10 DEF OutboxInv, OutboxTyped
  <1>12. \A a \in Rows : a # b => outbox'[a] = outbox[a] /\ unattended'[a] = unattended[a]
    BY <1>5 DEF OutboxInv, OutboxTyped
  <1> QED BY <1>5, <1>7, <1>9, <1>11, <1>12, OutboxMoves DEF OutboxInv, OutboxSound

LEMMA CallKeeps ==
  ASSUME OutboxInv, NEW s \in Senders, Call(s)
  PROVE  OutboxInv'
  <1>1. PICK v \in Sending : v = sending[s] /\ v.phase = "call" /\ SenderOk(s, v)
    BY DEF OutboxInv, OutboxTyped, OutboxSound, Call
  <1>2. v.row \in Rows /\ v.number \in 0 .. MaxSends /\ outbox[v.row] # NoRow
    BY <1>1, SendingTyped DEF SenderOk
  <1>3. PICK result \in {"SENT", "UNCERTAIN"} :
          /\ sending' = [sending EXCEPT ![s] =
               [phase |-> "save", row |-> v.row, number |-> v.number, result |-> result]]
          /\ \/ chat' = chat \cup {[row |-> v.row, key |-> v.row.ref]}
             \/ chat' = chat /\ result = "UNCERTAIN"
          /\ UNCHANGED <<outbox, unattended>>
    BY <1>1 DEF Call, IdempotencyKey
  <1> DEFINE w == [phase |-> "save", row |-> v.row, number |-> v.number, result |-> result]
  <1>4. w \in Sending
    BY <1>2 DEF Sending
  <1>5. \A m \in chat : m = [row |-> m.row, key |-> m.row.ref]
    BY DEF OutboxInv, OutboxSound
  <1>6. result = "SENT" => Arrived(v.row)'
    <2> DEFINE m == [row |-> v.row, key |-> v.row.ref]
    <2>1. m.row = v.row
      OBVIOUS
    <2>2. result = "SENT" => m \in chat'
      BY <1>3
    <2> HIDE DEF m
    <2> QED BY <2>1, <2>2 DEF Arrived
  <1>7. SenderOk(s, w)'
    BY <1>2, <1>3, <1>6 DEF SenderOk
  <1>8. /\ \A m \in chat : m \in chat'
        /\ \A m \in chat' : m = [row |-> m.row, key |-> m.row.ref]
    BY <1>3, <1>5
  <1> QED BY <1>3, <1>4, <1>7, <1>8, SenderMoves

(* A row gets the result of a send, is blocked, or its claim grows old.    *)
LEMMA RowSettles ==
  ASSUME OutboxInv, NEW b \in Rows, outbox[b] # NoRow, NEW row \in OutboxRow,
         outbox' = [outbox EXCEPT ![b] = row], UNCHANGED <<chat, unattended>>,
         row.state # "PENDING", row.state = "SENT" => Arrived(b),
         sending' = sending \/ \E s \in Senders : sending' = [sending EXCEPT ![s] = AtRest]
  PROVE  OutboxInv'
  <1>1. OutboxTyped' /\ outbox'[b] = row
    BY DEF OutboxInv, OutboxTyped, Sending
  <1>2. DeliveryOk(b)'
    BY <1>1, RowAssumption DEF OutboxInv, OutboxSound, DeliveryOk, Arrived
  <1>3. \A a \in Rows : a # b => outbox'[a] = outbox[a]
    BY DEF OutboxInv, OutboxTyped
  <1>4. \A u \in Senders : SenderOk(u, sending[u])' \/ sending'[u] = sending[u]
    BY DEF OutboxInv, OutboxTyped, SenderOk, AtRest
  <1> QED BY <1>1, <1>2, <1>3, <1>4, OutboxMoves, RowAssumption DEF OutboxInv, OutboxSound

LEMMA SettleKeeps ==
  ASSUME OutboxInv, \/ \E s \in Senders : SaveResult(s) \/ Block(s)
                    \/ \E b \in Rows : ClaimAges(b)
  PROVE  OutboxInv'
  <1>1. ASSUME NEW s \in Senders, SaveResult(s) \/ Block(s)
        PROVE  OutboxInv'
    <2>1. PICK v \in Sending : v = sending[s] /\ v.phase # "idle" /\ SenderOk(s, v)
      BY <1>1 DEF OutboxInv, OutboxTyped, OutboxSound, SaveResult, Block
    <2>2. PICK b \in Rows : b = v.row /\ outbox[b] # NoRow /\ outbox[b] \in OutboxRow
      BY <2>1, SendingTyped DEF SenderOk, OutboxInv, OutboxTyped
    <2>3. PICK state \in {"SENT", "UNCERTAIN", "BLOCKED"}, n \in 0 .. MaxSends :
            /\ outbox' = [outbox EXCEPT ![b].state = state, ![b].old = FALSE, ![b].attempts = n]
            /\ state = "SENT" => Arrived(b)
      <3>1. CASE SaveResult(s)
        <4>1. v.result \in {"SENT", "UNCERTAIN"} /\ v.number \in 0 .. MaxSends
          BY <2>1, <3>1, SendingTyped DEF SaveResult
        <4> QED BY <2>1, <2>2, <3>1, <4>1 DEF SaveResult, SenderOk
      <3>2. CASE Block(s)
        <4>1. 0 \in 0 .. MaxSends
          BY CallbackAssumption
        <4> QED BY <2>1, <2>2, <3>2, <4>1 DEF Block
      <3> QED BY <1>1, <3>1, <3>2
    <2>4. PICK row \in OutboxRow :
            /\ row = [outbox[b] EXCEPT !.state = state, !.old = FALSE, !.attempts = n]
            /\ row.state = state
      <3> DEFINE new == [outbox[b] EXCEPT !.state = state, !.old = FALSE, !.attempts = n]
      <3>1. new \in OutboxRow /\ new.state = state
        BY <2>2 DEF OutboxRow
      <3> QED BY <3>1
    <2>5. outbox' = [outbox EXCEPT ![b] = row]
      BY <2>2, <2>3, <2>4 DEF OutboxInv, OutboxTyped
    <2>6. UNCHANGED <<chat, unattended>> /\ sending' = [sending EXCEPT ![s] = AtRest]
      BY <1>1 DEF SaveResult, Block
    <2> QED BY <2>2, <2>3, <2>4, <2>5, <2>6, RowSettles
  <1>2. ASSUME NEW b \in Rows, ClaimAges(b)
        PROVE  OutboxInv'
    <2>1. outbox[b] # NoRow /\ outbox[b] \in OutboxRow /\ outbox[b].state = "SENDING"
      BY <1>2 DEF ClaimAges, OutboxInv, OutboxTyped
    <2>2. PICK row \in OutboxRow : row = [outbox[b] EXCEPT !.old = TRUE] /\ row.state = "SENDING"
      <3> DEFINE new == [outbox[b] EXCEPT !.old = TRUE]
      <3>1. new \in OutboxRow /\ new.state = "SENDING"
        BY <2>1 DEF OutboxRow
      <3> QED BY <3>1
    <2>3. outbox' = [outbox EXCEPT ![b] = row] /\ UNCHANGED <<chat, unattended, sending>>
      BY <1>2, <2>2 DEF ClaimAges, OutboxInv, OutboxTyped
    <2> QED BY <2>1, <2>2, <2>3, RowSettles
  <1> QED BY <1>1, <1>2

-----------------------------------------------------------------------------
(* All of them together.                                                   *)

ClientsInv == InboxInv /\ HandlersInv /\ OutboxInv /\ ChatInv /\ OneEffect

LEMMA RegisterKeeps ==
  ASSUME InboxInv, Register
  PROVE  InboxInv'
  BY DEF Register, StoreFacts, InboxInv, LedgerOk, InboxTyped, InboxSound, RowOk, Pending, Recorded,
         ThreadOk, BeginsRight, GoesOnRight, EndsRight, EffectsWerePrepared, Entries

LEMMA FinishFailsKeeps ==
  ASSUME InboxInv, NEW t \in Threads, FinishFails(t)
  PROVE  InboxInv'
  <1>1. Idle \in Work /\ BeginsRight(Idle) /\ GoesOnRight(Idle) /\ EndsRight(Idle)
    BY DEF Work, Idle, BeginsRight, GoesOnRight, EndsRight
  <1>2. work' = [work EXCEPT ![t] = Idle] /\ UNCHANGED <<ledger, registered, inbox>>
    BY DEF FinishFails
  <1> QED BY <1>1, <1>2, ThreadMoves DEF InboxInv, InboxTyped

LEMMA LostThreads ==
  ASSUME InboxInv, work' = [t \in Threads |-> Idle], UNCHANGED <<ledger, registered, inbox>>
  PROVE  InboxInv'
  <1>1. /\ InboxTyped' /\ LedgerOk'
        /\ \A e \in Envelopes : RowOk(e)'
        /\ EffectsWerePrepared'
    BY DEF InboxInv, LedgerOk, InboxTyped, Work, InboxSound, RowOk, Pending, Recorded,
           EffectsWerePrepared, Entries
  <1>2. \A t \in Threads : ThreadOk(t)'
    BY DEF ThreadOk, BeginsRight, GoesOnRight, EndsRight, Idle
  <1> QED BY <1>1, <1>2 DEF InboxInv, InboxSound

LEMMA OneEffectStands ==
  ASSUME LedgerOk, OneEffect, Grows
  PROVE  OneEffect'
  <1>1. CASE UNCHANGED ledger
    BY <1>1 DEF OneEffect
  <1>2. CASE \E k : Effect(k)
    <2>1. PICK k : Effect(k)
      BY <1>2
    <2>2. /\ \A c \in Cases : \A i \in DOMAIN ledger[c] : ledger'[c][i] = ledger[c][i]
          /\ \A c \in Cases : \A i \in DOMAIN ledger'[c] :
               i \in DOMAIN ledger[c] \/ (c = k.case /\ i = Revision(c) + 1 /\ ledger'[c][i] = k)
      BY <2>1, EffectGrows
    <2>3. \A c \in Cases : \A i \in DOMAIN ledger[c] :
            /\ ledger[c][i].id # k.id
            /\ k.event # NoEvent => ledger[c][i].event # k.event
      BY <2>1 DEF Effect, Fresh, Entries
    <2> SUFFICES ASSUME NEW c \in Cases, NEW d \in Cases, NEW i \in DOMAIN ledger'[c],
                        NEW j \in DOMAIN ledger'[d], <<c, i>> # <<d, j>>
                 PROVE  /\ ledger'[c][i].id # ledger'[d][j].id
                        /\ ledger'[c][i].event # NoEvent => ledger'[c][i].event # ledger'[d][j].event
      BY DEF OneEffect
    <2>4. CASE i \in DOMAIN ledger[c] /\ j \in DOMAIN ledger[d]
      BY <2>2, <2>4 DEF OneEffect
    <2>5. CASE i \in DOMAIN ledger[c] /\ j \notin DOMAIN ledger[d]
      BY <2>2, <2>3, <2>5
    <2>6. CASE i \notin DOMAIN ledger[c] /\ j \in DOMAIN ledger[d]
      BY <2>2, <2>3, <2>6
    <2>7. CASE i \notin DOMAIN ledger[c] /\ j \notin DOMAIN ledger[d]
      BY <2>2, <2>7
    <2> QED BY <2>4, <2>5, <2>6, <2>7
  <1> QED BY <1>1, <1>2 DEF Grows

LEMMA InboxStepKeeps ==
  ASSUME ClientsInv, InboxStep
  PROVE  ClientsInv'
  <1>1. /\ InboxInv /\ LedgerOk /\ HandlersInv /\ OutboxInv /\ ChatInv /\ OneEffect
        /\ UNCHANGED <<callbackVars, chatVars>>
    BY DEF ClientsInv, InboxInv, InboxStep
  <1>2. InboxInv' /\ (UNCHANGED ledger \/ \E k : Effect(k) /\ k.id[1] # "private")
    <2>1. CASE Register
      BY <1>1, <2>1, RegisterKeeps DEF Register
    <2>2. CASE \E t \in Threads : InboxServe(t)
      <3>1. PICK t \in Threads : InboxServe(t)
        BY <2>2
      <3>2. CASE Prepare(t)
        BY <1>1, <3>2, PrepareKeeps DEF Prepare
      <3>3. CASE Dispatch(t)
        BY <1>1, <3>3, DispatchKeeps
      <3>4. CASE Finish(t)
        BY <1>1, <3>4, FinishKeeps DEF Finish
      <3>5. CASE FinishFails(t)
        BY <1>1, <3>5, FinishFailsKeeps DEF FinishFails
      <3> QED BY <3>1, <3>2, <3>3, <3>4, <3>5 DEF InboxServe
    <2>3. CASE \E t \in Threads, e \in Envelopes, a \in Operators : Receive(t, e, a) \/ RetryEvent(t, e, a)
      BY <1>1, <2>3, StartKeeps DEF Receive, RetryEvent
    <2> QED BY <2>1, <2>2, <2>3 DEF InboxStep
  <1>3. Grows
    BY <1>2 DEF Grows
  <1>4. HandlersInv' /\ OutboxInv'
    BY <1>1, <1>3, HandlersAside, OutboxAside DEF callbackVars
  <1>5. ChatInv'
    BY <1>1, <1>2, ChatAside
  <1> QED BY <1>1, <1>2, <1>3, <1>4, <1>5, OneEffectStands DEF ClientsInv

LEMMA CallbackStepKeeps ==
  ASSUME ClientsInv, CallbackStep
  PROVE  ClientsInv'
  <1>1. /\ InboxInv /\ LedgerOk /\ HandlersInv /\ OutboxInv /\ ChatInv /\ OneEffect
        /\ UNCHANGED <<inboxVars, chatVars>>
    BY DEF ClientsInv, InboxInv, CallbackStep
  <1>2. /\ HandlersInv' /\ OutboxInv'
        /\ UNCHANGED ledger \/ \E k : Effect(k) /\ k.event = NoEvent /\ k.id[1] # "private"
    <2>1. CASE \E h \in Handlers : Handle(h)
      <3>1. PICK h \in Handlers : Handle(h)
        BY <2>1
      <3>2. CASE Remember(h)
        BY <1>1, <3>2, RememberKeeps, OutboxAside DEF Remember
      <3>3. CASE ExecuteDecision(h)
        BY <1>1, <3>3, DecisionKeeps, OutboxAside
      <3>4. CASE PostOrQuery(h)
        BY <1>1, <3>4, AnswerKeeps, OutboxAside DEF PostOrQuery
      <3>5. CASE QueueAnswer(h)
        BY <1>1, <3>5, AnswerKeeps, QueueKeeps DEF QueueAnswer
      <3>6. CASE CompleteCallback(h)
        BY <1>1, <3>6, CompleteKeeps, OutboxAside DEF CompleteCallback
      <3> QED BY <3>1, <3>2, <3>3, <3>4, <3>5, <3>6 DEF Handle
    <2>2. CASE \E h \in Handlers, b \in Callbacks : Deliver(h, b)
      BY <1>1, <2>2, DeliverKeeps, OutboxAside DEF Deliver
    <2>3. ASSUME UNCHANGED <<ledger, receipts, handling>>, OutboxInv'
          PROVE  /\ HandlersInv' /\ OutboxInv'
                 /\ UNCHANGED ledger \/ \E k : Effect(k) /\ k.event = NoEvent /\ k.id[1] # "private"
      BY <1>1, <2>3, HandlersAside DEF Grows
    <2>4. CASE \E s \in Senders : SendStep(s)
      <3>1. PICK s \in Senders : SendStep(s)
        BY <2>4
      <3>2. UNCHANGED <<ledger, receipts, handling>>
        BY <3>1 DEF SendStep, Check, Claim, ClaimRefused, Call, SaveResult, ReadAgain, Block
      <3> QED BY <1>1, <2>3, <3>1, <3>2, CheckKeeps, ClaimKeeps, CallKeeps, SettleKeeps DEF SendStep
    <2>5. CASE \E b \in Rows : ClaimAges(b)
      BY <1>1, <2>3, <2>5, SettleKeeps DEF ClaimAges
    <2>6. CASE \E p \in Previews : Preview(p)
      BY <1>1, <2>3, <2>6, QueueKeeps DEF Preview
    <2>7. CASE \E s \in Senders, b \in Rows : Picks(s, b)
      BY <1>1, <2>3, <2>7, PickKeeps DEF Picks
    <2> QED BY <2>1, <2>2, <2>4, <2>5, <2>6, <2>7 DEF CallbackStep
  <1>3. Grows
    BY <1>2 DEF Grows
  <1>4. InboxInv' /\ ChatInv'
    BY <1>1, <1>2, InboxAside, ChatAside
  <1> QED BY <1>1, <1>2, <1>3, <1>4, OneEffectStands DEF ClientsInv

LEMMA ChatStepKeeps ==
  ASSUME ClientsInv, ChatStep
  PROVE  ClientsInv'
  <1>1. /\ InboxInv /\ LedgerOk /\ HandlersInv /\ OutboxInv /\ ChatInv /\ OneEffect
        /\ UNCHANGED <<inboxVars, callbackVars>>
    BY DEF ClientsInv, InboxInv, ChatStep
  <1>2. ChatInv' /\ (UNCHANGED ledger \/ \E k : Effect(k) /\ k.event = NoEvent)
    BY <1>1, ChatKeeps DEF ChatStep
  <1>3. Grows
    BY <1>2 DEF Grows
  <1>4. InboxInv' /\ HandlersInv' /\ OutboxInv'
    BY <1>1, <1>2, <1>3, InboxAside, HandlersAside, OutboxAside DEF callbackVars
  <1> QED BY <1>1, <1>2, <1>3, <1>4, OneEffectStands DEF ClientsInv

LEMMA OthersStepKeeps ==
  ASSUME ClientsInv, OthersStep
  PROVE  ClientsInv'
  <1>1. /\ InboxInv /\ LedgerOk /\ HandlersInv /\ OutboxInv /\ ChatInv /\ OneEffect
        /\ UNCHANGED <<inboxVars, callbackVars, chatVars>>
    BY DEF ClientsInv, InboxInv, OthersStep
  <1>2. \E k : Effect(k) /\ k.event = NoEvent /\ k.id[1] # "private"
    <2>1. PICK c \in Cases, a \in OtherActions : OtherWork(c, a)
      BY DEF OthersStep
    <2>2. PICK k : k = OtherCommand(c, a) /\ Effect(k) /\ k.event = NoEvent
      BY <1>1, <2>1, OthersEffect
    <2>3. k.id[1] # "private"
      BY <2>2 DEF OtherCommand
    <2> QED BY <2>2, <2>3
  <1>3. Grows
    BY <1>2 DEF Grows
  <1>4. InboxInv' /\ HandlersInv' /\ OutboxInv' /\ ChatInv'
    BY <1>1, <1>2, <1>3, InboxAside, HandlersAside, OutboxAside, ChatAside DEF callbackVars
  <1> QED BY <1>1, <1>3, <1>4, OneEffectStands DEF ClientsInv

LEMMA CrashKeeps ==
  ASSUME ClientsInv, Crash
  PROVE  ClientsInv'
  <1>1. InboxInv /\ LedgerOk /\ HandlersInv /\ OutboxInv /\ ChatInv /\ OneEffect
    BY DEF ClientsInv, InboxInv
  <1>2. Grows
    BY DEF Crash, Grows
  <1> QED BY <1>1, <1>2, LostThreads, HandlersAside, OutboxAside, ChatAside, OneEffectStands
          DEF Crash, ClientsInv

LEMMA ClientsBegin == Init => ClientsInv
  <1> SUFFICES ASSUME Init PROVE ClientsInv
    OBVIOUS
  <1>1. InboxInv
    <2>1. LedgerOk
      BY DEF Init, EngineInit, LedgerOk
    <2>2. NotReceived \in EventRow
      BY DEF NotReceived, EventRow, Statuses
    <2>3. InboxTyped
      BY <2>2 DEF Init, InboxInit, InboxTyped, Work
    <2>4. \A e \in Envelopes : RowOk(e)
      BY EnvelopeAssumption DEF Init, InboxInit, NotReceived, RowOk
    <2>5. \A t \in Threads : ThreadOk(t)
      BY DEF Init, InboxInit, Idle, ThreadOk, BeginsRight, GoesOnRight, EndsRight
    <2>6. EffectsWerePrepared
      BY EnvelopeAssumption DEF Init, EngineInit, EffectsWerePrepared, Entries
    <2> QED BY <2>1, <2>3, <2>4, <2>5, <2>6 DEF InboxInv, InboxSound
  <1>2. HandlersInv
    BY DEF Init, CallbackInit, HandlersInv, ReceiptsTyped, HandlersSound, ReceiptOk, HandlerOk, Handling, AtRest
  <1>3. OutboxInv
    BY DEF Init, CallbackInit, OutboxInv, OutboxTyped, OutboxSound, DeliveryOk, SenderOk, Sending, AtRest
  <1>4. ChatInv
    BY ChatBegins DEF Init
  <1>5. OneEffect
    BY DEF Init, EngineInit, OneEffect
  <1> QED BY <1>1, <1>2, <1>3, <1>4, <1>5 DEF ClientsInv

LEMMA ClientsStutter ==
  ASSUME ClientsInv, UNCHANGED vars
  PROVE  ClientsInv'
  <1>1. InboxInv /\ LedgerOk /\ HandlersInv /\ OutboxInv /\ ChatInv /\ OneEffect /\ Grows
    BY DEF ClientsInv, InboxInv, vars, Grows
  <1> QED BY <1>1, InboxAside, HandlersAside, OutboxAside, ChatAside, OneEffectStands
          DEF vars, callbackVars, ClientsInv

LEMMA ClientsStep == ClientsInv /\ [Next]_vars => ClientsInv'
  BY InboxStepKeeps, CallbackStepKeeps, ChatStepKeeps, OthersStepKeeps, CrashKeeps, ClientsStutter
     DEF Next

-----------------------------------------------------------------------------
(* What it shows.                                                          *)

(***************************************************************************)
(* In every reachable state the rows, threads and external messages of all *)
(* three clients fit the ledger: the inductive invariant of this module.   *)
(***************************************************************************)
THEOREM ClientsStaySound == Spec => []ClientsInv
  <1> QED BY ClientsBegin, ClientsStep, PTL DEF Spec

(***************************************************************************)
(* Rows keep their types and threads only work on rows that are there, in  *)
(* the inbox and among the callbacks and their outbox.                     *)
(***************************************************************************)
THEOREM ClientsTyped == Spec => []ClientsTypeOK
  <1>1. ClientsInv => ClientsTypeOK
    <2> SUFFICES ASSUME ClientsInv PROVE InboxTypeOK /\ CallbackTypeOK
      BY DEF ClientsTypeOK
    <2>1. InboxTypeOK
      <3>1. ASSUME NEW e \in Envelopes
            PROVE  /\ inbox[e].status \in Statuses
                   /\ Len(inbox[e].attempts) <= MaxAttempts
                   /\ inbox[e].receipt # NoReceipt <=> inbox[e].status = "PROCESSED"
                   /\ inbox[e].status \in Statuses \ {"NONE", "RECEIVED"} =>
                        inbox[e].attempts # <<>> /\ Pending(e).status = inbox[e].status
        BY RowTyped DEF ClientsInv, InboxInv, InboxSound, RowOk
      <3>2. ASSUME NEW t \in Threads, work[t].phase \in {"dispatch", "finish"}
            PROVE  work[t].number \in 1 .. Len(inbox[work[t].event].attempts)
        BY <3>2 DEF ClientsInv, InboxInv, InboxSound, ThreadOk, GoesOnRight
      <3>3. registered \in BOOLEAN
        BY DEF ClientsInv, InboxInv, InboxTyped
      <3> QED BY <3>1, <3>2, <3>3 DEF InboxTypeOK
    <2>2. CallbackTypeOK
      <3>1. ASSUME NEW b \in Callbacks, receipts[b] # NoRow
            PROVE  receipts[b].command.id = CallbackCommandId(b) /\ receipts[b].response \in Nat
        BY <3>1 DEF ClientsInv, HandlersInv, ReceiptsTyped, HandlersSound, ReceiptOk, ReceiptRow
      <3>2. ASSUME NEW b \in Rows, outbox[b] # NoRow
            PROVE  /\ outbox[b].state \in {"PREVIEW", "PENDING", "SENDING", "SENT", "UNCERTAIN", "BLOCKED"}
                   /\ outbox[b].attempts \in 0 .. MaxSends
                   /\ outbox[b].state = "PENDING" => outbox[b].auto
        BY <3>2 DEF ClientsInv, OutboxInv, OutboxTyped, OutboxSound, DeliveryOk, OutboxRow
      <3>3. ASSUME NEW h \in Handlers, handling[h].phase \in {"execute", "answer", "complete"}
            PROVE  receipts[handling[h].callback] # NoRow
        BY <3>3 DEF ClientsInv, HandlersInv, HandlersSound, HandlerOk
      <3>4. ASSUME NEW s \in Senders, sending[s] # AtRest
            PROVE  outbox[sending[s].row] # NoRow
        <4>1. sending[s] \in Sending
          BY DEF ClientsInv, OutboxInv, OutboxTyped
        <4>2. sending[s].phase # "idle"
          BY <3>4, <4>1 DEF Sending, AtRest
        <4> QED BY <4>2 DEF ClientsInv, OutboxInv, OutboxSound, SenderOk
      <3> QED BY <3>1, <3>2, <3>3, <3>4 DEF CallbackTypeOK
    <2> QED BY <2>1, <2>2
  <1> QED BY <1>1, ClientsStaySound, PTL

(***************************************************************************)
(* The row of an upstream event and the ledger of its case tell the same   *)
(* story: what is PROCESSED is in the case at the revision of its receipt, *)
(* and what took effect was written down as a try before.                  *)
(***************************************************************************)
THEOREM InboxTellsTheTruth == Spec => []InboxIsTrue
  <1>1. ClientsInv => InboxIsTrue
    <2> SUFFICES ASSUME ClientsInv PROVE ProcessedIsRecorded /\ EffectsWerePrepared
      BY DEF InboxIsTrue
    <2>1. ProcessedIsRecorded
      BY DEF ClientsInv, InboxInv, InboxSound, RowOk, Recorded, ProcessedIsRecorded
    <2> QED BY <2>1 DEF ClientsInv, InboxInv, InboxSound
  <1> QED BY <1>1, ClientsStaySound, PTL

(***************************************************************************)
(* A decision of a merchant that Feishu was given an answer to is in the   *)
(* case at the revision of the answer, as its first delivery froze it,     *)
(* however often it was delivered again.                                   *)
(***************************************************************************)
THEOREM AnswersStand == Spec => []AnsweredIsDecided
  <1>1. ClientsInv => AnsweredIsDecided
    BY DEF ClientsInv, HandlersInv, HandlersSound, ReceiptOk, DecidedAt, AnsweredIsDecided
  <1> QED BY <1>1, ClientsStaySound, PTL

(***************************************************************************)
(* Each row of the outbox shows one message in its chat at most, the       *)
(* worker by itself attempts it once at most, and SENT is said only of a   *)
(* message that is there.                                                  *)
(***************************************************************************)
THEOREM DeliveredOnce == Spec => []OneDelivery
  <1>1. ClientsInv => OneDelivery
    <2> SUFFICES ASSUME ClientsInv, NEW b \in Rows
                 PROVE  /\ Cardinality({m \in chat : m.row = b}) <= 1
                        /\ unattended[b] <= 1
                        /\ outbox[b] # NoRow /\ outbox[b].state = "SENT" => \E m \in chat : m.row = b
      BY DEF OneDelivery
    <2>1. /\ unattended[b] <= 1
          /\ outbox[b] # NoRow /\ outbox[b].state = "SENT" => \E m \in chat : m.row = b
      BY DEF ClientsInv, OutboxInv, OutboxSound, DeliveryOk, Arrived
    <2>2. \A m \in chat : m.row = b => m = [row |-> b, key |-> b.ref]
      BY DEF ClientsInv, OutboxInv, OutboxSound
    <2>3. PICK one : one = [row |-> b, key |-> b.ref]
      OBVIOUS
    <2>4. {m \in chat : m.row = b} = {} \/ {m \in chat : m.row = b} = {one}
      BY <2>2, <2>3
    <2>5. Cardinality({}) = 0 /\ Cardinality({one}) = 1
      BY FS_EmptySet, FS_Singleton
    <2>6. Cardinality({m \in chat : m.row = b}) <= 1
      BY <2>4, <2>5
    <2> QED BY <2>1, <2>6
  <1> QED BY <1>1, ClientsStaySound, PTL

(***************************************************************************)
(* No command and no upstream event takes effect twice, whichever of the   *)
(* clients brings it, tries it again, resumes it or delivers it again.     *)
(***************************************************************************)
THEOREM EffectsAreOne == Spec => []OneEffect
  <1>1. ClientsInv => OneEffect
    BY DEF ClientsInv
  <1> QED BY <1>1, ClientsStaySound, PTL

(***************************************************************************)
(* What the bot of the private chats decides for a merchant was confirmed  *)
(* on a card made for that decision, after the first card had been seen,   *)
(* on the revision that one showed.                                        *)
(***************************************************************************)
THEOREM DecidedWhatWasShown == Spec => []ShownBeforeDecided
  <1>1. ClientsInv => ShownBeforeDecided
    BY ChatSays DEF ClientsInv
  <1> QED BY <1>1, ClientsStaySound, PTL

(* The buttons and messages of a link that was cut are dead for good.      *)
THEOREM CutLinksAreInert == Spec => []InactiveIsInert
  <1>1. ClientsInv => InactiveIsInert
    BY ChatSays DEF ClientsInv
  <1> QED BY <1>1, ClientsStaySound, PTL

(***************************************************************************)
(* A confirmation that reads as done is in the ledger of its case, though  *)
(* the bot's database and the engine's commit one after the other.         *)
(***************************************************************************)
THEOREM DoneMeansDecided == Spec => []DoneIsDecided
  <1>1. ClientsInv => DoneIsDecided
    BY ChatSays DEF ClientsInv
  <1> QED BY <1>1, ClientsStaySound, PTL

-----------------------------------------------------------------------------
(* The history of an event.                                                *)

(* What TriesStand says of the row of one event.                           *)
HistoryStands(e) ==
  /\ Len(inbox[e].attempts) <= Len(inbox'[e].attempts)
  /\ \A n \in DOMAIN inbox[e].attempts :
       /\ inbox'[e].attempts[n].command = inbox[e].attempts[n].command
       /\ inbox'[e].attempts[n].actor = inbox[e].attempts[n].actor
       /\ n < Len(inbox[e].attempts) => inbox'[e].attempts[n] = inbox[e].attempts[n]
  /\ inbox[e].status \in {"PROCESSED", "RECORDED"} => inbox'[e] = inbox[e]

LEMMA RowStands ==
  ASSUME InboxInv, NEW e \in Envelopes, inbox'[e] = inbox[e]
  PROVE  HistoryStands(e)
  <1>1. Len(inbox[e].attempts) \in Nat
    BY RowTyped DEF InboxInv
  <1> QED BY <1>1 DEF HistoryStands

LEMMA StartStands ==
  ASSUME InboxInv, NEW f \in Envelopes, inbox' = Remembered(f), NEW e \in Envelopes
  PROVE  HistoryStands(e)
  <1>1. inbox \in [Envelopes -> EventRow] /\ inbox[e] \in EventRow /\ Len(inbox[e].attempts) \in Nat
    BY RowTyped DEF InboxInv, InboxTyped
  <1>2. CASE e = f /\ inbox[e].status = "NONE"
    <2>1. inbox'[e] = [inbox[e] EXCEPT !.status = "RECEIVED"]
      BY <1>1, <1>2 DEF Remembered
    <2>2. inbox'[e].attempts = inbox[e].attempts
      BY <1>1, <2>1 DEF EventRow
    <2> QED BY <1>1, <1>2, <2>2 DEF HistoryStands
  <1>3. CASE e # f \/ inbox[e].status # "NONE"
    <2>1. inbox'[e] = inbox[e]
      BY <1>1, <1>3 DEF Remembered, EventRow
    <2> QED BY <2>1, RowStands
  <1> QED BY <1>2, <1>3

LEMMA PrepareStands ==
  ASSUME InboxInv, NEW t \in Threads, Prepare(t), NEW e \in Envelopes
  PROVE  HistoryStands(e)
  <1>1. PICK w \in Work : w = work[t]
    BY DEF InboxInv, InboxTyped
  <1>2. /\ w.phase = "prepare" /\ w.event \in Envelopes /\ w.try \in Attempt /\ w.seen \in Nat
        /\ BeginsRight(w)
        /\ inbox \in [Envelopes -> EventRow]
    BY <1>1, WorkTyped DEF Prepare, InboxInv, InboxSound, ThreadOk, InboxTyped
  <1>3. CASE e = w.event /\ FirstTry(e, w.seen)
    <2> DEFINE old == inbox[e].attempts
    <2>1. old \in Seq(Attempt) /\ inbox[e] \in EventRow
      BY <1>2, RowTyped DEF InboxInv
    <2>2. inbox' = [inbox EXCEPT ![e].attempts = Append(@, w.try), ![e].status = w.try.status]
      BY <1>1, <1>3 DEF Prepare, Keeping
    <2>3. inbox'[e].attempts = Append(old, w.try)
      BY <1>2, <2>1, <2>2 DEF EventRow
    <2>4. inbox[e].status \notin {"PROCESSED", "RECORDED"}
      BY <1>2, <1>3 DEF FirstTry, BeginsRight
    <2> HIDE DEF old
    <2>5. /\ Append(old, w.try) \in Seq(Attempt) /\ Len(old) \in Nat
          /\ Len(Append(old, w.try)) = Len(old) + 1
          /\ \A n \in DOMAIN old : Append(old, w.try)[n] = old[n]
      BY <1>2, <2>1, AppendProperties, LenProperties
    <2> QED BY <2>3, <2>4, <2>5 DEF HistoryStands, old
  <1>4. CASE ~(e = w.event /\ FirstTry(e, w.seen))
    <2>1. inbox'[e] = inbox[e]
      BY <1>1, <1>2, <1>4 DEF Prepare
    <2> QED BY <2>1, RowStands
  <1> QED BY <1>3, <1>4

LEMMA FinishStands ==
  ASSUME InboxInv, NEW t \in Threads, Finish(t), NEW e \in Envelopes
  PROVE  HistoryStands(e)
  <1>1. PICK w \in Work : w = work[t]
    BY DEF InboxInv, InboxTyped
  <1>2. /\ w.phase = "finish" /\ w.event \in Envelopes
        /\ w.status \in {"PROCESSED", "QUARANTINED"}
        /\ GoesOnRight(w)
        /\ inbox \in [Envelopes -> EventRow]
    BY <1>1, WorkTyped DEF Finish, InboxInv, InboxSound, ThreadOk, InboxTyped
  <1>3. CASE e = w.event /\ OpenTry(w)
    <2>1. PICK old \in Seq(Attempt) : old = inbox[e].attempts
      BY RowTyped DEF InboxInv
    <2>2. /\ w.number \in 1 .. Len(old) /\ w.number = Len(old) /\ inbox[e] \in EventRow
          /\ inbox[e].status \notin {"PROCESSED", "RECORDED"}
          /\ Len(old) \in Nat /\ DOMAIN old = 1 .. Len(old)
      BY <1>2, <1>3, <2>1, LenProperties DEF OpenTry, GoesOnRight
    <2>3. old[w.number] \in Attempt
      BY <2>2, ElementOfSeq
    <2>4. PICK last \in Attempt : /\ last = [old[w.number] EXCEPT !.status = w.status]
                                  /\ last.command = old[w.number].command
                                  /\ last.actor = old[w.number].actor
      <3>1. [old[w.number] EXCEPT !.status = w.status] \in Attempt
        BY <1>2, <2>3 DEF Attempt
      <3> QED BY <2>3, <3>1 DEF Attempt
    <2>5. inbox'[e].attempts = [old EXCEPT ![w.number] = last]
      <3>1. inbox' = [inbox EXCEPT ![w.event].status = w.status, ![w.event].receipt = w.receipt,
                                   ![w.event].attempts[w.number].status = w.status]
        BY <1>1, <1>3 DEF Finish
      <3> QED BY <1>2, <1>3, <2>1, <2>2, <2>4, <3>1 DEF EventRow
    <2>6. PICK i \in 1 .. Len(old) : i = w.number
      BY <2>2
    <2>7. PICK new : new = [old EXCEPT ![i] = last]
      OBVIOUS
    <2>8. /\ Len(new) = Len(old) /\ new[i] = last
          /\ \A n \in 1 .. Len(old) : n # i => new[n] = old[n]
      BY <2>2, <2>7, ExceptSeq
    <2>9. inbox'[e].attempts = new
      BY <2>5, <2>6, <2>7
    <2>10. ASSUME NEW n \in DOMAIN old
           PROVE  /\ new[n].command = old[n].command /\ new[n].actor = old[n].actor
                  /\ n < Len(old) => new[n] = old[n]
      <3>1. CASE n = i
        <4>1. new[n] = last /\ old[n] = old[w.number]
          BY <2>6, <2>8, <3>1
        <4>2. ~(n < Len(old))
          BY <2>2, <2>6, <3>1
        <4> QED BY <2>4, <4>1, <4>2
      <3>2. CASE n # i
        BY <2>2, <2>8, <3>2
      <3> QED BY <3>1, <3>2
    <2> QED BY <2>1, <2>2, <2>8, <2>9, <2>10 DEF HistoryStands
  <1>4. CASE ~(e = w.event /\ OpenTry(w))
    <2>1. inbox'[e] = inbox[e]
      BY <1>1, <1>2, <1>4 DEF Finish
    <2> QED BY <2>1, RowStands
  <1> QED BY <1>3, <1>4

LEMMA HistoryStep ==
  ASSUME ClientsInv, [Next]_vars, NEW e \in Envelopes
  PROVE  HistoryStands(e)
  <1>1. InboxInv
    BY DEF ClientsInv
  <1>2. CASE UNCHANGED inbox
    BY <1>1, <1>2, RowStands
  <1>3. CASE \E t \in Threads, f \in Envelopes, a \in Operators : Receive(t, f, a)
    BY <1>1, <1>3, StartStands DEF Receive
  <1>4. CASE \E t \in Threads : Prepare(t)
    BY <1>1, <1>4, PrepareStands
  <1>5. CASE \E t \in Threads : Finish(t)
    BY <1>1, <1>5, FinishStands
  <1>6. \/ UNCHANGED inbox
        \/ \E t \in Threads, f \in Envelopes, a \in Operators : Receive(t, f, a)
        \/ \E t \in Threads : Prepare(t)
        \/ \E t \in Threads : Finish(t)
    <2>1. CASE UNCHANGED vars
      BY <2>1 DEF vars, inboxVars
    <2>2. CASE InboxStep
      BY <2>2 DEF InboxStep, Register, InboxServe, Dispatch, FinishFails, RetryEvent
    <2>3. CASE CallbackStep \/ ChatStep \/ OthersStep
      BY <2>3 DEF CallbackStep, ChatStep, OthersStep, inboxVars
    <2>4. CASE Crash
      BY <2>4 DEF Crash
    <2> QED BY <2>1, <2>2, <2>3, <2>4 DEF Next
  <1> QED BY <1>2, <1>3, <1>4, <1>5, <1>6

(***************************************************************************)
(* The tries of an event are only added to: none loses its command or its  *)
(* operator, and PROCESSED and RECORDED are final, whatever late results   *)
(* other threads still save.                                               *)
(***************************************************************************)
THEOREM HistoryOnlyGrows == Spec => TriesStand
  <1>1. ClientsInv /\ [Next]_vars => \A e \in Envelopes : HistoryStands(e)
    BY HistoryStep
  <1>2. (\A e \in Envelopes : HistoryStands(e)) =>
          [\A e \in Envelopes :
             LET old == inbox[e].attempts
                 new == inbox'[e].attempts
             IN  /\ Len(old) <= Len(new)
                 /\ \A n \in DOMAIN old :
                      /\ new[n].command = old[n].command /\ new[n].actor = old[n].actor
                      /\ n < Len(old) => new[n] = old[n]
                 /\ inbox[e].status \in {"PROCESSED", "RECORDED"} => inbox'[e] = inbox[e]]_inbox
    BY DEF HistoryStands
  <1> QED BY <1>1, <1>2, ClientsStaySound, PTL DEF Spec, TriesStand
=============================================================================
