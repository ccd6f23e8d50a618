--------------------------- MODULE AgentQuestions ---------------------------
(***************************************************************************)
(* A message that asks the agent (post_message with ask_agent, ask_agent): *)
(* the thread of the request posts it, and if it is new reads the case,    *)
(* has the agent answer it, publishes the answer under it and hands the    *)
(* case over if its rule is not verified. It writes to the journal the     *)
(* pool writes to, and neither waits for the other.                        *)
(***************************************************************************)
EXTENDS AgentEvents

VARIABLE asking        \* where the thread of each request that asks is

QuestionInit == asking = [q \in Requests |-> Idle]

Going(q, phase) == asking' = [asking EXCEPT ![q].phase = phase]

Over(q) == asking' = [asking EXCEPT ![q] = Idle]

(***************************************************************************)
(* The message tells a revision that was read before it was posted. Posted *)
(* again, it is not asked again: that request changes nothing.             *)
(***************************************************************************)
Question(q) ==
  /\ q.action = "ASK" /\ asking[q] = Idle
  /\ \E r \in 1 .. Revision(q.case) : Effect(q.id, q.case, Message(q.id, r))
  /\ asking' = [asking EXCEPT ![q] = [phase |-> "read"]]
  /\ UNCHANGED <<ledger, cursors, stored, objects, uploads, scan, now, agentVars>>

LookUp(q) ==
  /\ asking[q].phase = "read"
  /\ asking' = [asking EXCEPT ![q] =
       [phase |-> "ask", revision |-> Revision(q.case), talk |-> 0]]
  /\ UNCHANGED <<ledger, deskVars, agentVars>>

(* converse, with the revision read: a case that moved is CASE_CHANGED,    *)
(* and only the question is kept.                                          *)
Consult(q) ==
  LET r == asking[q].revision
  IN  /\ asking[q].phase = "ask"
      /\ IF Revision(q.case) = r
         THEN Going(q, "model") /\ runs' = [runs EXCEPT ![q.case] = @ \cup {r}]
         ELSE Over(q) /\ UNCHANGED runs
      /\ UNCHANGED <<ledger, deskVars, observers, memory, talks, restarted>>

Consulted(q) ==
  /\ asking[q].phase = "model"
  /\ IF Revision(q.case) = asking[q].revision THEN Going(q, "save") ELSE Over(q)
  /\ UNCHANGED <<ledger, deskVars, agentVars>>

SaveReply(q) ==
  /\ asking[q].phase = "save"
  /\ talks' = Append(talks, [case |-> q.case, revision |-> asking[q].revision, by |-> "question"])
  /\ asking' = [asking EXCEPT ![q].phase = "publish", ![q].talk = Len(talks')]
  /\ UNCHANGED <<ledger, deskVars, observers, runs, memory, restarted>>

(* The same key as AnswerId(n), of a conversation somebody asked for.      *)
ReplyId(n) == <<"reply", n>>

Reply(q) ==
  LET v == asking[q]
  IN  [kind |-> "MESSAGE", source |-> ReplyId(v.talk), revision |-> v.revision, parent |-> q.id]

PublishReply(q) ==
  /\ asking[q].phase = "publish" /\ Going(q, "handoff")
  /\ Write(ReplyId(asking[q].talk), q.case, Reply(q))
  /\ UNCHANGED <<ledger, cursors, stored, objects, uploads, scan, now, agentVars>>

(* A case whose rule is not verified is handed over, if the one asking may *)
(* do that; otherwise the request ends here.                               *)
HandToStaff(q) ==
  /\ asking[q].phase = "handoff" /\ Over(q)
  /\ \/ CreateHandoff(<<"agent-handoff", asking[q].talk>>, q.case, "unverified")
     \/ UNCHANGED <<receipts, journal>>
  /\ UNCHANGED <<ledger, cursors, stored, objects, uploads, scan, now, agentVars>>

QuestionStep(q) ==
  LookUp(q) \/ Consult(q) \/ Consulted(q) \/ SaveReply(q) \/ PublishReply(q) \/ HandToStaff(q)
=============================================================================
