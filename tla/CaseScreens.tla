---------------------------- MODULE CaseScreens -----------------------------
(***************************************************************************)
(* The pages of the website (web/v2/app.js, web/v2/collaboration.js). A    *)
(* page asks the feed, reads again what changed and only then moves its    *)
(* cursor; its user, or the thread shown on it, may have it read again at  *)
(* any time, and of two readings only the newer is shown. A case page puts *)
(* its screen together from three requests served at three moments.        *)
(***************************************************************************)
EXTENDS CaseFeed

CONSTANTS Page,          \* the page each user has open: List or a case
          Mixes          \* bound: which pages are open, what is done meanwhile,
                         \* how many rows there may be in the end and whose
                         \* account is not there at first

ASSUME PageAssumption ==
  /\ \A u \in DOMAIN Page : Page[u] \in Cases \union {List}
  /\ \A m \in Mixes : m.pages \subseteq DOMAIN Page

VARIABLES sync,          \* the loop that follows the feed
          reading,       \* readings under way: the loop's and the user's
          newest,        \* whose reading began last
          screen,        \* what the page shows
          failed,        \* a reading of the user's own failed or was overtaken,
                         \* and none has come through after it
          thread,        \* the messages of the case page
          receipts,      \* v21_collaboration_reads: how far a user has read
          mix            \* the one of the Mixes a behaviour follows

screenVars == <<sync, reading, newest, screen, failed, thread, receipts>>
vars == <<feedVars, screenVars, mix>>

Readers == DOMAIN Page
Whose == {"sync", "user"}
Parts(u) == IF Page[u] = List THEN {"list"} ELSE {"case", "plan", "agent"}

Blank == [cases |-> <<>>, plan |-> None, agent |-> None]
Loop(pc, cursor) == [pc |-> pc, cursor |-> cursor, next |-> None]
Resting == [under |-> FALSE, got |-> <<>>]
NoThread == [pc |-> "IDLE", cursor |-> 0, events |-> {}, shown |-> {}]

ThreadUntouched == UNCHANGED <<thread, receipts>>

-----------------------------------------------------------------------------
(* What the requests answer.                                               *)

(* GET /cases: the cases in the reader's scope, counted and listed in one  *)
(* transaction. GET /cases/{id} and its plan: the case at its revision.    *)
QueueList(u) == [c \in Scope(u, List) |-> Revision(c)]

(* GET /cases/{id}/agent: the observations, the shared conversation and    *)
(* the older private one of the reader's side.                             *)
ConversationAudience(u) ==
  {"SHARED", IF Role[u] = "MERCHANT" THEN "MERCHANT" ELSE "OPERATIONS"}

(* Who may read a similar case is asked again whenever a run is read.      *)
ReaderProjection(u, cases) == {d \in cases : CanAccess(u, d)}

RunForReader(u, c) ==
  LET latest == Highest(RowsOf("agent", c))
  IN  IF latest = 0 THEN {} ELSE ReaderProjection(u, tables["agent"][latest].similar)

Activity(u, c) ==
  [revision |-> Revision(c),
   runs  |-> Cardinality(RowsOf("agent", c)),
   similar |-> RunForReader(u, c),
   talks |-> Cardinality({i \in RowsOf("conversation", c) :
                            tables["conversation"][i].scope \in ConversationAudience(u)})]

Answer(u, part) ==
  CASE part = "list" -> QueueList(u)
    [] part = "agent" -> Activity(u, Page[u])
    [] OTHER -> Revision(Page[u])

Got(code, value) == [code |-> code, value |-> value]

Request(u, part) ==
  IF ~Resolves(u) THEN Got("SIGNED_OUT", None)
  ELSE IF FeedRefuses(u, Page[u]) THEN Got("NOT_FOUND", None)
  ELSE Got("OK", Answer(u, part))

Refused == {"SIGNED_OUT", "NOT_FOUND"}

-----------------------------------------------------------------------------
(* A reading: each of its parts is served, or fails, at a moment of its    *)
(* own.                                                                    *)
Begins(u, who) ==
  /\ reading' = [reading EXCEPT ![u][who] = [under |-> TRUE, got |-> <<>>]]
  /\ newest' = [newest EXCEPT ![u] = who]

Serve(u, who, part) ==
  /\ reading[u][who].under /\ part \notin DOMAIN reading[u][who].got
  /\ \E served \in {Request(u, part), Got("TROUBLE", None)} :
       reading' = [reading EXCEPT ![u][who].got =
         [p \in DOMAIN @ \union {part} |-> IF p = part THEN served ELSE @[p]]]
  /\ ThreadUntouched
  /\ UNCHANGED <<feedVars, sync, newest, screen, failed>>

Superseded(u, who) == newest[u] # who

(* reconcileUpdates with every part in: the screen it leaves, and whether  *)
(* it ends well ("DONE"), is to be tried again or ends the loop.           *)
Left(result, shown) == [result |-> result, screen |-> shown]

Failure(code) == IF code \in Refused THEN "STOP" ELSE "RETRY"

ListOutcome(u, who, got) ==
  IF got["list"].code # "OK" THEN Left(Failure(got["list"].code), screen[u])
  ELSE Left("DONE", IF Superseded(u, who) THEN screen[u]
                    ELSE [Blank EXCEPT !.cases = got["list"].value])

CaseScreen(c, got) ==
  [cases |-> [d \in {c} |-> got["case"].value],
   plan  |-> IF got["plan"].code = "OK" /\ got["plan"].value = got["case"].value
             THEN got["plan"].value ELSE None,
   agent |-> got["agent"].value]

\* slip: the parts of a screen may be of different moments
TornScreen(u, got) == "DONE"

(* The three requests must have seen the same revision.                    *)
Whole(u, got) ==
  IF got["agent"].code # "OK" THEN Failure(got["agent"].code)
  ELSE IF got["plan"].code # "OK" THEN Failure(got["plan"].code)
  ELSE IF got["plan"].value = got["case"].value
          /\ got["agent"].value.revision = got["case"].value
  THEN "DONE" ELSE "RETRY"

CaseOutcome(u, who, got) ==
  LET c == Page[u] IN
  IF Superseded(u, who) THEN Left("DONE", screen[u])
  ELSE IF got["case"].code # "OK"
  THEN Left(Failure(got["case"].code), IF got["case"].code = "NOT_FOUND" THEN Blank ELSE screen[u])
  ELSE IF c \in DOMAIN screen[u].cases /\ got["case"].value < screen[u].cases[c]
  THEN Left("DONE", screen[u])
  ELSE Left(Whole(u, got), CaseScreen(c, got))

Outcome(u, who) ==
  IF Page[u] = List THEN ListOutcome(u, who, reading[u][who].got)
  ELSE CaseOutcome(u, who, reading[u][who].got)

(* Advance only after applying the change.                                 *)
Follow(u, result) ==
  [sync EXCEPT ![u] =
     CASE result = "DONE"  -> Loop("ASK", @.next)
       [] result = "RETRY" -> Loop("ASK", @.cursor)
       [] result = "STOP"  -> Loop("STOPPED", @.cursor)]

Settle(u, who) ==
  /\ reading[u][who].under /\ DOMAIN reading[u][who].got = Parts(u)
  /\ LET out == Outcome(u, who)
     IN  /\ screen' = [screen EXCEPT ![u] = out.screen]
         /\ sync' = IF who = "sync" THEN Follow(u, out.result) ELSE sync
         /\ failed' = IF Superseded(u, who) THEN failed
                      ELSE [failed EXCEPT ![u] = out.result # "DONE" /\ (@ \/ who = "user")]
  /\ reading' = [reading EXCEPT ![u][who] = Resting]
  /\ ThreadUntouched
  /\ UNCHANGED <<feedVars, newest>>

-----------------------------------------------------------------------------
(* The loop.                                                               *)
Ask(u) ==
  /\ sync[u].pc = "ASK"
  /\ sync' = [sync EXCEPT ![u].pc = IF Resolves(u) THEN "WAIT" ELSE "STOPPED"]
  /\ ThreadUntouched
  /\ UNCHANGED <<feedVars, reading, newest, screen, failed>>

(* A reading of the user's own is the one to be shown.                     *)
Asked(u) == newest[u] = "user" /\ reading[u]["user"].under

(* The service answers when it has news, when the time is over, or fails.  *)
Told(u) ==
  LET baseline == Baseline(u, Page[u], sync[u].cursor)
      cursor   == Cursor(u, Page[u])
  IN  /\ sync[u].pc = "WAIT"
      /\ IF FeedRefuses(u, Page[u])
         THEN sync' = [sync EXCEPT ![u] = Loop("STOPPED", @.cursor)]
              /\ UNCHANGED <<reading, newest, failed>>
         ELSE IF HasNews(u, Page[u], baseline)
         THEN /\ ~reading[u]["sync"].under
              /\ sync' = [sync EXCEPT ![u].pc = "APPLY", ![u].next = cursor]
              /\ Begins(u, "sync")
              /\ failed' = [failed EXCEPT ![u] = @ \/ Asked(u)]
         ELSE sync' = [sync EXCEPT ![u] = Loop("ASK", cursor)]
              /\ UNCHANGED <<reading, newest, failed>>
      /\ ThreadUntouched
      /\ UNCHANGED <<feedVars, screen>>

PollFails(u) ==
  /\ sync[u].pc = "WAIT"
  /\ sync' = [sync EXCEPT ![u].pc = "ASK"]
  /\ ThreadUntouched
  /\ UNCHANGED <<feedVars, reading, newest, screen, failed>>

(* The user, or a thread that saw a later revision, has the page read.     *)
Rereads(u) ==
  /\ screen[u] # Blank
  /\ Begins(u, "user")
  /\ ThreadUntouched
  /\ UNCHANGED <<feedVars, sync, screen, failed>>

(* A page is opened, perhaps after the old one was left.                   *)
Reload(u) ==
  /\ Resolves(u) /\ sync[u].pc = "STOPPED"
  /\ sync' = [sync EXCEPT ![u] = Loop("ASK", None)]
  /\ reading' = [reading EXCEPT ![u] = [w \in Whose |-> Resting]]
  /\ screen' = [screen EXCEPT ![u] = Blank]
  /\ failed' = [failed EXCEPT ![u] = FALSE]
  /\ thread' = [thread EXCEPT ![u] = NoThread]
  /\ UNCHANGED <<feedVars, newest, receipts>>

-----------------------------------------------------------------------------
(* The thread of a case page asks by itself. The service reads the new     *)
(* messages and the end of the thread in two transactions.                 *)
Shared(c) == {i \in RowsOf("collaboration", c) : tables["collaboration"][i].scope = "SHARED"}
Messages(c) == {i \in Shared(c) : ~tables["collaboration"][i].read}

Room == Written < mix.rows

ThreadKept == UNCHANGED <<sync, reading, newest, screen, failed>>

ThreadEvents(u) ==
  /\ Page[u] # List /\ screen[u] # Blank /\ thread[u].pc = "IDLE"
  /\ Resolves(u) /\ ~FeedRefuses(u, Page[u])
  /\ thread' = [thread EXCEPT ![u].pc = "END",
                              ![u].events = {i \in Shared(Page[u]) : i > thread[u].cursor}]
  /\ ThreadKept /\ UNCHANGED <<feedVars, receipts>>

ThreadEnd(u) ==
  /\ thread[u].pc = "END"
  /\ thread' = [thread EXCEPT ![u] =
       [pc |-> "IDLE", events |-> {},
        cursor |-> Highest(IF @.events = {} THEN Shared(Page[u]) ELSE @.events),
        shown |-> @.shown \union (@.events \intersect Messages(Page[u]))]]
  /\ ThreadKept /\ UNCHANGED <<feedVars, receipts>>

(* The page reports how far it got; a report is no message to be read.     *)
MarkRead(u) ==
  LET upTo == Highest({i \in Messages(Page[u]) : i <= thread[u].cursor})
  IN  /\ Page[u] # List /\ thread[u].pc = "IDLE"
      /\ Resolves(u) /\ ~FeedRefuses(u, Page[u])
      /\ upTo > receipts[u] /\ Room
      /\ receipts' = [receipts EXCEPT ![u] = upTo]
      /\ Insert("collaboration", [Row(Page[u], "SHARED", Revision(Page[u])) EXCEPT !.read = TRUE])
      /\ ThreadKept /\ UNCHANGED <<members, accountVars, thread>>

-----------------------------------------------------------------------------
Write(kind, u, c) ==
  \/ kind = "COMMAND" /\ (Intake(c, u) \/ Command(c, u))
  \/ kind = "ASSIGN" /\ \E to \in Users : AssignCase(c, u, to)
  \/ kind = "AGENT" /\ \/ SaveRun(c)
                       \/ \E scope \in {"SHARED", "MERCHANT", "OPERATIONS"} :
                            SaveConversation(c, scope)
  \/ kind = "MESSAGE" /\ \E scope \in {"SHARED", "OP_INTERNAL"} : PostMessage(c, u, scope)

Account(u) == CreateUser(u) \/ SetDisabled(u) \/ Login(u) \/ SessionEnds(u)

Others ==
  /\ \/ Room /\ \E kind \in mix.steps, u \in Users, c \in Cases : Write(kind, u, c)
     \/ "ACCOUNT" \in mix.steps /\ \E u \in mix.pages : Account(u)
  /\ UNCHANGED screenVars

PageStep(u) ==
  \/ Ask(u) \/ Told(u) \/ PollFails(u) \/ Reload(u)
  \/ "REREAD" \in mix.steps /\ Rereads(u)
  \/ \E who \in Whose : Settle(u, who) \/ \E part \in Parts(u) : Serve(u, who, part)

ThreadStep(u) ==
  "MESSAGE" \in mix.steps /\ (ThreadEvents(u) \/ ThreadEnd(u) \/ MarkRead(u))

Init ==
  /\ mix \in Mixes
  /\ FeedInit(Users \ mix.late)
  /\ sync = [u \in Readers |-> Loop("ASK", None)]
  /\ reading = [u \in Readers |-> [w \in Whose |-> Resting]]
  /\ newest = [u \in Readers |-> "sync"]
  /\ screen = [u \in Readers |-> Blank]
  /\ failed = [u \in Readers |-> FALSE]
  /\ thread = [u \in Readers |-> NoThread]
  /\ receipts = [u \in Readers |-> 0]

Next ==
  /\ \/ Others
     \/ \E u \in mix.pages : PageStep(u) \/ ThreadStep(u)
  /\ UNCHANGED mix

Spec == Init /\ [][Next]_vars

-----------------------------------------------------------------------------
(* What a page shows is what its reader would find by reading it now. The  *)
(* page of a case is told of that case alone: an operator brought into one *)
(* similar to it sees that one with the next run.                          *)
ShowsAgent(u, c, shown) ==
  \E similar \in SUBSET Cases :
    /\ shown = [Activity(u, c) EXCEPT !.similar = similar]
    /\ Role[u] # "OPERATOR" => similar = Activity(u, c).similar

Current(u) ==
  LET c == Page[u] IN
  IF c = List THEN screen[u].cases = QueueList(u)
  ELSE /\ screen[u].cases = [d \in {c} |-> Revision(c)]
       /\ screen[u].plan = Revision(c)
       /\ ShowsAgent(u, c, screen[u].agent)

Quiet(u) ==
  /\ Resolves(u) /\ sync[u].pc \in {"ASK", "WAIT"} /\ ~reading[u]["user"].under
  /\ ~FeedRefuses(u, Page[u]) /\ ~HasNews(u, Page[u], sync[u].cursor)

(* The feed never goes quiet over something a page missed: whenever it has *)
(* nothing more to tell a page, the page shows every case, observation and *)
(* conversation its reader may see as they are, unless a reading its user  *)
(* asked for took the place of the feed's and then failed, or gave way to  *)
(* a later one of the feed's that failed.                                  *)
NothingMissed == \A u \in Readers : Quiet(u) => Current(u) \/ failed[u]

(* The cursor of a thread is the position that was returned: no message up *)
(* to it is missing on the page.                                           *)
CursorIsReturned ==
  \A u \in Readers : Page[u] # List =>
    {i \in Messages(Page[u]) : i <= thread[u].cursor} \subseteq thread[u].shown
=============================================================================
