------------------------------ MODULE CaseFeed ------------------------------
(***************************************************************************)
(* Who may see what, and the feed that tells a page what changed. Every    *)
(* change of a case is a row appended to one of four tables; a cursor is   *)
(* the highest row of each table its reader may see                        *)
(* (persistence/dispute_updates.py, application/dispute_access.py,         *)
(* persistence/dispute_identity.py).                                       *)
(***************************************************************************)
EXTENDS Naturals, Sequences, FiniteSets, SequencesExt

CONSTANTS Cases, Users,
          Role,          \* of each user
          Grants,        \* the merchants a user may act for
          Merchant,      \* of each case
          Legacy,        \* the cases of before participants were kept
          Migrated,      \* accounts whose role an upgrade has renamed
          None

(* A list of people is there or it is not, and no case has the list's page. *)
ASSUME FeedAssumption ==
  /\ Legacy \subseteq Cases /\ IsFiniteSet(Legacy) /\ "LIST" \notin Cases
  /\ \A S \in SUBSET Users : S # None

VARIABLES tables,        \* the rows, by kind, in the order of their rowid
          members,       \* participants of each case, None before it is taken in;
                         \* a case with none kept excludes nobody: all users
          accounts,      \* the users there is an account of
          disabled,      \* accounts that are disabled
          session        \* users whose session is live

accountVars == <<accounts, disabled, session>>
feedVars == <<tables, members, accountVars>>

Kinds == {"case", "agent", "conversation", "collaboration"}
Staff == {"OPERATOR", "SUPERVISOR"}
List == "LIST"           \* the page that shows every case

Row(c, scope, revision) ==
  [case |-> c, scope |-> scope, revision |-> revision, read |-> FALSE, similar |-> {}]

RowsOf(kind, c) == {i \in DOMAIN tables[kind] : tables[kind][i].case = c}

Revision(c) == Cardinality(RowsOf("case", c))

Written == FoldSet(LAMBDA k, n : n + Len(tables[k]), 0, Kinds)

Insert(kind, row) == tables' = [tables EXCEPT ![kind] = Append(@, row)]

-----------------------------------------------------------------------------
(* Access. Three copies of one rule: the policy, the feed and the list.    *)

Acting(u) == u \in accounts \ disabled /\ Role[u] # "ADMIN"

Granted(u, c) == Role[u] = "SUPERVISOR" \/ Merchant[c] \in Grants[u]

CanAccess(u, c) ==
  /\ members[c] # None /\ Acting(u)
  /\ \/ Role[u] = "SUPERVISOR"
     \/ Merchant[c] \in Grants[u] /\ u \in members[c]

(* The cases a page of u is told about.                                    *)
Scope(u, page) == {c \in Cases : CanAccess(u, c) /\ page \in {List, c}}

CaseParticipants(c) == {u \in Users : Acting(u) /\ Granted(u, c)}

AssignmentCandidates(c) == {u \in CaseParticipants(c) : Role[u] \in Staff}

(* The conversations and the messages a user may read.                     *)
Audience(u, kind) ==
  CASE kind \in {"case", "agent"} -> {None}
    [] kind = "conversation" /\ Role[u] = "MERCHANT" -> {"MERCHANT", "SHARED"}
    [] kind = "conversation" /\ Role[u] # "MERCHANT" -> {"OPERATIONS", "SHARED", "OP_INTERNAL"}
    [] kind = "collaboration" /\ Role[u] = "MERCHANT" -> {"SHARED"}
    [] OTHER -> {"SHARED", "OP_INTERNAL"}

(* The rows of case c that u may read.                                     *)
Readable(u, kind, c) ==
  {i \in RowsOf(kind, c) : tables[kind][i].scope \in Audience(u, kind)}

-----------------------------------------------------------------------------
(* The feed: one read transaction.                                         *)
Visible(u, page, kind) == UNION {Readable(u, kind, c) : c \in Scope(u, page)}

Highest(S) == IF S = {} THEN 0 ELSE Max(S)
Lowest(S) == IF S = {} THEN 0 ELSE Min(S)

Positions(u, page) == [k \in Kinds |-> Highest(Visible(u, page, k))]

(* The first command a reader can see; it changes with what he may see.    *)
Epoch(u, page) == Lowest(Visible(u, page, "case"))

Cursor(u, page) == [of |-> <<u, page>>, epoch |-> Epoch(u, page), at |-> Positions(u, page)]

(* A cursor of another reader or page counts for nothing.                  *)
Baseline(u, page, cursor) ==
  IF cursor = None \/ cursor.of # <<u, page>> THEN None ELSE cursor

Reset(u, page, cursor) ==
  \/ cursor = None
  \/ cursor.epoch # Epoch(u, page)
  \/ \E k \in Kinds : cursor.at[k] > Positions(u, page)[k]

(* The cases that have a row beyond the cursor.                            *)
Beyond(u, page, cursor) ==
  {c \in Scope(u, page) : \E k \in Kinds : Highest(Readable(u, k, c)) > cursor.at[k]}

Changes(u, page, cursor) ==
  IF Reset(u, page, cursor) THEN Scope(u, page) ELSE Beyond(u, page, cursor)

(* A page of a case that is not there for its reader is refused.           *)
FeedRefuses(u, page) == page # List /\ page \notin Scope(u, page)

(* The poll goes on while it has nothing to tell.                          *)
HasNews(u, page, cursor) == Reset(u, page, cursor) \/ Changes(u, page, cursor) # {}

-----------------------------------------------------------------------------
(* What is written meanwhile.                                              *)
Intake(c, u) ==
  /\ members[c] = None /\ Acting(u) /\ Role[u] \in Staff /\ Granted(u, c)
  /\ Insert("case", Row(c, None, 1))
  /\ members' = [members EXCEPT ![c] = CaseParticipants(c)]
  /\ UNCHANGED accountVars

Command(c, u) ==
  /\ CanAccess(u, c)
  /\ Insert("case", Row(c, None, Revision(c) + 1))
  /\ UNCHANGED <<members, accountVars>>

(* A supervisor may bring somebody in, others choose among participants.   *)
AssignCase(c, by, to) ==
  /\ CanAccess(by, c) /\ Role[by] \in Staff
  /\ to \in AssignmentCandidates(c)
  /\ Role[by] # "SUPERVISOR" => to \in members[c]
  /\ Insert("case", Row(c, None, Revision(c) + 1))
  /\ members' = [members EXCEPT ![c] = @ \union {to}]
  /\ UNCHANGED accountVars

(* The agent reads every case there is; what it saw is kept with its run.  *)
SimilarCases(c) ==
  {d \in Cases \ {c} : members[d] # None /\ Merchant[d] = Merchant[c]}

(* One observation for each revision.                                      *)
SaveRun(c) ==
  /\ members[c] # None
  /\ \A i \in RowsOf("agent", c) : tables["agent"][i].revision # Revision(c)
  /\ Insert("agent", [Row(c, None, Revision(c)) EXCEPT !.similar = SimilarCases(c)])
  /\ UNCHANGED <<members, accountVars>>

SaveConversation(c, scope) ==
  /\ members[c] # None
  /\ Insert("conversation", Row(c, scope, Revision(c)))
  /\ UNCHANGED <<members, accountVars>>

PostMessage(c, u, scope) ==
  /\ CanAccess(u, c) /\ scope \in Audience(u, "collaboration")
  /\ Insert("collaboration", Row(c, scope, Revision(c)))
  /\ UNCHANGED <<members, accountVars>>

(* Accounts. A merchant's is bound to one merchant, an operator's to some. *)
WellScoped(u) ==
  \/ Role[u] = "MERCHANT" /\ Cardinality(Grants[u]) = 1
  \/ Role[u] = "OPERATOR" /\ Grants[u] # {}
  \/ Role[u] \in {"SUPERVISOR", "ADMIN"}

CreateUser(u) ==
  /\ u \notin accounts /\ WellScoped(u)
  /\ accounts' = accounts \union {u}
  /\ UNCHANGED <<tables, members, disabled, session>>

(* Disabling an account ends its sessions; nobody may use them again.      *)
SetDisabled(u) ==
  /\ u \in accounts
  /\ IF u \in disabled
     THEN disabled' = disabled \ {u} /\ UNCHANGED session
     ELSE disabled' = disabled \union {u} /\ session' = session \ {u}
  /\ UNCHANGED <<tables, members, accounts>>

Login(u) ==
  /\ u \in accounts \ disabled
  /\ session' = session \union {u}
  /\ UNCHANGED <<tables, members, accounts, disabled>>

(* A session ends by hand or with its time.                                *)
SessionEnds(u) ==
  /\ u \in session
  /\ session' = session \ {u}
  /\ UNCHANGED <<tables, members, accounts, disabled>>

(* Every request is made by a session that still counts.                   *)
Resolves(u) == u \in session /\ u \notin disabled

(* The sessions of renamed roles are deleted; those accounts log in again. *)
IdentityInit(there) ==
  /\ accounts = there /\ disabled = {}
  /\ session = accounts \ Migrated

FeedInit(there) ==
  /\ tables = [k \in Kinds |->
                 IF k = "case" THEN SetToSeq({Row(c, None, 1) : c \in Legacy}) ELSE <<>>]
  /\ members = [c \in Cases |-> IF c \in Legacy THEN Users ELSE None]
  /\ IdentityInit(there)
=============================================================================
