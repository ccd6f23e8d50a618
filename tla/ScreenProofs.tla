----------------------------- MODULE ScreenProofs -----------------------------
(***************************************************************************)
(* The feed never goes quiet over something a page missed, for any people,  *)
(* cases, pages, interleavings and number of rows.                          *)
(*                                                                          *)
(* Whom an account belongs to and whether it may be used come and go, what  *)
(* its user is entitled to (Standing) only grows, and rows are only added.  *)
(* So what a cursor was handed out for stays there, and once it has a row   *)
(* beyond it (Unread) it has one for good.  The rest is bookkeeping for one *)
(* page: as long as a cursor has nothing beyond it, each answer a reading   *)
(* was served since fits what there is, and so does the screen it leaves.   *)
(***************************************************************************)
EXTENDS CaseScreens, FiniteSetTheorems, SequenceTheorems, WellFoundedInduction, TLAPS

-----------------------------------------------------------------------------
(* The tables.                                                             *)
Scopes == {None, "MERCHANT", "SHARED", "OPERATIONS", "OP_INTERNAL"}

RowType ==
  [case : Cases, scope : Scopes, revision : Nat, read : BOOLEAN, similar : SUBSET Cases]

\* A command and an observation are for whoever may see the case; a case an
\* observation names was taken in before.
FeedInv ==
  /\ tables \in [Kinds -> Seq(RowType)]
  /\ members \in [Cases -> (SUBSET Users) \union {None}]
  /\ session \subseteq accounts
  /\ \A k \in {"case", "agent"} : \A i \in DOMAIN tables[k] : tables[k][i].scope = None
  /\ \A i \in DOMAIN tables["agent"] :
       \A d \in tables["agent"][i].similar : members[d] # None

\* What u may see of a case when the account may be used.
Standing(u, c) ==
  /\ members[c] # None /\ Role[u] # "ADMIN"
  /\ \/ Role[u] = "SUPERVISOR"
     \/ Merchant[c] \in Grants[u] /\ u \in members[c]

\* The cases the page of u is about.
Mine(u) == {c \in Cases : Standing(u, c) /\ Page[u] \in {List, c}}

\* A cursor u was handed out: it ends at rows u may see.
Taken(u, K) ==
  /\ K \in [of : {<<u, Page[u]>>}, epoch : Nat, at : [Kinds -> Nat]]
  /\ Page[u] # List => Standing(u, Page[u])
  /\ K.epoch # 0 => \E c \in Mine(u) : K.epoch \in RowsOf("case", c)
  /\ \A k \in Kinds : K.at[k] # 0 => \E c \in Mine(u) : K.at[k] \in Readable(u, k, c)

\* There is a row u has not been told of.
Unread(u, K) ==
  \E c \in Mine(u) :
    \/ \E i \in RowsOf("case", c) : K.epoch = 0 \/ i < K.epoch
    \/ \E k \in Kinds : \E i \in Readable(u, k, c) : i > K.at[k]

-----------------------------------------------------------------------------
(* A page.                                                                 *)

\* The similar cases of the last run that u may see.
SimilarFor(u, c) ==
  LET latest == Highest(RowsOf("agent", c))
  IN  IF latest = 0 THEN {} ELSE {d \in tables["agent"][latest].similar : Standing(u, d)}

Talks(u, c) == {i \in RowsOf("conversation", c) :
                  tables["conversation"][i].scope \in ConversationAudience(u)}

FitsAgent(u, c, shown) ==
  \E similar \in SUBSET Cases :
    /\ shown = [revision |-> Revision(c), runs |-> Cardinality(RowsOf("agent", c)),
                similar |-> similar, talks |-> Cardinality(Talks(u, c))]
    /\ Role[u] # "OPERATOR" => similar = SimilarFor(u, c)

\* An answer is what u would be answered now.
Fits(u, part, value) ==
  /\ part = "list" => value = [c \in Mine(u) |-> Revision(c)]
  /\ part \in {"case", "plan"} => value = Revision(Page[u])
  /\ part = "agent" => FitsAgent(u, Page[u], value)

ShowsAll(u, shown) ==
  IF Page[u] = List THEN Fits(u, "list", shown.cases)
  ELSE /\ shown.cases = [d \in {Page[u]} |-> Revision(Page[u])]
       /\ Fits(u, "plan", shown.plan)
       /\ Fits(u, "agent", shown.agent)

ScreenFits(u) == ShowsAll(u, screen[u])

\* The reading whose screen will be shown, and what it has so far.
Latest(u) == reading[u][newest[u]].got

\* A cursor that has nothing beyond it: what was served since fits.
Served(u, K) ==
  \/ Unread(u, K)
  \/ \A part \in DOMAIN Latest(u) :
       Latest(u)[part].code = "OK" => Fits(u, part, Latest(u)[part].value)

\* A screen of a case is never newer than the reading that will replace it.
InOrder(u) ==
  Page[u] \in DOMAIN screen[u].cases =>
    /\ screen[u].cases[Page[u]] \in 0..Revision(Page[u])
    /\ "case" \in DOMAIN Latest(u) /\ Latest(u)["case"].code = "OK" =>
         screen[u].cases[Page[u]] <= Latest(u)["case"].value

ServedKnown(u) ==
  "case" \in DOMAIN Latest(u) /\ Latest(u)["case"].code = "OK" =>
    Latest(u)["case"].value \in 0..Revision(Page[u])

LoopType ==
  /\ DOMAIN sync = Readers
  /\ \A u \in Readers : DOMAIN sync[u] = {"pc", "cursor", "next"}

ReadingType ==
  /\ DOMAIN reading = Readers
  /\ \A u \in Readers :
       /\ DOMAIN reading[u] = Whose
       /\ \A w \in Whose : /\ DOMAIN reading[u][w] = {"under", "got"}
                           /\ reading[u][w].under \in BOOLEAN
                           /\ DOMAIN reading[u][w].got \subseteq Parts(u)

ScreenType ==
  /\ LoopType /\ ReadingType /\ DOMAIN screen = Readers
  /\ newest \in [Readers -> Whose] /\ failed \in [Readers -> BOOLEAN]

CursorInv(u) ==
  /\ sync[u].cursor # None => Taken(u, sync[u].cursor) /\ Served(u, sync[u].cursor)
  /\ sync[u].pc = "APPLY" => Taken(u, sync[u].next) /\ Served(u, sync[u].next)
  /\ reading[u]["sync"].under => sync[u].pc = "APPLY"
  /\ sync[u].pc = "APPLY" /\ Page[u] # List /\ sync[u].cursor # None =>
       Unread(u, sync[u].cursor)

\* What the cursor passed is on the screen, or is on its way to it.
PageInv(u) ==
  /\ sync[u].cursor # None =>
       Unread(u, sync[u].cursor) \/ ScreenFits(u) \/ failed[u] \/ Asked(u)
  /\ sync[u].pc = "APPLY" /\ newest[u] = "user" =>
       Unread(u, sync[u].next) \/ ScreenFits(u) \/ failed[u] \/ Asked(u)
  /\ Page[u] # List => InOrder(u) /\ ServedKnown(u)

IInv ==
  /\ mix \in Mixes /\ FeedInv /\ ScreenType
  /\ \A u \in Readers : CursorInv(u) /\ PageInv(u)

-----------------------------------------------------------------------------
(* Positions in a table.                                                   *)

\* Of some positions one is the last, and one is the first.
LEMMA OneIsFirst ==
  ASSUME NEW N \in Nat, NEW S \in SUBSET (1..N), S # {}
  PROVE  \E n \in S : \A k \in S : n <= k
<1> DEFINE R == {ss \in Nat \X Nat : ss[1] < ss[2]}
<1>1. IsWellFoundedOn(R, Nat)
  BY NatLessThanWellFounded DEF OpToRel
<1>2. S \subseteq Nat
  OBVIOUS
<1>3. PICK x \in S : \A y \in S : ~(<<y, x>> \in R)
  <2> HIDE DEF R
  <2> QED BY <1>1, <1>2, WFMin
<1>4. ASSUME NEW k \in S
      PROVE  x <= k
  <2>1. k \in Nat /\ x \in Nat
    BY <1>2
  <2>2. ~(k < x)
    BY <1>3, <2>1
  <2> QED BY <2>1, <2>2
<1> QED BY <1>4

LEMMA OneIsLast ==
  ASSUME NEW N \in Nat, NEW S \in SUBSET (1..N), S # {}
  PROVE  \E n \in S : \A k \in S : k <= n
<1> DEFINE T == {m \in 1..N : N + 1 - m \in S}
<1>1. T \in SUBSET (1..N)
  OBVIOUS
<1>2. T # {}
  <2>1. PICK n \in S : n \in 1..N
    OBVIOUS
  <2>2. N + 1 - n \in 1..N /\ N + 1 - (N + 1 - n) = n
    BY <2>1
  <2> QED BY <2>1, <2>2
<1>3. PICK x \in T : \A y \in T : x <= y
  <2> HIDE DEF T
  <2> QED BY <1>1, <1>2, OneIsFirst
<1>4. x \in 1..N /\ N + 1 - x \in S
  BY <1>3
<1>5. ASSUME NEW k \in S
      PROVE  k <= N + 1 - x
  <2>1. k \in 1..N /\ N + 1 - k \in 1..N /\ N + 1 - (N + 1 - k) = k
    OBVIOUS
  <2>2. N + 1 - k \in T
    BY <2>1
  <2>3. x <= N + 1 - k
    BY <1>3, <2>2
  <2> QED BY <1>4, <2>1, <2>3
<1> QED BY <1>4, <1>5

LEMMA HighestIs ==
  ASSUME NEW N \in Nat, NEW S \in SUBSET (1..N)
  PROVE  /\ S = {} => Highest(S) = 0
         /\ S # {} => Highest(S) \in S /\ \A k \in S : k <= Highest(S)
         /\ Highest(S) \in Nat
<1>1. CASE S = {}
  BY <1>1 DEF Highest
<1>2. CASE S # {}
  <2>1. PICK n \in S : \A k \in S : k <= n
    BY <1>2, OneIsLast
  <2>2. \A k \in S : n >= k
    BY <2>1
  <2>3. Max(S) \in S /\ \A k \in S : Max(S) >= k
    BY <2>2 DEF Max
  <2>4. Highest(S) = Max(S)
    BY <1>2 DEF Highest
  <2>5. Highest(S) \in S /\ Highest(S) \in Nat
    <3>1. S \subseteq Nat
      OBVIOUS
    <3> QED BY <2>3, <2>4, <3>1
  <2>6. ASSUME NEW k \in S
        PROVE  k <= Highest(S)
    <3>1. Max(S) >= k /\ k \in Nat
      BY <2>3
    <3> QED BY <2>4, <2>5, <3>1
  <2> QED BY <1>2, <2>5, <2>6
<1> QED BY <1>1, <1>2

LEMMA LowestIs ==
  ASSUME NEW N \in Nat, NEW S \in SUBSET (1..N)
  PROVE  /\ S = {} => Lowest(S) = 0
         /\ S # {} => Lowest(S) \in S /\ \A k \in S : Lowest(S) <= k
         /\ Lowest(S) \in Nat
<1>1. CASE S = {}
  BY <1>1 DEF Lowest
<1>2. CASE S # {}
  <2>1. PICK n \in S : \A k \in S : n <= k
    BY <1>2, OneIsFirst
  <2>2. Min(S) \in S /\ \A k \in S : Min(S) <= k
    BY <2>1 DEF Min
  <2>3. Lowest(S) = Min(S)
    BY <1>2 DEF Lowest
  <2>4. Lowest(S) \in S /\ \A k \in S : Lowest(S) <= k
    BY <2>2, <2>3
  <2>5. Lowest(S) \in Nat
    <3>1. S \subseteq Nat
      OBVIOUS
    <3> QED BY <2>4, <3>1
  <2> QED BY <1>2, <2>4, <2>5
<1> QED BY <1>1, <1>2

LEMMA RowsAre ==
  ASSUME FeedInv, NEW k \in Kinds, NEW c
  PROVE  /\ Len(tables[k]) \in Nat
         /\ DOMAIN tables[k] = 1..Len(tables[k])
         /\ RowsOf(k, c) \subseteq 1..Len(tables[k])
         /\ IsFiniteSet(RowsOf(k, c)) /\ Cardinality(RowsOf(k, c)) \in Nat
<1>1. Len(tables[k]) \in Nat /\ DOMAIN tables[k] = 1..Len(tables[k])
  BY DEF FeedInv
<1>2. RowsOf(k, c) \in SUBSET (1..Len(tables[k]))
  BY <1>1 DEF RowsOf
<1>3. IsFiniteSet(1..Len(tables[k]))
  BY <1>1, FS_Interval
<1>4. IsFiniteSet(RowsOf(k, c))
  BY <1>2, <1>3, FS_Subset
<1> QED BY <1>1, <1>2, <1>4, FS_CardinalityType

LEMMA VisibleAre ==
  ASSUME FeedInv, NEW u, NEW page, NEW k \in Kinds
  PROVE  Visible(u, page, k) \in SUBSET (1..Len(tables[k]))
BY RowsAre DEF Visible, Readable

\* Every row of a case, and of its observations, may be read.
LEMMA AllReadable ==
  ASSUME FeedInv, NEW u, NEW k \in {"case", "agent"}, NEW c
  PROVE  Readable(u, k, c) = RowsOf(k, c)
<1>1. Audience(u, k) = {None}
  BY DEF Audience
<1>2. \A i \in RowsOf(k, c) : tables[k][i].scope = None
  BY DEF FeedInv, RowsOf
<1> QED BY <1>1, <1>2 DEF Readable

-----------------------------------------------------------------------------
(* How the feed moves on.                                                  *)
Grows ==
  \A k \in Kinds :
    /\ Len(tables[k]) <= Len(tables'[k])
    /\ \A i \in DOMAIN tables[k] : i \in DOMAIN tables'[k] /\ tables'[k][i] = tables[k][i]

\* Nobody loses a case, who wins one finds a new row of it, and whether a
\* user who is no operator may see a case is settled when it is taken in.
Entitles ==
  \A c \in Cases :
    /\ members[c] # None => members'[c] # None
    /\ \A u \in Readers :
         /\ Standing(u, c) => Standing(u, c)'
         /\ Standing(u, c)' => \/ Standing(u, c)
                               \/ \E i \in RowsOf("case", c)' : i > Len(tables["case"])
         /\ Standing(u, c)' /\ Role[u] # "OPERATOR" /\ members[c] # None => Standing(u, c)

LEMMA SameFeedMoves ==
  ASSUME FeedInv, UNCHANGED <<tables, members>>, session' \subseteq accounts'
  PROVE  FeedInv' /\ Grows /\ Entitles
<1>1. FeedInv'
  BY DEF FeedInv
<1>2. \A k \in Kinds : Len(tables[k]) \in Nat
  BY RowsAre
<1>3. Grows
  BY <1>2 DEF Grows
<1>4. \A u, c : Standing(u, c)' <=> Standing(u, c)
  BY DEF Standing
<1> QED BY <1>1, <1>3, <1>4 DEF Entitles

\* A row more, for a case that may have been joined by somebody with it.
LEMMA RowMoves ==
  ASSUME FeedInv, NEW kind \in Kinds, NEW c \in Cases, NEW row \in RowType,
         row.case = c,
         kind \in {"case", "agent"} => row.scope = None,
         kind = "agent" => \A d \in row.similar : members[d] # None,
         Insert(kind, row),
         \/ members' = members
         \/ /\ kind = "case"
            /\ \E S \in SUBSET Users :
                 /\ members' = [members EXCEPT ![c] = S]
                 /\ \/ members[c] = None
                    \/ /\ members[c] \subseteq S
                       /\ \A u \in S \ members[c] : Role[u] \in Staff,
         UNCHANGED accountVars
  PROVE  FeedInv' /\ Grows /\ Entitles
<1> USE DEF accountVars
<1>1. /\ tables \in [Kinds -> Seq(RowType)]
      /\ tables' = [tables EXCEPT ![kind] = Append(tables[kind], row)]
  BY DEF FeedInv, Insert
<1>2. tables' \in [Kinds -> Seq(RowType)]
  BY <1>1
<1>3. \A k \in Kinds : /\ Len(tables[k]) \in Nat /\ DOMAIN tables[k] = 1..Len(tables[k])
                       /\ k # kind => tables'[k] = tables[k]
  BY <1>1
<1>4. /\ Len(tables'[kind]) = Len(tables[kind]) + 1
      /\ DOMAIN tables'[kind] = 1..(Len(tables[kind]) + 1)
      /\ tables'[kind][Len(tables[kind]) + 1] = row
      /\ \A i \in DOMAIN tables[kind] : tables'[kind][i] = tables[kind][i]
  BY <1>1
<1>5. Grows
  <2> SUFFICES ASSUME NEW k \in Kinds
               PROVE  /\ Len(tables[k]) <= Len(tables'[k])
                      /\ \A i \in DOMAIN tables[k] :
                           i \in DOMAIN tables'[k] /\ tables'[k][i] = tables[k][i]
    BY DEF Grows
  <2> QED BY <1>3, <1>4
<1>6. members' \in [Cases -> (SUBSET Users) \union {None}]
  BY DEF FeedInv
<1>7. \A d \in Cases : members[d] # None => members'[d] # None
  BY FeedAssumption DEF FeedInv
<1>8. \A d \in Cases : d # c => members'[d] = members[d]
  BY DEF FeedInv
<1>9. FeedInv'
  <2>1. ASSUME NEW k \in {"case", "agent"}, NEW i \in DOMAIN tables'[k]
        PROVE  tables'[k][i].scope = None
    <3>1. k \in Kinds
      BY DEF Kinds
    <3>2. CASE i \in DOMAIN tables[k]
      BY <1>3, <1>4, <3>1, <3>2 DEF FeedInv
    <3>3. CASE i \notin DOMAIN tables[k]
      BY <1>3, <1>4, <2>1, <3>1, <3>3
    <3> QED BY <3>2, <3>3
  <2>2. ASSUME NEW i \in DOMAIN tables'["agent"], NEW d \in tables'["agent"][i].similar
        PROVE  members'[d] # None
    <3>1. "agent" \in Kinds /\ tables'["agent"][i] \in RowType
      BY <1>2 DEF Kinds
    <3>2. d \in Cases
      BY <3>1 DEF RowType
    <3>3. CASE i \in DOMAIN tables["agent"]
      <4>1. tables'["agent"][i] = tables["agent"][i]
        BY <1>3, <1>4, <3>1, <3>3
      <4> QED BY <1>7, <2>2, <3>2, <3>3, <4>1 DEF FeedInv
    <3>4. CASE i \notin DOMAIN tables["agent"]
      <4>1. kind = "agent" /\ tables'["agent"][i] = row
        BY <1>3, <1>4, <3>1, <3>4
      <4> QED BY <1>7, <2>2, <3>2, <4>1
    <3> QED BY <3>3, <3>4
  <2> QED BY <1>2, <1>6, <2>1, <2>2 DEF FeedInv
<1>10. ASSUME NEW u \in Readers, NEW d \in Cases
       PROVE  /\ Standing(u, d) => Standing(u, d)'
              /\ Standing(u, d)' => \/ Standing(u, d)
                                    \/ \E i \in RowsOf("case", d)' : i > Len(tables["case"])
              /\ Standing(u, d)' /\ Role[u] # "OPERATOR" /\ members[d] # None => Standing(u, d)
  <2>1. CASE members'[d] = members[d]
    BY <2>1 DEF Standing
  <2>2. CASE members'[d] # members[d]
    <3>1. /\ d = c /\ kind = "case" /\ members'[c] # None
          /\ \/ members[c] = None
             \/ /\ members[c] \subseteq members'[c]
                /\ \A v \in members'[c] \ members[c] : Role[v] \in Staff
      BY <1>8, <2>2, FeedAssumption DEF FeedInv
    <3>2. /\ Len(tables["case"]) + 1 \in RowsOf("case", c)'
          /\ Len(tables["case"]) + 1 > Len(tables["case"])
      BY <1>3, <1>4, <3>1 DEF RowsOf
    <3>3. CASE members[c] = None
      BY <3>1, <3>2, <3>3 DEF Standing
    <3>4. CASE members[c] # None
      BY <3>1, <3>2, <3>4 DEF Standing, Staff
    <3> QED BY <3>3, <3>4
  <2> QED BY <2>1, <2>2
<1> QED BY <1>5, <1>7, <1>9, <1>10 DEF Entitles

LEMMA RevisionTyped ==
  ASSUME FeedInv, NEW c
  PROVE  Revision(c) \in Nat /\ Revision(c) + 1 \in Nat
<1>1. "case" \in Kinds
  BY DEF Kinds
<1>2. Revision(c) \in Nat
  BY <1>1, RowsAre DEF Revision
<1> QED BY <1>2

LEMMA IntakeMoves ==
  ASSUME FeedInv, NEW c \in Cases, NEW u, Intake(c, u)
  PROVE  FeedInv' /\ Grows /\ Entitles
<1>1. Insert("case", Row(c, None, 1)) /\ UNCHANGED accountVars /\ members[c] = None
  BY DEF Intake
<1>2. members' = [members EXCEPT ![c] = CaseParticipants(c)]
  BY DEF Intake
<1>3. CaseParticipants(c) \in SUBSET Users
  BY DEF CaseParticipants
<1>4. "case" \in Kinds /\ None \in Scopes
  BY DEF Kinds, Scopes
<1>5. Row(c, None, 1) \in RowType /\ Row(c, None, 1).case = c /\ Row(c, None, 1).scope = None
  BY <1>4 DEF Row, RowType
<1>6. "case" # "agent"
  OBVIOUS
<1> HIDE DEF Row
<1> QED BY <1>1, <1>2, <1>3, <1>4, <1>5, <1>6, RowMoves

LEMMA CommandMoves ==
  ASSUME FeedInv, NEW c \in Cases, NEW u, Command(c, u)
  PROVE  FeedInv' /\ Grows /\ Entitles
<1> DEFINE row == Row(c, None, Revision(c) + 1)
<1>1. Insert("case", row) /\ members' = members /\ UNCHANGED accountVars
  BY DEF Command
<1>2. "case" \in Kinds /\ None \in Scopes /\ "case" # "agent"
  BY DEF Kinds, Scopes
<1>3. row \in RowType /\ row.case = c /\ row.scope = None
  BY <1>2, RevisionTyped DEF Row, RowType
<1> HIDE DEF row
<1> QED BY <1>1, <1>2, <1>3, RowMoves

LEMMA AssignCaseMoves ==
  ASSUME FeedInv, NEW c \in Cases, NEW by, NEW to \in Users, AssignCase(c, by, to)
  PROVE  FeedInv' /\ Grows /\ Entitles
<1> DEFINE row == Row(c, None, Revision(c) + 1)
<1>1. Insert("case", row) /\ UNCHANGED accountVars
  BY DEF AssignCase
<1>2. members' = [members EXCEPT ![c] = members[c] \union {to}] /\ members[c] # None
  BY DEF AssignCase, CanAccess
<1>3. members[c] \union {to} \in SUBSET Users
  BY <1>2 DEF FeedInv
<1>4. Role[to] \in Staff
  BY DEF AssignCase, AssignmentCandidates
<1>5. "case" \in Kinds /\ None \in Scopes /\ "case" # "agent"
  BY DEF Kinds, Scopes
<1>6. row \in RowType /\ row.case = c /\ row.scope = None
  BY <1>5, RevisionTyped DEF Row, RowType
<1>7. \E S \in SUBSET Users : /\ members' = [members EXCEPT ![c] = S]
                              /\ members[c] \subseteq S
                              /\ \A u \in S \ members[c] : Role[u] \in Staff
  BY <1>2, <1>3, <1>4
<1> HIDE DEF row
<1> QED BY <1>1, <1>5, <1>6, <1>7, RowMoves

LEMMA SaveRunMoves ==
  ASSUME FeedInv, NEW c \in Cases, SaveRun(c)
  PROVE  FeedInv' /\ Grows /\ Entitles
<1> DEFINE row == [Row(c, None, Revision(c)) EXCEPT !.similar = SimilarCases(c)]
<1>1. Insert("agent", row) /\ members' = members /\ UNCHANGED accountVars
  BY DEF SaveRun
<1>2. "agent" \in Kinds /\ None \in Scopes
  BY DEF Kinds, Scopes
<1>3. SimilarCases(c) \in SUBSET Cases /\ \A d \in SimilarCases(c) : members[d] # None
  BY DEF SimilarCases
<1>4. /\ row \in RowType /\ row.case = c /\ row.scope = None
      /\ row.similar = SimilarCases(c)
  BY <1>2, <1>3, RevisionTyped DEF Row, RowType
<1> HIDE DEF row
<1> QED BY <1>1, <1>2, <1>3, <1>4, RowMoves

LEMMA SaveConversationMoves ==
  ASSUME FeedInv, NEW c \in Cases, NEW scope \in Scopes, SaveConversation(c, scope)
  PROVE  FeedInv' /\ Grows /\ Entitles
<1> DEFINE row == Row(c, scope, Revision(c))
<1>1. Insert("conversation", row) /\ members' = members /\ UNCHANGED accountVars
  BY DEF SaveConversation
<1>2. "conversation" \in Kinds /\ "conversation" \notin {"case", "agent"}
  BY DEF Kinds
<1>3. row \in RowType /\ row.case = c
  BY RevisionTyped DEF Row, RowType
<1> HIDE DEF row
<1> QED BY <1>1, <1>2, <1>3, RowMoves

LEMMA PostMessageMoves ==
  ASSUME FeedInv, NEW c \in Cases, NEW u, NEW scope \in Scopes, PostMessage(c, u, scope)
  PROVE  FeedInv' /\ Grows /\ Entitles
<1> DEFINE row == Row(c, scope, Revision(c))
<1>1. Insert("collaboration", row) /\ members' = members /\ UNCHANGED accountVars
  BY DEF PostMessage
<1>2. "collaboration" \in Kinds /\ "collaboration" \notin {"case", "agent"}
  BY DEF Kinds
<1>3. row \in RowType /\ row.case = c
  BY RevisionTyped DEF Row, RowType
<1> HIDE DEF row
<1> QED BY <1>1, <1>2, <1>3, RowMoves

LEMMA MarkReadMoves ==
  ASSUME FeedInv, NEW u \in Readers, MarkRead(u)
  PROVE  FeedInv' /\ Grows /\ Entitles
<1> DEFINE c == Page[u]
           row == [Row(c, "SHARED", Revision(c)) EXCEPT !.read = TRUE]
<1>1. Insert("collaboration", row) /\ members' = members /\ UNCHANGED accountVars
  BY DEF MarkRead
<1>2. c \in Cases /\ "SHARED" \in Scopes
  BY PageAssumption DEF MarkRead, Scopes, Readers
<1>3. "collaboration" \in Kinds /\ "collaboration" \notin {"case", "agent"}
  BY DEF Kinds
<1>4. row \in RowType /\ row.case = c
  BY <1>2, RevisionTyped DEF Row, RowType
<1> HIDE DEF row, c
<1> QED BY <1>1, <1>2, <1>3, <1>4, RowMoves

LEMMA WriteMoves ==
  ASSUME FeedInv, NEW kind, NEW u \in Users, NEW c \in Cases, Write(kind, u, c)
  PROVE  FeedInv' /\ Grows /\ Entitles
<1>1. CASE Intake(c, u)
  BY <1>1, IntakeMoves
<1>2. CASE Command(c, u)
  BY <1>2, CommandMoves
<1>3. CASE \E to \in Users : AssignCase(c, u, to)
  BY <1>3, AssignCaseMoves
<1>4. CASE SaveRun(c)
  BY <1>4, SaveRunMoves
<1>5. CASE \E scope \in Scopes : SaveConversation(c, scope)
  BY <1>5, SaveConversationMoves
<1>6. CASE \E scope \in Scopes : PostMessage(c, u, scope)
  BY <1>6, PostMessageMoves
<1>7. /\ {"SHARED", "MERCHANT", "OPERATIONS"} \subseteq Scopes
      /\ {"SHARED", "OP_INTERNAL"} \subseteq Scopes
  BY DEF Scopes
<1> QED BY <1>1, <1>2, <1>3, <1>4, <1>5, <1>6, <1>7 DEF Write

LEMMA AccountMoves ==
  ASSUME FeedInv, NEW u, Account(u)
  PROVE  FeedInv' /\ Grows /\ Entitles
<1>1. UNCHANGED <<tables, members>>
  BY DEF Account, CreateUser, SetDisabled, Login, SessionEnds
<1>2. session' \subseteq accounts'
  <2>1. CASE CreateUser(u)
    BY <2>1 DEF CreateUser, FeedInv
  <2>2. CASE SetDisabled(u)
    BY <2>2 DEF SetDisabled, FeedInv
  <2>3. CASE Login(u)
    BY <2>3 DEF Login, FeedInv
  <2>4. CASE SessionEnds(u)
    BY <2>4 DEF SessionEnds, FeedInv
  <2> QED BY <2>1, <2>2, <2>3, <2>4 DEF Account
<1> QED BY <1>1, <1>2, SameFeedMoves

LEMMA OthersMove ==
  ASSUME FeedInv, Others
  PROVE  FeedInv' /\ Grows /\ Entitles
BY WriteMoves, AccountMoves DEF Others

-----------------------------------------------------------------------------
(* A cursor while the feed moves on.                                       *)
LEMMA MineStays ==
  ASSUME Entitles, NEW u \in Readers
  PROVE  Mine(u) \subseteq Mine(u)'
BY DEF Entitles, Mine

LEMMA ReadableStays ==
  ASSUME FeedInv, Grows, NEW u, NEW k \in Kinds, NEW c
  PROVE  /\ RowsOf(k, c) \subseteq RowsOf(k, c)'
         /\ Readable(u, k, c) \subseteq Readable(u, k, c)'
         /\ \A i \in RowsOf(k, c)' : i \in DOMAIN tables[k] => i \in RowsOf(k, c)
         /\ \A i \in Readable(u, k, c)' : i \in DOMAIN tables[k] => i \in Readable(u, k, c)
BY DEF Grows, RowsOf, Readable

LEMMA TakenStays ==
  ASSUME FeedInv, Grows, Entitles, NEW u \in Readers, NEW K, Taken(u, K)
  PROVE  Taken(u, K)'
<1>1. "case" \in Kinds
  BY DEF Kinds
<1>2. Page[u] # List => Standing(u, Page[u])'
  BY PageAssumption DEF Taken, Entitles, Readers
<1>3. K.epoch # 0 => \E c \in Mine(u)' : K.epoch \in RowsOf("case", c)'
  BY <1>1, MineStays, ReadableStays DEF Taken
<1>4. \A k \in Kinds : K.at[k] # 0 => \E c \in Mine(u)' : K.at[k] \in Readable(u, k, c)'
  BY MineStays, ReadableStays DEF Taken
<1> QED BY <1>2, <1>3, <1>4 DEF Taken

LEMMA UnreadStays ==
  ASSUME FeedInv, Grows, Entitles, NEW u \in Readers, NEW K, Unread(u, K)
  PROVE  Unread(u, K)'
<1>1. "case" \in Kinds
  BY DEF Kinds
<1>2. PICK c \in Mine(u) :
         \/ \E i \in RowsOf("case", c) : K.epoch = 0 \/ i < K.epoch
         \/ \E k \in Kinds : \E i \in Readable(u, k, c) : i > K.at[k]
  BY DEF Unread
<1>3. c \in Mine(u)'
  BY MineStays
<1>4. \/ \E i \in RowsOf("case", c)' : K.epoch = 0 \/ i < K.epoch
      \/ \E k \in Kinds : \E i \in Readable(u, k, c)' : i > K.at[k]
  BY <1>1, <1>2, ReadableStays
<1> QED BY <1>3, <1>4 DEF Unread

\* A cursor does not point beyond the tables.
LEMMA TakenWithin ==
  ASSUME FeedInv, NEW u, NEW K, Taken(u, K), NEW k \in Kinds
  PROVE  K.at[k] \in Nat /\ K.at[k] <= Len(tables[k])
<1>1. K.at[k] \in Nat /\ Len(tables[k]) \in Nat
  BY RowsAre DEF Taken
<1>2. ASSUME NEW c, K.at[k] \in Readable(u, k, c)
      PROVE  K.at[k] <= Len(tables[k])
  BY <1>1, <1>2, RowsAre DEF Readable
<1> QED BY <1>1, <1>2 DEF Taken

\* As long as nothing is beyond a cursor, what its reader may see stays.
LEMMA NothingNew ==
  ASSUME FeedInv, FeedInv', Grows, Entitles, NEW u \in Readers, NEW K, Taken(u, K),
         ~Unread(u, K)'
  PROVE  /\ ~Unread(u, K)
         /\ Mine(u)' = Mine(u)
         /\ \A k \in Kinds, c \in Mine(u) : Readable(u, k, c)' = Readable(u, k, c)
<1>1. ~Unread(u, K)
  BY UnreadStays
<1>2. ASSUME NEW c \in Mine(u)', NEW k \in Kinds, NEW i \in Readable(u, k, c)'
      PROVE  i \in DOMAIN tables[k]
  <2>1. i \in 1..Len(tables'[k])
    BY RowsAre DEF RowsOf, Readable, FeedInv
  <2>2. ~(i > K.at[k])
    BY <1>2 DEF Unread
  <2> QED BY <2>1, <2>2, TakenWithin, RowsAre
<1>3. ASSUME NEW c \in Mine(u)'
      PROVE  c \in Mine(u)
  <2>1. ASSUME NEW i \in RowsOf("case", c)', i > Len(tables["case"])
        PROVE  FALSE
    <3>1. "case" \in Kinds
      BY DEF Kinds
    <3>2. Readable(u, "case", c)' = RowsOf("case", c)'
      <4>1. Audience(u, "case") = {None}
        BY DEF Audience
      <4>2. \A j \in RowsOf("case", c)' : tables'["case"][j].scope = None
        BY DEF FeedInv, RowsOf
      <4> QED BY <4>1, <4>2 DEF Readable
    <3>3. i \in DOMAIN tables["case"]
      BY <1>2, <2>1, <3>1, <3>2
    <3> QED BY <2>1, <3>1, <3>3, RowsAre
  <2>2. c \in Cases /\ Standing(u, c)'
    BY <1>3 DEF Mine
  <2>3. Standing(u, c)
    BY <2>1, <2>2 DEF Entitles
  <2> QED BY <1>3, <2>2, <2>3 DEF Mine
<1>4. Mine(u)' = Mine(u)
  BY <1>3, MineStays
<1>5. ASSUME NEW k \in Kinds, NEW c \in Mine(u)
      PROVE  Readable(u, k, c)' = Readable(u, k, c)
  <2>1. c \in Mine(u)'
    BY <1>4
  <2>2. \A i \in Readable(u, k, c)' : i \in DOMAIN tables[k]
    BY <1>2, <2>1
  <2>3. \A i \in Readable(u, k, c)' : i \in Readable(u, k, c)
    BY <2>2, ReadableStays
  <2>4. \A i \in Readable(u, k, c) : i \in Readable(u, k, c)'
    BY ReadableStays
  <2> QED BY <2>3, <2>4
<1> QED BY <1>1, <1>4, <1>5

-----------------------------------------------------------------------------
(* Answers.                                                                *)

\* A session that counts belongs to an account that may be used.
LEMMA ResolvedActs ==
  ASSUME FeedInv, NEW u, Resolves(u)
  PROVE  u \in accounts \ disabled
BY DEF FeedInv, Resolves

LEMMA AccessIsStanding ==
  ASSUME NEW u, u \in accounts \ disabled
  PROVE  /\ \A c : CanAccess(u, c) <=> Standing(u, c)
         /\ Scope(u, Page[u]) = Mine(u)
<1>1. \A c : CanAccess(u, c) <=> Standing(u, c)
  BY DEF CanAccess, Standing, Acting
<1>2. Scope(u, Page[u]) = Mine(u)
  BY <1>1 DEF Scope, Mine
<1> QED BY <1>1, <1>2

\* Nobody but the people entitled to a case is told of it.
LEMMA ScopeInMine ==
  ASSUME NEW u
  PROVE  Scope(u, Page[u]) \subseteq Mine(u)
BY DEF Scope, Mine, CanAccess, Standing, Acting

LEMMA SimilarTyped ==
  ASSUME FeedInv, NEW u, NEW c
  PROVE  /\ SimilarFor(u, c) \in SUBSET Cases
         /\ \A latest \in RowsOf("agent", c) :
              /\ tables["agent"][latest].similar \in SUBSET Cases
              /\ \A d \in tables["agent"][latest].similar : members[d] # None
<1>1. "agent" \in Kinds
  BY DEF Kinds
<1>2. ASSUME NEW latest \in RowsOf("agent", c)
      PROVE  /\ tables["agent"][latest].similar \in SUBSET Cases
             /\ \A d \in tables["agent"][latest].similar : members[d] # None
  <2>1. latest \in DOMAIN tables["agent"]
    BY DEF RowsOf
  <2>2. tables["agent"][latest] \in RowType
    BY <1>1, <2>1 DEF FeedInv
  <2> QED BY <2>1, <2>2 DEF RowType, FeedInv
<1>3. SimilarFor(u, c) \in SUBSET Cases
  <2>1. RowsOf("agent", c) \in SUBSET (1..Len(tables["agent"])) /\ Len(tables["agent"]) \in Nat
    BY <1>1, RowsAre
  <2>2. \/ Highest(RowsOf("agent", c)) = 0
        \/ Highest(RowsOf("agent", c)) \in RowsOf("agent", c)
    BY <2>1, HighestIs
  <2> QED BY <1>2, <2>2 DEF SimilarFor
<1> QED BY <1>2, <1>3

LEMMA AnswerFits ==
  ASSUME FeedInv, NEW u, Resolves(u), NEW part \in Parts(u)
  PROVE  Fits(u, part, Answer(u, part))
<1>1. /\ \A c : CanAccess(u, c) <=> Standing(u, c)
      /\ Scope(u, Page[u]) = Mine(u)
  BY ResolvedActs, AccessIsStanding
<1>2. CASE Page[u] = List
  BY <1>1, <1>2 DEF Parts, Fits, Answer, QueueList
<1>3. CASE Page[u] # List
  <2>1. CASE part \in {"case", "plan"}
    BY <2>1 DEF Fits, Answer
  <2>2. CASE part = "agent"
    <3>1. Answer(u, part) = Activity(u, Page[u])
      BY <2>2 DEF Answer
    <3>2. RunForReader(u, Page[u]) = SimilarFor(u, Page[u])
      BY <1>1 DEF RunForReader, SimilarFor, ReaderProjection
    <3>3. Activity(u, Page[u]) =
            [revision |-> Revision(Page[u]), runs |-> Cardinality(RowsOf("agent", Page[u])),
             similar |-> SimilarFor(u, Page[u]), talks |-> Cardinality(Talks(u, Page[u]))]
      BY <3>2 DEF Activity, Talks
    <3>4. FitsAgent(u, Page[u], Activity(u, Page[u]))
      BY <3>3, SimilarTyped DEF FitsAgent
    <3> QED BY <2>2, <3>1, <3>4 DEF Fits
  <2> QED BY <1>3, <2>1, <2>2 DEF Parts
<1> QED BY <1>2, <1>3

LEMMA FittingScreenIsCurrent ==
  ASSUME FeedInv, NEW u, Resolves(u), ScreenFits(u)
  PROVE  Current(u)
<1>1. /\ \A c : CanAccess(u, c) <=> Standing(u, c)
      /\ Scope(u, Page[u]) = Mine(u)
  BY ResolvedActs, AccessIsStanding
<1>2. CASE Page[u] = List
  BY <1>1, <1>2 DEF ScreenFits, ShowsAll, Fits, Current, QueueList
<1>3. CASE Page[u] # List
  <2> DEFINE c == Page[u]
  <2>1. PICK similar \in SUBSET Cases :
          /\ screen[u].agent =
               [revision |-> Revision(c), runs |-> Cardinality(RowsOf("agent", c)),
                similar |-> similar, talks |-> Cardinality(Talks(u, c))]
          /\ Role[u] # "OPERATOR" => similar = SimilarFor(u, c)
    BY <1>3 DEF ScreenFits, ShowsAll, Fits, FitsAgent
  <2>2. RunForReader(u, c) = SimilarFor(u, c)
    BY <1>1 DEF RunForReader, SimilarFor, ReaderProjection
  <2>3. Activity(u, c) =
          [revision |-> Revision(c), runs |-> Cardinality(RowsOf("agent", c)),
           similar |-> SimilarFor(u, c), talks |-> Cardinality(Talks(u, c))]
    BY <2>2 DEF Activity, Talks
  <2>4. ShowsAgent(u, c, screen[u].agent)
    <3>1. [Activity(u, c) EXCEPT !.similar = similar] =
            [revision |-> Revision(c), runs |-> Cardinality(RowsOf("agent", c)),
             similar |-> similar, talks |-> Cardinality(Talks(u, c))]
      BY <2>3
    <3>2. Activity(u, c).similar = SimilarFor(u, c)
      BY <2>3
    <3> QED BY <2>1, <3>1, <3>2 DEF ShowsAgent
  <2>5. /\ screen[u].cases = [d \in {c} |-> Revision(c)]
        /\ screen[u].plan = Revision(c)
    BY <1>3 DEF ScreenFits, ShowsAll, Fits
  <2> QED BY <1>3, <2>4, <2>5 DEF Current
<1> QED BY <1>2, <1>3

\* The talk a page shows is among what its reader is told of.
LEMMA TalkIsReadable ==
  ASSUME NEW u
  PROVE  ConversationAudience(u) \subseteq Audience(u, "conversation")
<1>1. CASE Role[u] = "MERCHANT"
  <2>1. Audience(u, "conversation") = {"MERCHANT", "SHARED"}
    BY <1>1 DEF Audience
  <2> QED BY <1>1, <2>1 DEF ConversationAudience
<1>2. CASE Role[u] # "MERCHANT"
  <2>1. Audience(u, "conversation") = {"OPERATIONS", "SHARED", "OP_INTERNAL"}
    BY <1>2 DEF Audience
  <2> QED BY <1>2, <2>1 DEF ConversationAudience
<1> QED BY <1>1, <1>2

\* What fits goes on fitting while nothing is beyond the cursor.
LEMMA FitsStays ==
  ASSUME FeedInv, FeedInv', Grows, Entitles, NEW u \in Readers, NEW K, Taken(u, K),
         ~Unread(u, K)', NEW part, NEW value, Fits(u, part, value),
         Page[u] = List <=> part = "list"
  PROVE  Fits(u, part, value)'
<1>1. /\ Mine(u)' = Mine(u)
      /\ \A k \in Kinds, c \in Mine(u) : Readable(u, k, c)' = Readable(u, k, c)
  BY NothingNew
<1>2. {"case", "agent", "conversation"} \subseteq Kinds
  BY DEF Kinds
<1>3. ASSUME NEW c \in Mine(u)
      PROVE  /\ RowsOf("case", c)' = RowsOf("case", c)
             /\ RowsOf("agent", c)' = RowsOf("agent", c)
             /\ Revision(c)' = Revision(c)
  <2>1. ASSUME NEW k \in {"case", "agent"}
        PROVE  RowsOf(k, c)' = RowsOf(k, c)
    <3>1. Audience(u, k) = {None}
      BY DEF Audience
    <3>2. \A j \in RowsOf(k, c)' : tables'[k][j].scope = None
      BY DEF FeedInv, RowsOf
    <3>3. Readable(u, k, c)' = RowsOf(k, c)'
      BY <3>1, <3>2 DEF Readable
    <3> QED BY <1>1, <1>2, <3>3, AllReadable
  <2> QED BY <2>1 DEF Revision
<1>4. CASE Page[u] = List
  BY <1>1, <1>3, <1>4 DEF Fits
<1>5. CASE Page[u] # List
  <2> DEFINE c == Page[u]
  <2>1. c \in Mine(u)
    BY <1>5, PageAssumption DEF Mine, Taken, Readers
  <2>2. CASE part \in {"case", "plan"}
    BY <1>3, <2>1, <2>2 DEF Fits
  <2>3. CASE part = "agent"
    <3>1. PICK similar \in SUBSET Cases :
            /\ value = [revision |-> Revision(c), runs |-> Cardinality(RowsOf("agent", c)),
                        similar |-> similar, talks |-> Cardinality(Talks(u, c))]
            /\ Role[u] # "OPERATOR" => similar = SimilarFor(u, c)
      BY <2>3 DEF Fits, FitsAgent
    <3>2. Talks(u, c)' = Talks(u, c)
      <4>1. Readable(u, "conversation", c)' = Readable(u, "conversation", c)
        BY <1>1, <1>2, <2>1
      <4>2. \A i \in Readable(u, "conversation", c) :
              tables'["conversation"][i] = tables["conversation"][i]
        BY <1>2 DEF Grows, Readable, RowsOf
      <4>3. Talks(u, c) = {i \in Readable(u, "conversation", c) :
                             tables["conversation"][i].scope \in ConversationAudience(u)}
        BY TalkIsReadable DEF Talks, Readable
      <4>4. Talks(u, c)' = {i \in Readable(u, "conversation", c)' :
                              tables'["conversation"][i].scope \in ConversationAudience(u)}
        BY TalkIsReadable DEF Talks, Readable
      <4> QED BY <4>1, <4>2, <4>3, <4>4
    <3>3. ASSUME Role[u] # "OPERATOR"
          PROVE  SimilarFor(u, c)' = SimilarFor(u, c)
      <4>1. /\ RowsOf("agent", c)' = RowsOf("agent", c)
            /\ Highest(RowsOf("agent", c))' = Highest(RowsOf("agent", c))
        BY <1>3, <2>1
      <4>2. \/ Highest(RowsOf("agent", c)) = 0
            \/ Highest(RowsOf("agent", c)) \in RowsOf("agent", c)
        BY <1>2, RowsAre, HighestIs
      <4>3. ASSUME NEW latest \in RowsOf("agent", c)
            PROVE  /\ tables'["agent"][latest] = tables["agent"][latest]
                   /\ \A d \in tables["agent"][latest].similar :
                        Standing(u, d)' <=> Standing(u, d)
        <5>1. tables'["agent"][latest] = tables["agent"][latest]
          BY <1>2, <4>3 DEF Grows, RowsOf
        <5>2. ASSUME NEW d \in tables["agent"][latest].similar
              PROVE  Standing(u, d)' <=> Standing(u, d)
          <6>1. d \in Cases /\ members[d] # None
            BY <4>3, SimilarTyped
          <6> QED BY <3>3, <6>1 DEF Entitles
        <5> QED BY <5>1, <5>2
      <4>4. CASE Highest(RowsOf("agent", c)) = 0
        BY <4>1, <4>4 DEF SimilarFor
      <4>5. CASE Highest(RowsOf("agent", c)) \in RowsOf("agent", c)
        BY <4>1, <4>3, <4>5 DEF SimilarFor
      <4> QED BY <4>2, <4>4, <4>5
    <3>4. /\ Revision(c)' = Revision(c)
          /\ RowsOf("agent", c)' = RowsOf("agent", c)
      BY <1>3, <2>1
    <3>5. FitsAgent(u, c, value)'
      BY <3>1, <3>2, <3>3, <3>4 DEF FitsAgent
    <3> QED BY <2>3, <3>5 DEF Fits
  <2> QED BY <1>5, <2>2, <2>3 DEF Fits
<1> QED BY <1>4, <1>5

-----------------------------------------------------------------------------
(* What the feed tells.                                                    *)
LEMMA CursorTyped ==
  ASSUME FeedInv, NEW u
  PROVE  /\ Epoch(u, Page[u]) \in Nat
         /\ Positions(u, Page[u]) \in [Kinds -> Nat]
         /\ Cursor(u, Page[u]) \in [of : {<<u, Page[u]>>}, epoch : Nat, at : [Kinds -> Nat]]
<1>1. "case" \in Kinds
  BY DEF Kinds
<1>2. \A k \in Kinds : /\ Len(tables[k]) \in Nat
                       /\ Visible(u, Page[u], k) \in SUBSET (1..Len(tables[k]))
  BY RowsAre, VisibleAre
<1>3. Epoch(u, Page[u]) \in Nat
  BY <1>1, <1>2, LowestIs DEF Epoch
<1>4. \A k \in Kinds : Highest(Visible(u, Page[u], k)) \in Nat
  BY <1>2, HighestIs
<1>5. Positions(u, Page[u]) \in [Kinds -> Nat]
  BY <1>4 DEF Positions
<1> QED BY <1>3, <1>5 DEF Cursor

\* A cursor that is handed out ends at rows its reader may see.
LEMMA CursorTaken ==
  ASSUME FeedInv, NEW u \in Readers, ~FeedRefuses(u, Page[u])
  PROVE  Taken(u, Cursor(u, Page[u]))
<1> DEFINE K == Cursor(u, Page[u])
<1>1. /\ K \in [of : {<<u, Page[u]>>}, epoch : Nat, at : [Kinds -> Nat]]
      /\ K.epoch = Lowest(Visible(u, Page[u], "case"))
      /\ \A k \in Kinds : K.at[k] = Highest(Visible(u, Page[u], k))
  BY CursorTyped DEF Cursor, Epoch, Positions
<1>2. ASSUME NEW k \in Kinds, NEW i \in Visible(u, Page[u], k)
      PROVE  \E c \in Mine(u) : i \in Readable(u, k, c) /\ i \in RowsOf(k, c)
  BY ScopeInMine DEF Visible, Readable
<1>3. \A k \in Kinds : /\ Len(tables[k]) \in Nat
                       /\ Visible(u, Page[u], k) \in SUBSET (1..Len(tables[k]))
  BY RowsAre, VisibleAre
<1>4. K.epoch # 0 => \E c \in Mine(u) : K.epoch \in RowsOf("case", c)
  <2>1. "case" \in Kinds
    BY DEF Kinds
  <2>2. K.epoch # 0 => K.epoch \in Visible(u, Page[u], "case")
    BY <1>1, <1>3, <2>1, LowestIs
  <2> HIDE DEF K
  <2> QED BY <1>2, <2>1, <2>2
<1>5. ASSUME NEW k \in Kinds, K.at[k] # 0
      PROVE  \E c \in Mine(u) : K.at[k] \in Readable(u, k, c)
  <2>1. K.at[k] \in Visible(u, Page[u], k)
    BY <1>1, <1>3, <1>5, HighestIs
  <2> HIDE DEF K
  <2> QED BY <1>2, <2>1
<1>6. Page[u] # List => Standing(u, Page[u])
  BY ScopeInMine DEF FeedRefuses, Mine
<1> HIDE DEF K
<1>7. Taken(u, K)
  BY <1>1, <1>4, <1>5, <1>6 DEF Taken
<1> QED BY <1>7 DEF K

\* What is readable of a case in scope is visible, and nothing else is.
LEMMA VisibleOf ==
  ASSUME FeedInv, NEW u, u \in accounts \ disabled, NEW k \in Kinds
  PROVE  \A i : i \in Visible(u, Page[u], k) <=> \E c \in Mine(u) : i \in Readable(u, k, c)
BY AccessIsStanding DEF Visible

\* The service has news for a cursor when there is a row beyond it, ...
LEMMA NewsOfUnread ==
  ASSUME FeedInv, NEW u, u \in accounts \ disabled, NEW K, Taken(u, K),
         ~HasNews(u, Page[u], K)
  PROVE  K # None /\ ~Unread(u, K)
<1>1. /\ K # None /\ K.epoch = Epoch(u, Page[u])
      /\ \A k \in Kinds : ~(K.at[k] > Positions(u, Page[u])[k])
      /\ Beyond(u, Page[u], K) = {}
  BY DEF HasNews, Reset, Changes
<1>2. /\ K.epoch \in Nat /\ K.at \in [Kinds -> Nat]
      /\ Scope(u, Page[u]) = Mine(u)
  BY AccessIsStanding DEF Taken
<1>3. \A k \in Kinds : /\ Len(tables[k]) \in Nat
                       /\ Visible(u, Page[u], k) \in SUBSET (1..Len(tables[k]))
  BY RowsAre, VisibleAre
<1>4. ASSUME NEW c \in Mine(u), NEW i \in RowsOf("case", c)
      PROVE  ~(K.epoch = 0 \/ i < K.epoch)
  <2>1. "case" \in Kinds
    BY DEF Kinds
  <2>2. i \in Visible(u, Page[u], "case")
    BY <2>1, VisibleOf, AllReadable
  <2>3. K.epoch = Lowest(Visible(u, Page[u], "case"))
    BY <1>1 DEF Epoch
  <2>4. /\ Len(tables["case"]) \in Nat
        /\ Visible(u, Page[u], "case") \in SUBSET (1..Len(tables["case"]))
    BY <1>3, <2>1
  <2>5. /\ Lowest(Visible(u, Page[u], "case")) \in Visible(u, Page[u], "case")
        /\ Lowest(Visible(u, Page[u], "case")) <= i
    BY <2>2, <2>4, LowestIs
  <2>6. K.epoch \in 1..Len(tables["case"]) /\ i \in 1..Len(tables["case"])
    BY <2>2, <2>3, <2>4, <2>5
  <2> QED BY <2>3, <2>4, <2>5, <2>6
<1>5. ASSUME NEW c \in Mine(u), NEW k \in Kinds, NEW i \in Readable(u, k, c)
      PROVE  ~(i > K.at[k])
  <2>1. ~(Highest(Readable(u, k, c)) > K.at[k])
    BY <1>1, <1>2 DEF Beyond
  <2>2. Readable(u, k, c) \in SUBSET (1..Len(tables[k]))
    BY RowsAre DEF Readable
  <2>3. Len(tables[k]) \in Nat
    BY <1>3
  <2>4. /\ Highest(Readable(u, k, c)) \in Nat
        /\ i <= Highest(Readable(u, k, c))
    BY <2>2, <2>3, HighestIs
  <2>5. i \in Nat
    BY <2>2, <2>3
  <2> QED BY <1>2, <2>1, <2>4, <2>5
<1> QED BY <1>1, <1>4, <1>5 DEF Unread

\* ... and only then.
LEMMA UnreadOfNews ==
  ASSUME FeedInv, NEW u, u \in accounts \ disabled, NEW K, Taken(u, K), K # None,
         HasNews(u, Page[u], K)
  PROVE  Unread(u, K)
<1>1. /\ K.epoch \in Nat /\ K.at \in [Kinds -> Nat]
      /\ Scope(u, Page[u]) = Mine(u)
  BY AccessIsStanding DEF Taken
<1>2. \A k \in Kinds : /\ Len(tables[k]) \in Nat
                       /\ Visible(u, Page[u], k) \in SUBSET (1..Len(tables[k]))
  BY RowsAre, VisibleAre
<1>3. CASE K.epoch # Epoch(u, Page[u])
  <2>1. "case" \in Kinds
    BY DEF Kinds
  <2>2. K.epoch # 0 => K.epoch \in Visible(u, Page[u], "case")
    BY <2>1, VisibleOf, AllReadable DEF Taken
  <2>3. Visible(u, Page[u], "case") # {}
    BY <1>2, <1>3, <2>1, <2>2, LowestIs DEF Epoch
  <2>4. /\ Epoch(u, Page[u]) \in Visible(u, Page[u], "case")
        /\ \A i \in Visible(u, Page[u], "case") : Epoch(u, Page[u]) <= i
    BY <1>2, <2>1, <2>3, LowestIs DEF Epoch
  <2>5. Epoch(u, Page[u]) \in Nat
    BY CursorTyped
  <2>6. K.epoch = 0 \/ Epoch(u, Page[u]) < K.epoch
    BY <1>1, <1>3, <2>2, <2>4, <2>5
  <2>7. PICK c \in Mine(u) : Epoch(u, Page[u]) \in RowsOf("case", c)
    BY <2>1, <2>4, VisibleOf, AllReadable
  <2> QED BY <2>6, <2>7 DEF Unread
<1>4. ASSUME NEW k \in Kinds, K.at[k] > Positions(u, Page[u])[k]
      PROVE  FALSE
  <2>1. Positions(u, Page[u])[k] = Highest(Visible(u, Page[u], k))
    BY DEF Positions
  <2>2. Positions(u, Page[u])[k] \in Nat /\ K.at[k] \in Nat
    BY <1>1, CursorTyped
  <2>3. K.at[k] \in Visible(u, Page[u], k)
    BY <1>4, <2>2, VisibleOf DEF Taken
  <2>4. K.at[k] <= Highest(Visible(u, Page[u], k))
    BY <1>2, <2>3, HighestIs
  <2> QED BY <1>4, <2>1, <2>2, <2>4
<1>5. CASE Beyond(u, Page[u], K) # {}
  <2>1. PICK c \in Mine(u), k \in Kinds : Highest(Readable(u, k, c)) > K.at[k]
    BY <1>1, <1>5 DEF Beyond
  <2>2. Readable(u, k, c) \in SUBSET (1..Len(tables[k])) /\ K.at[k] \in Nat
    BY <1>1, RowsAre DEF Readable
  <2>3. \/ Highest(Readable(u, k, c)) = 0
        \/ Highest(Readable(u, k, c)) \in Readable(u, k, c)
    BY <1>2, <2>2, HighestIs
  <2>4. Highest(Readable(u, k, c)) \in Readable(u, k, c)
    BY <2>1, <2>2, <2>3
  <2> QED BY <2>1, <2>4 DEF Unread
<1> QED BY <1>3, <1>4, <1>5 DEF HasNews, Reset, Changes

\* A poll with no news leaves the cursor where it is.
LEMMA SameCursor ==
  ASSUME FeedInv, NEW u, NEW K, Taken(u, K), ~HasNews(u, Page[u], K)
  PROVE  Cursor(u, Page[u]) = K
<1>1. /\ K.epoch = Epoch(u, Page[u])
      /\ \A k \in Kinds : ~(K.at[k] > Positions(u, Page[u])[k])
      /\ Beyond(u, Page[u], K) = {}
  BY DEF HasNews, Reset, Changes
<1>2. /\ K \in [of : {<<u, Page[u]>>}, epoch : Nat, at : [Kinds -> Nat]]
      /\ Positions(u, Page[u]) \in [Kinds -> Nat]
  BY CursorTyped DEF Taken
<1>3. ASSUME NEW k \in Kinds
      PROVE  Positions(u, Page[u])[k] <= K.at[k]
  <2>1. Positions(u, Page[u])[k] = Highest(Visible(u, Page[u], k))
    BY DEF Positions
  <2>2. /\ Len(tables[k]) \in Nat /\ K.at[k] \in Nat
        /\ Visible(u, Page[u], k) \in SUBSET (1..Len(tables[k]))
    BY <1>2, RowsAre, VisibleAre
  <2>3. CASE Visible(u, Page[u], k) = {}
    BY <2>1, <2>2, <2>3, HighestIs
  <2>4. CASE Visible(u, Page[u], k) # {}
    <3> DEFINE top == Highest(Visible(u, Page[u], k))
    <3>1. top \in Visible(u, Page[u], k) /\ top \in Nat
      BY <2>2, <2>4, HighestIs
    <3>2. PICK c \in Scope(u, Page[u]) : top \in Readable(u, k, c)
      BY <3>1 DEF Visible
    <3>3. Readable(u, k, c) \in SUBSET (1..Len(tables[k]))
      BY RowsAre DEF Readable
    <3>4. /\ top <= Highest(Readable(u, k, c))
          /\ Highest(Readable(u, k, c)) \in Nat
      BY <2>2, <3>2, <3>3, HighestIs
    <3>5. ~(Highest(Readable(u, k, c)) > K.at[k])
      BY <1>1, <3>2 DEF Beyond
    <3> QED BY <2>1, <2>2, <3>1, <3>4, <3>5
  <2> QED BY <2>3, <2>4
<1>4. \A k \in Kinds : K.at[k] = Positions(u, Page[u])[k]
  <2> TAKE k \in Kinds
  <2>1. K.at[k] \in Nat /\ Positions(u, Page[u])[k] \in Nat
    BY <1>2
  <2> QED BY <1>1, <1>3, <2>1
<1>5. K.at = Positions(u, Page[u])
  BY <1>2, <1>4
<1>6. K.of = <<u, Page[u]>>
  BY <1>2
<1>7. K = [of |-> K.of, epoch |-> K.epoch, at |-> K.at]
  BY <1>2
<1> QED BY <1>1, <1>5, <1>6, <1>7 DEF Cursor

-----------------------------------------------------------------------------
(* A page while the feed moves on.                                         *)
LEMMA RevisionStays ==
  ASSUME FeedInv, FeedInv', Grows, NEW c
  PROVE  Revision(c) \in Nat /\ Revision(c)' \in Nat /\ Revision(c) <= Revision(c)'
<1>1. "case" \in Kinds
  BY DEF Kinds
<1>2. RowsOf("case", c) \subseteq RowsOf("case", c)'
  BY <1>1, ReadableStays
<1>3. /\ Len(tables'["case"]) \in Nat
      /\ RowsOf("case", c)' \in SUBSET (1..Len(tables'["case"]))
  BY <1>1 DEF FeedInv, RowsOf
<1>4. IsFiniteSet(RowsOf("case", c)')
  <2>1. IsFiniteSet(1..Len(tables'["case"]))
    BY <1>3, FS_Interval
  <2> QED BY <1>3, <2>1, FS_Subset
<1>5. /\ Cardinality(RowsOf("case", c)') \in Nat
      /\ Cardinality(RowsOf("case", c)) <= Cardinality(RowsOf("case", c)')
  BY <1>2, <1>4, FS_Subset, FS_CardinalityType
<1> QED BY <1>5, RevisionTyped DEF Revision

LEMMA ServedStays ==
  ASSUME FeedInv, FeedInv', Grows, Entitles, ScreenType, UNCHANGED <<reading, newest>>,
         NEW u \in Readers, NEW K, Taken(u, K), Served(u, K)
  PROVE  Served(u, K)'
<1>1. CASE Unread(u, K)'
  BY <1>1 DEF Served
<1>2. CASE ~Unread(u, K)'
  <2>1. /\ DOMAIN Latest(u) \subseteq Parts(u)
        /\ Latest(u)' = Latest(u)
    BY DEF ScreenType, LoopType, ReadingType, Latest
  <2>2. ASSUME NEW part \in DOMAIN Latest(u), Latest(u)[part].code = "OK"
        PROVE  Fits(u, part, Latest(u)[part].value)'
    <3>1. Page[u] = List <=> part = "list"
      BY <2>1 DEF Parts
    <3>2. PICK value : value = Latest(u)[part].value
      OBVIOUS
    <3>3. Fits(u, part, value)
      BY <1>2, <2>2, <3>2, NothingNew DEF Served
    <3>4. Fits(u, part, value)'
      BY <1>2, <3>1, <3>3, FitsStays
    <3>5. value = (Latest(u)[part].value)'
      BY <2>1, <3>2
    <3> QED BY <3>4, <3>5 DEF Fits, FitsAgent
  <2> QED BY <2>1, <2>2 DEF Served
<1> QED BY <1>1, <1>2

LEMMA ScreenFitsStays ==
  ASSUME FeedInv, FeedInv', Grows, Entitles, UNCHANGED screen,
         NEW u \in Readers, NEW K, Taken(u, K), ~Unread(u, K)', ScreenFits(u)
  PROVE  ScreenFits(u)'
<1>1. ASSUME NEW part, NEW value, Fits(u, part, value), Page[u] = List <=> part = "list"
      PROVE  Fits(u, part, value)'
  BY <1>1, FitsStays
<1>2. CASE Page[u] = List
  <2>1. PICK value : value = screen[u].cases
    OBVIOUS
  <2>2. Fits(u, "list", value)'
    BY <1>1, <1>2, <2>1 DEF ScreenFits, ShowsAll
  <2> QED BY <1>2, <2>1, <2>2 DEF ScreenFits, ShowsAll, Fits
<1>3. CASE Page[u] # List
  <2>1. PICK plan, agent, now : /\ plan = screen[u].plan /\ agent = screen[u].agent
                                /\ now = Revision(Page[u])
    OBVIOUS
  <2>2. Fits(u, "plan", plan) /\ Fits(u, "agent", agent) /\ Fits(u, "plan", now)
    BY <1>3, <2>1 DEF ScreenFits, ShowsAll, Fits
  <2>3. Fits(u, "plan", plan)' /\ Fits(u, "agent", agent)' /\ Fits(u, "plan", now)'
    BY <1>1, <1>3, <2>2
  <2>4. now = Revision(Page[u])'
    BY <2>3 DEF Fits
  <2>5. screen'[u].cases = [d \in {Page[u]} |-> now]
    BY <1>3, <2>1 DEF ScreenFits, ShowsAll
  <2>6. plan = screen'[u].plan /\ agent = screen'[u].agent
    BY <2>1
  <2>7. Fits(u, "plan", screen[u].plan)' /\ Fits(u, "agent", screen[u].agent)'
    BY <2>3, <2>6 DEF Fits, FitsAgent
  <2> QED BY <1>3, <2>4, <2>5, <2>7 DEF ScreenFits, ShowsAll
<1> QED BY <1>2, <1>3

LEMMA FeedKeepsPage ==
  ASSUME FeedInv, FeedInv', Grows, Entitles, ScreenType,
         UNCHANGED <<sync, reading, newest, screen, failed>>,
         NEW u \in Readers, CursorInv(u), PageInv(u)
  PROVE  CursorInv(u)' /\ PageInv(u)'
<1>1. PICK K, N : K = sync[u].cursor /\ N = sync[u].next
  OBVIOUS
<1>2. K = sync'[u].cursor /\ N = sync'[u].next /\ sync'[u].pc = sync[u].pc
  BY <1>1
<1>3. K # None => Taken(u, K) /\ Served(u, K)
  BY <1>1 DEF CursorInv
<1>4. sync[u].pc = "APPLY" => Taken(u, N) /\ Served(u, N)
  BY <1>1 DEF CursorInv
<1>5. K # None => Taken(u, K)' /\ Served(u, K)'
  BY <1>3, TakenStays, ServedStays
<1>6. sync[u].pc = "APPLY" => Taken(u, N)' /\ Served(u, N)'
  BY <1>4, TakenStays, ServedStays
<1>7. sync[u].pc = "APPLY" /\ Page[u] # List /\ K # None => Unread(u, K)'
  BY <1>1, UnreadStays DEF CursorInv
<1>8. CursorInv(u)'
  <2>1. reading'[u]["sync"].under => sync'[u].pc = "APPLY"
    BY DEF CursorInv
  <2>2. /\ (Taken(u, sync[u].cursor)' <=> Taken(u, K)')
        /\ (Taken(u, sync[u].next)' <=> Taken(u, N)')
        /\ (Served(u, sync[u].cursor)' <=> Served(u, K)')
        /\ (Served(u, sync[u].next)' <=> Served(u, N)')
        /\ (Unread(u, sync[u].cursor)' <=> Unread(u, K)')
    BY <1>2 DEF Taken, Served, Unread
  <2> QED BY <1>2, <1>5, <1>6, <1>7, <2>1, <2>2 DEF CursorInv
<1>9. Asked(u)' = Asked(u) /\ failed'[u] = failed[u] /\ newest'[u] = newest[u]
  BY DEF Asked
<1>10. K # None => Unread(u, K)' \/ ScreenFits(u)' \/ failed[u] \/ Asked(u)
  BY <1>1, <1>3, UnreadStays, ScreenFitsStays DEF PageInv
<1>11. sync[u].pc = "APPLY" /\ newest[u] = "user" =>
         Unread(u, N)' \/ ScreenFits(u)' \/ failed[u] \/ Asked(u)
  BY <1>1, <1>4, UnreadStays, ScreenFitsStays DEF PageInv
<1>12. Page[u] # List => InOrder(u)' /\ ServedKnown(u)'
  <2>1. /\ Revision(Page[u]) \in Nat /\ Revision(Page[u])' \in Nat
        /\ Revision(Page[u]) <= Revision(Page[u])'
    BY RevisionStays
  <2>2. Latest(u)' = Latest(u) /\ screen'[u] = screen[u]
    BY DEF Latest
  <2>3. 0..Revision(Page[u]) \subseteq 0..Revision(Page[u])'
    BY <2>1
  <2> QED BY <2>2, <2>3 DEF PageInv, InOrder, ServedKnown
<1>13. PageInv(u)'
  <2>1. /\ (Unread(u, sync[u].cursor)' <=> Unread(u, K)')
        /\ (Unread(u, sync[u].next)' <=> Unread(u, N)')
    BY <1>2 DEF Unread
  <2> QED BY <1>2, <1>9, <1>10, <1>11, <1>12, <2>1 DEF PageInv
<1> QED BY <1>8, <1>13

-----------------------------------------------------------------------------
(* The steps of a page.                                                    *)

\* Where the tables stay, what is said of a cursor depends on nothing else.
LEMMA SameFeed ==
  ASSUME UNCHANGED feedVars, NEW u, NEW K
  PROVE  /\ Taken(u, K)' <=> Taken(u, K)
         /\ Unread(u, K)' <=> Unread(u, K)
         /\ Revision(Page[u])' = Revision(Page[u])
         /\ \A part, value : Fits(u, part, value)' <=> Fits(u, part, value)
<1> USE DEF feedVars, accountVars
<1>1. \A k, c : RowsOf(k, c)' = RowsOf(k, c)
  BY DEF RowsOf
<1>2. \A c : (Standing(u, c)' <=> Standing(u, c)) /\ Revision(c)' = Revision(c)
  BY <1>1 DEF Standing, Revision
<1>3. Mine(u)' = Mine(u)
  BY <1>2 DEF Mine
<1>4. \A k, c : Readable(u, k, c)' = Readable(u, k, c)
  BY <1>1 DEF Readable
<1>5. \A c : SimilarFor(u, c)' = SimilarFor(u, c) /\ Talks(u, c)' = Talks(u, c)
  BY <1>1, <1>2 DEF SimilarFor, Talks
<1>6. \A part, value : Fits(u, part, value)' <=> Fits(u, part, value)
  BY <1>1, <1>2, <1>3, <1>5 DEF Fits, FitsAgent
<1> QED BY <1>1, <1>2, <1>3, <1>4, <1>6 DEF Taken, Unread

\* A page keeps what is its own.
LEMMA SamePage ==
  ASSUME UNCHANGED feedVars, NEW u, CursorInv(u), PageInv(u),
         sync'[u] = sync[u], reading'[u] = reading[u], newest'[u] = newest[u],
         screen'[u] = screen[u], failed'[u] = failed[u]
  PROVE  CursorInv(u)' /\ PageInv(u)'
<1>1. PICK K, N, seen : K = sync[u].cursor /\ N = sync[u].next /\ seen = screen[u]
  OBVIOUS
<1>2. K = sync'[u].cursor /\ N = sync'[u].next /\ seen = screen'[u]
  BY <1>1
<1>3. Latest(u)' = Latest(u) /\ (Asked(u)' <=> Asked(u))
  BY DEF Latest, Asked
<1>4. (Served(u, K)' <=> Served(u, K)) /\ (Served(u, N)' <=> Served(u, N))
  BY <1>3, SameFeed DEF Served
<1>5. ScreenFits(u)' <=> ScreenFits(u)
  BY <1>1, <1>2, SameFeed DEF ScreenFits, ShowsAll
<1>6. (InOrder(u)' <=> InOrder(u)) /\ (ServedKnown(u)' <=> ServedKnown(u))
  <2>1. Revision(Page[u])' = Revision(Page[u])
    BY SameFeed
  <2> QED BY <1>3, <2>1 DEF InOrder, ServedKnown
<1>7. CursorInv(u)'
  BY <1>1, <1>2, <1>4, SameFeed DEF CursorInv
<1>8. PageInv(u)'
  BY <1>1, <1>2, <1>3, <1>5, <1>6, SameFeed DEF PageInv
<1> QED BY <1>7, <1>8

\* The loop goes on with the cursor it has.
LEMMA LoopKeeps ==
  ASSUME UNCHANGED feedVars, NEW u, CursorInv(u), PageInv(u),
         sync[u].pc # "APPLY", sync'[u].pc # "APPLY", sync'[u].cursor = sync[u].cursor,
         reading'[u] = reading[u], newest'[u] = newest[u],
         screen'[u] = screen[u], failed'[u] = failed[u]
  PROVE  CursorInv(u)' /\ PageInv(u)'
<1>1. PICK K, seen : K = sync[u].cursor /\ seen = screen[u]
  OBVIOUS
<1>2. K = sync'[u].cursor /\ seen = screen'[u]
  BY <1>1
<1>3. Latest(u)' = Latest(u) /\ (Asked(u)' <=> Asked(u))
  BY DEF Latest, Asked
<1>4. Served(u, K)' <=> Served(u, K)
  BY <1>3, SameFeed DEF Served
<1>5. ScreenFits(u)' <=> ScreenFits(u)
  BY <1>1, <1>2, SameFeed DEF ScreenFits, ShowsAll
<1>6. (InOrder(u)' <=> InOrder(u)) /\ (ServedKnown(u)' <=> ServedKnown(u))
  <2>1. Revision(Page[u])' = Revision(Page[u])
    BY SameFeed
  <2> QED BY <1>3, <2>1 DEF InOrder, ServedKnown
<1>7. CursorInv(u)'
  BY <1>1, <1>2, <1>4, SameFeed DEF CursorInv
<1>8. PageInv(u)'
  BY <1>1, <1>2, <1>3, <1>5, <1>6, SameFeed DEF PageInv
<1> QED BY <1>7, <1>8

LEMMA AskKeeps ==
  ASSUME ScreenType, NEW u \in Readers, CursorInv(u), PageInv(u), Ask(u)
  PROVE  CursorInv(u)' /\ PageInv(u)'
<1>1. sync'[u].pc # "APPLY" /\ sync'[u].cursor = sync[u].cursor /\ sync[u].pc # "APPLY"
  BY DEF Ask, ScreenType, LoopType, ReadingType
<1> QED BY <1>1, LoopKeeps DEF Ask

LEMMA PollFailsKeeps ==
  ASSUME ScreenType, NEW u \in Readers, CursorInv(u), PageInv(u), PollFails(u)
  PROVE  CursorInv(u)' /\ PageInv(u)'
<1>1. sync'[u].pc # "APPLY" /\ sync'[u].cursor = sync[u].cursor /\ sync[u].pc # "APPLY"
  BY DEF PollFails, ScreenType, LoopType, ReadingType
<1> QED BY <1>1, LoopKeeps DEF PollFails

LEMMA ToldKeeps ==
  ASSUME FeedInv, ScreenType, NEW u \in Readers, CursorInv(u), PageInv(u), Told(u)
  PROVE  CursorInv(u)' /\ PageInv(u)'
<1> DEFINE cursor == Cursor(u, Page[u])
<1>1. PICK K : K = sync[u].cursor
  OBVIOUS
<1>2. /\ sync[u].pc = "WAIT" /\ UNCHANGED feedVars /\ screen' = screen
      /\ K # None => Taken(u, K)
  BY <1>1 DEF Told, CursorInv
<1>3. Baseline(u, Page[u], K) = K
  <2>1. K # None => K.of = <<u, Page[u]>>
    BY <1>2 DEF Taken
  <2> QED BY <2>1 DEF Baseline
<1>4. CASE FeedRefuses(u, Page[u])
  <2>1. /\ sync' = [sync EXCEPT ![u] = Loop("STOPPED", K)]
        /\ UNCHANGED <<reading, newest, failed>>
    BY <1>1, <1>4 DEF Told
  <2>2. sync'[u].pc # "APPLY" /\ sync'[u].cursor = sync[u].cursor
    BY <1>1, <2>1 DEF ScreenType, LoopType, ReadingType, Loop
  <2> QED BY <1>2, <2>1, <2>2, LoopKeeps
<1>5. CASE ~FeedRefuses(u, Page[u]) /\ ~HasNews(u, Page[u], K)
  <2>1. /\ sync' = [sync EXCEPT ![u] = Loop("ASK", cursor)]
        /\ UNCHANGED <<reading, newest, failed>>
    BY <1>1, <1>3, <1>5 DEF Told
  <2>2. K # None
    BY <1>5 DEF HasNews, Reset
  <2>3. cursor = K
    BY <1>2, <1>5, <2>2, SameCursor
  <2>4. sync'[u].pc # "APPLY" /\ sync'[u].cursor = sync[u].cursor
    BY <1>1, <2>1, <2>3 DEF ScreenType, LoopType, ReadingType, Loop
  <2> QED BY <1>2, <2>1, <2>4, LoopKeeps
<1>6. CASE ~FeedRefuses(u, Page[u]) /\ HasNews(u, Page[u], K)
  <2>1. /\ sync' = [sync EXCEPT ![u].pc = "APPLY", ![u].next = cursor]
        /\ reading' = [reading EXCEPT ![u]["sync"] = [under |-> TRUE, got |-> <<>>]]
        /\ newest' = [newest EXCEPT ![u] = "sync"]
        /\ failed' = [failed EXCEPT ![u] = failed[u] \/ Asked(u)]
    BY <1>1, <1>3, <1>6 DEF Told, Begins
  <2>2. PICK N : N = cursor
    OBVIOUS
  <2>3. sync'[u].pc = "APPLY" /\ sync'[u].cursor = K /\ sync'[u].next = N
    BY <1>1, <2>1, <2>2 DEF ScreenType, LoopType, ReadingType
  <2>4. newest'[u] = "sync" /\ Latest(u)' = <<>> /\ (failed'[u] <=> failed[u] \/ Asked(u))
    BY <2>1 DEF ScreenType, LoopType, ReadingType, Latest, Whose
  <2>5. DOMAIN Latest(u)' = {}
    BY <2>4
  <2>6. Taken(u, N)
    BY <1>6, <2>2, CursorTaken
  <2>7. Page[u] # List /\ K # None => Unread(u, K)
    <3>1. Page[u] # List => u \in accounts \ disabled
      BY <1>6 DEF FeedRefuses, Scope, CanAccess, Acting
    <3> QED BY <1>2, <1>6, <3>1, UnreadOfNews
  <2>8. CursorInv(u)'
    BY <1>2, <2>3, <2>5, <2>6, <2>7, SameFeed DEF CursorInv, Served
  <2>9. K # None => Unread(u, K)' \/ ScreenFits(u)' \/ failed'[u]
    <3>1. PICK seen : seen = screen[u] /\ seen = screen'[u]
      BY <1>2
    <3>2. ScreenFits(u)' <=> ScreenFits(u)
      BY <1>2, <3>1, SameFeed DEF ScreenFits, ShowsAll
    <3> QED BY <1>1, <1>2, <2>4, <3>2, SameFeed DEF PageInv
  <2>10. Page[u] # List => InOrder(u)' /\ ServedKnown(u)'
    BY <1>2, <2>5, SameFeed DEF PageInv, InOrder, ServedKnown
  <2>11. PageInv(u)'
    BY <1>2, <2>3, <2>4, <2>9, <2>10 DEF PageInv
  <2> QED BY <2>8, <2>11
<1> QED BY <1>4, <1>5, <1>6

LEMMA RereadsKeeps ==
  ASSUME ScreenType, NEW u \in Readers, CursorInv(u), PageInv(u), Rereads(u)
  PROVE  CursorInv(u)' /\ PageInv(u)'
<1>1. /\ UNCHANGED feedVars /\ sync' = sync /\ screen' = screen /\ failed' = failed
      /\ reading' = [reading EXCEPT ![u]["user"] = [under |-> TRUE, got |-> <<>>]]
      /\ newest' = [newest EXCEPT ![u] = "user"]
  BY DEF Rereads, Begins
<1>2. PICK K, N : K = sync[u].cursor /\ N = sync[u].next
  OBVIOUS
<1>3. K = sync'[u].cursor /\ N = sync'[u].next
  BY <1>1, <1>2
<1>4. /\ Latest(u)' = <<>> /\ Asked(u)'
      /\ reading'[u]["sync"] = reading[u]["sync"]
  BY <1>1 DEF ScreenType, LoopType, ReadingType, Latest, Asked, Whose
<1>5. DOMAIN Latest(u)' = {}
  BY <1>4
<1>6. CursorInv(u)'
  BY <1>1, <1>2, <1>3, <1>4, <1>5, SameFeed DEF CursorInv, Served
<1>7. Page[u] # List => InOrder(u)' /\ ServedKnown(u)'
  BY <1>1, <1>5, SameFeed DEF PageInv, InOrder, ServedKnown
<1>8. PageInv(u)'
  BY <1>4, <1>7 DEF PageInv
<1> QED BY <1>6, <1>8

LEMMA ReloadKeeps ==
  ASSUME ScreenType, NEW u \in Readers, Reload(u)
  PROVE  CursorInv(u)' /\ PageInv(u)'
<1>1. /\ sync'[u].pc = "ASK" /\ sync'[u].cursor = None
      /\ reading'[u] = [w \in Whose |-> Resting]
      /\ newest'[u] \in Whose /\ screen'[u] = Blank
  BY DEF Reload, ScreenType, LoopType, ReadingType, Loop
<1>2. /\ Latest(u)' = <<>> /\ ~reading'[u]["sync"].under
  BY <1>1 DEF Latest, Resting, Whose
<1>3. DOMAIN Latest(u)' = {} /\ DOMAIN screen'[u].cases = {}
  BY <1>1, <1>2 DEF Blank
<1>4. CursorInv(u)'
  BY <1>1, <1>2 DEF CursorInv
<1>5. PageInv(u)'
  BY <1>1, <1>3 DEF PageInv, InOrder, ServedKnown
<1> QED BY <1>4, <1>5

\* What a request answers is what there is.
LEMMA RequestFits ==
  ASSUME FeedInv, NEW u, NEW part \in Parts(u),
         NEW served \in {Request(u, part), Got("TROUBLE", None)}, served.code = "OK"
  PROVE  /\ Fits(u, part, served.value)
         /\ part = "case" => served.value = Revision(Page[u])
<1>1. served = Request(u, part)
  BY DEF Got
<1>2. Resolves(u) /\ served.value = Answer(u, part)
  BY <1>1 DEF Request, Got
<1>3. part = "case" => Answer(u, part) = Revision(Page[u])
  BY DEF Answer
<1> QED BY <1>2, <1>3, AnswerFits

LEMMA ServeKeeps ==
  ASSUME FeedInv, ScreenType, NEW u \in Readers, CursorInv(u), PageInv(u),
         NEW who \in Whose, NEW part \in Parts(u), Serve(u, who, part)
  PROVE  CursorInv(u)' /\ PageInv(u)'
<1>1. PICK served \in {Request(u, part), Got("TROUBLE", None)} :
        reading' = [reading EXCEPT ![u][who].got =
          [p \in DOMAIN reading[u][who].got \union {part} |->
             IF p = part THEN served ELSE reading[u][who].got[p]]]
  BY DEF Serve
<1>2. /\ UNCHANGED feedVars /\ UNCHANGED <<sync, newest, screen, failed>>
      /\ part \notin DOMAIN reading[u][who].got
  BY DEF Serve
<1>3. /\ \A w \in Whose : reading'[u][w].under = reading[u][w].under
      /\ \A w \in Whose \ {who} : reading'[u][w] = reading[u][w]
      /\ reading'[u][who].got = [p \in DOMAIN reading[u][who].got \union {part} |->
                                   IF p = part THEN served ELSE reading[u][who].got[p]]
  <2>1. PICK got : got = [p \in DOMAIN reading[u][who].got \union {part} |->
                            IF p = part THEN served ELSE reading[u][who].got[p]]
    OBVIOUS
  <2>2. reading' = [reading EXCEPT ![u][who].got = got]
    BY <1>1, <2>1
  <2>3. /\ u \in DOMAIN reading /\ who \in DOMAIN reading[u] /\ DOMAIN reading[u] = Whose
        /\ \A w \in Whose : DOMAIN reading[u][w] = {"under", "got"}
    BY DEF ScreenType, LoopType, ReadingType
  <2>4. reading'[u] = [reading[u] EXCEPT ![who].got = got]
    BY <2>2, <2>3
  <2>5. reading'[u][who] = [reading[u][who] EXCEPT !.got = got]
    BY <2>3, <2>4
  <2>6. \A w \in Whose \ {who} : reading'[u][w] = reading[u][w]
    BY <2>3, <2>4
  <2>7. reading'[u][who].got = got /\ reading'[u][who].under = reading[u][who].under
    BY <2>3, <2>5
  <2> QED BY <2>1, <2>6, <2>7
<1>4. newest[u] \in Whose
  BY DEF ScreenType, LoopType, ReadingType
<1>5. Asked(u)' <=> Asked(u)
  BY <1>2, <1>3 DEF Asked, Whose
<1>6. served.code = "OK" =>
        /\ Fits(u, part, served.value)
        /\ part = "case" => served.value = Revision(Page[u])
  BY RequestFits
<1>7. ASSUME NEW p \in DOMAIN Latest(u)'
      PROVE  \/ p \in DOMAIN Latest(u) /\ Latest(u)'[p] = Latest(u)[p]
             \/ p = part /\ Latest(u)'[p] = served
  <2>1. CASE newest[u] = who
    <3>1. /\ Latest(u) = reading[u][who].got /\ Latest(u)' = reading'[u][who].got
      BY <1>2, <2>1 DEF Latest
    <3> QED BY <1>3, <1>7, <3>1
  <2>2. CASE newest[u] # who
    <3>1. Latest(u)' = Latest(u)
      BY <1>2, <1>3, <1>4, <2>2 DEF Latest
    <3> QED BY <1>7, <3>1
  <2> QED BY <2>1, <2>2
<1>8. ASSUME NEW K, Served(u, K)
      PROVE  Served(u, K)'
  <2>1. CASE Unread(u, K)
    BY <1>2, <2>1, SameFeed DEF Served
  <2>2. CASE ~Unread(u, K)
    <3>1. ASSUME NEW p \in DOMAIN Latest(u)', Latest(u)'[p].code = "OK"
          PROVE  Fits(u, p, Latest(u)'[p].value)
      BY <1>6, <1>7, <1>8, <2>2, <3>1 DEF Served
    <3> QED BY <1>2, <3>1, SameFeed DEF Served
  <2> QED BY <2>1, <2>2
<1>9. PICK K, N, seen : K = sync[u].cursor /\ N = sync[u].next /\ seen = screen[u]
  OBVIOUS
<1>10. K = sync'[u].cursor /\ N = sync'[u].next /\ seen = screen'[u]
  BY <1>2, <1>9
<1>11. CursorInv(u)'
  <2>1. reading'[u]["sync"].under = reading[u]["sync"].under
    BY <1>3 DEF Whose
  <2>2. K # None => Taken(u, K)' /\ Served(u, K)'
    BY <1>2, <1>8, <1>9, SameFeed DEF CursorInv
  <2>3. sync[u].pc = "APPLY" => Taken(u, N)' /\ Served(u, N)'
    BY <1>2, <1>8, <1>9, SameFeed DEF CursorInv
  <2>4. /\ (Taken(u, sync[u].cursor)' <=> Taken(u, K)')
        /\ (Taken(u, sync[u].next)' <=> Taken(u, N)')
        /\ (Served(u, sync[u].cursor)' <=> Served(u, K)')
        /\ (Served(u, sync[u].next)' <=> Served(u, N)')
        /\ (Unread(u, sync[u].cursor)' <=> Unread(u, K))
    BY <1>2, <1>10, SameFeed DEF Taken, Served, Unread
  <2> QED BY <1>2, <1>9, <2>1, <2>2, <2>3, <2>4 DEF CursorInv
<1>12. ScreenFits(u)' <=> ScreenFits(u)
  BY <1>2, <1>9, <1>10, SameFeed DEF ScreenFits, ShowsAll
<1>13. ASSUME Page[u] # List
       PROVE  InOrder(u)' /\ ServedKnown(u)'
  <2>1. Revision(Page[u])' = Revision(Page[u]) /\ Revision(Page[u]) \in Nat
    BY <1>2, SameFeed, RevisionTyped
  <2>2. InOrder(u) /\ ServedKnown(u)
    BY <1>13 DEF PageInv
  <2>3. ASSUME "case" \in DOMAIN Latest(u)', Latest(u)'["case"].code = "OK"
        PROVE  /\ Latest(u)'["case"].value \in 0..Revision(Page[u])
               /\ Page[u] \in DOMAIN screen[u].cases =>
                    screen[u].cases[Page[u]] <= Latest(u)'["case"].value
    <3>1. CASE "case" \in DOMAIN Latest(u) /\ Latest(u)'["case"] = Latest(u)["case"]
      BY <2>2, <2>3, <3>1 DEF InOrder, ServedKnown
    <3>2. CASE part = "case" /\ Latest(u)'["case"] = served
      <4>1. Latest(u)'["case"].value = Revision(Page[u])
        BY <1>6, <2>3, <3>2
      <4>2. Page[u] \in DOMAIN screen[u].cases =>
              screen[u].cases[Page[u]] \in 0..Revision(Page[u])
        BY <2>2 DEF InOrder
      <4> QED BY <2>1, <4>1, <4>2
    <3> QED BY <1>7, <2>3, <3>1, <3>2
  <2> QED BY <1>2, <2>1, <2>2, <2>3 DEF InOrder, ServedKnown
<1>14. PageInv(u)'
  BY <1>2, <1>5, <1>9, <1>10, <1>12, <1>13, SameFeed DEF PageInv
<1> QED BY <1>11, <1>14

\* The reading that is shown: when it ends well the screen shows all there
\* was, and when the list's ends badly nothing is shown.
LEMMA ShownOutcome ==
  ASSUME FeedInv, ScreenType, NEW u \in Readers, PageInv(u), NEW who \in Whose,
         newest[u] = who, DOMAIN reading[u][who].got = Parts(u),
         NEW out, out = Outcome(u, who)
  PROVE  /\ out.result \in {"DONE", "RETRY", "STOP"}
         /\ out.result = "DONE" =>
              \A K : Served(u, K) => Unread(u, K) \/ ShowsAll(u, out.screen)
         /\ out.result # "DONE" /\ Page[u] = List => out.screen = screen[u]
         /\ Page[u] # List /\ Page[u] \in DOMAIN out.screen.cases =>
              /\ out.screen.cases[Page[u]] \in 0..Revision(Page[u])
              /\ Page[u] \in DOMAIN screen[u].cases =>
                   screen[u].cases[Page[u]] <= out.screen.cases[Page[u]]
<1> DEFINE c == Page[u]
<1>1. PICK got : got = reading[u][who].got
  OBVIOUS
<1>2. Latest(u) = got /\ DOMAIN got = Parts(u) /\ ~Superseded(u, who)
  BY <1>1 DEF Latest, Superseded
<1>3. \A K : Served(u, K) =>
        \/ Unread(u, K)
        \/ \A part \in Parts(u) :
             got[part].code = "OK" => Fits(u, part, got[part].value)
  BY <1>2 DEF Served
<1>4. CASE Page[u] = List
  <2>1. out = ListOutcome(u, who, got) /\ Parts(u) = {"list"}
    BY <1>1, <1>4 DEF Outcome, Parts
  <2>2. CASE got["list"].code # "OK"
    <3>1. out = Left(Failure(got["list"].code), screen[u])
      BY <2>1, <2>2 DEF ListOutcome
    <3>2. out.result \in {"STOP", "RETRY"} /\ out.screen = screen[u]
      BY <3>1 DEF Left, Failure
    <3> QED BY <1>4, <3>2
  <2>3. CASE got["list"].code = "OK"
    <3>1. out = Left("DONE", [Blank EXCEPT !.cases = got["list"].value])
      BY <1>2, <2>1, <2>3 DEF ListOutcome
    <3>2. out.result = "DONE" /\ out.screen.cases = got["list"].value
      BY <3>1 DEF Left, Blank
    <3>3. ASSUME NEW K, Served(u, K)
          PROVE  Unread(u, K) \/ ShowsAll(u, out.screen)
      BY <1>3, <1>4, <2>1, <2>3, <3>2, <3>3 DEF ShowsAll
    <3> QED BY <1>4, <3>2, <3>3
  <2> QED BY <2>2, <2>3
<1>5. CASE Page[u] # List
  <2>1. out = CaseOutcome(u, who, got) /\ Parts(u) = {"case", "plan", "agent"}
    BY <1>1, <1>5 DEF Outcome, Parts
  <2>2. InOrder(u) /\ ServedKnown(u) /\ Revision(c) \in Nat
    BY <1>5, RevisionTyped DEF PageInv
  <2>3. CASE got["case"].code # "OK"
    <3>1. out = Left(Failure(got["case"].code),
                     IF got["case"].code = "NOT_FOUND" THEN Blank ELSE screen[u])
      BY <1>2, <2>1, <2>3 DEF CaseOutcome
    <3>2. out.result \in {"STOP", "RETRY"} /\ out.screen \in {Blank, screen[u]}
      BY <3>1 DEF Left, Failure
    <3>3. DOMAIN Blank.cases = {}
      BY DEF Blank
    <3>4. c \in DOMAIN out.screen.cases =>
            /\ out.screen.cases[c] \in 0..Revision(c)
            /\ c \in DOMAIN screen[u].cases => screen[u].cases[c] <= out.screen.cases[c]
      BY <2>2, <3>2, <3>3 DEF InOrder
    <3> QED BY <1>5, <3>2, <3>4
  <2>4. CASE got["case"].code = "OK"
    <3>1. got["case"].value \in 0..Revision(c)
      BY <1>2, <2>1, <2>2, <2>4 DEF ServedKnown
    <3>2. ~(c \in DOMAIN screen[u].cases /\ got["case"].value < screen[u].cases[c])
      <4>1. c \in DOMAIN screen[u].cases =>
              /\ screen[u].cases[c] \in 0..Revision(c)
              /\ screen[u].cases[c] <= got["case"].value
        BY <1>2, <2>1, <2>2, <2>4 DEF InOrder
      <4> QED BY <2>2, <3>1, <4>1
    <3>3. out = Left(Whole(u, got), CaseScreen(c, got))
      BY <1>2, <2>1, <2>4, <3>2 DEF CaseOutcome
    <3>4. out.result = Whole(u, got) /\ out.screen = CaseScreen(c, got)
      BY <3>3 DEF Left
    <3>5. Whole(u, got) \in {"DONE", "RETRY", "STOP"}
      BY DEF Whole, Failure
    <3>6. /\ out.screen.cases = [d \in {c} |-> got["case"].value]
          /\ out.screen.agent = got["agent"].value
      BY <3>4 DEF CaseScreen
    <3>7. c \in DOMAIN out.screen.cases =>
            /\ out.screen.cases[c] \in 0..Revision(c)
            /\ c \in DOMAIN screen[u].cases => screen[u].cases[c] <= out.screen.cases[c]
      BY <1>2, <2>1, <2>2, <2>4, <3>1, <3>6 DEF InOrder
    <3>8. ASSUME Whole(u, got) = "DONE", NEW K, Served(u, K)
          PROVE  Unread(u, K) \/ ShowsAll(u, out.screen)
      <4>1. /\ got["agent"].code = "OK" /\ got["plan"].code = "OK"
            /\ got["plan"].value = got["case"].value
        BY <3>8 DEF Whole, Failure
      <4>2. out.screen.plan = got["plan"].value
        BY <3>4, <4>1 DEF CaseScreen
      <4>3. CASE ~Unread(u, K)
        <5>1. /\ Fits(u, "case", got["case"].value) /\ Fits(u, "plan", got["plan"].value)
              /\ Fits(u, "agent", got["agent"].value)
          BY <1>3, <2>1, <2>4, <3>8, <4>1, <4>3
        <5>2. got["case"].value = Revision(c)
          BY <5>1 DEF Fits
        <5>3. out.screen.cases = [d \in {c} |-> Revision(c)]
          BY <3>6, <5>2
        <5>4. Fits(u, "plan", out.screen.plan) /\ Fits(u, "agent", out.screen.agent)
          BY <3>6, <4>2, <5>1
        <5> QED BY <1>5, <5>3, <5>4 DEF ShowsAll
      <4> QED BY <4>3
    <3> QED BY <1>5, <3>4, <3>5, <3>7, <3>8
  <2> QED BY <2>3, <2>4
<1> QED BY <1>4, <1>5

\* A reading another has taken the place of leaves the screen alone.
LEMMA SupersededOutcome ==
  ASSUME NEW u, NEW who, Superseded(u, who), NEW out, out = Outcome(u, who)
  PROVE  out.screen = screen[u] /\ out.result \in {"DONE", "RETRY", "STOP"}
<1>1. PICK got : got = reading[u][who].got
  OBVIOUS
<1>2. CASE Page[u] = List
  <2>1. out \in {Left("DONE", screen[u]), Left(Failure(got["list"].code), screen[u])}
    BY <1>1, <1>2 DEF Outcome, ListOutcome
  <2> QED BY <2>1 DEF Left, Failure
<1>3. CASE Page[u] # List
  <2>1. out = Left("DONE", screen[u])
    BY <1>3 DEF Outcome, CaseOutcome
  <2> QED BY <2>1 DEF Left
<1> QED BY <1>2, <1>3

\* What the end of a reading does to the loop.
LEMMA FollowIs ==
  ASSUME ScreenType, NEW u \in Readers, NEW result \in {"DONE", "RETRY", "STOP"},
         sync' = Follow(u, result)
  PROVE  /\ sync'[u].pc \in {"ASK", "STOPPED"}
         /\ result = "DONE" => sync'[u].cursor = sync[u].next
         /\ result # "DONE" => sync'[u].cursor = sync[u].cursor
<1>1. CASE result = "DONE"
  <2>1. sync'[u] = Loop("ASK", sync[u].next)
    BY <1>1 DEF Follow, ScreenType, LoopType, ReadingType
  <2> QED BY <1>1, <2>1 DEF Loop
<1>2. CASE result = "RETRY"
  <2>1. sync'[u] = Loop("ASK", sync[u].cursor)
    BY <1>2 DEF Follow, ScreenType, LoopType, ReadingType
  <2> QED BY <1>2, <2>1 DEF Loop
<1>3. CASE result = "STOP"
  <2>1. sync'[u] = Loop("STOPPED", sync[u].cursor)
    BY <1>3 DEF Follow, ScreenType, LoopType, ReadingType
  <2> QED BY <1>3, <2>1 DEF Loop
<1> QED BY <1>1, <1>2, <1>3

LEMMA SettleIs ==
  ASSUME ScreenType, NEW u \in Readers, NEW who \in Whose, Settle(u, who)
  PROVE  \E out :
           /\ out = Outcome(u, who)
           /\ screen'[u] = out.screen
           /\ sync' = IF who = "sync" THEN Follow(u, out.result) ELSE sync
           /\ Superseded(u, who) => failed'[u] = failed[u]
           /\ ~Superseded(u, who) =>
                 (failed'[u] <=> out.result # "DONE" /\ (failed[u] \/ who = "user"))
           /\ reading'[u][who] = Resting
           /\ \A w \in Whose \ {who} : reading'[u][w] = reading[u][w]
           /\ newest' = newest /\ UNCHANGED feedVars
           /\ reading[u][who].under /\ DOMAIN reading[u][who].got = Parts(u)
<1>1. PICK out : out = Outcome(u, who)
  OBVIOUS
<1>2. /\ screen' = [screen EXCEPT ![u] = out.screen]
      /\ sync' = IF who = "sync" THEN Follow(u, out.result) ELSE sync
      /\ failed' = IF Superseded(u, who) THEN failed
                   ELSE [failed EXCEPT ![u] = out.result # "DONE" /\ (failed[u] \/ who = "user")]
      /\ reading' = [reading EXCEPT ![u][who] = Resting]
      /\ newest' = newest /\ UNCHANGED feedVars
      /\ reading[u][who].under /\ DOMAIN reading[u][who].got = Parts(u)
  BY <1>1 DEF Settle
<1>3. screen'[u] = out.screen
  BY <1>2 DEF ScreenType, LoopType, ReadingType
<1>4. /\ reading'[u][who] = Resting
      /\ \A w \in Whose \ {who} : reading'[u][w] = reading[u][w]
  BY <1>2 DEF ScreenType, LoopType, ReadingType
<1>5. ~Superseded(u, who) => (failed'[u] <=> out.result # "DONE" /\ (failed[u] \/ who = "user"))
  BY <1>2 DEF ScreenType, LoopType, ReadingType
<1> QED BY <1>1, <1>2, <1>3, <1>4, <1>5

\* The reading of the feed ends after one of the user's has begun.
LEMMA LateSyncKeeps ==
  ASSUME FeedInv, ScreenType, NEW u \in Readers, CursorInv(u), PageInv(u),
         Settle(u, "sync"), newest[u] = "user"
  PROVE  CursorInv(u)' /\ PageInv(u)'
<1>1. "sync" \in Whose /\ "user" \in Whose /\ Superseded(u, "sync")
  BY DEF Whose, Superseded
<1>2. PICK out :
        /\ out = Outcome(u, "sync") /\ screen'[u] = out.screen
        /\ sync' = Follow(u, out.result) /\ failed'[u] = failed[u]
        /\ reading'[u]["sync"] = Resting /\ reading'[u]["user"] = reading[u]["user"]
        /\ newest' = newest /\ UNCHANGED feedVars /\ reading[u]["sync"].under
  BY <1>1, SettleIs DEF Whose
<1>3. out.screen = screen[u] /\ out.result \in {"DONE", "RETRY", "STOP"}
  BY <1>1, <1>2, SupersededOutcome
<1>4. PICK K, N, seen : K = sync[u].cursor /\ N = sync[u].next /\ seen = screen[u]
  OBVIOUS
<1>5. /\ sync[u].pc = "APPLY" /\ sync'[u].pc # "APPLY"
      /\ sync'[u].cursor \in {K, N} /\ seen = screen'[u]
  BY <1>2, <1>3, <1>4, FollowIs DEF CursorInv
<1>6. Latest(u)' = Latest(u) /\ (Asked(u)' <=> Asked(u))
  BY <1>2 DEF Latest, Asked
<1>7. /\ K # None => Taken(u, K) /\ Served(u, K)
      /\ Taken(u, N) /\ Served(u, N)
  BY <1>4, <1>5 DEF CursorInv
<1>8. /\ K # None => Unread(u, K) \/ ScreenFits(u) \/ failed[u] \/ Asked(u)
      /\ Unread(u, N) \/ ScreenFits(u) \/ failed[u] \/ Asked(u)
  BY <1>4, <1>5 DEF PageInv
<1>9. ScreenFits(u)' <=> ScreenFits(u)
  BY <1>2, <1>4, <1>5, SameFeed DEF ScreenFits, ShowsAll
<1>10. PICK K1 : K1 = sync'[u].cursor
  OBVIOUS
<1>11. /\ K1 # None => Taken(u, K1) /\ Served(u, K1)
       /\ K1 # None => Unread(u, K1) \/ ScreenFits(u) \/ failed[u] \/ Asked(u)
  BY <1>5, <1>7, <1>8, <1>10
<1>12. (Served(u, K1)' <=> Served(u, K1)) /\ (Taken(u, K1)' <=> Taken(u, K1))
       /\ (Unread(u, K1)' <=> Unread(u, K1))
  BY <1>2, <1>6, SameFeed DEF Served
<1>13. CursorInv(u)'
  <2>1. ~reading'[u]["sync"].under
    BY <1>2 DEF Resting
  <2> QED BY <1>5, <1>10, <1>11, <1>12, <2>1 DEF CursorInv
<1>14. Page[u] # List => InOrder(u)' /\ ServedKnown(u)'
  <2>1. Revision(Page[u])' = Revision(Page[u]) /\ screen'[u] = screen[u]
    BY <1>2, <1>3, SameFeed
  <2> QED BY <1>6, <2>1 DEF PageInv, InOrder, ServedKnown
<1>15. PageInv(u)'
  BY <1>2, <1>5, <1>6, <1>9, <1>10, <1>11, <1>12, <1>14 DEF PageInv
<1> QED BY <1>13, <1>15

\* A reading of the user's ends after one of the feed's has begun.
LEMMA LateUserKeeps ==
  ASSUME FeedInv, ScreenType, NEW u \in Readers, CursorInv(u), PageInv(u),
         Settle(u, "user"), newest[u] = "sync"
  PROVE  CursorInv(u)' /\ PageInv(u)'
<1>1. "sync" \in Whose /\ "user" \in Whose /\ Superseded(u, "user")
  BY DEF Whose, Superseded
<1>2. PICK out :
        /\ out = Outcome(u, "user") /\ screen'[u] = out.screen
        /\ sync' = sync /\ failed'[u] = failed[u]
        /\ reading'[u]["sync"] = reading[u]["sync"]
        /\ newest' = newest /\ UNCHANGED feedVars
  BY <1>1, SettleIs DEF Whose
<1>3. out.screen = screen[u]
  BY <1>1, <1>2, SupersededOutcome
<1>4. PICK K, N, seen : K = sync[u].cursor /\ N = sync[u].next /\ seen = screen[u]
  OBVIOUS
<1>5. K = sync'[u].cursor /\ N = sync'[u].next /\ seen = screen'[u]
  BY <1>2, <1>3, <1>4
<1>6. Latest(u)' = Latest(u) /\ ~Asked(u) /\ ~Asked(u)'
  BY <1>2 DEF Latest, Asked
<1>7. (Served(u, K)' <=> Served(u, K)) /\ (Served(u, N)' <=> Served(u, N))
  BY <1>2, <1>6, SameFeed DEF Served
<1>8. ScreenFits(u)' <=> ScreenFits(u)
  BY <1>2, <1>4, <1>5, SameFeed DEF ScreenFits, ShowsAll
<1>9. CursorInv(u)'
  BY <1>2, <1>4, <1>5, <1>7, SameFeed DEF CursorInv
<1>10. Page[u] # List => InOrder(u)' /\ ServedKnown(u)'
  <2>1. Revision(Page[u])' = Revision(Page[u]) /\ screen'[u] = screen[u]
    BY <1>2, <1>3, SameFeed
  <2> QED BY <1>6, <2>1 DEF PageInv, InOrder, ServedKnown
<1>11. PageInv(u)'
  BY <1>2, <1>4, <1>5, <1>6, <1>8, <1>10, SameFeed DEF PageInv
<1> QED BY <1>9, <1>11

\* The reading that is shown ends.
LEMMA ShownKeeps ==
  ASSUME FeedInv, ScreenType, NEW u \in Readers, CursorInv(u), PageInv(u),
         NEW who \in Whose, newest[u] = who, Settle(u, who)
  PROVE  CursorInv(u)' /\ PageInv(u)'
<1>1. ~Superseded(u, who)
  BY DEF Superseded
<1>2. PICK out :
        /\ out = Outcome(u, who) /\ screen'[u] = out.screen
        /\ sync' = IF who = "sync" THEN Follow(u, out.result) ELSE sync
        /\ failed'[u] <=> out.result # "DONE" /\ (failed[u] \/ who = "user")
        /\ reading'[u][who] = Resting
        /\ \A w \in Whose \ {who} : reading'[u][w] = reading[u][w]
        /\ newest' = newest /\ UNCHANGED feedVars
        /\ reading[u][who].under /\ DOMAIN reading[u][who].got = Parts(u)
  BY <1>1, SettleIs
<1>3. /\ out.result \in {"DONE", "RETRY", "STOP"}
      /\ out.result = "DONE" => \A K : Served(u, K) => Unread(u, K) \/ ShowsAll(u, out.screen)
      /\ out.result # "DONE" /\ Page[u] = List => out.screen = screen[u]
      /\ Page[u] # List /\ Page[u] \in DOMAIN out.screen.cases =>
           out.screen.cases[Page[u]] \in 0..Revision(Page[u])
  BY <1>2, ShownOutcome
<1>4. PICK K, N, seen, shown :
        K = sync[u].cursor /\ N = sync[u].next /\ seen = screen[u] /\ shown = out.screen
  OBVIOUS
<1>5. shown = screen'[u]
  BY <1>2, <1>4
<1>6. Latest(u)' = <<>> /\ DOMAIN Latest(u)' = {}
  BY <1>2 DEF Latest, Resting
<1>7. ScreenFits(u)' <=> ShowsAll(u, shown)
  BY <1>2, <1>5, SameFeed DEF ScreenFits, ShowsAll
<1>8. \A C : Served(u, C)' /\ (Taken(u, C)' <=> Taken(u, C)) /\ (Unread(u, C)' <=> Unread(u, C))
  BY <1>2, <1>6, SameFeed DEF Served
<1>9. Page[u] # List => InOrder(u)' /\ ServedKnown(u)'
  <2>1. Revision(Page[u])' = Revision(Page[u])
    BY <1>2, SameFeed
  <2> QED BY <1>2, <1>3, <1>6, <2>1 DEF InOrder, ServedKnown
<1>10. CASE who = "user"
  <2>1. sync' = sync /\ "sync" \in Whose /\ reading'[u]["sync"] = reading[u]["sync"]
    BY <1>2, <1>10 DEF Whose
  <2>2. K = sync'[u].cursor /\ N = sync'[u].next
    BY <1>4, <2>1
  <2>3. CursorInv(u)'
    BY <1>4, <1>8, <2>1, <2>2 DEF CursorInv
  <2>4. K # None => Unread(u, K) \/ ShowsAll(u, shown) \/ failed'[u]
    BY <1>2, <1>3, <1>4, <1>10 DEF CursorInv
  <2>5. sync[u].pc = "APPLY" => Unread(u, N) \/ ShowsAll(u, shown) \/ failed'[u]
    BY <1>2, <1>3, <1>4, <1>10 DEF CursorInv
  <2>6. PageInv(u)'
    BY <1>7, <1>8, <1>9, <2>1, <2>2, <2>4, <2>5 DEF PageInv
  <2> QED BY <2>3, <2>6
<1>11. CASE who = "sync"
  <2>1. sync[u].pc = "APPLY" /\ sync' = Follow(u, out.result)
    BY <1>2, <1>11 DEF CursorInv
  <2>2. /\ sync'[u].pc # "APPLY"
        /\ out.result = "DONE" => sync'[u].cursor = N
        /\ out.result # "DONE" => sync'[u].cursor = K
    BY <1>3, <1>4, <2>1, FollowIs
  <2>3. /\ K # None => Taken(u, K) /\ Served(u, K)
        /\ Taken(u, N) /\ Served(u, N)
        /\ Page[u] # List /\ K # None => Unread(u, K)
    BY <1>4, <2>1 DEF CursorInv
  <2>4. ~Asked(u)
    BY <1>11 DEF Asked
  <2>5. K # None => Unread(u, K) \/ ScreenFits(u) \/ failed[u]
    BY <1>4, <2>4 DEF PageInv
  <2>6. PICK K1 : K1 = sync'[u].cursor
    OBVIOUS
  <2>7. K1 # None => Taken(u, K1)
    BY <2>2, <2>3, <2>6
  <2>8. CursorInv(u)'
    <3>1. ~reading'[u]["sync"].under
      BY <1>2, <1>11 DEF Resting
    <3> QED BY <1>8, <2>2, <2>6, <2>7, <3>1 DEF CursorInv
  <2>9. K1 # None => Unread(u, K1) \/ ShowsAll(u, shown) \/ failed'[u]
    <3>1. CASE out.result = "DONE"
      BY <1>3, <1>4, <2>2, <2>3, <2>6, <3>1
    <3>2. CASE out.result # "DONE" /\ Page[u] = List
      <4>1. ScreenFits(u) <=> ShowsAll(u, shown)
        BY <1>3, <1>4, <3>2 DEF ScreenFits
      <4> QED BY <1>2, <2>2, <2>5, <2>6, <3>2, <4>1
    <3>3. CASE out.result # "DONE" /\ Page[u] # List
      BY <2>2, <2>3, <2>6, <3>3
    <3> QED BY <3>1, <3>2, <3>3
  <2>10. PageInv(u)'
    BY <1>7, <1>8, <1>9, <2>2, <2>6, <2>9 DEF PageInv
  <2> QED BY <2>8, <2>10
<1> QED BY <1>10, <1>11 DEF Whose

LEMMA SettleKeeps ==
  ASSUME FeedInv, ScreenType, NEW u \in Readers, CursorInv(u), PageInv(u),
         NEW who \in Whose, Settle(u, who)
  PROVE  CursorInv(u)' /\ PageInv(u)'
<1>1. newest[u] \in Whose
  BY DEF ScreenType, LoopType, ReadingType
<1> QED BY <1>1, LateSyncKeeps, LateUserKeeps, ShownKeeps DEF Whose

-----------------------------------------------------------------------------
(* All pages together.                                                     *)

\* A step of one page leaves the tables and the other pages alone.
LEMMA PageStepIsOwn ==
  ASSUME NEW u, PageStep(u)
  PROVE  /\ UNCHANGED feedVars
         /\ \A v \in Readers \ {u} :
              ScreenType => /\ sync'[v] = sync[v] /\ reading'[v] = reading[v]
                            /\ newest'[v] = newest[v] /\ screen'[v] = screen[v]
                            /\ failed'[v] = failed[v]
<1> USE DEF ScreenType, LoopType, ReadingType
<1>1. CASE Ask(u)
  BY <1>1 DEF Ask
<1>2. CASE PollFails(u)
  BY <1>2 DEF PollFails
<1>3. CASE Told(u)
  BY <1>3 DEF Told, Begins
<1>4. CASE Reload(u)
  BY <1>4 DEF Reload
<1>5. CASE Rereads(u)
  BY <1>5 DEF Rereads, Begins
<1>6. ASSUME NEW who \in Whose, Settle(u, who)
      PROVE  /\ UNCHANGED feedVars
             /\ \A v \in Readers \ {u} :
                  ScreenType => /\ sync'[v] = sync[v] /\ reading'[v] = reading[v]
                                /\ newest'[v] = newest[v] /\ screen'[v] = screen[v]
                                /\ failed'[v] = failed[v]
  BY <1>6 DEF Settle, Follow
<1>7. ASSUME NEW who \in Whose, NEW part \in Parts(u), Serve(u, who, part)
      PROVE  /\ UNCHANGED feedVars
             /\ \A v \in Readers \ {u} :
                  ScreenType => /\ sync'[v] = sync[v] /\ reading'[v] = reading[v]
                                /\ newest'[v] = newest[v] /\ screen'[v] = screen[v]
                                /\ failed'[v] = failed[v]
  BY <1>7 DEF Serve
<1> QED BY <1>1, <1>2, <1>3, <1>4, <1>5, <1>6, <1>7 DEF PageStep

LEMMA PageStepKeeps ==
  ASSUME FeedInv, ScreenType, NEW u \in Readers, CursorInv(u), PageInv(u), PageStep(u)
  PROVE  CursorInv(u)' /\ PageInv(u)'
BY AskKeeps, ToldKeeps, PollFailsKeeps, ReloadKeeps, RereadsKeeps, SettleKeeps, ServeKeeps
   DEF PageStep

LEMMA LoopTyped ==
  ASSUME LoopType, NEW u \in Readers, NEW loop, DOMAIN loop = {"pc", "cursor", "next"},
         sync' = [sync EXCEPT ![u] = loop]
  PROVE  LoopType'
BY DEF LoopType

LEMMA ReadingTyped ==
  ASSUME ReadingType, NEW u \in Readers, NEW who \in Whose, NEW r,
         DOMAIN r = {"under", "got"}, r.under \in BOOLEAN, DOMAIN r.got \subseteq Parts(u),
         reading' = [reading EXCEPT ![u][who] = r]
  PROVE  ReadingType'
<1>1. /\ DOMAIN reading' = Readers
      /\ \A v \in Readers : DOMAIN reading'[v] = Whose
      /\ reading'[u][who] = r
      /\ \A v \in Readers, w \in Whose : v # u \/ w # who => reading'[v][w] = reading[v][w]
  BY DEF ReadingType
<1> QED BY <1>1 DEF ReadingType

LEMMA OutcomeTyped ==
  ASSUME NEW u, NEW who
  PROVE  Outcome(u, who).result \in {"DONE", "RETRY", "STOP"}
<1>1. PICK got : got = reading[u][who].got
  OBVIOUS
<1>2. CASE Page[u] = List
  <2>1. \E result \in {"DONE", "RETRY", "STOP"} : \E shown :
          ListOutcome(u, who, got) = Left(result, shown)
    BY DEF ListOutcome, Failure
  <2> QED BY <1>1, <1>2, <2>1 DEF Outcome, Left
<1>3. CASE Page[u] # List
  <2>1. Whole(u, got) \in {"DONE", "RETRY", "STOP"}
    BY DEF Whole, Failure
  <2>2. \E result \in {"DONE", "RETRY", "STOP"} : \E shown :
          CaseOutcome(u, who, got) = Left(result, shown)
    BY <2>1 DEF CaseOutcome, Failure
  <2> QED BY <1>1, <1>3, <2>2 DEF Outcome, Left
<1> QED BY <1>2, <1>3

LEMMA PageStepTyped ==
  ASSUME ScreenType, NEW u \in Readers, PageStep(u)
  PROVE  ScreenType'
<1> DEFINE fresh == [under |-> TRUE, got |-> <<>>]
<1>1. /\ "sync" \in Whose /\ "user" \in Whose
      /\ LoopType /\ ReadingType
      /\ \A pc, cursor : DOMAIN Loop(pc, cursor) = {"pc", "cursor", "next"}
      /\ DOMAIN fresh = {"under", "got"} /\ fresh.under \in BOOLEAN
      /\ DOMAIN fresh.got \subseteq Parts(u)
      /\ DOMAIN Resting = {"under", "got"} /\ Resting.under \in BOOLEAN
      /\ DOMAIN Resting.got \subseteq Parts(u)
  BY DEF Whose, ScreenType, Loop, Resting
<1>2. CASE Ask(u)
  BY <1>2 DEF Ask, ScreenType, LoopType, ReadingType
<1>3. CASE PollFails(u)
  BY <1>3 DEF PollFails, ScreenType, LoopType, ReadingType
<1>4. CASE Told(u)
  <2>1. \/ \E pc, cursor : /\ sync' = [sync EXCEPT ![u] = Loop(pc, cursor)]
                           /\ UNCHANGED <<reading, newest, failed>>
        \/ /\ sync' = [sync EXCEPT ![u].pc = "APPLY", ![u].next = Cursor(u, Page[u])]
           /\ reading' = [reading EXCEPT ![u]["sync"] = fresh]
           /\ newest' = [newest EXCEPT ![u] = "sync"]
           /\ failed' = [failed EXCEPT ![u] = failed[u] \/ Asked(u)]
    BY <1>4 DEF Told, Begins
  <2>2. screen' = screen
    BY <1>4 DEF Told
  <2>3. CASE \E pc, cursor : /\ sync' = [sync EXCEPT ![u] = Loop(pc, cursor)]
                             /\ UNCHANGED <<reading, newest, failed>>
    <3>1. LoopType'
      BY <1>1, <2>3, LoopTyped
    <3>2. ReadingType'
      BY <1>1, <2>3 DEF ReadingType
    <3> QED BY <2>2, <2>3, <3>1, <3>2 DEF ScreenType
  <2>4. CASE /\ sync' = [sync EXCEPT ![u].pc = "APPLY", ![u].next = Cursor(u, Page[u])]
             /\ reading' = [reading EXCEPT ![u]["sync"] = fresh]
             /\ newest' = [newest EXCEPT ![u] = "sync"]
             /\ failed' = [failed EXCEPT ![u] = failed[u] \/ Asked(u)]
    <3>1. LoopType'
      BY <1>1, <2>4 DEF LoopType
    <3>2. ReadingType'
      <4> HIDE DEF fresh
      <4> QED BY <1>1, <2>4, ReadingTyped
    <3>3. newest' \in [Readers -> Whose] /\ failed' \in [Readers -> BOOLEAN]
      BY <1>1, <2>4 DEF ScreenType
    <3> QED BY <2>2, <3>1, <3>2, <3>3 DEF ScreenType
  <2> QED BY <2>1, <2>3, <2>4
<1>5. CASE Reload(u)
  <2>1. /\ sync' = [sync EXCEPT ![u] = Loop("ASK", None)]
        /\ reading' = [reading EXCEPT ![u] = [w \in Whose |-> Resting]]
        /\ screen' = [screen EXCEPT ![u] = Blank]
        /\ failed' = [failed EXCEPT ![u] = FALSE] /\ newest' = newest
    BY <1>5 DEF Reload
  <2>2. LoopType'
    BY <1>1, <2>1, LoopTyped
  <2>3. ReadingType'
    BY <1>1, <2>1 DEF ReadingType
  <2> QED BY <2>1, <2>2, <2>3 DEF ScreenType
<1>6. CASE Rereads(u)
  <2>1. /\ reading' = [reading EXCEPT ![u]["user"] = fresh]
        /\ newest' = [newest EXCEPT ![u] = "user"]
        /\ UNCHANGED <<sync, screen, failed>>
    BY <1>6 DEF Rereads, Begins
  <2>2. ReadingType'
    <3> HIDE DEF fresh
    <3> QED BY <1>1, <2>1, ReadingTyped
  <2>3. LoopType'
    BY <1>1, <2>1 DEF LoopType
  <2> QED BY <1>1, <2>1, <2>2, <2>3 DEF ScreenType
<1>7. ASSUME NEW who \in Whose, Settle(u, who)
      PROVE  ScreenType'
  <2>1. PICK out : out = Outcome(u, who)
    OBVIOUS
  <2>2. /\ screen' = [screen EXCEPT ![u] = out.screen]
        /\ sync' = IF who = "sync" THEN Follow(u, out.result) ELSE sync
        /\ failed' = IF Superseded(u, who) THEN failed
                     ELSE [failed EXCEPT ![u] = out.result # "DONE" /\ (failed[u] \/ who = "user")]
        /\ reading' = [reading EXCEPT ![u][who] = Resting]
        /\ newest' = newest
    BY <1>7, <2>1 DEF Settle
  <2>3. ReadingType'
    BY <1>1, <2>2, ReadingTyped
  <2>4. LoopType'
    <3>1. CASE who = "sync"
      <4>1. \E pc, cursor : sync' = [sync EXCEPT ![u] = Loop(pc, cursor)]
        <5>1. out.result \in {"DONE", "RETRY", "STOP"}
          BY <2>1, OutcomeTyped
        <5>2. sync' = Follow(u, out.result)
          BY <2>2, <3>1
        <5>3. CASE out.result = "DONE"
          BY <5>2, <5>3 DEF Follow
        <5>4. CASE out.result = "RETRY"
          BY <5>2, <5>4 DEF Follow
        <5>5. CASE out.result = "STOP"
          BY <5>2, <5>5 DEF Follow
        <5> QED BY <5>1, <5>3, <5>4, <5>5
      <4> QED BY <1>1, <4>1, LoopTyped
    <3>2. CASE who # "sync"
      BY <1>1, <2>2, <3>2 DEF LoopType
    <3> QED BY <3>1, <3>2
  <2>5. failed' \in [Readers -> BOOLEAN]
    BY <2>2 DEF ScreenType
  <2> QED BY <2>2, <2>3, <2>4, <2>5 DEF ScreenType
<1>8. ASSUME NEW who \in Whose, NEW part \in Parts(u), Serve(u, who, part)
      PROVE  ScreenType'
  <2>1. PICK got : /\ reading' = [reading EXCEPT ![u][who].got = got]
                   /\ DOMAIN got = DOMAIN reading[u][who].got \union {part}
    <3>1. PICK served :
            reading' = [reading EXCEPT ![u][who].got =
              [p \in DOMAIN reading[u][who].got \union {part} |->
                 IF p = part THEN served ELSE reading[u][who].got[p]]]
      BY <1>8 DEF Serve
    <3>2. PICK got : got = [p \in DOMAIN reading[u][who].got \union {part} |->
                              IF p = part THEN served ELSE reading[u][who].got[p]]
      OBVIOUS
    <3>3. reading' = [reading EXCEPT ![u][who].got = got]
      BY <3>1, <3>2
    <3>4. DOMAIN got = DOMAIN reading[u][who].got \union {part}
      BY <3>2
    <3> QED BY <3>3, <3>4
  <2>2. PICK r : r = [reading[u][who] EXCEPT !.got = got]
    OBVIOUS
  <2>3. reading' = [reading EXCEPT ![u][who] = r]
    BY <2>1, <2>2
  <2>4. /\ DOMAIN r = {"under", "got"} /\ r.under \in BOOLEAN
        /\ DOMAIN r.got \subseteq Parts(u)
    BY <1>1, <1>8, <2>1, <2>2 DEF ReadingType
  <2>5. ReadingType'
    BY <1>1, <2>3, <2>4, ReadingTyped
  <2> QED BY <1>8, <2>5 DEF Serve, ScreenType, LoopType
<1> QED BY <1>2, <1>3, <1>4, <1>5, <1>6, <1>7, <1>8 DEF PageStep

LEMMA InitHolds ==
  ASSUME Init
  PROVE  IInv
<1>1. /\ Legacy \subseteq Cases /\ IsFiniteSet(Legacy)
      /\ FeedInit(Users \ mix.late)
  BY FeedAssumption DEF Init
<1>2. FeedInv
  <2> DEFINE rows == {Row(c, None, 1) : c \in Legacy}
             f == [c \in Legacy |-> Row(c, None, 1)]
  <2>1. rows \subseteq RowType /\ \A r \in rows : r.scope = None
    <3>1. ASSUME NEW c \in Legacy
          PROVE  Row(c, None, 1) \in RowType /\ Row(c, None, 1).scope = None
      BY <1>1 DEF Row, RowType, Scopes
    <3> QED BY <3>1
  <2>2. IsFiniteSet(rows)
    <3>1. f \in Surjection(Legacy, rows)
      BY DEF Surjection
    <3> QED BY <1>1, <3>1, FS_Surjection
  <2>3. SetToSeq(rows) \in [1..Cardinality(rows) -> rows]
    <3>1. ExistsBijection(1..Cardinality(rows), rows)
      BY <2>2, FS_CardinalityType
    <3>2. \E g \in [1..Cardinality(rows) -> rows] : IsInjective(g)
      <4> HIDE DEF rows
      <4> QED BY <3>1 DEF ExistsBijection, Bijection, Injection, IsInjective
    <3> HIDE DEF rows
    <3> QED BY <3>2 DEF SetToSeq
  <2>4. PICK start : start = SetToSeq(rows)
    OBVIOUS
  <2>5. start \in Seq(RowType) /\ \A i \in DOMAIN start : start[i].scope = None
    <3>1. Cardinality(rows) \in Nat
      BY <2>2, FS_CardinalityType
    <3> HIDE DEF rows
    <3>2. start \in Seq(rows)
      BY <2>3, <2>4, <3>1
    <3>3. \A i \in DOMAIN start : start[i] \in rows
      BY <2>3, <2>4
    <3> QED BY <2>1, <3>2, <3>3
  <2>6. tables = [k \in Kinds |-> IF k = "case" THEN start ELSE <<>>]
    BY <1>1, <2>4 DEF FeedInit
  <2>7. /\ tables \in [Kinds -> Seq(RowType)]
        /\ "agent" \in Kinds /\ "case" \in Kinds
    BY <2>5, <2>6 DEF Kinds
  <2>8. tables["case"] = start /\ tables["agent"] = <<>>
    BY <2>6, <2>7
  <2>9. members \in [Cases -> (SUBSET Users) \union {None}]
    BY <1>1 DEF FeedInit
  <2>10. session \subseteq accounts
    BY <1>1 DEF FeedInit, IdentityInit
  <2> HIDE DEF rows
  <2> QED BY <2>5, <2>7, <2>8, <2>9, <2>10 DEF FeedInv
<1>3. ScreenType
  BY DEF Init, ScreenType, LoopType, ReadingType, Loop, Resting, Whose
<1>4. ASSUME NEW u \in Readers
      PROVE  CursorInv(u) /\ PageInv(u)
  <2>1. /\ sync[u].pc = "ASK" /\ sync[u].cursor = None /\ screen[u] = Blank
        /\ reading[u] = [w \in Whose |-> Resting] /\ newest[u] = "sync"
    BY DEF Init, Loop
  <2>2. Latest(u) = <<>> /\ ~reading[u]["sync"].under
    BY <2>1 DEF Latest, Resting, Whose
  <2>3. DOMAIN Latest(u) = {} /\ DOMAIN screen[u].cases = {}
    BY <2>1, <2>2 DEF Blank
  <2> QED BY <2>1, <2>2, <2>3 DEF CursorInv, PageInv, InOrder, ServedKnown
<1> QED BY <1>2, <1>3, <1>4 DEF IInv, Init

LEMMA StepKeeps ==
  ASSUME IInv, [Next]_vars
  PROVE  IInv'
<1>1. mix \in Mixes /\ FeedInv /\ ScreenType /\ \A u \in Readers : CursorInv(u) /\ PageInv(u)
  BY DEF IInv
<1>2. mix' = mix
  BY DEF Next, vars
<1>3. ASSUME FeedInv', Grows, Entitles, UNCHANGED <<sync, reading, newest, screen, failed>>
      PROVE  IInv'
  <2>1. ScreenType'
    BY <1>1, <1>3 DEF ScreenType, LoopType, ReadingType
  <2>2. \A u \in Readers : CursorInv(u)' /\ PageInv(u)'
    BY <1>1, <1>3, FeedKeepsPage
  <2> QED BY <1>1, <1>2, <1>3, <2>1, <2>2 DEF IInv
<1>4. CASE Others
  <2>1. FeedInv' /\ Grows /\ Entitles
    BY <1>1, <1>4, OthersMove
  <2> QED BY <1>3, <1>4, <2>1 DEF Others, screenVars
<1>5. ASSUME NEW u \in mix.pages, PageStep(u)
      PROVE  IInv'
  <2>1. u \in Readers
    BY <1>1, <1>5, PageAssumption DEF Readers
  <2>2. /\ UNCHANGED feedVars
        /\ \A v \in Readers \ {u} : /\ sync'[v] = sync[v] /\ reading'[v] = reading[v]
                                    /\ newest'[v] = newest[v] /\ screen'[v] = screen[v]
                                    /\ failed'[v] = failed[v]
    BY <1>1, <1>5, PageStepIsOwn
  <2>3. FeedInv' /\ ScreenType'
    <3>1. session' \subseteq accounts' /\ UNCHANGED <<tables, members>>
      BY <1>1, <2>2 DEF FeedInv, feedVars, accountVars
    <3> QED BY <1>1, <1>5, <2>1, <3>1, SameFeedMoves, PageStepTyped
  <2>4. CursorInv(u)' /\ PageInv(u)'
    BY <1>1, <1>5, <2>1, PageStepKeeps
  <2>5. \A v \in Readers \ {u} : CursorInv(v)' /\ PageInv(v)'
    BY <1>1, <2>2, SamePage
  <2> QED BY <1>1, <1>2, <2>3, <2>4, <2>5 DEF IInv
<1>6. ASSUME NEW u \in mix.pages, ThreadStep(u)
      PROVE  IInv'
  <2>1. u \in Readers
    BY <1>1, <1>6, PageAssumption DEF Readers
  <2>2. UNCHANGED <<sync, reading, newest, screen, failed>>
    BY <1>6 DEF ThreadStep, ThreadEvents, ThreadEnd, MarkRead, ThreadKept
  <2>3. CASE UNCHANGED feedVars
    <3>1. session' \subseteq accounts' /\ UNCHANGED <<tables, members>>
      BY <1>1, <2>3 DEF FeedInv, feedVars, accountVars
    <3> QED BY <1>1, <1>3, <2>2, <3>1, SameFeedMoves
  <2>4. CASE MarkRead(u)
    BY <1>1, <1>3, <2>1, <2>2, <2>4, MarkReadMoves
  <2> QED BY <1>6, <2>3, <2>4 DEF ThreadStep, ThreadEvents, ThreadEnd
<1>7. CASE UNCHANGED vars
  <2>1. session' \subseteq accounts' /\ UNCHANGED <<tables, members>>
    BY <1>1, <1>7 DEF FeedInv, vars, feedVars, accountVars
  <2> QED BY <1>1, <1>3, <1>7, <2>1, SameFeedMoves DEF vars, screenVars
<1> QED BY <1>4, <1>5, <1>6, <1>7 DEF Next

\* Where the feed has nothing to tell a page, its reader has missed nothing.
LEMMA QuietIsCurrent ==
  ASSUME IInv
  PROVE  NothingMissed
<1> SUFFICES ASSUME NEW u \in Readers, Quiet(u)
             PROVE  Current(u) \/ failed[u]
  BY DEF NothingMissed
<1>1. /\ FeedInv /\ CursorInv(u) /\ PageInv(u)
      /\ Resolves(u) /\ u \in accounts \ disabled
  BY ResolvedActs DEF IInv, Quiet
<1>2. PICK K : K = sync[u].cursor
  OBVIOUS
<1>3. ~HasNews(u, Page[u], K) /\ ~reading[u]["user"].under
  BY <1>2 DEF Quiet
<1>4. K # None
  BY <1>3 DEF HasNews, Reset
<1>5. Taken(u, K)
  BY <1>1, <1>2, <1>4 DEF CursorInv
<1>6. ~Unread(u, K)
  BY <1>1, <1>3, <1>5, NewsOfUnread
<1>7. ScreenFits(u) \/ failed[u]
  BY <1>1, <1>2, <1>3, <1>4, <1>6 DEF PageInv, Asked
<1> QED BY <1>1, <1>7, FittingScreenIsCurrent

(* NothingMissed, for every page, whoever works on the cases meanwhile and *)
(* whatever accounts, sessions and requests do: a poll that keeps its      *)
(* reader waiting, a reading served in pieces or overtaken, an access won  *)
(* late or an account disabled for a while never make the feed of          *)
(* web/v2/app.js and persistence/dispute_updates.py pass over a row.       *)
THEOREM FeedTellsAll == Spec => []NothingMissed
<1>1. Init => IInv
  BY InitHolds
<1>2. IInv /\ [Next]_vars => IInv'
  BY StepKeeps
<1>3. IInv => NothingMissed
  BY QuietIsCurrent
<1> QED BY <1>1, <1>2, <1>3, PTL DEF Spec

\* What the page of a case shows of it is never an earlier revision than before.
StaysForward(u) ==
  LET c == Page[u] IN
  c # List /\ c \in DOMAIN screen[u].cases /\ c \in DOMAIN screen'[u].cases =>
    screen[u].cases[c] <= screen'[u].cases[c]

ScreensGoForward == [][\A u \in Readers : StaysForward(u)]_vars

LEMMA SameScreenForward ==
  ASSUME FeedInv, NEW u, PageInv(u), screen'[u] = screen[u]
  PROVE  StaysForward(u)
<1>1. Revision(Page[u]) \in Nat
  BY RevisionTyped
<1> QED BY <1>1 DEF PageInv, InOrder, StaysForward

LEMMA PageStepForward ==
  ASSUME FeedInv, ScreenType, NEW u \in Readers, PageInv(u), PageStep(u)
  PROVE  StaysForward(u)
<1>1. CASE screen' = screen
  BY <1>1, SameScreenForward
<1>2. CASE Reload(u)
  <2>1. screen'[u] = Blank
    BY <1>2 DEF Reload, ScreenType
  <2> QED BY <2>1 DEF StaysForward, Blank
<1>3. ASSUME NEW who \in Whose, Settle(u, who)
      PROVE  StaysForward(u)
  <2>1. PICK out : /\ out = Outcome(u, who) /\ screen'[u] = out.screen
                   /\ DOMAIN reading[u][who].got = Parts(u)
    BY <1>3, SettleIs
  <2>2. CASE newest[u] = who
    BY <2>1, <2>2, ShownOutcome DEF StaysForward
  <2>3. CASE newest[u] # who
    BY <2>1, <2>3, SupersededOutcome, SameScreenForward DEF Superseded
  <2> QED BY <2>2, <2>3
<1> QED BY <1>1, <1>2, <1>3 DEF PageStep, Ask, Told, PollFails, Rereads, Serve

(* ScreensGoForward: of answers served in pieces, in any order and some of *)
(* them late, none brings an earlier revision of a case back to its page.  *)
(* web/v2/app.js asks for it by numbering these readings and once more by  *)
(* comparing the revisions. The numbering alone is enough (InOrder): the   *)
(* comparison only tells against the first reading of a page, in openCase. *)
THEOREM NoStepBack == Spec => ScreensGoForward
<1>1. Init => IInv
  BY InitHolds
<1>2. IInv /\ [Next]_vars => IInv'
  BY StepKeeps
<1>3. IInv /\ [Next]_vars => [\A u \in Readers : StaysForward(u)]_vars
  <2> SUFFICES ASSUME IInv, Next, NEW u \in Readers
               PROVE  StaysForward(u)
    OBVIOUS
  <2>1. FeedInv /\ ScreenType /\ PageInv(u) /\ mix.pages \subseteq Readers
    BY PageAssumption DEF IInv, Readers
  <2>2. CASE Others \/ \E v \in mix.pages : ThreadStep(v)
    <3>1. screen' = screen
      BY <2>2 DEF Others, screenVars, ThreadStep, ThreadEvents, ThreadEnd, MarkRead, ThreadKept
    <3> QED BY <2>1, <3>1, SameScreenForward
  <2>3. ASSUME NEW v \in mix.pages, PageStep(v)
        PROVE  StaysForward(u)
    <3>1. CASE v = u
      BY <2>1, <2>3, <3>1, PageStepForward
    <3>2. CASE v # u
      BY <2>1, <2>3, <3>2, PageStepIsOwn, SameScreenForward
    <3> QED BY <3>1, <3>2
  <2> QED BY <2>2, <2>3 DEF Next
<1> QED BY <1>1, <1>2, <1>3, PTL DEF Spec, ScreensGoForward
=============================================================================
