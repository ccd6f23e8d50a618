-------------------------- MODULE WorkspaceProofs --------------------------
(***************************************************************************)
(* The review workspace, for any rules, requests and people: the revision  *)
(* of a case stands for everything that is shown of it, so that what was   *)
(* seen at the present revision is what the case is.                       *)
(***************************************************************************)
EXTENDS ReviewWorkspace, SequenceTheorems, TLAPS

IsSeq(s) == s \in Seq({s[i] : i \in DOMAIN s})

-----------------------------------------------------------------------------
(* A row, of the table or in the memory of a request.                      *)
RowOk(s) ==
  /\ DOMAIN s = {"revision", "reason", "confirmed", "finalized", "network", "added"}
  /\ s.revision \in Nat /\ DOMAIN s.added = Codes
  /\ s.confirmed \in BOOLEAN /\ (s.confirmed => s.reason # None)

CaseOk ==
  /\ RowOk(case)
  /\ ~Exists => ~case.confirmed /\ case.network = None
  /\ DOMAIN loaded = Threads /\ \A w \in Threads : loaded[w] # None => RowOk(loaded[w])

-----------------------------------------------------------------------------
(* What was seen. The rules are not part of the revision: they were read   *)
(* with the rest, but may be others by now.                                *)

ApprovedUnder(rule) ==
  \E r \in reviews : r.revision = case.revision /\ r.rule = rule /\ r.status = "APPROVED"

ViewOk(v) ==
  /\ v.revision \in Nat /\ v.revision <= case.revision
  /\ v.revision = case.revision =>
       v = [shown |-> Shown, revision |-> case.revision, rule |-> v.rule,
            approved |-> ApprovedUnder(v.rule)]

(* The gate, under rules that may no longer be in force.                   *)
Ripe(rule) ==
  /\ case.confirmed /\ Absent(case) = {} /\ ~Doubtful
  /\ ~Unmatched(case) /\ IsExact(rule[1]) /\ rule[2] # {}

ReviewOk(r) ==
  /\ r.revision \in Nat /\ r.revision <= case.revision
  /\ r.revision = case.revision => r.seen = Shown /\ (r.status = "APPROVED" => Ripe(r.rule))

AskedOk(q) ==
  /\ ViewOk(q.saw)
  /\ q.does.action = "REGISTER_MATERIAL" => q.does.code \in Codes
  /\ q.does.action = "CONFIRM_REASON" => q.does.field = "reason_code" /\ q.does.value \in Reasons
  /\ q.does.action = "SET_NETWORK" => q.does.field = "card_network"

TurnOk(q) ==
  \/ q.phase = "opened"
  \/ /\ DOMAIN q = {"phase", "status", "saw"} /\ ViewOk(q.saw)
     /\ q.status = "APPROVED" /\ q.saw.revision = case.revision => Ripe(q.saw.rule)

SeenOk ==
  /\ DOMAIN asked = Clients /\ \A k \in Clients : asked[k] # None => AskedOk(asked[k])
  /\ DOMAIN turns = Turns /\ \A t \in Turns : turns[t] # None => TurnOk(turns[t])
  /\ DOMAIN drafts = Summaries /\ \A s \in Summaries : drafts[s] # None => ViewOk(drafts[s])

WorkspaceInv ==
  /\ CaseOk /\ SeenOk
  /\ \A r \in reviews : ReviewOk(r)
  /\ IsSeq(summaries) /\ load \in Loads


-----------------------------------------------------------------------------
(* What the operations of the store and of the workspace make of a row.    *)

LEMMA LikeRow ==
  ASSUME NEW r, RowOk(r), NEW new, DOMAIN new = DOMAIN r, DOMAIN new.added = Codes,
         new.revision \in Nat, new.reason = r.reason, new.confirmed = r.confirmed
  PROVE  RowOk(new)
  <1>1. new.confirmed \in BOOLEAN /\ (new.confirmed => new.reason # None)
    BY Zenon DEF RowOk
  <1> QED BY <1>1 DEF RowOk

LEMMA SavedRow ==
  ASSUME NEW r, NEW s, RowOk(r), RowOk(s)
  PROVE  /\ RowOk(Saved(r, s))
         /\ \/ Saved(r, s) = r /\ ~Adds(r, s)
            \/ /\ Saved(r, s).revision = r.revision + 1 /\ Saved(r, s).reason = s.reason
               /\ Saved(r, s).confirmed = s.confirmed /\ Saved(r, s).network = s.network
  <1> DEFINE new == Merged(r, s, r.revision + 1)
  <1>1. /\ DOMAIN new = DOMAIN s /\ new.revision = r.revision + 1 /\ new.reason = s.reason
        /\ new.confirmed = s.confirmed /\ new.network = s.network /\ DOMAIN new.added = Codes
    BY DEF Merged, RowOk
  <1> HIDE DEF new
  <1>2. RowOk(new)
    BY <1>1, LikeRow DEF RowOk
  <1>3. CASE Adds(r, s)
    <2>1. Saved(r, s) = new
      BY <1>3 DEF Saved, new
    <2> QED BY <1>1, <1>2, <2>1
  <1>4. CASE ~Adds(r, s)
    BY <1>4 DEF Saved
  <1> QED BY <1>3, <1>4

(* The facts of a row, and its number one more than another's.             *)
Follows(new, r) ==
  /\ RowOk(new) /\ new.revision = r.revision + 1
  /\ new.reason = r.reason /\ new.confirmed = r.confirmed /\ new.network = r.network

LEMMA TouchedRow ==
  ASSUME NEW r, RowOk(r)
  PROVE  Follows(Touched(r), r)
  <1> DEFINE new == Touched(r)
  <1>1. /\ DOMAIN new = DOMAIN r /\ new.revision = r.revision + 1 /\ new.reason = r.reason
        /\ new.confirmed = r.confirmed /\ new.network = r.network /\ new.added = r.added
    BY DEF Touched, RowOk
  <1> HIDE DEF new
  <1>2. RowOk(new)
    BY <1>1, LikeRow DEF RowOk
  <1>3. Follows(new, r)
    BY <1>1, <1>2 DEF Follows
  <1> QED BY <1>3 DEF new

LEMMA WithdrawnRow ==
  ASSUME NEW r, RowOk(r), NEW c
  PROVE  Follows(Withdrawn(r, c), r)
  <1> DEFINE new == Withdrawn(r, c)
  <1>1. /\ DOMAIN new = DOMAIN r /\ new.revision = r.revision + 1 /\ new.reason = r.reason
        /\ new.confirmed = r.confirmed /\ new.network = r.network /\ DOMAIN new.added = DOMAIN r.added
    BY DEF Withdrawn, RowOk
  <1> HIDE DEF new
  <1>2. RowOk(new)
    BY <1>1, LikeRow DEF RowOk
  <1>3. Follows(new, r)
    BY <1>1, <1>2 DEF Follows
  <1> QED BY <1>3 DEF new

LEMMA NumberedRow ==
  ASSUME NEW r, RowOk(r)
  PROVE  Follows([r EXCEPT !.revision = @ + 1], r)
  <1> DEFINE new == [r EXCEPT !.revision = @ + 1]
  <1>1. /\ DOMAIN new = DOMAIN r /\ new.revision = r.revision + 1 /\ new.reason = r.reason
        /\ new.confirmed = r.confirmed /\ new.network = r.network /\ new.added = r.added
    BY DEF RowOk
  <1> HIDE DEF new
  <1>2. RowOk(new)
    BY <1>1, LikeRow DEF RowOk
  <1>3. Follows(new, r)
    BY <1>1, <1>2 DEF Follows
  <1> QED BY <1>3 DEF new

LEMMA NetworkRow ==
  ASSUME NEW r, RowOk(r), NEW n
  PROVE  /\ RowOk(WithNetwork(r, n)) /\ WithNetwork(r, n).network = n
         /\ WithNetwork(r, n).reason = r.reason /\ WithNetwork(r, n).confirmed = r.confirmed
         /\ WithNetwork(r, n) = r \/ WithNetwork(r, n).revision = r.revision + 1
  <1> DEFINE new == [r EXCEPT !.revision = @ + 1, !.network = n]
  <1>1. /\ DOMAIN new = DOMAIN r /\ new.revision = r.revision + 1 /\ new.reason = r.reason
        /\ new.confirmed = r.confirmed /\ new.network = n /\ new.added = r.added
    BY DEF RowOk
  <1>2. WithNetwork(r, n) = IF r.network = n THEN r ELSE new
    BY DEF WithNetwork
  <1> HIDE DEF new
  <1>3. RowOk(new)
    BY <1>1, LikeRow DEF RowOk
  <1> QED BY <1>1, <1>2, <1>3

(* One more piece of evidence, in memory.                                  *)
LEMMA SubmittedRow ==
  ASSUME NEW r, RowOk(r), NEW c \in Codes
  PROVE  /\ RowOk(Submitted(r, c)) /\ Submitted(r, c).reason = r.reason
         /\ Submitted(r, c).confirmed = r.confirmed /\ Submitted(r, c).network = r.network
         /\ c \in Collected(Submitted(r, c))
  <1> DEFINE new == Submitted(r, c)
  <1>1. /\ DOMAIN new = DOMAIN r /\ new.revision = r.revision /\ new.reason = r.reason
        /\ new.confirmed = r.confirmed /\ new.network = r.network /\ DOMAIN new.added = DOMAIN r.added
        /\ new.added[c] = r.revision + 1
    BY DEF Submitted, RowOk
  <1> HIDE DEF new
  <1>2. RowOk(new)
    BY <1>1, LikeRow DEF RowOk
  <1>3. c \in Collected(new)
    BY <1>1 DEF Collected, RowOk
  <1> QED BY <1>1, <1>2, <1>3 DEF new

(* A row with its finalization set or taken back is a row with its facts.  *)
LEMMA FinalizedRow ==
  ASSUME NEW r, RowOk(r), NEW b
  PROVE  LET s == [r EXCEPT !.finalized = b] IN
         /\ RowOk(s) /\ s.reason = r.reason /\ s.confirmed = r.confirmed /\ s.network = r.network
         /\ Collected(s) = Collected(r)
  <1> DEFINE new == [r EXCEPT !.finalized = b]
  <1>1. /\ DOMAIN new = DOMAIN r /\ new.revision = r.revision /\ new.reason = r.reason
        /\ new.confirmed = r.confirmed /\ new.network = r.network /\ new.added = r.added
    BY DEF RowOk
  <1> HIDE DEF new
  <1>2. RowOk(new)
    BY <1>1, LikeRow DEF RowOk
  <1>3. Collected(new) = Collected(r)
    BY <1>1 DEF Collected
  <1> QED BY <1>1, <1>2, <1>3 DEF new


-----------------------------------------------------------------------------
(* Either nothing of a case moves, or its revision does.                   *)

Still == UNCHANGED <<case, materials, concerns, reviews>>

Bumped == case'.revision \in Nat /\ case'.revision > case.revision

LEMMA ShownStands ==
  ASSUME Still
  PROVE  /\ Shown' = Shown
         /\ \A rule : Ripe(rule)' <=> Ripe(rule)
         /\ \A rule : ApprovedUnder(rule)' = ApprovedUnder(rule)
  <1>1. Shown' = Shown /\ Absent(case)' = Absent(case) /\ Unmatched(case)' = Unmatched(case)
    BY DEF Still, Shown, Absent, Unmatched, Collected, RequiredFor
  <1>2. Doubtful' <=> Doubtful
    BY DEF Still, Doubtful, Source, Collected
  <1>3. \A rule : Ripe(rule)' <=> Ripe(rule)
    BY <1>1, <1>2 DEF Still, Ripe
  <1>4. \A rule : ApprovedUnder(rule)' = ApprovedUnder(rule)
    BY DEF Still, ApprovedUnder
  <1> QED BY <1>1, <1>3, <1>4

LEMMA ViewKept ==
  ASSUME CaseOk, NEW v, ViewOk(v), Still \/ Bumped
  PROVE  ViewOk(v)'
  <1>1. case.revision \in Nat
    BY DEF CaseOk, RowOk
  <1>2. CASE Still
    BY <1>2, ShownStands DEF ViewOk, Still
  <1>3. CASE Bumped
    BY <1>1, <1>3 DEF ViewOk, Bumped
  <1> QED BY <1>2, <1>3

LEMMA ReviewKept ==
  ASSUME CaseOk, NEW r, ReviewOk(r), Still \/ Bumped
  PROVE  ReviewOk(r)'
  <1>1. case.revision \in Nat
    BY DEF CaseOk, RowOk
  <1>2. CASE Still
    BY <1>2, ShownStands DEF ReviewOk, Still
  <1>3. CASE Bumped
    BY <1>1, <1>3 DEF ReviewOk, Bumped
  <1> QED BY <1>2, <1>3

LEMMA AskedKept ==
  ASSUME CaseOk, NEW q, AskedOk(q), Still \/ Bumped
  PROVE  AskedOk(q)'
  <1>1. ViewOk(q.saw)'
    <2>1. PICK v : v = q.saw
      OBVIOUS
    <2> QED BY <2>1, ViewKept DEF AskedOk
  <1> QED BY <1>1 DEF AskedOk

LEMMA TurnKept ==
  ASSUME CaseOk, NEW q, TurnOk(q), Still \/ Bumped
  PROVE  TurnOk(q)'
  <1>1. CASE q.phase = "opened"
    BY <1>1 DEF TurnOk
  <1>2. CASE q.phase # "opened"
    <2>1. PICK v : v = q.saw
      OBVIOUS
    <2>2. ViewOk(v) /\ ViewOk(v)' /\ v.revision <= case.revision /\ case.revision \in Nat /\ v.revision \in Nat
      BY <1>2, <2>1, ViewKept DEF TurnOk, ViewOk, CaseOk, RowOk
    <2>3. ASSUME q.status = "APPROVED", v.revision = case'.revision
          PROVE  Ripe(v.rule)'
      <3>1. Still
        BY <2>2, <2>3 DEF Bumped
      <3>2. Ripe(v.rule)
        BY <1>2, <2>1, <2>3, <3>1 DEF TurnOk, Still
      <3> QED BY <3>1, <3>2, ShownStands
    <2> QED BY <1>2, <2>1, <2>2, <2>3 DEF TurnOk
  <1> QED BY <1>1, <1>2

(* Reading a case.                                                         *)
LEMMA ViewTaken ==
  ASSUME CaseOk
  PROVE  ViewOk(View) /\ View.revision = case.revision /\ View.rule = Fingerprint /\ View.shown = Shown
  <1>1. Approved = ApprovedUnder(Fingerprint)
    BY DEF Approved, ApprovedUnder, Current
  <1>2. /\ View.revision = case.revision /\ View.rule = Fingerprint /\ View.shown = Shown
        /\ View = [shown |-> Shown, revision |-> case.revision, rule |-> View.rule,
                   approved |-> ApprovedUnder(View.rule)]
    BY <1>1 DEF View
  <1>3. case.revision \in Nat
    BY DEF CaseOk, RowOk
  <1> QED BY <1>2, <1>3 DEF ViewOk

LEMMA GateIsRipe ==
  ASSUME Gate
  PROVE  Ripe(Fingerprint) /\ ~Unmatched(case)
  <1>1. ExactRule(case) /\ ~Unmatched(case)
    BY DEF Gate, ExactRule
  <1>2. Fingerprint = <<RuleFor(case), Detail(rules, RuleFor(case))>>
    BY <1>1 DEF Fingerprint, FingerprintOf
  <1> QED BY <1>1, <1>2 DEF Ripe, Gate, ExactRule

LEMMA RipeIsGate ==
  ASSUME Ripe(Fingerprint)
  PROVE  Gate
  <1>1. ~Unmatched(case)
    BY DEF Ripe
  <1>2. Fingerprint = <<RuleFor(case), Detail(rules, RuleFor(case))>>
    BY <1>1 DEF Fingerprint, FingerprintOf
  <1>3. ExactRule(case)
    BY <1>1, <1>2 DEF Ripe, ExactRule
  <1> QED BY <1>3 DEF Ripe, Gate

(* Whoever waits goes on waiting with what they saw, or has seen it now.   *)
LEMMA SeenKept ==
  ASSUME CaseOk, SeenOk, Still \/ Bumped,
         DOMAIN asked' = Clients,
         \A k \in Clients : asked'[k] \in {None, asked[k]} \/ AskedOk(asked[k])',
         DOMAIN turns' = Turns,
         \A t \in Turns : turns'[t] \in {None, turns[t]} \/ TurnOk(turns[t])',
         DOMAIN drafts' = Summaries,
         \A s \in Summaries : drafts'[s] \in {None, drafts[s]} \/ ViewOk(drafts[s])'
  PROVE  SeenOk'
  <1>1. ASSUME NEW k \in Clients, asked'[k] # None
        PROVE  AskedOk(asked[k])'
    <2>1. PICK q : q = asked[k]
      OBVIOUS
    <2>2. asked'[k] = q => AskedOk(q)'
      BY <1>1, <2>1, AskedKept DEF SeenOk
    <2>3. asked'[k] = q \/ AskedOk(asked[k])'
      BY <1>1, <2>1
    <2>4. CASE asked'[k] = q
      BY <2>2, <2>4
    <2> QED BY <2>3, <2>4
  <1>2. ASSUME NEW t \in Turns, turns'[t] # None
        PROVE  TurnOk(turns[t])'
    <2>1. PICK q : q = turns[t]
      OBVIOUS
    <2>2. turns'[t] = q => TurnOk(q)'
      BY <1>2, <2>1, TurnKept DEF SeenOk
    <2>3. turns'[t] = q \/ TurnOk(turns[t])'
      BY <1>2, <2>1
    <2>4. CASE turns'[t] = q
      BY <2>2, <2>4
    <2> QED BY <2>3, <2>4
  <1>3. ASSUME NEW s \in Summaries, drafts'[s] # None
        PROVE  ViewOk(drafts[s])'
    <2>1. PICK q : q = drafts[s]
      OBVIOUS
    <2>2. drafts'[s] = q => ViewOk(q)'
      BY <1>3, <2>1, ViewKept DEF SeenOk
    <2>3. drafts'[s] = q \/ ViewOk(drafts[s])'
      BY <1>3, <2>1
    <2>4. CASE drafts'[s] = q
      BY <2>2, <2>4
    <2> QED BY <2>3, <2>4
  <1> QED BY <1>1, <1>2, <1>3 DEF SeenOk


-----------------------------------------------------------------------------
(* What a command may do to a case.                                        *)

FactsStand ==
  /\ case.confirmed => case'.confirmed
  /\ case.confirmed /\ case'.reason # case.reason => Accepted("reason_code")
  /\ case.network \notin {None, case'.network} => Accepted("card_network")

CaseMoves ==
  /\ Still \/ Bumped
  /\ RowOk(case') /\ FactsStand
  /\ \A r \in reviews' : r \in reviews \/ ReviewOk(r)'

LEMMA NothingMoves ==
  ASSUME CaseOk, Still
  PROVE  CaseMoves
  BY DEF CaseMoves, Still, FactsStand, CaseOk

LEMMA CaseFollows ==
  ASSUME CaseOk, NEW new, Follows(new, case), case' = new, UNCHANGED reviews
  PROVE  CaseMoves
  <1>1. Bumped
    BY DEF Bumped, Follows, CaseOk, RowOk
  <1>2. RowOk(case')
    BY DEF Follows
  <1>3. FactsStand
    BY Zenon DEF FactsStand, Follows
  <1> QED BY <1>1, <1>2, <1>3 DEF CaseMoves

(* A row that was saved over the case, or the same.                        *)
LEMMA CaseSaved ==
  ASSUME CaseOk, NEW s, RowOk(s), case' = Saved(case, s), s.network = case.network,
         case.confirmed => s.reason = case.reason /\ s.confirmed,
         UNCHANGED <<materials, concerns, reviews>>
  PROVE  CaseMoves
  <1> DEFINE new == Saved(case, s)
  <1>1. RowOk(case)
    BY DEF CaseOk
  <1>2. /\ RowOk(new)
        /\ \/ new = case
           \/ /\ new.revision = case.revision + 1 /\ new.reason = s.reason
              /\ new.confirmed = s.confirmed /\ new.network = s.network
    BY <1>1, SavedRow
  <1>3. case' = new
    OBVIOUS
  <1> HIDE DEF new
  <1>4. CASE new = case
    BY <1>3, <1>4, NothingMoves DEF Still
  <1>5. CASE new # case
    <2>1. Bumped
      BY <1>1, <1>2, <1>3, <1>5 DEF Bumped, RowOk
    <2>2. FactsStand
      BY <1>2, <1>3, <1>5, Zenon DEF FactsStand
    <2> QED BY <1>2, <1>3, <2>1, <2>2 DEF CaseMoves
  <1> QED BY <1>4, <1>5

(* Decisions: what is reviewed stays what it is.                           *)
LEMMA DecidedCase ==
  ASSUME WorkspaceInv, NEW status, NEW rule, NEW seen, NEW turn, Decide(status, rule, seen, turn),
         UNCHANGED <<materials, concerns>>, seen = Shown, status = "APPROVED" => Ripe(rule)
  PROVE  CaseMoves
  <1> DEFINE new == [case EXCEPT !.revision = @ + 1]
  <1>x. PICK x : x = [revision |-> case.revision + 1, status |-> status, rule |-> rule,
                      seen |-> seen, turn |-> turn]
    OBVIOUS
  <1>1. RowOk(case) /\ CaseOk
    BY DEF WorkspaceInv, CaseOk
  <1>2. case' = new /\ reviews' = reviews \cup {x}
    BY <1>x DEF Decide
  <1>3. Follows(new, case)
    BY <1>1, NumberedRow
  <1>4. /\ new.reason = case.reason /\ new.network = case.network /\ new.added = case.added
        /\ new.confirmed = case.confirmed /\ new.revision = case.revision + 1
        /\ [new EXCEPT !.revision = 0] = [case EXCEPT !.revision = 0]
    BY <1>1 DEF RowOk
  <1> HIDE DEF new
  <1>5. Shown' = Shown
    BY <1>2, <1>4 DEF Shown
  <1>6. ASSUME Ripe(rule)
        PROVE  Ripe(rule)'
    <2>1. /\ Absent(case)' = Absent(case) /\ Collected(case)' = Collected(case)
          /\ Unmatched(case)' = Unmatched(case)
      BY <1>2, <1>4 DEF Absent, Unmatched, Collected, RequiredFor
    <2>2. Doubtful' <=> Doubtful
      BY <2>1 DEF Doubtful, Source
    <2>3. case'.confirmed
      BY <1>2, <1>4, <1>6, Zenon DEF Ripe
    <2> QED BY <1>6, <2>1, <2>2, <2>3 DEF Ripe
  <1>7. ReviewOk(x)'
    <2>1. /\ x.revision = case.revision + 1 /\ x.status = status /\ x.rule = rule /\ x.seen = seen
      BY <1>x
    <2>2. x.revision \in Nat /\ x.revision <= case'.revision
      BY <1>1, <1>2, <1>4, <2>1 DEF RowOk
    <2> QED BY <1>5, <1>6, <2>1, <2>2 DEF ReviewOk
  <1>8. Bumped /\ RowOk(case')
    BY <1>1, <1>2, <1>3 DEF Bumped, Follows, RowOk
  <1>9. FactsStand
    BY <1>2, <1>4, Zenon DEF FactsStand
  <1> QED BY <1>2, <1>7, <1>8, <1>9 DEF CaseMoves


-----------------------------------------------------------------------------
(* Each command.                                                           *)

LEMMA CaseGrows ==
  ASSUME CaseOk, NEW new, RowOk(new), new.revision > case.revision, case' = new, FactsStand,
         UNCHANGED reviews
  PROVE  CaseMoves
  BY DEF CaseMoves, Bumped, RowOk

LEMMA RegisterMoves ==
  ASSUME CaseOk, NEW d, d.code \in Codes, RegisterMaterial(d)
  PROVE  CaseMoves
  <1> DEFINE m == Submitted(case, d.code)
             s == [m EXCEPT !.finalized = FALSE]
             new == Saved(case, s)
  <1>1. RowOk(case) /\ d.code \notin Collected(case) /\ UNCHANGED reviews
    BY DEF CaseOk, RegisterMaterial
  <1>2. /\ RowOk(m) /\ m.reason = case.reason /\ m.confirmed = case.confirmed
        /\ m.network = case.network /\ d.code \in Collected(m)
    BY <1>1, SubmittedRow
  <1>3. case' = Touched(new) \/ case' = new
    BY DEF RegisterMaterial, RaiseConcern
  <1> HIDE DEF m
  <1>4. /\ RowOk(s) /\ s.reason = m.reason /\ s.confirmed = m.confirmed /\ s.network = m.network
        /\ Collected(s) = Collected(m)
    BY <1>2, FinalizedRow
  <1> HIDE DEF s
  <1>5. Adds(case, s)
    BY <1>1, <1>2, <1>4 DEF Adds
  <1>6. Follows(new, case)
    <2>1. /\ RowOk(new) /\ new.revision = case.revision + 1 /\ new.reason = s.reason
          /\ new.confirmed = s.confirmed /\ new.network = s.network
      BY <1>1, <1>4, <1>5, SavedRow
    <2> HIDE DEF new
    <2> QED BY <1>2, <1>4, <2>1, Zenon DEF Follows
  <1> HIDE DEF new
  <1>7. CASE case' = new
    BY <1>1, <1>6, <1>7, CaseFollows
  <1>8. CASE case' = Touched(new)
    <2>1. RowOk(new) /\ Follows(Touched(new), new)
      BY <1>6, TouchedRow DEF Follows
    <2> DEFINE row == Touched(new)
    <2> HIDE DEF row
    <2>2. Follows(row, new)
      BY <2>1 DEF row
    <2>3. RowOk(row) /\ row.revision > case.revision
      BY <1>1, <1>6, <2>2 DEF Follows, RowOk
    <2>4. case' = row
      BY <1>8 DEF row
    <2>5. FactsStand
      BY <1>6, <2>2, <2>4, Zenon DEF Follows, FactsStand
    <2> QED BY <1>1, <2>3, <2>4, <2>5, CaseGrows
  <1> QED BY <1>3, <1>7, <1>8

LEMMA SetFactMoves ==
  ASSUME CaseOk, NEW d, SetFact(d),
         d.action = "CONFIRM_REASON" => d.field = "reason_code" /\ d.value \in Reasons,
         d.action = "SET_NETWORK" => d.field = "card_network"
  PROVE  CaseMoves
  <1>1. RowOk(case) /\ UNCHANGED <<materials, reviews>>
    BY DEF CaseOk, SetFact
  <1>2. CASE Fact(case, d.field) \notin {None, d.value}
    <2>1. case' = Touched(case)
      BY <1>2 DEF SetFact, RaiseConcern
    <2> QED BY <1>1, <2>1, TouchedRow, CaseFollows
  <1>3. CASE Fact(case, d.field) \in {None, d.value} /\ d.field = "card_network"
    <2> DEFINE new == WithNetwork(case, d.value)
    <2>1. case' = new /\ UNCHANGED concerns
      BY <1>3 DEF SetFact
    <2>2. /\ RowOk(new) /\ new.network = d.value /\ new.reason = case.reason
          /\ new.confirmed = case.confirmed
          /\ new = case \/ new.revision = case.revision + 1
      BY <1>1, NetworkRow
    <2> HIDE DEF new
    <2>3. case.network \in {None, d.value}
      BY <1>3 DEF Fact
    <2>4. FactsStand
      BY <2>1, <2>2, <2>3, Zenon DEF FactsStand
    <2>5. CASE new = case
      BY <1>1, <2>1, <2>5, NothingMoves DEF Still
    <2>6. CASE new # case
      <3>1. new.revision > case.revision
        BY <1>1, <2>2, <2>6 DEF RowOk
      <3> QED BY <1>1, <2>1, <2>2, <2>4, <3>1, CaseGrows
    <2> QED BY <2>5, <2>6
  <1>4. CASE Fact(case, d.field) \in {None, d.value} /\ d.field # "card_network"
    <2> DEFINE s == [case EXCEPT !.reason = d.value, !.confirmed = TRUE]
    <2>1. case' = Saved(case, s) /\ UNCHANGED concerns
      BY <1>4 DEF SetFact
    <2>2. d.field = "reason_code" /\ d.value \in Reasons /\ None \notin Reasons
      BY <1>4, PoliciesAssumption DEF SetFact
    <2>3. /\ DOMAIN s = DOMAIN case /\ s.revision = case.revision /\ s.added = case.added
          /\ s.reason = d.value /\ s.confirmed = TRUE /\ s.network = case.network
      BY <1>1 DEF RowOk
    <2> HIDE DEF s
    <2>4. RowOk(s)
      BY <1>1, <2>2, <2>3 DEF RowOk
    <2>5. case.confirmed => s.reason = case.reason /\ s.confirmed
      BY <1>1, <1>4, <2>2, <2>3 DEF RowOk, Fact
    <2> QED BY <1>1, <2>1, <2>3, <2>4, <2>5, CaseSaved
  <1> QED BY <1>2, <1>3, <1>4

LEMMA ResolveMoves ==
  ASSUME CaseOk, NEW d, ResolveConcern(d)
  PROVE  CaseMoves
  <1>1. RowOk(case) /\ UNCHANGED <<materials, reviews>>
    BY DEF CaseOk, ResolveConcern
  <1>2. PICK x \in concerns :
          /\ CloseConcern(x) /\ Resolvable(x, d.resolution)
          /\ d.resolution = "ACCEPT_PROPOSED" => x.field \in Facts /\ x.new \in Values(x.field)
          /\ case' = Touched(IF d.resolution = "ACCEPT_PROPOSED" THEN Corrected(case, x.field, x.new)
                             ELSE case)
    BY DEF ResolveConcern
  <1>3. CASE d.resolution # "ACCEPT_PROPOSED"
    <2>1. case' = Touched(case)
      BY <1>2, <1>3
    <2> QED BY <1>1, <2>1, TouchedRow, CaseFollows
  <1>4. CASE d.resolution = "ACCEPT_PROPOSED"
    <2> DEFINE s == Corrected(case, x.field, x.new)
               row == Touched(s)
    <2>1. /\ case' = row /\ x.field \in {"reason_code", "card_network"}
          /\ x.field = "reason_code" => x.new \in Reasons
      BY <1>2, <1>4 DEF Facts, Values
    <2>2. /\ DOMAIN s = DOMAIN case /\ s.revision = case.revision /\ s.added = case.added
          /\ x.field = "reason_code" => s.reason = x.new /\ s.confirmed = TRUE /\ s.network = case.network
          /\ x.field = "card_network" =>
               s.reason = case.reason /\ s.confirmed = case.confirmed /\ s.network = x.new
      BY <1>1, <2>1 DEF Corrected, RowOk
    <2> HIDE DEF s
    <2>3. RowOk(s)
      <3>1. CASE x.field = "reason_code"
        BY <1>1, <2>1, <2>2, <3>1, PoliciesAssumption DEF RowOk
      <3>2. CASE x.field = "card_network"
        BY <1>1, <2>2, <3>2, LikeRow DEF RowOk
      <3> QED BY <2>1, <3>1, <3>2
    <2>4. Follows(row, s)
      BY <2>3, TouchedRow
    <2> HIDE DEF row
    <2>5. RowOk(row) /\ row.revision > case.revision
      BY <1>1, <2>2, <2>4 DEF Follows, RowOk
    <2>6. x.new = Fact(case, x.field)' => Accepted(x.field)
      BY <1>2, <1>4, <2>1 DEF Accepted, CloseConcern, Resolvable, Facts
    <2>7. FactsStand
      <3>1. CASE x.field = "reason_code"
        <4>1. Accepted("reason_code") /\ case'.confirmed /\ case'.network = case.network
          BY <2>1, <2>2, <2>4, <2>6, <3>1 DEF Fact, Follows
        <4> QED BY <4>1, Zenon DEF FactsStand
      <3>2. CASE x.field = "card_network"
        <4>1. Accepted("card_network") /\ case'.reason = case.reason
          BY <2>1, <2>2, <2>4, <2>6, <3>2 DEF Fact, Follows
        <4>2. case'.confirmed = case.confirmed
          BY <2>1, <2>2, <2>4, <3>2, Zenon DEF Follows
        <4> QED BY <4>1, <4>2, Zenon DEF FactsStand
      <3> QED BY <2>1, <3>1, <3>2
    <2> QED BY <1>1, <2>1, <2>5, <2>7, CaseGrows
  <1> QED BY <1>3, <1>4

LEMMA FinalizeMoves ==
  ASSUME CaseOk, NEW d, Finalize(d)
  PROVE  CaseMoves
  <1> DEFINE s == Finalized(case)
  <1>1. RowOk(case) /\ case' = Saved(case, s) /\ UNCHANGED <<materials, concerns, reviews>>
    BY DEF CaseOk, Finalize
  <1>2. RowOk(s) /\ s.reason = case.reason /\ s.confirmed = case.confirmed /\ s.network = case.network
    BY <1>1, FinalizedRow DEF Finalized
  <1> HIDE DEF s
  <1>3. case.confirmed => s.reason = case.reason /\ s.confirmed
    BY <1>2, Zenon
  <1> QED BY <1>1, <1>2, <1>3, CaseSaved


-----------------------------------------------------------------------------
(* Each step.                                                              *)

LEMMA InvKept ==
  ASSUME WorkspaceInv, CaseMoves, SeenOk', IsSeq(summaries)', load' = load,
         DOMAIN loaded' = Threads, \A w \in Threads : loaded'[w] \in {None, loaded[w]} \/ RowOk(loaded'[w])
  PROVE  WorkspaceInv'
  <1>1. CaseOk /\ \A r \in reviews : ReviewOk(r)
    BY DEF WorkspaceInv
  <1>2. \A r \in reviews' : ReviewOk(r)'
    BY <1>1, ReviewKept DEF CaseMoves
  <1>3. ~Exists' => ~case'.confirmed /\ case'.network = None
    <2>1. CASE Still
      BY <1>1, <2>1 DEF Still, CaseOk, Exists
    <2>2. CASE Bumped
      BY <1>1, <2>2 DEF Bumped, CaseOk, RowOk, Exists
    <2> QED BY <2>1, <2>2 DEF CaseMoves
  <1>4. RowOk(case)'
    BY DEF CaseMoves, RowOk
  <1>5. ASSUME NEW w \in Threads, loaded'[w] # None
        PROVE  RowOk(loaded[w])'
    <2>1. RowOk(loaded'[w])
      BY <1>1, <1>5 DEF CaseOk
    <2> QED BY <2>1 DEF RowOk
  <1>6. CaseOk'
    BY <1>3, <1>4, <1>5 DEF CaseOk
  <1> QED BY <1>2, <1>6 DEF WorkspaceInv

LEMMA ExecuteMoves ==
  ASSUME WorkspaceInv, NEW k \in Clients, Execute(k)
  PROVE  CaseMoves
  <1>1. PICK d, saw : d = asked[k].does /\ saw = asked[k].saw
    OBVIOUS
  <1>2. /\ asked[k] # None /\ saw.revision = case.revision
        /\ \/ RegisterMaterial(d) \/ WithdrawMaterial(d) \/ SetFact(d) \/ Finalize(d)
           \/ AddConcern(d) \/ ResolveConcern(d) \/ Review(d, saw)
    BY <1>1 DEF Execute, SameRevision
  <1>3. CaseOk /\ RowOk(case) /\ AskedOk(asked[k])
    BY <1>2 DEF WorkspaceInv, SeenOk, CaseOk
  <1>4. /\ ViewOk(saw)
        /\ d.action = "REGISTER_MATERIAL" => d.code \in Codes
        /\ d.action = "CONFIRM_REASON" => d.field = "reason_code" /\ d.value \in Reasons
        /\ d.action = "SET_NETWORK" => d.field = "card_network"
    BY <1>1, <1>3 DEF AskedOk
  <1>5. CASE RegisterMaterial(d)
    BY <1>3, <1>4, <1>5, RegisterMoves DEF RegisterMaterial
  <1>6. CASE WithdrawMaterial(d)
    BY <1>3, <1>6, WithdrawnRow, CaseFollows DEF WithdrawMaterial
  <1>7. CASE SetFact(d)
    BY <1>3, <1>4, <1>7, SetFactMoves
  <1>8. CASE Finalize(d)
    BY <1>3, <1>8, FinalizeMoves
  <1>9. CASE AddConcern(d)
    BY <1>3, <1>9, TouchedRow, CaseFollows DEF AddConcern, RaiseConcern
  <1>10. CASE ResolveConcern(d)
    BY <1>3, <1>10, ResolveMoves
  <1>11. CASE Review(d, saw)
    <2>1. PICK rule : rule = Fingerprint
      OBVIOUS
    <2>2. /\ d.decision = "APPROVED" => Ripe(rule)
          /\ Decide(d.decision, rule, saw.shown, None) /\ UNCHANGED <<materials, concerns>>
      BY <1>11, <2>1, GateIsRipe DEF Review
    <2>3. saw.shown = Shown
      BY <1>2, <1>4 DEF ViewOk
    <2> QED BY <2>2, <2>3, DecidedCase
  <1> QED BY <1>2, <1>5, <1>6, <1>7, <1>8, <1>9, <1>10, <1>11

LEMMA ExecuteKeeps ==
  ASSUME WorkspaceInv, NEW k \in Clients, Execute(k)
  PROVE  WorkspaceInv' /\ CaseMoves /\ UNCHANGED summaries
  <1>1. CaseMoves
    BY ExecuteMoves
  <1>2. /\ asked' = [asked EXCEPT ![k] = None]
        /\ UNCHANGED <<loaded, turns, drafts, summaries, book, rules, load>>
    BY DEF Execute
  <1>3. SeenOk'
    BY <1>1, <1>2, SeenKept DEF WorkspaceInv, SeenOk, CaseMoves
  <1> QED BY <1>1, <1>2, <1>3, InvKept DEF WorkspaceInv, CaseOk, IsSeq

LEMMA WishesFit ==
  ASSUME NEW a \in Actions, NEW d \in Wishes(a)
  PROVE  /\ d.action = "REGISTER_MATERIAL" => d.code \in Codes
         /\ d.action = "CONFIRM_REASON" => d.field = "reason_code" /\ d.value \in Reasons
         /\ d.action = "SET_NETWORK" => d.field = "card_network"
  <1>1. d.action = a
    BY DEF Wishes, Actions
  <1>2. CASE a = "REGISTER_MATERIAL"
    BY <1>1, <1>2 DEF Wishes
  <1>3. CASE a = "CONFIRM_REASON"
    BY <1>1, <1>3 DEF Wishes
  <1>4. CASE a = "SET_NETWORK"
    BY <1>1, <1>4 DEF Wishes
  <1> QED BY <1>1, <1>2, <1>3, <1>4

LEMMA AskKeeps ==
  ASSUME WorkspaceInv, NEW k \in Clients, Ask(k)
  PROVE  WorkspaceInv' /\ CaseMoves /\ UNCHANGED summaries
  <1>1. /\ Still /\ UNCHANGED <<loaded, turns, drafts, summaries, book, rules, load>>
    BY DEF Ask, Still, caseVars
  <1>v. PICK v : v = View
    OBVIOUS
  <1>a. PICK a \in load.actions : \E d \in Wishes(a) : asked' = [asked EXCEPT ![k] = [does |-> d, saw |-> v]]
    BY <1>v DEF Ask
  <1>2. PICK d \in Wishes(a) : asked' = [asked EXCEPT ![k] = [does |-> d, saw |-> v]]
    BY <1>a
  <1>3. CaseOk /\ CaseMoves
    BY <1>1, NothingMoves DEF WorkspaceInv
  <1>4. a \in Actions
    BY LoadsAssumption DEF WorkspaceInv
  <1>5. ViewOk(v)'
    BY <1>1, <1>v, <1>3, ViewTaken, ViewKept
  <1> DEFINE q == [does |-> d, saw |-> v]
  <1>6. AskedOk(q)'
    BY <1>4, <1>5, WishesFit DEF AskedOk
  <1>7. asked' = [asked EXCEPT ![k] = q]
    BY <1>2
  <1> HIDE DEF q
  <1>8. \A j \in Clients : asked'[j] = asked[j] \/ AskedOk(asked[j])'
    <2>1. ASSUME NEW j \in Clients, j = k
          PROVE  AskedOk(asked[j])'
      <3>1. asked'[j] = q
        BY <1>7, <2>1 DEF WorkspaceInv, SeenOk
      <3> QED BY <1>6, <3>1
    <2> QED BY <1>7, <2>1 DEF WorkspaceInv, SeenOk
  <1>9. SeenOk'
    BY <1>1, <1>3, <1>7, <1>8, SeenKept DEF WorkspaceInv, SeenOk
  <1> QED BY <1>1, <1>3, <1>9, InvKept DEF WorkspaceInv, CaseOk, IsSeq

LEMMA RefuseKeeps ==
  ASSUME WorkspaceInv, NEW k \in Clients, Refuse(k)
  PROVE  WorkspaceInv' /\ CaseMoves /\ UNCHANGED summaries
  <1>1. /\ Still /\ UNCHANGED <<loaded, turns, drafts, summaries, book, rules, load>>
        /\ asked' = [asked EXCEPT ![k] = None]
    BY DEF Refuse, Still, caseVars
  <1>2. CaseMoves
    BY <1>1, NothingMoves DEF WorkspaceInv
  <1>3. SeenOk'
    BY <1>1, SeenKept DEF WorkspaceInv, SeenOk
  <1> QED BY <1>1, <1>2, <1>3, InvKept DEF WorkspaceInv, CaseOk, IsSeq


-----------------------------------------------------------------------------
(* Turns of the agent.                                                     *)

TurnsKeep ==
  DOMAIN turns' = Turns /\ \A t \in Turns : turns'[t] \in {None, turns[t]} \/ TurnOk(turns[t])'

LEMMA TurnPut ==
  ASSUME SeenOk, NEW t \in Turns, NEW q, turns' = [turns EXCEPT ![t] = q], TurnOk(q)'
  PROVE  TurnsKeep
  <1>1. ASSUME NEW u \in Turns, u = t
        PROVE  TurnOk(turns[u])'
    <2>1. turns'[u] = q
      BY <1>1 DEF SeenOk
    <2> QED BY <2>1
  <1> QED BY <1>1 DEF SeenOk, TurnsKeep

LEMMA TurnGoesOn ==
  ASSUME CaseOk, SeenOk, NEW t \in Turns, turns[t] # None, turns[t].phase # "opened", NEW p,
         turns' = [turns EXCEPT ![t].phase = p], Still \/ Bumped
  PROVE  TurnsKeep
  <1>1. PICK q : q = turns[t]
    OBVIOUS
  <1>2. TurnOk(q) /\ q.phase # "opened"
    BY <1>1 DEF SeenOk
  <1>3. PICK new : new = [q EXCEPT !.phase = p]
    OBVIOUS
  <1>4. DOMAIN new = {"phase", "status", "saw"} /\ new.status = q.status /\ new.saw = q.saw
    BY <1>2, <1>3 DEF TurnOk
  <1>5. TurnOk(new)
    BY <1>2, <1>4 DEF TurnOk
  <1>6. TurnOk(new)'
    BY <1>5, TurnKept
  <1>7. turns' = [turns EXCEPT ![t] = new]
    BY <1>1, <1>3
  <1> QED BY <1>6, <1>7, TurnPut

LEMMA TurnStarts ==
  ASSUME WorkspaceInv, NEW t \in Turns, Describe(t) \/ StartTurn(t)
  PROVE  WorkspaceInv' /\ CaseMoves /\ UNCHANGED summaries
  <1>1. /\ Still /\ UNCHANGED <<loaded, asked, drafts, summaries, book, rules, load>>
    BY DEF Describe, StartTurn, Still, caseVars
  <1>2. PICK v : v = View
    OBVIOUS
  <1>3. PICK status :
          /\ turns' = [turns EXCEPT ![t] = [phase |-> "drafted", status |-> status, saw |-> v]]
          /\ status = "APPROVED" => Gate
    BY <1>2 DEF Describe, StartTurn
  <1>4. CaseOk /\ CaseMoves
    BY <1>1, NothingMoves DEF WorkspaceInv
  <1>5. ViewOk(v)' /\ v.revision = case.revision /\ v.rule = Fingerprint
    BY <1>1, <1>2, <1>4, ViewTaken, ViewKept
  <1>6. status = "APPROVED" => Ripe(v.rule)'
    <2>1. PICK rule : rule = Fingerprint
      OBVIOUS
    <2>2. status = "APPROVED" => Ripe(rule)'
      BY <1>1, <1>3, <2>1, GateIsRipe, ShownStands
    <2> QED BY <1>5, <2>1, <2>2
  <1> DEFINE q == [phase |-> "drafted", status |-> status, saw |-> v]
  <1>7. TurnOk(q)'
    BY <1>5, <1>6 DEF TurnOk
  <1>8. turns' = [turns EXCEPT ![t] = q]
    BY <1>3
  <1> HIDE DEF q
  <1>9. TurnsKeep
    BY <1>7, <1>8, TurnPut DEF WorkspaceInv
  <1>10. SeenOk'
    BY <1>1, <1>4, <1>9, SeenKept DEF WorkspaceInv, SeenOk, TurnsKeep
  <1> QED BY <1>1, <1>4, <1>10, InvKept DEF WorkspaceInv, CaseOk, IsSeq

LEMMA TurnSaved ==
  ASSUME WorkspaceInv, NEW t \in Turns, SaveTurn(t) \/ BeginConfirm(t)
  PROVE  WorkspaceInv' /\ CaseMoves /\ UNCHANGED summaries
  <1>1. /\ Still /\ UNCHANGED <<loaded, asked, drafts, summaries, book, rules, load>>
        /\ turns[t] # None /\ turns[t].phase # "opened"
    BY DEF SaveTurn, BeginConfirm, Still, caseVars
  <1>2. PICK p : turns' = [turns EXCEPT ![t].phase = p]
    BY DEF SaveTurn, StoreTurn, LoseTurn, BeginConfirm
  <1>3. CaseOk /\ CaseMoves
    BY <1>1, NothingMoves DEF WorkspaceInv
  <1>4. TurnsKeep
    BY <1>1, <1>2, <1>3, TurnGoesOn DEF WorkspaceInv
  <1>5. SeenOk'
    BY <1>1, <1>3, <1>4, SeenKept DEF WorkspaceInv, SeenOk, TurnsKeep
  <1> QED BY <1>1, <1>3, <1>5, InvKept DEF WorkspaceInv, CaseOk, IsSeq

LEMMA ConfirmKeeps ==
  ASSUME WorkspaceInv, NEW t \in Turns, Confirm(t)
  PROVE  WorkspaceInv' /\ CaseMoves /\ UNCHANGED summaries
  <1>1. /\ UNCHANGED <<loaded, materials, concerns, asked, drafts, summaries, book, rules, load>>
        /\ turns[t] # None /\ turns[t].phase = "confirming"
        /\ turns' = [turns EXCEPT ![t].phase = "saved"]
    BY DEF Confirm
  <1>2. CaseOk /\ SeenOk /\ TurnOk(turns[t])
    BY <1>1 DEF WorkspaceInv, SeenOk
  <1>3. CaseMoves
    <2>1. CASE UNCHANGED <<case, reviews>>
      BY <1>1, <1>2, <2>1, NothingMoves DEF Still
    <2>2. CASE SameRevision(turns[t].saw) /\ Decide(turns[t].status, turns[t].saw.rule, turns[t].saw.shown, t)
      <3>1. PICK status, saw : status = turns[t].status /\ saw = turns[t].saw
        OBVIOUS
      <3>2. /\ ViewOk(saw) /\ saw.revision = case.revision
            /\ status = "APPROVED" => Ripe(saw.rule)
        BY <1>1, <1>2, <2>2, <3>1 DEF TurnOk, SameRevision
      <3>3. saw.shown = Shown
        BY <3>2 DEF ViewOk
      <3>4. PICK rule : rule = saw.rule
        OBVIOUS
      <3>5. Decide(status, rule, saw.shown, t) /\ (status = "APPROVED" => Ripe(rule))
        BY <2>2, <3>1, <3>2, <3>4
      <3> QED BY <1>1, <3>3, <3>5, DecidedCase
    <2> QED BY <2>1, <2>2 DEF Confirm
  <1>4. TurnsKeep
    BY <1>1, <1>2, <1>3, TurnGoesOn DEF CaseMoves
  <1>5. SeenOk'
    BY <1>1, <1>2, <1>3, <1>4, SeenKept DEF SeenOk, TurnsKeep, CaseMoves
  <1> QED BY <1>1, <1>3, <1>5, InvKept DEF WorkspaceInv, CaseOk, IsSeq


-----------------------------------------------------------------------------
(* Creation.                                                               *)

LEMMA OpenedRow ==
  ASSUME NEW reason \in Reasons, NEW confirmed \in BOOLEAN
  PROVE  RowOk(Opened(reason, confirmed)) /\ Opened(reason, confirmed).revision = 1
  <1> DEFINE new == Opened(reason, confirmed)
  <1>1. /\ DOMAIN new = {"revision", "reason", "confirmed", "finalized", "network", "added"}
        /\ new.revision = 1 /\ new.reason = reason /\ new.confirmed = confirmed /\ DOMAIN new.added = Codes
    BY DEF Opened, NewCase
  <1> HIDE DEF new
  <1>2. new.confirmed \in BOOLEAN /\ new.reason # None
    BY <1>1, PoliciesAssumption, Zenon
  <1>3. RowOk(new)
    BY <1>1, <1>2 DEF RowOk
  <1> QED BY <1>1, <1>3 DEF new

LEMMA CaseBegins ==
  ASSUME CaseOk, ~Exists, RowOk(case'), case'.revision > 0, \A r \in reviews' : ReviewOk(r)'
  PROVE  CaseMoves
  <1>1. case.revision = 0
    BY DEF CaseOk, RowOk, Exists
  <1>2. FactsStand
    BY DEF CaseOk, FactsStand
  <1> QED BY <1>1, <1>2 DEF CaseMoves, Bumped, RowOk

(* No review is of a case that does not exist yet, or was when it did not. *)
LEMMA CreateCaseMoves ==
  ASSUME WorkspaceInv, CreateCase
  PROVE  CaseMoves
  <1>1. CaseOk /\ ~Exists
    BY DEF WorkspaceInv, CreateCase
  <1>2. PICK x \in Classified, n \in Networks \cup {None} :
          case' = WithNetwork(Opened(x.reason, x.confident), n)
    BY DEF CreateCase
  <1>3. x.reason \in Reasons /\ x.confident \in BOOLEAN
    <2>1. \A y \in [reason : Reasons, confident : BOOLEAN] :
            y.reason \in Reasons /\ y.confident \in BOOLEAN
      OBVIOUS
    <2>2. \A y \in [reason : Reasons, confident : {TRUE}] :
            y.reason \in Reasons /\ y.confident \in BOOLEAN
      OBVIOUS
    <2>3. DefaultReason \in Reasons
      BY PoliciesAssumption
    <2> DEFINE z == [reason |-> DefaultReason, confident |-> FALSE]
    <2>4. z.reason \in Reasons /\ z.confident \in BOOLEAN
      BY <2>3
    <2>5. \/ x \in [reason : Reasons, confident : BOOLEAN]
          \/ x \in [reason : Reasons, confident : {TRUE}]
          \/ x = z
      BY Zenon DEF Classified
    <2> HIDE DEF z
    <2> QED BY <2>1, <2>2, <2>4, <2>5, Zenon
  <1>4. PICK r : r = Opened(x.reason, x.confident)
    OBVIOUS
  <1>5. RowOk(r) /\ r.revision = 1
    BY <1>3, <1>4, OpenedRow
  <1>6. RowOk(case') /\ case'.revision > 0
    BY <1>2, <1>4, <1>5, NetworkRow
  <1>7. Bumped
    BY <1>1, <1>6 DEF Bumped, RowOk, CaseOk, Exists
  <1>8. \A q \in reviews' : ReviewOk(q)'
    BY <1>1, <1>7, ReviewKept DEF CreateCase, WorkspaceInv
  <1> QED BY <1>1, <1>6, <1>8, CaseBegins

LEMMA SampleCounts ==
  ASSUME NEW l \in Loads, NEW p \in l.samples
  PROVE  Len(SampleCodes(p)) \in Nat
  <1> DEFINE required == RequiredFor(p.reason)
             i == CHOOSE j \in DOMAIN required : required[j] = p.critical
             last == IF p.reviewed THEN <<p.critical>> ELSE <<>>
  <1>1. required \in Seq(Codes) /\ p.critical \in ToSet(required)
    BY LoadsAssumption, PoliciesAssumption DEF RequiredFor
  <1>2. Len(required) \in Nat /\ DOMAIN required = 1 .. Len(required)
    BY <1>1, LenProperties
  <1>3. i \in 1 .. Len(required) /\ required[i] = p.critical
    <2>1. \E j \in DOMAIN required : required[j] = p.critical
      BY <1>1 DEF ToSet
    <2> HIDE DEF required
    <2> QED BY <1>2, <2>1
  <1>4. p.critical \in Codes
    <2> HIDE DEF required
    <2> QED BY <1>1, <1>2 DEF ToSet
  <1>5. last \in Seq(Codes)
    BY <1>4
  <1>6. SampleCodes(p) = SubSeq(required, 1, i - 1) \o SubSeq(required, i + 1, Len(required)) \o last
    BY DEF SampleCodes, RemoveAt
  <1> HIDE DEF required, i, last
  <1>7. SubSeq(required, 1, i - 1) \in Seq(Codes) /\ SubSeq(required, i + 1, Len(required)) \in Seq(Codes)
    BY <1>1, <1>2, <1>3, SubSeqProperties
  <1>8. SampleCodes(p) \in Seq(Codes)
    BY <1>5, <1>6, <1>7, ConcatProperties
  <1> QED BY <1>8, LenProperties

LEMMA RegisteredRow ==
  ASSUME NEW r, RowOk(r), NEW codes, Len(codes) \in Nat
  PROVE  RowOk(Registered(r, codes)) /\ Registered(r, codes).revision = r.revision + Len(codes)
  <1> DEFINE new == Registered(r, codes)
             added == [c \in Codes |-> IF c \in ToSet(codes)
                                       THEN r.revision + SelectInSeq(codes, LAMBDA d : d = c) ELSE 0]
  <1>1. new = [r EXCEPT !.revision = @ + Len(codes), !.added = added] /\ DOMAIN added = Codes
    BY DEF Registered
  <1> HIDE DEF new, added
  <1>2. /\ DOMAIN new = DOMAIN r /\ new.revision = r.revision + Len(codes) /\ new.reason = r.reason
        /\ new.confirmed = r.confirmed /\ new.added = added
    BY <1>1 DEF RowOk
  <1>3. RowOk(new)
    BY <1>1, <1>2, LikeRow DEF RowOk
  <1> QED BY <1>2, <1>3 DEF new

LEMMA CopySampleMoves ==
  ASSUME WorkspaceInv, NEW p \in load.samples, CopySample(p)
  PROVE  CaseMoves
  <1> DEFINE codes == SampleCodes(p)
             full == Registered(WithNetwork(Opened(p.reason, TRUE), p.network), codes)
             numbered == [full EXCEPT !.revision = @ + 1]
             last == Withdrawn(numbered, p.critical)
  <1>1. CaseOk /\ ~Exists /\ p.reason \in Reasons /\ Len(codes) \in Nat
    BY LoadsAssumption, SampleCounts DEF WorkspaceInv, CopySample
  <1>2. /\ case' = IF p.reviewed THEN last ELSE full
        /\ \A r \in reviews' : p.reviewed /\ r.revision = full.revision + 1
    <2>1. case' = IF p.reviewed THEN last ELSE full
      BY DEF CopySample
    <2>2. CASE ~p.reviewed
      <3>1. reviews' = {}
        BY <2>2 DEF CopySample
      <3> QED BY <2>1, <3>1
    <2>3. CASE p.reviewed
      <3>1. reviews' =
              {[revision |-> full.revision + 1, status |-> "APPROVED",
                rule |-> FingerprintOf(full), turn |-> None,
                seen |-> [row |-> [full EXCEPT !.revision = 0],
                          materials |-> Templates(codes), concerns |-> {}]]}
        BY <2>3 DEF CopySample
      <3> HIDE DEF full, codes
      <3>2. \A r \in reviews' : r.revision = full.revision + 1
        BY <3>1
      <3> HIDE DEF last
      <3> QED BY <2>1, <2>3, <3>2
    <2> QED BY <2>2, <2>3
  <1>3. RowOk(full) /\ full.revision >= 1
    <2>1. PICK r, s : r = Opened(p.reason, TRUE) /\ s = WithNetwork(r, p.network)
      OBVIOUS
    <2>2. RowOk(r) /\ r.revision = 1
      BY <1>1, <2>1, OpenedRow
    <2>3. RowOk(s) /\ s.revision >= 1
      <3>1. /\ RowOk(WithNetwork(r, p.network))
            /\ WithNetwork(r, p.network) = r \/ WithNetwork(r, p.network).revision = r.revision + 1
        BY <2>2, NetworkRow
      <3>2. RowOk(s) /\ (s = r \/ s.revision = r.revision + 1)
        BY <2>1, <3>1, Zenon
      <3> QED BY <2>2, <3>2
    <2>4. full = Registered(s, codes)
      BY <2>1
    <2> HIDE DEF codes, full
    <2>5. RowOk(full) /\ full.revision = s.revision + Len(codes)
      BY <1>1, <2>3, <2>4, RegisteredRow
    <2> QED BY <1>1, <2>3, <2>5 DEF RowOk
  <1> HIDE DEF full
  <1>4. RowOk(numbered) /\ numbered.revision = full.revision + 1
    BY <1>3, NumberedRow DEF Follows
  <1> HIDE DEF numbered
  <1>5. RowOk(last) /\ last.revision = full.revision + 2
    BY <1>3, <1>4, WithdrawnRow DEF Follows, RowOk
  <1> HIDE DEF last
  <1>6. RowOk(case') /\ case'.revision > 0
    BY <1>2, <1>3, <1>5 DEF RowOk
  <1>7. \A r \in reviews' : ReviewOk(r)'
    <2>1. ASSUME NEW r \in reviews'
          PROVE  /\ r.revision \in Nat /\ r.revision < case'.revision
                 /\ case'.revision \in Nat
      BY <1>2, <1>3, <1>5 DEF RowOk
    <2> QED BY <2>1 DEF ReviewOk
  <1> QED BY <1>1, <1>6, <1>7, CaseBegins

LEMMA CreateKeeps ==
  ASSUME WorkspaceInv, Create
  PROVE  WorkspaceInv' /\ CaseMoves /\ UNCHANGED summaries
  <1>1. UNCHANGED <<loaded, asked, turns, drafts, summaries, load>>
    BY DEF Create, CreateCase, CopySample
  <1>2. CaseMoves
    BY CreateCaseMoves, CopySampleMoves DEF Create
  <1>3. SeenOk'
    BY <1>1, <1>2, SeenKept DEF WorkspaceInv, SeenOk, CaseMoves
  <1> QED BY <1>1, <1>2, <1>3, InvKept DEF WorkspaceInv, CaseOk, IsSeq

LEMMA OpensKeeps ==
  ASSUME WorkspaceInv, NEW t \in Turns, Opens(t)
  PROVE  WorkspaceInv' /\ CaseMoves /\ UNCHANGED summaries
  <1>1. /\ UNCHANGED <<loaded, asked, drafts, summaries, load>>
        /\ turns' = [turns EXCEPT ![t] = [phase |-> "opened"]]
    BY DEF Opens, CreateCase
  <1>2. CaseMoves
    BY CreateCaseMoves DEF Opens
  <1> DEFINE q == [phase |-> "opened"]
  <1>3. TurnOk(q)'
    BY DEF TurnOk
  <1>4. TurnsKeep
    BY <1>1, <1>3, TurnPut DEF WorkspaceInv
  <1>5. SeenOk'
    BY <1>1, <1>2, <1>4, SeenKept DEF WorkspaceInv, SeenOk, TurnsKeep, CaseMoves
  <1> QED BY <1>1, <1>2, <1>5, InvKept DEF WorkspaceInv, CaseOk, IsSeq


-----------------------------------------------------------------------------
(* Summaries, the channel service, and the rules.                          *)

LEMMA Appended ==
  ASSUME NEW s, IsSeq(s), NEW e
  PROVE  IsSeq(Append(s, e)) /\ Last(Append(s, e)) = e
  <1> DEFINE S == {s[i] : i \in DOMAIN s} \cup {e}
             t == Append(s, e)
  <1>1. s \in Seq(S) /\ e \in S
    <2>1. {s[i] : i \in DOMAIN s} \subseteq S
      OBVIOUS
    <2> QED BY <2>1, SeqMonotonic DEF IsSeq
  <1> HIDE DEF S
  <1>2. t \in Seq(S) /\ Len(t) = Len(s) + 1 /\ t[Len(s) + 1] = e
    BY <1>1, AppendProperties
  <1> HIDE DEF t
  <1>3. Range(t) = {t[i] : i \in DOMAIN t}
    BY <1>2, RangeEquality, LenProperties
  <1>4. IsSeq(t)
    BY <1>2, <1>3, SeqOfRange DEF IsSeq
  <1>5. Last(t) = e
    BY <1>2 DEF Last
  <1> QED BY <1>4, <1>5 DEF t

LEMMA StartSummaryKeeps ==
  ASSUME WorkspaceInv, NEW s \in Summaries, StartSummary(s)
  PROVE  WorkspaceInv' /\ CaseMoves /\ UNCHANGED summaries
  <1>1. /\ Still /\ UNCHANGED <<loaded, asked, turns, summaries, book, rules, load>>
    BY DEF StartSummary, Still, caseVars
  <1>2. PICK v : v = View
    OBVIOUS
  <1>3. drafts' = [drafts EXCEPT ![s] = v]
    BY <1>2 DEF StartSummary
  <1>4. CaseOk /\ CaseMoves
    BY <1>1, NothingMoves DEF WorkspaceInv
  <1>5. ViewOk(v)'
    BY <1>1, <1>2, <1>4, ViewTaken, ViewKept
  <1>6. \A d \in Summaries : drafts'[d] = drafts[d] \/ ViewOk(drafts[d])'
    <2>1. ASSUME NEW d \in Summaries, d = s
          PROVE  ViewOk(drafts[d])'
      <3>1. drafts'[d] = v
        BY <1>3, <2>1 DEF WorkspaceInv, SeenOk
      <3> QED BY <1>5, <3>1
    <2> QED BY <1>3, <2>1 DEF WorkspaceInv, SeenOk
  <1>7. SeenOk'
    BY <1>1, <1>3, <1>4, <1>6, SeenKept DEF WorkspaceInv, SeenOk
  <1> QED BY <1>1, <1>4, <1>7, InvKept DEF WorkspaceInv, CaseOk, IsSeq

(* What a summary shows is what the case is.                               *)
LEMMA SaveSummaryKeeps ==
  ASSUME WorkspaceInv, NEW s \in Summaries, SaveSummary(s)
  PROVE  WorkspaceInv' /\ CaseMoves /\ (UNCHANGED summaries \/ Last(summaries)' = View)
  <1>1. /\ Still /\ UNCHANGED <<loaded, asked, turns, book, rules, load>>
        /\ drafts[s] # None /\ drafts' = [drafts EXCEPT ![s] = None]
    BY DEF SaveSummary, Still, caseVars
  <1>2. CaseOk /\ CaseMoves
    BY <1>1, NothingMoves DEF WorkspaceInv
  <1>3. PICK v : v = drafts[s]
    OBVIOUS
  <1>4. ViewOk(v)
    BY <1>1, <1>3 DEF WorkspaceInv, SeenOk
  <1>5. IsSeq(summaries)' /\ (UNCHANGED summaries \/ Last(summaries)' = View)
    <2>1. CASE summaries' = summaries
      BY <2>1 DEF WorkspaceInv, IsSeq
    <2>2. CASE summaries' # summaries
      <3>1. summaries' = Append(summaries, v) /\ v.revision = case.revision /\ v.rule = Fingerprint
        BY <1>3, <2>2 DEF SaveSummary, Unmoved, SameRevision
      <3>2. v = View
        <4>1. Approved = ApprovedUnder(Fingerprint)
          BY DEF Approved, ApprovedUnder, Current
        <4> QED BY <1>4, <3>1, <4>1 DEF ViewOk, View
      <3>3. PICK old : old = summaries
        OBVIOUS
      <3>4. IsSeq(Append(old, v)) /\ Last(Append(old, v)) = v
        BY <3>3, Appended DEF WorkspaceInv
      <3> QED BY <3>1, <3>2, <3>3, <3>4 DEF IsSeq, Last
    <2> QED BY <2>1, <2>2
  <1>6. SeenOk'
    BY <1>1, <1>2, SeenKept DEF WorkspaceInv, SeenOk
  <1> QED BY <1>1, <1>2, <1>5, <1>6, InvKept DEF WorkspaceInv, CaseOk

(* Whatever a request of the channel is to save is a row.                  *)
LoadedKeeps ==
  /\ DOMAIN loaded' = Threads
  /\ \A w \in Threads : loaded'[w] \in {None, loaded[w]} \/ RowOk(loaded'[w])

LEMMA ChannelKeeps ==
  ASSUME WorkspaceInv, Channel
  PROVE  WorkspaceInv' /\ CaseMoves /\ UNCHANGED summaries
  <1>1. UNCHANGED <<materials, concerns, reviews, asked, turns, drafts, summaries, book, rules, load>>
    BY DEF Channel
  <1>2. CaseOk /\ RowOk(case) /\ DOMAIN loaded = Threads
    BY DEF WorkspaceInv, CaseOk
  <1>3. CaseMoves /\ LoadedKeeps
    <2>1. ASSUME NEW w \in Threads, LoadFor(w)
          PROVE  CaseMoves /\ LoadedKeeps
      <3>1. UNCHANGED case
        BY <2>1 DEF LoadFor
      <3>2. PICK s \in {Submitted(case, c) : c \in Codes \ Collected(case)} \cup {Finalized(case)} :
              loaded' = [loaded EXCEPT ![w] = s]
        BY <2>1 DEF LoadFor
      <3>3. RowOk(s)
        BY <1>2, <3>2, SubmittedRow, FinalizedRow DEF Finalized
      <3>4. CaseMoves
        BY <1>1, <1>2, <3>1, NothingMoves DEF Still
      <3> QED BY <1>2, <3>2, <3>3, <3>4 DEF LoadedKeeps
    <2>2. ASSUME NEW w \in Threads, Save(w)
          PROVE  CaseMoves /\ LoadedKeeps
      <3>1. loaded[w] # None /\ loaded' = [loaded EXCEPT ![w] = None]
        BY <2>2 DEF Save
      <3>2. PICK s : s = loaded[w]
        OBVIOUS
      <3>3. RowOk(s)
        BY <1>2, <3>1, <3>2 DEF CaseOk
      <3>4. case' = IF Rejects(case, s) THEN case ELSE Saved(case, s)
        BY <2>2, <3>2 DEF Save
      <3>5. CASE Rejects(case, s)
        BY <1>1, <1>2, <3>1, <3>4, <3>5, NothingMoves DEF Still, LoadedKeeps
      <3>6. CASE ~Rejects(case, s)
        <4>1. /\ s.network = case.network
              /\ case.confirmed => s.reason = case.reason /\ s.confirmed
          BY <3>6, Zenon DEF Rejects
        <4>2. CaseMoves
          BY <1>1, <1>2, <3>3, <3>4, <3>6, <4>1, CaseSaved
        <4> QED BY <1>2, <3>1, <4>2 DEF LoadedKeeps
      <3> QED BY <3>5, <3>6
    <2>3. ASSUME NEW c \in Codes, WithdrawLatest(c)
          PROVE  CaseMoves /\ LoadedKeeps
      <3>1. case' = Withdrawn(case, c) /\ UNCHANGED loaded
        BY <2>3 DEF WithdrawLatest
      <3> QED BY <1>1, <1>2, <3>1, WithdrawnRow, CaseFollows DEF LoadedKeeps
    <2>4. (\E w \in Threads : LoadFor(w) \/ Save(w)) \/ \E c \in Codes : WithdrawLatest(c)
      BY Zenon DEF Channel
    <2> QED BY <2>1, <2>2, <2>3, <2>4
  <1>4. SeenOk'
    BY <1>1, <1>2, <1>3, SeenKept DEF WorkspaceInv, SeenOk, CaseMoves
  <1> QED BY <1>1, <1>3, <1>4, InvKept DEF WorkspaceInv, IsSeq, LoadedKeeps

LEMMA NothingKeeps ==
  ASSUME WorkspaceInv, Still, UNCHANGED <<loaded, asked, turns, drafts, summaries, load>>
  PROVE  WorkspaceInv' /\ CaseMoves /\ UNCHANGED summaries
  <1>1. CaseMoves
    BY NothingMoves DEF WorkspaceInv
  <1>2. SeenOk'
    BY SeenKept DEF WorkspaceInv, SeenOk
  <1> QED BY <1>1, <1>2, InvKept DEF WorkspaceInv, CaseOk, IsSeq

LEMMA InitHolds ==
  ASSUME Init
  PROVE  WorkspaceInv
  <1>1. RowOk(case) /\ ~case.confirmed /\ case.network = None
    <2>1. /\ DOMAIN NewCase = {"revision", "reason", "confirmed", "finalized", "network", "added"}
          /\ NewCase.revision = 0 /\ NewCase.confirmed = FALSE /\ NewCase.network = None
          /\ DOMAIN NewCase.added = Codes
      BY DEF NewCase
    <2>2. case = NewCase
      BY DEF Init, CasesInit
    <2>3. NewCase.confirmed \in BOOLEAN /\ ~NewCase.confirmed
      BY <2>1, Zenon
    <2>4. RowOk(NewCase)
      BY <2>1, <2>3 DEF RowOk
    <2> QED BY <2>1, <2>2, <2>3, <2>4, Zenon
  <1>2. CaseOk
    BY <1>1 DEF Init, CasesInit, CaseOk
  <1>3. SeenOk
    BY DEF Init, SeenOk
  <1>4. IsSeq(summaries)
    BY DEF Init, IsSeq
  <1> QED BY <1>2, <1>3, <1>4 DEF Init, WorkspaceInv

LEMMA StepKeeps ==
  ASSUME WorkspaceInv, [Next]_vars
  PROVE  WorkspaceInv' /\ CaseMoves /\ (UNCHANGED summaries \/ Last(summaries)' = View)
  <1>1. CASE Create
    BY <1>1, CreateKeeps
  <1>2. ASSUME NEW k \in Clients, Ask(k) \/ Execute(k) \/ Refuse(k)
        PROVE  WorkspaceInv' /\ CaseMoves /\ UNCHANGED summaries
    BY <1>2, AskKeeps, ExecuteKeeps, RefuseKeeps
  <1>3. ASSUME NEW t \in Turns,
               Opens(t) \/ Describe(t) \/ StartTurn(t) \/ SaveTurn(t) \/ BeginConfirm(t) \/ Confirm(t)
        PROVE  WorkspaceInv' /\ CaseMoves /\ UNCHANGED summaries
    BY <1>3, OpensKeeps, TurnStarts, TurnSaved, ConfirmKeeps
  <1>4. ASSUME NEW s \in Summaries, StartSummary(s) \/ SaveSummary(s)
        PROVE  WorkspaceInv' /\ CaseMoves /\ (UNCHANGED summaries \/ Last(summaries)' = View)
    BY <1>4, StartSummaryKeeps, SaveSummaryKeeps
  <1>5. CASE Channel
    BY <1>5, ChannelKeeps
  <1>6. CASE NewBook \/ UNCHANGED vars
    <2>1. Still /\ UNCHANGED <<loaded, asked, turns, drafts, summaries, load>>
      BY <1>6 DEF NewBook, vars, Still, caseVars
    <2> QED BY <2>1, NothingKeeps
  <1> QED BY <1>1, <1>2, <1>3, <1>4, <1>5, <1>6 DEF Next

(* Everything that is remembered of a case at its present revision is what *)
(* the case is: views, turns, drafts and reviews (the comparisons of       *)
(* execute, save_turn, confirm_review and save_summary).                   *)
THEOREM RevisionStands == Spec => []WorkspaceInv
  <1>1. Init => WorkspaceInv
    BY InitHolds
  <1>2. WorkspaceInv /\ [Next]_vars => WorkspaceInv'
    BY StepKeeps
  <1> QED BY <1>1, <1>2, PTL DEF Spec

LEMMA InvShows ==
  ASSUME WorkspaceInv
  PROVE  ApprovedAsSeen
  <1>1. ASSUME NEW r \in Current, r.status = "APPROVED"
        PROVE  r.seen = Shown /\ Gate
    <2>1. r.seen = Shown /\ Ripe(Fingerprint)
      BY <1>1 DEF Current, WorkspaceInv, ReviewOk
    <2> QED BY <2>1, RipeIsGate
  <1>2. Approved => Gate
    BY <1>1 DEF Approved
  <1>3. Gate /\ Approved => Phase = "HUMAN_APPROVED"
    <2>1. Gate => MaterialGate(case) = "READY_FOR_REVIEW"
      BY DEF Gate, MaterialGate, AbsentCritical
    <2>2. Approved => Current # {}
      BY DEF Approved
    <2> QED BY <2>1, <2>2 DEF Gate, Phase
  <1>4. Phase = "HUMAN_APPROVED" => Approved
    BY DEF Phase
  <1>5. Gate => Snapshot(case).phase = "ASSESSED"
    <2>1. Gate => MaterialGate(case) = "READY_FOR_REVIEW"
      BY DEF Gate, MaterialGate, AbsentCritical
    <2>2. Gate => case.confirmed /\ case.reason # None
      BY DEF Gate, WorkspaceInv, CaseOk, RowOk
    <2> QED BY <2>1, <2>2 DEF Asking, Snapshot
  <1>6. ASSUME NEW t \in Analyses
        PROVE  turns[t].saw.shown = Shown
    <2>1. /\ turns[t] # None /\ turns[t].phase # "opened" /\ turns[t].saw.revision = case.revision
          /\ t \in Turns
      BY <1>6 DEF Analyses
    <2>2. ViewOk(turns[t].saw)
      BY <2>1 DEF WorkspaceInv, SeenOk, TurnOk
    <2> QED BY <2>1, <2>2 DEF ViewOk
  <1> QED BY <1>1, <1>2, <1>3, <1>4, <1>5, <1>6 DEF ApprovedAsSeen

(* A case is shown as approved only while it is what the reviewer saw and  *)
(* its gate is open under the rules in force (view, confirm_review).       *)
THEOREM ApprovalsHold == Spec => []ApprovedAsSeen
  BY RevisionStands, InvShows, PTL

(* A confirmed reason and a chosen network stand, whatever a request of    *)
(* the channel is still to save (save, correct_fact).                      *)
THEOREM FactsStay == Spec => ConfirmedFactsStand
  <1>1. WorkspaceInv /\ [Next]_vars => [FactsStand]_vars
    BY StepKeeps DEF CaseMoves
  <1>2. [FactsStand]_vars =>
          [/\ case.confirmed => case'.confirmed
           /\ case.confirmed /\ case'.reason # case.reason => Accepted("reason_code")
           /\ case.network \notin {None, case'.network} => Accepted("card_network")]_vars
    BY DEF FactsStand
  <1> QED BY <1>1, <1>2, RevisionStands, PTL DEF Spec, ConfirmedFactsStand

(* A summary enters the record only while the case is what it shows        *)
(* (save_summary).                                                         *)
THEOREM SummariesShow == Spec => SummariesCurrent
  <1>1. WorkspaceInv /\ [Next]_vars =>
          [Len(summaries') > Len(summaries) => Last(summaries') = View]_vars
    <2>1. ASSUME WorkspaceInv, UNCHANGED summaries
          PROVE  ~(Len(summaries') > Len(summaries))
      <3>1. Len(summaries) \in Nat
        BY <2>1, LenProperties DEF WorkspaceInv, IsSeq
      <3> QED BY <2>1, <3>1
    <2> QED BY <2>1, StepKeeps DEF Last
  <1> QED BY <1>1, RevisionStands, PTL DEF Spec, SummariesCurrent
=============================================================================
