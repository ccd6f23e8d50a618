--------------------------- MODULE MCClientPaths ----------------------------
(***************************************************************************)
(* One case; its opening and a withdrawal from upstream, an inquiry; a     *)
(* decision clicked on the first card, one typed, and a query for help;    *)
(* one account and one private chat.                                       *)
(***************************************************************************)
EXTENDS ClientPaths, TLC

CONSTANTS c1, op1, op2, t1, t2, h1, h2, sw, so, L1, L2, a1, x1

Sent(source, type, outcome, final) ==
  [source |-> source, type |-> type, case |-> c1, stage |-> 0,
   outcome |-> outcome, final |-> final]

SourceEvents ==
  {Sent("opening", "FORMAL_DISPUTE", "", FALSE), Sent("withdrawal", "WITHDRAWAL", "WITHDRAWN", TRUE),
   Sent("inquiry", "INQUIRY", "", FALSE)}

Delivered ==
  {[ref |-> "click", kind |-> "CARD", case |-> c1, card |-> 1],
   [ref |-> "typed", kind |-> "DECISION", case |-> c1],
   [ref |-> "help", kind |-> "QUERY", case |-> c1]}

Alike == Permutations({t1, t2}) \cup Permutations({h1, h2})

Mixes == {<<L1, 0>>, <<0, L2>>, <<1, 1>>}

ChatMixes == {<<2, 1, 1>>, <<1, 2, 2>>}

PreparedCards == {[ref |-> "preview", kind |-> "PREVIEW", case |-> c1]}

=============================================================================
