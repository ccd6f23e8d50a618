---------------------------- MODULE MCCaseScreens ----------------------------
(* A merchant on the page of a case, an operator on the list, and a        *)
(* supervisor who brings the operator in.                                  *)
EXTENDS CaseScreens, TLC

CONSTANTS c1, c2

Roles  == [merchant |-> "MERCHANT", operator |-> "OPERATOR", chief |-> "SUPERVISOR"]
Rights == [merchant |-> {"m"}, operator |-> {"m"}, chief |-> {}]
Owner  == [c \in Cases |-> "m"]
Old    == {c1}
Renamed == {"operator"}

Pages == ("merchant" :> c1) @@ ("operator" :> List)

Mix(page, steps, rows) == [pages |-> {page}, steps |-> steps, rows |-> rows, late |-> {}]

Followed ==
  {Mix("merchant", {"COMMAND", "REREAD"}, 2),
   Mix("merchant", {"AGENT", "REREAD"}, 2),
   Mix("merchant", {"COMMAND", "AGENT"}, 4),
   Mix("merchant", {"MESSAGE"}, 4),
   Mix("merchant", {"COMMAND", "ACCOUNT"}, 3),
   Mix("operator", {"COMMAND", "ASSIGN", "REREAD"}, 5),
   Mix("operator", {"ASSIGN", "ACCOUNT", "AGENT"}, 4),
   Mix("operator", {"COMMAND", "REREAD", "ACCOUNT"}, 2),
   [Mix("operator", {"COMMAND", "ASSIGN", "ACCOUNT"}, 3) EXCEPT !.late = {"operator"}]}
=============================================================================
