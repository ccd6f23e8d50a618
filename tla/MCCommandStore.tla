--------------------------- MODULE MCCommandStore ---------------------------
(***************************************************************************)
(* Two workers; three notices of one upstream case, two of them reporting  *)
(* one event under different command identifiers; one outcome report; one  *)
(* plain change. Resent with a revision read later, the last two reuse     *)
(* their command identifier with other content.                            *)
(***************************************************************************)
EXTENDS CommandStore

CONSTANTS w1, w2, c1, c2, c3, e1, e2, e3, u1, none

Notice(i, c, e) ==
  [id |-> i, action |-> "INTAKE", case |-> c, event |-> e, upstream |-> u1, content |-> 1]

Work(i, a, e) ==
  [id |-> i, action |-> a, case |-> c1, event |-> e, upstream |-> none, content |-> 1]

ClientOrders ==
  {Notice(1, c1, e1), Notice(2, c2, e1), Notice(3, c3, e2),
   Work(4, "REPORT", e3), Work(5, "CHANGE", NoEvent)}

=============================================================================
