----------------------------- MODULE MCCaseDesk -----------------------------
(* One case; an operator and a supervisor; the same document sent twice,   *)
(* and once more to have it read anew; a text that cannot be read.         *)
EXTENDS CaseDesk

CONSTANTS c1, op, sup

Wishes ==
  {[id |-> <<"ask">>, actor |-> op, action |-> "CREATE", case |-> c1],
   [id |-> <<"take">>, actor |-> op, action |-> "CLAIM", case |-> c1],
   [id |-> <<"end">>, actor |-> sup, action |-> "RESOLVE", case |-> c1],
   [id |-> <<"why">>, actor |-> op, action |-> "ASK", case |-> c1],
   [id |-> <<"when">>, actor |-> sup, action |-> "ASK", case |-> c1]}

Document == [name |-> "invoice", form |-> "DOCUMENT", legible |-> TRUE, agrees |-> TRUE, known |-> TRUE]
Damaged == [name |-> "notes", form |-> "TEXT", legible |-> FALSE, agrees |-> FALSE, known |-> TRUE]

Sent == {[id |-> "first", case |-> c1, file |-> Document, item |-> "first"],
         [id |-> "second", case |-> c1, file |-> Document, item |-> "second"],
         [id |-> "anew", case |-> c1, file |-> Document, item |-> "first"],
         [id |-> "scrap", case |-> c1, file |-> Damaged, item |-> "scrap"]}

Load(r, q, n, t, o, p, a) ==
  [revisions |-> r, requests |-> q, objects |-> n, talks |-> t, observed |-> o, repeats |-> p,
   questions |-> a]

Mixes ==
  {Load(1, 3, 0, 0, FALSE, FALSE, 0), Load(2, 1, 0, 0, FALSE, FALSE, 0),
   Load(3, 0, 2, 0, FALSE, FALSE, 0), Load(3, 0, 0, 0, TRUE, FALSE, 0),
   Load(2, 0, 0, 1, TRUE, FALSE, 0), Load(2, 0, 0, 0, TRUE, TRUE, 0),
   Load(2, 0, 0, 0, TRUE, FALSE, 1), Load(2, 0, 0, 0, FALSE, FALSE, 2)}
=============================================================================
