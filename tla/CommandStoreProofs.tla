------------------------- MODULE CommandStoreProofs -------------------------
(***************************************************************************)
(* The command store implements the case ledger, for every set of workers, *)
(* cases and orders. The inductive invariant ties the tables to the        *)
(* snapshots: a command or event row names the entry it stands for, every  *)
(* entry has its rows, and every case is linked from the upstream case of  *)
(* its first notice.                                                       *)
(***************************************************************************)
EXTENDS CommandStore, SequenceTheorems, TLAPS

Entry(d, r) == d.snapshot[r.case][r.revision]
At(d, r) == r.case \in Cases /\ r.revision \in 1 .. Len(d.snapshot[r.case])

CommandRows(d) ==
  \A i \in Ids : d.commands[i] # NoRow =>
    /\ d.commands[i].command.order.id = i
    /\ At(d, d.commands[i].receipt)
    /\ Ledger!Serves(Entry(d, d.commands[i].receipt), d.commands[i].command)

EventRows(d) ==
  \A e \in Events : d.events[e] # NoRow =>
    /\ At(d, d.events[e].receipt)
    /\ Entry(d, d.events[e].receipt).order.event = e
    /\ Entry(d, d.events[e].receipt).order.content = d.events[e].content

EntriesHaveRows(d) ==
  \A c \in Cases : \A i \in 1 .. Len(d.snapshot[c]) :
    /\ d.commands[d.snapshot[c][i].order.id] # NoRow
    /\ d.snapshot[c][i].order.event # NoEvent => d.events[d.snapshot[c][i].order.event] # NoRow

Linking(d) ==
  /\ \A c \in Cases : d.snapshot[c] # <<>> => d.links[d.snapshot[c][1].order.upstream] = c
  /\ \A u \in Upstreams : d.links[u] # NoCase => d.snapshot[d.links[u]] # <<>>

Sound(d) == CommandRows(d) /\ EventRows(d) /\ EntriesHaveRows(d) /\ Linking(d)

(* Tables e and receipt r are what a transaction on d stages for command k. *)
StagedFor(d, e, k, r) ==
  \/ Repeated(d, k) /\ e = d /\ r = CommandRow(d, k).receipt
  \/ /\ Reported(d, k) /\ r = EventRow(d, k).receipt
     /\ e = [d EXCEPT !.commands = Saved(d, k, r)]
  \/ Admitted(d, k) /\ e = Applied(d, k) /\ r = NewReceipt(d, k)

HasRow(d, k, r) == d.commands[k.order.id] = [command |-> k, receipt |-> r]

StoreInv ==
  /\ Sound(db)
  /\ \A w \in Workers :
       /\ pc[w] = "staged" => StagedFor(db, draft[w], request[w], receipt[w])
       /\ pc[w] = "committed" => HasRow(db, request[w], receipt[w])
  /\ \A a \in answers : HasRow(db, a.command, [case |-> a.case, revision |-> a.revision])

-----------------------------------------------------------------------------
(* What one transaction does to the tables.                                *)

LEMMA Keys ==
  ASSUME NEW k \in Command
  PROVE  /\ k.order.id \in Ids /\ k.order.upstream \in Upstreams /\ k.order.case \in Cases
         /\ k.order.content \in {o.content : o \in Orders}
         /\ k.order.event # NoEvent => k.order.event \in Events
         /\ Intake(k) => k.order.event # NoEvent
  BY OrderAssumption DEF Command, Ids, Upstreams, Events, Intake

LEMMA TableFields ==
  ASSUME NEW d \in Tables
  PROVE  /\ d.snapshot \in [Cases -> Seq(Command)]
         /\ d.commands \in [Ids -> {NoRow} \cup [command : Command, receipt : Receipt]]
         /\ d.events \in [Events -> {NoRow} \cup
              [content : {o.content : o \in Orders}, receipt : Receipt]]
         /\ d.links \in [Upstreams -> {NoCase} \cup Cases]
         /\ d = [snapshot |-> d.snapshot, commands |-> d.commands,
                 events |-> d.events, links |-> d.links]
  BY DEF Tables

LEMMA ResolvedTyped ==
  ASSUME NEW d \in Tables, NEW k \in Command
  PROVE  /\ Resolved(d, k) \in Cases /\ NewReceipt(d, k) \in Receipt
         /\ Revision(d, Resolved(d, k)) \in Nat
  <1>1. Resolved(d, k) \in Cases
    BY Keys, TableFields DEF Resolved, Linked
  <1>2. Len(d.snapshot[Resolved(d, k)]) \in Nat
    BY <1>1, TableFields, LenProperties
  <1> QED
    BY <1>1, <1>2 DEF NewReceipt, Receipt, Revision

LEMMA StagedTyped ==
  ASSUME NEW d \in Tables, NEW k \in Command, NEW e, NEW r, StagedFor(d, e, k, r)
  PROVE  e \in Tables /\ r \in Receipt
  <1> USE Keys, TableFields, ResolvedTyped
  <1>1. CASE Repeated(d, k) /\ e = d /\ r = CommandRow(d, k).receipt
    <2>1. d.commands[k.order.id] \in [command : Command, receipt : Receipt]
      BY <1>1 DEF Repeated, CommandRow
    <2> QED BY <1>1, <2>1 DEF CommandRow
  <1>2. CASE Reported(d, k) /\ r = EventRow(d, k).receipt
             /\ e = [d EXCEPT !.commands = Saved(d, k, r)]
    <2>1. k.order.event # NoEvent
      BY <1>2 DEF Reported, EventRow
    <2>2. d.events[k.order.event] \in [content : {o.content : o \in Orders}, receipt : Receipt]
      BY <1>2, <2>1 DEF Reported, EventRow
    <2>3. r \in Receipt
      BY <1>2, <2>1, <2>2 DEF EventRow
    <2>4. Saved(d, k, r) \in [Ids -> {NoRow} \cup [command : Command, receipt : Receipt]]
      BY <2>3 DEF Saved
    <2> QED BY <1>2, <2>3, <2>4 DEF Tables
  <1>3. CASE Admitted(d, k) /\ e = Applied(d, k) /\ r = NewReceipt(d, k)
    <2>1. r \in Receipt
      BY <1>3
    <2>2. Saved(d, k, r) \in [Ids -> {NoRow} \cup [command : Command, receipt : Receipt]]
      BY <2>1 DEF Saved
    <2>3. EventsAfter(d, k, r) \in [Events -> {NoRow} \cup
            [content : {o.content : o \in Orders}, receipt : Receipt]]
      BY <2>1 DEF EventsAfter
    <2>4. LinksAfter(d, k) \in [Upstreams -> {NoCase} \cup Cases]
      BY DEF LinksAfter
    <2>5. Append(d.snapshot[Resolved(d, k)], k) \in Seq(Command)
      BY AppendProperties
    <2>6. [d.snapshot EXCEPT ![Resolved(d, k)] = Append(@, k)] \in [Cases -> Seq(Command)]
      BY <2>5
    <2> QED BY <1>3, <2>1, <2>2, <2>3, <2>4, <2>6 DEF Applied, Tables
  <1> QED BY <1>1, <1>2, <1>3 DEF StagedFor

(* What the ledger allows a transaction to do to the snapshots.            *)
Grows(s, t) ==
  \E c \in Cases, k \in Command :
    /\ \A b \in Cases : \A i \in DOMAIN s[b] : ~Ledger!Same(s[b][i], k)
    /\ \/ k.order.action = "INTAKE"
       \/ s[c] # <<>> /\ k.order.case = c /\ k.expected = Len(s[c])
    /\ t = [s EXCEPT ![c] = Append(@, k)]

LEMMA ReplaySound ==
  ASSUME NEW d \in Tables, NEW k \in Command, NEW e \in Tables, NEW r, Sound(d),
         Reported(d, k) /\ r = EventRow(d, k).receipt,
         e = [d EXCEPT !.commands = Saved(d, k, r)]
  PROVE  Sound(e) /\ e.snapshot = d.snapshot /\ HasRow(e, k, r)
  <1> USE Keys, TableFields
  <1>1. /\ e.snapshot = d.snapshot /\ e.events = d.events /\ e.links = d.links
        /\ e.commands = Saved(d, k, r)
    BY DEF Tables
  <1>2. /\ k.order.event \in Events /\ d.events[k.order.event] # NoRow
        /\ r = d.events[k.order.event].receipt
        /\ d.events[k.order.event].content = k.order.content
    BY DEF Reported, EventRow
  <1>3. e.commands[k.order.id] = [command |-> k, receipt |-> r]
    BY <1>1 DEF Saved
  <1>4. \A i \in Ids : i # k.order.id => e.commands[i] = d.commands[i]
    BY <1>1 DEF Saved
  <1>5. At(d, r) /\ Ledger!Serves(Entry(d, r), k)
    <2>1. EventRows(d) /\ k.order.event # NoEvent
      BY <1>2 DEF Sound, Events
    <2>2. /\ At(d, r) /\ Entry(d, r).order.event = k.order.event
          /\ Entry(d, r).order.content = k.order.content
      BY <1>2, <2>1 DEF EventRows
    <2> QED BY <2>1, <2>2 DEF Ledger!Serves
  <1>51. \A q : (At(e, q) <=> At(d, q)) /\ Entry(e, q) = Entry(d, q)
    BY <1>1 DEF At, Entry
  <1>6. CommandRows(e)
    <2> SUFFICES ASSUME NEW i \in Ids, e.commands[i] # NoRow
                 PROVE  /\ e.commands[i].command.order.id = i
                        /\ At(e, e.commands[i].receipt)
                        /\ Ledger!Serves(Entry(e, e.commands[i].receipt), e.commands[i].command)
      BY DEF CommandRows
    <2>1. CASE i = k.order.id
      <3>1. e.commands[i].command = k /\ e.commands[i].receipt = r
        BY <2>1, <1>3
      <3> QED BY <3>1, <2>1, <1>5, <1>51
    <2>2. CASE i # k.order.id
      <3>1. e.commands[i] = d.commands[i]
        BY <2>2, <1>4
      <3>2. /\ d.commands[i].command.order.id = i
            /\ At(d, d.commands[i].receipt)
            /\ Ledger!Serves(Entry(d, d.commands[i].receipt), d.commands[i].command)
        BY <3>1 DEF Sound, CommandRows
      <3>3. /\ At(e, d.commands[i].receipt) <=> At(d, d.commands[i].receipt)
            /\ Entry(e, d.commands[i].receipt) = Entry(d, d.commands[i].receipt)
        BY <1>51
      <3> QED BY <3>1, <3>2, <3>3
    <2> QED BY <2>1, <2>2
  <1>7. EntriesHaveRows(e)
    <2> SUFFICES ASSUME NEW c \in Cases, NEW i \in 1 .. Len(d.snapshot[c])
                 PROVE  /\ e.commands[d.snapshot[c][i].order.id] # NoRow
                        /\ d.snapshot[c][i].order.event # NoEvent
                           => e.events[d.snapshot[c][i].order.event] # NoRow
      BY <1>1 DEF EntriesHaveRows
    <2>1. d.snapshot[c][i] \in Command
      BY ElementOfSeq
    <2>2. d.snapshot[c][i].order.id \in Ids
      BY <2>1, Keys
    <2>3. r \in Receipt
      BY StagedTyped DEF StagedFor
    <2>4. e.commands[k.order.id] # NoRow
      BY <1>3, <2>3, RowAssumption
    <2>5. /\ d.commands[d.snapshot[c][i].order.id] # NoRow
          /\ d.snapshot[c][i].order.event # NoEvent => d.events[d.snapshot[c][i].order.event] # NoRow
      BY DEF Sound, EntriesHaveRows
    <2>6. e.commands[d.snapshot[c][i].order.id] # NoRow
      BY <1>4, <2>2, <2>4, <2>5
    <2> QED BY <1>1, <2>5, <2>6
  <1>8. EventRows(e)
    <2>1. SUFFICES ASSUME NEW v \in Events, e.events[v] # NoRow
                   PROVE  /\ At(e, e.events[v].receipt)
                          /\ Entry(e, e.events[v].receipt).order.event = v
                          /\ Entry(e, e.events[v].receipt).order.content = e.events[v].content
      BY DEF EventRows
    <2>0. e.events = d.events /\ d.events[v] # NoRow
      BY <1>1, <2>1
    <2>2. /\ At(d, d.events[v].receipt)
          /\ Entry(d, d.events[v].receipt).order.event = v
          /\ Entry(d, d.events[v].receipt).order.content = d.events[v].content
      BY <2>0 DEF Sound, EventRows
    <2>3. /\ At(e, d.events[v].receipt) <=> At(d, d.events[v].receipt)
          /\ Entry(e, d.events[v].receipt) = Entry(d, d.events[v].receipt)
      BY <1>51
    <2> QED BY <2>0, <2>2, <2>3
  <1>9. Linking(e)
    BY <1>1 DEF Sound, Linking
  <1> QED BY <1>1, <1>3, <1>6, <1>7, <1>8, <1>9 DEF Sound, HasRow

LEMMA ApplySound ==
  ASSUME NEW d \in Tables, NEW k \in Command, NEW e \in Tables, NEW r, Sound(d),
         Admitted(d, k), e = Applied(d, k), r = NewReceipt(d, k)
  PROVE  /\ Sound(e) /\ Grows(d.snapshot, e.snapshot) /\ HasRow(e, k, r)
         /\ \A i \in Ids : d.commands[i] # NoRow => e.commands[i] = d.commands[i]
  <1> USE Keys, TableFields, ResolvedTyped
  <1> DEFINE c0 == Resolved(d, k)
             n == Len(d.snapshot[c0])
  <1>1. /\ e.snapshot = [d.snapshot EXCEPT ![c0] = Append(@, k)]
        /\ e.commands = Saved(d, k, r) /\ e.events = EventsAfter(d, k, r)
        /\ e.links = LinksAfter(d, k)
    BY DEF Applied
  <1>2. /\ c0 \in Cases /\ n \in Nat /\ r = [case |-> c0, revision |-> n + 1]
        /\ d.snapshot[c0] \in Seq(Command) /\ r \in Receipt
    BY DEF NewReceipt, Revision
  <1> HIDE DEF c0, n
  <1>3. /\ Len(e.snapshot[c0]) = n + 1 /\ e.snapshot[c0][n + 1] = k
        /\ \A i \in 1 .. n : e.snapshot[c0][i] = d.snapshot[c0][i]
    <2>1. e.snapshot[c0] = Append(d.snapshot[c0], k)
      BY <1>1, <1>2
    <2>2. n = Len(d.snapshot[c0])
      BY DEF n
    <2>3. /\ Len(Append(d.snapshot[c0], k)) = n + 1
          /\ Append(d.snapshot[c0], k)[n + 1] = k
          /\ \A i \in 1 .. n : Append(d.snapshot[c0], k)[i] = d.snapshot[c0][i]
      BY <2>2, <1>2, AppendProperties
    <2> QED BY <2>1, <2>3
  <1>4. \A c \in Cases : c # c0 => e.snapshot[c] = d.snapshot[c]
    BY <1>1
  <1>5. ASSUME NEW c \in Cases, NEW i \in 1 .. Len(d.snapshot[c])
        PROVE  e.snapshot[c][i] = d.snapshot[c][i] /\ i \in 1 .. Len(e.snapshot[c])
    <2>1. Len(d.snapshot[c]) \in Nat
      BY LenProperties
    <2>2. CASE c = c0
      <3>1. Len(d.snapshot[c]) = n
        BY <2>2 DEF n
      <3>2. i \in 1 .. n
        BY <3>1
      <3>3. i \in 1 .. n + 1
        BY <3>2, <1>2
      <3> QED BY <2>2, <3>2, <3>3, <1>3
    <2>3. CASE c # c0
      BY <2>3, <1>4
    <2> QED BY <2>2, <2>3
  <1>6. /\ e.commands[k.order.id] = [command |-> k, receipt |-> r]
        /\ \A i \in Ids : i # k.order.id => e.commands[i] = d.commands[i]
        /\ d.commands[k.order.id] = NoRow /\ [command |-> k, receipt |-> r] # NoRow
    <2>1. [command |-> k, receipt |-> r] \in [command : Command, receipt : Receipt]
      BY <1>2
    <2>2. [command |-> k, receipt |-> r] # NoRow
      BY <2>1, RowAssumption
    <2>3. d.commands[k.order.id] = NoRow
      BY DEF Admitted, CommandRow
    <2> QED BY <1>1, <2>2, <2>3 DEF Saved
  <1>7. ASSUME NEW q, At(d, q)
        PROVE  At(e, q) /\ Entry(e, q) = Entry(d, q)
    BY <1>5, <1>7 DEF At, Entry
  <1>8. At(e, r) /\ Entry(e, r) = k
    <2>1. r.case = c0 /\ r.revision = n + 1 /\ n + 1 \in 1 .. n + 1
      BY <1>2
    <2> QED BY <2>1, <1>2, <1>3 DEF At, Entry
  <1>9. CommandRows(e)
    <2> SUFFICES ASSUME NEW i \in Ids, e.commands[i] # NoRow
                 PROVE  /\ e.commands[i].command.order.id = i
                        /\ At(e, e.commands[i].receipt)
                        /\ Ledger!Serves(Entry(e, e.commands[i].receipt), e.commands[i].command)
      BY DEF CommandRows
    <2>1. CASE i = k.order.id
      BY <2>1, <1>6, <1>8 DEF Ledger!Serves
    <2>2. CASE i # k.order.id
      BY <2>2, <1>6, <1>7 DEF Sound, CommandRows
    <2> QED BY <2>1, <2>2
  <1>10. k.order.event # NoEvent =>
           /\ e.events[k.order.event] = [content |-> k.order.content, receipt |-> r]
           /\ \A v \in Events : v # k.order.event => e.events[v] = d.events[v]
           /\ d.events[k.order.event] = NoRow
    BY <1>1 DEF EventsAfter, Admitted, EventRow
  <1>11. k.order.event = NoEvent => e.events = d.events
    BY <1>1 DEF EventsAfter
  <1>12. EventRows(e)
    <2> SUFFICES ASSUME NEW v \in Events, e.events[v] # NoRow
                 PROVE  /\ At(e, e.events[v].receipt)
                        /\ Entry(e, e.events[v].receipt).order.event = v
                        /\ Entry(e, e.events[v].receipt).order.content = e.events[v].content
      BY DEF EventRows
    <2>1. CASE k.order.event # NoEvent /\ v = k.order.event
      BY <2>1, <1>8, <1>10
    <2>2. CASE k.order.event = NoEvent \/ v # k.order.event
      BY <2>2, <1>7, <1>10, <1>11 DEF Sound, EventRows
    <2> QED BY <2>1, <2>2
  <1>13. EntriesHaveRows(e)
    <2> SUFFICES ASSUME NEW c \in Cases, NEW i \in 1 .. Len(e.snapshot[c])
                 PROVE  /\ e.commands[e.snapshot[c][i].order.id] # NoRow
                        /\ e.snapshot[c][i].order.event # NoEvent
                           => e.events[e.snapshot[c][i].order.event] # NoRow
      BY DEF EntriesHaveRows
    <2>1. CASE c = c0 /\ i = n + 1
      <3>1. [content |-> k.order.content, receipt |-> r] # NoRow
        <4>1. [content |-> k.order.content, receipt |-> r] \in
                [content : {o.content : o \in Orders}, receipt : Receipt]
          BY <1>2
        <4> QED BY <4>1, RowAssumption
      <3>2. e.snapshot[c][i] = k
        BY <2>1, <1>3
      <3>3. e.commands[k.order.id] # NoRow
        BY <1>6
      <3>4. k.order.event # NoEvent => e.events[k.order.event] # NoRow
        BY <1>10, <3>1
      <3> QED BY <3>2, <3>3, <3>4
    <2>2. CASE ~(c = c0 /\ i = n + 1)
      <3>1. i \in 1 .. Len(d.snapshot[c]) /\ e.snapshot[c][i] = d.snapshot[c][i]
        <4>1. CASE c = c0
          <5>1. Len(d.snapshot[c]) = n
            BY <4>1 DEF n
          <5>2. i \in 1 .. n
            BY <4>1, <2>2, <1>2, <1>3
          <5> QED BY <4>1, <5>1, <5>2, <1>3
        <4>2. CASE c # c0
          BY <4>2, <1>4
        <4> QED BY <4>1, <4>2
      <3>2. d.snapshot[c][i] \in Command
        BY <3>1, ElementOfSeq
      <3>3. /\ d.snapshot[c][i].order.id \in Ids
            /\ d.snapshot[c][i].order.event # NoEvent => d.snapshot[c][i].order.event \in Events
        BY <3>2, Keys
      <3>4. /\ d.commands[d.snapshot[c][i].order.id] # NoRow
            /\ d.snapshot[c][i].order.event # NoEvent => d.events[d.snapshot[c][i].order.event] # NoRow
        BY <3>1 DEF Sound, EntriesHaveRows
      <3> QED BY <3>1, <3>3, <3>4, <1>6, <1>10, <1>11
    <2> QED BY <2>1, <2>2
  <1>14. ~Linked(d, k) /\ Intake(k) => d.snapshot[c0] = <<>> /\ c0 = k.order.case
    BY DEF Admitted, Resolved, c0
  <1>15. ~Intake(k) => d.snapshot[c0] # <<>> /\ c0 = k.order.case
    BY DEF Admitted, Resolved, Linked, c0
  <1>16. Linked(d, k) => d.snapshot[c0] # <<>>
    BY DEF Resolved, Linked, Sound, Linking, c0
  <1>17. \A c \in Cases : d.snapshot[c] # <<>> =>
           e.snapshot[c] # <<>> /\ e.snapshot[c][1] = d.snapshot[c][1]
    <2> SUFFICES ASSUME NEW c \in Cases, d.snapshot[c] # <<>>
                 PROVE  e.snapshot[c] # <<>> /\ e.snapshot[c][1] = d.snapshot[c][1]
      OBVIOUS
    <2>1. d.snapshot[c] \in Seq(Command)
      OBVIOUS
    <2>2. 1 \in 1 .. Len(d.snapshot[c])
      BY <2>1, EmptySeq, LenProperties
    <2>3. 1 \in 1 .. Len(e.snapshot[c]) /\ e.snapshot[c][1] = d.snapshot[c][1]
      BY <2>2, <1>5
    <2>4. e.snapshot[c] # <<>>
      BY <2>3
    <2> QED BY <2>3, <2>4
  <1>18. /\ e.snapshot[c0] # <<>>
         /\ d.snapshot[c0] = <<>> => e.snapshot[c0][1] = k
    <2>1. Len(<<>>) = 0
      BY EmptySeq
    <2>2. e.snapshot[c0] # <<>>
      BY <2>1, <1>2, <1>3
    <2>3. d.snapshot[c0] = <<>> => n = 0
      BY <2>1 DEF n
    <2>4. d.snapshot[c0] = <<>> => e.snapshot[c0][1] = k
      BY <2>3, <1>3
    <2> QED BY <2>2, <2>4
  <1>19. ASSUME Linked(d, k) \/ ~Intake(k)
         PROVE  Linking(e)
    <2>1. e.links = d.links
      BY <1>1, <1>19 DEF LinksAfter
    <2>2. \A c \in Cases : e.snapshot[c] # <<>> => d.snapshot[c] # <<>>
      BY <1>4, <1>15, <1>16, <1>19
    <2>3. \A c \in Cases : e.snapshot[c] # <<>> => e.links[e.snapshot[c][1].order.upstream] = c
      BY <2>1, <2>2, <1>17 DEF Sound, Linking
    <2>4. \A u \in Upstreams : e.links[u] # NoCase => e.snapshot[e.links[u]] # <<>>
      BY <2>1, <1>17 DEF Sound, Linking
    <2> QED BY <2>3, <2>4 DEF Linking
  <1>20. ASSUME Intake(k), ~Linked(d, k)
         PROVE  Linking(e)
    <2>1. /\ e.links[k.order.upstream] = c0 /\ d.links[k.order.upstream] = NoCase
          /\ \A u \in Upstreams : u # k.order.upstream => e.links[u] = d.links[u]
      <3>1. e.links = [d.links EXCEPT ![k.order.upstream] = c0]
        BY <1>1, <1>14, <1>20 DEF LinksAfter
      <3>2. d.links[k.order.upstream] = NoCase
        BY <1>20 DEF Linked
      <3>3. k.order.upstream \in DOMAIN d.links
        OBVIOUS
      <3> QED BY <3>1, <3>2, <3>3
    <2>2. ASSUME NEW c \in Cases, e.snapshot[c] # <<>>
          PROVE  e.links[e.snapshot[c][1].order.upstream] = c
      <3>1. CASE c = c0
        <4>1. e.snapshot[c][1] = k
          BY <3>1, <1>14, <1>18, <1>20
        <4> QED BY <3>1, <4>1, <2>1
      <3>2. CASE c # c0
        <4>1. e.snapshot[c] = d.snapshot[c]
          BY <3>2, <1>4
        <4>2. d.links[d.snapshot[c][1].order.upstream] = c
          BY <2>2, <4>1 DEF Sound, Linking
        <4>3. d.snapshot[c][1].order.upstream \in Upstreams
          <5>1. d.snapshot[c] \in Seq(Command) /\ d.snapshot[c] # <<>>
            BY <2>2, <4>1
          <5>2. d.snapshot[c][1] \in Command
            BY <5>1, EmptySeq, LenProperties, ElementOfSeq
          <5> QED BY <5>2
        <4>4. c # NoCase
          BY OrderAssumption
        <4> QED BY <4>1, <4>2, <4>3, <4>4, <2>1
      <3> QED BY <3>1, <3>2
    <2>3. ASSUME NEW u \in Upstreams, e.links[u] # NoCase
          PROVE  e.snapshot[e.links[u]] # <<>>
      <3>1. CASE u = k.order.upstream
        BY <3>1, <2>1, <1>18
      <3>2. CASE u # k.order.upstream
        <4>1. e.links[u] = d.links[u] /\ d.links[u] \in Cases
          BY <3>2, <2>1, <2>3
        <4>2. d.snapshot[d.links[u]] # <<>>
          BY <4>1, <2>3 DEF Sound, Linking
        <4> QED BY <4>1, <4>2, <1>17
      <3> QED BY <3>1, <3>2
    <2> QED BY <2>2, <2>3 DEF Linking
  <1>21. \A b \in Cases : \A i \in DOMAIN d.snapshot[b] : ~Ledger!Same(d.snapshot[b][i], k)
    <2> SUFFICES ASSUME NEW b \in Cases, NEW i \in DOMAIN d.snapshot[b]
                 PROVE  ~Ledger!Same(d.snapshot[b][i], k)
      OBVIOUS
    <2>1. i \in 1 .. Len(d.snapshot[b])
      BY LenProperties
    <2>2. /\ d.commands[d.snapshot[b][i].order.id] # NoRow
          /\ d.snapshot[b][i].order.event # NoEvent => d.events[d.snapshot[b][i].order.event] # NoRow
      BY <2>1 DEF Sound, EntriesHaveRows
    <2> QED BY <2>2, <1>6, <1>10 DEF Ledger!Same
  <1>22. Grows(d.snapshot, e.snapshot)
    <2>1. Intake(k) \/ (d.snapshot[c0] # <<>> /\ k.order.case = c0 /\ k.expected = Len(d.snapshot[c0]))
      <3>1. CASE Intake(k)
        BY <3>1
      <3>2. CASE ~Intake(k)
        BY <3>2, <1>15 DEF Admitted, Revision
      <3> QED BY <3>1, <3>2
    <2> QED BY <2>1, <1>1, <1>2, <1>21 DEF Grows, Intake
  <1>23. \A i \in Ids : d.commands[i] # NoRow => e.commands[i] = d.commands[i]
    BY <1>6
  <1>24. HasRow(e, k, r)
    BY <1>6 DEF HasRow
  <1>25. Sound(e)
    BY <1>9, <1>12, <1>13, <1>19, <1>20 DEF Sound
  <1> QED BY <1>22, <1>23, <1>24, <1>25
LEMMA StagedSound ==
  ASSUME NEW d \in Tables, NEW k \in Command, NEW e, NEW r, Sound(d), StagedFor(d, e, k, r)
  PROVE  /\ Sound(e) /\ HasRow(e, k, r)
         /\ e.snapshot = d.snapshot \/ Grows(d.snapshot, e.snapshot)
         /\ \A i \in Ids : d.commands[i] # NoRow => e.commands[i] = d.commands[i]
  <1>1. e \in Tables /\ r \in Receipt
    BY StagedTyped
  <1>2. CASE Repeated(d, k) /\ e = d /\ r = CommandRow(d, k).receipt
    <2>1. d.commands[k.order.id] \in [command : Command, receipt : Receipt]
      BY <1>2, Keys, TableFields DEF Repeated, CommandRow
    <2>2. HasRow(d, k, r)
      BY <2>1, <1>2 DEF HasRow, Repeated, CommandRow
    <2> QED BY <1>2, <2>2
  <1>3. CASE Reported(d, k) /\ r = EventRow(d, k).receipt
             /\ e = [d EXCEPT !.commands = Saved(d, k, r)]
    <2>1. Sound(e) /\ e.snapshot = d.snapshot /\ HasRow(e, k, r)
      BY <1>1, <1>3, ReplaySound
    <2>2. d.commands[k.order.id] = NoRow
      BY <1>3 DEF Reported, CommandRow
    <2>3. e.commands = Saved(d, k, r)
      BY <1>3, TableFields
    <2>4. \A i \in Ids : i # k.order.id => e.commands[i] = d.commands[i]
      BY <2>3, TableFields DEF Saved
    <2> QED BY <2>1, <2>2, <2>4
  <1>4. CASE Admitted(d, k) /\ e = Applied(d, k) /\ r = NewReceipt(d, k)
    BY <1>1, <1>4, ApplySound
  <1> QED BY <1>2, <1>3, <1>4 DEF StagedFor

-----------------------------------------------------------------------------
(* The steps of the workers.                                               *)

Staging(w) ==
  \E e, r : StagedFor(db, e, request[w], r) /\ pc[w] = "open" /\ Stage(w, e, r)

LEMMA StagingSteps ==
  ASSUME NEW w \in Workers, ReplayCommand(w) \/ ReplayEvent(w) \/ Apply(w)
  PROVE  Staging(w)
  BY DEF ReplayCommand, ReplayEvent, Apply, Staging, StagedFor

(***************************************************************************)
(* Tables, requests, drafts and receipts keep their types, and only the    *)
(* lock's holder is inside a transaction.                                  *)
(***************************************************************************)
THEOREM StoreTyped == Spec => []StoreTypeOK
  <1>1. Init => StoreTypeOK
    <2> SUFFICES ASSUME Init PROVE StoreTypeOK
      OBVIOUS
    <2>1. EmptyTables \in Tables
      <3>1. <<>> \in Seq(Command)
        BY EmptySeq
      <3> QED BY <3>1 DEF EmptyTables, Tables
    <2> QED BY <2>1 DEF Init, StoreTypeOK
  <1>2. ASSUME StoreTypeOK, [Next]_vars
        PROVE  StoreTypeOK'
    <2> USE <1>2 DEF StoreTypeOK
    <2>1. CASE UNCHANGED vars
      BY <2>1 DEF vars, serving
    <2>2. CASE Crash
      BY <2>2 DEF Crash
    <2>3. ASSUME NEW w \in Workers, NEW o \in Orders, NEW n \in Revisions, Send(w, o, n)
          PROVE  StoreTypeOK'
      <3>1. [order |-> o, expected |-> n] \in Command
        BY DEF Command
      <3> QED BY <2>3, <3>1 DEF Send
    <2>4. ASSUME NEW w \in Workers, Acquire(w)
          PROVE  StoreTypeOK'
      BY <2>4, OrderAssumption DEF Acquire
    <2>5. ASSUME NEW w \in Workers, Busy(w)
          PROVE  StoreTypeOK'
      BY <2>5 DEF Busy, Leave
    <2>6. ASSUME NEW w \in Workers, Staging(w)
          PROVE  StoreTypeOK'
      <3>1. PICK e, r : StagedFor(db, e, request[w], r) /\ pc[w] = "open" /\ Stage(w, e, r)
        BY <2>6 DEF Staging
      <3>2. e \in Tables /\ r \in Receipt
        BY <3>1, StagedTyped
      <3> QED BY <3>1, <3>2 DEF Stage
    <2>7. ASSUME NEW w \in Workers, Refuse(w)
          PROVE  StoreTypeOK'
      BY <2>7 DEF Refuse, Leave
    <2>8. ASSUME NEW w \in Workers, StorageFails(w)
          PROVE  StoreTypeOK'
      BY <2>8 DEF StorageFails, Leave
    <2>9. ASSUME NEW w \in Workers, Commit(w)
          PROVE  StoreTypeOK'
      BY <2>9 DEF Commit
    <2>10. ASSUME NEW w \in Workers, Respond(w)
           PROVE  StoreTypeOK'
      <3>1. request[w] \in Command /\ receipt[w].case \in Cases /\ receipt[w].revision \in Nat
        BY <2>10 DEF Respond, Receipt
      <3>2. answers' \subseteq [command : Command, case : Cases, revision : Nat]
        BY <2>10, <3>1 DEF Respond
      <3> QED BY <2>10, <3>2 DEF Respond, Leave
    <2>11. ASSUME NEW w \in Workers, LoseAnswer(w)
           PROVE  StoreTypeOK'
      BY <2>11 DEF LoseAnswer, Leave
    <2> QED BY <2>1, <2>2, <2>3, <2>4, <2>5, <2>6, <2>7, <2>8, <2>9, <2>10, <2>11,
               StagingSteps DEF Next, Serve
  <1> QED BY <1>1, <1>2, PTL DEF Spec
(* A step that leaves the tables and the other workers alone.              *)
LEMMA Departure ==
  ASSUME StoreTypeOK, StoreInv, UNCHANGED <<db, answers>>, NEW w \in Workers,
         \A v \in Workers : v # w => /\ pc'[v] = pc[v] /\ request'[v] = request[v]
                                    /\ draft'[v] = draft[v] /\ receipt'[v] = receipt[v],
         pc'[w] \notin {"staged", "committed"}
  PROVE  StoreInv'
  <1>1. db' = db /\ answers' = answers
    OBVIOUS
  <1>2. ASSUME NEW v \in Workers
        PROVE  /\ pc'[v] = "staged" => StagedFor(db', draft'[v], request'[v], receipt'[v])
               /\ pc'[v] = "committed" => HasRow(db', request'[v], receipt'[v])
    BY <1>1 DEF StoreInv
  <1>3. Sound(db') /\ \A a \in answers' :
          HasRow(db', a.command, [case |-> a.case, revision |-> a.revision])
    BY <1>1 DEF StoreInv
  <1> QED BY <1>2, <1>3 DEF StoreInv

(***************************************************************************)
(* Every row names its entry and every entry has its rows, in the tables   *)
(* and in what an open transaction would make of them; a delivered answer  *)
(* keeps its command row (execute_atomic's inserts, one per table).        *)
(***************************************************************************)
THEOREM StoreSound == Spec => []StoreInv
  <1>1. Init => StoreInv
    <2> SUFFICES ASSUME Init PROVE StoreInv
      OBVIOUS
    <2>1. \A c \in Cases : db.snapshot[c] = <<>> /\ Len(db.snapshot[c]) = 0
      BY EmptySeq DEF Init, EmptyTables
    <2>2. EntriesHaveRows(db)
      BY <2>1 DEF EntriesHaveRows
    <2>3. CommandRows(db) /\ EventRows(db) /\ Linking(db)
      BY <2>1 DEF Init, EmptyTables, CommandRows, EventRows, Linking
    <2> QED BY <2>2, <2>3 DEF Init, StoreInv, Sound
  <1>2. ASSUME StoreTypeOK, StoreInv, [Next]_vars
        PROVE  StoreInv'
    <2> USE <1>2
    <2>1. CASE UNCHANGED vars
      <3>1. /\ db' = db /\ answers' = answers /\ pc' = pc /\ request' = request
            /\ draft' = draft /\ receipt' = receipt
        BY <2>1 DEF vars, serving
      <3> QED BY <3>1 DEF StoreInv
    <2>2. CASE Crash
      <3>1. db' = db /\ answers' = answers /\ \A w \in Workers : pc'[w] = "idle"
        BY <2>2 DEF Crash
      <3>2. Sound(db') /\ \A a \in answers' :
              HasRow(db', a.command, [case |-> a.case, revision |-> a.revision])
        BY <3>1 DEF StoreInv
      <3> QED BY <3>1, <3>2 DEF StoreInv
    <2>3. ASSUME NEW w \in Workers, NEW o \in Orders, NEW n \in Revisions, Send(w, o, n)
          PROVE  StoreInv'
      BY <2>3, Departure DEF Send, StoreTypeOK
    <2>4. ASSUME NEW w \in Workers, Acquire(w)
          PROVE  StoreInv'
      BY <2>4, Departure DEF Acquire, StoreTypeOK
    <2>5. ASSUME NEW w \in Workers, Busy(w) \/ Refuse(w) \/ StorageFails(w) \/ LoseAnswer(w)
          PROVE  StoreInv'
      BY <2>5, Departure DEF Busy, Refuse, StorageFails, LoseAnswer, Leave, StoreTypeOK
    <2>6. ASSUME NEW w \in Workers, Staging(w)
          PROVE  StoreInv'
      <3>1. PICK e, r : StagedFor(db, e, request[w], r) /\ pc[w] = "open" /\ Stage(w, e, r)
        BY <2>6 DEF Staging
      <3>2. /\ db' = db /\ answers' = answers /\ request' = request
            /\ draft'[w] = e /\ receipt'[w] = r /\ pc'[w] = "staged"
            /\ \A v \in Workers : v # w =>
                 pc'[v] = pc[v] /\ draft'[v] = draft[v] /\ receipt'[v] = receipt[v]
        BY <3>1 DEF Stage, StoreTypeOK
      <3>3. ASSUME NEW v \in Workers
            PROVE  /\ pc'[v] = "staged" => StagedFor(db', draft'[v], request'[v], receipt'[v])
                   /\ pc'[v] = "committed" => HasRow(db', request'[v], receipt'[v])
        <4>1. CASE v = w
          BY <4>1, <3>1, <3>2
        <4>2. CASE v # w
          BY <4>2, <3>2 DEF StoreInv
        <4> QED BY <4>1, <4>2
      <3>4. Sound(db') /\ \A a \in answers' :
              HasRow(db', a.command, [case |-> a.case, revision |-> a.revision])
        BY <3>2 DEF StoreInv
      <3> QED BY <3>3, <3>4 DEF StoreInv
    <2>7. ASSUME NEW w \in Workers, Commit(w)
          PROVE  StoreInv'
      <3>1. /\ db \in Tables /\ request[w] \in Command /\ db' = draft[w]
            /\ StagedFor(db, db', request[w], receipt[w])
            /\ request' = request /\ receipt' = receipt /\ answers' = answers
            /\ pc'[w] = "committed"
            /\ \A v \in Workers : v # w => pc'[v] = pc[v]
        BY <2>7 DEF Commit, StoreTypeOK, StoreInv
      <3>2. /\ Sound(db') /\ HasRow(db', request[w], receipt[w])
            /\ \A i \in Ids : db.commands[i] # NoRow => db'.commands[i] = db.commands[i]
        <4>1. Sound(db) /\ StagedFor(db, draft[w], request[w], receipt[w])
          BY <3>1 DEF StoreInv
        <4>2. /\ Sound(draft[w]) /\ HasRow(draft[w], request[w], receipt[w])
              /\ \A i \in Ids : db.commands[i] # NoRow => draft[w].commands[i] = db.commands[i]
          BY <3>1, <4>1, StagedSound
        <4> QED BY <3>1, <4>2
      <3>3. ASSUME NEW k \in Command, NEW r \in Receipt, HasRow(db, k, r)
            PROVE  HasRow(db', k, r)
        <4>1. [command |-> k, receipt |-> r] # NoRow
          <5>1. [command |-> k, receipt |-> r] \in [command : Command, receipt : Receipt]
            OBVIOUS
          <5> QED BY <5>1, RowAssumption
        <4> QED BY <4>1, <3>2, <3>3, Keys DEF HasRow
      <3>4. ASSUME NEW v \in Workers
            PROVE  /\ pc'[v] # "staged"
                   /\ pc'[v] = "committed" => HasRow(db', request'[v], receipt'[v])
        <4>1. CASE v = w
          BY <4>1, <3>1, <3>2
        <4>2. CASE v # w
          <5>1. pc[w] = "staged" /\ lock = w
            BY <2>7 DEF Commit, StoreTypeOK
          <5>2. pc'[v] # "staged"
            BY <5>1, <4>2, <3>1 DEF StoreTypeOK
          <5>3. pc[v] = "committed" => HasRow(db, request[v], receipt[v])
            BY DEF StoreInv
          <5>4. pc[v] = "committed" => request[v] \in Command /\ receipt[v] \in Receipt
            BY DEF StoreTypeOK
          <5> QED BY <5>2, <5>3, <5>4, <3>1, <3>3, <4>2
        <4> QED BY <4>1, <4>2
      <3>5. ASSUME NEW a \in answers
            PROVE  HasRow(db', a.command, [case |-> a.case, revision |-> a.revision])
        <4>1. a.command \in Command /\ [case |-> a.case, revision |-> a.revision] \in Receipt
          BY DEF StoreTypeOK, Receipt
        <4>2. HasRow(db, a.command, [case |-> a.case, revision |-> a.revision])
          BY DEF StoreInv
        <4> QED BY <4>1, <4>2, <3>3
      <3> QED BY <3>1, <3>2, <3>4, <3>5 DEF StoreInv
    <2>8. ASSUME NEW w \in Workers, Respond(w)
          PROVE  StoreInv'
      <3> DEFINE b == [command |-> request[w], case |-> receipt[w].case,
                       revision |-> receipt[w].revision]
      <3>1. /\ db' = db /\ answers' = answers \cup {b} /\ pc'[w] = "idle"
            /\ \A v \in Workers : v # w => /\ pc'[v] = pc[v] /\ request'[v] = request[v]
                                          /\ draft'[v] = draft[v] /\ receipt'[v] = receipt[v]
        BY <2>8 DEF Respond, Leave, StoreTypeOK
      <3>2. HasRow(db, request[w], receipt[w]) /\ receipt[w] \in Receipt
        BY <2>8 DEF Respond, StoreInv, StoreTypeOK
      <3>3. receipt[w] = [case |-> b.case, revision |-> b.revision] /\ b.command = request[w]
        BY <3>2 DEF Receipt
      <3>4. HasRow(db, b.command, [case |-> b.case, revision |-> b.revision])
        BY <3>2, <3>3
      <3> HIDE DEF b
      <3>5. \A a \in answers' : HasRow(db', a.command, [case |-> a.case, revision |-> a.revision])
        BY <3>1, <3>4 DEF StoreInv
      <3>6. ASSUME NEW v \in Workers
            PROVE  /\ pc'[v] = "staged" => StagedFor(db', draft'[v], request'[v], receipt'[v])
                   /\ pc'[v] = "committed" => HasRow(db', request'[v], receipt'[v])
        BY <3>1 DEF StoreInv
      <3>7. Sound(db')
        BY <3>1 DEF StoreInv
      <3> QED BY <3>5, <3>6, <3>7 DEF StoreInv
    <2> QED BY <2>1, <2>2, <2>3, <2>4, <2>5, <2>6, <2>7, <2>8, StagingSteps DEF Next, Serve
  <1> QED BY <1>1, <1>2, StoreTyped, PTL DEF Spec
-----------------------------------------------------------------------------
(***************************************************************************)
(* The store implements the ledger: a commit is one effect or none, a      *)
(* response is one answer, everything else leaves both alone. Effects are  *)
(* never repeated, acknowledged revisions never overwritten, and a change  *)
(* only takes effect on the revision its author named (execute_atomic).    *)
(***************************************************************************)
THEOREM StoreImplementsLedger == Spec => Implements
  <1>1. Init => Ledger!LedgerInit
    BY DEF Init, EmptyTables, Ledger!LedgerInit
  <1>2. ASSUME StoreTypeOK, StoreInv, [Next]_vars
        PROVE  [Ledger!LedgerNext]_(Ledger!ledgerVars)
    <2> USE <1>2
    <2>1. CASE UNCHANGED <<db, answers>>
      BY <2>1 DEF Ledger!ledgerVars
    <2>2. ASSUME NEW w \in Workers, Commit(w)
          PROVE  [Ledger!LedgerNext]_(Ledger!ledgerVars)
      <3>1. /\ db \in Tables /\ request[w] \in Command /\ db' = draft[w] /\ answers' = answers
            /\ Sound(db) /\ StagedFor(db, draft[w], request[w], receipt[w])
        BY <2>2 DEF Commit, StoreTypeOK, StoreInv
      <3>2. draft[w].snapshot = db.snapshot \/ Grows(db.snapshot, draft[w].snapshot)
        BY <3>1, StagedSound
      <3>3. CASE draft[w].snapshot = db.snapshot
        BY <3>1, <3>3 DEF Ledger!ledgerVars
      <3>4. CASE Grows(db.snapshot, draft[w].snapshot)
        <4>1. PICK c \in Cases, k \in Command :
                 /\ \A b \in Cases : \A i \in DOMAIN db.snapshot[b] :
                      ~Ledger!Same(db.snapshot[b][i], k)
                 /\ \/ k.order.action = "INTAKE"
                    \/ /\ db.snapshot[c] # <<>> /\ k.order.case = c
                       /\ k.expected = Len(db.snapshot[c])
                 /\ draft[w].snapshot = [db.snapshot EXCEPT ![c] = Append(@, k)]
          BY <3>4 DEF Grows
        <4>2. Ledger!TakeEffect(c, k)
          BY <3>1, <4>1 DEF Ledger!TakeEffect
        <4>3. k \in Ledger!Command
          BY DEF Command, Ledger!Command
        <4> QED BY <4>2, <4>3 DEF Ledger!LedgerNext
      <3> QED BY <3>2, <3>3, <3>4
    <2>3. ASSUME NEW w \in Workers, Respond(w)
          PROVE  [Ledger!LedgerNext]_(Ledger!ledgerVars)
      <3> DEFINE k == request[w]
                 r == receipt[w]
      <3>1. /\ db' = db /\ k \in Command /\ r \in Receipt /\ HasRow(db, k, r) /\ db \in Tables
            /\ answers' = answers \cup {[command |-> k, case |-> r.case, revision |-> r.revision]}
        BY <2>3 DEF Respond, StoreTypeOK, StoreInv
      <3> HIDE DEF k, r
      <3>2. [command |-> k, receipt |-> r] # NoRow
        BY <3>1, RowAssumption
      <3>3. At(db, r) /\ Ledger!Serves(Entry(db, r), k)
        <4>1. CommandRows(db) /\ k.order.id \in Ids
          BY <3>1, Keys DEF StoreInv, Sound
        <4>2. db.commands[k.order.id] = [command |-> k, receipt |-> r]
          BY <3>1 DEF HasRow
        <4> QED BY <3>2, <4>1, <4>2 DEF CommandRows
      <3>4. r.case \in Cases /\ r.revision \in DOMAIN db.snapshot[r.case]
        BY <3>1, <3>3, TableFields, LenProperties DEF At
      <3>5. \A a \in answers : a.command.order.id = k.order.id => a.command = k
        <4> SUFFICES ASSUME NEW a \in answers, a.command.order.id = k.order.id
                     PROVE  a.command = k
          OBVIOUS
        <4>1. HasRow(db, a.command, [case |-> a.case, revision |-> a.revision])
          BY DEF StoreInv
        <4>2. /\ db.commands[k.order.id].command = a.command
              /\ db.commands[k.order.id].command = k
          BY <3>1, <4>1 DEF HasRow
        <4> QED BY <4>2
      <3>6. Ledger!Answer(r.case, r.revision, k)
        BY <3>1, <3>3, <3>5 DEF Ledger!Answer, Entry
      <3>7. k \in Ledger!Command
        BY <3>1 DEF Command, Ledger!Command
      <3> QED BY <3>4, <3>6, <3>7 DEF Ledger!LedgerNext
    <2>4. Next => \/ UNCHANGED <<db, answers>>
                  \/ \E w \in Workers : Commit(w) \/ Respond(w)
      BY DEF Next, Serve, Crash, Send, Acquire, Busy, ReplayCommand, ReplayEvent, Apply, Stage,
         Refuse, StorageFails, LoseAnswer
    <2> QED BY <2>1, <2>2, <2>3, <2>4 DEF vars
  <1> QED BY <1>1, <1>2, StoreTyped, StoreSound, PTL DEF Spec, Implements, Ledger!LedgerSpec

(***************************************************************************)
(* An acknowledged piece of work is in its case from then on, at the       *)
(* revision its receipt names (the saved receipts of execute_atomic).      *)
(***************************************************************************)
THEOREM AnswersKept == Spec => []AnswersStand
  <1>1. ASSUME StoreTypeOK, StoreInv
        PROVE  AnswersStand
    <2> SUFFICES ASSUME NEW a \in answers
                 PROVE  /\ a.revision \in 1 .. Len(db.snapshot[a.case])
                        /\ Ledger!Serves(db.snapshot[a.case][a.revision], a.command)
      BY DEF AnswersStand, Revision
    <2> DEFINE r == [case |-> a.case, revision |-> a.revision]
    <2>1. a.command \in Command /\ r \in Receipt /\ r.case = a.case /\ r.revision = a.revision
      BY <1>1 DEF StoreTypeOK, Receipt
    <2>2. db.commands[a.command.order.id] = [command |-> a.command, receipt |-> r]
      BY <1>1 DEF StoreInv, HasRow
    <2> HIDE DEF r
    <2>3. [command |-> a.command, receipt |-> r] # NoRow
      BY <2>1, RowAssumption
    <2>4. At(db, r) /\ Ledger!Serves(Entry(db, r), a.command)
      BY <1>1, <2>1, <2>2, <2>3, Keys DEF StoreInv, Sound, CommandRows
    <2> QED BY <2>1, <2>4 DEF At, Entry
  <1> QED BY <1>1, StoreTyped, StoreSound, PTL

(***************************************************************************)
(* Every case is the one its first notice's upstream case links to, so no  *)
(* two cases come from one upstream case (v2_dispute_upstream_cases).      *)
(***************************************************************************)
THEOREM UpstreamsOpenOneCase == Spec => []OneCasePerUpstream
  <1>1. StoreInv => OneCasePerUpstream
    BY DEF StoreInv, Sound, Linking, OneCasePerUpstream
  <1> QED BY <1>1, StoreSound, PTL
=============================================================================
