----------------------- MODULE ManageScheduleProofs -----------------------
(***************************************************************************)
(* What the rows and the answers of the API owe to the order of its         *)
(* statements, for every number of clients, ids, bodies, runs and failures. *)
(*                                                                          *)
(* Three facts carry the proof: an id is given out once, so that a row that  *)
(* is gone stays gone; a request between two statements remembers the row it  *)
(* read; and a generated name is that of the request's own id.               *)
(***************************************************************************)
EXTENDS ManageSchedule, InductionLemmas, SequenceTheorems, TLAPS

LOCAL INSTANCE SequencesExt
LOCAL INSTANCE FiniteSetsExt

\* A row that is there has been created, and keeps what was asked of it.
RowInv ==
    \A i \in Ids : table[i] # NoRow =>
        /\ i \in used
        /\ asked[i] # NoRow
        /\ table[i].auto => table[i].name = i
        /\ i \notin crossed => \A f \in Chosen : table[i][f] = asked[i][f]

Gone(i) == i \in used /\ table[i] = NoRow

\* A request that goes on, and the last answer of one that does not.
RequestInv ==
    \A c \in Clients :
        /\ at[c] # "idle" => target[c] \in used
        /\ at[c] = "write" => /\ base[c] # NoRow
                              /\ base[c].auto => base[c].name = target[c]
                              /\ dto[c] \in Updates
                              /\ CronAccepted(dto[c])
        /\ at[c] \in {"refresh", "write", "reread"} => c \notin deleting
        /\ at[c] = "delete" => c \in deleting
        /\ at[c] = "refresh" => c \in stored
        /\ at[c] = "reread" => c \in stored \/ Gone(target[c])
        /\ at[c] = "publish" =>
             (c \in deleting /\ Gone(target[c])) \/ (c \notin deleting /\ c \in stored)
        /\ answer[c] = 404 => Gone(target[c])
        /\ answer[c] = 500 /\ faults = 0 => Gone(target[c])
        /\ answer[c] = 200 =>
             (c \in deleting /\ Gone(target[c])) \/ (c \notin deleting /\ c \in stored)

RunInv == runs + Len(pending) <= MaxRuns

\* The parts of TypeOK
RowTypes ==
    /\ table \in [Ids -> Row \cup {NoRow}]
    /\ used \subseteq Ids
    /\ asked \in [Ids -> Row \cup {NoRow}]
    /\ crossed \subseteq Ids
    /\ stored \subseteq Clients
    /\ dirty \subseteq Ids
    /\ dropped \subseteq Ids

RequestTypes ==
    /\ at \in [Clients -> {"idle", "refresh", "write", "reread", "delete", "publish"}]
    /\ target \in [Clients -> Ids \cup {NoRow}]
    /\ dto \in [Clients -> Updates \cup {Nothing}]
    /\ base \in [Clients -> Row \cup {NoRow}]
    /\ deleting \subseteq Clients
    /\ answer \in [Clients -> {0, 200, 404, 422, 500}]

Messages == [from : Ids \cup {NoRow}, schedule : Ids \cup {NoRow}]
Logs == [run : 1..MaxRuns, schedule : Ids \cup {NoRow}]

RunTypes ==
    /\ pending \in Seq(Messages)
    /\ logs \in Seq(Logs)
    /\ runsOf \in [Ids -> SUBSET (1..MaxRuns)]
    /\ runs \in 0..MaxRuns

BoundTypes ==
    /\ requests \in 0..MaxRequests
    /\ faults \in 0..MaxFaults

Types == RowTypes /\ RequestTypes /\ RunTypes /\ BoundTypes

Inv == Types /\ RowInv /\ RequestInv /\ RunInv

\* TypeOK, in its parts.
LEMMA TypesAreTypeOK == Types <=> TypeOK
  BY DEF Types, RowTypes, RequestTypes, RunTypes, BoundTypes, Messages, Logs, TypeOK

-----------------------------------------------------------------------------
(* Rows *)

\* create_schedule makes a row whose generated name is that of its id.
LEMMA NewRowIsRow ==
    ASSUME NEW i \in Ids, NEW body \in Creates, CronAccepted(body)
    PROVE  /\ NewRow(i, body) \in Row
           /\ NewRow(i, body).auto => NewRow(i, body).name = i
<1>1. body \in [name : Names \cup {Unnamed}, cron : Crons, enabled : BOOLEAN,
                category : Categories, tags : SUBSET Tags, params : Params]
  BY BodiesAssumption
<1> QED
  BY <1>1 DEF NewRow, Row

\* update_schedule makes a row of a row, and does not invent a generated name.
LEMMA ApplyIsRow ==
    ASSUME NEW i \in Ids, NEW body \in Updates, CronAccepted(body), NEW row \in Row
    PROVE  /\ Apply(body, row, i) \in Row
           /\ Apply(body, row, i).auto => row.auto /\ Apply(body, row, i).name = row.name
           /\ \A f \in Chosen : Apply(body, row, i)[f] = Ask(body, row)[f]
<1> DEFINE new == Apply(body, row, i)
<1>1. DOMAIN row = Chosen \cup {"auto", "schedule"}
  BY DEF Row, Chosen
<1>2. \A f \in Chosen : new[f] = Column(body, row, f)
  BY <1>1 DEF Apply, Chosen
<1>3. /\ new.name \in Names \cup Ids
      /\ new.cron \in Crons
      /\ new.enabled \in BOOLEAN
      /\ new.category \in Categories
      /\ new.tags \in SUBSET Tags
      /\ new.params \in Params
  BY <1>2, BodiesAssumption DEF Column, Chosen, Row, CronAccepted
<1>4. new.auto = Generated(body, row) /\ new.schedule = ScheduleKept(body, row, i)
  BY <1>1 DEF Apply
<1>5. new.auto \in BOOLEAN /\ new.schedule \in Ids
  BY <1>4 DEF Generated, ScheduleKept, Row
<1>6. new = [f \in Chosen \cup {"auto", "schedule"} |-> new[f]]
  BY <1>1 DEF Apply
<1>7. new \in Row
  BY <1>3, <1>5, <1>6 DEF Row, Chosen
<1>8. new.auto => row.auto /\ new.name = row.name
  BY <1>2, <1>4 DEF Generated, Column, Chosen
<1>9. \A f \in Chosen : new[f] = Ask(body, row)[f]
  BY <1>1, <1>2 DEF Ask, Column
<1> QED
  BY <1>7, <1>8, <1>9

\* What is asked of a row is a row, and depends on the columns of that row alone.
LEMMA AskIsRow ==
    ASSUME NEW body \in Updates, CronAccepted(body), NEW row \in Row
    PROVE  /\ Ask(body, row) \in Row
           /\ \A other \in Row : \A f \in Chosen :
                row[f] = other[f] => Ask(body, row)[f] = Ask(body, other)[f]
<1> DEFINE new == Ask(body, row)
<1>1. \A other \in Row : DOMAIN other = Chosen \cup {"auto", "schedule"}
  BY DEF Row, Chosen
<1>2. new = [f \in Chosen \cup {"auto", "schedule"} |-> new[f]]
  BY <1>1 DEF Ask
<1>3. \A other \in Row : \A f \in Chosen :
         Ask(body, other)[f] = IF Asks(body, f) THEN body[f] ELSE other[f]
  BY <1>1 DEF Ask
<1>4. /\ new.name \in Names \cup Ids
      /\ new.cron \in Crons
      /\ new.enabled \in BOOLEAN
      /\ new.category \in Categories
      /\ new.tags \in SUBSET Tags
      /\ new.params \in Params
  BY <1>3, BodiesAssumption DEF Chosen, Row, CronAccepted
<1>5. new.auto \in BOOLEAN /\ new.schedule \in Ids
  <2>1. ~Asks(body, "auto") /\ ~Asks(body, "schedule")
    BY BodiesAssumption DEF Asks, Chosen
  <2> QED
    BY <1>1, <2>1 DEF Ask, Row
<1>6. new \in Row
  BY <1>2, <1>4, <1>5 DEF Row, Chosen
<1> QED
  BY <1>3, <1>6
-----------------------------------------------------------------------------
(* Steps of requests *)

\* The bounds are natural numbers.
LEMMA Bounds == MaxRequests \in Nat /\ MaxRuns \in Nat /\ MaxFaults \in Nat
  BY ApiAssumption

\* A function from 1..n is a sequence.
LEMMA IsSequence ==
    ASSUME NEW S, NEW n \in Nat, NEW f \in [1..n -> S]
    PROVE  f \in Seq(S)
  BY SeqDef

\* What the client sees of the exceptions that the requests meet.
LEMMA Statuses ==
    /\ StatusOf("RequestValidationError") = 422
    /\ StatusOf("ResourceNotFoundError") = 404
    /\ StatusOf("InvalidRequestError") = 500
    /\ StatusOf("AttributeError") = 500
    /\ StatusOf("DBAPIError") = 500
  BY DEF StatusOf

USE DEF request, history, tasks, Gone, Changed

\* A new row takes an id nobody has had.
LEMMA CreateKeeps ==
    ASSUME Inv, NEW c \in Clients, NEW body \in Creates, Create(c, body)
    PROVE  Inv'
<1>1. PICK i \in Ids \ used :
         /\ used' = used \cup {i}
         /\ table' = [table EXCEPT ![i] = NewRow(i, body)]
         /\ asked' = [asked EXCEPT ![i] = NewRow(i, body)]
         /\ Changed(i)
         /\ Begin(c, "refresh", i, Nothing, NoRow)
  BY DEF Create
<1>2. NewRow(i, body) \in Row /\ (NewRow(i, body).auto => NewRow(i, body).name = i)
  BY <1>1, NewRowIsRow DEF Create
<1>3. NewRow(i, body) # NoRow
  BY <1>2, RowAssumption
<1>4. Types'
  <2>1. RequestTypes'
    BY <1>1, <1>2, Bounds DEF Inv, Types, RequestTypes, Create, Begin, Accept
  <2>2. RowTypes'
    BY <1>1, <1>2 DEF Inv, Types, RowTypes, Create
  <2>3. RunTypes'
    BY DEF Inv, Types, RunTypes, Create
  <2>4. BoundTypes'
    BY Bounds DEF Inv, Types, BoundTypes, Create, Accept
  <2> QED
    BY <2>1, <2>2, <2>3, <2>4 DEF Types
<1>5. RowInv'
  BY <1>1, <1>2, <1>3 DEF Inv, Types, RequestTypes, RowTypes, RowInv, Create
<1>6. RequestInv'
  BY <1>1 DEF Inv, Types, RequestTypes, RowTypes, RequestInv, Create, Begin, Accept
<1>7. RunInv'
  BY DEF Inv, RunInv, Create
<1> QED
  BY <1>4, <1>5, <1>6, <1>7 DEF Inv

\* A refused body changes nothing but the answer.
LEMMA RefuseKeeps ==
    ASSUME Inv, NEW c \in Clients, NEW body, Refuse(c, body)
    PROVE  Inv'
<1>1. Types'
  <2>1. RequestTypes'
    BY Bounds, Statuses DEF Inv, Types, RequestTypes, Refuse, Accept, AnswerAtOnce
  <2>2. RowTypes'
    BY DEF Inv, Types, RowTypes, Refuse
  <2>3. RunTypes'
    BY DEF Inv, Types, RunTypes, Refuse
  <2>4. BoundTypes'
    BY Bounds DEF Inv, Types, BoundTypes, Refuse, Accept
  <2> QED
    BY <2>1, <2>2, <2>3, <2>4 DEF Types
<1>2. RowInv'
  BY DEF Inv, RowInv, Refuse
<1>3. RequestInv'
  BY Statuses
     DEF Inv, Types, RequestTypes, RowTypes, RequestInv, Refuse, Accept, AnswerAtOnce
<1>4. RunInv'
  BY DEF Inv, RunInv, Refuse
<1> QED
  BY <1>1, <1>2, <1>3, <1>4 DEF Inv

\* The first statement of an update or a deletion reads the row.
LEMMA ReadKeeps ==
    ASSUME Inv, NEW c \in Clients, NEW i \in used,
           \/ \E body \in Updates : Update(c, i, body)
           \/ Delete(c, i)
    PROVE  Inv'
<1>1. i \in Ids
  BY DEF Inv, Types, RequestTypes, RowTypes
<1>2. Types'
  <2>1. RequestTypes'
    <3>1. CASE Delete(c, i)
      BY <1>1, <3>1, Statuses
         DEF Inv, Types, RequestTypes, RowTypes, Delete, AnswerAtOnce, Begin
    <3>2. CASE \E body \in Updates : Update(c, i, body)
      BY <1>1, <3>2, Statuses
         DEF Inv, Types, RequestTypes, RowTypes, Update, AnswerAtOnce, Begin
    <3> QED
      BY <3>1, <3>2
  <2>2. RowTypes'
    BY <1>1 DEF Inv, Types, RowTypes, Update, Delete
  <2>3. RunTypes'
    BY DEF Inv, Types, RunTypes, Update, Delete
  <2>4. BoundTypes'
    BY Bounds DEF Inv, Types, BoundTypes, Update, Delete, Accept
  <2> QED
    BY <2>1, <2>2, <2>3, <2>4 DEF Types
<1>3. RowInv'
  BY DEF Inv, RowInv, Update, Delete
<1>4. RequestInv'
  <2>1. CASE table[i] = NoRow
    BY <2>1, Statuses
       DEF Inv, Types, RequestTypes, RowTypes, RequestInv, Update, Delete, Accept,
           AnswerAtOnce
  <2>2. CASE table[i] # NoRow /\ Delete(c, i)
    BY <2>2 DEF Inv, Types, RequestTypes, RowTypes, RequestInv, Delete, Accept, Begin
  <2>3. CASE table[i] # NoRow /\ \E body \in Updates : Update(c, i, body)
    <3>1. PICK body \in Updates : Update(c, i, body)
      BY <2>3
    <3>2. table[i].auto => table[i].name = i
      BY <1>1, <2>3 DEF Inv, RowInv
    <3> QED
      BY <2>3, <3>1, <3>2
         DEF Inv, Types, RequestTypes, RowTypes, RequestInv, Update, Accept, Begin
  <2> QED
    BY <2>1, <2>2, <2>3
<1>5. RunInv'
  BY DEF Inv, RunInv, Update, Delete
<1> QED
  BY <1>2, <1>3, <1>4, <1>5 DEF Inv

\* An update that finds its row gives it the columns asked for, and one that has
\* crossed a change says so; one that finds none leaves all rows.
LEMMA WriteKeeps ==
    ASSUME Inv, NEW c \in Clients, Write(c)
    PROVE  Inv'
<1> DEFINE i == target[c]
           row == Apply(dto[c], base[c], i)
           wish == Ask(dto[c], asked[i])
<1>1. /\ i \in used /\ i \in Ids
      /\ dto[c] \in Updates /\ CronAccepted(dto[c])
      /\ base[c] \in Row
      /\ base[c].auto => base[c].name = i
  BY DEF Inv, Types, RequestTypes, RowTypes, RequestInv, Write
<1>2. /\ row \in Row
      /\ row.auto => base[c].auto /\ row.name = base[c].name
      /\ \A f \in Chosen : row[f] = Ask(dto[c], base[c])[f]
  BY <1>1, ApplyIsRow
<1>3. row # NoRow
  BY <1>2, RowAssumption
<1>4. RunInv'
  BY DEF Inv, RunInv, Write
<1>5. CASE table[i] = NoRow
  <2>1. Types'
    <3>1. RequestTypes'
      BY <1>5 DEF Inv, Types, RequestTypes, Write, Continue
    <3>2. RowTypes'
      BY <1>5 DEF Inv, Types, RowTypes, Write
    <3>3. RunTypes'
      BY DEF Inv, Types, RunTypes, Write
    <3>4. BoundTypes'
      BY DEF Inv, Types, BoundTypes, Write
    <3> QED
      BY <3>1, <3>2, <3>3, <3>4 DEF Types
  <2>2. RowInv'
    BY <1>5 DEF Inv, RowInv, Write
  <2>3. RequestInv'
    BY <1>1, <1>5 DEF Inv, Types, RequestTypes, RowTypes, RequestInv, Write, Continue
  <2> QED
    BY <1>4, <2>1, <2>2, <2>3 DEF Inv
<1>6. CASE table[i] # NoRow
  <2>1. asked[i] \in Row
    BY <1>1, <1>6 DEF Inv, Types, RequestTypes, RowTypes, RowInv
  <2>2. /\ wish \in Row /\ wish # NoRow
        /\ base[c] \in Row => \A f \in Chosen :
             asked[i][f] = base[c][f] => wish[f] = Ask(dto[c], base[c])[f]
    BY <1>1, <2>1, AskIsRow, RowAssumption
  <2>3. /\ table' = [table EXCEPT ![i] = row]
        /\ asked' = [asked EXCEPT ![i] = wish]
        /\ crossed' = IF table[i] = base[c] THEN crossed ELSE crossed \cup {i}
        /\ stored' = stored \cup {c}
        /\ Changed(i)
        /\ used' = used
    BY <1>6 DEF Write
  <2>4. Types'
    <3>1. RequestTypes'
      BY <1>1, <1>2, <2>2, <2>3 DEF Inv, Types, RequestTypes, Write, Continue
    <3>2. RowTypes'
      BY <1>1, <1>2, <2>2, <2>3 DEF Inv, Types, RowTypes, Write
    <3>3. RunTypes'
      BY DEF Inv, Types, RunTypes, Write
    <3>4. BoundTypes'
      BY DEF Inv, Types, BoundTypes, Write
    <3> QED
      BY <3>1, <3>2, <3>3, <3>4 DEF Types
  <2>5. i \notin crossed' => \A f \in Chosen : row[f] = wish[f]
    BY <1>1, <1>2, <1>6, <2>2, <2>3 DEF Inv, RowInv
  <2>6. RowInv'
    BY <1>1, <1>2, <1>3, <2>2, <2>3, <2>5 DEF Inv, Types, RequestTypes, RowTypes, RowInv
  <2>7. RequestInv'
    BY <1>1, <1>6, <2>3, <1>3
       DEF Inv, Types, RequestTypes, RowTypes, RequestInv, Write, Continue
  <2> QED
    BY <1>4, <2>4, <2>6, <2>7 DEF Inv
<1> QED
  BY <1>5, <1>6

\* The statements that only look whether the row is there.
LEMMA LookKeeps ==
    ASSUME Inv, NEW c \in Clients, Refresh(c) \/ Reread(c)
    PROVE  Inv'
<1>1. Types'
  <2>1. RequestTypes'
    BY Bounds, Statuses DEF Inv, Types, RequestTypes, Refresh, Reread, Answer, Continue
  <2>2. RowTypes'
    BY DEF Inv, Types, RowTypes, Refresh, Reread
  <2>3. RunTypes'
    BY DEF Inv, Types, RunTypes, Refresh, Reread
  <2>4. BoundTypes'
    BY Bounds DEF Inv, Types, BoundTypes, Refresh, Reread
  <2> QED
    BY <2>1, <2>2, <2>3, <2>4 DEF Types
<1>2. RowInv'
  BY DEF Inv, RowInv, Refresh, Reread
<1>3. RequestInv'
  BY Statuses
     DEF Inv, Types, RequestTypes, RowTypes, RequestInv, Refresh, Reread, Answer, Continue
<1>4. RunInv'
  BY DEF Inv, RunInv, Refresh, Reread
<1> QED
  BY <1>1, <1>2, <1>3, <1>4 DEF Inv

\* A deleted row is gone, and its id stays used.
LEMMA DeleteRowKeeps ==
    ASSUME Inv, NEW c \in Clients, DeleteRow(c)
    PROVE  Inv'
<1>1. target[c] \in used /\ target[c] \in Ids
  BY DEF Inv, Types, RequestTypes, RowTypes, RequestInv, DeleteRow
<1>2. logs' \in Seq(Logs)
  <2>1. logs \in Seq(Logs)
    BY DEF Inv, Types, RunTypes
  <2>2. Len(logs) \in Nat /\ logs \in [1..Len(logs) -> Logs]
    BY <2>1, LenProperties
  <2>3. CASE table[target[c]] = NoRow
    BY <2>1, <2>3 DEF DeleteRow
  <2>4. CASE table[target[c]] # NoRow
    <3>1. logs' = [k \in DOMAIN logs |->
                     IF logs[k].schedule = target[c]
                       THEN [logs[k] EXCEPT !.schedule = NoRow]
                       ELSE logs[k]]
      BY <2>4 DEF DeleteRow
    <3>2. logs' \in [1..Len(logs) -> Logs]
      BY <2>2, <3>1 DEF Logs
    <3> QED
      BY <2>2, <3>2, IsSequence
  <2> QED
    BY <2>3, <2>4
<1>3. Types'
  <2>1. RequestTypes'
    BY <1>1, <1>2 DEF Inv, Types, RequestTypes, DeleteRow, Continue
  <2>2. RowTypes'
    BY <1>1, <1>2 DEF Inv, Types, RowTypes, DeleteRow
  <2>3. RunTypes'
    BY <1>2 DEF Inv, Types, RunTypes, DeleteRow
  <2>4. BoundTypes'
    BY DEF Inv, Types, BoundTypes, DeleteRow
  <2> QED
    BY <2>1, <2>2, <2>3, <2>4 DEF Types
<1>4. RowInv'
  BY <1>1 DEF Inv, Types, RequestTypes, RowTypes, RowInv, DeleteRow
<1>5. RequestInv'
  BY <1>1 DEF Inv, Types, RequestTypes, RowTypes, RequestInv, DeleteRow, Continue
<1>6. RunInv'
  BY DEF Inv, RunInv, DeleteRow
<1> QED
  BY <1>3, <1>4, <1>5, <1>6 DEF Inv

\* enable and disable change one column, as asked.
LEMMA SwitchKeeps ==
    ASSUME Inv, NEW c \in Clients, NEW i \in used, NEW on \in BOOLEAN, Switch(c, i, on)
    PROVE  Inv'
<1>1. i \in Ids
  BY DEF Inv, Types, RequestTypes, RowTypes
<1>2. RunInv'
  BY DEF Inv, RunInv, Switch
<1>3. CASE table[i] = NoRow
  <2>1. Types'
    <3>1. RequestTypes'
      BY <1>1, <1>3, Bounds, Statuses
         DEF Inv, Types, RequestTypes, Switch, Accept, AnswerAtOnce
    <3>2. RowTypes'
      BY <1>1, <1>3 DEF Inv, Types, RowTypes, Switch
    <3>3. RunTypes'
      BY DEF Inv, Types, RunTypes, Switch
    <3>4. BoundTypes'
      BY Bounds DEF Inv, Types, BoundTypes, Switch, Accept
    <3> QED
      BY <3>1, <3>2, <3>3, <3>4 DEF Types
  <2>2. RowInv'
    BY <1>3 DEF Inv, RowInv, Switch
  <2>3. RequestInv'
    BY <1>3, Statuses
       DEF Inv, Types, RequestTypes, RowTypes, RequestInv, Switch, Accept, AnswerAtOnce
  <2> QED
    BY <1>2, <2>1, <2>2, <2>3 DEF Inv
<1>4. CASE table[i] # NoRow
  <2> DEFINE row == [table[i] EXCEPT !.enabled = on]
             wish == [asked[i] EXCEPT !.enabled = on]
  <2>1. table[i] \in Row /\ asked[i] \in Row
    BY <1>1, <1>4 DEF Inv, Types, RequestTypes, RowTypes, RowInv
  <2>2. row \in Row /\ wish \in Row
    BY <2>1 DEF Row
  <2>3. row # NoRow /\ wish # NoRow
    BY <2>2, RowAssumption
  <2>4. table' = [table EXCEPT ![i] = row] /\ asked' = [asked EXCEPT ![i] = wish]
    BY <1>4 DEF Switch
  <2>5. row.auto = table[i].auto /\ row.name = table[i].name
    BY <2>1 DEF Row
  <2>6. \A f \in Chosen : table[i][f] = asked[i][f] => row[f] = wish[f]
    BY <2>1 DEF Row, Chosen
  <2>7. Types'
    <3>1. RequestTypes'
      BY <1>1, <1>4, <2>2, <2>4
         DEF Inv, Types, RequestTypes, Switch, Accept, AnswerAtOnce, Ok
    <3>2. RowTypes'
      BY <1>1, <1>4, <2>2, <2>4 DEF Inv, Types, RowTypes, Switch
    <3>3. RunTypes'
      BY DEF Inv, Types, RunTypes, Switch
    <3>4. BoundTypes'
      BY Bounds DEF Inv, Types, BoundTypes, Switch, Accept
    <3> QED
      BY <3>1, <3>2, <3>3, <3>4 DEF Types
  <2>8. RowInv'
    BY <1>1, <1>4, <2>3, <2>4, <2>5, <2>6
       DEF Inv, Types, RequestTypes, RowTypes, RowInv, Switch
  <2>9. RequestInv'
    BY <1>1, <1>4, <2>3, <2>4
       DEF Inv, Types, RequestTypes, RowTypes, RequestInv, Switch, Accept, AnswerAtOnce, Ok
  <2> QED
    BY <1>2, <2>7, <2>8, <2>9 DEF Inv
<1> QED
  BY <1>3, <1>4
-----------------------------------------------------------------------------
(* Events, failures and runs *)

\* A request that ends without its event changes no row, and drops the event of
\* rows that have been created.
LEMMA DroppedKeeps ==
    ASSUME Inv, NEW cs \in SUBSET Clients, Dropped(cs), UNCHANGED <<table, used>>
    PROVE  RowTypes' /\ RowInv' /\ UNCHANGED stored
<1>1. \A c \in Owing : target[c] \in Ids
  BY DEF Owing, Inv, Types, RowTypes, RequestInv
<1>2. dropped' \subseteq Ids
  BY <1>1 DEF Dropped, Inv, Types, RowTypes
<1>3. UNCHANGED <<table, used, asked, crossed, stored, dirty>>
  BY DEF Dropped
<1>4. RowTypes'
  BY <1>2, <1>3 DEF Inv, Types, RowTypes
<1>5. RowInv'
  BY <1>3 DEF Inv, RowInv
<1> QED
  BY <1>3, <1>4, <1>5

\* A published event, and one that is lost.
LEMMA PublishKeeps ==
    ASSUME Inv, NEW c \in Clients, Publish(c) \/ PublishFails(c)
    PROVE  Inv'
<1>1. Types'
  <2>1. RequestTypes'
    BY Bounds DEF Inv, Types, RequestTypes, Publish, PublishFails, Answer, Fault, Ok
  <2>2. RowTypes'
    <3>1. CASE Publish(c)
      BY <3>1 DEF Inv, Types, RowTypes, Publish
    <3>2. CASE PublishFails(c)
      BY <3>2, DroppedKeeps DEF PublishFails
    <3> QED
      BY <3>1, <3>2
  <2>3. RunTypes'
    BY DEF Inv, Types, RunTypes, Publish, PublishFails
  <2>4. BoundTypes'
    BY Bounds DEF Inv, Types, BoundTypes, Publish, PublishFails, Fault
  <2> QED
    BY <2>1, <2>2, <2>3, <2>4 DEF Types
<1>2. RowInv'
  <2>1. CASE Publish(c)
    BY <2>1 DEF Inv, RowInv, Publish
  <2>2. CASE PublishFails(c)
    BY <2>2, DroppedKeeps DEF PublishFails
  <2> QED
    BY <2>1, <2>2
<1>3. RequestInv'
  BY Bounds
     DEF Inv, Types, RequestTypes, RowTypes, BoundTypes, RequestInv, Publish,
         PublishFails, Dropped, Answer, Fault, Ok
<1>4. RunInv'
  BY DEF Inv, RunInv, Publish, PublishFails
<1> QED
  BY <1>1, <1>2, <1>3, <1>4 DEF Inv

\* A failed statement or a crash changes no row.
LEMMA FaultKeeps ==
    ASSUME Inv, (\E c \in Clients : StatementFails(c)) \/ ServerCrash
    PROVE  Inv'
<1>0. RowTypes' /\ RowInv'
  <2>1. CASE \E c \in Clients : StatementFails(c)
    <3>1. PICK c \in Clients : StatementFails(c)
      BY <2>1
    <3>2. {c} \in SUBSET Clients
      OBVIOUS
    <3>3. Dropped({c}) /\ UNCHANGED <<table, used>>
      BY <3>1 DEF StatementFails
    <3> QED
      BY <3>2, <3>3, DroppedKeeps
  <2>2. CASE ServerCrash
    <3>1. Clients \in SUBSET Clients
      OBVIOUS
    <3>2. Dropped(Clients) /\ UNCHANGED <<table, used>>
      BY <2>2 DEF ServerCrash
    <3> QED
      BY <3>1, <3>2, DroppedKeeps
  <2> QED
    BY <2>1, <2>2
<1>1. Types'
  <2>1. RequestTypes'
    <3>1. CASE \E c \in Clients : StatementFails(c)
      BY <3>1, Statuses DEF Inv, Types, RequestTypes, StatementFails, Answer
    <3>2. CASE ServerCrash
      BY <3>2 DEF Inv, Types, RequestTypes, ServerCrash
    <3> QED
      BY <3>1, <3>2
  <2>2. RowTypes'
    BY <1>0
  <2>3. RunTypes'
    BY DEF Inv, Types, RunTypes, StatementFails, ServerCrash
  <2>4. BoundTypes'
    <3>1. Fault /\ UNCHANGED requests
      BY DEF StatementFails, ServerCrash
    <3> QED
      BY <3>1, Bounds DEF Inv, Types, BoundTypes, Fault
  <2> QED
    BY <2>1, <2>2, <2>3, <2>4 DEF Types
<1>2. RowInv'
  BY <1>0
<1>3. RequestInv'
  <2>1. CASE ServerCrash
    BY <2>1, Bounds
       DEF Inv, Types, RequestTypes, RowTypes, BoundTypes, RequestInv, ServerCrash,
           Dropped, Fault
  <2>2. CASE \E c \in Clients : StatementFails(c)
    BY <2>2, Bounds, Statuses
       DEF Inv, Types, RequestTypes, RowTypes, BoundTypes, RequestInv, StatementFails,
           Dropped, Answer, Fault
  <2> QED
    BY <2>1, <2>2
<1>4. RunInv'
  BY DEF Inv, RunInv, StatementFails, ServerCrash
<1> QED
  BY <1>1, <1>2, <1>3, <1>4 DEF Inv

\* A run adds at most one row to the logs.
LEMMA LogRunIsTyped ==
    ASSUME RunTypes, runs < MaxRuns,
           NEW from \in Ids \cup {NoRow}, NEW schedule \in Ids \cup {NoRow},
           LogRun(from, schedule)
    PROVE  /\ logs' \in Seq(Logs)
           /\ runsOf' \in [Ids -> SUBSET (1..MaxRuns)]
           /\ runs' = runs + 1 /\ runs' \in 0..MaxRuns
<1>1. runs + 1 \in 1..MaxRuns /\ runs' = runs + 1
  BY Bounds DEF RunTypes, LogRun
<1>2. logs' \in Seq(Logs)
  <2>1. [run |-> runs + 1, schedule |-> schedule] \in Logs
    BY <1>1 DEF Logs
  <2>2. logs \in Seq(Logs)
    BY DEF RunTypes
  <2>3. Append(logs, [run |-> runs + 1, schedule |-> schedule]) \in Seq(Logs)
    BY <2>1, <2>2, AppendProperties
  <2> QED
    BY <2>2, <2>3 DEF LogRun
<1>3. runsOf' \in [Ids -> SUBSET (1..MaxRuns)]
  BY <1>1 DEF RunTypes, LogRun
<1> QED
  BY <1>1, <1>2, <1>3, Bounds

\* What Beat, the workers and the manual triggers do concerns no row and no request.
LEMMA RunKeeps ==
    ASSUME Inv,
           \/ \E i \in Ids : BeatSends(i)
           \/ Trigger
           \/ Execute
           \/ \E i \in used \cup {NoRow} : TriggerDirect(i)
    PROVE  Inv'
<1>1. pending \in Seq(Messages) /\ runs \in Nat /\ MaxRuns \in Nat
  BY Bounds DEF Inv, Types, RunTypes
<1>2. UNCHANGED <<table, used, request, answer, history, requests, faults>>
  BY DEF BeatSends, Trigger, Execute, TriggerDirect
<1>3. /\ pending' \in Seq(Messages)
      /\ logs' \in Seq(Logs)
      /\ runsOf' \in [Ids -> SUBSET (1..MaxRuns)]
      /\ runs' \in 0..MaxRuns
      /\ runs' + Len(pending') <= MaxRuns
  <2>1. CASE (\E i \in Ids : BeatSends(i)) \/ Trigger
    <3>1. PICK message \in Messages : pending' = Append(pending, message)
      <4>1. CASE Trigger
        BY <4>1 DEF Trigger, Message, Messages
      <4>2. CASE \E i \in Ids : BeatSends(i)
        BY <4>2 DEF BeatSends, Message, Messages, Inv, Types, RowTypes, Row
      <4> QED
        BY <2>1, <4>1, <4>2
    <3> QED
      BY <1>1, <2>1, <3>1, AppendProperties DEF Inv, Types, RunTypes, BeatSends, Trigger
  <2>2. CASE Execute
    <3>1. /\ Head(pending) \in Messages
          /\ pending' \in Seq(Messages)
          /\ Len(pending) \in Nat /\ Len(pending) > 0
          /\ Len(pending') = Len(pending) - 1
      BY <1>1, <2>2, HeadTailProperties, EmptySeq, LenProperties DEF Execute
    <3>2. runs < MaxRuns
      BY <1>1, <3>1 DEF Inv, RunInv
    <3>3. LogRun(Head(pending).from, Head(pending).schedule)
      BY <2>2 DEF Execute
    <3> QED
      <4>1. /\ Head(pending).from \in Ids \cup {NoRow}
            /\ Head(pending).schedule \in Ids \cup {NoRow}
        BY <3>1 DEF Messages
      <4>2. RunTypes /\ runs + Len(pending) <= MaxRuns
        BY DEF Inv, Types, RunInv
      <4>3. /\ logs' \in Seq(Logs)
            /\ runsOf' \in [Ids -> SUBSET (1..MaxRuns)]
            /\ runs' = runs + 1 /\ runs' \in 0..MaxRuns
        BY <3>2, <3>3, <4>1, <4>2, LogRunIsTyped
      <4> QED
        BY <1>1, <3>1, <4>2, <4>3
  <2>3. CASE \E i \in used \cup {NoRow} : TriggerDirect(i)
    <3>1. PICK i \in Ids \cup {NoRow} : TriggerDirect(i)
      BY <2>3 DEF Inv, Types, RowTypes
    <3>2. Len(pending) \in Nat /\ runs + Len(pending) < MaxRuns /\ pending' = pending
      BY <1>1, <3>1 DEF TriggerDirect
    <3> QED
      <4>1. RunTypes /\ LogRun(i, i) /\ runs < MaxRuns
        BY <1>1, <3>1, <3>2 DEF Inv, Types, TriggerDirect
      <4>2. /\ logs' \in Seq(Logs)
            /\ runsOf' \in [Ids -> SUBSET (1..MaxRuns)]
            /\ runs' = runs + 1 /\ runs' \in 0..MaxRuns
        BY <4>1, LogRunIsTyped
      <4> QED
        BY <1>1, <3>2, <4>2
  <2> QED
    BY <2>1, <2>2, <2>3
<1>4. Types' /\ RunInv'
  BY <1>2, <1>3 DEF Inv, Types, RequestTypes, RowTypes, RunTypes, BoundTypes, RunInv
<1>5. RowInv' /\ RequestInv'
  BY <1>2 DEF Inv, RowInv, RequestInv
<1> QED
  BY <1>4, <1>5 DEF Inv
-----------------------------------------------------------------------------
(* The invariant *)

\* Every step keeps the invariant.
LEMMA StepKeeps == Inv /\ [Next]_vars => Inv'
<1> SUFFICES ASSUME Inv, [Next]_vars PROVE Inv'
  OBVIOUS
<1>1. ASSUME NEW c \in Clients, NEW body \in Creates, Create(c, body) \/ Refuse(c, body)
      PROVE  Inv'
  BY <1>1, CreateKeeps, RefuseKeeps
<1>2. ASSUME NEW c \in Clients, NEW body \in Updates, Refuse(c, body)
      PROVE  Inv'
  BY <1>2, RefuseKeeps
<1>3. ASSUME NEW c \in Clients, NEW i \in used,
             (\E body \in Updates : Update(c, i, body)) \/ Delete(c, i)
      PROVE  Inv'
  BY <1>3, ReadKeeps
<1>4. ASSUME NEW c \in Clients, NEW i \in used, NEW on \in BOOLEAN, Switch(c, i, on)
      PROVE  Inv'
  BY <1>4, SwitchKeeps
<1>5. ASSUME NEW c \in Clients, Proceed(c)
      PROVE  Inv'
  BY <1>5, LookKeeps, WriteKeeps, DeleteRowKeeps, PublishKeeps DEF Proceed
<1>6. ASSUME NEW c \in Clients, PublishFails(c) \/ StatementFails(c)
      PROVE  Inv'
  BY <1>6, PublishKeeps, FaultKeeps
<1>7. CASE ServerCrash
  BY <1>7, FaultKeeps
<1>8. CASE (\E i \in Ids : BeatSends(i)) \/ Trigger \/ Execute
           \/ (\E i \in used \cup {NoRow} : TriggerDirect(i))
  BY <1>8, RunKeeps
<1>9. CASE UNCHANGED vars
  BY <1>9
     DEF vars, Inv, Types, RowTypes, RequestTypes, RunTypes, BoundTypes, RowInv,
         RequestInv, RunInv
<1> QED
  BY <1>1, <1>2, <1>3, <1>4, <1>5, <1>6, <1>7, <1>8, <1>9 DEF Next

\* The invariant holds at the start.
LEMMA InitHolds == Init => Inv
<1> SUFFICES ASSUME Init PROVE Inv
  OBVIOUS
<1>1. Types
  BY Bounds DEF Init, Types, RowTypes, RequestTypes, RunTypes, BoundTypes
<1>2. RowInv /\ RequestInv
  BY DEF Init, RowInv, RequestInv
<1>3. RunInv
  BY Bounds DEF Init, RunInv
<1> QED
  BY <1>1, <1>2, <1>3 DEF Inv

\* The invariant holds throughout.
LEMMA InvAlways == Spec => []Inv
  BY InitHolds, StepKeeps, PTL DEF Spec
-----------------------------------------------------------------------------
(* The history of a schedule *)

Own(i) == {k \in DOMAIN logs : logs[k].schedule = i}

\* A row knows its id, and a request that will write has read that row.
RowsOwn == \A i \in Ids : table[i] # NoRow => table[i].schedule = i

RequestsOwn == \A c \in Clients : at[c] = "write" => base[c].schedule = target[c]

\* What is sent for a schedule names that schedule.
MessagesOwn == \A k \in DOMAIN pending : pending[k].from = pending[k].schedule

\* The logs are in the order of the runs, and those of a schedule that is there
\* are its runs; an id that nobody has yet has none of either.
LogsOwn ==
    /\ \A k \in DOMAIN logs : logs[k].run <= runs
    /\ \A k, m \in DOMAIN logs : k < m => logs[k].run < logs[m].run
    /\ \A i \in Ids : i \notin used \/ table[i] # NoRow =>
         runsOf[i] = {logs[k].run : k \in Own(i)}

HistoryInv == RowsOwn /\ RequestsOwn /\ MessagesOwn /\ LogsOwn

\* update_schedule gives new kwargs the id of the row.
LEMMA ApplyOwns ==
    ASSUME NEW i \in Ids, NEW body \in Updates, NEW row \in Row, row.schedule = i
    PROVE  Apply(body, row, i).schedule = i
BY DEF Apply, ScheduleKept, Row

\* Requests leave messages, logs and runs alone, but for a deletion.
LEMMA RequestKeepsHistory ==
    ASSUME Inv, HistoryInv, NEW c \in Clients,
           \/ \E body \in Creates : Create(c, body)
           \/ \E body : Refuse(c, body)
           \/ \E i \in used : \/ \E body \in Updates : Update(c, i, body)
                              \/ Delete(c, i)
                              \/ \E on \in BOOLEAN : Switch(c, i, on)
           \/ Refresh(c) \/ Reread(c) \/ Publish(c) \/ Write(c)
           \/ PublishFails(c) \/ StatementFails(c)
    PROVE  HistoryInv'
<1>1. /\ table \in [Ids -> Row \cup {NoRow}] /\ used \subseteq Ids
      /\ at = [d \in Clients |-> at[d]] /\ target = [d \in Clients |-> target[d]]
      /\ base = [d \in Clients |-> base[d]]
  BY DEF Inv, Types, RowTypes, RequestTypes
<1>2. UNCHANGED <<pending, logs, runsOf, runs>>
  <2>1. ASSUME NEW body, Create(c, body) \/ Refuse(c, body)
        PROVE  UNCHANGED <<pending, logs, runsOf, runs>>
    BY <2>1 DEF Create, Refuse
  <2>2. ASSUME NEW i, NEW body, NEW on, Update(c, i, body) \/ Delete(c, i) \/ Switch(c, i, on)
        PROVE  UNCHANGED <<pending, logs, runsOf, runs>>
    BY <2>2 DEF Update, Delete, Switch
  <2>3. CASE Refresh(c) \/ Reread(c) \/ Publish(c) \/ Write(c) \/ PublishFails(c)
             \/ StatementFails(c)
    BY <2>3 DEF Refresh, Reread, Publish, Write, PublishFails, StatementFails
  <2> QED BY <2>1, <2>2, <2>3
<1>3. /\ \A i \in Ids : table'[i] = NoRow <=> (table[i] = NoRow /\ i \notin used' \ used)
      /\ used \subseteq used'
      /\ RowsOwn'
  <2>1. CASE \E body \in Creates : Create(c, body)
    <3>1. PICK body \in Creates : Create(c, body)
      BY <2>1
    <3>2. PICK i \in Ids \ used : used' = used \cup {i} /\ table' = [table EXCEPT ![i] = NewRow(i, body)]
      BY <3>1 DEF Create
    <3>3. NewRow(i, body) \in Row /\ NewRow(i, body).schedule = i
      BY <3>1, NewRowIsRow DEF Create, NewRow
    <3> QED BY <1>1, <3>2, <3>3, RowAssumption DEF HistoryInv, RowsOwn, Inv, RowInv
  <2>2. CASE \E i \in used : \E on \in BOOLEAN : Switch(c, i, on)
    <3>1. PICK i \in used, on \in BOOLEAN : Switch(c, i, on)
      BY <2>2
    <3>2. CASE table[i] = NoRow
      BY <3>1, <3>2 DEF Switch, HistoryInv, RowsOwn
    <3>3. CASE table[i] # NoRow
      <4>1. /\ table' = [table EXCEPT ![i].enabled = on] /\ used' = used /\ table[i] \in Row
            /\ i \in Ids
        BY <1>1, <3>1, <3>3 DEF Switch
      <4>2. [table[i] EXCEPT !.enabled = on] \in Row
            /\ [table[i] EXCEPT !.enabled = on].schedule = table[i].schedule
        BY <4>1 DEF Row
      <4> QED BY <1>1, <3>3, <4>1, <4>2, RowAssumption DEF HistoryInv, RowsOwn
    <3> QED BY <3>2, <3>3
  <2>3. CASE Write(c)
    <3>1. /\ target[c] \in Ids /\ base[c] \in Row /\ dto[c] \in Updates /\ used' = used
          /\ base[c].schedule = target[c] /\ CronAccepted(dto[c])
      BY <1>1, <2>3 DEF Write, Inv, RequestInv, Types, RequestTypes, HistoryInv, RequestsOwn
    <3>2. CASE table[target[c]] = NoRow
      BY <2>3, <3>1, <3>2 DEF Write, HistoryInv, RowsOwn
    <3>3. CASE table[target[c]] # NoRow
      <4>1. table' = [table EXCEPT ![target[c]] = Apply(dto[c], base[c], target[c])]
        BY <2>3, <3>3 DEF Write
      <4>2. /\ Apply(dto[c], base[c], target[c]) \in Row
            /\ Apply(dto[c], base[c], target[c]).schedule = target[c]
        BY <3>1, ApplyOwns, ApplyIsRow
      <4> QED BY <1>1, <3>1, <3>3, <4>1, <4>2, RowAssumption DEF HistoryInv, RowsOwn
    <3> QED BY <3>2, <3>3
  <2>4. CASE table' = table /\ used' = used
    BY <2>4 DEF HistoryInv, RowsOwn
  <2> QED
    BY <2>1, <2>2, <2>3, <2>4 DEF Refuse, Update, Delete, Refresh, Reread, Publish,
       PublishFails, StatementFails
<1>4. RequestsOwn'
  <2>1. CASE \E i \in used, body \in Updates : Update(c, i, body) /\ table[i] # NoRow
    <3>1. PICK i \in used, body \in Updates : Update(c, i, body) /\ table[i] # NoRow
      BY <2>1
    <3>2. /\ at' = [at EXCEPT ![c] = "write"] /\ target' = [target EXCEPT ![c] = i]
          /\ base' = [base EXCEPT ![c] = table[i]]
      BY <3>1 DEF Update, Begin
    <3>3. table[i].schedule = i
      BY <1>1, <3>1 DEF HistoryInv, RowsOwn
    <3> QED BY <1>1, <3>2, <3>3 DEF HistoryInv, RequestsOwn
  <2>2. CASE ~\E i \in used, body \in Updates : Update(c, i, body) /\ table[i] # NoRow
    <3>1. /\ \A d \in Clients \ {c} : at'[d] = at[d] /\ target'[d] = target[d] /\ base'[d] = base[d]
          /\ at'[c] # "write"
      BY <1>1, <2>2 DEF Create, Refuse, Update, Delete, Switch, Refresh, Reread, Publish, Write,
         PublishFails, StatementFails, Begin, Continue, Answer, AnswerAtOnce, Accept
    <3> QED BY <3>1 DEF HistoryInv, RequestsOwn
  <2> QED BY <2>1, <2>2
<1>5. MessagesOwn' /\ LogsOwn'
  BY <1>2, <1>3 DEF HistoryInv, MessagesOwn, LogsOwn, Own
<1> QED BY <1>3, <1>4, <1>5 DEF HistoryInv

\* A deletion takes its schedule from the logs, and the id is never given out again.
LEMMA DeleteRowKeepsHistory ==
    ASSUME Inv, HistoryInv, NEW c \in Clients, DeleteRow(c)
    PROVE  HistoryInv'
<1> DEFINE i == target[c]
<1>1. /\ i \in used /\ i \in Ids /\ NoRow \notin Ids
      /\ table \in [Ids -> Row \cup {NoRow}] /\ logs \in Seq(Logs)
      /\ at = [d \in Clients |-> at[d]]
  BY ApiAssumption DEF Inv, Types, RowTypes, RequestTypes, RunTypes, RequestInv, DeleteRow
<1>2. /\ at' = [at EXCEPT ![c] = "publish"]
      /\ UNCHANGED <<used, pending, runsOf, runs, target, base>>
  BY DEF DeleteRow, Continue
<1>3. CASE table[i] = NoRow
  <2>1. UNCHANGED <<table, logs>>
    BY <1>3 DEF DeleteRow
  <2>2. RowsOwn' /\ RequestsOwn' /\ MessagesOwn'
    BY <1>1, <1>2, <2>1 DEF HistoryInv, RowsOwn, RequestsOwn, MessagesOwn
  <2>3. LogsOwn'
    BY <1>2, <2>1 DEF HistoryInv, LogsOwn, Own
  <2> QED BY <2>2, <2>3 DEF HistoryInv
<1>4. CASE table[i] # NoRow
  <2>1. /\ table' = [table EXCEPT ![i] = NoRow]
        /\ logs' = [k \in DOMAIN logs |->
                     IF logs[k].schedule = i THEN [logs[k] EXCEPT !.schedule = NoRow]
                                             ELSE logs[k]]
    BY <1>4 DEF DeleteRow
  <2>2. \A k \in DOMAIN logs :
           /\ logs'[k].run = logs[k].run
           /\ \A j \in Ids \ {i} : logs'[k].schedule = j <=> logs[k].schedule = j
    BY <1>1, <2>1 DEF Logs
  <2>3. DOMAIN logs' = DOMAIN logs
    BY <2>1
  <2>4. RowsOwn' /\ RequestsOwn' /\ MessagesOwn'
    BY <1>1, <1>2, <2>1 DEF HistoryInv, RowsOwn, RequestsOwn, MessagesOwn
  <2>5. ASSUME NEW j \in Ids, j \notin used' \/ table'[j] # NoRow
        PROVE  runsOf'[j] = {logs'[k].run : k \in Own(j)'}
    <3>1. j # i /\ (j \notin used \/ table[j] # NoRow)
      BY <1>1, <1>2, <2>1, <2>5
    <3>2. Own(j)' = Own(j)
      BY <2>2, <2>3, <3>1 DEF Own
    <3>3. \A k \in Own(j) : logs'[k].run = logs[k].run
      BY <2>2 DEF Own
    <3>4. runsOf'[j] = {logs[k].run : k \in Own(j)}
      BY <1>2, <3>1 DEF HistoryInv, LogsOwn
    <3> HIDE DEF i
    <3> QED BY <3>2, <3>3, <3>4
  <2>6. LogsOwn'
    BY <1>2, <2>2, <2>3, <2>5 DEF HistoryInv, LogsOwn
  <2> QED BY <2>4, <2>6 DEF HistoryInv
<1> QED BY <1>3, <1>4

\* A run is logged under the schedule it was sent for.
LEMMA LogRunKeepsHistory ==
    ASSUME Inv, HistoryInv, NEW i \in Ids \cup {NoRow}, LogRun(i, i), UNCHANGED <<table, used>>
    PROVE  LogsOwn'
<1>1. logs \in Seq(Logs) /\ runs \in Nat /\ runs' = runs + 1
      /\ runsOf \in [Ids -> SUBSET (1..MaxRuns)] /\ NoRow \notin Ids
  BY Bounds, ApiAssumption DEF Inv, Types, RunTypes, LogRun
<1>2. \A k \in DOMAIN logs : logs[k].run \in Nat
  <2>1. \A k \in DOMAIN logs : logs[k] \in Logs
    BY <1>1
  <2> QED BY <2>1, Bounds DEF Logs
<1>3. CASE ~(i = NoRow \/ i \in Present)
  BY <1>1, <1>2, <1>3 DEF LogRun, HistoryInv, LogsOwn, Own
<1>4. CASE i = NoRow \/ i \in Present
  <2> DEFINE log == [run |-> runs + 1, schedule |-> i]
             n == Len(logs) + 1
  <2>1. /\ logs' = Append(logs, log)
        /\ runsOf' = IF i = NoRow THEN runsOf ELSE [runsOf EXCEPT ![i] = @ \cup {runs + 1}]
    BY <1>4 DEF LogRun
  <2>2. /\ DOMAIN logs' = DOMAIN logs \cup {n} /\ logs'[n] = log
        /\ \A k \in DOMAIN logs : k \in Nat /\ k < n /\ logs'[k] = logs[k]
        /\ n \notin DOMAIN logs /\ n \in Nat
    BY <1>1, <2>1
  <2>3. log.run = runs + 1 /\ log.schedule = i
    OBVIOUS
  <2> HIDE DEF n, log
  <2>4. \A k \in DOMAIN logs' : logs'[k].run <= runs'
    BY <1>1, <1>2, <2>2, <2>3 DEF HistoryInv, LogsOwn
  <2>5. ASSUME NEW k \in DOMAIN logs', NEW m \in DOMAIN logs', k < m
        PROVE  logs'[k].run < logs'[m].run
    <3>1. k \in DOMAIN logs
      BY <2>2, <2>5
    <3>2. CASE m = n
      BY <1>1, <1>2, <2>2, <2>3, <3>1, <3>2 DEF HistoryInv, LogsOwn
    <3>3. CASE m # n
      BY <2>2, <2>5, <3>1, <3>3 DEF HistoryInv, LogsOwn
    <3> QED BY <3>2, <3>3
  <2>6. ASSUME NEW j \in Ids, j \notin used \/ table[j] # NoRow
        PROVE  runsOf'[j] = {logs'[k].run : k \in Own(j)'}
    <3>1. runsOf[j] = {logs[k].run : k \in Own(j)}
      BY <2>6 DEF HistoryInv, LogsOwn
    <3>2. CASE j = i
      <4>1. Own(j)' = Own(j) \cup {n}
        BY <2>2, <2>3, <3>2 DEF Own
      <4>2. runsOf'[j] = runsOf[j] \cup {runs + 1}
        BY <1>1, <2>1, <3>2
      <4>3. \A k \in Own(j) : logs'[k] = logs[k]
        BY <2>2 DEF Own
      <4> QED BY <2>2, <2>3, <3>1, <4>1, <4>2, <4>3
    <3>3. CASE j # i
      <4>1. Own(j)' = Own(j) /\ \A k \in Own(j) : logs'[k] = logs[k]
        BY <2>2, <2>3, <3>3 DEF Own
      <4>2. runsOf'[j] = runsOf[j]
        BY <1>1, <2>1, <3>3
      <4> QED BY <3>1, <4>1, <4>2
    <3> QED BY <3>2, <3>3
  <2> QED BY <2>4, <2>5, <2>6 DEF LogsOwn
<1> QED BY <1>3, <1>4

\* What Beat, the workers and the manual triggers do
LEMMA RunKeepsHistory ==
    ASSUME Inv, HistoryInv,
           \/ \E i \in Ids : BeatSends(i)
           \/ Trigger
           \/ Execute
           \/ \E i \in used \cup {NoRow} : TriggerDirect(i)
    PROVE  HistoryInv'
<1>1. pending \in Seq(Messages) /\ used \subseteq Ids
  BY DEF Inv, Types, RowTypes, RunTypes
<1>2. UNCHANGED <<table, used, at, target, base>>
  BY DEF BeatSends, Trigger, Execute, TriggerDirect
<1>3. MessagesOwn' /\ LogsOwn'
  <2>1. CASE (\E i \in Ids : BeatSends(i)) \/ Trigger
    <3>1. PICK m : m.from = m.schedule /\ pending' = Append(pending, m) /\ m \in Messages
      <4>1. CASE Trigger
        BY <4>1 DEF Trigger, Message, Messages
      <4>2. CASE \E i \in Ids : BeatSends(i)
        BY <4>2 DEF BeatSends, Message, Messages, HistoryInv, RowsOwn
      <4> QED BY <2>1, <4>1, <4>2
    <3>2. /\ DOMAIN pending' = DOMAIN pending \cup {Len(pending) + 1}
          /\ pending'[Len(pending) + 1] = m
          /\ \A k \in DOMAIN pending : pending'[k] = pending[k]
      BY <1>1, <3>1
    <3>3. UNCHANGED <<logs, runsOf, runs>>
      BY <2>1 DEF BeatSends, Trigger
    <3> QED BY <1>2, <3>1, <3>2, <3>3 DEF HistoryInv, MessagesOwn, LogsOwn, Own
  <2>2. CASE Execute
    <3>1. /\ 1 \in DOMAIN pending /\ Head(pending) = pending[1] /\ Head(pending) \in Messages
          /\ \A k \in DOMAIN Tail(pending) : k + 1 \in DOMAIN pending
                                             /\ Tail(pending)[k] = pending[k + 1]
      BY <1>1, <2>2 DEF Execute
    <3>2. Head(pending).from = Head(pending).schedule /\ Head(pending).from \in Ids \cup {NoRow}
      BY <3>1 DEF HistoryInv, MessagesOwn, Messages
    <3>3. LogsOwn'
      BY <1>2, <2>2, <3>2, LogRunKeepsHistory DEF Execute
    <3> QED BY <2>2, <3>1, <3>3 DEF Execute, HistoryInv, MessagesOwn
  <2>3. CASE \E i \in used \cup {NoRow} : TriggerDirect(i)
    <3>1. PICK i \in Ids \cup {NoRow} : TriggerDirect(i)
      BY <1>1, <2>3
    <3>2. LogsOwn'
      BY <1>2, <3>1, LogRunKeepsHistory DEF TriggerDirect
    <3> QED BY <3>1, <3>2 DEF TriggerDirect, HistoryInv, MessagesOwn
  <2> QED BY <2>1, <2>2, <2>3
<1> QED BY <1>2, <1>3 DEF HistoryInv, RowsOwn, RequestsOwn

\* Every step keeps what the history is read from.
LEMMA HistoryKept == Inv /\ HistoryInv /\ [Next]_vars => HistoryInv'
<1> SUFFICES ASSUME Inv, HistoryInv, [Next]_vars PROVE HistoryInv'
  OBVIOUS
<1>1. ASSUME NEW c \in Clients,
             \/ \E body \in Creates : Create(c, body) \/ Refuse(c, body)
             \/ \E body \in Updates : Refuse(c, body)
             \/ \E i \in used : \/ \E body \in Updates : Update(c, i, body)
                                \/ Delete(c, i)
                                \/ \E on \in BOOLEAN : Switch(c, i, on)
             \/ PublishFails(c) \/ StatementFails(c)
      PROVE  HistoryInv'
  BY <1>1, RequestKeepsHistory
<1>2. ASSUME NEW c \in Clients, Proceed(c)
      PROVE  HistoryInv'
  BY <1>2, RequestKeepsHistory, DeleteRowKeepsHistory DEF Proceed
<1>3. CASE ServerCrash
  <2>1. \A c \in Clients : at'[c] # "write"
    BY <1>3 DEF ServerCrash
  <2>2. UNCHANGED <<table, used, pending, logs, runsOf, runs>>
    BY <1>3 DEF ServerCrash
  <2> QED BY <2>1, <2>2 DEF HistoryInv, RowsOwn, RequestsOwn, MessagesOwn, LogsOwn, Own
<1>4. CASE (\E i \in Ids : BeatSends(i)) \/ Trigger \/ Execute
           \/ (\E i \in used \cup {NoRow} : TriggerDirect(i))
  BY <1>4, RunKeepsHistory
<1>5. CASE UNCHANGED vars
  BY <1>5 DEF vars, HistoryInv, RowsOwn, RequestsOwn, MessagesOwn, LogsOwn, Own
<1> QED
  BY <1>1, <1>2, <1>3, <1>4, <1>5 DEF Next

\* Nothing has run at the start.
LEMMA HistoryHolds == Init => HistoryInv
  BY DEF Init, HistoryInv, RowsOwn, RequestsOwn, MessagesOwn, LogsOwn, Own

LEMMA MinOfTwo ==
    ASSUME NEW a \in Int, NEW b \in Int
    PROVE  Min({a, b}) = IF a <= b THEN a ELSE b
<1> DEFINE least == IF a <= b THEN a ELSE b
<1>1. least \in {a, b} /\ \A y \in {a, b} : least <= y
  OBVIOUS
<1>2. \A x \in {a, b} : (\A y \in {a, b} : x <= y) => x = least
  OBVIOUS
<1> QED BY <1>1, <1>2 DEF Min

\* What the history of a schedule shows, of as many runs as it has
LEMMA HistoryIsNewest ==
    ASSUME Inv, HistoryInv
    PROVE  HistoryShowsRuns
<1> SUFFICES ASSUME NEW i \in Present
    PROVE LET shown == {log.run : log \in History(i)} IN
          /\ shown \subseteq runsOf[i]
          /\ Cardinality(shown) = Min({HistoryLimit, Cardinality(runsOf[i])})
          /\ \A r \in runsOf[i] \ shown, q \in shown : r < q
  BY DEF HistoryShowsRuns
<1> DEFINE S == Own(i)
           Top == Newest(S, HistoryLimit)
           Run(k) == logs[k].run
           Runs(T) == {Run(k) : k \in T}
           shown == {log.run : log \in History(i)}
<1>1. /\ logs \in Seq(Logs) /\ DOMAIN logs = 1..Len(logs) /\ Len(logs) \in Nat
      /\ HistoryLimit \in Nat /\ i \in Ids /\ table[i] # NoRow
  BY ApiAssumption DEF Inv, Types, RunTypes, Present
<1>2. S \in SUBSET Nat /\ S \subseteq DOMAIN logs /\ IsFiniteSet(S) /\ Cardinality(S) \in Nat
  <2>1. S \subseteq 1..Len(logs)
    BY <1>1 DEF Own
  <2>2. IsFiniteSet(1..Len(logs))
    BY <1>1, FS_Interval
  <2> HIDE DEF S
  <2>3. IsFiniteSet(S)
    BY <2>1, <2>2, FS_Subset
  <2>4. Cardinality(S) \in Nat
    BY <2>3, FS_CardinalityType
  <2>5. 1..Len(logs) \subseteq Nat
    BY <1>1
  <2> QED BY <1>1, <2>1, <2>3, <2>4, <2>5
<1>3. shown = Runs(Top)
  BY DEF History, Own
<1>4. runsOf[i] = Runs(S)
  BY <1>1 DEF HistoryInv, LogsOwn
<1>5. Top \subseteq S
  BY DEF Newest
<1>6. \A k, m \in S : /\ Run(k) \in Nat
                      /\ k < m => Run(k) < Run(m)
  <2>1. \A k \in DOMAIN logs : logs[k] \in Logs
    BY <1>1
  <2> QED BY <1>2, <2>1, Bounds DEF Logs, HistoryInv, LogsOwn
<1>7. Cardinality(Top) = IF Cardinality(S) < HistoryLimit THEN Cardinality(S) ELSE HistoryLimit
  <2> HIDE DEF S
  <2> QED BY <1>1, <1>2, LargestCounted DEF Newest
<1> HIDE DEF S, Top, Run
\* Each run is logged once.
<1>8. ASSUME NEW T \in SUBSET S
      PROVE  Cardinality(Runs(T)) = Cardinality(T)
  <2> DEFINE f == [k \in T |-> Run(k)]
  <2>1. IsFiniteSet(T)
    BY <1>2, FS_Subset
  <2>2. \A k, m \in T : f[k] = f[m] => k = m
    <3> SUFFICES ASSUME NEW k \in T, NEW m \in T, f[k] = f[m] PROVE k = m
      OBVIOUS
    <3>1. Run(k) = Run(m) /\ Run(k) \in Nat /\ k \in Nat /\ m \in Nat
      BY <1>2, <1>6
    <3>2. ~(k < m) /\ ~(m < k)
      BY <1>6, <3>1
    <3> QED BY <3>1, <3>2
  <2>3. Runs(T) = {f[k] : k \in T}
    OBVIOUS
  <2> HIDE DEF f, Runs
  <2>4. Cardinality({f[k] : k \in T}) = Cardinality(T)
    BY <2>1, <2>2, ValuesCounted
  <2> QED BY <2>3, <2>4
<1>9. Cardinality(shown) = Min({HistoryLimit, Cardinality(runsOf[i])})
  <2>1. Cardinality(shown) = Cardinality(Top) /\ Cardinality(runsOf[i]) = Cardinality(S)
    <3> HIDE DEF Runs, shown
    <3> QED BY <1>3, <1>4, <1>5, <1>8
  <2> DEFINE a == HistoryLimit
             b == Cardinality(S)
  <2>2. a \in Int /\ b \in Int
    BY <1>1, <1>2
  <2> HIDE DEF a, b
  <2>3. Min({a, b}) = IF a <= b THEN a ELSE b
    BY <2>2, MinOfTwo
  <2> QED BY <1>7, <2>1, <2>2, <2>3 DEF a, b
<1>10. ASSUME NEW r \in runsOf[i] \ shown, NEW q \in shown PROVE r < q
  <2>1. PICK k \in S, m \in Top : r = Run(k) /\ q = Run(m) /\ k \notin Top
    BY <1>3, <1>4, <1>10
  <2>2. k \in Nat /\ m \in Nat /\ m \in S
    BY <1>2, <1>5, <2>1
  <2>3. k < m
    <3>1. SUFFICES ASSUME ~(k < m) PROVE FALSE
      OBVIOUS
    <3> DEFINE Above(x) == {y \in S : x < y}
    <3>2. Above(k) \subseteq Above(m)
      <4>1. \A y \in S : y \in Nat /\ (k < y => m < y)
        BY <1>2, <2>2, <3>1
      <4> QED BY <4>1
    <3>3. IsFiniteSet(Above(m))
      BY <1>2, FS_Subset
    <3>4. /\ Cardinality(Above(k)) <= Cardinality(Above(m))
          /\ Cardinality(Above(k)) \in Nat /\ Cardinality(Above(m)) \in Nat
      BY <3>2, <3>3, FS_Subset, FS_CardinalityType
    <3>5. Cardinality(Above(m)) < HistoryLimit /\ ~(Cardinality(Above(k)) < HistoryLimit)
      BY <2>1 DEF Top, Newest
    <3> HIDE DEF Above
    <3> QED BY <1>1, <3>4, <3>5
  <2> QED BY <1>6, <2>1, <2>2, <2>3
<1>11. shown \subseteq runsOf[i]
  BY <1>3, <1>4, <1>5
<1> QED BY <1>9, <1>10, <1>11
-----------------------------------------------------------------------------
(* Listings *)

\* ceil(n / size) pages of that size are enough.
LEMMA PagesSuffice ==
    ASSUME NEW n \in Nat, NEW size \in Nat \ {0}
    PROVE  TotalPages(n, size) \in Nat /\ n <= TotalPages(n, size) * size
<1> DEFINE total == n + size - 1
           d == total \div size
           m == total % size
<1>1. total \in Nat /\ size \in Nat /\ size > 0
  OBVIOUS
<1>2. total = size * d + m /\ m \in 0..(size - 1) /\ d \in Int
  BY <1>1
<1>3. d \in Nat
  BY <1>1
<1> HIDE DEF d, m
<1>4. d * size = size * d /\ d * size \in Int
  BY <1>3
<1>5. n <= d * size
  BY <1>2, <1>4
<1> QED BY <1>3, <1>5 DEF TotalPages, d

\* The pages of a listing, put together, are the listing.
LEMMA PagesAreAll ==
    ASSUME NEW T, NEW items \in Seq(T), NEW size \in Nat \ {0}
    PROVE  AllPages(items, size) = items
<1> DEFINE n == Len(items)
           total == TotalPages(n, size)
           pages == [p \in 1..total |-> Page(items, p, size)]
           upTo(p) == IF p * size <= n THEN p * size ELSE n
<1>1. n \in Nat /\ total \in Nat /\ n <= total * size
  <2>1. n \in Nat
    OBVIOUS
  <2> HIDE DEF n
  <2> QED BY <2>1, PagesSuffice
<1> HIDE DEF total
<1>2. Len(pages) = total /\ Len(pages) \in Nat
  BY <1>1
<1>3. \A p \in Nat : p * size \in Nat /\ (p + 1) * size = p * size + size
  OBVIOUS
<1>4. ASSUME NEW p \in Nat, p + 1 \in 1..total
      PROVE  pages[p + 1] = SubSeq(items, p * size + 1, upTo(p + 1))
  <2>1. (p + 1) * size \in Int /\ (p + 1) - 1 = p
    BY <1>1
  <2>2. Min({(p + 1) * size, n}) = upTo(p + 1)
    BY <1>1, <2>1, MinOfTwo
  <2>3. pages[p + 1] = SubSeq(items, ((p + 1) - 1) * size + 1, Min({(p + 1) * size, n}))
    BY <1>4 DEF Page
  <2> HIDE DEF upTo
  <2> QED BY <2>1, <2>2, <2>3
<1>5. \A p \in 1..total :
         Flat(pages)[p] = IF p = 1 THEN pages[p] ELSE Flat(pages)[p - 1] \o pages[p]
  <2> HIDE DEF pages
  <2>1. Flat(pages) = [p \in 1..Len(pages) |->
                        IF p = 1 THEN pages[p] ELSE Flat(pages)[p - 1] \o pages[p]]
    BY <1>2, FlatIs
  <2> QED BY <1>2, <2>1
<1> DEFINE Shown == {p \in Nat : p + 1 \in 1..total =>
                                  Flat(pages)[p + 1] = SubSeq(items, 1, upTo(p + 1))}
<1> HIDE DEF pages
<1>6. 0 \in Shown
  <2>1. SUFFICES ASSUME 0 + 1 \in 1..total
        PROVE  Flat(pages)[0 + 1] = SubSeq(items, 1, upTo(0 + 1))
    OBVIOUS
  <2>2. 0 * size + 1 = 1 /\ 0 + 1 = 1
    BY <1>3
  <2>3. pages[0 + 1] = SubSeq(items, 0 * size + 1, upTo(0 + 1))
    BY <1>4, <2>1
  <2> HIDE DEF upTo
  <2> QED BY <1>5, <2>1, <2>2, <2>3
<1>7. ASSUME NEW p \in Nat, p \in Shown PROVE p + 1 \in Shown
  <2> DEFINE q == p + 1
             k == q * size
  <2>1. SUFFICES ASSUME q + 1 \in 1..total
        PROVE  Flat(pages)[q + 1] = SubSeq(items, 1, upTo(q + 1))
    OBVIOUS
  <2>2. q \in 1..total /\ q + 1 # 1 /\ (q + 1) - 1 = q /\ q \in Nat
    BY <1>1, <2>1
  <2>3. Flat(pages)[q] = SubSeq(items, 1, upTo(q))
    BY <1>7, <2>2
  <2>4. pages[q + 1] = SubSeq(items, k + 1, upTo(q + 1))
    <3> HIDE DEF upTo, q
    <3> QED BY <1>4, <2>1, <2>2
  <2>5. Flat(pages)[q + 1] = SubSeq(items, 1, upTo(q)) \o SubSeq(items, k + 1, upTo(q + 1))
    <3> HIDE DEF upTo, q, k
    <3> QED BY <1>5, <2>1, <2>2, <2>3, <2>4
  <2>6. k \in Nat /\ (q + 1) * size = k + size /\ k > 0
    BY <1>3, <2>2
  <2>7. CASE k <= n
    <3>1. /\ upTo(q) = k /\ upTo(q + 1) \in k..Len(items)
          /\ 1 \in 1..(Len(items) + 1) /\ k \in (1 - 1)..Len(items)
      BY <1>1, <2>6, <2>7
    <3> HIDE DEF k, upTo, q, n
    <3>2. SubSeq(items, 1, k) \o SubSeq(items, k + 1, upTo(q + 1)) = SubSeq(items, 1, upTo(q + 1))
      BY <3>1, ConcatAdjacentSubSeq
    <3> QED BY <2>5, <3>1, <3>2
  <2>8. CASE ~(k <= n)
    <3>1. upTo(q) = n /\ upTo(q + 1) = n /\ n < k + 1
      BY <1>1, <2>6, <2>8
    <3>2. SubSeq(items, k + 1, n) = <<>>
      <4> HIDE DEF k, n
      <4> QED BY <1>1, <2>6, <3>1, SubSeqEmpty
    <3>3. SubSeq(items, 1, n) = items
      BY SubSeqFull
    <3> HIDE DEF k, upTo, q, n
    <3>4. Flat(pages)[q + 1] = items \o <<>>
      BY <2>5, <3>1, <3>2, <3>3
    <3> QED BY <3>1, <3>3, <3>4, ConcatEmptySeq
  <2> QED BY <2>7, <2>8
<1>8. Nat \subseteq Shown
  <2> HIDE DEF Shown
  <2> QED BY <1>6, <1>7, SetInduction
<1>9. CASE total = 0
  <2>1. n = 0
    BY <1>1, <1>9
  <2>2. items = <<>>
    BY <2>1, EmptySeq
  <2>3. pages = <<>>
    BY <1>9 DEF pages
  <2> QED BY <1>2, <1>9, <2>2, <2>3 DEF AllPages, FlattenSeq, pages, total
<1>10. CASE total # 0
  <2>1. total \in 1..total /\ total - 1 \in Nat /\ (total - 1) + 1 = total
    BY <1>1, <1>10
  <2>2. Flat(pages)[total] = SubSeq(items, 1, upTo(total))
    BY <1>8, <2>1
  <2>3. upTo(total) = n
    BY <1>1
  <2>4. Flat(pages)[total] = items
    BY <2>2, <2>3, SubSeqFull
  <2>5. FlattenSeq(pages) = Flat(pages)[total]
    BY <1>2, <1>10 DEF FlattenSeq, Flat
  <2>6. AllPages(items, size) = FlattenSeq(pages)
    BY DEF AllPages, pages, total
  <2> QED BY <2>4, <2>5, <2>6
<1> QED BY <1>9, <1>10

\* What the list endpoint and the domain service leave of the schedules
LEMMA ListsAgreeOnTags ==
    ASSUME NEW filter \in Filters
    PROVE  /\ Listed(filter) \subseteq ComplexFilter(filter)
           /\ Cardinality(filter.tags) <= 1 => Listed(filter) = ComplexFilter(filter)
           /\ filter.category \in Categories =>
                LET found == FilterByCategory(GetAll(filter.enabledOnly), filter.category) IN
                /\ Listed(filter) = FilterByTags(found, filter.tags, TRUE)
                /\ filter.tags # {} =>
                     ComplexFilter(filter) = FilterByTags(found, filter.tags, FALSE)
<1> USE DEF Listed, GetFiltered, GetAll, FilterByTags, FilterByCategory, ComplexFilter,
            MatchesFilter, HasAllTags, HasAnyTag
<1>1. Listed(filter) \subseteq ComplexFilter(filter)
  OBVIOUS
<1>2. ASSUME Cardinality(filter.tags) <= 1
      PROVE  ComplexFilter(filter) \subseteq Listed(filter)
  <2>1. \A s, t \in filter.tags : s = t
    <3>1. IsFiniteSet(filter.tags)
      BY DEF Filters
    <3>2. Cardinality(filter.tags) = 0 \/ Cardinality(filter.tags) = 1
      BY <1>2, <3>1, FS_CardinalityType
    <3> QED BY <3>1, <3>2, FS_EmptySet, FS_Singleton
  <2> QED BY <2>1
<1>3. ASSUME filter.category \in Categories
      PROVE  LET found == FilterByCategory(GetAll(filter.enabledOnly), filter.category) IN
             /\ Listed(filter) = FilterByTags(found, filter.tags, TRUE)
             /\ filter.tags # {} =>
                  ComplexFilter(filter) = FilterByTags(found, filter.tags, FALSE)
  BY <1>3
<1> QED BY <1>1, <1>2, <1>3
-----------------------------------------------------------------------------
(* The theorems *)

\* Every variable has its type whatever requests cross: what update_schedule
\* writes is a row in every column, and the bounds are kept.
THEOREM ApiTypeCorrect == Spec => []TypeOK
<1>1. Inv => TypeOK
  BY TypesAreTypeOK DEF Inv
<1> QED
  BY <1>1, InvAlways, PTL

\* A name marked as generated is made from the id, for any number of updates
\* that write over each other (create_schedule, update_schedule).
THEOREM GeneratedNamesStay == Spec => []GeneratedNamesMarked
<1>1. Inv => GeneratedNamesMarked
  BY DEF Inv, RowInv, GeneratedNamesMarked, Present
<1> QED
  BY <1>1, InvAlways, PTL

\* No column loses what was committed for it, except where an update has
\* written over another's change (update_schedule, enable, disable).
THEOREM AskedIsKept == Spec => []KeepsWhatWasAsked
<1>1. Inv => KeepsWhatWasAsked
  BY DEF Inv, RowInv, KeepsWhatWasAsked, Present
<1> QED
  BY <1>1, InvAlways, PTL

\* 404, 500 and 200 are true of the schedule that was asked about, for any
\* number of clients (update_schedule, delete_schedule).
THEOREM AnswersStayTrue == Spec => []AnswersAreTrue
<1>1. Inv => AnswersAreTrue
  BY DEF Inv, RequestInv, AnswersAreTrue, Present
<1> QED
  BY <1>1, InvAlways, PTL

\* The history of a schedule shows its newest runs, and all of them up to the
\* limit, whatever requests, deletions and runs cross: a row keeps its own id, a
\* message names the row it was sent for, and the log grows in the order of the
\* runs (update_schedule, delete_schedule, get_by_schedule_id).
THEOREM HistoryIsComplete == Spec => []HistoryShowsRuns
<1>1. Spec => []HistoryInv
  BY InvAlways, HistoryHolds, HistoryKept, PTL DEF Spec
<1>2. Inv /\ HistoryInv => HistoryShowsRuns
  BY HistoryIsNewest
<1> QED
  BY <1>1, <1>2, InvAlways, PTL

\* In every state the list endpoint and the domain service agree on the filters,
\* and the pages show every item once, for any schedules, tags and page size
\* (get_filtered, Schedule.matches_filter, list_schedules).
THEOREM ListingsAgree == Spec => []FiltersAgree
<1>1. FiltersAgree
  <2>1. ASSUME NEW items \in SetToSeqs(Present), NEW perPage \in 1..(Cardinality(Ids) + 1)
        PROVE  AllPages(items, perPage) = items
    <3>1. IsFiniteSet(Present) /\ Cardinality(Ids) \in Nat
      BY ApiAssumption, FS_Subset, FS_CardinalityType DEF Present
    <3>2. Cardinality(Present) \in Nat /\ items \in [1..Cardinality(Present) -> Present]
      BY <3>1, FS_CardinalityType DEF SetToSeqs
    <3>3. items \in Seq(Present) /\ perPage \in Nat \ {0}
      BY <3>1, <3>2
    <3> QED BY <3>3, PagesAreAll
  <2> QED BY <2>1, ListsAgreeOnTags DEF FiltersAgree
<1> QED BY <1>1, PTL

=============================================================================
