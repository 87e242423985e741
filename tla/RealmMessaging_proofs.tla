----------------------- MODULE RealmMessaging_proofs ------------------------
(***************************************************************************)
(* Proofs about RealmDatabase and RealmMessaging, for any nodes,           *)
(* namespaces, documents, messages and faults.                             *)
(***************************************************************************)
EXTENDS RealmMessaging, TLAPS

-----------------------------------------------------------------------------
(* The tables of a realm database.                                         *)
RowType == [host : Hosts, batch : Int, refresh : {"none", "complete", "failed"}]
Names == {"pid", "notifyNamespace", "errors"}
Entries == [id : Int, name : Names, value : Hosts \cup Spaces \cup Int]

\* A host has one row, and an entry lies under a row or under none.
Tables(db) ==
    /\ db \in [rows : Seq(RowType), meta : SUBSET Entries, errors : Nat]
    /\ \A i, j \in DOMAIN db.rows : db.rows[i].host = db.rows[j].host => i = j
    /\ \A e \in db.meta : e.id = NoId \/ e.id \in DOMAIN db.rows

Wire == [type : Types, from : Hosts, headed : BOOLEAN, batch : Int,
         to : Spaces \cup {Everyone},
         params : SUBSET [name : Names, value : Hosts \cup Spaces \cup Int],
         nr : Nat]

LEMMA IdOfRow ==
    ASSUME NEW db, Tables(db), NEW h \in Hosts
    PROVE  \/ IdOf(db, h) = NoId /\ \A i \in DOMAIN db.rows : db.rows[i].host # h
           \/ /\ IdOf(db, h) \in DOMAIN db.rows /\ db.rows[IdOf(db, h)].host = h
              /\ IdsOf(db, h) = {IdOf(db, h)}
<1>1. CASE IdsOf(db, h) = {}
  BY <1>1 DEF IdOf, IdsOf
<1>2. CASE IdsOf(db, h) # {}
  <2>1. PICK i \in DOMAIN db.rows : db.rows[i].host = h
    BY <1>2 DEF IdsOf
  <2>2. IdsOf(db, h) = {i}
    BY <2>1 DEF IdsOf, Tables
  <2>3. i \in Nat
    BY <2>1 DEF Tables
  <2>4. IdOf(db, h) = i
    BY <1>2, <2>2, <2>3 DEF IdOf
  <2>5. QED
    BY <2>1, <2>2, <2>4
<1>3. QED
  BY <1>1, <1>2

(* Row k is the sender's: it is entered or brought up to date; the other   *)
(* rows are left alone.                                                    *)
Entered(new, db, m, k) ==
    /\ new \in [rows : Seq(RowType), meta : SUBSET Entries, errors : Nat]
    /\ k \in Nat \ {0} /\ DOMAIN new.rows = DOMAIN db.rows \cup {k}
    /\ \A i \in DOMAIN db.rows : i # k => new.rows[i] = db.rows[i]
    /\ new.rows[k].host = m.from
    /\ \/ new.rows[k].batch = m.batch
       \/ /\ m.type = "ALIVE" /\ k \in DOMAIN db.rows
          /\ new.rows[k].batch = db.rows[k].batch
    /\ new.errors = db.errors

\* The row shows no failure that it did not show.
NoNewFailure(new, db, k) ==
    new.rows[k].refresh = "failed" => k \in DOMAIN db.rows /\ db.rows[k].refresh = "failed"

\* The row shows no completion but of the batch id that it showed, or that of
\* the message.
Completion(new, db, m, k) ==
    new.rows[k].refresh = "complete" =>
        \/ m.type # "ALIVE" /\ new.rows[k].batch = m.batch
        \/ /\ k \in DOMAIN db.rows /\ db.rows[k].refresh = "complete"
           /\ new.rows[k].batch = db.rows[k].batch

LEMMA TableTypes ==
    ASSUME NEW db, Tables(db)
    PROVE  /\ db \in [rows : Seq(RowType), meta : SUBSET Entries, errors : Nat]
           /\ db.rows \in Seq(RowType) /\ db.meta \subseteq Entries /\ db.errors \in Nat
           /\ Len(db.rows) \in Nat /\ DOMAIN db.rows = 1 .. Len(db.rows)
BY DEF Tables

LEMMA InsertEnters ==
    ASSUME NEW db, Tables(db), NEW m \in Wire, IdOf(db, m.from) = NoId,
           NEW k, k = Len(db.rows) + 1, NEW new, new = Inserted(db, m)
    PROVE  /\ Entered(new, db, m, k) /\ NoNewFailure(new, db, k)
           /\ Completion(new, db, m, k)
           /\ IdsOf(new, m.from) = {k} /\ new.meta = db.meta
<1> DEFINE r == [host |-> m.from, batch |-> m.batch, refresh |-> "none"]
<1>1. m.from \in Hosts /\ r \in RowType
  BY DEF Wire, RowType
<1>2. new.rows = Append(db.rows, r) /\ new.meta = db.meta /\ new.errors = db.errors
      /\ new = [db EXCEPT !.rows = new.rows]
  BY TableTypes DEF Inserted
<1>3. /\ new.rows \in Seq(RowType) /\ DOMAIN new.rows = 1 .. k
      /\ \A i \in DOMAIN db.rows : new.rows[i] = db.rows[i]
      /\ new.rows[k] = r
  BY <1>1, <1>2, TableTypes
<1>4. \A i \in DOMAIN db.rows : db.rows[i].host # m.from
  BY <1>1, IdOfRow, TableTypes DEF NoId
<1>5. k \in Nat \ {0} /\ DOMAIN new.rows = DOMAIN db.rows \cup {k}
  BY <1>3, TableTypes
<1>6. IdsOf(new, m.from) = {k}
  <2>1. new.rows[k].host = m.from /\ k \in DOMAIN new.rows
    BY <1>3, <1>5
  <2>2. ASSUME NEW i \in DOMAIN new.rows, new.rows[i].host = m.from
        PROVE  i = k
    <3>1. CASE i \in DOMAIN db.rows
      <4>1. new.rows[i] = db.rows[i]
        BY <1>3, <3>1
      <4>2. QED
        BY <1>4, <2>2, <3>1, <4>1
    <3>2. QED
      BY <1>5, <3>1
  <2>3. QED
    BY <2>1, <2>2 DEF IdsOf
<1>7. NoNewFailure(new, db, k) /\ Completion(new, db, m, k)
  BY <1>3 DEF NoNewFailure, Completion
<1>8. new \in [rows : Seq(RowType), meta : SUBSET Entries, errors : Nat]
  <2>1. db \in [rows : Seq(RowType), meta : SUBSET Entries, errors : Nat]
    BY TableTypes
  <2>2. QED
    BY <1>2, <1>3, <2>1
<1>9. new.rows[k].host = m.from /\ new.rows[k].batch = m.batch
  BY <1>3
<1>10. Entered(new, db, m, k)
  BY <1>2, <1>3, <1>5, <1>8, <1>9 DEF Entered
<1>11. QED
  BY <1>2, <1>6, <1>7, <1>10

LEMMA UpdateEnters ==
    ASSUME NEW db, Tables(db), NEW m \in Wire,
           NEW k, k = IdOf(db, m.from), k # NoId, NEW new, new = Updated(db, k, m)
    PROVE  /\ Entered(new, db, m, k) /\ NoNewFailure(new, db, k)
           /\ Completion(new, db, m, k)
           /\ IdsOf(new, m.from) = {k} /\ new.meta = db.meta
<1>1. m.from \in Hosts /\ m.batch \in Int
  BY DEF Wire
<1>2. /\ k \in DOMAIN db.rows /\ db.rows[k].host = m.from /\ IdsOf(db, m.from) = {k}
      /\ k \in Nat \ {0}
  BY <1>1, IdOfRow, TableTypes
<1>3. CASE m.type = "ALIVE"
  <2>1. new = db
    BY <1>3 DEF Updated
  <2>2. QED
    BY <1>2, <1>3, <2>1, TableTypes DEF Entered, NoNewFailure, Completion
<1>4. CASE m.type # "ALIVE"
  <2> DEFINE r == [db.rows[k] EXCEPT !.batch = m.batch]
  <2>1. new.rows = [db.rows EXCEPT ![k] = r] /\ new.meta = db.meta
        /\ new.errors = db.errors /\ new = [db EXCEPT !.rows = new.rows]
    BY <1>4, TableTypes DEF Updated
  <2>2. db.rows[k] \in RowType
    BY <1>2, TableTypes
  <2>3. /\ r \in RowType /\ r.host = db.rows[k].host /\ r.batch = m.batch
        /\ r.refresh = db.rows[k].refresh
    BY <1>1, <2>2 DEF RowType
  <2> HIDE DEF r
  <2>4. /\ new.rows \in Seq(RowType) /\ DOMAIN new.rows = DOMAIN db.rows
        /\ \A i \in DOMAIN db.rows : i # k => new.rows[i] = db.rows[i]
        /\ new.rows[k] = r
    BY <1>2, <2>1, <2>3, TableTypes
  <2>5. IdsOf(new, m.from) = IdsOf(db, m.from)
    BY <1>2, <2>3, <2>4 DEF IdsOf
  <2>6. NoNewFailure(new, db, k) /\ Completion(new, db, m, k)
    BY <1>2, <1>4, <2>3, <2>4 DEF NoNewFailure, Completion
  <2>7. new \in [rows : Seq(RowType), meta : SUBSET Entries, errors : Nat]
    BY <2>1, <2>4, TableTypes
  <2>8. Entered(new, db, m, k)
    BY <1>2, <2>1, <2>3, <2>4, <2>7 DEF Entered
  <2>9. QED
    BY <1>2, <2>1, <2>5, <2>6, <2>8
<1>5. QED
  BY <1>3, <1>4

\* The parameters of a message, and every entry under another name or id.
Kept(meta, id, params) ==
    {e \in meta : e.id # id \/ \A x \in params : e.name # x.name} \cup
    {[id |-> id, name |-> x.name, value |-> x.value] : x \in params}

LEMMA ParamsEnter ==
    ASSUME NEW db, NEW s, NEW m \in Wire, NEW k, Entered(s, db, m, k),
           NEW id \in Int, NEW new, new = WithParams(s, id, m.params)
    PROVE  /\ Entered(new, db, m, k) /\ new.rows = s.rows
           /\ new.meta = Kept(s.meta, id, m.params)
<1>1. s \in [rows : Seq(RowType), meta : SUBSET Entries, errors : Nat]
  BY DEF Entered
<1>2. new.rows = s.rows /\ new.errors = s.errors /\ new = [s EXCEPT !.meta = new.meta]
      /\ new.meta = Kept(s.meta, id, m.params)
  BY <1>1 DEF WithParams, Kept
<1>3. m.params \subseteq [name : Names, value : Hosts \cup Spaces \cup Int]
  BY DEF Wire
<1>4. new.meta \subseteq Entries
  BY <1>1, <1>2, <1>3 DEF Kept, Entries
<1>5. QED
  BY <1>1, <1>2, <1>4 DEF Entered

LEMMA RefreshEnters ==
    ASSUME NEW db, NEW s, NEW m \in Wire, NEW k, Entered(s, db, m, k),
           IdsOf(s, m.from) = {k}, NEW state \in {"complete", "failed"},
           NEW new, new = WithRefresh(s, m.from, state)
    PROVE  /\ Entered(new, db, m, k) /\ new.meta = s.meta
           /\ new.rows[k].refresh = state
<1>1. s \in [rows : Seq(RowType), meta : SUBSET Entries, errors : Nat]
      /\ s.rows \in Seq(RowType) /\ k \in DOMAIN s.rows
  BY DEF Entered
<1>2. /\ new.rows = [i \in DOMAIN s.rows |-> IF i = k THEN [s.rows[i] EXCEPT !.refresh = state]
                                             ELSE s.rows[i]]
      /\ new.meta = s.meta /\ new.errors = s.errors /\ new = [s EXCEPT !.rows = new.rows]
  BY <1>1 DEF WithRefresh
<1>3. s.rows[k] \in RowType
  BY <1>1
<1>4. /\ [s.rows[k] EXCEPT !.refresh = state] \in RowType
      /\ [s.rows[k] EXCEPT !.refresh = state].host = s.rows[k].host
      /\ [s.rows[k] EXCEPT !.refresh = state].batch = s.rows[k].batch
      /\ [s.rows[k] EXCEPT !.refresh = state].refresh = state
  BY <1>3 DEF RowType
<1>5. /\ DOMAIN new.rows = DOMAIN s.rows
      /\ \A i \in DOMAIN s.rows : i # k => new.rows[i] = s.rows[i]
      /\ new.rows[k] = [s.rows[k] EXCEPT !.refresh = state]
  BY <1>1, <1>2
<1>6. new.rows \in Seq(RowType)
  <2>1. \A i \in DOMAIN s.rows : s.rows[i] \in RowType /\ new.rows[i] \in RowType
    BY <1>1, <1>4, <1>5
  <2>2. QED
    BY <1>1, <1>2, <2>1
<1>7. new \in [rows : Seq(RowType), meta : SUBSET Entries, errors : Nat]
  BY <1>1, <1>2, <1>6
<1>8. QED
  BY <1>1, <1>2, <1>4, <1>5, <1>7 DEF Entered

(* What registering a message does to the tables.                          *)
LEMMA RegisterEnters ==
    ASSUME NEW db, Tables(db), NEW m \in Wire, NEW new, new = RegisterMessage(db, m)
    PROVE  \E k :
             /\ \/ IdOf(db, m.from) = NoId /\ k = Len(db.rows) + 1
                \/ IdOf(db, m.from) = k /\ k # NoId
             /\ Entered(new, db, m, k)
             /\ new.meta = Kept(db.meta, IdOf(db, m.from), m.params)
             /\ m.type # "REFRESH-FAILED" => NoNewFailure(new, db, k)
             /\ Completion(new, db, m, k)
             /\ m.type = "REFRESH-FAILED" => new.rows[k].refresh = "failed"
<1> DEFINE id == IdOf(db, m.from)
           k == IF id = NoId THEN Len(db.rows) + 1 ELSE id
           s == IF id = NoId THEN Inserted(db, m) ELSE Updated(db, id, m)
           p == WithParams(s, id, m.params)
<1>1. /\ Entered(s, db, m, k) /\ NoNewFailure(s, db, k) /\ Completion(s, db, m, k)
      /\ IdsOf(s, m.from) = {k} /\ s.meta = db.meta
  <2>1. CASE id = NoId
    <3>1. s = Inserted(db, m) /\ k = Len(db.rows) + 1
      BY <2>1
    <3>2. QED
      BY <2>1, <3>1, InsertEnters
  <2>2. CASE id # NoId
    <3>1. s = Updated(db, k, m) /\ k = id
      BY <2>2
    <3>2. QED
      BY <2>2, <3>1, UpdateEnters
  <2>3. QED
    BY <2>1, <2>2
<1>2. id \in Int
  <2>1. m.from \in Hosts
    BY DEF Wire
  <2>2. QED
    BY <2>1, IdOfRow, TableTypes DEF NoId
<1>3. new = CASE m.type = "REFRESH-COMPLETE" -> WithRefresh(p, m.from, "complete")
              [] m.type = "REFRESH-FAILED" -> WithRefresh(p, m.from, "failed")
              [] OTHER -> p
  BY DEF RegisterMessage
<1> HIDE DEF s, k
<1>4. /\ Entered(p, db, m, k) /\ p.rows = s.rows
      /\ p.meta = Kept(db.meta, id, m.params)
  BY <1>1, <1>2, ParamsEnter
<1> HIDE DEF p
<1>5. IdsOf(p, m.from) = {k} /\ NoNewFailure(p, db, k) /\ Completion(p, db, m, k)
  BY <1>1, <1>4 DEF IdsOf, NoNewFailure, Completion
<1>6. /\ Entered(new, db, m, k) /\ new.meta = Kept(db.meta, id, m.params)
      /\ m.type # "REFRESH-FAILED" => NoNewFailure(new, db, k)
      /\ Completion(new, db, m, k)
      /\ m.type = "REFRESH-FAILED" => new.rows[k].refresh = "failed"
  <2>1. CASE m.type = "REFRESH-COMPLETE"
    <3>1. new = WithRefresh(p, m.from, "complete")
      BY <1>3, <2>1
    <3>2. /\ Entered(new, db, m, k) /\ new.meta = p.meta
          /\ new.rows[k].refresh = "complete"
      BY <1>4, <1>5, <3>1, RefreshEnters
    <3>3. new.rows[k].batch = m.batch
      BY <2>1, <3>2 DEF Entered
    <3>4. QED
      BY <1>4, <2>1, <3>2, <3>3 DEF NoNewFailure, Completion
  <2>2. CASE m.type = "REFRESH-FAILED"
    <3>1. new = WithRefresh(p, m.from, "failed")
      BY <1>3, <2>2
    <3>2. Entered(new, db, m, k) /\ new.meta = p.meta /\ new.rows[k].refresh = "failed"
      BY <1>4, <1>5, <3>1, RefreshEnters
    <3>3. QED
      BY <1>4, <2>2, <3>2 DEF Completion
  <2>3. CASE m.type \notin {"REFRESH-COMPLETE", "REFRESH-FAILED"}
    <3>1. new = p
      BY <1>3, <2>3
    <3>2. QED
      BY <1>4, <1>5, <2>3, <3>1
  <2>4. QED
    BY <2>1, <2>2, <2>3
<1>7. QED
  BY <1>6 DEF k

-----------------------------------------------------------------------------
(* What a database says of the hosts.                                      *)
\* The batch id that a node's row shows as complete is one of its own.
RowsTrue(db, done) ==
    \A i \in DOMAIN db.rows :
        db.rows[i].host \in Nodes /\ db.rows[i].refresh = "complete"
            => db.rows[i].batch \in done[db.rows[i].host]

ParamsTrue(db, own) ==
    \A i \in DOMAIN db.rows :
        /\ \A e \in db.meta : e.id = i /\ e.name = "pid" => e.value = db.rows[i].host
        /\ db.rows[i].refresh = "failed" =>
              /\ \E e \in db.meta : e.id \in {i, NoId} /\ e.name = "errors"
              /\ db.rows[i].host = own => db.errors > 0

\* A message that may be entered in such a database.
Enterable(m, done) ==
    /\ m \in Wire
    /\ m.from \in Nodes /\ m.type \notin {"ALIVE", "REFRESH-FAILED"}
          => m.batch \in done[m.from]
    /\ \A x \in m.params : x.name = "pid" => x.value = m.from
    /\ m.type = "REFRESH-FAILED" => \E x \in m.params : x.name = "errors"

LEMMA RegisterKeepsTables ==
    ASSUME NEW db, Tables(db), NEW m \in Wire
    PROVE  Tables(RegisterMessage(db, m))
<1>1. PICK new : new = RegisterMessage(db, m)
  OBVIOUS
<1>2. PICK k :
        /\ \/ IdOf(db, m.from) = NoId /\ k = Len(db.rows) + 1
           \/ IdOf(db, m.from) = k /\ k # NoId
        /\ Entered(new, db, m, k)
        /\ new.meta = Kept(db.meta, IdOf(db, m.from), m.params)
  BY <1>1, RegisterEnters
<1>3. \A i \in DOMAIN db.rows : i # k => db.rows[i].host # m.from
  <2>1. m.from \in Hosts
    BY DEF Wire
  <2>2. QED
    BY <1>2, <2>1, IdOfRow, TableTypes DEF IdsOf, NoId
<1>4. \A i, j \in DOMAIN new.rows : new.rows[i].host = new.rows[j].host => i = j
  BY <1>2, <1>3 DEF Entered, Tables
<1>5. \A e \in new.meta : e.id = NoId \/ e.id \in DOMAIN new.rows
  BY <1>2 DEF Kept, Entered, Tables
<1>6. QED
  BY <1>1, <1>2, <1>4, <1>5 DEF Entered, Tables

LEMMA RegisterKeepsTruth ==
    ASSUME NEW db, Tables(db), NEW done, NEW own, RowsTrue(db, done), ParamsTrue(db, own),
           NEW m, Enterable(m, done),
           m.type = "REFRESH-FAILED" /\ m.from = own => db.errors > 0
    PROVE  /\ RowsTrue(RegisterMessage(db, m), done)
           /\ ParamsTrue(RegisterMessage(db, m), own)
           /\ RegisterMessage(db, m).errors = db.errors
<1>1. PICK new : new = RegisterMessage(db, m)
  OBVIOUS
<1>0. m \in Wire
  BY DEF Enterable
<1>2. PICK k :
        /\ \/ IdOf(db, m.from) = NoId /\ k = Len(db.rows) + 1
           \/ IdOf(db, m.from) = k /\ k # NoId
        /\ Entered(new, db, m, k)
        /\ new.meta = Kept(db.meta, IdOf(db, m.from), m.params)
        /\ m.type # "REFRESH-FAILED" => NoNewFailure(new, db, k)
        /\ Completion(new, db, m, k)
        /\ m.type = "REFRESH-FAILED" => new.rows[k].refresh = "failed"
  BY <1>0, <1>1, RegisterEnters
<1>3. k \in DOMAIN db.rows => db.rows[k].host = m.from /\ IdOf(db, m.from) = k
  <2>1. m.from \in Hosts
    BY <1>0 DEF Wire
  <2>2. QED
    BY <1>2, <2>1, IdOfRow, TableTypes
<1>4. RowsTrue(new, done)
  <2> SUFFICES ASSUME NEW i \in DOMAIN new.rows, new.rows[i].host \in Nodes,
                      new.rows[i].refresh = "complete"
               PROVE  new.rows[i].batch \in done[new.rows[i].host]
    BY DEF RowsTrue
  <2>1. CASE i # k
    BY <1>2, <2>1 DEF Entered, RowsTrue
  <2>2. CASE i = k
    <3>1. /\ new.rows[k].host = m.from /\ m.from \in Nodes
          /\ m.type # "REFRESH-FAILED"
      BY <1>2, <2>2 DEF Entered
    <3>2. CASE m.type # "ALIVE" /\ new.rows[k].batch = m.batch
      BY <2>2, <3>1, <3>2 DEF Enterable
    <3>3. CASE /\ k \in DOMAIN db.rows /\ db.rows[k].refresh = "complete"
               /\ new.rows[k].batch = db.rows[k].batch
      BY <1>3, <2>2, <3>1, <3>3 DEF RowsTrue
    <3>4. QED
      BY <1>2, <2>2, <3>2, <3>3 DEF Completion
  <2>3. QED
    BY <2>1, <2>2
<1>5. \A i \in DOMAIN new.rows : \A e \in new.meta :
        e.id = i /\ e.name = "pid" => e.value = new.rows[i].host
  <2> SUFFICES ASSUME NEW i \in DOMAIN new.rows, NEW e \in new.meta, e.id = i, e.name = "pid"
               PROVE  e.value = new.rows[i].host
    OBVIOUS
  <2>1. i \in Nat \ {0}
    BY <1>2, TableTypes DEF Entered
  <2>2. CASE e \in db.meta
    <3>1. i \in DOMAIN db.rows
      BY <2>1, <2>2 DEF Tables, NoId
    <3>2. new.rows[i].host = db.rows[i].host
      BY <1>2, <1>3, <3>1 DEF Entered
    <3>3. QED
      BY <2>2, <3>1, <3>2 DEF ParamsTrue
  <2>3. CASE e \notin db.meta
    <3>1. PICK x \in m.params :
            e = [id |-> IdOf(db, m.from), name |-> x.name, value |-> x.value]
      BY <1>2, <2>3 DEF Kept
    <3>2. x.name = "pid" /\ e.value = x.value /\ IdOf(db, m.from) = i
      BY <3>1
    <3>3. i = k
      BY <1>2, <2>1, <3>2 DEF NoId
    <3>4. QED
      BY <1>2, <3>2, <3>3 DEF Enterable, Entered
  <2>4. QED
    BY <2>2, <2>3
<1>6. ASSUME NEW i \in DOMAIN new.rows, new.rows[i].refresh = "failed"
      PROVE  /\ \E e \in new.meta : e.id \in {i, NoId} /\ e.name = "errors"
             /\ new.rows[i].host = own => new.errors > 0
  <2>1. CASE i \in DOMAIN db.rows /\ db.rows[i].refresh = "failed"
    <3>1. new.rows[i].host = db.rows[i].host /\ new.errors = db.errors
      BY <1>2, <1>3, <2>1 DEF Entered
    <3>2. PICK e \in db.meta : e.id \in {i, NoId} /\ e.name = "errors"
      BY <2>1 DEF ParamsTrue
    <3>3. \E f \in new.meta : f.id = e.id /\ f.name = e.name
      <4>1. CASE e \in new.meta
        BY <4>1
      <4>2. CASE e \notin new.meta
        <5>1. PICK x \in m.params : e.id = IdOf(db, m.from) /\ e.name = x.name
          BY <1>2, <4>2 DEF Kept
        <5>2. [id |-> IdOf(db, m.from), name |-> x.name, value |-> x.value] \in new.meta
          BY <1>2 DEF Kept
        <5>3. QED
          BY <5>1, <5>2
      <4>3. QED
        BY <4>1, <4>2
    <3>4. QED
      BY <2>1, <3>1, <3>2, <3>3 DEF ParamsTrue
  <2>2. CASE i = k /\ m.type = "REFRESH-FAILED"
    <3>1. PICK x \in m.params : x.name = "errors"
      BY <2>2 DEF Enterable
    <3>2. [id |-> IdOf(db, m.from), name |-> x.name, value |-> x.value] \in new.meta
      BY <1>2 DEF Kept
    <3>3. IdOf(db, m.from) \in {i, NoId}
      BY <1>2, <2>2
    <3>4. QED
      BY <1>2, <2>2, <3>1, <3>2, <3>3 DEF Entered
  <2>3. QED
    <3>1. CASE i # k
      BY <1>2, <1>6, <2>1, <3>1 DEF Entered
    <3>2. CASE i = k
      BY <1>2, <1>6, <2>1, <2>2, <3>2 DEF NoNewFailure
    <3>3. QED
      BY <3>1, <3>2
<1>7. ParamsTrue(new, own)
  BY <1>5, <1>6 DEF ParamsTrue
<1>8. QED
  BY <1>1, <1>2, <1>4, <1>7 DEF Entered

LEMMA LogErrorKeeps ==
    ASSUME NEW db, Tables(db), NEW done, NEW own, RowsTrue(db, done), ParamsTrue(db, own)
    PROVE  /\ Tables(LogError(db)) /\ RowsTrue(LogError(db), done)
           /\ ParamsTrue(LogError(db), own) /\ LogError(db).errors = db.errors + 1
<1>1. /\ LogError(db).rows = db.rows /\ LogError(db).meta = db.meta
      /\ LogError(db).errors = db.errors + 1
      /\ LogError(db) \in [rows : Seq(RowType), meta : SUBSET Entries, errors : Nat]
  BY TableTypes DEF LogError
<1>2. LogError(db).errors > 0
  BY <1>1, TableTypes
<1>3. QED
  BY <1>1, <1>2 DEF Tables, RowsTrue, ParamsTrue

-----------------------------------------------------------------------------
(* Connections.                                                            *)
ConnTypes ==
    /\ link \in [Nodes -> {"down", "up", "subscribed"}]
    /\ socket \in [Nodes -> BOOLEAN]
    /\ pc \in [Nodes -> {"loop", "stuck", "subscribe", "ping", "refresh", "answer", "dead"}]
    /\ \A n \in Nodes : socket[n] \/ link[n] = "down"

ConnInv == ConnTypes /\ NeverDeaf

LEMMA ConnSend ==
    ASSUME ConnInv, NEW n \in Nodes, NEW boxes, NEW m, Send(n, boxes, m),
           pc[n] # "subscribe",
           pc' \in [Nodes -> {"loop", "stuck", "subscribe", "ping", "refresh", "answer", "dead"}],
           \A o \in Nodes \ {n} : pc'[o] = pc[o]
    PROVE  ConnInv'
<1>1. CASE Accepted(n, boxes, m)
  BY <1>1 DEF Accepted, ConnInv, ConnTypes, NeverDeaf
<1>2. CASE Refused(n, boxes)
  <2>1. /\ socket' = [socket EXCEPT ![n] = FALSE]
        /\ link' = [link EXCEPT ![n] = "down"]
    BY <1>2 DEF Refused
  <2>2. ConnTypes'
    BY <2>1 DEF ConnInv, ConnTypes
  <2>3. ASSUME NEW o \in Nodes, socket'[o] /\ link'[o] = "up"
        PROVE  pc'[o] = "subscribe"
    <3>1. o # n
      BY <2>1, <2>3 DEF ConnInv, ConnTypes
    <3>2. socket'[o] = socket[o] /\ link'[o] = link[o] /\ pc'[o] = pc[o]
      BY <2>1, <3>1 DEF ConnInv, ConnTypes
    <3>3. QED
      BY <2>3, <3>2 DEF ConnInv, NeverDeaf
  <2>4. QED
    BY <2>2, <2>3 DEF ConnInv, NeverDeaf
<1>3. QED
  BY <1>1, <1>2 DEF Send

LEMMA ConnStep == ASSUME ConnInv, [Next]_vars PROVE ConnInv'
<1> USE DEF Goto
<1>0. ConnTypes /\ NeverDeaf
  BY DEF ConnInv
<1>1. CASE CheckIn \/ (\E s \in Spaces : SendRefresh(s)) \/ TestMessageBroker
  <2>1. UNCHANGED <<link, socket, pc>>
    BY <1>1 DEF CheckIn, SendRefresh, TestMessageBroker, network, worker
  <2>2. QED
    BY <1>0, <2>1 DEF ConnInv, ConnTypes, NeverDeaf
<1>2. ASSUME NEW n \in Nodes, Drop(n) PROVE ConnInv'
  BY <1>0, <1>2 DEF Drop, worker, ConnInv, ConnTypes, NeverDeaf
<1>3. ASSUME NEW n \in Nodes, Worker(n) PROVE ConnInv'
  <2>1. CASE Connect(n)
    BY <1>0, <2>1 DEF Connect, ConnInv, ConnTypes, NeverDeaf
  <2>0. CASE ConnectHangs(n)
    BY <1>0, <2>0 DEF ConnectHangs, ConnInv, ConnTypes, NeverDeaf
  <2>2. CASE Subscribe(n)
    BY <1>0, <2>2 DEF Subscribe, ConnInv, ConnTypes, NeverDeaf
  <2>3. CASE SubscribeFails(n)
    BY <1>0, <2>3 DEF SubscribeFails, Refused, ConnInv, ConnTypes, NeverDeaf
  <2>4. CASE Announce(n)
    <3>1. /\ pc[n] # "subscribe" /\ pc' = [pc EXCEPT ![n] = "loop"]
          /\ \E m : Send(n, inbox, m)
      BY <2>4 DEF Announce
    <3>2. QED
      BY <1>0, <3>1, ConnSend DEF ConnTypes
  <2>5. CASE ReadFatal(n)
    BY <1>0, <2>5 DEF ReadFatal, Reading, ConnInv, ConnTypes, NeverDeaf
  <2>6. CASE ReadOther(n)
    BY <1>0, <2>6 DEF ReadOther, worker, ConnInv, ConnTypes, NeverDeaf
  <2>7. CASE ReadPing(n)
    <3>1. /\ pc[n] # "subscribe" /\ pc' = pc
          /\ Send(n, Popped(n), Pong(n, Head(inbox[n])))
      BY <2>7 DEF ReadPing, Reading, worker
    <3>2. QED
      BY <1>0, <3>1, ConnSend DEF ConnTypes
  <2>8. CASE ReadRefresh(n)
    BY <1>0, <2>8 DEF ReadRefresh, Reading, ConnInv, ConnTypes, NeverDeaf
  <2>9. CASE ReadNothing(n)
    <3>1. /\ pc[n] # "subscribe" /\ pc' = pc
          /\ \E boxes \in {inbox, Popped(n)} :
                \E m : Send(n, boxes, m)
      BY <2>9 DEF ReadNothing, Reading, worker
    <3>2. QED
      BY <1>0, <3>1, ConnSend DEF ConnTypes
  <2>10. CASE ReadEof(n)
    BY <1>0, <2>10 DEF ReadEof, worker, ConnInv, ConnTypes, NeverDeaf
  <2>11. CASE Refresh(n)
    BY <1>0, <2>11 DEF Refresh, network, ConnInv, ConnTypes, NeverDeaf
  <2>12. CASE Answer(n)
    <3>1. /\ pc[n] # "subscribe" /\ pc' = [pc EXCEPT ![n] = "loop"]
          /\ Send(n, inbox, Reply(n))
      BY <2>12 DEF Answer
    <3>2. QED
      BY <1>0, <3>1, ConnSend DEF ConnTypes
  <2>13. QED
    BY <1>3, <2>0, <2>1, <2>2, <2>3, <2>4, <2>5, <2>6, <2>7, <2>8, <2>9, <2>10, <2>11, <2>12
    DEF Worker
<1>4. CASE UNCHANGED vars
  BY <1>0, <1>4 DEF vars, network, worker, ConnInv, ConnTypes, NeverDeaf
<1>5. QED
  BY <1>1, <1>2, <1>3, <1>4 DEF Next

(* No worker of any realm keeps a connection on which it is deaf           *)
(* (cm_internalMessagingLoop).                                             *)
THEOREM NobodyDeaf == Spec => []NeverDeaf
<1>1. Init => ConnInv
  BY DEF Init, ConnInv, ConnTypes, NeverDeaf
<1>2. ConnInv /\ [Next]_vars => ConnInv'
  BY ConnStep
<1>3. ConnInv => NeverDeaf
  BY DEF ConnInv
<1>4. QED
  BY <1>1, <1>2, <1>3, PTL DEF Spec

-----------------------------------------------------------------------------
(* Messages on their way, and what a worker has in hand, are true of what  *)
(* the nodes have loaded and logged.                                       *)
Documents == [ver : Nat, ok : BOOLEAN]

\* The ids a row of each node may show as complete.
Known == [n \in Nodes |-> loaded[n] \cup pinged]

RealmTypes ==
    /\ repo \in Documents
    /\ asked \in Seq([batch : Seconds, doc : Documents, to : Spaces])
    /\ msg \in [Nodes -> Wire] /\ result \in [Nodes -> {"ok", "failed"}]
    /\ local \in [Nodes -> Documents] /\ front \in [Nodes -> Nat]
    /\ fellBack \in [Nodes -> BOOLEAN] /\ loaded \in [Nodes -> SUBSET Int]
    /\ pinged \subseteq Seconds
    /\ realm \in [Nodes -> [rows : Seq(RowType), meta : SUBSET Entries, errors : Nat]]

Carried ==
    {m \in Wire :
        /\ Enterable(m, Known)
        /\ m.type = "PING" => m.batch \in pinged
        /\ m.type = "REFRESH" => m.nr \in 1 .. Len(asked)
        /\ m.type = "REFRESH-FAILED" /\ m.from \in Nodes => realm[m.from].errors > 0}

Boxes == inbox \in [Nodes -> Seq(Carried)]

Databases ==
    \A n \in Nodes : /\ Tables(realm[n]) /\ RowsTrue(realm[n], Known)
                     /\ ParamsTrue(realm[n], n)

\* A REFRESH is sent for the document that is in the repository.
Posted == \A i \in 1 .. Len(asked) : asked[i].doc.ver <= repo.ver

Hands ==
    \A n \in Nodes :
        /\ pc[n] \in {"refresh", "answer"} => msg[n].nr \in 1 .. Len(asked)
        /\ pc[n] = "answer" /\ result[n] = "ok" =>
              /\ msg[n].batch \in loaded[n]
              /\ fellBack[n] \/ front[n] >= asked[msg[n].nr].doc.ver
        /\ pc[n] = "answer" /\ result[n] = "failed" => realm[n].errors > 0

RealmInv == ConnInv /\ RealmTypes /\ Boxes /\ Databases /\ Posted /\ Hands

LEMMA ElementOf ==
    ASSUME NEW S, NEW s \in Seq(S), NEW i \in 1 .. Len(s)
    PROVE  s[i] \in S
OBVIOUS

LEMMA AskedType ==
    ASSUME RealmTypes
    PROVE  /\ repo.ver \in Nat /\ Len(asked) \in Nat
           /\ \A i \in 1 .. Len(asked) :
                 /\ asked[i].batch \in Seconds /\ asked[i].doc \in Documents
                 /\ asked[i].doc.ver \in Nat
<1>0. repo \in Documents /\ asked \in Seq([batch : Seconds, doc : Documents, to : Spaces])
  BY DEF RealmTypes
<1>1. repo.ver \in Nat /\ asked \in Seq([batch : Seconds, doc : Documents, to : Spaces])
  BY <1>0 DEF Documents
<1>2. ASSUME NEW i \in 1 .. Len(asked)
      PROVE  asked[i] \in [batch : Seconds, doc : Documents, to : Spaces]
  BY <1>1, ElementOf
<1>3. ASSUME NEW i \in 1 .. Len(asked)
      PROVE  asked[i].batch \in Seconds /\ asked[i].doc \in Documents
  BY <1>2
<1>4. \A d \in Documents : d.ver \in Nat
  BY DEF Documents
<1>5. QED
  BY <1>1, <1>3, <1>4

LEMMA SeqMonotone == ASSUME NEW S, NEW T, S \subseteq T PROVE Seq(S) \subseteq Seq(T)
<1> SUFFICES ASSUME NEW s \in Seq(S) PROVE s \in Seq(T)
  OBVIOUS
<1>1. \A i \in 1 .. Len(s) : s[i] \in T
  OBVIOUS
<1>2. QED
  BY <1>1

LEMMA DeliveredInto ==
    ASSUME NEW S, NEW boxes \in [Nodes -> Seq(S)], NEW m \in S
    PROVE  Delivered(boxes, m) \in [Nodes -> Seq(S)]
<1>1. \A n \in Nodes : Append(boxes[n], m) \in Seq(S)
  OBVIOUS
<1>2. QED
  BY <1>1 DEF Delivered

LEMMA PoppedFrom ==
    ASSUME NEW S, inbox \in [Nodes -> Seq(S)], NEW n \in Nodes, inbox[n] # <<>>
    PROVE  Popped(n) \in [Nodes -> Seq(S)] /\ Head(inbox[n]) \in S
<1>1. inbox[n] \in Seq(S)
  OBVIOUS
<1>2. Tail(inbox[n]) \in Seq(S) /\ Head(inbox[n]) \in S
  BY <1>1
<1>3. QED
  BY <1>2 DEF Popped

LEMMA SentInto ==
    ASSUME NEW S, NEW n \in Nodes, NEW boxes \in [Nodes -> Seq(S)], NEW m \in S,
           Send(n, boxes, m)
    PROVE  inbox' \in [Nodes -> Seq(S)]
<1>1. Delivered(boxes, m) \in [Nodes -> Seq(S)]
  BY DeliveredInto
<1>2. [boxes EXCEPT ![n] = <<>>] \in [Nodes -> Seq(S)]
  OBVIOUS
<1>3. QED
  BY <1>1, <1>2 DEF Send, Accepted, Refused

LEMMA OwnMessage ==
    ASSUME NEW h \in Hosts, NEW type \in Types, NEW batch \in Int,
           NEW to \in Spaces \cup {Everyone}, NEW nr \in Nat
    PROVE  /\ Own(h, type, batch, to, nr) \in Wire
           /\ Own(h, type, batch, to, nr).from = h
           /\ Own(h, type, batch, to, nr).type = type
           /\ Own(h, type, batch, to, nr).batch = batch
           /\ Own(h, type, batch, to, nr).nr = nr
           /\ \A x \in Own(h, type, batch, to, nr).params : x.name = "pid" => x.value = h
<1>1. Params(h, to) \subseteq [name : Names, value : Hosts \cup Spaces \cup Int]
  <2> SUFFICES ASSUME NEW x \in Params(h, to)
               PROVE  x \in [name : Names, value : Hosts \cup Spaces \cup Int]
    OBVIOUS
  <2>1. CASE x = [name |-> "pid", value |-> h]
    BY <2>1 DEF Names
  <2>2. CASE to \in Spaces /\ x = [name |-> "notifyNamespace", value |-> to]
    BY <2>2 DEF Names
  <2>3. QED
    BY <2>1, <2>2 DEF Params
<1>2. \A x \in Params(h, to) : x.name = "pid" => x.value = h
  BY DEF Params
<1>3. QED
  BY <1>1, <1>2 DEF Own, Message, Wire

(* A PING whose id is recorded may be carried, and its PONG, and an ALIVE. *)
LEMMA PlainCarried ==
    ASSUME NEW h \in Hosts, NEW type \in {"PING", "PONG", "ALIVE"}, NEW b \in Int,
           type # "ALIVE" => b \in pinged
    PROVE  Own(h, type, b, Everyone, 0) \in Carried
<1>1. /\ type \in Types /\ Everyone \in Spaces \cup {Everyone} /\ 0 \in Nat
      /\ h \in Hosts /\ b \in Int
  BY DEF Types
<1>2. h \in Nodes /\ type # "ALIVE" => b \in Known[h]
  BY DEF Known
<1>0. PICK to \in Spaces \cup {Everyone}, nr \in Nat : to = Everyone /\ nr = 0
  BY <1>1
<1>3. PICK m : m = Own(h, type, b, to, nr)
  OBVIOUS
<1>4. /\ m \in Wire /\ m.from = h /\ m.type = type /\ m.batch = b
      /\ \A x \in m.params : x.name = "pid" => x.value = h
  <2>1. type \in Types /\ to \in Spaces \cup {Everyone} /\ nr \in Nat
    BY <1>1
  <2>2. QED
    BY <1>3, <2>1, OwnMessage
<1>5. m \in Carried
  BY <1>2, <1>4 DEF Carried, Enterable
<1>6. QED
  BY <1>0, <1>3, <1>5

Grows ==
    /\ Len(asked) <= Len(asked')
    /\ pinged \subseteq pinged'
    /\ \A n \in Nodes : loaded[n] \subseteq loaded'[n] /\ realm[n].errors <= realm'[n].errors

LEMMA CarriedGrows ==
    ASSUME RealmTypes, RealmTypes', Grows
    PROVE  Carried \subseteq Carried'
<1> SUFFICES ASSUME NEW m \in Carried PROVE m \in Carried'
  OBVIOUS
<1>0. \A n \in Nodes : Known[n] \subseteq Known'[n]
  BY DEF Known, Grows
<1>1. Enterable(m, Known')
  BY <1>0 DEF Carried, Enterable
<1>2. /\ m.type = "REFRESH" => m.nr \in 1 .. Len(asked')
      /\ m.type = "PING" => m.batch \in pinged'
  BY DEF Carried, Grows, RealmTypes
<1>3. m.type = "REFRESH-FAILED" /\ m.from \in Nodes => realm'[m.from].errors > 0
  BY DEF Carried, Grows, RealmTypes
<1>4. QED
  BY <1>1, <1>2, <1>3 DEF Carried

LEMMA BoxesGrow ==
    ASSUME RealmTypes, RealmTypes', Grows, inbox' \in [Nodes -> Seq(Carried)]
    PROVE  Boxes'
<1>1. PICK S : S = Carried
  OBVIOUS
<1>2. PICK T : T = Carried'
  OBVIOUS
<1>3. Seq(S) \subseteq Seq(T)
  BY <1>1, <1>2, CarriedGrows, SeqMonotone
<1>4. QED
  BY <1>1, <1>2, <1>3 DEF Boxes

(* What the databases show stays known.                                    *)
LEMMA DatabasesGrow ==
    ASSUME Databases, UNCHANGED realm, Grows
    PROVE  Databases'
<1>1. \A n \in Nodes : Known[n] \subseteq Known'[n]
  BY DEF Known, Grows
<1>2. ASSUME NEW n \in Nodes
      PROVE  Tables(realm'[n]) /\ RowsTrue(realm'[n], Known') /\ ParamsTrue(realm'[n], n)
  BY <1>1 DEF Databases, RowsTrue
<1>3. QED
  BY <1>2 DEF Databases

(* A step that changes connections and boxes only, and the ids of PINGs.   *)
LEMMA QuietStep ==
    ASSUME RealmInv, ConnInv', inbox' \in [Nodes -> Seq(Carried)] \/ Boxes',
           UNCHANGED <<repo, asked, msg, result, local, front, fellBack, loaded, realm>>,
           pinged \subseteq pinged', pinged' \subseteq Seconds,
           \A n \in Nodes : pc'[n] = pc[n] \/ pc'[n] \notin {"refresh", "answer"}
    PROVE  RealmInv'
<1>1. RealmTypes' /\ Posted'
  BY DEF RealmInv, RealmTypes, Posted
<1>2. Grows
  BY DEF RealmInv, RealmTypes, Grows
<1>3. Boxes'
  BY <1>1, <1>2, BoxesGrow DEF RealmInv
<1>4. Hands'
  BY DEF RealmInv, Hands
<1>5. Databases'
  BY <1>2, DatabasesGrow DEF RealmInv
<1>6. QED
  BY <1>1, <1>3, <1>4, <1>5 DEF RealmInv

(* A message that is registered, or ignored.                               *)
LEMMA RegisterStep ==
    ASSUME RealmInv, NEW n \in Nodes, NEW m \in Carried,
           UNCHANGED <<loaded, pinged>>, Register(n, m) \/ UNCHANGED realm
    PROVE  /\ Databases'
           /\ realm' \in [Nodes -> [rows : Seq(RowType), meta : SUBSET Entries, errors : Nat]]
           /\ \A o \in Nodes : realm'[o].errors = realm[o].errors
<1>1. CASE UNCHANGED realm
  BY <1>1 DEF RealmInv, Databases, RealmTypes, Known
<1>2. CASE Register(n, m)
  <2>1. /\ realm' = [realm EXCEPT ![n] = RegisterMessage(realm[n], m)]
        /\ realm \in [Nodes -> [rows : Seq(RowType), meta : SUBSET Entries, errors : Nat]]
    BY <1>2 DEF Register, RealmInv, RealmTypes
  <2>2. /\ Tables(realm[n]) /\ RowsTrue(realm[n], Known) /\ ParamsTrue(realm[n], n)
    BY DEF RealmInv, Databases
  <2>3. /\ m \in Wire /\ Enterable(m, Known)
        /\ m.type = "REFRESH-FAILED" /\ m.from = n => realm[n].errors > 0
    BY DEF Carried
  <2>4. PICK db : db = realm[n]
    OBVIOUS
  <2>5. PICK done : done = Known /\ done = Known'
    BY DEF Known
  <2>6. PICK new : new = RegisterMessage(db, m)
    OBVIOUS
  <2>7. Tables(new)
    BY <2>2, <2>3, <2>4, <2>6, RegisterKeepsTables
  <2>8. RowsTrue(new, done) /\ ParamsTrue(new, n) /\ new.errors = db.errors
    BY <2>2, <2>3, <2>4, <2>5, <2>6, RegisterKeepsTruth
  <2>9. realm' = [realm EXCEPT ![n] = new]
    BY <2>1, <2>4, <2>6
  <2>10. new \in [rows : Seq(RowType), meta : SUBSET Entries, errors : Nat]
    BY <2>7, TableTypes
  <2>11. \A o \in Nodes : realm'[o] = IF o = n THEN new ELSE realm[o]
    BY <2>1, <2>9
  <2>12. Databases'
    BY <2>5, <2>7, <2>8, <2>11 DEF Databases, RealmInv
  <2>13. QED
    BY <2>1, <2>4, <2>8, <2>9, <2>10, <2>11, <2>12
<1>3. QED
  BY <1>1, <1>2

-----------------------------------------------------------------------------
LEMMA RealmInit == Init => RealmInv
<1> SUFFICES ASSUME Init PROVE RealmInv
  OBVIOUS
<1>1. ConnInv
  BY DEF Init, ConnInv, ConnTypes, NeverDeaf
<1>2. NoMessage \in Wire
  <2>1. Params(Console, Everyone) = {[name |-> "pid", value |-> Console]}
    BY DEF Params
  <2>2. QED
    BY <2>1 DEF NoMessage, Message, Wire, Types, Hosts, Names
<1>3. EmptyDatabase \in [rows : Seq(RowType), meta : SUBSET Entries, errors : Nat]
  BY DEF EmptyDatabase
<1>4. RealmTypes
  BY <1>2, <1>3 DEF Init, RealmTypes, Documents
<1>5. Databases
  <2>1. \A n \in Nodes : realm[n] = EmptyDatabase
    BY DEF Init
  <2>2. EmptyDatabase.rows = <<>> /\ EmptyDatabase.meta = {}
    BY DEF EmptyDatabase
  <2>3. QED
    BY <1>3, <2>1, <2>2 DEF Databases, Tables, RowsTrue, ParamsTrue
<1>6. Boxes /\ Posted /\ Hands
  BY DEF Init, Boxes, Posted, Hands
<1>7. QED
  BY <1>1, <1>4, <1>5, <1>6 DEF RealmInv

LEMMA CheckInStep == ASSUME RealmInv, ConnInv', CheckIn PROVE RealmInv'
<1>1. /\ repo' \in Documents /\ repo'.ver = repo.ver + 1
      /\ UNCHANGED <<asked, inbox, pc, msg, result, local, front, fellBack, loaded, pinged, realm>>
  <2>1. PICK w \in BOOLEAN : repo' = [ver |-> repo.ver + 1, ok |-> w]
    BY DEF CheckIn
  <2>2. repo.ver \in Nat
    BY DEF RealmInv, RealmTypes, Documents
  <2>3. QED
    BY <2>1, <2>2 DEF CheckIn, network, worker, config, history, Documents
<1>2. RealmTypes' /\ Databases' /\ Hands'
  BY <1>1 DEF RealmInv, RealmTypes, Databases, Known, Hands
<1>3. Boxes'
  BY <1>1 DEF RealmInv, Boxes, Carried, Known
<1>4. Posted'
  <2>1. repo.ver \in Nat /\ \A i \in 1 .. Len(asked) : asked[i].doc.ver \in Nat
    BY AskedType DEF RealmInv
  <2>2. QED
    BY <1>1, <2>1 DEF RealmInv, Posted
<1>5. QED
  BY <1>2, <1>3, <1>4 DEF RealmInv

LEMMA SendRefreshStep ==
    ASSUME RealmInv, ConnInv', NEW s \in Spaces, SendRefresh(s)
    PROVE  RealmInv'
<1> DEFINE nr == Len(asked) + 1
<1>1. PICK b \in Seconds :
        /\ asked' = Append(asked, [batch |-> b, doc |-> repo, to |-> s])
        /\ inbox' = Delivered(inbox, Own(Console, "REFRESH", b, s, nr))
  BY DEF SendRefresh
<1>2. UNCHANGED <<repo, pc, msg, result, local, front, fellBack, loaded, pinged, realm>>
  BY DEF SendRefresh, worker, config, history
<1>3. /\ RealmTypes /\ asked \in Seq([batch : Seconds, doc : Documents, to : Spaces])
      /\ Len(asked) \in Nat /\ repo \in Documents
  BY DEF RealmInv, RealmTypes
<1>4. b \in Nat
  BY <1>1, RealmAssumption
<1>5. /\ asked' \in Seq([batch : Seconds, doc : Documents, to : Spaces])
      /\ Len(asked') = nr /\ \A i \in 1 .. Len(asked) : asked'[i] = asked[i]
      /\ asked'[nr].doc = repo
  <2>1. [batch |-> b, doc |-> repo, to |-> s] \in [batch : Seconds, doc : Documents, to : Spaces]
    BY <1>3, <1>4
  <2>2. QED
    BY <1>1, <1>3, <2>1
<1>6. RealmTypes'
  BY <1>2, <1>3, <1>5 DEF RealmTypes
<1>7. Databases'
  BY <1>2 DEF RealmInv, Databases, Known
<1>8. Grows
  BY <1>2, <1>3, <1>5 DEF Grows, RealmTypes
<1>9. Own(Console, "REFRESH", b, s, nr) \in Carried'
  <2> DEFINE m == Own(Console, "REFRESH", b, s, nr)
  <2>1. /\ Console \in Hosts /\ Console \notin Nodes /\ "REFRESH" \in Types
        /\ b \in Int /\ nr \in Nat /\ s \in Spaces \cup {Everyone}
    BY <1>3, <1>4, RealmAssumption DEF Hosts, Types
  <2>2. /\ m \in Wire /\ m.from = Console /\ m.type = "REFRESH" /\ m.nr = nr
        /\ \A x \in m.params : x.name = "pid" => x.value = Console
    BY <2>1, OwnMessage
  <2> HIDE DEF m
  <2>3. Enterable(m, Known')
    BY <2>1, <2>2 DEF Enterable
  <2>4. m \in Carried'
    BY <1>3, <1>5, <2>2, <2>3 DEF Carried
  <2>5. QED
    BY <2>4 DEF m
<1>10. Boxes'
  <2>1. PICK S : S = Carried
    OBVIOUS
  <2>2. PICK T : T = Carried'
    OBVIOUS
  <2>3. Seq(S) \subseteq Seq(T)
    BY <1>3, <1>6, <1>8, <2>1, <2>2, CarriedGrows, SeqMonotone
  <2>4. inbox \in [Nodes -> Seq(T)]
    BY <2>1, <2>3 DEF RealmInv, Boxes
  <2>5. PICK m : m = Own(Console, "REFRESH", b, s, nr)
    OBVIOUS
  <2>6. Delivered(inbox, m) \in [Nodes -> Seq(T)]
    BY <1>9, <2>2, <2>4, <2>5, DeliveredInto
  <2>7. inbox' \in [Nodes -> Seq(T)]
    BY <1>1, <2>5, <2>6
  <2>8. QED
    BY <2>2, <2>7 DEF Boxes
<1>11. Posted'
  <2>1. repo.ver \in Nat
    BY <1>3, AskedType
  <2>2. ASSUME NEW i \in 1 .. Len(asked') PROVE asked'[i].doc.ver <= repo.ver
    <3>1. CASE i = nr
      BY <1>5, <2>1, <3>1
    <3>2. CASE i \in 1 .. Len(asked)
      BY <1>5, <3>2 DEF RealmInv, Posted
    <3>3. QED
      BY <1>3, <1>5, <3>1, <3>2
  <2>3. QED
    BY <1>2, <2>2 DEF Posted
<1>12. Hands'
  <2> SUFFICES ASSUME NEW n \in Nodes
               PROVE  /\ pc[n] \in {"refresh", "answer"} => msg[n].nr \in 1 .. nr
                      /\ pc[n] = "answer" /\ result[n] = "ok" =>
                            /\ msg[n].batch \in loaded[n]
                            /\ fellBack[n] \/ front[n] >= asked'[msg[n].nr].doc.ver
                      /\ pc[n] = "answer" /\ result[n] = "failed" => realm[n].errors > 0
    BY <1>2, <1>5 DEF Hands
  <2>1. pc[n] \in {"refresh", "answer"} =>
            /\ msg[n].nr \in 1 .. Len(asked) /\ msg[n].nr \in 1 .. nr
            /\ asked'[msg[n].nr] = asked[msg[n].nr]
    BY <1>3, <1>5 DEF RealmInv, Hands
  <2>2. QED
    BY <2>1 DEF RealmInv, Hands
<1>13. QED
  BY <1>6, <1>7, <1>10, <1>11, <1>12 DEF RealmInv

(* A message that is read, registered or ignored, and answered or not.     *)
LEMMA ReadStep ==
    ASSUME RealmInv, ConnInv', NEW n \in Nodes, ReadOther(n) \/ ReadPing(n)
    PROVE  RealmInv'
<1> DEFINE m == Head(inbox[n])
<1>1. inbox[n] # <<>> /\ inbox \in [Nodes -> Seq(Carried)]
  BY DEF ReadOther, ReadPing, RealmInv, Boxes
<1>2. PICK S : S = Carried
  OBVIOUS
<1>3. Popped(n) \in [Nodes -> Seq(S)] /\ m \in S
  BY <1>1, <1>2, PoppedFrom
<1>4. /\ UNCHANGED <<repo, asked, pc, msg, result, local, front, fellBack, loaded, pinged>>
      /\ Register(n, m) \/ UNCHANGED realm
  BY DEF ReadOther, ReadPing, world, worker, config, history
<1>5. inbox' \in [Nodes -> Seq(S)]
  <2>1. CASE ReadOther(n)
    BY <1>3, <2>1 DEF ReadOther
  <2>2. CASE ReadPing(n)
    <3>1. m.type = "PING" /\ Send(n, Popped(n), Pong(n, m))
      BY <2>2 DEF ReadPing
    <3>2. m.batch \in pinged /\ m.batch \in Int
      BY <1>2, <1>3, <3>1 DEF Carried, Wire
    <3>3. Pong(n, m) = Own(n, "PONG", m.batch, Everyone, 0) /\ n \in Hosts
      BY DEF Pong, Hosts
    <3>4. Pong(n, m) \in Carried
      BY <3>2, <3>3, PlainCarried
    <3>5. PICK p : p = Pong(n, m)
      OBVIOUS
    <3>6. PICK boxes : boxes = Popped(n)
      OBVIOUS
    <3>7. p \in S /\ boxes \in [Nodes -> Seq(S)] /\ Send(n, boxes, p)
      BY <1>2, <1>3, <3>1, <3>4, <3>5, <3>6
    <3>8. QED
      BY <3>7, SentInto
  <2>3. QED
    BY <2>1, <2>2
<1>6. /\ Databases'
      /\ realm' \in [Nodes -> [rows : Seq(RowType), meta : SUBSET Entries, errors : Nat]]
      /\ \A o \in Nodes : realm'[o].errors = realm[o].errors
  <2>1. PICK x : x = m
    OBVIOUS
  <2>2. x \in Carried /\ (Register(n, x) \/ UNCHANGED realm)
    BY <1>2, <1>3, <1>4, <2>1
  <2>3. QED
    BY <1>4, <2>2, RegisterStep
<1>7. RealmTypes'
  BY <1>4, <1>6 DEF RealmInv, RealmTypes
<1>8. Grows
  BY <1>4, <1>6 DEF Grows, RealmInv, RealmTypes
<1>9. Boxes'
  BY <1>2, <1>5, <1>7, <1>8, BoxesGrow DEF RealmInv
<1>10. Posted' /\ Hands'
  BY <1>4, <1>6 DEF RealmInv, Posted, Hands
<1>11. QED
  BY <1>6, <1>7, <1>9, <1>10 DEF RealmInv

LEMMA ReadRefreshStep ==
    ASSUME RealmInv, ConnInv', NEW n \in Nodes, ReadRefresh(n)
    PROVE  RealmInv'
<1>1. inbox[n] # <<>> /\ inbox \in [Nodes -> Seq(Carried)]
  BY DEF ReadRefresh, RealmInv, Boxes
<1>2. PICK S : S = Carried
  OBVIOUS
<1>3. PICK m : m = Head(inbox[n])
  OBVIOUS
<1>4. Popped(n) \in [Nodes -> Seq(S)] /\ m \in S
  BY <1>1, <1>2, <1>3, PoppedFrom
<1>5. /\ UNCHANGED <<repo, asked, result, local, front, fellBack, loaded, pinged>>
      /\ Register(n, m) /\ m.type = "REFRESH" /\ msg' = [msg EXCEPT ![n] = m]
      /\ inbox' = Popped(n) /\ pc' = [pc EXCEPT ![n] = "refresh"]
  BY <1>3 DEF ReadRefresh, world, config, history, IsRefresh, Goto
<1>6. /\ Databases'
      /\ realm' \in [Nodes -> [rows : Seq(RowType), meta : SUBSET Entries, errors : Nat]]
      /\ \A o \in Nodes : realm'[o].errors = realm[o].errors
  BY <1>2, <1>4, <1>5, RegisterStep
<1>7. m \in Wire /\ m.nr \in 1 .. Len(asked)
  BY <1>2, <1>4, <1>5 DEF Carried
<1>8. RealmTypes'
  BY <1>5, <1>6, <1>7 DEF RealmInv, RealmTypes
<1>9. Grows
  BY <1>5, <1>6 DEF Grows, RealmInv, RealmTypes
<1>10. Boxes'
  BY <1>2, <1>4, <1>5, <1>8, <1>9, BoxesGrow DEF RealmInv
<1>11. Posted'
  BY <1>5 DEF RealmInv, Posted
<1>12. Hands'
  <2> SUFFICES ASSUME NEW o \in Nodes
               PROVE  /\ pc'[o] \in {"refresh", "answer"} => msg'[o].nr \in 1 .. Len(asked)
                      /\ pc'[o] = "answer" /\ result[o] = "ok" =>
                            /\ msg'[o].batch \in loaded[o]
                            /\ fellBack[o] \/ front[o] >= asked[msg'[o].nr].doc.ver
                      /\ pc'[o] = "answer" /\ result[o] = "failed" => realm'[o].errors > 0
    BY <1>5 DEF Hands
  <2>1. CASE o = n
    BY <1>5, <1>7, <2>1 DEF RealmInv, RealmTypes, ConnInv, ConnTypes
  <2>2. CASE o # n
    BY <1>5, <1>6, <2>2 DEF RealmInv, RealmTypes, ConnInv, ConnTypes, Hands
  <2>3. QED
    BY <2>1, <2>2
<1>13. QED
  BY <1>6, <1>8, <1>10, <1>11, <1>12 DEF RealmInv

LEMMA RefreshStep ==
    ASSUME RealmInv, ConnInv', NEW n \in Nodes, Refresh(n)
    PROVE  RealmInv'
<1>1. /\ pc[n] = "refresh" /\ pc' = [pc EXCEPT ![n] = "answer"]
      /\ UNCHANGED <<repo, asked, inbox, msg, pinged>>
  BY DEF Refresh, world, network, Goto
<1>2. /\ repo \in Documents /\ msg \in [Nodes -> Wire] /\ result \in [Nodes -> {"ok", "failed"}]
      /\ local \in [Nodes -> Documents] /\ front \in [Nodes -> Nat]
      /\ fellBack \in [Nodes -> BOOLEAN] /\ loaded \in [Nodes -> SUBSET Int]
      /\ realm \in [Nodes -> [rows : Seq(RowType), meta : SUBSET Entries, errors : Nat]]
      /\ pc \in [Nodes -> {"loop", "stuck", "subscribe", "ping", "refresh", "answer", "dead"}]
      /\ pinged \subseteq Seconds
      /\ asked \in Seq([batch : Seconds, doc : Documents, to : Spaces])
  BY DEF RealmInv, RealmTypes, ConnInv, ConnTypes
<1>3. msg[n].nr \in 1 .. Len(asked) /\ msg[n].batch \in Int
  BY <1>1, <1>2 DEF RealmInv, Hands, Wire
<1>4. /\ local' \in [Nodes -> Documents] /\ fellBack' \in [Nodes -> BOOLEAN]
      /\ \A o \in Nodes \ {n} : fellBack'[o] = fellBack[o]
      /\ fellBack'[n] \/ local'[n].ver = repo.ver
  <2>1. CASE fellBack' = [fellBack EXCEPT ![n] = TRUE] /\ UNCHANGED local
    BY <1>2, <2>1
  <2>2. ASSUME NEW d \in {repo, [repo EXCEPT !.ok = FALSE]},
               fellBack' = [fellBack EXCEPT ![n] = FALSE], local' = [local EXCEPT ![n] = d]
        PROVE  /\ local' \in [Nodes -> Documents] /\ fellBack' \in [Nodes -> BOOLEAN]
               /\ \A o \in Nodes \ {n} : fellBack'[o] = fellBack[o]
               /\ local'[n].ver = repo.ver
    <3>1. d \in Documents /\ d.ver = repo.ver
      BY <1>2, <2>2 DEF Documents
    <3>2. QED
      BY <1>2, <2>2, <3>1
  <2>3. QED
    BY <2>1, <2>2 DEF Refresh
<1>5. local'[n].ver \in Nat
  BY <1>4 DEF Documents
<1>6. asked[msg[n].nr].doc.ver <= repo.ver
  BY <1>3 DEF RealmInv, Posted
<1>7. CASE /\ front' = [front EXCEPT ![n] = local'[n].ver]
           /\ loaded' = [loaded EXCEPT ![n] = @ \cup {msg[n].batch}]
           /\ result' = [result EXCEPT ![n] = "ok"] /\ UNCHANGED realm
  <2>1. /\ front' \in [Nodes -> Nat] /\ loaded' \in [Nodes -> SUBSET Int]
        /\ result' \in [Nodes -> {"ok", "failed"}]
        /\ \A o \in Nodes : loaded[o] \subseteq loaded'[o]
        /\ msg[n].batch \in loaded'[n] /\ front'[n] = local'[n].ver /\ result'[n] = "ok"
        /\ pc'[n] = "answer"
        /\ \A o \in Nodes \ {n} : front'[o] = front[o] /\ result'[o] = result[o]
                                  /\ loaded'[o] = loaded[o] /\ pc'[o] = pc[o]
    BY <1>1, <1>2, <1>3, <1>5, <1>7
  <2>2. RealmTypes'
    BY <1>1, <1>2, <1>4, <1>7, <2>1 DEF RealmTypes
  <2>3. Grows
    BY <1>1, <1>2, <1>7, <2>1 DEF Grows
  <2>4. Boxes'
    BY <1>1, <2>2, <2>3, BoxesGrow DEF RealmInv, Boxes
  <2>5. Databases'
    BY <1>7, <2>3, DatabasesGrow DEF RealmInv
  <2>6. Posted'
    BY <1>1 DEF RealmInv, Posted
  <2>7. fellBack'[n] \/ front'[n] >= asked[msg[n].nr].doc.ver
    BY <1>2, <1>3, <1>4, <1>6, <2>1 DEF Documents
  <2>8. Hands'
    BY <1>1, <1>3, <1>4, <1>7, <2>1, <2>7 DEF RealmInv, Hands
  <2>9. QED
    BY <2>2, <2>4, <2>5, <2>6, <2>8 DEF RealmInv
<1>8. CASE /\ result' = [result EXCEPT ![n] = "failed"]
           /\ realm' = [realm EXCEPT ![n] = LogError(realm[n])] /\ UNCHANGED <<front, loaded>>
  <2>1. PICK db : db = realm[n]
    OBVIOUS
  <2>2. PICK done : done = Known /\ done = Known'
    BY <1>1, <1>8 DEF Known
  <2>3. PICK new : new = LogError(db)
    OBVIOUS
  <2>4. /\ Tables(db) /\ RowsTrue(db, done) /\ ParamsTrue(db, n)
    BY <2>1, <2>2 DEF RealmInv, Databases
  <2>5. /\ Tables(new) /\ RowsTrue(new, done) /\ ParamsTrue(new, n)
        /\ new.errors = db.errors + 1
    BY <2>3, <2>4, LogErrorKeeps
  <2>6. /\ new \in [rows : Seq(RowType), meta : SUBSET Entries, errors : Nat]
        /\ db.errors \in Nat
    BY <2>4, <2>5, TableTypes
  <2>7. /\ realm' \in [Nodes -> [rows : Seq(RowType), meta : SUBSET Entries, errors : Nat]]
        /\ realm'[n] = new /\ \A o \in Nodes \ {n} : realm'[o] = realm[o]
        /\ result' \in [Nodes -> {"ok", "failed"}]
        /\ result'[n] = "failed" /\ \A o \in Nodes \ {n} : result'[o] = result[o]
        /\ pc'[n] = "answer" /\ \A o \in Nodes \ {n} : pc'[o] = pc[o]
    BY <1>1, <1>2, <1>8, <2>1, <2>3, <2>6
  <2>8. RealmTypes'
    BY <1>1, <1>2, <1>4, <1>8, <2>7 DEF RealmTypes
  <2>9. \A o \in Nodes : realm[o].errors <= realm'[o].errors
    <3>1. \A o \in Nodes : realm[o].errors \in Nat
      BY <1>2
    <3>2. realm[n].errors <= realm'[n].errors
      BY <2>1, <2>5, <2>6, <2>7
    <3>3. QED
      BY <2>7, <3>1, <3>2
  <2>10. Grows
    BY <1>1, <1>2, <1>8, <2>9 DEF Grows
  <2>11. Boxes'
    BY <1>1, <2>8, <2>10, BoxesGrow DEF RealmInv, Boxes
  <2>12. Databases'
    BY <1>8, <2>2, <2>5, <2>7 DEF RealmInv, Databases
  <2>13. Posted'
    BY <1>1 DEF RealmInv, Posted
  <2>14. realm'[n].errors > 0
    BY <2>5, <2>6, <2>7
  <2>15. Hands'
    BY <1>1, <1>3, <1>4, <1>8, <2>7, <2>14 DEF RealmInv, Hands
  <2>16. QED
    BY <2>8, <2>11, <2>12, <2>13, <2>15 DEF RealmInv
<1>9. QED
  BY <1>7, <1>8 DEF Refresh

LEMMA ReplyCarried ==
    ASSUME RealmInv, NEW n \in Nodes, pc[n] = "answer"
    PROVE  Reply(n) \in Carried
<1>1. /\ n \in Hosts /\ msg[n].nr \in Nat /\ msg[n].batch \in Int
      /\ "REFRESH-COMPLETE" \in Types /\ "REFRESH-FAILED" \in Types /\ ErrorText \in Int
      /\ Everyone \in Spaces \cup {Everyone}
      /\ result[n] \in {"ok", "failed"}
  BY DEF RealmInv, RealmTypes, Hosts, Wire, Types, ErrorText
<1>2. CASE result[n] = "ok"
  <2>0. PICK b \in Int, nr \in Nat, to \in Spaces \cup {Everyone} :
            b = msg[n].batch /\ nr = msg[n].nr /\ to = Everyone
    BY <1>1
  <2> DEFINE m == Own(n, "REFRESH-COMPLETE", b, to, nr)
  <2>1. /\ n \in Hosts /\ "REFRESH-COMPLETE" \in Types /\ b \in Int /\ nr \in Nat
        /\ to \in Spaces \cup {Everyone}
    BY <1>1
  <2>11. /\ m \in Wire /\ m.from = n /\ m.type = "REFRESH-COMPLETE" /\ m.batch = b
         /\ \A x \in m.params : x.name = "pid" => x.value = n
    BY <2>1, OwnMessage
  <2>12. m = Own(n, "REFRESH-COMPLETE", b, Everyone, nr)
    BY <2>0
  <2> HIDE DEF m
  <2>2. /\ m \in Wire /\ m.from = n /\ m.type = "REFRESH-COMPLETE"
        /\ m.batch = msg[n].batch /\ \A x \in m.params : x.name = "pid" => x.value = n
    BY <2>0, <2>11
  <2>3. msg[n].batch \in Known[n]
    BY <1>2 DEF RealmInv, Hands, Known
  <2>4. Reply(n) = m
    BY <1>2, <2>0, <2>12 DEF Reply
  <2>5. QED
    BY <2>2, <2>3, <2>4 DEF Carried, Enterable
<1>3. CASE result[n] = "failed"
  <2>0. PICK b \in Int, nr \in Nat, to \in Spaces \cup {Everyone} :
            b = ErrorText /\ nr = msg[n].nr /\ to = Everyone
    BY <1>1
  <2> DEFINE m == Own(n, "REFRESH-FAILED", b, to, nr)
  <2>1. /\ n \in Hosts /\ "REFRESH-FAILED" \in Types /\ b \in Int /\ nr \in Nat
        /\ to \in Spaces \cup {Everyone}
    BY <1>1
  <2>11. /\ m \in Wire /\ m.from = n /\ m.type = "REFRESH-FAILED" /\ m.batch = b
         /\ \A x \in m.params : x.name = "pid" => x.value = n
    BY <2>1, OwnMessage
  <2>12. m = Own(n, "REFRESH-FAILED", b, Everyone, nr)
    BY <2>0
  <2> HIDE DEF m
  <2>2. /\ m \in Wire /\ m.from = n /\ m.type = "REFRESH-FAILED" /\ m.batch = ErrorText
        /\ \A x \in m.params : x.name = "pid" => x.value = n
    BY <2>0, <2>11
  <2> DEFINE e == [name |-> "errors", value |-> msg[n].batch]
  <2>3. PICK r : r = WithErrors(m, msg[n].batch)
    OBVIOUS
  <2>4. r = [m EXCEPT !.params = m.params \cup {e}]
    BY <2>3 DEF WithErrors
  <2>5. e \in [name : Names, value : Hosts \cup Spaces \cup Int]
    BY <1>1 DEF Names
  <2>6. /\ r \in Wire /\ r.from = n /\ r.type = "REFRESH-FAILED" /\ r.batch = ErrorText
        /\ r.params = m.params \cup {e}
    BY <2>2, <2>4, <2>5 DEF Wire
  <2>7. /\ \A x \in r.params : x.name = "pid" => x.value = n
        /\ \E x \in r.params : x.name = "errors"
    <3>1. e.name = "errors" /\ e \in r.params
      BY <2>6
    <3>2. \A x \in r.params : x \in m.params \/ x.name = "errors"
      BY <2>6
    <3>3. QED
      BY <2>2, <3>1, <3>2
  <2>8. realm[n].errors > 0
    BY <1>3 DEF RealmInv, Hands
  <2>9. Reply(n) = r
    BY <1>3, <2>0, <2>12, <2>3 DEF Reply
  <2>10. QED
    BY <2>6, <2>7, <2>8, <2>9 DEF Carried, Enterable
<1>4. QED
  BY <1>1, <1>2, <1>3

(* What goes on the topic when a worker sends, or its connection is lost.  *)
LEMMA QuietBoxes ==
    ASSUME RealmInv, NEW n \in Nodes,
           \/ Connect(n) \/ ConnectHangs(n) \/ Subscribe(n) \/ SubscribeFails(n)
           \/ ReadFatal(n) \/ ReadNothing(n) \/ ReadEof(n) \/ Answer(n) \/ Drop(n)
    PROVE  inbox' \in [Nodes -> Seq(Carried)]
<1>1. PICK S : S = Carried
  OBVIOUS
<1>2. inbox \in [Nodes -> Seq(S)]
  BY <1>1 DEF RealmInv, Boxes
<1>3. [inbox EXCEPT ![n] = <<>>] \in [Nodes -> Seq(S)]
  BY <1>2
<1>4. n \in Hosts
  BY DEF Hosts
<1>5. CASE Connect(n) \/ ConnectHangs(n) \/ Subscribe(n) \/ ReadEof(n)
  BY <1>1, <1>2, <1>5 DEF Connect, ConnectHangs, Subscribe, ReadEof
<1>6. CASE SubscribeFails(n)
  BY <1>1, <1>3, <1>6 DEF SubscribeFails, Refused
<1>7. CASE Drop(n)
  <2>1. PICK k \in 0 .. Len(inbox[n]) :
            inbox' = [inbox EXCEPT ![n] = SubSeq(inbox[n], 1, k)]
    BY <1>7 DEF Drop
  <2>2. SubSeq(inbox[n], 1, k) \in Seq(S)
    BY <1>2
  <2>3. QED
    BY <1>1, <1>2, <2>1, <2>2
<1>8. CASE ReadFatal(n)
  <2>1. PICK m : m = Head(inbox[n])
    OBVIOUS
  <2>2. m \in S
    BY <1>2, <1>8, <2>1, PoppedFrom DEF ReadFatal
  <2>3. PICK p : p = Pong(n, m)
    OBVIOUS
  <2>4. m.type = "PING" => p \in S
    <3>1. m.type = "PING" => m.batch \in pinged /\ m.batch \in Int
      BY <1>1, <2>2 DEF Carried, Wire
    <3>2. QED
      BY <1>1, <1>4, <2>3, <3>1, PlainCarried DEF Pong
  <2>5. PICK boxes : boxes = inbox
    OBVIOUS
  <2>6. PICK more : more = Delivered(boxes, p)
    OBVIOUS
  <2>7. m.type = "PING" => more \in [Nodes -> Seq(S)]
    BY <1>2, <2>4, <2>5, <2>6, DeliveredInto
  <2>8. inbox' = [(IF m.type = "PING" THEN more ELSE boxes) EXCEPT ![n] = <<>>]
    BY <1>8, <2>1, <2>3, <2>5, <2>6 DEF ReadFatal
  <2>9. QED
    BY <1>1, <1>2, <2>5, <2>7, <2>8
<1>9. CASE ReadNothing(n)
  <2>1. PICK b \in Seconds :
            \/ inbox[n] = <<>> /\ Send(n, inbox, Own(n, "ALIVE", b, Everyone, 0))
            \/ inbox[n] # <<>> /\ Send(n, Popped(n), Own(n, "ALIVE", b, Everyone, 0))
    BY <1>9 DEF ReadNothing
  <2>2. PICK m : m = Own(n, "ALIVE", b, Everyone, 0)
    OBVIOUS
  <2>3. m \in S
    BY <1>1, <1>4, <2>2, RealmAssumption, PlainCarried
  <2>4. inbox[n] # <<>> => Popped(n) \in [Nodes -> Seq(S)]
    BY <1>2, PoppedFrom
  <2>5. PICK boxes : /\ boxes = IF inbox[n] = <<>> THEN inbox ELSE Popped(n)
    OBVIOUS
  <2>6. boxes \in [Nodes -> Seq(S)] /\ Send(n, boxes, m)
    BY <1>2, <2>1, <2>2, <2>4, <2>5
  <2>7. QED
    BY <1>1, <2>3, <2>6, SentInto
<1>10. CASE Answer(n)
  <2>1. PICK m : m = Reply(n)
    OBVIOUS
  <2>2. m \in S
    BY <1>1, <1>10, <2>1, ReplyCarried DEF Answer
  <2>3. PICK boxes : boxes = inbox
    OBVIOUS
  <2>4. Send(n, boxes, m) /\ boxes \in [Nodes -> Seq(S)]
    BY <1>2, <1>10, <2>1, <2>3 DEF Answer
  <2>5. QED
    BY <1>1, <2>2, <2>4, SentInto
<1>11. QED
  BY <1>5, <1>6, <1>7, <1>8, <1>9, <1>10

\* A PING, and the record of its id.
LEMMA AnnounceStep ==
    ASSUME RealmInv, ConnInv', NEW n \in Nodes, Announce(n)
    PROVE  RealmInv'
<1>1. PICK b \in Seconds :
          Send(n, inbox, Own(n, "PING", b, Everyone, 0)) /\ pinged' = pinged \cup {b}
  BY DEF Announce
<1>2. /\ UNCHANGED <<repo, asked, msg, result, local, front, fellBack, loaded, realm>>
      /\ pc' = [pc EXCEPT ![n] = "loop"]
  BY DEF Announce, Goto, world, config
<1>3. RealmTypes /\ pinged \subseteq Seconds /\ pinged \subseteq pinged'
      /\ pinged' \subseteq Seconds
  BY <1>1 DEF RealmInv, RealmTypes
<1>4. RealmTypes'
  BY <1>2, <1>3 DEF RealmTypes
<1>5. Grows
  BY <1>2, <1>3 DEF Grows, RealmTypes
<1>6. PICK m : m = Own(n, "PING", b, Everyone, 0)
  OBVIOUS
<1>7. /\ m \in Wire /\ m.from = n /\ m.type = "PING" /\ m.batch = b /\ m.nr = 0
      /\ \A x \in m.params : x.name = "pid" => x.value = n
  <2>1. n \in Hosts /\ "PING" \in Types /\ b \in Int
    BY RealmAssumption DEF Hosts, Types
  <2>2. QED
    BY <1>6, <2>1, OwnMessage
<1>8. m \in Carried'
  <2>1. b \in Known'[n] /\ b \in pinged'
    BY <1>1 DEF Known
  <2>2. QED
    BY <1>7, <2>1 DEF Carried, Enterable
<1>9. PICK T : T = Carried'
  OBVIOUS
<1>10. inbox \in [Nodes -> Seq(T)]
  <2>1. PICK S : S = Carried
    OBVIOUS
  <2>2. Seq(S) \subseteq Seq(T)
    BY <1>3, <1>4, <1>5, <1>9, <2>1, CarriedGrows, SeqMonotone
  <2>3. QED
    BY <2>1, <2>2 DEF RealmInv, Boxes
<1>11. inbox' \in [Nodes -> Seq(T)]
  <2>1. PICK boxes : boxes = inbox
    OBVIOUS
  <2>2. Send(n, boxes, m) /\ boxes \in [Nodes -> Seq(T)] /\ m \in T
    BY <1>1, <1>6, <1>8, <1>9, <1>10, <2>1
  <2>3. QED
    BY <2>2, SentInto
<1>12. Boxes'
  BY <1>9, <1>11 DEF Boxes
<1>13. \A o \in Nodes : pc'[o] = pc[o] \/ pc'[o] \notin {"refresh", "answer"}
  BY <1>2 DEF RealmInv, ConnInv, ConnTypes
<1>14. QED
  BY <1>2, <1>3, <1>12, <1>13, QuietStep

LEMMA RealmStep == ASSUME RealmInv, [Next]_vars PROVE RealmInv'
<1>0. ConnInv' /\ ConnTypes
  BY ConnStep DEF RealmInv, ConnInv
<1>1. CASE CheckIn
  BY <1>0, <1>1, CheckInStep
<1>2. ASSUME NEW s \in Spaces, SendRefresh(s) PROVE RealmInv'
  BY <1>0, <1>2, SendRefreshStep
<1>3. CASE TestMessageBroker
  <2>1. PICK S : S = Carried
    OBVIOUS
  <2>2. PICK b \in Seconds : inbox' = Delivered(inbox, Own(Console, "ALIVE", b, Everyone, 0))
    BY <1>3 DEF TestMessageBroker
  <2>3. PICK m : m = Own(Console, "ALIVE", b, Everyone, 0)
    OBVIOUS
  <2>4. PICK boxes : boxes = inbox
    OBVIOUS
  <2>5. m \in S /\ boxes \in [Nodes -> Seq(S)]
    BY <2>1, <2>3, <2>4, RealmAssumption, PlainCarried DEF Hosts, RealmInv, Boxes
  <2>6. Delivered(boxes, m) \in [Nodes -> Seq(S)]
    BY <2>5, DeliveredInto
  <2>7. inbox' \in [Nodes -> Seq(Carried)]
    BY <2>1, <2>2, <2>3, <2>4, <2>6
  <2>8. UNCHANGED <<repo, asked, pc, msg, result, local, front, fellBack, loaded, pinged, realm>>
    BY <1>3 DEF TestMessageBroker, world, worker, config
  <2>9. pinged' \subseteq Seconds
    BY <2>8 DEF RealmInv, RealmTypes
  <2>10. QED
    BY <1>0, <2>7, <2>8, <2>9, QuietStep
<1>4. ASSUME NEW n \in Nodes,
             \/ Connect(n) \/ ConnectHangs(n) \/ Subscribe(n) \/ SubscribeFails(n)
             \/ ReadFatal(n) \/ ReadNothing(n) \/ ReadEof(n) \/ Answer(n) \/ Drop(n)
      PROVE  RealmInv'
  <2>1. inbox' \in [Nodes -> Seq(Carried)]
    BY <1>4, QuietBoxes
  <2>2. /\ UNCHANGED <<repo, asked, msg, result, local, front, fellBack, loaded, pinged, realm>>
        /\ pc' = pc \/ \E l \in {"loop", "stuck", "subscribe", "ping", "dead"} :
                          pc' = [pc EXCEPT ![n] = l]
    BY <1>4 DEF Connect, ConnectHangs, Subscribe, SubscribeFails, ReadFatal, ReadNothing,
       ReadEof, Answer, Drop, Goto, world, worker, config, history
  <2>3. \A o \in Nodes : pc'[o] = pc[o] \/ pc'[o] \notin {"refresh", "answer"}
    BY <1>0, <2>2 DEF ConnTypes
  <2>4. pinged' \subseteq Seconds
    BY <2>2 DEF RealmInv, RealmTypes
  <2>5. QED
    BY <1>0, <2>1, <2>2, <2>3, <2>4, QuietStep
<1>5. ASSUME NEW n \in Nodes, ReadOther(n) \/ ReadPing(n) \/ Announce(n) PROVE RealmInv'
  BY <1>0, <1>5, ReadStep, AnnounceStep
<1>6. ASSUME NEW n \in Nodes, ReadRefresh(n) PROVE RealmInv'
  BY <1>0, <1>6, ReadRefreshStep
<1>7. ASSUME NEW n \in Nodes, Refresh(n) PROVE RealmInv'
  BY <1>0, <1>7, RefreshStep
<1>8. CASE UNCHANGED vars
  <2>1. inbox' \in [Nodes -> Seq(Carried)]
    BY <1>8 DEF vars, network, RealmInv, Boxes
  <2>2. UNCHANGED <<repo, asked, pc, msg, result, local, front, fellBack, loaded, pinged, realm>>
    BY <1>8 DEF vars, world, worker, config, history
  <2>3. pinged' \subseteq Seconds
    BY <2>2 DEF RealmInv, RealmTypes
  <2>4. QED
    BY <1>0, <2>1, <2>2, <2>3, QuietStep
<1>9. QED
  BY <1>1, <1>2, <1>3, <1>4, <1>5, <1>6, <1>7, <1>8 DEF Next, Worker

(* A row that shows a batch as completed by a node is right, but for the   *)
(* ids of PINGs, in the database of every node (dbcore_registerMessage).   *)
THEOREM RowsTellTruth == Spec => []RealmTellsTruth
<1>1. Init => RealmInv
  BY RealmInit
<1>2. RealmInv /\ [Next]_vars => RealmInv'
  BY RealmStep
<1>3. RealmInv => RealmTellsTruth
  <2> SUFFICES ASSUME RealmInv, NEW n \in Nodes, NEW row \in ToSet(realm[n].rows),
                      row.host \in Nodes, row.refresh = "complete"
               PROVE  row.batch \in loaded[row.host] \cup pinged
    BY DEF RealmTellsTruth
  <2>1. PICK i \in DOMAIN realm[n].rows : row = realm[n].rows[i]
    BY DEF ToSet
  <2>2. row.batch \in Known[row.host]
    BY <2>1 DEF RealmInv, Databases, RowsTrue
  <2>3. QED
    BY <2>2 DEF Known
<1>4. QED
  BY <1>1, <1>2, <1>3, PTL DEF Spec

(* A host has one row, the parameters under it are its own, and a failure  *)
(* that a row shows has its errors (dbcore_registerMessageParams).         *)
THEOREM ParamsAreTheirs == Spec => []ParamsWithNode
<1>1. Init => RealmInv
  BY RealmInit
<1>2. RealmInv /\ [Next]_vars => RealmInv'
  BY RealmStep
<1>3. RealmInv => ParamsWithNode
  BY DEF RealmInv, Databases, Tables, ParamsTrue, IdsOf, ParamsWithNode
<1>4. QED
  BY <1>1, <1>2, <1>3, PTL DEF Spec

(* A REFRESH-COMPLETE is sent only by a node that serves what the REFRESH  *)
(* was sent for, or what is newer, unless its download failed              *)
(* (cc_handleMessageRecieved).                                             *)
THEOREM CompletionsAreTrue == Spec => CompleteMeansLoaded
<1>1. Init => RealmInv
  BY RealmInit
<1>2. RealmInv /\ [Next]_vars => RealmInv'
  BY RealmStep
<1>3. RealmInv =>
        [\A n \in Nodes : Answer(n) /\ Reply(n).type = "REFRESH-COMPLETE" =>
            fellBack[n] \/ front[n] >= asked[msg[n].nr].doc.ver]_vars
  <2> SUFFICES ASSUME RealmInv, NEW n \in Nodes, Answer(n),
                      Reply(n).type = "REFRESH-COMPLETE"
               PROVE  fellBack[n] \/ front[n] >= asked[msg[n].nr].doc.ver
    OBVIOUS
  <2>1. pc[n] = "answer"
    BY DEF Answer
  <2>2. result[n] = "ok"
    BY DEF Reply, WithErrors, Own, Message
  <2>3. QED
    BY <2>1, <2>2 DEF RealmInv, Hands
<1>4. QED
  BY <1>1, <1>2, <1>3, PTL DEF Spec, CompleteMeansLoaded
=============================================================================
