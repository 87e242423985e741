---------------------------- MODULE RealmDatabase ----------------------------
(***************************************************************************)
(* The realm database of one node: remote_nodes, node_meta and error_logs, *)
(* and what registering a message of a host writes into them.  A row's id  *)
(* is its place in rows; nothing deletes one.                              *)
(*                                                                         *)
(* Abstractions: a host stands for its name, namespace and component; the  *)
(* addresses, versions and times of a row are left out, as are msg_history *)
(* and the notices, which nothing writes, and the template of a parameter, *)
(* which no sender of the repository asks for.                             *)
(***************************************************************************)
EXTENDS Integers, Sequences, FiniteSets

NoId == -1   \* the id that stands for no row

\* The tables: remote_nodes, node_meta (at most one value of a name under an
\* id) and error_logs.
IsDatabase(db, hosts) ==
    /\ db.rows \in Seq([host : hosts, batch : Int,
                        refresh : {"none", "complete", "failed"}])
    /\ \A e \in db.meta : e.id \in {NoId} \cup DOMAIN db.rows
    /\ \A e, f \in db.meta : e.id = f.id /\ e.name = f.name => e = f
    /\ db.errors \in Nat

\* dbcore_initializeRealmDatabase: every table is dropped and made again.
EmptyDatabase == [rows |-> <<>>, meta |-> {}, errors |-> 0]

IdsOf(db, host) == {i \in DOMAIN db.rows : db.rows[i].host = host}

\* Mutant: the host is left out of the condition.
IdOf_AnyHost(db, host) ==
    IF db.rows = <<>> THEN NoId ELSE Len(db.rows)

IdOf(db, host) ==
    IF IdsOf(db, host) = {} THEN NoId
    ELSE CHOOSE i \in IdsOf(db, host) : \A j \in IdsOf(db, host) : j <= i

Inserted(db, m) ==
    [db EXCEPT !.rows =
        Append(@, [host |-> m.from, batch |-> m.batch, refresh |-> "none"])]

\* An ALIVE leaves the batch id of a known host alone.
Updated(db, id, m) ==
    IF m.type = "ALIVE" THEN db ELSE [db EXCEPT !.rows[id].batch = m.batch]

\* dbcore_registerMessageParams: each name is deleted and inserted again.
WithParams(db, id, params) ==
    [db EXCEPT !.meta =
        {e \in @ : e.id # id \/ \A x \in params : e.name # x.name} \cup
        {[id |-> id, name |-> x.name, value |-> x.value] : x \in params}]

WithRefresh(db, host, state) ==
    [db EXCEPT !.rows = [i \in DOMAIN @ |->
        IF i \in IdsOf(db, host) THEN [@[i] EXCEPT !.refresh = state] ELSE @[i]]]

\* dbcore_registerMessage.  The id of a row that is inserted is not read back.
RegisterMessage(db, m) ==
    LET id == IdOf(db, m.from)
        stored == IF id = NoId THEN Inserted(db, m) ELSE Updated(db, id, m)
        kept == WithParams(stored, id, m.params)
    IN CASE m.type = "REFRESH-COMPLETE" -> WithRefresh(kept, m.from, "complete")
         [] m.type = "REFRESH-FAILED" -> WithRefresh(kept, m.from, "failed")
         [] OTHER -> kept

\* dbcore_logError.
LogError(db) == [db EXCEPT !.errors = @ + 1]
=============================================================================
