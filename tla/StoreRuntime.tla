---------------------------- MODULE StoreRuntime ----------------------------
(* The store behind the WIT interface (wit_store_runtime.c): databases and *)
(* transactions under small numbers that are used again.  A number carries *)
(* no generation: whoever holds the number of a transaction that has ended *)
(* holds that of the next one put there.  What a database stores is the    *)
(* subject of SnapshotStore.                                               *)
EXTENDS Naturals, Sequences, FiniteSets

CONSTANTS Clients,   \* who calls
          MaxDbs,    \* bound of the model: slots for databases
          MaxTxns,   \* bound of the model: slots for transactions
          MaxOpens   \* bound of the model: databases opened in all

VARIABLES dbs,  \* db_slots: the database in each slot, 0 for none
          txns, \* txn_slots: the transaction in each slot, or NoTxn
          opens \* history: databases opened so far; names the next

storeVars == <<dbs, txns, opens>>

NoTxn == [db |-> 0]

\* A transaction knows its database; the slot knows the handle it came by.
Txn(db, handle, ro, by) == [db |-> db, handle |-> handle, ro |-> ro, by |-> by]

StoreInit == dbs = <<>> /\ txns = <<>> /\ opens = 0

\* The first free slot, or one more.
Vacant(slots, none) ==
  LET free == {i \in 1 .. Len(slots) + 1 : i <= Len(slots) => slots[i] = none}
  IN  CHOOSE i \in free : \A j \in free : i <= j

Inserted(slots, i, x) ==
  IF i <= Len(slots) THEN [slots EXCEPT ![i] = x] ELSE Append(slots, x)

DbOpen(h) == h \in DOMAIN dbs /\ dbs[h] # 0
TxnLive(h) == h \in DOMAIN txns /\ txns[h] # NoTxn
LiveTxns == {h \in DOMAIN txns : txns[h] # NoTxn}

\* croft_wit_db_has_live_txn
HasLiveTxn(h) == \E t \in LiveTxns : txns[t].handle = h

\* sap_txn_begin refuses a second writer.
WriterOpen(db) == \E t \in LiveTxns : txns[t].db = db /\ ~txns[t].ro

Open ==
  /\ opens < MaxOpens /\ Vacant(dbs, 0) <= MaxDbs
  /\ opens' = opens + 1
  /\ dbs' = Inserted(dbs, Vacant(dbs, 0), opens')
  /\ UNCHANGED txns

Drop(h) ==
  /\ DbOpen(h) /\ ~HasLiveTxn(h)
  /\ dbs' = [dbs EXCEPT ![h] = 0]
  /\ UNCHANGED <<txns, opens>>

\* An insertion that finds no memory aborts the new transaction: no change.
Begin(h, ro, by) ==
  /\ DbOpen(h)
  /\ ro \/ ~WriterOpen(dbs[h])
  /\ Vacant(txns, NoTxn) <= MaxTxns
  /\ txns' = Inserted(txns, Vacant(txns, NoTxn), Txn(dbs[h], h, ro, by))
  /\ UNCHANGED <<dbs, opens>>

\* The commit of a top-level transaction of a database cannot fail.
Settle(t) ==
  /\ TxnLive(t)
  /\ txns' = [txns EXCEPT ![t] = NoTxn]
  /\ UNCHANGED <<dbs, opens>>

Commit(t) == Settle(t)
Abort(t) == Settle(t)

\* croft_wit_store_runtime_destroy: transactions first, then databases.
Destroy == dbs # <<>> /\ dbs' = <<>> /\ txns' = <<>> /\ UNCHANGED opens

StoreNext ==
  \/ Open
  \/ \E h \in DOMAIN dbs : Drop(h)
  \/ \E h \in DOMAIN dbs, ro \in BOOLEAN, by \in Clients : Begin(h, ro, by)
  \/ \E t \in DOMAIN txns : Commit(t) \/ Abort(t)
  \/ Destroy

StoreSpec == StoreInit /\ [][StoreNext]_storeVars

----------------------------------------------------------------------------
\* No transaction outlives its database, though handles of both are used
\* again, and none finds another database under its handle; a database has
\* one writer (wit_store_runtime.c:452-468, 494).
TxnsKeepTheirDb ==
  /\ \A t \in LiveTxns : DbOpen(txns[t].handle) /\ dbs[txns[t].handle] = txns[t].db
  /\ \A s, t \in LiveTxns :
       txns[s].db = txns[t].db /\ ~txns[s].ro /\ ~txns[t].ro => s = t

============================================================================
