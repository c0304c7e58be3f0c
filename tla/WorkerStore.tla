---------------------------- MODULE WorkerStore ----------------------------
(* The one database of a session as its workers reach it: every call of a  *)
(* worker is checked against the worker's own table of transactions        *)
(* (orchestration_runtime.c:2594-2897), made under store_mutex, and the    *)
(* table is changed after the mutex is given up.  The control thread reads *)
(* with a transaction of its own (session_get).                            *)
EXTENDS StoreRuntime, SequencesExt

CONSTANTS Workers,
          TableSize \* CROFT_ORCH_MAX_TXNS_PER_WORKER

VARIABLES policy, \* each worker's txns
          doing,  \* each worker's call that has left the mutex, or Idle
          getting \* the control thread's transaction in session_get, 0 if none

workerVars == <<dbs, txns, opens, policy, doing, getting>>

Idle == <<"idle">>
Control == "control"
Db == 1

\* croft_orch_launch_session has opened the database.
Init ==
  /\ dbs = <<1>> /\ txns = <<>> /\ opens = 1
  /\ policy = [w \in Workers |-> <<>>]
  /\ doing = [w \in Workers |-> Idle]
  /\ getting = 0

HasTxn(w, t) == t \in ToSet(policy[w])

WorkerBegin(w, ro) ==
  /\ doing[w] = Idle
  /\ Begin(Db, ro, w)
  /\ doing' = [doing EXCEPT ![w] = <<"begun", Vacant(txns, NoTxn)>>]
  /\ UNCHANGED <<policy, getting>>

\* A full table refuses the handle, and the transaction stays open: nobody
\* knows its number.
AddTxn(w) ==
  /\ doing[w][1] = "begun"
  /\ policy' = IF Len(policy[w]) < TableSize
               THEN [policy EXCEPT ![w] = Append(@, doing[w][2])] ELSE policy
  /\ doing' = [doing EXCEPT ![w] = Idle]
  /\ UNCHANGED <<dbs, txns, opens, getting>>

\* Seeded fault: the table is left as it was.
FaultyWorkerSettle(w, t) ==
  /\ doing[w] = Idle /\ HasTxn(w, t)
  /\ Settle(t)
  /\ UNCHANGED <<policy, doing, getting>>

WorkerSettle(w, t) ==
  /\ doing[w] = Idle /\ HasTxn(w, t)
  /\ Settle(t)
  /\ doing' = [doing EXCEPT ![w] = <<"settled", t>>]
  /\ UNCHANGED <<policy, getting>>

WorkerCommit(w, t) == WorkerSettle(w, t)
WorkerAbort(w, t) == WorkerSettle(w, t)

RemoveTxn(w) ==
  /\ doing[w][1] = "settled"
  /\ policy' = [policy EXCEPT ![w] = RemoveFirst(@, doing[w][2])]
  /\ doing' = [doing EXCEPT ![w] = Idle]
  /\ UNCHANGED <<dbs, txns, opens, getting>>

GetBegin ==
  /\ getting = 0
  /\ Begin(Db, TRUE, Control)
  /\ getting' = Vacant(txns, NoTxn)
  /\ UNCHANGED <<policy, doing>>

GetEnd ==
  /\ getting # 0
  /\ Abort(getting)
  /\ getting' = 0
  /\ UNCHANGED <<policy, doing>>

\* No memory for the value: session_get returns without its abort.
GetForgets ==
  /\ getting # 0
  /\ getting' = 0
  /\ UNCHANGED <<dbs, txns, opens, policy, doing>>

Next ==
  \/ \E w \in Workers :
       \/ \E ro \in BOOLEAN : WorkerBegin(w, ro)
       \/ AddTxn(w)
       \/ \E t \in DOMAIN txns : WorkerCommit(w, t) \/ WorkerAbort(w, t)
       \/ RemoveTxn(w)
  \/ GetBegin \/ GetEnd \/ GetForgets

Spec == Init /\ [][Next]_workerVars

----------------------------------------------------------------------------
\* What a worker's table admits is the worker's own: though numbers are used
\* again by other workers while a call is between the store and the table, no
\* call of a worker ever reaches a transaction that another began
\* (orchestration_runtime.c:2764, 2799, 2833).
NobodyElsesTxn ==
  \A w \in Workers, t \in DOMAIN txns :
    HasTxn(w, t) /\ doing[w] # <<"settled", t>> => TxnLive(t) /\ txns[t].by = w

============================================================================
