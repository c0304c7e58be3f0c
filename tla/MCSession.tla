----------------------------- MODULE MCSession -----------------------------
(* A small instance of Session: the first worker sends on two mailboxes, the *)
(* second receives from one, every other worker from the other.              *)
EXTENDS Session

MCInboxes  == [w \in Workers |-> IF w = 1 THEN {} ELSE IF w = 2 THEN {"a"} ELSE {"b"}]
MCOutboxes == [w \in Workers |-> IF w = 1 THEN {"a", "b"} ELSE {}]

============================================================================
