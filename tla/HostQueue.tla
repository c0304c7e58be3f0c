----------------------------- MODULE HostQueue -----------------------------
(* The blocking queue of host_queue.c between any number of senders and    *)
(* one receiver, bound to a channel.  What a thread does between two       *)
(* acquisitions of the queue's mutex is one action; a signal wakes one     *)
(* sleeper of the caller's choice, and any sleeper may wake by itself.     *)
EXTENDS Naturals, Sequences

CONSTANTS Senders,
          Lens,     \* lengths of frames
          MaxLens,  \* lengths of the buffers the receiver offers
          MaxBytes, \* max_bytes; 0 for a queue without bound
          Wrap,     \* 2^32, where cur_bytes + len wraps
          MaxQueued \* bound of the model: frames in the queue

VARIABLES queue, \* the lengths of the queued frames, head first
          bytes, \* cur_bytes
          bound, \* the channel leads to the queue
          ps,    \* senders: 0 when idle or finished, else the frame to send
          asleep, \* the threads that sleep: senders, and "receiver"
          failed \* history: a sender found no memory

vars == <<queue, bytes, bound, ps, asleep, failed>>

Receiver == "receiver"

Init ==
  /\ queue = <<>> /\ bytes = 0 /\ bound = FALSE
  /\ ps = [s \in Senders |-> 0]
  /\ asleep = {} /\ failed = FALSE

\* A pointer fetched from the channel table stays good while the queue lives.
Bind == bound' = ~bound /\ UNCHANGED <<queue, bytes, ps, asleep, failed>>

\* host_cond_signal
Signal(S) ==
  IF asleep \cap S = {} THEN asleep' = asleep
  ELSE \E t \in asleep \cap S : asleep' = asleep \ {t}

\* Seeded fault: the first frame is not let in whatever its length.
FaultyFull(len) == MaxBytes > 0 /\ (bytes + len) % Wrap > MaxBytes

Full(len) == MaxBytes > 0 /\ (bytes + len) % Wrap > MaxBytes /\ queue # <<>>

\* host_send: the look into the table, and then host_queue_send.
CallSend(s, len) ==
  /\ bound /\ ps[s] = 0
  /\ ps' = [ps EXCEPT ![s] = len]
  /\ UNCHANGED <<queue, bytes, bound, asleep, failed>>

\* host_queue_send blocks; the look and the sleep are one step under the mutex.
SendWaits(s) ==
  /\ ps[s] # 0 /\ s \notin asleep
  /\ Full(ps[s])
  /\ asleep' = asleep \cup {s}
  /\ UNCHANGED <<queue, bytes, bound, ps, failed>>

Send(s) ==
  /\ ps[s] # 0 /\ s \notin asleep
  /\ ~Full(ps[s]) /\ Len(queue) < MaxQueued
  /\ queue' = Append(queue, ps[s])
  /\ bytes' = (bytes + ps[s]) % Wrap
  /\ ps' = [ps EXCEPT ![s] = 0]
  /\ Signal({Receiver})
  /\ UNCHANGED <<bound, failed>>

\* malloc answers NULL.
SendFails(s) ==
  /\ ps[s] # 0 /\ s \notin asleep
  /\ ~Full(ps[s])
  /\ ps' = [ps EXCEPT ![s] = 0]
  /\ failed' = TRUE
  /\ UNCHANGED <<queue, bytes, bound, asleep>>

RecvWaits ==
  /\ Receiver \notin asleep
  /\ queue = <<>>
  /\ asleep' = asleep \cup {Receiver}
  /\ UNCHANGED <<queue, bytes, bound, ps, failed>>

\* A frame that is longer than the buffer stays where it is.
Recv(max) ==
  /\ Receiver \notin asleep
  /\ queue # <<>> /\ Head(queue) <= max
  /\ queue' = Tail(queue)
  /\ bytes' = (bytes + Wrap - Head(queue)) % Wrap
  /\ Signal(Senders)
  /\ UNCHANGED <<bound, ps, failed>>

Spurious(t) == asleep' = asleep \ {t} /\ UNCHANGED <<queue, bytes, bound, ps, failed>>

Next ==
  \/ Bind
  \/ \E s \in Senders :
       (\E len \in Lens : CallSend(s, len)) \/ SendWaits(s) \/ Send(s) \/ SendFails(s)
  \/ RecvWaits
  \/ \E max \in MaxLens : Recv(max)
  \/ \E t \in asleep : Spurious(t)

Spec == Init /\ [][Next]_vars

----------------------------------------------------------------------------
\* Nobody sleeps through its cue: the receiver sleeps on an empty queue only,
\* and while senders sleep there is a frame whose receipt will wake one, or one
\* of those that woke has yet to look (host_queue.c:114, 148, 176).  A sender
\* that finds no memory takes its cue with it.
NobodyStranded ==
  ~failed =>
    /\ Receiver \in asleep => queue = <<>>
    /\ (asleep \cap Senders # {} /\ queue = <<>>)
         => \E s \in Senders \ asleep : ps[s] # 0

============================================================================
