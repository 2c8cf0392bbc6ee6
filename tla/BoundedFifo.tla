----------------------------- MODULE BoundedFifo -----------------------------
(***************************************************************************)
(* What a message queue promises to the threads that use it: messages come *)
(* out once each, in the order in which they went in, and never more than  *)
(* Size of them are inside.  An operation that was asked not to wait may   *)
(* be refused, but only when the queue is empty (receiving) or full        *)
(* (sending) at that very moment.                                          *)
(***************************************************************************)
EXTENDS Naturals, Sequences

CONSTANTS Senders,    \* threads that send
          Receivers,  \* threads that receive
          Messages,   \* the messages they exchange
          NULL,       \* "no message": what a refused receive returns
          Size        \* capacity of the queue

VARIABLES fifo,       \* the messages inside, oldest first
          got,        \* got[r]: what receiver r's last receive returned
          sent        \* sent[s]: whether sender s's last send was accepted

fifoVars == <<fifo, got, sent>>

FifoInit ==
    /\ fifo = <<>>
    /\ got = [r \in Receivers |-> NULL]
    /\ sent = [s \in Senders |-> FALSE]

Put(s) ==
    /\ Len(fifo) < Size
    /\ \E m \in Messages : fifo' = Append(fifo, m)
    /\ sent' = [sent EXCEPT ![s] = TRUE]
    /\ UNCHANGED got

RefusePut(s) ==
    /\ Len(fifo) = Size
    /\ sent' = [sent EXCEPT ![s] = FALSE]
    /\ UNCHANGED <<fifo, got>>

Take(r) ==
    /\ fifo # <<>>
    /\ got' = [got EXCEPT ![r] = Head(fifo)]
    /\ fifo' = Tail(fifo)
    /\ UNCHANGED sent

RefuseTake(r) ==
    /\ fifo = <<>>
    /\ got' = [got EXCEPT ![r] = NULL]
    /\ UNCHANGED <<fifo, sent>>

FifoNext ==
    \/ \E s \in Senders : Put(s) \/ RefusePut(s)
    \/ \E r \in Receivers : Take(r) \/ RefuseTake(r)

FifoSpec == FifoInit /\ [][FifoNext]_fifoVars
=============================================================================
