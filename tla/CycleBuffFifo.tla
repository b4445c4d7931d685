--------------------------- MODULE CycleBuffFifo ---------------------------
(***************************************************************************)
(* The circular buffer implements TrialFifo: the queue is what lies        *)
(* between out and in, whichever way the counters and the slots wrap.      *)
(***************************************************************************)
EXTENDS CycleBuff

\* The n bytes from out on.
Held(n) == [k \in 1 .. n |-> data[Masked(Plus(out, k - 1))]]

held == Held(buff_dlen)
room == IF len = 0 THEN 0 ELSE CBUFFLEN - 1

\* Where trial is in the queue, -1 when it is not in it.
cursor == IF stray THEN -1 ELSE buff_trylen

Fifo == INSTANCE TrialFifo WITH
            Capacity <- CBUFFLEN - 1,
            cap      <- room,
            queue    <- held,
            tried    <- cursor

(***************************************************************************)
(* Every operation of buff.c is an operation of a bounded queue: bytes     *)
(* come out in the order and with the values they went in, whatever the    *)
(* start value given to buff_init, wherever a copy is split, and wherever  *)
(* trial is when buff_outb takes bytes that were not tried.                *)
(***************************************************************************)
ImplementsFifo == Fifo!Spec
=============================================================================
