----------------------------- MODULE MemoryFifo -----------------------------
(***************************************************************************)
(* What F_i_Memory_Data_Push and F_v_Memory_Data_Pop promise together:     *)
(* whole messages come out, once each, in the order in which they went in. *)
(* A push may be refused.  Once the memory is broken nothing is promised.  *)
(***************************************************************************)
EXTENDS Naturals, Sequences

CONSTANT Items
VARIABLES
  fifo,     \* the messages inside
  popped,   \* the last message taken out
  broken    \* nothing is promised any more

FifoInit == fifo = <<>> /\ popped = <<>> /\ broken = FALSE

Put == \E x \in Items : fifo' = Append(fifo, x) /\ UNCHANGED popped
Take == fifo # <<>> /\ popped' = Head(fifo) /\ fifo' = Tail(fifo)

FifoNext == broken' \/ (~broken' /\ ~broken /\ (Put \/ Take))

FifoSpec == FifoInit /\ [][FifoNext]_<<fifo, popped, broken>>
=============================================================================
