-------------------------------- MODULE Fifo --------------------------------
(***************************************************************************)
(* What a pipe promises: bytes come out in the order in which they went    *)
(* in, each at most once, never more than CAPACITY of them are under way,  *)
(* and each end is closed once.                                            *)
(***************************************************************************)
EXTENDS Naturals, Sequences

CONSTANTS Byte, CAPACITY

VARIABLES queue, readend, writeend

fifovars == <<queue, readend, writeend>>

FifoInit == queue = << >> /\ readend = TRUE /\ writeend = TRUE

Put(b) ==
  /\ writeend
  /\ Len(queue) < CAPACITY
  /\ queue' = Append(queue, b)
  /\ UNCHANGED <<readend, writeend>>

Get ==
  /\ readend
  /\ queue # << >>
  /\ queue' = Tail(queue)
  /\ UNCHANGED <<readend, writeend>>

CloseRead == readend /\ readend' = FALSE /\ UNCHANGED <<queue, writeend>>

CloseWrite == writeend /\ writeend' = FALSE /\ UNCHANGED <<queue, readend>>

FifoNext == (\E b \in Byte : Put(b)) \/ Get \/ CloseRead \/ CloseWrite

FifoSpec == FifoInit /\ [][FifoNext]_fifovars
=============================================================================
