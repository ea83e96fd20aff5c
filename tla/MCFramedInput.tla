--------------------------- MODULE MCFramedInput ---------------------------
(* A small instance of FramedInput for TLC: one stream whose second frame  *)
(* is longer than the first input buffer.                                  *)
EXTENDS FramedInput

Data(n, d) == [kind |-> "raw", length |-> n, data |-> d, crcOk |-> TRUE]
LongStream == {<<[kind |-> "id"], Data(6, <<1, 2>>), Data(9, <<8, 9, 10, 11, 12>>)>>}

\* In place of 32 + n + n / 6: some room above n.
LittleMore(n) == n + 1
=============================================================================
