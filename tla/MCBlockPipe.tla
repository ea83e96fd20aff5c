---------------------------- MODULE MCBlockPipe -----------------------------
(* Small instances of BlockPipe, and of BlockInput in it, for TLC.         *)
EXTENDS BlockPipe

H == [kind |-> "header", version |-> 1]
H0 == [kind |-> "header", version |-> 0]
A == [kind |-> "chunk", bytes |-> 8, data |-> <<1, 2, 3>>]
B == [kind |-> "chunk", bytes |-> 7, data |-> <<4, 5>>]
Empty == [kind |-> "chunk", bytes |-> 5, data |-> << >>]
Corrupt == [kind |-> "chunk", bytes |-> 7, data |-> NULL]
BadMagic == [kind |-> "badMagic"]
BadSize == [kind |-> "badSize"]
Raw == [kind |-> "raw", bytes |-> 20, data |-> <<6, 7>>]
ShortRaw == [kind |-> "raw", bytes |-> 4, data |-> <<8, 9>>]
RawCorrupt == [kind |-> "raw", bytes |-> 6, data |-> NULL]

\* Whole, concatenated, damaged and headerless streams.
AllStreams ==
    {<< >>, <<Raw>>, <<ShortRaw>>, <<RawCorrupt>>, <<BadMagic>>, <<A>>,
     <<H>>, <<H, A>>, <<H, A, B>>, <<H, A, H, B>>, <<H, Empty, B>>, <<H, A, H, H, Empty>>,
     <<H, A, Corrupt, B>>, <<H, A, BadMagic, B>>, <<H, BadSize, B>>, <<H, A, H0, B>>}
\* One size per length is enough: the reader is given blocks of any size.
OneSize(n) == {n + 2}
=============================================================================
