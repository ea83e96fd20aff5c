---------------------------- MODULE MCFramedPipe ----------------------------
(* Small instances of FramedPipe, and of FramedInput in it, for TLC.       *)
EXTENDS FramedPipe

Id == [kind |-> "id"]
Skip == [kind |-> "skip", length |-> 2]
Bad == [kind |-> "bad"]
Data(k, n, d, ok) == [kind |-> k, length |-> n, data |-> d, crcOk |-> ok]
Raw == Data("raw", 6, <<1, 2>>, TRUE)
Packed == Data("compressed", 7, <<3, 4, 5>>, TRUE)
WrongSum == Data("raw", 6, <<6, 7>>, FALSE)
Corrupt == Data("compressed", 6, NULL, TRUE)
\* Longer than the first input buffer ...
Long == Data("raw", 9, <<8, 9, 10, 11, 12>>, TRUE)
\* ... and with more data than the buffer for uncompressed data.
Dense == Data("compressed", 7, [i \in 1..10 |-> 12 + i], TRUE)

\* In place of 32 + n + n / 6: some room above n.
LittleMore(n) == n + 1

\* Whole, concatenated, damaged and skipped frames; the last three make the
\* buffers grow while reading.
AllStreams ==
    {<< >>, <<Id>>, <<Raw>>, <<Id, Raw>>, <<Id, Packed, Raw>>, <<Id, Skip, Raw>>,
     <<Id, Raw, Id, Packed>>, <<Id, Raw, Skip>>,
     <<Id, Bad, Raw>>, <<Id, WrongSum, Raw>>, <<Id, Corrupt, Packed>>,
     <<Id, Raw, Long>>, <<Id, Packed, Dense>>, <<Id, Long, Dense>>}
=============================================================================
