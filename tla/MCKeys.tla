------------------------------- MODULE MCKeys -------------------------------
(* A small instance of Keys for TLC. *)
EXTENDS Keys

Config(ivls) == [dataDir |-> TRUE, processor |-> TRUE, partitions |-> 2, intervals |-> ivls]

\* Sequences of up to three intervals around a second and around the highest interval,
\* sorted or not, of whole and half seconds.
SomeConfigs ==
    {Config(<<a>>) : a \in 1 .. 8} \cup {Config(<<a, b>>) : a, b \in 1 .. 8}
       \cup {Config(<<2, b, c>>) : b, c \in 1 .. 8}
       \cup {[Config(<<2>>) EXCEPT !.partitions = 0], [Config(<<2>>) EXCEPT !.dataDir = FALSE],
             [Config(<<2>>) EXCEPT !.processor = FALSE], Config(<<>>)}
=============================================================================
