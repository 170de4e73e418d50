---------------------------- MODULE MCAcquisition ----------------------------
(***************************************************************************)
(* Instances of Acquisition for TLC.                                       *)
(***************************************************************************)
EXTENDS Acquisition

\* The least word and the greatest (less than 0 % of humidity, and more than
\* 100 %), and one for -0.05 degrees.
SomeWords == {0, 17458, 65535}
TwoWords  == {0, 65535}

\* Every bit alone, pairs of bits near and far, and bursts of up to eight.
SomeErrors ==
  {{k} : k \in FrameBits}
    \cup {{k, k + d} : k \in {0, 7, 12}, d \in {1, 3, 11}}
    \cup {k .. k + n : k \in {0, 5, 16}, n \in {2, 7}}
OneError == {{3, 9}}

SomeSerial == [a |-> 40961, b |-> <<0, 1, 128, 255>>, c |-> 513]

\* Clear every bit that may be written, and set all.
SomeRegValues == {{}, RegBits}

\* One reserved bit that changes on the way, and two others.
SomeRegErrors == {{4}, {0, 5}}

\* The example of application note AN3785, and what can arrive of it: all,
\* without c12, with the low byte of b1 lost, and an idle line, all ones.
ExampleCal     == [a0 |-> 16078, b1 |-> -19463, b2 |-> -15081, c12 |-> 13256]
SomeCalAnswers == {ExampleCal, [ExampleCal EXCEPT !.c12 = 0], [ExampleCal EXCEPT !.b1 = -19712],
                   [a0 |-> -1, b1 |-> -1, b2 |-> -1, c12 |-> -1]}
SomeSamples    == {[padc |-> 410, tadc |-> 507]}
SomeBadSamples == {[padc |-> 1023, tadc |-> 1023]}

SomeColors == {[red |-> 4660, green |-> 65535, blue |-> 256, clear |-> 32768],
               [red |-> 255, green |-> 0, blue |-> 1, clear |-> 43981]}
SomeBadColors == {[red |-> 65535, green |-> 65535, blue |-> 65535, clear |-> 65535]}
SomeTime == [month |-> 12, day |-> 31, hour |-> 23, min |-> 59]
=============================================================================
