------------------------------- MODULE MCJudging -------------------------------
(* Instances of Judging for TLC. *)
EXTENDS Judging, TLC

Test(ord, id) == [ord |-> ord, id |-> id]

\* Groups and testcases listed against their order.
Shuffled ==
    <<[ord |-> 1, points |-> 60, tests |-> <<Test(1, 3), Test(0, 2)>>],
      [ord |-> 0, points |-> 40, tests |-> <<Test(0, 1)>>]>>

\* A group without testcases before one with a testcase.
WithEmptyGroup ==
    <<[ord |-> 0, points |-> 10, tests |-> <<>>],
      [ord |-> 1, points |-> 90, tests |-> <<Test(0, 1)>>]>>

\* Equal ordinals, of two groups and of two testcases.
Tied ==
    <<[ord |-> 0, points |-> 30, tests |-> <<Test(0, 1)>>],
      [ord |-> 0, points |-> 30, tests |-> <<Test(0, 2), Test(0, 3)>>]>>

SomeProblems == {Shuffled, WithEmptyGroup, Tied, <<>>}
TwoTests     == {<<[ord |-> 0, points |-> 100, tests |-> <<Test(0, 1), Test(1, 2)>>]>>}
=============================================================================
