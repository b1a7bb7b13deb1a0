---------------------------- MODULE MCInputCalls ----------------------------
(***************************************************************************)
(* An instance of InputCalls for TLC.                                      *)
(***************************************************************************)
EXTENDS InputCalls

CONSTANTS ch1, ch2

\* Percentages at, around and beyond the bounds and the steps of the rollout plan.
MCConfig ==
    [Enabled : BOOLEAN, Percentage : {-1, 0, 1, 10, 30, 50, 99, 100, 150},
     EnabledChannels : {{}, {ch1}}, EnabledTrackingNumbers : {{}, {<<89, 84>>}}]

\* Texts of all lengths up to two blocks, made of a letter or of a byte that
\* looks like padding, padded, and then with one byte of the last block changed.
Text(n, b) == [i \in 1..n |-> b]

Padded == {pkcs7Pad(Text(n, b), BlockSize) : n \in {0, 1, 2, 14, 15, 16, 17, 31, 32}, b \in {1, 2, 16, 88}}

Changed == {[d EXCEPT ![Len(d) - i] = v] : d \in Padded, i \in {0, 1, 2, 14, 15}, v \in {0, 1, 2, 15, 16, 17, 88}}

MCPayload ==
    {[base64 |-> TRUE, size |-> Len(d) + BlockSize, plain |-> d] : d \in Padded \cup Changed \cup {<<>>}}
    \cup {[base64 |-> FALSE, size |-> 32, plain |-> pkcs7Pad(<<>>, BlockSize)],
          [base64 |-> TRUE, size |-> 15, plain |-> <<>>],
          [base64 |-> TRUE, size |-> 17, plain |-> <<1>>]}
=============================================================================
