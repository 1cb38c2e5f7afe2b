---------------------------- MODULE MCPredictors ----------------------------
(* The values of the constants of Predictors for TLC.                      *)
EXTENDS Predictors

Lengths == <<6, 4>>
Widths == <<1, 2>>

Number(word) == MapThenSumSet(LAMBDA i : 2 ^ i, word)

\* spreads address and words over twice as many values as there are slots
Mix(pc, words) ==
    (5 * pc + MapThenSumSet(LAMBDA w : Number(words[w]) * (2 * w + 1), DOMAIN words)) % 8
=============================================================================
