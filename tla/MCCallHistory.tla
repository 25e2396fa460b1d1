----------------------------- MODULE MCCallHistory -----------------------------
(* Small instances of CallHistory for TLC. *)
EXTENDS CallHistory

CONSTANTS r1, r2, a1, a2

\* What CallHistory says without recursion is what SelectSeq computes.
ASSUME AmongAssumption ==
    \A s \in SeqOf({1, 2, 3}, 4), S \in SUBSET {1, 2, 3} :
        Among(s, S) = SelectSeq(s, LAMBDA x : x \in S)

MCAccount == [r \in Requests |-> IF r = r1 THEN a1 ELSE a2]
=============================================================================
