---------------------------- MODULE MCRiskHistory ----------------------------
(* Instances of RiskHistory for TLC. *)
EXTENDS RiskHistory, SequencesExt

\* Devices and repeated events that weigh the same.
AllSources == {"NETWORK", "EVENT"}
ReadingOrder == <<"NETWORK", "EVENT">>
Weights == [NETWORK |-> 20, EVENT |-> 20]
SourceCaps == [NETWORK |-> 20, EVENT |-> 20]

---------------------------------------------------------------------------
(* _append_contribution, signal by signal, for signals of one weight:       *)
(* contributions[n] is the sequence of the points that n signals add.       *)
Sum(points) == FoldSeq(+, 0, points)

Contributions(weight, cap) ==
    LET contributions[n \in Nat] ==
          IF n = 0 THEN <<>>
          ELSE LET before == contributions[n - 1]
                   rest == cap - Sum(before)
                   capped == IF weight <= rest THEN weight ELSE rest IN
               IF capped <= 0 THEN before ELSE Append(before, capped)
    IN contributions

(* The closed forms of RiskHistory agree with it, for all weights and caps  *)
(* of the code and beyond, up to four signals.                              *)
ASSUME ScoreAgrees ==
    \A weight \in 1..40, cap \in 0..36, n \in 0..4 :
        LET listed == Contributions(weight, cap)[n]
            full == (cap + weight - 1) \div weight IN
        /\ Len(listed) = (IF n <= full THEN n ELSE full)
        /\ Sum(listed) = (IF n * weight <= cap THEN n * weight ELSE cap)
=============================================================================
