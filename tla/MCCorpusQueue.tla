--------------------------- MODULE MCCorpusQueue ---------------------------
(* CorpusQueue with two interchangeable threads and two targets. *)
EXTENDS CorpusQueue, TLC

CONSTANTS t1, t2, MaxInputs

MCThreads == {t1, t2}
Symmetry  == Permutations(MCThreads)

(* Tests reach two bytes once, and have one or two nodes. *)
Wide == [bits |-> [Idx -> {0, 1}], lens |-> {1, 2}, exits |-> {"Normal"}]

(* Tests reach one byte up to MaxLevel times, may time out, and may be        *)
(* minimised to nothing.                                                      *)
Deep == [bits |-> {b \in Bits : b[2] = 0}, lens |-> {0, 1}, exits |-> {"Normal", "Timeout"}]

MCTargets == {Wide, Deep}

(* Bound: a corpus beyond this size is not explored further. *)
SmallCorpus == Len(inputs) <= MaxInputs
=============================================================================
