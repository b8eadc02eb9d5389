------------------------------ MODULE Iteration ------------------------------
(* A loop over a list, as an operator that can be reasoned about. *)
EXTENDS Naturals, Sequences

\* FoldLeft of SequencesExt, with the sequence and the accumulator bound as
\* elements of sets: TLC, which does not keep the value of an argument or a LET
\* when it evaluates ENABLED, then computes each once.  The actions of CallGraph
\* bind their intermediate graphs in the same way.
Accumulate(op(_, _), base, seq) ==
    CHOOSE r \in
        { LET upTo[i \in 0..Len(s)] ==
                  IF i = 0 THEN base
                  ELSE CHOOSE x \in {op(acc, s[i]) : acc \in {upTo[i - 1]}} : TRUE
          IN upTo[Len(s)] : s \in {seq} } : TRUE
=============================================================================
