-------------------------------- MODULE Lines --------------------------------
(***************************************************************************)
(* What the handlers do to the lines of a cart or an order: the "filter"   *)
(* that drops some, and the "reduce" that adds up what they amount to.     *)
(***************************************************************************)
EXTENDS Naturals, Sequences, SequencesExt

(* lines.filter(...): those that are in S, in their order.                 *)
Only(lines, S) ==
  FoldLeft(LAMBDA kept, line : IF line \in S THEN Append(kept, line) ELSE kept, <<>>, lines)

(* amounts.reduce((sum, amount) => sum + amount, 0).                       *)
Added(amounts) == FoldLeft(LAMBDA sum, amount : sum + amount, 0, amounts)

=============================================================================
