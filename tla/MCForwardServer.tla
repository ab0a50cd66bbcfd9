--------------------------- MODULE MCForwardServer ---------------------------
(* Constant values and symmetry for checking ForwardServer with TLC. *)
EXTENDS ForwardServer, TLC

MCQuitWord == <<"qu", "it">>
Symmetry == Permutations(Conns)

\* any cell, once
MCPrintsOne == {<<v>> : v \in Cell}

\* two texts of three cells, as far as they may have come: one spells quit at
\* its start, the other from its second cell on
MCPrintsThree ==
  { SubSeq(text, 1, n) : text \in {<<"qu", "it", "it">>, <<"it", "qu", "it">>}, n \in 1..3 }
=============================================================================
