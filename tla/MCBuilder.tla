----------------------------- MODULE MCBuilder -----------------------------
(* Constants of the run of Builder. *)
EXTENDS Builder

Profiles ==
    { [liked |-> {}, disliked |-> {}, diet |-> {"dairy-free"}, bold |-> TRUE],
      [liked |-> {"scoop-vanilla"}, disliked |-> {"cream", "scoop-vanilla"},
       diet |-> {"zero-sugar"}, bold |-> FALSE] }

Drinks ==
    { [item |-> "double-berry-float",
       sel |-> [size |-> "medium", soda |-> "root-beer", syrups |-> {"vanilla", "caramel"},
                addIns |-> {"fresh-mint"}, iceCream |-> "scoop-vanilla"]] }

Alike == Permutations(Savers)
=============================================================================
