----------------------- MODULE MCMilkdownWorkingCopy -----------------------
(* Instances of MilkdownWorkingCopy for TLC. *)
EXTENDS MilkdownWorkingCopy, TLC

\* The texts are interchangeable: only equality of documents is ever looked at.
TextSymmetry == Permutations(Text)

\* So are the ids of blocks: their order matters to no operator of the model.
DocSymmetry == {p @@ q : p \in Permutations(Text), q \in Permutations(Block)}

=============================================================================
