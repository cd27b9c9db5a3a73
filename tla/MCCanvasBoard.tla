--------------------------- MODULE MCCanvasBoard ---------------------------
(* Instances of CanvasBoard for TLC. *)
EXTENDS CanvasBoard, TLC

\* Handlers are interchangeable.
CallSymmetry == Permutations(Call)

=============================================================================
