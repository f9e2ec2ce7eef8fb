-------------------------- MODULE MCChatDirectory --------------------------
(* Instances of ChatDirectory for TLC. *)
EXTENDS ChatDirectory, TLC

\* Handlers are interchangeable, and so are names.
Symmetry == Permutations(Handler) \cup Permutations(Name)
=============================================================================
