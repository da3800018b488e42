----------------------------- MODULE MCChatSync -----------------------------
(* Instances of ChatSync for TLC: the nodes are the model values a, b and c. *)
EXTENDS ChatSync, TLC

CONSTANTS a, b, c

\* Sound where every node writes, syncs and is a member of the room.
Symmetry == Permutations(Node)
=============================================================================
