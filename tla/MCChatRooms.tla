---- MODULE MCChatRooms ----
EXTENDS ChatRooms, TLC
CONSTANTS a, b, r1, r2, s1, s2
Symmetry == Permutations(Slot)
====
