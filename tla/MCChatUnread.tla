---- MODULE MCChatUnread ----
EXTENDS ChatUnread, TLC
CONSTANTS c1, c2, s1, s2
Symmetry == Permutations(Conv) \cup Permutations(Slot)
====
