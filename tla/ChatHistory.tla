---------------------------- MODULE ChatHistory ----------------------------
(***************************************************************************)
(* What the chat component promises about message histories, without the   *)
(* database, the packets and the synchronisation: messages are published,  *)
(* each node learns published messages it is meant to see, one at a time   *)
(* and in any order, and what a node knows it never forgets.               *)
(*                                                                         *)
(* A message is named by the unique key of its database row.  The history  *)
(* a node keeps here leaves out the private messages it sent itself.       *)
(***************************************************************************)
CONSTANTS
    Node,
    RoomMembers     \* the nodes that have joined the room

VARIABLES
    published,      \* the messages that were sent
    known           \* known[n]: the messages node n has learned

historyVars == <<published, known>>

\* The nodes a message of conversation c may reach.
Audience(c) ==
    CASE c.type = "hall"   -> Node
      [] c.type = "direct" -> c.ips
      [] c.type = "room"   -> RoomMembers

Remembered(n, m) == m.sender # n \/ m.conv.type # "direct"

HistoryInit ==
    /\ published = {}
    /\ known = [n \in Node |-> {}]

Publish(m) ==
    /\ m.sender \in Audience(m.conv)
    /\ published' = published \cup {m}
    /\ UNCHANGED known

Learn(n, m) ==
    /\ m \in published
    /\ n \in Audience(m.conv)
    /\ Remembered(n, m)
    /\ known' = [known EXCEPT ![n] = @ \cup {m}]
    /\ UNCHANGED published

HistoryNext ==
    \/ \E m \in published' : Publish(m)
    \/ \E n \in Node, m \in published : Learn(n, m)

HistorySpec == HistoryInit /\ [][HistoryNext]_historyVars
=============================================================================
