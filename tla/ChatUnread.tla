----------------------------- MODULE ChatUnread -----------------------------
(***************************************************************************)
(* The unread counters of the private conversations of one node: the rows  *)
(* of table conversations (unread_count, last_read_at), the is_read flags  *)
(* of table messages, and the tab and conversation the user looks at.      *)
(*                                                                         *)
(* Dart runs one continuation at a time, so what happens between two       *)
(* awaits is one step; every database call is one step of its own.  A task *)
(* is a call of the ChatManager that is suspended at an await: an incoming *)
(* message, a tap on a conversation or a tab, or openDirectChat.  Each     *)
(* packet comes over its own TCP connection, so its handler overlaps the   *)
(* others.                                                                 *)
(*                                                                         *)
(* A private conversation has one remote sender.  Message <<seq, copy>> is *)
(* the seq-th one he sent; copy is the uuid it carries: sendText draws one *)
(* for the packet it transmits and a second one for the row that sync      *)
(* answers are made of, sendAttachment uses one for both.                  *)
(***************************************************************************)
EXTENDS Naturals, FiniteSets, Functions

CONSTANTS
    Conv,           \* the private conversations of the node
    Slot,           \* bound: calls that overlap
    Copies,         \* the uuids one message travels under: {1} or {1, 2}
    ClockSkew,      \* how far the sender's clock is from the local one
    MaxClock,       \* bound: milliseconds that pass
    MaxSends,       \* bound: messages per conversation
    MaxArrivals,    \* bound: packets that arrive
    MaxExits        \* bound: process exits

Lobby == "lobby"    \* a hall or room conversation, which counts no unread

ASSUME UnreadAssumption ==
    /\ Lobby \notin Conv
    /\ Copies \subseteq Nat /\ ClockSkew \in Nat /\ MaxClock \in Nat
    /\ MaxSends \in Nat /\ MaxArrivals \in Nat /\ MaxExits \in Nat

VARIABLES
    clock,      \* DateTime.now() of the node, in milliseconds
    sent,       \* the messages the remote users have sent
    row,        \* row[c]: the conversations row of c
    messages,   \* the incoming rows of table messages
    tab,        \* _selectedTab
    selected,   \* _selectedConversationId
    badge,      \* _privateUnreadTotal
    task,       \* task[s]: the call suspended in slot s
    arrivals,   \* how much of MaxArrivals is used
    exits       \* how much of MaxExits is used

vars == <<clock, sent, row, messages, tab, selected, badge, task, arrivals, exits>>

Idle == [pc |-> "idle"]
NoRow == [known |-> FALSE, unread |-> 0, lastRead |-> 0]

Message == [conv : Conv, seq : 1..MaxSends, sentAt : Nat]
Stored == [conv : Conv, seq : 1..MaxSends, copy : Copies, sentAt : Nat, isRead : BOOLEAN]
ConvRow == [known : BOOLEAN, unread : Nat, lastRead : Nat]
Task ==
    [pc : {"read", "decide"}, conv : Conv, msg : Message, copy : Copies, existing : ConvRow]
    \cup [pc : {"file", "store"}, conv : Conv, msg : Message, copy : Copies,
          existing : ConvRow, inc : BOOLEAN]
    \cup [pc : {"lookup", "create"}, conv : Conv, existing : ConvRow]
    \cup [pc : {"show", "showDirect", "opened"}, conv : Conv]
    \cup [pc : {"mark", "markStored", "reload"}, conv : Conv, then : Conv \cup {Lobby}]

Shown(c) == tab = "direct" /\ selected = c
Of(c) == {r \in messages : r.conv = c}
StoredSeqs(c) == {r.seq : r \in Of(c)}
UnreadRows(c) == {r \in Of(c) : ~r.isRead}
Quiet == \A s \in Slot : task[s] = Idle

(* SELECT SUM(unread_count) FROM conversations WHERE type = 'direct'       *)
PrivateUnreadTotal == SumFunction([c \in Conv |-> row[c].unread])

TypeOK ==
    /\ clock \in 1..MaxClock + 1
    /\ sent \subseteq Message
    /\ row \in [Conv -> ConvRow]
    /\ messages \subseteq Stored
    /\ tab \in {"hall", "direct"} /\ selected \in Conv \cup {Lobby}
    /\ badge \in Nat
    /\ task \in [Slot -> Task \cup {Idle}]
    /\ arrivals \in 0..MaxArrivals /\ exits \in 0..MaxExits

(* The first start, on an empty database.                                  *)
Init ==
    /\ clock = 1 /\ sent = {}
    /\ row = [c \in Conv |-> NoRow] /\ messages = {}
    /\ tab = "hall" /\ selected = Lobby /\ badge = PrivateUnreadTotal
    /\ task = [s \in Slot |-> Idle]
    /\ arrivals = 0 /\ exits = 0

store == <<row, messages>>
view == <<tab, selected, badge>>
world == <<clock, sent, arrivals, exits>>

Tick ==
    /\ clock <= MaxClock /\ clock' = clock + 1
    /\ UNCHANGED <<sent, store, view, task, arrivals, exits>>

(* A remote user writes; sentAtEpochMs is his clock.                       *)
RemoteSend(c) ==
    /\ LET n == Cardinality({m \in sent : m.conv = c})
       IN  /\ n < MaxSends
           /\ \E t \in 1..MaxClock + 1 + ClockSkew :
                /\ t <= clock + ClockSkew /\ clock <= t + ClockSkew
                /\ sent' = sent \cup {[conv |-> c, seq |-> n + 1, sentAt |-> t]}
    /\ UNCHANGED <<clock, store, view, task, arrivals, exits>>

-----------------------------------------------------------------------------
(* The steps of a call.  Goto(s, t) suspends slot s with task t.           *)
Goto(s, t) == task' = [task EXCEPT ![s] = t]
Return(s) == Goto(s, Idle)

(* upsertConversation: INSERT ... ON CONFLICT REPLACE with the counter and *)
(* the time that the caller read earlier (existing?.unreadCount ?? 0).     *)
UpsertConversation(c, existing) == row' = [row EXCEPT ![c] = [existing EXCEPT !.known = TRUE]]

(* A bug: the counter goes up for a message that was stored before.        *)
BugUpsertMessage(m, copy, inc) ==
    /\ messages' = {r \in messages : r.conv # m.conv \/ r.seq # m.seq}
                   \cup {[conv |-> m.conv, seq |-> m.seq, copy |-> copy,
                          sentAt |-> m.sentAt, isRead |-> ~inc]}
    /\ row' = IF inc THEN [row EXCEPT ![m.conv].unread = @ + 1] ELSE row

(* upsertMessage, one transaction: the row replaces the one of the same id *)
(* or sequence number; the counter goes up when the id was not there.      *)
UpsertMessage(m, copy, inc) ==
    LET new == ~ \E r \in Of(m.conv) : r.seq = m.seq /\ r.copy = copy
    IN  /\ messages' = {r \in messages : r.conv # m.conv \/ r.seq # m.seq}
                       \cup {[conv |-> m.conv, seq |-> m.seq, copy |-> copy,
                              sentAt |-> m.sentAt, isRead |-> ~inc]}
        /\ row' = IF inc /\ new THEN [row EXCEPT ![m.conv].unread = @ + 1] ELSE row

(* markConversationRead, one transaction over both tables.                 *)
MarkConversationRead(c) ==
    /\ row' = [row EXCEPT ![c].unread = 0, ![c].lastRead = clock]
    /\ messages' = {IF r.conv = c THEN [r EXCEPT !.isRead = TRUE] ELSE r : r \in messages}

(* A packet is decoded and _handleIncomingMessage asks for the row.  The   *)
(* hall is online: a packet for another hall is dropped without a trace.   *)
Arrive(s, m, copy) ==
    /\ task[s] = Idle /\ arrivals < MaxArrivals
    /\ arrivals' = arrivals + 1
    /\ Goto(s, [pc |-> "read", conv |-> m.conv, msg |-> m, copy |-> copy, existing |-> NoRow])
    /\ UNCHANGED <<clock, sent, exits, store, view>>

ReadExisting(s) ==
    /\ task[s].pc = "read"
    /\ Goto(s, [task[s] EXCEPT !.pc = "decide", !.existing = row[task[s].conv]])
    /\ UNCHANGED <<world, store, view>>

(* A bug: the open conversation is not looked at.                          *)
BugShouldIncrementUnread(t) == t.msg.sentAt > t.existing.lastRead

(* shouldIncrementUnread, from the tab and selection of this moment and    *)
(* the time of the last reading as it was read before.                     *)
ShouldIncrementUnread(t) == ~Shown(t.conv) /\ t.msg.sentAt > t.existing.lastRead

Decide(s) ==
    /\ task[s].pc = "decide"
    /\ Goto(s, [pc |-> "file", conv |-> task[s].conv, msg |-> task[s].msg, copy |-> task[s].copy,
                existing |-> task[s].existing, inc |-> ShouldIncrementUnread(task[s])])
    /\ UNCHANGED <<world, store, view>>

FileConversation(s) ==
    /\ task[s].pc = "file"
    /\ UpsertConversation(task[s].conv, task[s].existing)
    /\ Goto(s, [task[s] EXCEPT !.pc = "store"])
    /\ UNCHANGED <<world, messages, view>>

(* A bug: a counted message does not reload the badge.                     *)
BugStoreMessage(s) ==
    /\ task[s].pc = "store"
    /\ UpsertMessage(task[s].msg, task[s].copy, task[s].inc)
    /\ IF task[s].inc THEN Return(s)
       ELSE Goto(s, [pc |-> "markStored", conv |-> task[s].conv, then |-> Lobby])
    /\ UNCHANGED <<world, view>>

StoreMessage(s) ==
    /\ task[s].pc = "store"
    /\ UpsertMessage(task[s].msg, task[s].copy, task[s].inc)
    /\ Goto(s, [pc |-> IF task[s].inc THEN "reload" ELSE "markStored",
                conv |-> task[s].conv, then |-> Lobby])
    /\ UNCHANGED <<world, view>>

(* "mark" is the call of openConversation and selectTab, "markStored" the  *)
(* one at the end of _handleIncomingMessage.                               *)
Mark(s) ==
    /\ task[s].pc \in {"mark", "markStored"}
    /\ MarkConversationRead(task[s].conv)
    /\ Goto(s, [task[s] EXCEPT !.pc = "reload"])
    /\ UNCHANGED <<world, view>>

(* reloadFromStorage, then the caller goes on: a tap opens its             *)
(* conversation once selectTab has returned.                               *)
Reload(s) ==
    /\ task[s].pc = "reload"
    /\ badge' = PrivateUnreadTotal
    /\ IF task[s].then = Lobby THEN Return(s)
       ELSE Goto(s, [pc |-> "show", conv |-> task[s].then])
    /\ UNCHANGED <<world, store, tab, selected>>

-----------------------------------------------------------------------------
(* The user.  selectTab marks the selected private conversation read,      *)
(* whichever tab is chosen; a tap in the conversation list is selectTab    *)
(* followed by openConversation of the tapped conversation, which the list *)
(* shows when it has a row.                                                *)
SelectTab(s, t, then) ==
    /\ task[s] = Idle
    /\ then \in Conv => row[then].known
    /\ tab' = t
    /\ CASE selected \in Conv -> Goto(s, [pc |-> "mark", conv |-> selected, then |-> then])
         [] selected = Lobby /\ then \in Conv -> Goto(s, [pc |-> "show", conv |-> then])
         [] OTHER -> UNCHANGED task
    /\ UNCHANGED <<world, store, selected, badge>>

(* openConversation up to its first await.                                 *)
Show(s) ==
    /\ task[s].pc = "show"
    /\ selected' = task[s].conv
    /\ Goto(s, [task[s] EXCEPT !.pc = "opened"])
    /\ UNCHANGED <<world, store, tab, badge>>

(* openConversation after loadConversationMessages: the type it tests is   *)
(* that of the conversation selected now, the id it marks the one opened.  *)
Opened(s) ==
    /\ task[s].pc = "opened"
    /\ IF selected \in Conv
       THEN Goto(s, [pc |-> "mark", conv |-> task[s].conv, then |-> Lobby])
       ELSE Return(s)
    /\ UNCHANGED <<world, store, view>>

(* selectHall, or openConversation of a room.                              *)
SelectHall ==
    /\ selected' = Lobby /\ tab' = "hall"
    /\ UNCHANGED <<world, store, badge, task>>

(* openDirectChat: reads the row, writes it back under the name of the     *)
(* peer, reloads and opens the conversation.                               *)
OpenDirectChat(s, c) ==
    /\ task[s] = Idle
    /\ Goto(s, [pc |-> "lookup", conv |-> c, existing |-> NoRow])
    /\ UNCHANGED <<world, store, view>>

Lookup(s) ==
    /\ task[s].pc = "lookup"
    /\ Goto(s, [task[s] EXCEPT !.pc = "create", !.existing = row[task[s].conv]])
    /\ UNCHANGED <<world, store, view>>

Create(s) ==
    /\ task[s].pc = "create"
    /\ UpsertConversation(task[s].conv, task[s].existing)
    /\ Goto(s, [pc |-> "showDirect", conv |-> task[s].conv])
    /\ UNCHANGED <<world, messages, view>>

ShowDirect(s) ==
    /\ task[s].pc = "showDirect"
    /\ badge' = PrivateUnreadTotal
    /\ tab' = "direct" /\ selected' = task[s].conv
    /\ Goto(s, [pc |-> "opened", conv |-> task[s].conv])
    /\ UNCHANGED <<world, store>>

(* The process ends and is started again: the database stays, the fields   *)
(* of the ChatManager are initial, start calls reloadFromStorage.          *)
Exit ==
    /\ exits < MaxExits /\ exits' = exits + 1
    /\ tab' = "hall" /\ selected' = Lobby /\ badge' = PrivateUnreadTotal
    /\ task' = [s \in Slot |-> Idle]
    /\ UNCHANGED <<clock, sent, arrivals, store>>

HandlerStep(s) ==
    \/ ReadExisting(s) \/ Decide(s) \/ FileConversation(s) \/ StoreMessage(s)
    \/ Mark(s) \/ Reload(s) \/ Show(s) \/ Opened(s)
    \/ Lookup(s) \/ Create(s) \/ ShowDirect(s)

Next ==
    \/ Tick \/ SelectHall \/ Exit
    \/ \E c \in Conv : RemoteSend(c)
    \/ \E s \in Slot, m \in sent, copy \in Copies : Arrive(s, m, copy)
    \/ \E s \in Slot, t \in {"hall", "direct"} : SelectTab(s, t, Lobby)
    \/ \E s \in Slot, c \in Conv :
        \/ SelectTab(s, "direct", c)
        \/ OpenDirectChat(s, c)
    \/ \E s \in Slot : HandlerStep(s)

Spec == Init /\ [][Next]_vars

-----------------------------------------------------------------------------
(* When nothing is under way, a counter counts no message that is marked   *)
(* read, and, unless the process ended within a handler, it counts all the *)
(* others.  Every handler writes the two tables in separate transactions;  *)
(* a duplicate or a late message must leave them in step.                  *)
UnreadMatchesRows ==
    Quiet => \A c \in Conv :
        LET unread == Cardinality(UnreadRows(c))
        IN  row[c].unread <= unread /\ (exits = 0 => row[c].unread = unread)

(* The conversation the user looks at shows no unread messages once        *)
(* nothing is under way (reading resets the counter).                      *)
ReadClears == Quiet => \A c \in Conv : Shown(c) => row[c].unread = 0

(* The badge on the tab is the sum of the counters once nothing is under   *)
(* way: every call that writes a counter reloads the badge afterwards.     *)
BadgeFresh == Quiet => badge = PrivateUnreadTotal

(* A counter never exceeds the number of messages stored, although every   *)
(* handler may write back a counter that it read long before.              *)
UnreadNeverInvented ==
    \A c \in Conv : row[c].unread <= Cardinality(StoredSeqs(c))
=============================================================================
