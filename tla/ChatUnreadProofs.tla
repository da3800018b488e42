-------------------------- MODULE ChatUnreadProofs --------------------------
(***************************************************************************)
(* The counter of a private conversation never exceeds the number of       *)
(* messages stored for it, however the handlers overlap and whatever stale *)
(* rows they write back, as long as a message keeps one id (attachments).  *)
(* The badge is the sum of the counters whenever nothing is under way.     *)
(* When calls do not overlap, the conversation on the screen has nothing   *)
(* unread, and a counter is the number of its unread rows.                 *)
(***************************************************************************)
EXTENDS ChatUnread, FiniteSetTheorems, TLAPS

(* Every message travels under one uuid.                                   *)
StableIds == \A i, j \in Copies : i = j

Typed ==
    /\ sent \subseteq Message /\ IsFiniteSet(sent)
    /\ clock \in Nat
    /\ row \in [Conv -> ConvRow]
    /\ messages \subseteq Stored
    /\ selected \in Conv \cup {Lobby}
    /\ task \in [Slot -> Task \cup {Idle}]

Bounded(n, c) == n <= Cardinality(StoredSeqs(c))

(* What a suspended handler may still write is bounded as well.            *)
SnapshotsBounded ==
    \A s \in Slot :
        task[s].pc \in {"decide", "file", "create"} =>
            Bounded(task[s].existing.unread, task[s].conv)

CounterInv ==
    /\ Typed
    /\ \A c \in Conv : Bounded(row[c].unread, c)
    /\ SnapshotsBounded

-----------------------------------------------------------------------------
(* The stored sequence numbers are a finite set.                           *)
LEMMA SeqsFinite ==
    ASSUME messages \subseteq Stored, NEW c \in Conv
    PROVE  /\ IsFiniteSet(StoredSeqs(c))
           /\ Cardinality(StoredSeqs(c)) \in Nat
<1>1. IsFiniteSet(1..MaxSends)
  BY FS_Interval, UnreadAssumption
<1>2. StoredSeqs(c) \subseteq 1..MaxSends
  BY DEF StoredSeqs, Of, Stored
<1> QED
  BY <1>1, <1>2, FS_Subset, FS_CardinalityType

(* A conversation that keeps its stored numbers keeps its bound.           *)
LEMMA BoundKept ==
    ASSUME messages \subseteq Stored, (messages \subseteq Stored)',
           NEW c \in Conv, NEW n \in Nat, Bounded(n, c),
           StoredSeqs(c) \subseteq StoredSeqs(c)'
    PROVE  Bounded(n, c)'
<1>1. IsFiniteSet(StoredSeqs(c)') /\ Cardinality(StoredSeqs(c)') \in Nat
  <2>1. StoredSeqs(c)' \subseteq 1..MaxSends
    BY DEF StoredSeqs, Of, Stored
  <2>2. IsFiniteSet(1..MaxSends)
    BY FS_Interval, UnreadAssumption
  <2> QED
    BY <2>1, <2>2, FS_Subset, FS_CardinalityType
<1>2. Cardinality(StoredSeqs(c)) <= Cardinality(StoredSeqs(c)')
  BY <1>1, FS_Subset
<1>3. Cardinality(StoredSeqs(c)) \in Nat
  BY SeqsFinite
<1> QED
  BY <1>1, <1>2, <1>3 DEF Bounded

(* What the program counter of a task says about its fields.               *)
LEMMA TaskKinds ==
    ASSUME NEW t \in Task \cup {Idle}
    PROVE  /\ t.pc \in {"read", "decide"} =>
                t \in [pc : {"read", "decide"}, conv : Conv, msg : Message,
                       copy : Copies, existing : ConvRow]
           /\ t.pc \in {"file", "store"} =>
                t \in [pc : {"file", "store"}, conv : Conv, msg : Message,
                       copy : Copies, existing : ConvRow, inc : BOOLEAN]
           /\ t.pc \in {"lookup", "create"} =>
                t \in [pc : {"lookup", "create"}, conv : Conv, existing : ConvRow]
           /\ t.pc \in {"show", "showDirect", "opened"} =>
                t \in [pc : {"show", "showDirect", "opened"}, conv : Conv]
           /\ t.pc \in {"mark", "markStored", "reload"} =>
                t \in [pc : {"mark", "markStored", "reload"}, conv : Conv,
                       then : Conv \cup {Lobby}]
  BY DEF Task, Idle

(* A step that suspends slot s with a task whose own snapshot is bounded   *)
(* keeps the snapshots of all slots bounded when no stored number goes.    *)
LEMMA SnapshotsKept ==
    ASSUME CounterInv, Typed', NEW s \in Slot, NEW t, Goto(s, t),
           \A c \in Conv : StoredSeqs(c) \subseteq StoredSeqs(c)',
           t.pc \in {"decide", "file", "create"} => Bounded(t.existing.unread, t.conv)
    PROVE  SnapshotsBounded'
<1> SUFFICES ASSUME NEW u \in Slot, task'[u].pc \in {"decide", "file", "create"},
                    NEW c, c = task'[u].conv
             PROVE  task'[u].existing.unread <= Cardinality(StoredSeqs(c)')
  BY DEF SnapshotsBounded, Bounded, StoredSeqs, Of
<1>1. task'[u] \in Task \cup {Idle}
  BY DEF Typed
<1>2. task'[u].existing.unread \in Nat /\ c \in Conv
  BY <1>1, TaskKinds DEF ConvRow
<1>3. Bounded(task'[u].existing.unread, c)
  <2>1. CASE u = s
    BY <2>1 DEF Goto, CounterInv, Typed
  <2>2. CASE u # s
    <3>1. task'[u] = task[u]
      BY <2>2 DEF Goto, CounterInv, Typed
    <3> QED
      BY <3>1 DEF CounterInv, SnapshotsBounded
  <2> QED
    BY <2>1, <2>2
<1>4. messages \subseteq Stored /\ (messages \subseteq Stored)'
  BY DEF CounterInv, Typed
<1>5. \A d \in Conv, n \in Nat :
        (Bounded(n, d) /\ StoredSeqs(d) \subseteq StoredSeqs(d)') => n <= Cardinality(StoredSeqs(d)')
  BY <1>4, BoundKept DEF Bounded
<1> QED
  BY <1>2, <1>3, <1>5

(* The counters stay bounded when they stay and no stored number goes.     *)
LEMMA RowsKept ==
    ASSUME CounterInv, Typed', UNCHANGED row,
           \A c \in Conv : StoredSeqs(c) \subseteq StoredSeqs(c)'
    PROVE  (\A c \in Conv : Bounded(row[c].unread, c))'
<1> SUFFICES ASSUME NEW c \in Conv
             PROVE  Bounded(row[c].unread, c)'
  OBVIOUS
<1>1. row[c].unread \in Nat /\ Bounded(row[c].unread, c) /\ row'[c] = row[c]
  BY DEF CounterInv, Typed, ConvRow
<1>2. messages \subseteq Stored /\ (messages \subseteq Stored)'
  BY DEF CounterInv, Typed
<1>3. Bounded(row[c].unread, c)' <=> row'[c].unread <= Cardinality(StoredSeqs(c)')
  BY DEF Bounded
<1> QED
  BY <1>1, <1>2, <1>3, BoundKept DEF Bounded

(* Actions that leave the tables alone: what slot s is suspended with is   *)
(* typed, and its snapshot is the row of this moment or the one it had.    *)
LEMMA QuietStep ==
    ASSUME CounterInv, UNCHANGED <<row, messages>>, NEW s \in Slot, NEW t, Goto(s, t),
           t \in Task \cup {Idle},
           (sent \subseteq Message /\ IsFiniteSet(sent) /\ clock \in Nat)', (selected \in Conv \cup {Lobby})',
           t.pc \in {"decide", "file", "create"} => Bounded(t.existing.unread, t.conv)
    PROVE  CounterInv'
<1>1. Typed'
  BY DEF CounterInv, Typed, Goto
<1>2. \A c \in Conv : StoredSeqs(c) \subseteq StoredSeqs(c)'
  BY DEF StoredSeqs, Of
<1> QED
  BY <1>1, <1>2, SnapshotsKept, RowsKept DEF CounterInv

(* The steps that only read: an arrival, its two reads, the user's calls   *)
(* and the reloads.                                                        *)
LEMMA ReadingSteps ==
    ASSUME CounterInv, NEW s \in Slot,
           \/ \E m \in sent, copy \in Copies : Arrive(s, m, copy)
           \/ ReadExisting(s) \/ Decide(s) \/ Reload(s) \/ Show(s) \/ Opened(s)
           \/ Lookup(s) \/ ShowDirect(s)
           \/ \E c \in Conv : OpenDirectChat(s, c)
    PROVE  CounterInv'
<1> USE DEF CounterInv, Typed, world, store, view
<1>0. task[s] \in Task \cup {Idle}
  OBVIOUS
<1>r. \A c \in Conv : row[c] \in ConvRow /\ NoRow \in ConvRow /\ Bounded(row[c].unread, c)
  BY DEF ConvRow, NoRow
<1>k. UNCHANGED <<row, messages, sent, clock>>
  BY DEF Arrive, ReadExisting, Decide, Reload, Show, Opened, Lookup, ShowDirect, OpenDirectChat
<1>1. ASSUME NEW m \in sent, NEW copy \in Copies, Arrive(s, m, copy) PROVE CounterInv'
  <2> DEFINE t == [pc |-> "read", conv |-> m.conv, msg |-> m, copy |-> copy, existing |-> NoRow]
  <2>1. t \in Task
    <3>1. m \in Message /\ m.conv \in Conv
      BY DEF Message
    <3> QED
      BY <3>1 DEF Task, NoRow, ConvRow
  <2>2. t.pc \notin {"decide", "file", "create"}
    OBVIOUS
  <2>3. Goto(s, t) /\ UNCHANGED selected
    BY <1>1 DEF Arrive
  <2> HIDE DEF t
  <2> QED
    BY <1>k, <2>1, <2>2, <2>3, QuietStep
<1>2. CASE ReadExisting(s)
  <2> DEFINE t == [task[s] EXCEPT !.pc = "decide", !.existing = row[task[s].conv]]
  <2>1. task[s].pc = "read" /\ Goto(s, t) /\ UNCHANGED selected
    BY <1>2 DEF ReadExisting
  <2>2. task[s] \in [pc : {"read", "decide"}, conv : Conv, msg : Message,
                     copy : Copies, existing : ConvRow]
    BY <2>1, <1>0, TaskKinds
  <2>3. t \in Task /\ t.conv = task[s].conv /\ t.existing = row[task[s].conv]
    BY <2>2, <1>r DEF Task
  <2>4. Bounded(t.existing.unread, t.conv)
    BY <2>2, <2>3, <1>r
  <2> HIDE DEF t
  <2> QED
    BY <1>k, <2>1, <2>3, <2>4, QuietStep
<1>3. CASE Decide(s)
  <2> DEFINE t == [pc |-> "file", conv |-> task[s].conv, msg |-> task[s].msg,
                   copy |-> task[s].copy, existing |-> task[s].existing,
                   inc |-> ShouldIncrementUnread(task[s])]
  <2>1. task[s].pc = "decide" /\ Goto(s, t) /\ UNCHANGED selected
    BY <1>3 DEF Decide
  <2>2. task[s] \in [pc : {"read", "decide"}, conv : Conv, msg : Message,
                     copy : Copies, existing : ConvRow]
    BY <2>1, <1>0, TaskKinds
  <2>3. ShouldIncrementUnread(task[s]) \in BOOLEAN
    BY DEF ShouldIncrementUnread
  <2>4. t \in Task /\ t.conv = task[s].conv /\ t.existing = task[s].existing
    BY <2>2, <2>3 DEF Task
  <2>5. Bounded(t.existing.unread, t.conv)
    BY <2>1, <2>4 DEF SnapshotsBounded
  <2> HIDE DEF t
  <2> QED
    BY <1>k, <2>1, <2>4, <2>5, QuietStep
<1>4. CASE Reload(s)
  <2>1. task[s].pc = "reload" /\ UNCHANGED selected
    BY <1>4 DEF Reload
  <2>2. task[s] \in [pc : {"mark", "markStored", "reload"}, conv : Conv, then : Conv \cup {Lobby}]
    BY <2>1, <1>0, TaskKinds
  <2>3. PICK t \in {Idle, [pc |-> "show", conv |-> task[s].then]} :
            Goto(s, t) /\ (t = Idle \/ task[s].then # Lobby)
    BY <1>4 DEF Reload, Return
  <2>4. t \in Task \cup {Idle} /\ t.pc \notin {"decide", "file", "create"}
    BY <2>2, <2>3 DEF Task, Idle
  <2> QED
    BY <1>k, <2>1, <2>3, <2>4, QuietStep
<1>5. CASE Show(s)
  <2> DEFINE t == [task[s] EXCEPT !.pc = "opened"]
  <2>1. task[s].pc = "show" /\ Goto(s, t) /\ selected' = task[s].conv
    BY <1>5 DEF Show
  <2>2. task[s] \in [pc : {"show", "showDirect", "opened"}, conv : Conv]
    BY <2>1, <1>0, TaskKinds
  <2>3. t \in Task /\ t.pc = "opened"
    BY <2>2 DEF Task
  <2> HIDE DEF t
  <2> QED
    BY <1>k, <2>1, <2>2, <2>3, QuietStep
<1>6. CASE Opened(s)
  <2>1. task[s].pc = "opened" /\ UNCHANGED selected
    BY <1>6 DEF Opened
  <2>2. task[s] \in [pc : {"show", "showDirect", "opened"}, conv : Conv]
    BY <2>1, <1>0, TaskKinds
  <2>3. PICK t \in {Idle, [pc |-> "mark", conv |-> task[s].conv, then |-> Lobby]} : Goto(s, t)
    BY <1>6 DEF Opened, Return
  <2>4. t \in Task \cup {Idle} /\ t.pc \notin {"decide", "file", "create"}
    BY <2>2, <2>3 DEF Task, Idle
  <2> QED
    BY <1>k, <2>1, <2>3, <2>4, QuietStep
<1>7. CASE Lookup(s)
  <2> DEFINE t == [task[s] EXCEPT !.pc = "create", !.existing = row[task[s].conv]]
  <2>1. task[s].pc = "lookup" /\ Goto(s, t) /\ UNCHANGED selected
    BY <1>7 DEF Lookup
  <2>2. task[s] \in [pc : {"lookup", "create"}, conv : Conv, existing : ConvRow]
    BY <2>1, <1>0, TaskKinds
  <2>3. t \in Task /\ t.conv = task[s].conv /\ t.existing = row[task[s].conv]
    BY <2>2, <1>r DEF Task
  <2>4. Bounded(t.existing.unread, t.conv)
    BY <2>2, <2>3, <1>r
  <2> HIDE DEF t
  <2> QED
    BY <1>k, <2>1, <2>3, <2>4, QuietStep
<1>8. CASE ShowDirect(s)
  <2> DEFINE t == [pc |-> "opened", conv |-> task[s].conv]
  <2>1. task[s].pc = "showDirect" /\ Goto(s, t) /\ selected' = task[s].conv
    BY <1>8 DEF ShowDirect
  <2>2. task[s] \in [pc : {"show", "showDirect", "opened"}, conv : Conv]
    BY <2>1, <1>0, TaskKinds
  <2>3. t \in Task /\ t.pc = "opened"
    BY <2>2 DEF Task
  <2> HIDE DEF t
  <2> QED
    BY <1>k, <2>1, <2>2, <2>3, QuietStep
<1>9. ASSUME NEW c \in Conv, OpenDirectChat(s, c) PROVE CounterInv'
  <2> DEFINE t == [pc |-> "lookup", conv |-> c, existing |-> NoRow]
  <2>1. t \in Task /\ t.pc = "lookup"
    BY DEF Task, NoRow, ConvRow
  <2>2. Goto(s, t) /\ UNCHANGED selected
    BY <1>9 DEF OpenDirectChat
  <2> HIDE DEF t
  <2> QED
    BY <1>k, <2>1, <2>2, QuietStep
<1> QED
  BY <1>1, <1>2, <1>3, <1>4, <1>5, <1>6, <1>7, <1>8, <1>9

(* upsertConversation writes back a snapshot, which is bounded.            *)
LEMMA WriteBackStep ==
    ASSUME CounterInv, UNCHANGED <<messages, sent, clock>>, (selected \in Conv \cup {Lobby})',
           NEW s \in Slot, NEW t \in Task, Goto(s, t), t.pc \in {"store", "showDirect"},
           NEW c \in Conv, NEW existing \in ConvRow, Bounded(existing.unread, c),
           UpsertConversation(c, existing)
    PROVE  CounterInv'
<1> DEFINE new == [existing EXCEPT !.known = TRUE]
<1>1. new \in ConvRow /\ new.unread = existing.unread
  BY DEF ConvRow
<1>2. row' = [row EXCEPT ![c] = new]
  BY DEF UpsertConversation
<1> HIDE DEF new
<1>3. Typed'
  BY <1>1, <1>2 DEF CounterInv, Typed, Goto
<1>4. \A d \in Conv : StoredSeqs(d)' = StoredSeqs(d)
  BY DEF StoredSeqs, Of
<1>5. \A d \in Conv : row'[d].unread <= Cardinality(StoredSeqs(d))
  BY <1>1, <1>2 DEF CounterInv, Typed, Bounded
<1>6. (\A d \in Conv : Bounded(row[d].unread, d))'
  BY <1>4, <1>5 DEF Bounded
<1>7. SnapshotsBounded'
  BY <1>3, <1>4, SnapshotsKept
<1> QED
  BY <1>3, <1>6, <1>7 DEF CounterInv

(* The insert of a message adds its number and, when the id is new, one to *)
(* the counter: with stable ids the number is then new as well.            *)
LEMMA StoreStep ==
    ASSUME StableIds, CounterInv, NEW s \in Slot, StoreMessage(s)
    PROVE  CounterInv'
<1> DEFINE m == task[s].msg
           copy == task[s].copy
           inc == task[s].inc
           rec == [conv |-> m.conv, seq |-> m.seq, copy |-> copy,
                   sentAt |-> m.sentAt, isRead |-> ~inc]
           new == ~ \E r \in Of(m.conv) : r.seq = m.seq /\ r.copy = copy
           t == [pc |-> IF inc THEN "reload" ELSE "markStored",
                 conv |-> task[s].conv, then |-> Lobby]
<1>0. task[s] \in [pc : {"file", "store"}, conv : Conv, msg : Message,
                   copy : Copies, existing : ConvRow, inc : BOOLEAN]
  BY TaskKinds DEF StoreMessage, CounterInv, Typed
<1>1. m \in Message /\ copy \in Copies /\ inc \in BOOLEAN /\ task[s].conv \in Conv
  BY <1>0
<1>2. messages' = {r \in messages : r.conv # m.conv \/ r.seq # m.seq} \cup {rec}
  BY DEF StoreMessage, UpsertMessage
<1>3. row' = IF inc /\ new THEN [row EXCEPT ![m.conv].unread = @ + 1] ELSE row
  BY DEF StoreMessage, UpsertMessage
<1>4. Goto(s, t) /\ UNCHANGED <<sent, clock, selected>>
  BY DEF StoreMessage, world, view
<1>5. rec \in Stored /\ rec.conv = m.conv /\ rec.seq = m.seq /\ m.conv \in Conv /\ m.seq \in 1..MaxSends
  BY <1>1 DEF Stored, Message
<1>6. t \in Task /\ t.pc \notin {"decide", "file", "create"}
  BY <1>1 DEF Task
<1>7. new => m.seq \notin StoredSeqs(m.conv)
  <2> SUFFICES ASSUME new, NEW r \in Of(m.conv), r.seq = m.seq PROVE FALSE
    BY DEF StoredSeqs
  <2>1. r.copy = copy
    BY <1>1 DEF StableIds, Of, CounterInv, Typed, Stored
  <2> QED
    BY <2>1
<1> HIDE DEF m, copy, inc, rec, new, t
<1>8. row' \in [Conv -> ConvRow]
  <2>1. row \in [Conv -> ConvRow]
    BY DEF CounterInv, Typed
  <2>2. row[m.conv] \in ConvRow
    BY <2>1, <1>5
  <2>3. [row[m.conv] EXCEPT !.unread = @ + 1] \in ConvRow
    BY <2>2 DEF ConvRow
  <2> QED
    BY <2>1, <2>3, <1>3
<1>9. Typed'
  <2>1. task' \in [Slot -> Task \cup {Idle}]
    BY <1>4, <1>6 DEF CounterInv, Typed, Goto
  <2>2. messages' \subseteq Stored
    BY <1>2, <1>5 DEF CounterInv, Typed
  <2> QED
    BY <1>4, <1>8, <2>1, <2>2 DEF CounterInv, Typed
<1>10. ASSUME NEW d \in Conv
       PROVE  StoredSeqs(d)' = IF d = m.conv THEN StoredSeqs(d) \cup {m.seq} ELSE StoredSeqs(d)
  BY <1>2, <1>5 DEF StoredSeqs, Of
<1>11. \A d \in Conv : StoredSeqs(d) \subseteq StoredSeqs(d)'
  BY <1>10
<1>12. (\A d \in Conv : Bounded(row[d].unread, d))'
  <2>1. CASE inc /\ new
    <3> SUFFICES ASSUME NEW d \in Conv PROVE row'[d].unread <= Cardinality(StoredSeqs(d)')
      BY DEF Bounded
    <3>1. row[d].unread <= Cardinality(StoredSeqs(d)) /\ row[d].unread \in Nat
      BY DEF CounterInv, Typed, Bounded, ConvRow
    <3>2. IsFiniteSet(StoredSeqs(d)) /\ Cardinality(StoredSeqs(d)) \in Nat
      BY SeqsFinite DEF CounterInv, Typed
    <3>3. CASE d = m.conv
      <4>1. Cardinality(StoredSeqs(d)') = Cardinality(StoredSeqs(d)) + 1
        BY <3>2, <3>3, <1>7, <1>10, <2>1, FS_AddElement
      <4>2. row[d] \in ConvRow
        BY DEF CounterInv, Typed
      <4>3. row'[d] = [row[d] EXCEPT !.unread = row[d].unread + 1]
        BY <1>3, <2>1, <3>3 DEF CounterInv, Typed
      <4>4. row'[d].unread = row[d].unread + 1
        BY <4>2, <4>3 DEF ConvRow
      <4> QED
        BY <3>1, <3>2, <4>1, <4>4
    <3>4. CASE d # m.conv
      <4>1. row'[d] = row[d]
        BY <1>3, <2>1, <3>4, <1>5 DEF CounterInv, Typed
      <4> QED
        BY <3>1, <3>4, <4>1, <1>10
    <3> QED
      BY <3>3, <3>4
  <2>2. CASE ~(inc /\ new)
    BY <1>3, <1>9, <1>11, <2>2, RowsKept
  <2> QED
    BY <2>1, <2>2
<1>13. SnapshotsBounded'
  BY <1>4, <1>6, <1>9, <1>11, SnapshotsKept
<1> QED
  BY <1>9, <1>12, <1>13 DEF CounterInv

(* Reading resets a counter and changes no stored number.                  *)
LEMMA MarkStep ==
    ASSUME CounterInv, NEW s \in Slot, Mark(s)
    PROVE  CounterInv'
<1> DEFINE c == task[s].conv
           t == [task[s] EXCEPT !.pc = "reload"]
<1>1. task[s].pc \in {"mark", "markStored", "reload"} /\ Goto(s, t) /\ UNCHANGED <<sent, clock, selected>>
  BY DEF Mark, world, view
<1>2. task[s] \in [pc : {"mark", "markStored", "reload"}, conv : Conv, then : Conv \cup {Lobby}]
  BY <1>1, TaskKinds DEF CounterInv, Typed
<1>3. t \in Task /\ t.pc = "reload" /\ c \in Conv
  BY <1>2 DEF Task
<1>4. /\ row' = [row EXCEPT ![c].unread = 0, ![c].lastRead = clock]
      /\ messages' = {IF r.conv = c THEN [r EXCEPT !.isRead = TRUE] ELSE r : r \in messages}
  BY DEF Mark, MarkConversationRead
<1> HIDE DEF c, t
<1>5. \A r \in messages : /\ [r EXCEPT !.isRead = TRUE] \in Stored
                          /\ [r EXCEPT !.isRead = TRUE].conv = r.conv
                          /\ [r EXCEPT !.isRead = TRUE].seq = r.seq
  BY DEF CounterInv, Typed, Stored
<1>6. messages' \subseteq Stored
  BY <1>4, <1>5 DEF CounterInv, Typed
<1>7. \A d \in Conv : StoredSeqs(d) \subseteq StoredSeqs(d)'
  <2> SUFFICES ASSUME NEW d \in Conv, NEW r \in messages, r.conv = d
               PROVE  \E q \in messages' : q.conv = d /\ q.seq = r.seq
    BY DEF StoredSeqs, Of
  <2>1. (IF r.conv = c THEN [r EXCEPT !.isRead = TRUE] ELSE r) \in messages'
    BY <1>4
  <2> QED
    BY <2>1, <1>5
<1>8. row' \in [Conv -> ConvRow] /\ \A d \in Conv : row'[d].unread \in {0, row[d].unread}
  <2>1. row[c] \in ConvRow /\ row \in [Conv -> ConvRow]
    BY <1>3 DEF CounterInv, Typed
  <2>2. clock \in Nat
    BY DEF CounterInv, Typed
  <2>3. [row[c] EXCEPT !.unread = 0, !.lastRead = clock] \in ConvRow
    BY <2>1, <2>2 DEF ConvRow
  <2> QED
    BY <2>1, <2>3, <1>4 DEF ConvRow
<1>9. Typed'
  BY <1>1, <1>3, <1>6, <1>8 DEF CounterInv, Typed, Goto
<1>10. (\A d \in Conv : Bounded(row[d].unread, d))'
  <2> SUFFICES ASSUME NEW d \in Conv PROVE row'[d].unread <= Cardinality(StoredSeqs(d)')
    BY DEF Bounded
  <2>1. \A n \in Nat : Bounded(n, d) => n <= Cardinality(StoredSeqs(d)')
    BY <1>6, <1>7, BoundKept DEF Bounded, CounterInv, Typed
  <2>2. row[d].unread \in Nat /\ Bounded(row[d].unread, d)
    BY DEF CounterInv, Typed, ConvRow
  <2>3. Bounded(0, d)
    BY SeqsFinite DEF Bounded, CounterInv, Typed
  <2> QED
    BY <2>1, <2>2, <2>3, <1>8
<1>11. SnapshotsBounded'
  BY <1>1, <1>3, <1>7, <1>9, SnapshotsKept
<1> QED
  BY <1>9, <1>10, <1>11 DEF CounterInv

(* The handlers that write a row back.                                     *)
LEMMA WritingSteps ==
    ASSUME CounterInv, NEW s \in Slot, FileConversation(s) \/ Create(s)
    PROVE  CounterInv'
<1>k. UNCHANGED <<messages, sent, clock, selected>> /\ (selected \in Conv \cup {Lobby})'
  BY DEF FileConversation, Create, world, view, CounterInv, Typed
<1>0. task[s] \in Task \cup {Idle}
  BY DEF CounterInv, Typed
<1>1. CASE FileConversation(s)
  <2> DEFINE t == [task[s] EXCEPT !.pc = "store"]
  <2>1. task[s].pc = "file" /\ Goto(s, t) /\ UpsertConversation(task[s].conv, task[s].existing)
    BY <1>1 DEF FileConversation
  <2>2. task[s] \in [pc : {"file", "store"}, conv : Conv, msg : Message,
                     copy : Copies, existing : ConvRow, inc : BOOLEAN]
    BY <2>1, <1>0, TaskKinds
  <2>3. t \in Task /\ t.pc = "store"
    BY <2>2 DEF Task
  <2>4. Bounded(task[s].existing.unread, task[s].conv)
    BY <2>1 DEF CounterInv, SnapshotsBounded
  <2> HIDE DEF t
  <2> QED
    BY <1>k, <2>1, <2>2, <2>3, <2>4, WriteBackStep
<1>2. CASE Create(s)
  <2> DEFINE t == [pc |-> "showDirect", conv |-> task[s].conv]
  <2>1. task[s].pc = "create" /\ Goto(s, t) /\ UpsertConversation(task[s].conv, task[s].existing)
    BY <1>2 DEF Create
  <2>2. task[s] \in [pc : {"lookup", "create"}, conv : Conv, existing : ConvRow]
    BY <2>1, <1>0, TaskKinds
  <2>3. t \in Task /\ t.pc = "showDirect"
    BY <2>2 DEF Task
  <2>4. Bounded(task[s].existing.unread, task[s].conv)
    BY <2>1 DEF CounterInv, SnapshotsBounded
  <2> HIDE DEF t
  <2> QED
    BY <1>k, <2>1, <2>2, <2>3, <2>4, WriteBackStep
<1> QED
  BY <1>1, <1>2

(* selectTab and a tap on a conversation.                                  *)
LEMMA SelectStep ==
    ASSUME CounterInv, NEW s \in Slot, NEW t0, NEW then \in Conv \cup {Lobby},
           SelectTab(s, t0, then)
    PROVE  CounterInv'
<1>1. UNCHANGED <<row, messages, sent, clock, selected>>
  BY DEF SelectTab, world, store
<1>2. task[s] = Idle /\ task \in [Slot -> Task \cup {Idle}] /\ selected \in Conv \cup {Lobby}
  BY DEF SelectTab, CounterInv, Typed
<1>3. PICK t \in {Idle, [pc |-> "mark", conv |-> selected, then |-> then],
                  [pc |-> "show", conv |-> then]} :
          /\ Goto(s, t)
          /\ t = Idle \/ (selected \in Conv /\ t.pc = "mark") \/ (then \in Conv /\ t.pc = "show")
  <2>1. CASE selected \in Conv
    BY <2>1 DEF SelectTab
  <2>2. CASE selected \notin Conv /\ then \in Conv
    BY <2>2, <1>2 DEF SelectTab
  <2>3. CASE selected \notin Conv /\ then \notin Conv
    <3>1. UNCHANGED task
      BY <2>3 DEF SelectTab
    <3>2. Goto(s, Idle)
      BY <3>1, <1>2 DEF Goto
    <3> QED
      BY <3>2
  <2> QED
    BY <2>1, <2>2, <2>3
<1>4. t \in Task \cup {Idle} /\ t.pc \notin {"decide", "file", "create"}
  BY <1>3 DEF Task, Idle
<1> QED
  BY <1>1, <1>2, <1>3, <1>4, QuietStep DEF CounterInv, Typed

(* Steps that leave the tables and all tasks alone, and an exit, which     *)
(* drops the tasks.                                                        *)
LEMMA WorldStep ==
    ASSUME CounterInv, UNCHANGED <<row, messages>>,
           task' = task \/ task' = [s \in Slot |-> Idle],
           (sent \subseteq Message /\ IsFiniteSet(sent) /\ clock \in Nat /\ selected \in Conv \cup {Lobby})'
    PROVE  CounterInv'
<1>1. Typed'
  BY DEF CounterInv, Typed
<1>2. \A c \in Conv : StoredSeqs(c)' = StoredSeqs(c)
  BY DEF StoredSeqs, Of
<1>3. (\A c \in Conv : Bounded(row[c].unread, c))'
  BY <1>1, <1>2, RowsKept
<1>4. SnapshotsBounded'
  <2>1. CASE task' = task
    BY <2>1 DEF CounterInv, SnapshotsBounded, Bounded, StoredSeqs, Of
  <2>2. CASE task' = [s \in Slot |-> Idle]
    BY <2>2 DEF SnapshotsBounded, Idle
  <2> QED
    BY <2>1, <2>2
<1> QED
  BY <1>1, <1>3, <1>4 DEF CounterInv

LEMMA CounterInit == Init => CounterInv
<1> SUFFICES ASSUME Init PROVE CounterInv
  OBVIOUS
<1>1. Typed
  BY FS_EmptySet DEF Init, Typed, NoRow, ConvRow
<1>2. \A c \in Conv : Bounded(row[c].unread, c)
  BY <1>1, SeqsFinite DEF Init, Bounded, NoRow, Typed
<1>3. SnapshotsBounded
  BY DEF Init, SnapshotsBounded, Idle
<1> QED
  BY <1>1, <1>2, <1>3 DEF CounterInv

LEMMA CounterNext ==
    ASSUME StableIds, CounterInv, [Next]_vars
    PROVE  CounterInv'
<1>1. CASE UNCHANGED vars
  BY <1>1, WorldStep DEF vars, CounterInv, Typed
<1>2. CASE Tick
  BY <1>2, WorldStep DEF Tick, store, view, CounterInv, Typed
<1>3. CASE SelectHall
  BY <1>3, WorldStep DEF SelectHall, world, store, CounterInv, Typed
<1>4. CASE Exit
  BY <1>4, WorldStep DEF Exit, store, CounterInv, Typed
<1>5. ASSUME NEW c \in Conv, RemoteSend(c) PROVE CounterInv'
  <2> DEFINE n == Cardinality({m \in sent : m.conv = c})
  <2>1. n < MaxSends /\ UNCHANGED <<row, messages, task, clock, selected>>
    BY <1>5 DEF RemoteSend, store, view
  <2>2. PICK t \in 1..MaxClock + 1 + ClockSkew :
            sent' = sent \cup {[conv |-> c, seq |-> n + 1, sentAt |-> t]}
    BY <1>5 DEF RemoteSend
  <2>3. n \in Nat
    BY FS_Subset, FS_CardinalityType DEF CounterInv, Typed
  <2>4. t \in Nat
    BY <2>2, UnreadAssumption
  <2> HIDE DEF n
  <2>5. [conv |-> c, seq |-> n + 1, sentAt |-> t] \in Message
    BY <2>1, <2>3, <2>4, UnreadAssumption DEF Message
  <2>6. IsFiniteSet(sent')
    BY <2>2, FS_AddElement DEF CounterInv, Typed
  <2> QED
    BY <2>1, <2>2, <2>5, <2>6, WorldStep DEF CounterInv, Typed
<1>6. ASSUME NEW s \in Slot, NEW m \in sent, NEW copy \in Copies, Arrive(s, m, copy)
      PROVE  CounterInv'
  BY <1>6, ReadingSteps
<1>7. ASSUME NEW s \in Slot, NEW t \in {"hall", "direct"}, SelectTab(s, t, Lobby)
      PROVE  CounterInv'
  BY <1>7, SelectStep
<1>8. ASSUME NEW s \in Slot, NEW c \in Conv, SelectTab(s, "direct", c) \/ OpenDirectChat(s, c)
      PROVE  CounterInv'
  BY <1>8, SelectStep, ReadingSteps
<1>9. ASSUME NEW s \in Slot, HandlerStep(s) PROVE CounterInv'
  BY <1>9, ReadingSteps, WritingSteps, StoreStep, MarkStep DEF HandlerStep
<1> QED
  BY <1>1, <1>2, <1>3, <1>4, <1>5, <1>6, <1>7, <1>8, <1>9 DEF Next

(* However arrivals, readings and exits overlap, a counter never exceeds   *)
(* the number of messages stored for its conversation.                     *)
THEOREM CounterBounded ==
    ASSUME StableIds
    PROVE  Spec => []UnreadNeverInvented
<1>1. CounterInv => UnreadNeverInvented
  BY DEF CounterInv, UnreadNeverInvented, Bounded
<1> QED
  BY <1>1, CounterInit, CounterNext, PTL DEF Spec

-----------------------------------------------------------------------------
(* The badge.                                                              *)

(* The calls that have written, or are about to write, a counter and have  *)
(* yet to reload.                                                          *)
WillReload(t) == t.pc \in {"store", "markStored", "reload", "showDirect"}

(* The badge is fresh or a reload is on its way; what is in a slot has a   *)
(* program counter.                                                        *)
BadgeInv ==
    /\ DOMAIN task = Slot /\ \A s \in Slot : "pc" \in DOMAIN task[s]
    /\ badge = PrivateUnreadTotal \/ \E s \in Slot : WillReload(task[s])

(* The sum depends on the rows only.                                       *)
LEMMA TotalKept ==
    ASSUME UNCHANGED row
    PROVE  PrivateUnreadTotal' = PrivateUnreadTotal
BY DEF PrivateUnreadTotal

(* One call goes on: it reloads, or it still will, or it has written no    *)
(* counter.                                                                *)
LEMMA BadgeMoves ==
    ASSUME BadgeInv, NEW s \in Slot, NEW t, Goto(s, t), "pc" \in DOMAIN t,
           \/ UNCHANGED row /\ badge' = PrivateUnreadTotal
           \/ WillReload(t)
           \/ UNCHANGED <<row, badge>> /\ ~WillReload(task[s])
    PROVE  BadgeInv'
<1>1. /\ DOMAIN task' = Slot /\ task'[s] = t
      /\ \A u \in Slot \ {s} : task'[u] = task[u]
  BY DEF Goto, BadgeInv
<1>2. CASE UNCHANGED row /\ badge' = PrivateUnreadTotal
  BY <1>1, <1>2, TotalKept DEF BadgeInv
<1>3. CASE WillReload(t)
  BY <1>1, <1>3 DEF BadgeInv
<1>4. CASE UNCHANGED <<row, badge>> /\ ~WillReload(task[s])
  <2>1. badge = PrivateUnreadTotal \/ \E u \in Slot \ {s} : WillReload(task[u])
    BY <1>4 DEF BadgeInv
  <2>2. CASE badge = PrivateUnreadTotal
    BY <1>1, <1>4, <2>2, TotalKept DEF BadgeInv
  <2>3. CASE \E u \in Slot \ {s} : WillReload(task[u])
    BY <1>1, <2>3 DEF BadgeInv
  <2> QED
    BY <2>1, <2>2, <2>3
<1> QED
  BY <1>2, <1>3, <1>4

(* The steps of a call.                                                    *)
LEMMA BadgeHandlers ==
    ASSUME BadgeInv, NEW s \in Slot, HandlerStep(s)
    PROVE  BadgeInv'
<1>0. "pc" \in DOMAIN task[s] /\ "pc" \in DOMAIN Idle
  BY DEF BadgeInv, Idle
<1>1. CASE ReadExisting(s) \/ Decide(s) \/ Show(s) \/ Opened(s) \/ Lookup(s)
  <2>1. ~WillReload(task[s]) /\ UNCHANGED <<row, badge>>
    BY <1>1 DEF ReadExisting, Decide, Show, Opened, Lookup, WillReload, store, view
  <2>2. PICK t : Goto(s, t) /\ "pc" \in DOMAIN t
    <3>1. CASE ReadExisting(s)
      BY <1>0, <3>1 DEF ReadExisting
    <3>2. CASE Decide(s)
      BY <3>2 DEF Decide
    <3>3. CASE Show(s)
      BY <1>0, <3>3 DEF Show
    <3>4. CASE Opened(s)
      BY <1>0, <3>4 DEF Opened, Return
    <3>5. CASE Lookup(s)
      BY <1>0, <3>5 DEF Lookup
    <3> QED
      BY <1>1, <3>1, <3>2, <3>3, <3>4, <3>5
  <2> QED
    BY <2>1, <2>2, BadgeMoves
<1>2. CASE FileConversation(s) \/ Create(s) \/ StoreMessage(s) \/ Mark(s)
  <2>1. PICK t : Goto(s, t) /\ "pc" \in DOMAIN t /\ t.pc \in {"store", "showDirect", "reload", "markStored"}
    <3>1. CASE FileConversation(s)
      BY <1>0, <3>1 DEF FileConversation
    <3>2. CASE Create(s)
      BY <3>2 DEF Create
    <3>3. CASE StoreMessage(s)
      BY <3>3 DEF StoreMessage
    <3>4. CASE Mark(s)
      BY <1>0, <3>4 DEF Mark
    <3> QED
      BY <1>2, <3>1, <3>2, <3>3, <3>4
  <2> QED
    BY <2>1, BadgeMoves DEF WillReload
<1>3. CASE Reload(s) \/ ShowDirect(s)
  <2>1. UNCHANGED row /\ badge' = PrivateUnreadTotal
    BY <1>3 DEF Reload, ShowDirect, store
  <2>2. PICK t : Goto(s, t) /\ "pc" \in DOMAIN t
    BY <1>0, <1>3 DEF Reload, ShowDirect, Return
  <2> QED
    BY <2>1, <2>2, BadgeMoves
<1> QED
  BY <1>1, <1>2, <1>3 DEF HandlerStep

(* A call that begins, and what leaves the calls alone.                    *)
LEMMA BadgeOthers ==
    ASSUME BadgeInv, UNCHANGED <<row, badge>>,
           \/ UNCHANGED task
           \/ \E s \in Slot : \E t : task[s] = Idle /\ Goto(s, t) /\ "pc" \in DOMAIN t
    PROVE  BadgeInv'
<1>1. CASE UNCHANGED task
  BY <1>1, TotalKept DEF BadgeInv
<1>2. ASSUME NEW s \in Slot, NEW t, task[s] = Idle, Goto(s, t), "pc" \in DOMAIN t
      PROVE  BadgeInv'
  <2>1. ~WillReload(task[s])
    BY <1>2 DEF WillReload, Idle
  <2> QED
    BY <1>2, <2>1, BadgeMoves
<1> QED
  BY <1>1, <1>2

LEMMA BadgeNext ==
    ASSUME BadgeInv, [Next]_vars
    PROVE  BadgeInv'
<1>1. CASE UNCHANGED vars
  BY <1>1, BadgeOthers DEF vars
<1>2. CASE Tick \/ SelectHall \/ \E c \in Conv : RemoteSend(c)
  BY <1>2, BadgeOthers DEF Tick, SelectHall, RemoteSend, world, store, view
<1>3. CASE Exit
  <2>1. badge' = PrivateUnreadTotal /\ UNCHANGED row /\ task' = [s \in Slot |-> Idle]
    BY <1>3 DEF Exit, store
  <2> QED
    BY <2>1, TotalKept DEF BadgeInv, Idle
<1>4. ASSUME NEW s \in Slot, NEW m \in sent, NEW copy \in Copies, Arrive(s, m, copy)
      PROVE  BadgeInv'
  BY <1>4, BadgeOthers DEF Arrive, store, view
<1>5. ASSUME NEW s \in Slot, NEW t, NEW then, SelectTab(s, t, then) PROVE BadgeInv'
  <2>1. task[s] = Idle /\ UNCHANGED <<row, badge>>
    BY <1>5 DEF SelectTab, store
  <2>2. CASE selected \in Conv
    BY <1>5, <2>1, <2>2, BadgeOthers DEF SelectTab
  <2>3. CASE selected \notin Conv /\ selected = Lobby /\ then \in Conv
    BY <1>5, <2>1, <2>3, BadgeOthers DEF SelectTab
  <2>4. CASE selected \notin Conv /\ ~(selected = Lobby /\ then \in Conv)
    BY <1>5, <2>1, <2>4, BadgeOthers DEF SelectTab
  <2> QED
    BY <2>2, <2>3, <2>4
<1>6. ASSUME NEW s \in Slot, NEW c \in Conv, OpenDirectChat(s, c) PROVE BadgeInv'
  BY <1>6, BadgeOthers DEF OpenDirectChat, store, view
<1> QED
  BY <1>1, <1>2, <1>3, <1>4, <1>5, <1>6, BadgeHandlers DEF Next

(* The badge on the tab is the sum of the counters once nothing is under   *)
(* way, however calls overlap and whatever uuids messages travel under.    *)
THEOREM BadgeIsFresh == Spec => []BadgeFresh
<1>1. Init => BadgeInv
  <2> SUFFICES ASSUME Init PROVE BadgeInv
    OBVIOUS
  <2>1. DOMAIN task = Slot /\ \A s \in Slot : "pc" \in DOMAIN task[s]
    BY DEF Init, Idle
  <2> QED
    BY <2>1 DEF BadgeInv, Init
<1>2. BadgeInv => BadgeFresh
  BY DEF BadgeInv, BadgeFresh, Quiet, WillReload, Idle
<1> QED
  BY <1>1, <1>2, BadgeNext, PTL DEF Spec

-----------------------------------------------------------------------------
(* One call at a time: the counters, the flags and the open conversation.  *)
Serial == \A s, t \in Slot : s = t

Clear(c) == row[c].unread = 0 /\ UnreadRows(c) = {}

(* The row a call has read is still the row; a message is counted only     *)
(* while its conversation is not shown; the conversation that is shown has *)
(* nothing unread, or the call that will mark it is under way.             *)
ReadStands ==
    \A s \in Slot : task[s].pc \in {"decide", "file", "create"} =>
        task[s].existing = row[task[s].conv]
CountsUnseen ==
    \A s \in Slot :
        /\ task[s].pc \in {"read", "decide", "file", "store"} => task[s].conv = task[s].msg.conv
        /\ task[s].pc \in {"file", "store"} /\ task[s].inc => ~Shown(task[s].conv)
ShownClear ==
    \A c \in Conv : Shown(c) =>
        Clear(c) \/ \E s \in Slot : task[s].pc \in {"mark", "opened"} /\ task[s].conv = c

ViewInv == Typed /\ ReadStands /\ CountsUnseen /\ ShownClear

(* Numbers are given once, and nobody's clock is ahead.                    *)
SentOnce ==
    /\ \A m \in sent : m.sentAt <= clock /\ m.seq <= Cardinality({x \in sent : x.conv = m.conv})
    /\ \A m, n \in sent : m.conv = n.conv /\ m.seq = n.seq => m = n

(* What is stored or being stored was sent; a message is stored once.      *)
FromSent ==
    /\ \A s \in Slot : task[s].pc \in {"read", "decide", "file", "store"} =>
          task[s].msg \in sent
    /\ \A r \in messages : [conv |-> r.conv, seq |-> r.seq, sentAt |-> r.sentAt] \in sent
    /\ \A r, q \in messages : r.conv = q.conv /\ r.seq = q.seq => r = q

(* Unread is what was sent after the last reading: a call that counts its  *)
(* message has one of those in hand, one that does not can hide no unread  *)
(* row; and what is read is older, or its conversation is about to be      *)
(* marked, or an exit came between.                                        *)
UnreadSince ==
    /\ \A r \in messages : ~r.isRead => r.sentAt > row[r.conv].lastRead
    /\ \A s \in Slot : task[s].pc \in {"file", "store"} =>
          IF task[s].inc THEN task[s].msg.sentAt > row[task[s].conv].lastRead
          ELSE task[s].msg.sentAt <= row[task[s].conv].lastRead \/ UnreadRows(task[s].conv) = {}
    /\ exits = 0 => \A r \in messages : r.isRead =>
          r.sentAt <= row[r.conv].lastRead
            \/ \E s \in Slot : task[s].pc = "markStored" /\ task[s].conv = r.conv

Counted ==
    /\ exits \in Nat
    /\ \A c \in Conv :
        /\ IsFiniteSet(UnreadRows(c))
        /\ row[c].unread <= Cardinality(UnreadRows(c))
        /\ exits = 0 => row[c].unread = Cardinality(UnreadRows(c))

MatchInv == ViewInv /\ SentOnce /\ FromSent /\ UnreadSince /\ Counted

(* The types alone, for any uuids.                                         *)
LEMMA TaskTyped ==
    ASSUME Typed, NEW s \in Slot, HandlerStep(s)
    PROVE  \E t \in Task \cup {Idle} : Goto(s, t)
<1>0. task[s] \in Task \cup {Idle} /\ row \in [Conv -> ConvRow]
  BY DEF Typed
<1>1. CASE ReadExisting(s)
  <2>1. task[s] \in [pc : {"read", "decide"}, conv : Conv, msg : Message,
                     copy : Copies, existing : ConvRow]
    BY <1>0, <1>1, TaskKinds DEF ReadExisting
  <2>2. [task[s] EXCEPT !.pc = "decide", !.existing = row[task[s].conv]] \in Task
    BY <1>0, <2>1 DEF Task
  <2> QED
    BY <1>1, <2>2 DEF ReadExisting
<1>2. CASE Decide(s)
  <2>1. task[s] \in [pc : {"read", "decide"}, conv : Conv, msg : Message,
                     copy : Copies, existing : ConvRow]
    BY <1>0, <1>2, TaskKinds DEF Decide
  <2>2. ShouldIncrementUnread(task[s]) \in BOOLEAN
    BY DEF ShouldIncrementUnread
  <2>3. [pc |-> "file", conv |-> task[s].conv, msg |-> task[s].msg, copy |-> task[s].copy,
         existing |-> task[s].existing, inc |-> ShouldIncrementUnread(task[s])] \in Task
    BY <2>1, <2>2 DEF Task
  <2> QED
    BY <1>2, <2>3 DEF Decide
<1>3. CASE FileConversation(s) \/ StoreMessage(s)
  <2>1. task[s] \in [pc : {"file", "store"}, conv : Conv, msg : Message,
                     copy : Copies, existing : ConvRow, inc : BOOLEAN]
    BY <1>0, <1>3, TaskKinds DEF FileConversation, StoreMessage
  <2>2. /\ [task[s] EXCEPT !.pc = "store"] \in Task
        /\ [pc |-> IF task[s].inc THEN "reload" ELSE "markStored",
            conv |-> task[s].conv, then |-> Lobby] \in Task
    BY <2>1 DEF Task
  <2> QED
    BY <1>3, <2>2 DEF FileConversation, StoreMessage
<1>4. CASE Mark(s) \/ Reload(s)
  <2>1. task[s] \in [pc : {"mark", "markStored", "reload"}, conv : Conv, then : Conv \cup {Lobby}]
    BY <1>0, <1>4, TaskKinds DEF Mark, Reload
  <2>2. /\ [task[s] EXCEPT !.pc = "reload"] \in Task
        /\ task[s].then # Lobby => [pc |-> "show", conv |-> task[s].then] \in Task
    BY <2>1 DEF Task
  <2> QED
    BY <1>4, <2>2 DEF Mark, Reload, Return
<1>5. CASE Show(s) \/ Opened(s) \/ ShowDirect(s)
  <2>1. task[s] \in [pc : {"show", "showDirect", "opened"}, conv : Conv]
    BY <1>0, <1>5, TaskKinds DEF Show, Opened, ShowDirect
  <2>2. /\ [task[s] EXCEPT !.pc = "opened"] \in Task
        /\ [pc |-> "opened", conv |-> task[s].conv] \in Task
        /\ [pc |-> "mark", conv |-> task[s].conv, then |-> Lobby] \in Task
    BY <2>1 DEF Task
  <2> QED
    BY <1>5, <2>2 DEF Show, Opened, ShowDirect, Return
<1>6. CASE Lookup(s) \/ Create(s)
  <2>1. task[s] \in [pc : {"lookup", "create"}, conv : Conv, existing : ConvRow]
    BY <1>0, <1>6, TaskKinds DEF Lookup, Create
  <2>2. /\ [task[s] EXCEPT !.pc = "create", !.existing = row[task[s].conv]] \in Task
        /\ [pc |-> "showDirect", conv |-> task[s].conv] \in Task
    BY <1>0, <2>1 DEF Task
  <2> QED
    BY <1>6, <2>2 DEF Lookup, Create
<1> QED
  BY <1>1, <1>2, <1>3, <1>4, <1>5, <1>6 DEF HandlerStep

(* What a handler leaves in the tables.                                    *)
LEMMA FiledRow ==
    ASSUME Typed, NEW c \in Conv, NEW existing \in ConvRow, UpsertConversation(c, existing)
    PROVE  /\ row' \in [Conv -> ConvRow] /\ \A d \in Conv \ {c} : row'[d] = row[d]
           /\ row'[c].unread = existing.unread /\ row'[c].lastRead = existing.lastRead
BY DEF Typed, UpsertConversation, ConvRow

LEMMA MarkedRow ==
    ASSUME Typed, NEW c \in Conv, MarkConversationRead(c)
    PROVE  /\ row' \in [Conv -> ConvRow] /\ messages' \subseteq Stored
           /\ \A d \in Conv \ {c} : row'[d] = row[d]
           /\ row'[c].unread = 0 /\ row'[c].lastRead = clock
           /\ \A r \in messages' : \E q \in messages :
                 /\ r.conv = q.conv /\ r.seq = q.seq /\ r.sentAt = q.sentAt
                 /\ IF r.conv = c THEN r.isRead /\ r = [q EXCEPT !.isRead = TRUE] ELSE r = q
           /\ \A r \in messages : r.conv # c => r \in messages'
<1>1. /\ row' = [row EXCEPT ![c].unread = 0, ![c].lastRead = clock]
      /\ messages' = {IF r.conv = c THEN [r EXCEPT !.isRead = TRUE] ELSE r : r \in messages}
  BY DEF MarkConversationRead
<1>2. row[c] \in ConvRow /\ row \in [Conv -> ConvRow] /\ clock \in Nat /\ messages \subseteq Stored
  BY DEF Typed
<1>3. /\ row' \in [Conv -> ConvRow] /\ \A d \in Conv \ {c} : row'[d] = row[d]
      /\ row'[c].unread = 0 /\ row'[c].lastRead = clock
  BY <1>1, <1>2 DEF ConvRow
<1>4. \A q \in messages : LET r == [q EXCEPT !.isRead = TRUE] IN
         r \in Stored /\ r.conv = q.conv /\ r.seq = q.seq /\ r.sentAt = q.sentAt /\ r.isRead
  BY <1>2 DEF Stored
<1>5. \A r \in messages' : \E q \in messages :
         /\ r.conv = q.conv /\ r.seq = q.seq /\ r.sentAt = q.sentAt /\ r \in Stored
         /\ IF r.conv = c THEN r.isRead /\ r = [q EXCEPT !.isRead = TRUE] ELSE r = q
  BY <1>1, <1>2, <1>4
<1> QED
  BY <1>1, <1>3, <1>5

LEMMA StoredRow ==
    ASSUME Typed, NEW m \in Message, NEW copy \in Copies, NEW inc \in BOOLEAN,
           UpsertMessage(m, copy, inc)
    PROVE  /\ row' \in [Conv -> ConvRow] /\ messages' \subseteq Stored
           /\ \A d \in Conv \ {m.conv} : row'[d] = row[d]
           /\ row'[m.conv].lastRead = row[m.conv].lastRead /\ (~inc => row' = row)
           /\ \E rec \in Stored :
                 /\ rec.conv = m.conv /\ rec.seq = m.seq /\ rec.sentAt = m.sentAt
                 /\ rec.copy = copy /\ rec.isRead = ~inc
                 /\ messages' = {r \in messages : r.conv # m.conv \/ r.seq # m.seq} \cup {rec}
<1> DEFINE rec == [conv |-> m.conv, seq |-> m.seq, copy |-> copy,
                   sentAt |-> m.sentAt, isRead |-> ~inc]
           new == ~ \E r \in Of(m.conv) : r.seq = m.seq /\ r.copy = copy
<1>1. /\ messages' = {r \in messages : r.conv # m.conv \/ r.seq # m.seq} \cup {rec}
      /\ row' = IF inc /\ new THEN [row EXCEPT ![m.conv].unread = @ + 1] ELSE row
  BY DEF UpsertMessage
<1>2. rec \in Stored /\ m.conv \in Conv
  BY DEF Stored, Message
<1>3. /\ rec.conv = m.conv /\ rec.seq = m.seq /\ rec.sentAt = m.sentAt
      /\ rec.copy = copy /\ rec.isRead = ~inc
  OBVIOUS
<1> HIDE DEF rec, new
<1>4. row \in [Conv -> ConvRow] /\ row[m.conv] \in ConvRow /\ messages \subseteq Stored
  BY <1>2 DEF Typed
<1>5. /\ [row[m.conv] EXCEPT !.unread = @ + 1] \in ConvRow
      /\ [row[m.conv] EXCEPT !.unread = @ + 1].lastRead = row[m.conv].lastRead
  BY <1>4 DEF ConvRow
<1>6. /\ row' \in [Conv -> ConvRow] /\ \A d \in Conv \ {m.conv} : row'[d] = row[d]
      /\ row'[m.conv].lastRead = row[m.conv].lastRead /\ (~inc => row' = row)
  BY <1>1, <1>2, <1>4, <1>5
<1>7. messages' \subseteq Stored
  BY <1>1, <1>2, <1>4
<1> QED
  BY <1>1, <1>2, <1>3, <1>6, <1>7

LEMMA TypedHandlers ==
    ASSUME Typed, NEW s \in Slot, HandlerStep(s)
    PROVE  Typed'
<1>0. /\ task[s] \in Task \cup {Idle} /\ row \in [Conv -> ConvRow] /\ messages \subseteq Stored
      /\ UNCHANGED <<sent, clock>>
  BY DEF Typed, HandlerStep, ReadExisting, Decide, FileConversation, StoreMessage, Mark, Reload,
     Show, Opened, Lookup, Create, ShowDirect, world
<1>1. task' \in [Slot -> Task \cup {Idle}]
  <2>1. PICK t \in Task \cup {Idle} : Goto(s, t)
    BY TaskTyped
  <2> QED
    BY <2>1 DEF Typed, Goto
<1>2. row' \in [Conv -> ConvRow] /\ messages' \subseteq Stored
  <2>1. CASE FileConversation(s)
    <3>1. /\ task[s].conv \in Conv /\ task[s].existing \in ConvRow
          /\ UpsertConversation(task[s].conv, task[s].existing) /\ UNCHANGED messages
      BY <1>0, <2>1, TaskKinds DEF FileConversation
    <3> QED
      BY <1>0, <3>1, FiledRow
  <2>2. CASE Create(s)
    <3>1. /\ task[s].conv \in Conv /\ task[s].existing \in ConvRow
          /\ UpsertConversation(task[s].conv, task[s].existing) /\ UNCHANGED messages
      BY <1>0, <2>2, TaskKinds DEF Create
    <3> QED
      BY <1>0, <3>1, FiledRow
  <2>3. CASE StoreMessage(s)
    <3>1. /\ task[s].msg \in Message /\ task[s].copy \in Copies /\ task[s].inc \in BOOLEAN
          /\ UpsertMessage(task[s].msg, task[s].copy, task[s].inc)
      BY <1>0, <2>3, TaskKinds DEF StoreMessage
    <3> QED
      BY <3>1, StoredRow
  <2>4. CASE Mark(s)
    <3>1. task[s].conv \in Conv /\ MarkConversationRead(task[s].conv)
      BY <1>0, <2>4, TaskKinds DEF Mark
    <3> QED
      BY <3>1, MarkedRow
  <2>5. CASE UNCHANGED <<row, messages>>
    BY <1>0, <2>5
  <2> QED
    BY <2>1, <2>2, <2>3, <2>4, <2>5 DEF HandlerStep, ReadExisting, Decide, Reload, Show, Opened,
       Lookup, ShowDirect, store
<1>3. selected' \in Conv \cup {Lobby}
  <2>1. CASE Show(s) \/ ShowDirect(s)
    BY <1>0, <2>1, TaskKinds DEF Show, ShowDirect
  <2>2. CASE UNCHANGED selected
    BY <2>2 DEF Typed
  <2> QED
    BY <2>1, <2>2 DEF HandlerStep, ReadExisting, Decide, FileConversation, StoreMessage, Mark,
       Reload, Opened, Lookup, Create, view
<1> QED
  BY <1>0, <1>1, <1>2, <1>3 DEF Typed

(* A call that begins, and what it is suspended with.                      *)
BeginStep(s) ==
    \/ \E m \in sent, copy \in Copies : Arrive(s, m, copy)
    \/ \E t \in {"hall", "direct"}, then \in Conv \cup {Lobby} : SelectTab(s, t, then)
    \/ \E c \in Conv : OpenDirectChat(s, c)

LEMMA Begins ==
    ASSUME Typed, NEW s \in Slot, BeginStep(s)
    PROVE  /\ task[s] = Idle /\ UNCHANGED <<row, messages, sent, clock, selected, exits>>
           /\ \E t \in Task \cup {Idle} :
                 /\ Goto(s, t)
                 /\ \/ t.pc = "read" /\ t.msg \in sent /\ t.conv = t.msg.conv /\ UNCHANGED tab
                    \/ t.pc = "lookup" /\ UNCHANGED tab
                    \/ t.pc = "mark" /\ selected \in Conv /\ t.conv = selected
                    \/ t.pc \in {"show", "idle"} /\ selected \notin Conv
<1>1. ASSUME NEW m \in sent, NEW copy \in Copies, Arrive(s, m, copy)
      PROVE  \E t \in Task : Goto(s, t) /\ t.pc = "read" /\ t.msg \in sent /\ t.conv = t.msg.conv
  <2>1. m \in Message /\ m.conv \in Conv
    BY DEF Typed, Message
  <2>2. [pc |-> "read", conv |-> m.conv, msg |-> m, copy |-> copy, existing |-> NoRow] \in Task
    BY <2>1 DEF Task, NoRow, ConvRow
  <2> QED
    BY <1>1, <2>2 DEF Arrive
<1>2. ASSUME NEW c \in Conv, OpenDirectChat(s, c)
      PROVE  \E t \in Task : Goto(s, t) /\ t.pc = "lookup"
  <2>1. [pc |-> "lookup", conv |-> c, existing |-> NoRow] \in Task
    BY DEF Task, NoRow, ConvRow
  <2> QED
    BY <1>2, <2>1 DEF OpenDirectChat
<1>3. ASSUME NEW t0, NEW then \in Conv \cup {Lobby}, SelectTab(s, t0, then)
      PROVE  \E t \in Task \cup {Idle} :
                 /\ Goto(s, t)
                 /\ \/ t.pc = "mark" /\ selected \in Conv /\ t.conv = selected
                    \/ t.pc \in {"show", "idle"} /\ selected \notin Conv
  <2>1. selected \in Conv \cup {Lobby} /\ task[s] = Idle /\ Lobby \notin Conv
    BY <1>3, UnreadAssumption DEF Typed, SelectTab
  <2>2. CASE selected \in Conv
    <3>1. [pc |-> "mark", conv |-> selected, then |-> then] \in Task
      BY <2>2 DEF Task
    <3> QED
      BY <1>3, <2>1, <2>2, <3>1 DEF SelectTab
  <2>3. CASE selected \notin Conv /\ then \in Conv
    <3>1. [pc |-> "show", conv |-> then] \in Task
      BY <2>3 DEF Task
    <3> QED
      BY <1>3, <2>1, <2>3, <3>1 DEF SelectTab
  <2>4. CASE selected \notin Conv /\ then \notin Conv
    <3>1. UNCHANGED task
      BY <1>3, <2>4 DEF SelectTab
    <3>2. Goto(s, Idle) /\ Idle.pc = "idle"
      BY <2>1, <3>1 DEF Goto, Typed, Idle
    <3> QED
      BY <2>4, <3>2
  <2> QED
    BY <2>2, <2>3, <2>4
<1>4. task[s] = Idle /\ UNCHANGED <<row, messages, sent, clock, selected, exits>>
  BY DEF BeginStep, Arrive, SelectTab, OpenDirectChat, world, store, view
<1>5. ASSUME NEW m \in sent, NEW copy \in Copies, Arrive(s, m, copy) PROVE UNCHANGED tab
  BY <1>5 DEF Arrive, view
<1>6. ASSUME NEW c \in Conv, OpenDirectChat(s, c) PROVE UNCHANGED tab
  BY <1>6 DEF OpenDirectChat, view
<1> QED
  BY <1>1, <1>2, <1>3, <1>4, <1>5, <1>6 DEF BeginStep

LEMMA SendTyped ==
    ASSUME Typed, NEW c \in Conv, RemoteSend(c)
    PROVE  LET n == Cardinality({m \in sent : m.conv = c}) IN
           /\ n \in Nat
           /\ \E t \in Nat :
                 /\ t <= clock + ClockSkew
                 /\ [conv |-> c, seq |-> n + 1, sentAt |-> t] \in Message
                 /\ sent' = sent \cup {[conv |-> c, seq |-> n + 1, sentAt |-> t]}
<1> DEFINE n == Cardinality({m \in sent : m.conv = c})
<1>1. n < MaxSends
  BY DEF RemoteSend
<1>2. PICK t \in 1..MaxClock + 1 + ClockSkew :
          t <= clock + ClockSkew /\ sent' = sent \cup {[conv |-> c, seq |-> n + 1, sentAt |-> t]}
  BY DEF RemoteSend
<1>3. n \in Nat
  BY FS_Subset, FS_CardinalityType DEF Typed
<1>4. t \in Nat
  BY <1>2, UnreadAssumption
<1> HIDE DEF n
<1>5. [conv |-> c, seq |-> n + 1, sentAt |-> t] \in Message
  BY <1>1, <1>3, <1>4, UnreadAssumption DEF Message
<1> QED
  BY <1>2, <1>3, <1>4, <1>5 DEF n

LEMMA TypedNext ==
    ASSUME Typed, [Next]_vars
    PROVE  Typed'
<1>1. CASE UNCHANGED vars
  BY <1>1 DEF vars, Typed
<1>2. CASE Tick \/ SelectHall \/ Exit
  <2>1. CASE Tick
    BY <2>1 DEF Tick, Typed, store, view
  <2>2. CASE SelectHall
    BY <2>2 DEF SelectHall, Typed, store, world
  <2>3. CASE Exit
    BY <2>3 DEF Exit, Typed, store
  <2> QED
    BY <1>2, <2>1, <2>2, <2>3
<1>3. ASSUME NEW c \in Conv, RemoteSend(c) PROVE Typed'
  <2>1. UNCHANGED <<clock, row, messages, selected, task>>
    BY <1>3 DEF RemoteSend, store, view
  <2>2. PICK m \in Message : sent' = sent \cup {m}
    BY <1>3, SendTyped
  <2>3. IsFiniteSet(sent') /\ sent' \subseteq Message
    BY <2>2, FS_AddElement DEF Typed
  <2> QED
    BY <2>1, <2>3 DEF Typed
<1>4. ASSUME NEW s \in Slot, BeginStep(s) PROVE  Typed'
  <2>1. UNCHANGED <<row, messages, sent, clock, selected>> /\ \E t \in Task \cup {Idle} : Goto(s, t)
    BY <1>4, Begins
  <2> QED
    BY <2>1 DEF Typed, Goto
<1>5. ASSUME NEW s \in Slot, HandlerStep(s) PROVE Typed'
  BY <1>5, TypedHandlers
<1> QED
  BY <1>1, <1>2, <1>3, <1>4, <1>5 DEF Next, BeginStep

(* No call is about to mark: what is shown is clear.                       *)
LEMMA ShownNow ==
    ASSUME Serial, ViewInv, NEW s \in Slot, task[s].pc \notin {"mark", "opened"},
           NEW c \in Conv, Shown(c)
    PROVE  Clear(c)
BY DEF Serial, ViewInv, ShownClear

(* Fewer unread rows and the same counter.                                 *)
LEMMA ClearKept ==
    ASSUME NEW c \in Conv, Clear(c), row'[c].unread = row[c].unread,
           \A r \in messages' : r.conv = c /\ ~r.isRead => r \in messages
    PROVE  Clear(c)'
BY DEF Clear, UnreadRows, Of

(* The only call goes on with t.                                           *)
LEMMA ViewMoves ==
    ASSUME Serial, Typed, Typed', NEW s \in Slot, NEW t, Goto(s, t),
           t.pc \in {"decide", "file", "create"} => t.existing = row'[t.conv],
           t.pc \in {"read", "decide", "file", "store"} => t.conv = t.msg.conv,
           t.pc \in {"file", "store"} /\ t.inc => ~(tab' = "direct" /\ selected' = t.conv),
           \A c \in Conv : tab' = "direct" /\ selected' = c =>
               Clear(c)' \/ (t.pc \in {"mark", "opened"} /\ t.conv = c)
    PROVE  ViewInv'
<1>1. \A u \in Slot : u = s
  BY DEF Serial
<1>2. task'[s] = t
  BY DEF Goto, Typed
<1>3. ReadStands'
  BY <1>1, <1>2 DEF ReadStands
<1>4. CountsUnseen'
  BY <1>1, <1>2 DEF CountsUnseen, Shown
<1>5. ShownClear'
  <2> SUFFICES ASSUME NEW c \in Conv, tab' = "direct" /\ selected' = c,
                      ~Clear(c)'
               PROVE  \E u \in Slot : task'[u].pc \in {"mark", "opened"} /\ task'[u].conv = c
    BY DEF ShownClear, Shown
  <2> QED
    BY <1>2
<1> QED
  BY <1>3, <1>4, <1>5 DEF ViewInv

(* The only call goes on with t, the view stays, and what was shown stays  *)
(* clear.                                                                  *)
LEMMA ViewStays ==
    ASSUME Serial, ViewInv, Typed', NEW s \in Slot, NEW t, Goto(s, t), UNCHANGED <<tab, selected>>,
           task[s].pc \notin {"mark", "opened"},
           \A c \in Conv : Shown(c) =>
               /\ row'[c].unread = row[c].unread
               /\ \A r \in messages' : r.conv = c /\ ~r.isRead => r \in messages,
           t.pc \in {"decide", "file", "create"} => t.existing = row'[t.conv],
           t.pc \in {"read", "decide", "file", "store"} => t.conv = t.msg.conv,
           t.pc \in {"file", "store"} /\ t.inc => ~Shown(t.conv)
    PROVE  ViewInv'
<1>1. ASSUME NEW c \in Conv, tab' = "direct" /\ selected' = c PROVE Clear(c)'
  <2>1. Shown(c)
    BY <1>1 DEF Shown
  <2>2. Clear(c)
    BY <2>1, ShownNow
  <2> QED
    BY <2>1, <2>2, ClearKept
<1>2. t.pc \in {"file", "store"} /\ t.inc => ~(tab' = "direct" /\ selected' = t.conv)
  BY DEF Shown
<1>3. Typed
  BY DEF ViewInv
<1> QED
  BY <1>1, <1>2, <1>3, ViewMoves

(* An incoming message.                                                    *)
LEMMA ViewArrival ==
    ASSUME Serial, ViewInv, Typed', NEW s \in Slot,
           ReadExisting(s) \/ Decide(s) \/ FileConversation(s) \/ StoreMessage(s)
    PROVE  ViewInv'
<1>0. /\ task[s] \in Task \cup {Idle} /\ task[s].conv = task[s].msg.conv
      /\ task[s].pc \in {"read", "decide", "file", "store"}
      /\ UNCHANGED <<tab, selected>>
  BY DEF ViewInv, Typed, CountsUnseen, ReadExisting, Decide, FileConversation, StoreMessage, view
<1>1. CASE ReadExisting(s)
  <2> DEFINE t == [task[s] EXCEPT !.pc = "decide", !.existing = row[task[s].conv]]
  <2>1. task[s].pc = "read" /\ Goto(s, t) /\ UNCHANGED <<row, messages>>
    BY <1>1 DEF ReadExisting, store
  <2>2. task[s] \in [pc : {"read", "decide"}, conv : Conv, msg : Message,
                     copy : Copies, existing : ConvRow]
    BY <1>0, <2>1, TaskKinds
  <2>3. /\ t.pc = "decide" /\ t.conv = task[s].conv /\ t.msg = task[s].msg
        /\ t.existing = row[t.conv]
    BY <2>2
  <2> HIDE DEF t
  <2> QED
    BY <1>0, <2>1, <2>3, ViewStays
<1>2. CASE Decide(s)
  <2> DEFINE t == [pc |-> "file", conv |-> task[s].conv, msg |-> task[s].msg,
                   copy |-> task[s].copy, existing |-> task[s].existing,
                   inc |-> ShouldIncrementUnread(task[s])]
  <2>1. task[s].pc = "decide" /\ Goto(s, t) /\ UNCHANGED <<row, messages>>
    BY <1>2 DEF Decide, store
  <2>2. /\ t.pc = "file" /\ t.conv = task[s].conv /\ t.msg = task[s].msg
        /\ t.existing = task[s].existing /\ t.inc = ShouldIncrementUnread(task[s])
    OBVIOUS
  <2>3. t.existing = row'[t.conv]
    BY <2>1, <2>2 DEF ViewInv, ReadStands
  <2>4. t.inc => ~Shown(t.conv)
    BY <2>2 DEF ShouldIncrementUnread
  <2> HIDE DEF t
  <2> QED
    BY <1>0, <2>1, <2>2, <2>3, <2>4, ViewStays
<1>3. CASE FileConversation(s)
  <2> DEFINE t == [task[s] EXCEPT !.pc = "store"]
  <2>1. /\ task[s].pc = "file" /\ Goto(s, t) /\ UNCHANGED messages
        /\ UpsertConversation(task[s].conv, task[s].existing)
    BY <1>3 DEF FileConversation
  <2>2. task[s] \in [pc : {"file", "store"}, conv : Conv, msg : Message,
                     copy : Copies, existing : ConvRow, inc : BOOLEAN]
    BY <1>0, <2>1, TaskKinds
  <2>3. t.pc = "store" /\ t.conv = task[s].conv /\ t.msg = task[s].msg /\ t.inc = task[s].inc
    BY <2>2
  <2>4. task[s].existing = row[task[s].conv] /\ (t.inc => ~Shown(t.conv))
    BY <2>1, <2>3 DEF ViewInv, ReadStands, CountsUnseen
  <2>5. \A c \in Conv : row'[c].unread = row[c].unread
    BY <2>1, <2>2, <2>4, FiledRow DEF ViewInv
  <2> HIDE DEF t
  <2> QED
    BY <1>0, <2>1, <2>3, <2>4, <2>5, ViewStays
<1>4. CASE StoreMessage(s)
  <2> DEFINE t == [pc |-> IF task[s].inc THEN "reload" ELSE "markStored",
                   conv |-> task[s].conv, then |-> Lobby]
  <2>1. /\ task[s].pc = "store" /\ Goto(s, t)
        /\ UpsertMessage(task[s].msg, task[s].copy, task[s].inc)
    BY <1>4 DEF StoreMessage
  <2>2. task[s].msg \in Message /\ task[s].copy \in Copies /\ task[s].inc \in BOOLEAN
    BY <1>0, <2>1, TaskKinds
  <2>3. t.pc \in {"reload", "markStored"}
    OBVIOUS
  <2>4. task[s].inc => ~Shown(task[s].msg.conv)
    BY <1>0, <2>1 DEF ViewInv, CountsUnseen
  <2> HIDE DEF t
  <2>5. /\ \A d \in Conv \ {task[s].msg.conv} : row'[d] = row[d]
        /\ ~task[s].inc => row' = row
    BY <2>1, <2>2, StoredRow DEF ViewInv
  <2>6. PICK rec \in Stored :
            /\ rec.conv = task[s].msg.conv /\ rec.isRead = ~task[s].inc
            /\ messages' = {r \in messages : r.conv # task[s].msg.conv
                                               \/ r.seq # task[s].msg.seq} \cup {rec}
    BY <2>1, <2>2, StoredRow DEF ViewInv
  <2>7. ASSUME NEW c \in Conv, Shown(c)
        PROVE  /\ row'[c].unread = row[c].unread
               /\ \A r \in messages' : r.conv = c /\ ~r.isRead => r \in messages
    BY <2>4, <2>5, <2>6, <2>7
  <2> QED
    BY <1>0, <2>1, <2>3, <2>7, ViewStays
<1> QED
  BY <1>1, <1>2, <1>3, <1>4

(* The calls of the user, and the reload.                                  *)
LEMMA ViewCalls ==
    ASSUME Serial, ViewInv, Typed', NEW s \in Slot,
           Mark(s) \/ Reload(s) \/ Show(s) \/ Opened(s) \/ Lookup(s) \/ Create(s) \/ ShowDirect(s)
    PROVE  ViewInv'
<1>0. task[s] \in Task \cup {Idle} /\ Typed
  BY DEF ViewInv, Typed
<1>1. CASE Mark(s)
  <2> DEFINE t == [task[s] EXCEPT !.pc = "reload"]
             c == task[s].conv
  <2>1. /\ task[s].pc \in {"mark", "markStored"} /\ Goto(s, t) /\ UNCHANGED <<tab, selected>>
        /\ MarkConversationRead(c)
    BY <1>1 DEF Mark, view
  <2>2. c \in Conv /\ t.pc = "reload"
    BY <1>0, <2>1, TaskKinds
  <2> HIDE DEF t, c
  <2>3. /\ \A d \in Conv \ {c} : row'[d] = row[d]
        /\ row'[c].unread = 0
        /\ \A r \in messages' : IF r.conv = c THEN r.isRead ELSE r \in messages
    BY <1>0, <2>1, <2>2, MarkedRow
  <2>4. ASSUME NEW d \in Conv, tab' = "direct" /\ selected' = d PROVE Clear(d)'
    <3>1. CASE d = c
      BY <2>3, <3>1 DEF Clear, UnreadRows, Of
    <3>2. CASE d # c
      <4>1. Shown(d)
        BY <2>1, <2>4 DEF Shown
      <4>2. Clear(d)
        BY <3>2, <4>1 DEF c, ViewInv, ShownClear, Serial
      <4> QED
        BY <2>3, <3>2, <4>2, ClearKept
    <3> QED
      BY <3>1, <3>2
  <2> QED
    BY <1>0, <2>1, <2>2, <2>4, ViewMoves
<1>2. CASE Reload(s)
  <2>1. task[s].pc = "reload" /\ UNCHANGED <<row, messages, tab, selected>>
    BY <1>2 DEF Reload, store
  <2>2. PICK t : Goto(s, t) /\ t.pc \in {"idle", "show"}
    BY <1>2 DEF Reload, Return, Idle
  <2> QED
    BY <2>1, <2>2, ViewStays
<1>3. CASE Show(s) \/ ShowDirect(s)
  <2>1. task[s] \in [pc : {"show", "showDirect", "opened"}, conv : Conv] /\ selected' = task[s].conv
    BY <1>0, <1>3, TaskKinds DEF Show, ShowDirect
  <2>2. PICK t : Goto(s, t) /\ t.pc = "opened" /\ t.conv = task[s].conv
    BY <1>3, <2>1 DEF Show, ShowDirect
  <2> QED
    BY <1>0, <2>1, <2>2, ViewMoves
<1>4. CASE Opened(s)
  <2>1. task[s].pc = "opened" /\ UNCHANGED <<row, messages, tab, selected>>
    BY <1>4 DEF Opened, store, view
  <2>2. CASE selected \in Conv
    <3>1. PICK t : Goto(s, t) /\ t.pc = "mark" /\ t.conv = task[s].conv
      BY <1>4, <2>2 DEF Opened
    <3>2. ASSUME NEW c \in Conv, tab' = "direct" /\ selected' = c PROVE Clear(c)' \/ t.conv = c
      <4>1. Clear(c) \/ task[s].conv = c
        BY <2>1, <3>2 DEF ViewInv, ShownClear, Shown, Serial
      <4> QED
        BY <2>1, <3>1, <4>1, ClearKept
    <3> QED
      BY <1>0, <3>1, <3>2, ViewMoves
  <2>3. CASE selected \notin Conv
    <3>1. Goto(s, Idle) /\ Idle.pc = "idle"
      BY <1>4, <2>3 DEF Opened, Return, Idle
    <3> QED
      BY <1>0, <2>1, <2>3, <3>1, ViewMoves
  <2> QED
    BY <2>2, <2>3
<1>5. CASE Lookup(s)
  <2> DEFINE t == [task[s] EXCEPT !.pc = "create", !.existing = row[task[s].conv]]
  <2>1. task[s].pc = "lookup" /\ Goto(s, t) /\ UNCHANGED <<row, messages, tab, selected>>
    BY <1>5 DEF Lookup, store, view
  <2>2. task[s] \in [pc : {"lookup", "create"}, conv : Conv, existing : ConvRow]
    BY <1>0, <2>1, TaskKinds
  <2>3. t.pc = "create" /\ t.existing = row[t.conv]
    BY <2>2
  <2> HIDE DEF t
  <2> QED
    BY <2>1, <2>3, ViewStays
<1>6. CASE Create(s)
  <2> DEFINE t == [pc |-> "showDirect", conv |-> task[s].conv]
  <2>1. /\ task[s].pc = "create" /\ Goto(s, t) /\ UNCHANGED <<messages, tab, selected>>
        /\ UpsertConversation(task[s].conv, task[s].existing)
    BY <1>6 DEF Create, view
  <2>2. task[s] \in [pc : {"lookup", "create"}, conv : Conv, existing : ConvRow]
    BY <1>0, <2>1, TaskKinds
  <2>3. task[s].existing = row[task[s].conv]
    BY <2>1 DEF ViewInv, ReadStands
  <2>4. \A c \in Conv : row'[c].unread = row[c].unread
    BY <1>0, <2>1, <2>2, <2>3, FiledRow
  <2>5. t.pc = "showDirect"
    OBVIOUS
  <2> HIDE DEF t
  <2> QED
    BY <2>1, <2>4, <2>5, ViewStays
<1> QED
  BY <1>1, <1>2, <1>3, <1>4, <1>5, <1>6

LEMMA ViewNext ==
    ASSUME Serial, ViewInv, [Next]_vars
    PROVE  ViewInv'
<1>0. Typed /\ Typed' /\ task \in [Slot -> Task \cup {Idle}]
  BY TypedNext DEF ViewInv, Typed
<1>1. CASE UNCHANGED <<row, messages, tab, selected, task>>
  BY <1>0, <1>1 DEF ViewInv, ReadStands, CountsUnseen, ShownClear, Shown, Clear, UnreadRows, Of
<1>2. CASE SelectHall \/ Exit
  <2>1. selected' = Lobby /\ UNCHANGED row /\ Lobby \notin Conv
    BY <1>2, UnreadAssumption DEF SelectHall, Exit, store
  <2>2. ASSUME NEW s \in Slot
        PROVE  task'[s] = task[s] \/ task'[s] = Idle
    BY <1>2 DEF SelectHall, Exit
  <2>3. ReadStands'
    BY <2>1, <2>2 DEF ViewInv, ReadStands, Idle
  <2>4. CountsUnseen'
    <3> SUFFICES ASSUME NEW s \in Slot, task'[s].pc \in {"read", "decide", "file", "store"}
                 PROVE  /\ task'[s].conv = task'[s].msg.conv
                        /\ task'[s].conv # selected'
      BY DEF CountsUnseen, Shown
    <3>1. task'[s] = task[s]
      BY <2>2 DEF Idle
    <3>2. task[s].conv \in Conv
      BY <1>0, <3>1, TaskKinds
    <3> QED
      BY <2>1, <3>1, <3>2 DEF ViewInv, CountsUnseen
  <2>5. ShownClear'
    BY <2>1 DEF ShownClear, Shown
  <2> QED
    BY <1>0, <2>3, <2>4, <2>5 DEF ViewInv
<1>3. ASSUME NEW s \in Slot, BeginStep(s) PROVE  ViewInv'
  <2>1. task[s] = Idle /\ UNCHANGED <<row, messages, selected>>
    BY <1>0, <1>3, Begins
  <2>2. PICK t \in Task \cup {Idle} :
            /\ Goto(s, t)
            /\ \/ t.pc = "read" /\ t.conv = t.msg.conv /\ UNCHANGED tab
               \/ t.pc = "lookup" /\ UNCHANGED tab
               \/ t.pc = "mark" /\ selected \in Conv /\ t.conv = selected
               \/ t.pc \in {"show", "idle"} /\ selected \notin Conv
    BY <1>0, <1>3, Begins
  <2>3. CASE t.pc \in {"read", "lookup"}
    BY <1>0, <2>1, <2>2, <2>3, ViewStays DEF Idle
  <2>4. CASE t.pc \in {"mark", "show", "idle"}
    BY <1>0, <2>1, <2>2, <2>4, ViewMoves
  <2> QED
    BY <2>2, <2>3, <2>4
<1>4. ASSUME NEW s \in Slot, HandlerStep(s) PROVE ViewInv'
  BY <1>0, <1>4, ViewArrival, ViewCalls DEF HandlerStep
<1>5. CASE Tick \/ UNCHANGED vars \/ \E c \in Conv : RemoteSend(c)
  BY <1>1, <1>5 DEF Tick, RemoteSend, vars, store, view
<1> QED
  BY <1>2, <1>3, <1>4, <1>5 DEF Next, BeginStep

LEMMA ViewInit == Init => ViewInv
<1> SUFFICES ASSUME Init PROVE ViewInv
  OBVIOUS
<1>1. Typed
  BY CounterInit DEF CounterInv
<1>2. ReadStands /\ CountsUnseen
  BY DEF Init, ReadStands, CountsUnseen, Idle
<1>3. ShownClear
  BY UnreadAssumption DEF Init, ShownClear, Shown
<1> QED
  BY <1>1, <1>2, <1>3 DEF ViewInv

(* One call at a time: the conversation the user looks at has no unread    *)
(* messages once nothing is under way, through duplicates, late messages,  *)
(* uuids that change and exits.                                            *)
THEOREM ReadingClears ==
    ASSUME Serial
    PROVE  Spec => []ReadClears
<1>1. Init => ViewInv
  BY ViewInit
<1>2. ViewInv => ReadClears
  BY DEF ViewInv, ShownClear, ReadClears, Quiet, Clear, Idle
<1> QED
  BY <1>1, <1>2, ViewNext, PTL DEF Spec

-----------------------------------------------------------------------------
(* The counter and the rows.                                               *)

(* Numbers are given in order and times are not ahead.                     *)
LEMMA SentNext ==
    ASSUME ClockSkew = 0, Typed, SentOnce, [Next]_vars
    PROVE  SentOnce' /\ sent \subseteq sent'
<1>1. CASE UNCHANGED <<sent, clock>>
  BY <1>1 DEF SentOnce
<1>2. CASE Tick
  <2>1. UNCHANGED sent /\ clock' = clock + 1 /\ clock \in Nat /\ sent \subseteq Message
    BY <1>2 DEF Tick, Typed
  <2>2. \A m \in sent : m.sentAt \in Nat
    BY <2>1 DEF Message
  <2> QED
    BY <2>1, <2>2 DEF SentOnce
<1>3. ASSUME NEW c \in Conv, RemoteSend(c) PROVE SentOnce' /\ sent \subseteq sent'
  <2> DEFINE S(d) == {x \in sent : x.conv = d}
             T(d) == {x \in sent' : x.conv = d}
             n == Cardinality(S(c))
  <2>1. n \in Nat /\ UNCHANGED clock /\ clock \in Nat
    BY <1>3, SendTyped DEF RemoteSend, Typed
  <2>a. PICK t \in Nat : /\ t <= clock + ClockSkew
                         /\ sent' = sent \cup {[conv |-> c, seq |-> n + 1, sentAt |-> t]}
    BY <1>3, SendTyped
  <2>2. t <= clock /\ sent' = sent \cup {[conv |-> c, seq |-> n + 1, sentAt |-> t]}
    <3> HIDE DEF n
    <3> QED
      BY <2>1, <2>a
  <2> DEFINE new == [conv |-> c, seq |-> n + 1, sentAt |-> t]
  <2>3. new.conv = c /\ new.seq = n + 1 /\ new.sentAt = t /\ sent' = sent \cup {new}
    BY <2>2
  <2> HIDE DEF new
  <2>4. ASSUME NEW m \in sent
        PROVE  /\ m.sentAt <= clock /\ m.seq \in Nat /\ Cardinality(S(m.conv)) \in Nat
               /\ m.seq <= Cardinality(S(m.conv)) /\ IsFiniteSet(S(m.conv))
    BY FS_Subset, FS_CardinalityType DEF SentOnce, Typed, Message
  <2>5. new \notin S(c) /\ T(c) = S(c) \cup {new} /\ Cardinality(T(c)) = n + 1
    <3>1. new \notin S(c)
      BY <2>1, <2>3, <2>4
    <3>2. T(c) = S(c) \cup {new} /\ IsFiniteSet(S(c))
      BY <2>3, FS_Subset DEF Typed
    <3> QED
      BY <3>1, <3>2, FS_AddElement
  <2>6. \A d \in Conv \ {c} : T(d) = S(d)
    BY <2>3
  <2>7. ASSUME NEW m \in sent'
        PROVE  m.sentAt <= clock' /\ m.seq <= Cardinality(T(m.conv))
    <3>1. CASE m = new
      <4>1. m.conv = c /\ m.seq = Cardinality(T(m.conv)) /\ m.sentAt = t
        BY <2>3, <2>5, <3>1
      <4> HIDE DEF T, n
      <4>2. m.seq = n + 1
        BY <2>3, <3>1
      <4> QED
        BY <2>1, <2>2, <4>1, <4>2
    <3>2. CASE m \in S(c)
      <4>1. m \in sent /\ m.conv = c
        BY <3>2
      <4> HIDE DEF S, T
      <4>2. m.seq \in Nat /\ m.seq <= n /\ m.sentAt <= clock
        BY <2>4, <4>1
      <4> HIDE DEF n
      <4> QED
        BY <2>1, <2>5, <4>1, <4>2
    <3>3. CASE m \in sent /\ m.conv # c
      <4>1. m.conv \in Conv
        BY <3>3 DEF Typed, Message
      <4>2. m.seq <= Cardinality(S(m.conv)) /\ m.sentAt <= clock /\ T(m.conv) = S(m.conv)
        BY <2>4, <2>6, <3>3, <4>1
      <4> QED
        BY <2>1, <4>2
    <3> QED
      BY <2>3, <3>1, <3>2, <3>3
  <2>8. ASSUME NEW m \in sent', NEW k \in sent', m.conv = k.conv, m.seq = k.seq PROVE m = k
    <3>1. ASSUME NEW x \in sent, x.conv = c PROVE x.seq # n + 1
      <4>1. x.seq \in Nat /\ x.seq <= n
        BY <2>4, <3>1
      <4> QED
        BY <2>1, <4>1
    <3> QED
      BY <2>3, <2>8, <3>1 DEF SentOnce
  <2> QED
    BY <2>3, <2>7, <2>8 DEF SentOnce
<1> QED
  BY <1>1, <1>2, <1>3 DEF Next, vars, SelectHall, Exit, Arrive, SelectTab, OpenDirectChat,
     HandlerStep, ReadExisting, Decide, FileConversation, StoreMessage, Mark, Reload, Show, Opened,
     Lookup, Create, ShowDirect, world

(* The only call goes on with t and leaves counters, times and messages.   *)
LEMMA MatchMoves ==
    ASSUME Serial, MatchInv, NEW s \in Slot, NEW t, Goto(s, t),
           UNCHANGED <<messages, sent, exits>>,
           \A c \in Conv : row'[c].unread = row[c].unread /\ row'[c].lastRead = row[c].lastRead,
           task[s].pc # "markStored",
           t.pc \in {"read", "decide", "file", "store"} => t.msg \in sent,
           t.pc \in {"file", "store"} =>
              /\ t.conv \in Conv
              /\ IF t.inc THEN t.msg.sentAt > row[t.conv].lastRead
                 ELSE t.msg.sentAt <= row[t.conv].lastRead \/ UnreadRows(t.conv) = {}
    PROVE  (FromSent /\ UnreadSince /\ Counted)'
<1>1. \A u \in Slot : u = s
  BY DEF Serial
<1>2. task'[s] = t /\ messages \subseteq Stored
  BY DEF Goto, MatchInv, ViewInv, Typed
<1>3. FromSent'
  BY <1>1, <1>2 DEF MatchInv, FromSent
<1>4. \A c : UnreadRows(c)' = UnreadRows(c)
  BY DEF UnreadRows, Of
<1>5. Counted'
  BY <1>4 DEF MatchInv, Counted
<1>6. \A r \in messages : r.conv \in Conv /\ row'[r.conv].lastRead = row[r.conv].lastRead
  BY <1>2 DEF Stored
<1>7. UnreadSince'
  <2>1. \A r \in messages' : ~r.isRead => r.sentAt > row'[r.conv].lastRead
    BY <1>6 DEF MatchInv, UnreadSince
  <2>2. exits' = 0 => \A r \in messages' : r.isRead => r.sentAt <= row'[r.conv].lastRead
    BY <1>1, <1>6 DEF MatchInv, UnreadSince
  <2>3. \A u \in Slot : task'[u].pc \in {"file", "store"} =>
          IF task'[u].inc THEN task'[u].msg.sentAt > row'[task'[u].conv].lastRead
          ELSE task'[u].msg.sentAt <= row'[task'[u].conv].lastRead \/ UnreadRows(task'[u].conv) = {}
    BY <1>1, <1>2
  <2>4. \A u \in Slot : UnreadRows(task[u].conv)' = UnreadRows(task'[u].conv)
    BY DEF UnreadRows, Of
  <2> QED
    BY <2>1, <2>2, <2>3, <2>4 DEF UnreadSince
<1> QED
  BY <1>3, <1>5, <1>7

(* The stored row of the message that is in hand, with one uuid per        *)
(* message: it is the row that the insert writes, but for the flag.        *)
LEMMA SameRow ==
    ASSUME StableIds, MatchInv, NEW m \in sent, NEW copy \in Copies,
           NEW r \in messages, r.conv = m.conv, r.seq = m.seq
    PROVE  r.copy = copy /\ r.sentAt = m.sentAt
<1>1. r \in Stored /\ r.copy \in Copies
  BY DEF MatchInv, ViewInv, Typed, Stored
<1>2. [conv |-> r.conv, seq |-> r.seq, sentAt |-> r.sentAt] \in sent
  BY DEF MatchInv, FromSent
<1>3. [conv |-> r.conv, seq |-> r.seq, sentAt |-> r.sentAt] = m
  BY <1>2 DEF MatchInv, SentOnce
<1> QED
  BY <1>1, <1>3 DEF StableIds

(* The insert of a message: it is counted when it becomes an unread row.   *)
LEMMA MatchStore ==
    ASSUME StableIds, Serial, MatchInv, NEW s \in Slot, StoreMessage(s)
    PROVE  (FromSent /\ UnreadSince /\ Counted)'
<1> DEFINE m == task[s].msg
           copy == task[s].copy
           inc == task[s].inc
           rec == [conv |-> m.conv, seq |-> m.seq, copy |-> copy,
                   sentAt |-> m.sentAt, isRead |-> ~inc]
           new == ~ \E r \in Of(m.conv) : r.seq = m.seq /\ r.copy = copy
           t == [pc |-> IF inc THEN "reload" ELSE "markStored",
                 conv |-> task[s].conv, then |-> Lobby]
<1>0. task[s] \in Task \cup {Idle} /\ task[s].pc = "store" /\ Typed
  BY DEF StoreMessage, MatchInv, ViewInv, Typed
<1>1. m \in Message /\ copy \in Copies /\ inc \in BOOLEAN /\ m.conv = task[s].conv /\ m \in sent
  BY <1>0, TaskKinds DEF MatchInv, ViewInv, CountsUnseen, FromSent
<1>2. /\ messages' = {r \in messages : r.conv # m.conv \/ r.seq # m.seq} \cup {rec}
      /\ row' = IF inc /\ new THEN [row EXCEPT ![m.conv].unread = @ + 1] ELSE row
      /\ Goto(s, t) /\ UNCHANGED <<sent, exits>>
  BY DEF StoreMessage, UpsertMessage, world
<1>3. /\ rec.conv = m.conv /\ rec.seq = m.seq /\ rec.sentAt = m.sentAt /\ rec.copy = copy
      /\ rec.isRead = ~inc /\ m.conv \in Conv
  BY <1>1 DEF Message
<1>4. /\ t.pc = IF inc THEN "reload" ELSE "markStored"
      /\ t.conv = m.conv
  BY <1>1
<1>5. task'[s] = t /\ \A u \in Slot : u = s
  BY <1>0, <1>2 DEF Goto, Typed, Serial
<1>6. /\ row' \in [Conv -> ConvRow] /\ \A d \in Conv : row'[d].lastRead = row[d].lastRead
      /\ \A d \in Conv \ {m.conv} : row'[d] = row[d]
  BY <1>0, <1>1, StoredRow DEF StoreMessage
<1>7. IF inc THEN m.sentAt > row[m.conv].lastRead
      ELSE m.sentAt <= row[m.conv].lastRead \/ UnreadRows(m.conv) = {}
  BY <1>0, <1>1 DEF MatchInv, UnreadSince
<1>8. exits = 0 => \A r \in messages : r.isRead => r.sentAt <= row[r.conv].lastRead
  BY <1>0, <1>5 DEF MatchInv, UnreadSince
<1>9. /\ new => \A r \in messages : r.conv # m.conv \/ r.seq # m.seq
      /\ ~new => \E r \in messages : r.conv = m.conv /\ r.seq = m.seq
  BY <1>1, SameRow DEF Of
<1>10. inc /\ new => row'[m.conv].unread = row[m.conv].unread + 1
  BY <1>0, <1>2, <1>3 DEF Typed, ConvRow
<1>11. messages \subseteq Stored /\ row[m.conv].lastRead \in Nat /\ m.sentAt \in Nat
  BY <1>0, <1>1, <1>3 DEF Typed, ConvRow, Message
<1>12. \A r \in messages : r.conv \in Conv /\ r.isRead \in BOOLEAN
  BY <1>11 DEF Stored
<1> HIDE DEF m, copy, inc, rec, new, t
<1>13. FromSent'
  <2>1. \A u \in Slot : task'[u].pc \notin {"read", "decide", "file", "store"}
    BY <1>4, <1>5
  <2>2. [conv |-> rec.conv, seq |-> rec.seq, sentAt |-> rec.sentAt] = m
    BY <1>1, <1>3 DEF Message
  <2>3. \A r \in messages' : [conv |-> r.conv, seq |-> r.seq, sentAt |-> r.sentAt] \in sent
    BY <1>1, <1>2, <2>2 DEF MatchInv, FromSent
  <2>4. \A r, q \in messages' : r.conv = q.conv /\ r.seq = q.seq => r = q
    BY <1>2, <1>3 DEF MatchInv, FromSent
  <2> QED
    BY <1>2, <2>1, <2>3, <2>4 DEF FromSent
<1>14. UnreadSince'
  <2>1. \A r \in messages' : ~r.isRead => r.sentAt > row'[r.conv].lastRead
    BY <1>2, <1>3, <1>6, <1>7, <1>12 DEF MatchInv, UnreadSince
  <2>2. \A u \in Slot : task'[u].pc \notin {"file", "store"}
    BY <1>4, <1>5
  <2>3. ASSUME exits' = 0, NEW r \in messages', r.isRead
        PROVE  \/ r.sentAt <= row'[r.conv].lastRead
               \/ task'[s].pc = "markStored" /\ task'[s].conv = r.conv
    BY <1>2, <1>3, <1>4, <1>5, <1>6, <1>8, <1>12, <2>3
  <2> QED
    BY <2>1, <2>2, <2>3 DEF UnreadSince
<1>15. Counted'
  <2> DEFINE U(d) == {r \in messages : r.conv = d /\ ~r.isRead}
             V(d) == {r \in messages' : r.conv = d /\ ~r.isRead}
  <2>0. \A d \in Conv : UnreadRows(d) = U(d) /\ UnreadRows(d)' = V(d)
    BY DEF UnreadRows, Of
  <2>c. \A d \in Conv :
           /\ IsFiniteSet(U(d)) /\ Cardinality(U(d)) \in Nat /\ row[d].unread \in Nat
           /\ row[d].unread <= Cardinality(U(d))
           /\ exits = 0 => row[d].unread = Cardinality(U(d))
    BY <1>0, <2>0, FS_CardinalityType DEF MatchInv, Counted, Typed, ConvRow
  <2> SUFFICES ASSUME NEW d \in Conv
               PROVE  /\ IsFiniteSet(V(d)) /\ row'[d].unread <= Cardinality(V(d))
                      /\ exits' = 0 => row'[d].unread = Cardinality(V(d))
    BY <1>2, <2>0 DEF MatchInv, Counted
  <2>1. CASE d # m.conv
    <3>1. V(d) = U(d) /\ row'[d] = row[d]
      BY <1>2, <1>3, <1>6, <2>1
    <3> HIDE DEF U, V
    <3> QED
      BY <1>2, <2>c, <3>1
  <2>2. CASE d = m.conv /\ inc /\ new
    <3>1. V(d) = U(d) \cup {rec} /\ rec \notin U(d)
      BY <1>2, <1>3, <1>9, <2>2
    <3>2. row'[d].unread = row[d].unread + 1
      BY <1>10, <2>2
    <3> HIDE DEF U, V
    <3>3. IsFiniteSet(V(d)) /\ Cardinality(V(d)) = Cardinality(U(d)) + 1
      BY <2>c, <3>1, FS_AddElement
    <3> QED
      BY <1>2, <2>c, <3>2, <3>3
  <2>3. CASE d = m.conv /\ inc /\ ~new
    <3>1. PICK r \in messages : r.conv = m.conv /\ r.seq = m.seq
      BY <1>9, <2>3
    <3>2. r.copy = copy /\ r.sentAt = m.sentAt
      BY <1>1, <3>1, SameRow
    <3>3. row' = row
      BY <1>2, <2>3
    <3>4. \A q \in messages : q.conv = m.conv /\ q.seq = m.seq => q = r
      BY <3>1 DEF MatchInv, FromSent
    <3>5. CASE ~r.isRead
      <4>1. r = rec
        <5>1. r \in Stored
          BY <1>11
        <5>2. rec \in Stored
          BY <1>1 DEF rec, Stored, Message
        <5> QED
          BY <1>3, <2>3, <3>1, <3>2, <3>5, <5>1, <5>2 DEF Stored
      <4>2. V(d) = U(d)
        BY <1>2, <3>4, <4>1
      <4> HIDE DEF U, V
      <4> QED
        BY <1>2, <2>c, <3>3, <4>2
    <3>6. CASE r.isRead
      <4>1. exits # 0
        <5>1. r.sentAt > row[r.conv].lastRead
          BY <1>7, <2>3, <3>1, <3>2
        <5> QED
          BY <1>8, <1>11, <3>1, <3>2, <3>6, <5>1
      <4>2. V(d) = U(d) \cup {rec} /\ rec \notin U(d)
        BY <1>2, <1>3, <2>3, <3>4, <3>6
      <4> HIDE DEF U, V
      <4>3. IsFiniteSet(V(d)) /\ Cardinality(V(d)) = Cardinality(U(d)) + 1
        BY <2>c, <4>2, FS_AddElement
      <4> QED
        BY <1>2, <2>c, <3>3, <4>1, <4>3
    <3> QED
      BY <1>12, <3>5, <3>6
  <2>4. CASE d = m.conv /\ ~inc
    <3>1. ASSUME NEW r \in messages, r.conv = m.conv, r.seq = m.seq, ~r.isRead PROVE FALSE
      <4>1. r.sentAt = m.sentAt /\ r.sentAt > row[m.conv].lastRead
        BY <1>1, <3>1, SameRow DEF MatchInv, UnreadSince
      <4>2. UnreadRows(m.conv) # {}
        BY <3>1 DEF UnreadRows, Of
      <4> QED
        BY <1>7, <1>11, <2>4, <4>1, <4>2
    <3>2. V(d) = U(d)
      BY <1>2, <1>3, <2>4, <3>1
    <3>3. row' = row
      BY <1>2, <2>4
    <3> HIDE DEF U, V
    <3> QED
      BY <1>2, <2>c, <3>2, <3>3
  <2> QED
    BY <1>1, <2>1, <2>2, <2>3, <2>4
<1> QED
  BY <1>13, <1>14, <1>15

(* Reading: the conversation has no unread row and no count, and all that  *)
(* is stored was sent by now.                                              *)
LEMMA MatchMark ==
    ASSUME Serial, MatchInv, NEW s \in Slot, Mark(s)
    PROVE  (FromSent /\ UnreadSince /\ Counted)'
<1> DEFINE c == task[s].conv
           t == [task[s] EXCEPT !.pc = "reload"]
<1>0. task[s] \in Task \cup {Idle} /\ task[s].pc \in {"mark", "markStored"} /\ Typed
  BY DEF Mark, MatchInv, ViewInv, Typed
<1>1. c \in Conv /\ t.pc = "reload"
  BY <1>0, TaskKinds
<1>2. Goto(s, t) /\ UNCHANGED <<sent, exits>> /\ MarkConversationRead(c)
  BY DEF Mark, world
<1>3. task'[s] = t /\ \A u \in Slot : u = s
  BY <1>0, <1>2 DEF Goto, Typed, Serial
<1> HIDE DEF c, t
<1>4. /\ \A d \in Conv \ {c} : row'[d] = row[d]
      /\ row'[c].unread = 0 /\ row'[c].lastRead = clock
      /\ \A r \in messages' : \E q \in messages :
            /\ r.conv = q.conv /\ r.seq = q.seq /\ r.sentAt = q.sentAt
            /\ IF r.conv = c THEN r.isRead /\ r = [q EXCEPT !.isRead = TRUE] ELSE r = q
      /\ \A r \in messages : r.conv # c => r \in messages'
  BY <1>0, <1>1, <1>2, MarkedRow
<1>5. \A u \in Slot : task'[u].pc = "reload"
  BY <1>1, <1>3
<1>6. FromSent'
  <2>1. \A r \in messages' : [conv |-> r.conv, seq |-> r.seq, sentAt |-> r.sentAt] \in sent
    BY <1>4 DEF MatchInv, FromSent
  <2>2. ASSUME NEW r \in messages', NEW q \in messages', r.conv = q.conv, r.seq = q.seq
        PROVE  r = q
    <3>1. PICK r0 \in messages :
              /\ r.conv = r0.conv /\ r.seq = r0.seq
              /\ IF r.conv = c THEN r = [r0 EXCEPT !.isRead = TRUE] ELSE r = r0
      BY <1>4
    <3>2. PICK q0 \in messages :
              /\ q.conv = q0.conv /\ q.seq = q0.seq
              /\ IF q.conv = c THEN q = [q0 EXCEPT !.isRead = TRUE] ELSE q = q0
      BY <1>4
    <3>3. r0 = q0
      BY <2>2, <3>1, <3>2 DEF MatchInv, FromSent
    <3>4. CASE r.conv = c
      <4>1. r = [r0 EXCEPT !.isRead = TRUE] /\ q = [q0 EXCEPT !.isRead = TRUE]
        BY <2>2, <3>1, <3>2, <3>4
      <4> QED
        BY <3>3, <4>1
    <3>5. CASE r.conv # c
      BY <2>2, <3>1, <3>2, <3>3, <3>5
    <3> QED
      BY <3>4, <3>5
  <2> QED
    BY <1>2, <1>5, <2>1, <2>2 DEF FromSent
<1>7. UnreadSince'
  <2>1. ASSUME NEW r \in messages' PROVE r.conv \in Conv /\ (r.conv # c => r \in messages)
    BY <1>0, <1>4 DEF Typed, Stored
  <2>2. ASSUME NEW r \in messages', ~r.isRead PROVE r.sentAt > row'[r.conv].lastRead
    <3>1. r.conv # c
      BY <1>4, <2>2
    <3> QED
      BY <1>4, <2>1, <2>2, <3>1 DEF MatchInv, UnreadSince
  <2>3. ASSUME exits' = 0, NEW r \in messages', r.isRead
        PROVE  r.sentAt <= row'[r.conv].lastRead
    <3>1. CASE r.conv = c
      <4>1. r.sentAt <= clock
        <5>1. [conv |-> r.conv, seq |-> r.seq, sentAt |-> r.sentAt] \in sent
          BY <1>2, <1>6 DEF FromSent
        <5> QED
          BY <5>1 DEF MatchInv, SentOnce
      <4> QED
        BY <1>4, <3>1, <4>1
    <3>2. CASE r.conv # c
      <4>1. r \in messages /\ row'[r.conv] = row[r.conv]
        BY <1>4, <2>1, <3>2
      <4> QED
        BY <1>2, <1>3, <2>3, <3>2, <4>1 DEF c, MatchInv, UnreadSince
    <3> QED
      BY <3>1, <3>2
  <2> QED
    BY <1>5, <2>2, <2>3 DEF UnreadSince
<1>8. Counted'
  <2> SUFFICES ASSUME NEW d \in Conv
               PROVE  (/\ IsFiniteSet(UnreadRows(d))
                       /\ row[d].unread <= Cardinality(UnreadRows(d))
                       /\ exits = 0 => row[d].unread = Cardinality(UnreadRows(d)))'
    BY <1>2 DEF MatchInv, Counted
  <2>1. CASE d = c
    <3>1. UnreadRows(d)' = {}
      BY <1>4, <2>1 DEF UnreadRows, Of
    <3> QED
      BY <1>4, <2>1, <3>1, FS_EmptySet
  <2>2. CASE d # c
    <3>1. UnreadRows(d)' = UnreadRows(d)
      BY <1>4, <2>2 DEF UnreadRows, Of
    <3> QED
      BY <1>2, <1>4, <2>2, <3>1 DEF MatchInv, Counted
  <2> QED
    BY <2>1, <2>2
<1> QED
  BY <1>6, <1>7, <1>8

(* The other steps of a call, and a call that begins.                      *)
LEMMA MatchCalls ==
    ASSUME Serial, MatchInv, NEW s \in Slot,
           \/ BeginStep(s) \/ ReadExisting(s) \/ Decide(s) \/ FileConversation(s) \/ Reload(s)
           \/ Show(s) \/ Opened(s) \/ Lookup(s) \/ Create(s) \/ ShowDirect(s)
    PROVE  (FromSent /\ UnreadSince /\ Counted)'
<1>0. task[s] \in Task \cup {Idle} /\ Typed /\ ViewInv
  BY DEF MatchInv, ViewInv, Typed
<1>1. CASE BeginStep(s)
  <2>1. task[s] = Idle /\ UNCHANGED <<row, messages, sent, exits>>
    BY <1>0, <1>1, Begins
  <2>2. PICK t : Goto(s, t) /\ ((t.pc = "read" /\ t.msg \in sent) \/ t.pc \in {"lookup", "mark", "show", "idle"})
    BY <1>0, <1>1, Begins
  <2> QED
    BY <2>1, <2>2, MatchMoves DEF Idle
<1>2. CASE ReadExisting(s)
  <2> DEFINE t == [task[s] EXCEPT !.pc = "decide", !.existing = row[task[s].conv]]
  <2>1. task[s].pc = "read" /\ Goto(s, t) /\ UNCHANGED <<row, messages, sent, exits>>
    BY <1>2 DEF ReadExisting, store, world
  <2>2. task[s] \in [pc : {"read", "decide"}, conv : Conv, msg : Message,
                     copy : Copies, existing : ConvRow]
    BY <1>0, <2>1, TaskKinds
  <2>3. t.pc = "decide" /\ t.msg = task[s].msg /\ task[s].msg \in sent
    BY <2>1, <2>2 DEF MatchInv, FromSent
  <2> HIDE DEF t
  <2> QED
    BY <2>1, <2>3, MatchMoves
<1>3. CASE Decide(s)
  <2> DEFINE t == [pc |-> "file", conv |-> task[s].conv, msg |-> task[s].msg,
                   copy |-> task[s].copy, existing |-> task[s].existing,
                   inc |-> ShouldIncrementUnread(task[s])]
  <2>1. task[s].pc = "decide" /\ Goto(s, t) /\ UNCHANGED <<row, messages, sent, exits>>
    BY <1>3 DEF Decide, store, world
  <2>2. task[s].conv \in Conv /\ task[s].msg \in Message /\ task[s].msg \in sent
    BY <1>0, <2>1, TaskKinds DEF MatchInv, FromSent
  <2>3. task[s].existing = row[task[s].conv] /\ row[task[s].conv].lastRead \in Nat
    BY <1>0, <2>1, <2>2 DEF ViewInv, ReadStands, Typed, ConvRow
  <2>4. task[s].msg.sentAt \in Nat
    BY <2>2 DEF Message
  <2>5. /\ t.pc = "file" /\ t.conv = task[s].conv /\ t.msg = task[s].msg
        /\ t.inc = ShouldIncrementUnread(task[s])
    OBVIOUS
  <2>6. Shown(task[s].conv) => UnreadRows(task[s].conv) = {}
    BY <1>0, <2>1, <2>2, ShownNow DEF Clear
  <2> HIDE DEF t
  <2>7. IF t.inc THEN t.msg.sentAt > row[t.conv].lastRead
        ELSE t.msg.sentAt <= row[t.conv].lastRead \/ UnreadRows(t.conv) = {}
    <3>1. CASE t.inc
      BY <2>3, <2>5, <3>1 DEF ShouldIncrementUnread
    <3>2. CASE ~t.inc
      <4>1. Shown(task[s].conv) \/ ~(task[s].msg.sentAt > row[task[s].conv].lastRead)
        BY <2>3, <2>5, <3>2 DEF ShouldIncrementUnread
      <4> QED
        BY <2>3, <2>4, <2>5, <2>6, <3>2, <4>1
    <3> QED
      BY <3>1, <3>2
  <2> QED
    BY <2>1, <2>2, <2>5, <2>7, MatchMoves
<1>4. CASE FileConversation(s)
  <2> DEFINE t == [task[s] EXCEPT !.pc = "store"]
  <2>1. /\ task[s].pc = "file" /\ Goto(s, t) /\ UNCHANGED <<messages, sent, exits>>
        /\ UpsertConversation(task[s].conv, task[s].existing)
    BY <1>4 DEF FileConversation, world
  <2>2. task[s] \in [pc : {"file", "store"}, conv : Conv, msg : Message,
                     copy : Copies, existing : ConvRow, inc : BOOLEAN]
    BY <1>0, <2>1, TaskKinds
  <2>3. t.pc = "store" /\ t.conv = task[s].conv /\ t.msg = task[s].msg /\ t.inc = task[s].inc
    BY <2>2
  <2>4. task[s].existing = row[task[s].conv]
    BY <1>0, <2>1 DEF ViewInv, ReadStands
  <2>5. \A c \in Conv : row'[c].unread = row[c].unread /\ row'[c].lastRead = row[c].lastRead
    BY <1>0, <2>1, <2>2, <2>4, FiledRow
  <2>6. task[s].msg \in sent
    BY <2>1 DEF MatchInv, FromSent
  <2>7. IF task[s].inc THEN task[s].msg.sentAt > row[task[s].conv].lastRead
        ELSE task[s].msg.sentAt <= row[task[s].conv].lastRead \/ UnreadRows(task[s].conv) = {}
    BY <2>1 DEF MatchInv, UnreadSince
  <2> HIDE DEF t
  <2> QED
    BY <2>1, <2>2, <2>3, <2>5, <2>6, <2>7, MatchMoves
<1>5. CASE Reload(s) \/ Show(s) \/ Opened(s) \/ ShowDirect(s) \/ Lookup(s)
  <2>1. /\ task[s].pc \in {"reload", "show", "opened", "showDirect", "lookup"}
        /\ UNCHANGED <<row, messages, sent, exits>>
    BY <1>5 DEF Reload, Show, Opened, ShowDirect, Lookup, store, world
  <2>2. PICK t : Goto(s, t) /\ t.pc \in {"idle", "show", "opened", "mark", "create"}
    <3>1. CASE Reload(s)
      BY <3>1 DEF Reload, Return, Idle
    <3>2. CASE Opened(s)
      BY <3>2 DEF Opened, Return, Idle
    <3>3. CASE ShowDirect(s)
      BY <3>3 DEF ShowDirect
    <3>4. CASE Show(s)
      <4>1. task[s] \in [pc : {"show", "showDirect", "opened"}, conv : Conv]
        BY <1>0, <3>4, TaskKinds DEF Show
      <4>2. [task[s] EXCEPT !.pc = "opened"].pc = "opened"
        BY <4>1
      <4> QED
        BY <3>4, <4>2 DEF Show
    <3>5. CASE Lookup(s)
      <4>1. task[s] \in [pc : {"lookup", "create"}, conv : Conv, existing : ConvRow]
        BY <1>0, <3>5, TaskKinds DEF Lookup
      <4>2. [task[s] EXCEPT !.pc = "create", !.existing = row[task[s].conv]].pc = "create"
        BY <4>1
      <4> QED
        BY <3>5, <4>2 DEF Lookup
    <3> QED
      BY <1>5, <3>1, <3>2, <3>3, <3>4, <3>5
  <2> QED
    BY <2>1, <2>2, MatchMoves
<1>6. CASE Create(s)
  <2> DEFINE t == [pc |-> "showDirect", conv |-> task[s].conv]
  <2>1. /\ task[s].pc = "create" /\ Goto(s, t) /\ UNCHANGED <<messages, sent, exits>>
        /\ UpsertConversation(task[s].conv, task[s].existing)
    BY <1>6 DEF Create, world
  <2>2. task[s] \in [pc : {"lookup", "create"}, conv : Conv, existing : ConvRow]
    BY <1>0, <2>1, TaskKinds
  <2>3. task[s].existing = row[task[s].conv]
    BY <1>0, <2>1 DEF ViewInv, ReadStands
  <2>4. \A c \in Conv : row'[c].unread = row[c].unread /\ row'[c].lastRead = row[c].lastRead
    BY <1>0, <2>1, <2>2, <2>3, FiledRow
  <2>5. t.pc = "showDirect"
    OBVIOUS
  <2> HIDE DEF t
  <2> QED
    BY <2>1, <2>4, <2>5, MatchMoves
<1> QED
  BY <1>1, <1>2, <1>3, <1>4, <1>5, <1>6

LEMMA MatchNext ==
    ASSUME StableIds, Serial, ClockSkew = 0, MatchInv, [Next]_vars
    PROVE  MatchInv'
<1>0. ViewInv' /\ SentOnce' /\ sent \subseteq sent'
  BY ViewNext, SentNext DEF MatchInv, ViewInv
<1>1. CASE Tick \/ SelectHall \/ UNCHANGED vars \/ \E c \in Conv : RemoteSend(c)
  <2>1. UNCHANGED <<row, messages, task, exits>>
    BY <1>1 DEF Tick, SelectHall, vars, RemoteSend, world, store, view
  <2>2. FromSent'
    BY <1>0, <2>1 DEF MatchInv, FromSent
  <2>3. UnreadSince' /\ Counted'
    BY <2>1 DEF MatchInv, UnreadSince, Counted, UnreadRows, Of
  <2> QED
    BY <1>0, <2>2, <2>3 DEF MatchInv
<1>2. CASE Exit
  <2>1. UNCHANGED <<row, messages, sent>> /\ task' = [s \in Slot |-> Idle] /\ exits' = exits + 1
    BY <1>2 DEF Exit, store
  <2>2. exits' # 0
    BY <2>1 DEF MatchInv, Counted
  <2>3. FromSent'
    BY <2>1 DEF MatchInv, FromSent, Idle
  <2>4. UnreadSince' /\ Counted'
    BY <2>1, <2>2 DEF MatchInv, UnreadSince, Counted, UnreadRows, Of, Idle
  <2> QED
    BY <1>0, <2>3, <2>4 DEF MatchInv
<1>3. ASSUME NEW s \in Slot, BeginStep(s) \/ HandlerStep(s) PROVE MatchInv'
  <2>1. (FromSent /\ UnreadSince /\ Counted)'
    BY <1>3, MatchCalls, MatchStore, MatchMark DEF HandlerStep
  <2> QED
    BY <1>0, <2>1 DEF MatchInv
<1> QED
  BY <1>1, <1>2, <1>3 DEF Next, BeginStep

(* One call at a time, one uuid per message and clocks that agree: once    *)
(* nothing is under way a counter is the number of unread rows, or less    *)
(* when the process ended within a handler.                                *)
THEOREM CountersMatchRows ==
    ASSUME StableIds, Serial, ClockSkew = 0
    PROVE  Spec => []UnreadMatchesRows
<1>1. Init => MatchInv
  <2> SUFFICES ASSUME Init PROVE MatchInv
    OBVIOUS
  <2>1. ViewInv
    BY ViewInit
  <2>2. SentOnce /\ FromSent /\ UnreadSince
    BY DEF Init, SentOnce, FromSent, UnreadSince, Idle
  <2>3. \A c \in Conv : UnreadRows(c) = {} /\ row[c].unread = 0
    BY DEF Init, UnreadRows, Of, NoRow
  <2>4. Counted
    <3>1. exits = 0 /\ IsFiniteSet({}) /\ Cardinality({}) = 0
      BY FS_EmptySet DEF Init
    <3> QED
      BY <2>3, <3>1 DEF Counted
  <2> QED
    BY <2>1, <2>2, <2>4 DEF MatchInv
<1>2. MatchInv => UnreadMatchesRows
  BY DEF MatchInv, Counted, UnreadMatchesRows
<1> QED
  BY <1>1, <1>2, MatchNext, PTL DEF Spec
=============================================================================
