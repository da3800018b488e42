--------------------------- MODULE ChatRoomsProofs ---------------------------
(***************************************************************************)
(* Membership is the user's own doing, for any number of nodes, rooms and  *)
(* overlapping calls.                                                      *)
(***************************************************************************)
EXTENDS ChatRooms, TLAPS

(* The calls of refresh that have not come to the reconcile carry its flag. *)
RefreshFlag ==
    \A n \in Node, s \in Slot :
        task[n][s].pc \in {"load", "assign", "contexts"} => task[n][s].refresh

(* What is on its way into the table, or to the announcements, is owned.   *)
OwnedOnTheWay ==
    \A n \in Node :
        /\ local[n] \subseteq ever[n]
        /\ \A s \in Slot, r \in Room : task[n][s].rows[r].joined => r \in ever[n]

(* What the invariant says of the calls under way.                         *)
CallsOK ==
    /\ task \in [Node -> [Slot -> Task]]
    /\ \A n \in Node, s \in Slot, t \in Slot : task[n][s].refresh /\ task[n][t].refresh => s = t
    /\ RefreshFlag
    /\ \A n \in Node, s \in Slot, r \in Room : task[n][s].rows[r].joined => r \in ever[n]

RoomInv == TypeOK /\ RefreshFlag /\ NeverJoinedByOthers /\ OwnedOnTheWay

-----------------------------------------------------------------------------
(* A task record can be put together from its fields.                      *)
LEMMA TaskParts ==
    /\ NoRooms \in Rooms
    /\ Absent \in Descriptor
    /\ \A r \in Room : NoRooms[r].joined = FALSE
    /\ Idle \in Task
    /\ Idle.rows = NoRooms /\ Idle.refresh = FALSE /\ Idle.pc = "idle"
<1>1. /\ NoRooms \in Rooms /\ Absent \in Descriptor /\ \A r \in Room : NoRooms[r].joined = FALSE
    BY DEF NoRooms, Rooms, Absent, Descriptor
<1>2. QED BY <1>1 DEF Idle, Task, Steps

(* A step that only replaces the call in slot s of node n keeps the        *)
(* invariant when the new call is typed, owned and no second refresh.      *)
LEMMA GotoKeeps ==
    ASSUME RoomInv, NEW n \in Node, NEW s \in Slot, NEW t \in Task, Goto(n, s, t),
           \A r \in Room : t.rows[r].joined => r \in ever[n],
           t.refresh => task[n][s].refresh \/ ~Refreshing(n),
           t.pc \in {"load", "assign", "contexts"} => t.refresh,
           UNCHANGED ever
    PROVE  CallsOK'
<1>1. task \in [Node -> [Slot -> Task]]
    BY DEF RoomInv, TypeOK
<1>2. task' \in [Node -> [Slot -> Task]]
    BY <1>1 DEF Goto
<1>3. task'[n][s] = t
    BY <1>1 DEF Goto
<1>4. \A m \in Node, u \in Slot : <<m, u>> # <<n, s>> => task'[m][u] = task[m][u]
    BY <1>1 DEF Goto
<1>5. \A m \in Node, u \in Slot, v \in Slot :
        task'[m][u].refresh /\ task'[m][v].refresh => u = v
    <2>1. SUFFICES ASSUME NEW m \in Node, NEW u \in Slot, NEW v \in Slot,
                          task'[m][u].refresh, task'[m][v].refresh
                   PROVE  u = v
        OBVIOUS
    <2>2. \A k \in Node, x \in Slot, y \in Slot :
            task[k][x].refresh /\ task[k][y].refresh => x = y
        BY DEF RoomInv, TypeOK
    <2>3. CASE m = n /\ u = s /\ v # s
        <3>1. t.refresh /\ task[n][v].refresh
            BY <1>3, <1>4, <2>1, <2>3
        <3>2. task[n][s].refresh
            BY <3>1 DEF Refreshing
        <3>3. QED BY <3>1, <3>2, <2>2, <2>3
    <2>4. CASE m = n /\ v = s /\ u # s
        <3>1. t.refresh /\ task[n][u].refresh
            BY <1>3, <1>4, <2>1, <2>4
        <3>2. task[n][s].refresh
            BY <3>1 DEF Refreshing
        <3>3. QED BY <3>1, <3>2, <2>2, <2>4
    <2>5. CASE m # n \/ (u # s /\ v # s)
        BY <1>4, <2>1, <2>2, <2>5
    <2>6. QED BY <2>3, <2>4, <2>5
<1>6. RefreshFlag'
    BY <1>3, <1>4 DEF RoomInv, RefreshFlag
<1>7. \A m \in Node, u \in Slot, r \in Room : task'[m][u].rows[r].joined => r \in ever'[m]
    BY <1>3, <1>4 DEF RoomInv, OwnedOnTheWay
<1>8. QED BY <1>2, <1>5, <1>6, <1>7 DEF CallsOK
-----------------------------------------------------------------------------
(* The initial state: no row, no room, no announcement, no call.           *)
LEMMA InitRooms == Init => RoomInv
<1>1. SUFFICES ASSUME Init PROVE RoomInv OBVIOUS
<1>2. NoRooms \in Rooms /\ Idle \in Task /\ \A r \in Room : NoRooms[r].joined = FALSE
    BY TaskParts
<1>3. \A n \in Node, s \in Slot : task[n][s] = Idle
    BY <1>1 DEF Init
<1>4. used \in Bounds
    BY <1>1, RoomsAssumption DEF Init, Bounds
<1>5. TypeOK
    BY <1>1, <1>2, <1>3, <1>4, TaskParts DEF Init, TypeOK, Silent, Deaf
<1>6. RefreshFlag
    BY <1>3, TaskParts DEF RefreshFlag
<1>7. NeverJoinedByOthers
    BY <1>1, <1>2 DEF Init, NeverJoinedByOthers, Silent, Deaf
<1>8. OwnedOnTheWay
    BY <1>1, <1>2, <1>3, TaskParts DEF Init, OwnedOnTheWay
<1>9. QED BY <1>5, <1>6, <1>7, <1>8 DEF RoomInv

(* A user's call writes one row, which is joined only if the room is owned *)
(* from now on; the set of owned rooms only grows.                         *)
LEMMA UserKeeps ==
    ASSUME RoomInv, NEW n \in Node, NEW s \in Slot, NEW r \in Room, NEW d \in Descriptor,
           UserCall(n, s, r, d), ever' \in [Node -> SUBSET Room], wish' \in [Node -> SUBSET Room],
           \A m \in Node : ever[m] \subseteq ever'[m],
           d.joined => r \in ever'[n]
    PROVE  RoomInv'
<1> DEFINE t == [Idle EXCEPT !.pc = "refresh"]
<1>1. t \in Task /\ t.pc = "refresh" /\ t.rows = NoRooms /\ t.refresh = FALSE
    BY TaskParts DEF Idle, Task, Steps
<1> HIDE DEF t
<1>2. task \in [Node -> [Slot -> Task]] /\ db \in [Node -> Rooms] /\ task' = [task EXCEPT ![n][s] = t]
    BY DEF RoomInv, TypeOK, UserCall, Goto, t
<1>3. /\ task' \in [Node -> [Slot -> Task]]
      /\ task'[n][s] = t
      /\ \A m \in Node, u \in Slot : <<m, u>> # <<n, s>> => task'[m][u] = task[m][u]
    BY <1>1, <1>2
<1>4. \A m \in Node, u \in Slot : task'[m][u].refresh => task[m][u].refresh
    BY <1>1, <1>3
<1>5. \A m \in Node, u \in Slot, q \in Room : task'[m][u].rows[q].joined => q \in ever[m]
    BY <1>1, <1>3, TaskParts DEF RoomInv, OwnedOnTheWay
<1>6. /\ db' \in [Node -> Rooms] /\ db'[n][r] = d
      /\ \A m \in Node, q \in Room : <<m, q>> # <<n, r>> => db'[m][q] = db[m][q]
    BY <1>2 DEF UserCall, Rooms
<1>7. used' \in Bounds
    <2>1. used \in Bounds /\ used.ops < MaxOps /\ used' = [used EXCEPT !.ops = @ + 1]
        BY DEF UserCall, RoomInv, TypeOK
    <2>2. used.ops + 1 \in 0..MaxOps
        BY <2>1, RoomsAssumption DEF Bounds
    <2>3. QED BY <2>1, <2>2 DEF Bounds
<1>8. TypeOK'
    BY <1>3, <1>4, <1>6, <1>7 DEF RoomInv, TypeOK, UserCall, presence
<1>9. RefreshFlag'
    BY <1>1, <1>3 DEF RoomInv, RefreshFlag
<1>10. NeverJoinedByOthers'
    BY <1>6 DEF RoomInv, NeverJoinedByOthers, UserCall, presence
<1>11. OwnedOnTheWay'
    BY <1>5 DEF RoomInv, OwnedOnTheWay, UserCall, presence
<1>12. QED BY <1>8, <1>9, <1>10, <1>11 DEF RoomInv
(* What a reconcile looks like before its first step.                      *)
LEMMA ReconcileParts ==
    ASSUME NEW b \in BOOLEAN
    PROVE  /\ Reconcile(b) \in Task /\ Reconcile(b).pc = "merge"
           /\ Reconcile(b).refresh = b /\ Reconcile(b).rows = NoRooms
BY TaskParts DEF Reconcile, Idle, Task, Steps

(* updateContexts announces the rooms of the last refresh, or nothing.     *)
LEMMA ContextsKeep ==
    ASSUME RoomInv, NEW n \in Node, NEW s \in Slot, UpdateContexts(n, s)
    PROVE  RoomInv'
<1>1. /\ task \in [Node -> [Slot -> Task]] /\ task[n][s].pc = "contexts" /\ task[n][s].refresh
      /\ local[n] \subseteq ever[n] /\ local[n] \subseteq Room
    BY DEF RoomInv, TypeOK, OwnedOnTheWay, RefreshFlag, UpdateContexts, At
<1>2. UNCHANGED <<up, db, hall, local, history, used>>
    BY DEF UpdateContexts
<1>3. CallsOK'
    <2>1. CASE Goto(n, s, Reconcile(TRUE))
        BY <1>1, <1>2, <2>1, ReconcileParts, TaskParts, GotoKeeps DEF history
    <2>2. CASE \E free \in Slot \ {s} :
                /\ task[n][free] = Idle
                /\ task' = [task EXCEPT ![n][s] = Reconcile(TRUE), ![n][free] = Reconcile(FALSE)]
        <3>1. PICK free \in Slot \ {s} :
                task' = [task EXCEPT ![n][s] = Reconcile(TRUE), ![n][free] = Reconcile(FALSE)]
            BY <2>2
        <3>2. /\ task' \in [Node -> [Slot -> Task]]
              /\ task'[n][s] = Reconcile(TRUE) /\ task'[n][free] = Reconcile(FALSE)
              /\ \A m \in Node, u \in Slot :
                    <<m, u>> \notin {<<n, s>>, <<n, free>>} => task'[m][u] = task[m][u]
            BY <1>1, <3>1, ReconcileParts
        <3>3. \A m \in Node, u \in Slot : task'[m][u].refresh => task[m][u].refresh
            BY <1>1, <3>2, ReconcileParts
        <3>4. \A m \in Node, u \in Slot, r \in Room : task'[m][u].rows[r].joined => r \in ever[m]
            <4>1. /\ \A r \in Room : ~task'[n][s].rows[r].joined /\ ~task'[n][free].rows[r].joined
                BY <3>2, ReconcileParts, TaskParts
            <4>2. \A m \in Node, u \in Slot, r \in Room : task[m][u].rows[r].joined => r \in ever[m]
                BY DEF RoomInv, OwnedOnTheWay
            <4>3. QED BY <3>2, <4>1, <4>2
        <3>5. RefreshFlag'
            BY <3>2, ReconcileParts DEF RoomInv, RefreshFlag
        <3>6. QED BY <1>2, <3>2, <3>3, <3>4, <3>5 DEF CallsOK, RoomInv, TypeOK, history
    <2>3. QED BY <2>1, <2>2 DEF UpdateContexts
<1>4. /\ ctx' \in [Node -> [on : BOOLEAN, rooms : SUBSET Room]]
      /\ \A m \in Node : ctx'[m].rooms \subseteq ever[m]
    <2>1. /\ ctx \in [Node -> [on : BOOLEAN, rooms : SUBSET Room]]
          /\ \A m \in Node : ctx[m].rooms \subseteq ever[m]
        BY DEF RoomInv, TypeOK, NeverJoinedByOthers
    <2>2. PICK x \in [on : BOOLEAN, rooms : SUBSET Room] :
            x.rooms \subseteq ever[n] /\ ctx' = [ctx EXCEPT ![n] = x]
        <3>1. CASE ctx' = [ctx EXCEPT ![n] = [on |-> TRUE, rooms |-> local[n]]]
            BY <1>1, <3>1
        <3>2. CASE ctx' = [ctx EXCEPT ![n] = Silent]
            BY <3>2 DEF Silent
        <3>3. QED BY <3>1, <3>2 DEF UpdateContexts
    <2>3. QED BY <2>1, <2>2
<1>5. /\ cache' \in [Node -> [Node -> SUBSET Room]]
      /\ \A m \in Node, p \in Node : cache'[m][p] \subseteq ever[p]
    <2>1. /\ cache \in [Node -> [Node -> SUBSET Room]]
          /\ \A m \in Node, p \in Node : cache[m][p] \subseteq ever[p]
        BY DEF RoomInv, TypeOK, NeverJoinedByOthers
    <2>2. cache' = cache \/ cache' = [cache EXCEPT ![n] = Deaf]
        BY DEF UpdateContexts
    <2>3. QED BY <2>1, <2>2 DEF Deaf
<1>6. QED BY <1>2, <1>3, <1>4, <1>5 DEF RoomInv, CallsOK, TypeOK, NeverJoinedByOthers, OwnedOnTheWay, history

(* A step of a call, the timer's call included.                            *)
LEMMA TaskKeeps ==
    ASSUME RoomInv, NEW n \in Node, NEW s \in Slot, TimerRefresh(n, s) \/ TaskStep(n, s)
    PROVE  RoomInv'
<1> DEFINE c == task[n][s]
<1>1. /\ c \in Task /\ c.rows \in Rooms /\ db[n] \in Rooms /\ local[n] \subseteq ever[n]
      /\ \A r \in Room : c.rows[r].joined => r \in ever[n]
      /\ \A r \in Room : db[n][r].joined => r \in ever[n]
      /\ c.pc \in {"load", "assign", "contexts"} => c.refresh
      /\ db \in [Node -> Rooms] /\ task \in [Node -> [Slot -> Task]]
    BY DEF RoomInv, TypeOK, Task, OwnedOnTheWay, NeverJoinedByOthers, RefreshFlag
<1> HIDE DEF c
<1>2. CASE CallRefresh(n, s) \/ TimerRefresh(n, s)
    <2> DEFINE t == [Idle EXCEPT !.pc = "load", !.refresh = TRUE]
    <2>1. t \in Task /\ t.rows = NoRooms /\ t.refresh = TRUE
        BY TaskParts DEF Idle, Task, Steps
    <2> HIDE DEF t
    <2>2. \/ Goto(n, s, Idle)
          \/ Goto(n, s, t) /\ ~Refreshing(n)
        BY <1>2 DEF CallRefresh, TimerRefresh, t
    <2>3. UNCHANGED <<up, db, hall, local, presence, history, used>>
        BY <1>2 DEF CallRefresh, TimerRefresh
    <2>4. UNCHANGED ever
        BY <2>3 DEF history
    <2>5. CallsOK'
        <3>1. CASE Goto(n, s, Idle)
            BY <3>1, <2>4, TaskParts, GotoKeeps
        <3>2. CASE Goto(n, s, t) /\ ~Refreshing(n)
            BY <3>2, <2>1, <2>4, TaskParts, GotoKeeps
        <3>3. QED BY <2>2, <3>1, <3>2
    <2>6. QED BY <2>3, <2>5 DEF RoomInv, CallsOK, TypeOK, NeverJoinedByOthers, OwnedOnTheWay, presence, history
<1>3. CASE LoadRooms(n, s)
    <2> DEFINE t == [c EXCEPT !.pc = "assign", !.rows = db[n]]
    <2>1. t \in Task /\ t.rows = db[n] /\ t.refresh = c.refresh /\ c.pc = "load"
        BY <1>1, <1>3 DEF Task, Steps, LoadRooms, At, c
    <2> HIDE DEF t
    <2>2. Goto(n, s, t) /\ UNCHANGED <<up, db, hall, local, presence, history, used>>
        BY <1>3 DEF LoadRooms, t, c
    <2>3. CallsOK'
        BY <1>1, <2>1, <2>2, GotoKeeps DEF history, c
    <2>4. QED BY <2>2, <2>3 DEF RoomInv, CallsOK, TypeOK, NeverJoinedByOthers, OwnedOnTheWay, presence, history
<1>4. CASE AssignNodes(n, s)
    <2> DEFINE t == [c EXCEPT !.pc = "contexts", !.rows = NoRooms]
    <2>1. t \in Task /\ t.rows = NoRooms /\ t.refresh = c.refresh /\ c.pc = "assign"
        BY <1>1, <1>4, TaskParts DEF Task, Steps, AssignNodes, At, c
    <2> HIDE DEF t
    <2>2. Goto(n, s, t) /\ UNCHANGED <<up, db, presence, history, used>>
        BY <1>4 DEF AssignNodes, t, c
    <2>3. CallsOK'
        BY <1>1, <2>1, <2>2, TaskParts, GotoKeeps DEF history, c
    <2>4. /\ local' \in [Node -> SUBSET Room] /\ hall' \in [Node -> BOOLEAN]
          /\ \A m \in Node : local'[m] \subseteq ever[m]
        BY <1>1, <1>4 DEF AssignNodes, RoomInv, TypeOK, OwnedOnTheWay, c
    <2>5. QED BY <2>2, <2>3, <2>4 DEF RoomInv, CallsOK, TypeOK, NeverJoinedByOthers, OwnedOnTheWay, presence, history
<1>5. CASE MergeRooms(n, s)
    <2> DEFINE rows == [r \in Room |-> Merged(n, r)]
               t == [c EXCEPT !.pc = "write", !.rows = rows,
                              !.todo = {r \in Room : rows[r].known},
                              !.active = local[n] \cup Announced(n)]
    <2>1. \A r \in Room : Merged(n, r) \in Descriptor /\ (Merged(n, r).joined => r \in ever[n])
        BY <1>1 DEF Merged, Descriptor, Rooms
    <2>2. rows \in Rooms /\ \A r \in Room : rows[r].joined => r \in ever[n]
        BY <2>1 DEF Rooms
    <2>3. local[n] \cup Announced(n) \subseteq Room
        BY DEF RoomInv, TypeOK, Announced
    <2> HIDE DEF rows
    <2>4. t \in Task /\ t.rows = rows /\ t.refresh = c.refresh /\ t.pc = "write"
        BY <1>1, <2>2, <2>3 DEF Task, Steps
    <2>5. Goto(n, s, t) /\ UNCHANGED <<up, db, hall, local, presence, history, used>>
        BY <1>5 DEF MergeRooms, rows, c
    <2> HIDE DEF t
    <2>6. CallsOK'
        BY <1>1, <2>2, <2>4, <2>5, GotoKeeps DEF history, c
    <2>7. QED BY <2>5, <2>6 DEF RoomInv, CallsOK, TypeOK, NeverJoinedByOthers, OwnedOnTheWay, presence, history
<1>6. CASE WriteRoom(n, s) \/ UpdateRoom(n, s)
    <2>1. PICK r \in c.todo, d \in Descriptor :
            /\ d.joined = c.rows[r].joined
            /\ db' = [db EXCEPT ![n][r] = d]
            /\ Goto(n, s, [c EXCEPT !.todo = @ \ {r}])
        <3>1. c.todo \subseteq Room /\ \A q \in Room : c.rows[q] \in Descriptor
            BY <1>1 DEF Task, Rooms
        <3>2. CASE WriteRoom(n, s)
            BY <3>1, <3>2 DEF WriteRoom, c
        <3>3. CASE UpdateRoom(n, s)
            <4>1. PICK q \in c.todo :
                    /\ db' = [db EXCEPT ![n][q] = [known |-> TRUE, joined |-> c.rows[q].joined,
                                                   active |-> q \in c.active]]
                    /\ Goto(n, s, [c EXCEPT !.todo = @ \ {q}])
                BY <3>3 DEF UpdateRoom, c
            <4>2. [known |-> TRUE, joined |-> c.rows[q].joined, active |-> q \in c.active] \in Descriptor
                BY <3>1 DEF Descriptor
            <4>3. QED BY <4>1, <4>2
        <3>4. QED BY <1>6, <3>2, <3>3
    <2> DEFINE t == [c EXCEPT !.todo = @ \ {r}]
    <2>2. t \in Task /\ t.rows = c.rows /\ t.refresh = c.refresh /\ t.pc = c.pc /\ r \in Room
        BY <1>1, <2>1 DEF Task
    <2> HIDE DEF t
    <2>3. Goto(n, s, t) /\ UNCHANGED <<up, hall, local, presence, history, used>>
        BY <1>6, <2>1 DEF WriteRoom, UpdateRoom, t
    <2>4. CallsOK'
        BY <1>1, <2>2, <2>3, GotoKeeps DEF history, c
    <2>5. /\ db' \in [Node -> Rooms] /\ db'[n][r] = d
          /\ \A m \in Node, q \in Room : <<m, q>> # <<n, r>> => db'[m][q] = db[m][q]
        BY <1>1, <2>1, <2>2 DEF Rooms
    <2>6. \A m \in Node, q \in Room : db'[m][q].joined => q \in ever[m]
        BY <1>1, <2>1, <2>2, <2>5 DEF RoomInv, NeverJoinedByOthers
    <2>7. QED BY <2>3, <2>4, <2>5, <2>6 DEF RoomInv, CallsOK, TypeOK, NeverJoinedByOthers, OwnedOnTheWay, presence, history
<1>7. CASE QueryRooms(n, s) \/ Done(n, s)
    <2> DEFINE t == [c EXCEPT !.pc = "update", !.rows = db[n], !.todo = {r \in Room : db[n][r].known}]
    <2>1. t \in Task /\ t.rows = db[n] /\ t.refresh = c.refresh /\ t.pc = "update"
        BY <1>1 DEF Task, Steps
    <2>2. /\ Goto(n, s, Idle) \/ Goto(n, s, t)
          /\ UNCHANGED <<up, db, hall, local, presence, history, used>>
        BY <1>7 DEF QueryRooms, Done, c
    <2> HIDE DEF t
    <2>3. UNCHANGED ever
        BY <2>2 DEF history
    <2>4. CASE Goto(n, s, Idle)
        <3>1. CallsOK'
            BY <2>3, <2>4, TaskParts, GotoKeeps
        <3>2. QED BY <2>2, <3>1 DEF RoomInv, CallsOK, TypeOK, NeverJoinedByOthers, OwnedOnTheWay, presence, history
    <2>5. CASE Goto(n, s, t)
        <3>1. CallsOK'
            BY <1>1, <2>1, <2>3, <2>5, GotoKeeps DEF c
        <3>2. QED BY <2>2, <3>1 DEF RoomInv, CallsOK, TypeOK, NeverJoinedByOthers, OwnedOnTheWay, presence, history
    <2>6. QED BY <2>2, <2>4, <2>5
<1>8. CASE UpdateContexts(n, s)
    BY <1>8, ContextsKeep
<1>9. QED BY <1>2, <1>3, <1>4, <1>5, <1>6, <1>7, <1>8 DEF TaskStep

(* A datagram or an expiry starts a reconcile.                             *)
LEMMA SnapshotKeeps ==
    ASSUME RoomInv, NEW n \in Node, NEW p \in Node, NEW s \in Slot, Hear(n, s, p) \/ Expire(n, s, p)
    PROVE  RoomInv'
<1>1. Goto(n, s, Reconcile(FALSE)) /\ UNCHANGED <<up, db, hall, local, ctx, history>>
    BY DEF Hear, Expire
<1>2. CallsOK'
    BY <1>1, ReconcileParts, TaskParts, GotoKeeps DEF history
<1>3. /\ cache' \in [Node -> [Node -> SUBSET Room]]
      /\ \A m \in Node, q \in Node : cache'[m][q] \subseteq ever[q]
    <2>1. /\ cache \in [Node -> [Node -> SUBSET Room]]
          /\ \A m \in Node, q \in Node : cache[m][q] \subseteq ever[q]
          /\ ctx[p].rooms \subseteq ever[p] /\ ctx[p].rooms \subseteq Room
        BY DEF RoomInv, TypeOK, NeverJoinedByOthers
    <2>2. PICK x \in {ctx[p].rooms, {}} :
            cache' = [cache EXCEPT ![n] = IF hall[n] THEN [@ EXCEPT ![p] = x] ELSE Deaf]
        BY DEF Hear, Expire
    <2>3. CASE hall[n]
        <3>1. cache' = [cache EXCEPT ![n] = [cache[n] EXCEPT ![p] = x]]
            BY <2>2, <2>3
        <3>2. QED BY <2>1, <3>1
    <2>4. CASE ~hall[n]
        <3>1. cache' = [cache EXCEPT ![n] = Deaf]
            BY <2>2, <2>4
        <3>2. QED BY <2>1, <3>1 DEF Deaf
    <2>5. QED BY <2>3, <2>4
<1>4. used' \in Bounds
    <2>1. CASE Hear(n, s, p)
        BY <2>1 DEF Hear, RoomInv, TypeOK
    <2>2. CASE Expire(n, s, p)
        <3>1. used \in Bounds /\ used.expiries < MaxExpiries /\ used' = [used EXCEPT !.expiries = @ + 1]
            BY <2>2 DEF Expire, RoomInv, TypeOK
        <3>2. used.expiries + 1 \in 0..MaxExpiries
            BY <3>1, RoomsAssumption DEF Bounds
        <3>3. QED BY <3>1, <3>2 DEF Bounds
    <2>3. QED BY <2>1, <2>2
<1>5. QED BY <1>1, <1>2, <1>3, <1>4 DEF RoomInv, CallsOK, TypeOK, NeverJoinedByOthers, OwnedOnTheWay, history

(* Connections and processes come and go; an exit forgets, it never adds.  *)
LEMMA ProcessKeeps ==
    ASSUME RoomInv, NEW n \in Node, Drop(n) \/ Reconnect(n) \/ Exit(n)
    PROVE  RoomInv'
<1>1. CASE Drop(n) \/ Reconnect(n)
    <2>1. up' \in [Node -> BOOLEAN] /\ UNCHANGED <<db, hall, local, presence, task, history>>
        BY <1>1 DEF Drop, Reconnect, RoomInv, TypeOK
    <2>2. used' \in Bounds
        <3>1. CASE Reconnect(n)
            BY <3>1 DEF Reconnect, RoomInv, TypeOK
        <3>2. CASE Drop(n)
            <4>1. used \in Bounds /\ used.drops < MaxDrops /\ used' = [used EXCEPT !.drops = @ + 1]
                BY <3>2 DEF Drop, RoomInv, TypeOK
            <4>2. used.drops + 1 \in 0..MaxDrops
                BY <4>1, RoomsAssumption DEF Bounds
            <4>3. QED BY <4>1, <4>2 DEF Bounds
        <3>3. QED BY <1>1, <3>1, <3>2
    <2>3. QED
        BY <2>1, <2>2 DEF RoomInv, TypeOK, RefreshFlag, NeverJoinedByOthers, OwnedOnTheWay, presence, history
<1>2. CASE Exit(n)
    <2>1. used' \in Bounds
        <3>1. used \in Bounds /\ used.exits < MaxExits /\ used' = [used EXCEPT !.exits = @ + 1]
            BY <1>2 DEF Exit, RoomInv, TypeOK
        <3>2. used.exits + 1 \in 0..MaxExits
            BY <3>1, RoomsAssumption DEF Bounds
        <3>3. QED BY <3>1, <3>2 DEF Bounds
    <2>2. /\ task' \in [Node -> [Slot -> Task]]
          /\ \A s \in Slot : task'[n][s] = Idle
          /\ \A m \in Node : m # n => task'[m] = task[m]
        BY <1>2, TaskParts DEF Exit, RoomInv, TypeOK
    <2>3. \A m \in Node, u \in Slot : task'[m][u].refresh => task[m][u].refresh
        BY <2>2, TaskParts
    <2>4. \A m \in Node, u \in Slot, r \in Room : task'[m][u].rows[r].joined => r \in ever[m]
        BY <2>2, TaskParts DEF RoomInv, OwnedOnTheWay
    <2>5. RefreshFlag'
        BY <2>2, TaskParts DEF RoomInv, RefreshFlag
    <2>6. /\ hall' \in [Node -> BOOLEAN] /\ local' \in [Node -> SUBSET Room]
          /\ ctx' \in [Node -> [on : BOOLEAN, rooms : SUBSET Room]]
          /\ cache' \in [Node -> [Node -> SUBSET Room]]
          /\ \A m \in Node : local'[m] \subseteq ever[m] /\ ctx'[m].rooms \subseteq ever[m]
          /\ \A m \in Node, q \in Node : cache'[m][q] \subseteq ever[q]
        BY <1>2 DEF Exit, RoomInv, TypeOK, NeverJoinedByOthers, OwnedOnTheWay, Silent, Deaf
    <2>7. UNCHANGED <<up, db, history>>
        BY <1>2 DEF Exit
    <2>8. QED
        BY <2>1, <2>2, <2>3, <2>4, <2>5, <2>6, <2>7
           DEF RoomInv, TypeOK, NeverJoinedByOthers, OwnedOnTheWay, history
<1>3. QED BY <1>1, <1>2

(* Every step keeps the invariant.                                         *)
LEMMA NextKeeps == RoomInv /\ [Next]_vars => RoomInv'
<1>1. SUFFICES ASSUME RoomInv, [Next]_vars PROVE RoomInv' OBVIOUS
<1>2. CASE UNCHANGED vars
    BY <1>1, <1>2 DEF vars, RoomInv, TypeOK, RefreshFlag, NeverJoinedByOthers, OwnedOnTheWay
<1>3. ASSUME NEW n \in Users, NEW s \in Slot, NEW r \in Room,
             CreateRoom(n, s, r) \/ JoinRoom(n, s, r) \/ LeaveRoom(n, s, r)
      PROVE  RoomInv'
    <2>1. n \in Node /\ wish \in [Node -> SUBSET Room] /\ ever \in [Node -> SUBSET Room]
        BY <1>1, RoomsAssumption DEF RoomInv, TypeOK
    <2>2. CASE CreateRoom(n, s, r) \/ JoinRoom(n, s, r)
        <3> DEFINE d == [known |-> TRUE, joined |-> TRUE, active |-> TRUE]
        <3>1. d \in Descriptor
            BY DEF Descriptor
        <3>2. UserCall(n, s, r, d)
            BY <2>2 DEF CreateRoom, JoinRoom
        <3>3. /\ wish' \in [Node -> SUBSET Room] /\ ever' \in [Node -> SUBSET Room]
              /\ r \in ever'[n] /\ \A m \in Node : ever[m] \subseteq ever'[m]
            BY <2>1, <2>2 DEF CreateRoom, JoinRoom
        <3> HIDE DEF d
        <3>4. QED BY <1>1, <2>1, <3>1, <3>2, <3>3, UserKeeps
    <2>3. CASE LeaveRoom(n, s, r)
        <3>1. PICK seen \in BOOLEAN : UserCall(n, s, r, [known |-> TRUE, joined |-> FALSE, active |-> seen])
            BY <2>3 DEF LeaveRoom
        <3> DEFINE d == [known |-> TRUE, joined |-> FALSE, active |-> seen]
        <3>2. d \in Descriptor /\ d.joined = FALSE
            BY DEF Descriptor
        <3>3. UserCall(n, s, r, d)
            BY <3>1
        <3>4. wish' \in [Node -> SUBSET Room] /\ ever' = ever
            BY <2>1, <2>3 DEF LeaveRoom
        <3> HIDE DEF d
        <3>5. QED BY <1>1, <2>1, <3>2, <3>3, <3>4, UserKeeps
    <2>4. QED BY <1>3, <2>2, <2>3
<1>4. QED BY <1>1, <1>2, <1>3, TaskKeeps, SnapshotKeeps, ProcessKeeps DEF Next

(* Types, and one refresh at a time on each node, whatever overlaps.       *)
THEOREM RefreshOnce == Spec => []TypeOK
<1>1. RoomInv => TypeOK BY DEF RoomInv
<1>2. QED BY <1>1, InitRooms, NextKeeps, PTL DEF Spec

(* Reconciling what others announce, in whatever order and however stale,  *)
(* never makes a node a member of a room its user has not entered.         *)
THEOREM MembershipIsOwn == Spec => []NeverJoinedByOthers
<1>1. RoomInv => NeverJoinedByOthers BY DEF RoomInv
<1>2. QED BY <1>1, InitRooms, NextKeeps, PTL DEF Spec
-----------------------------------------------------------------------------
(* A reconcile writes back only rooms that it read.                        *)
TodoKnown ==
    \A n \in Node, s \in Slot :
        task[n][s].pc = "write" => \A r \in task[n][s].todo : task[n][s].rows[r].known

(* One node: its table, its user's wishes, the rooms of its last refresh   *)
(* and its calls.  The table and every copy of it that a call will write   *)
(* back follow the user; the rooms of the last refresh do too, or a refresh*)
(* will bring them up to date before anything else reads them.             *)
Fresh == {"refresh", "load", "assign"}
FollowsUser(rows, wished, rooms, calls) ==
    /\ \A r \in Room : rows[r].joined <=> r \in wished
    /\ \A s \in Slot : calls[s].pc \in {"assign", "write", "update"} =>
          \A r \in Room : calls[s].rows[r].joined <=> r \in wished
    /\ rooms \subseteq wished \/ \E s \in Slot : calls[s].pc \in Fresh
    /\ \A s \in Slot : calls[s].pc \in Fresh \cup {"contexts"} =>
          \A t \in Slot \ {s} : calls[t] = Idle
    /\ \A s \in Slot : calls[s].pc = "refresh" => ~calls[s].refresh

UserFollowed == \A n \in Node \ Overlap : FollowsUser(db[n], wish[n], local[n], task[n])

KeepInv == TodoKnown /\ UserFollowed

(* A node at which no call is under way.                                   *)
LEMMA QuietNode ==
    ASSUME NEW n \in Node, Quiet(n)
    PROVE  \A s \in Slot : task[n][s] = Idle /\ task[n][s].pc = "idle"
BY TaskParts DEF Quiet

(* The call in slot s of node n goes on as t, which may write its table    *)
(* and the rooms of its last refresh; the others do nothing.               *)
LEMMA CallMoves ==
    ASSUME RoomInv, KeepInv, NEW n \in Node, NEW s \in Slot, NEW t \in Task, Goto(n, s, t),
           \A m \in Node \ {n} : db'[m] = db[m] /\ local'[m] = local[m], wish' = wish,
           t.pc = "write" => \A r \in t.todo : t.rows[r].known,
           n \notin Overlap =>
             /\ \A r \in Room : db'[n][r].joined <=> r \in wish[n]
             /\ t.pc \in {"assign", "write", "update"} =>
                   \A r \in Room : t.rows[r].joined <=> r \in wish[n]
             /\ \/ local'[n] \subseteq wish[n] \/ t.pc \in Fresh
                \/ task[n][s].pc \notin Fresh /\ local'[n] = local[n]
             /\ t.pc \in Fresh \cup {"contexts"} => \A u \in Slot \ {s} : task[n][u] = Idle
             /\ task[n][s] # Idle \/ t = Idle \/ \A u \in Slot : task[n][u] = Idle
             /\ t.pc = "refresh" => ~t.refresh
    PROVE  KeepInv'
<1>1. task \in [Node -> [Slot -> Task]]
    BY DEF RoomInv, TypeOK
<1>2. /\ task'[n][s] = t /\ \A u \in Slot \ {s} : task'[n][u] = task[n][u]
      /\ \A m \in Node \ {n} : task'[m] = task[m]
    BY <1>1 DEF Goto
<1>3. TodoKnown'
    BY <1>2 DEF KeepInv, TodoKnown
<1>4. ASSUME NEW m \in Node \ Overlap, m # n
      PROVE  FollowsUser(db'[m], wish'[m], local'[m], task'[m])
    BY <1>2, <1>4 DEF KeepInv, UserFollowed
<1>5. ASSUME n \notin Overlap
      PROVE  FollowsUser(db'[n], wish'[n], local'[n], task'[n])
    <2>1. FollowsUser(db[n], wish[n], local[n], task[n])
        BY <1>5 DEF KeepInv, UserFollowed
    <2>2. \A r \in Room : db'[n][r].joined <=> r \in wish'[n]
        BY <1>5
    <2>3. \A u \in Slot : task'[n][u].pc \in {"assign", "write", "update"} =>
             \A r \in Room : task'[n][u].rows[r].joined <=> r \in wish'[n]
        BY <1>2, <1>5, <2>1 DEF FollowsUser
    <2>4. local'[n] \subseteq wish'[n] \/ \E u \in Slot : task'[n][u].pc \in Fresh
        <3>1. CASE local'[n] \subseteq wish[n]
            BY <3>1
        <3>2. CASE t.pc \in Fresh
            BY <1>2, <3>2
        <3>3. CASE task[n][s].pc \notin Fresh /\ local'[n] = local[n]
            <4>1. local[n] \subseteq wish[n] \/ \E u \in Slot \ {s} : task[n][u].pc \in Fresh
                BY <2>1, <3>3 DEF FollowsUser
            <4>2. QED BY <1>2, <3>3, <4>1
        <3>4. QED BY <1>5, <3>1, <3>2, <3>3
    <2>5. ASSUME NEW u \in Slot, task'[n][u].pc \in Fresh \cup {"contexts"},
                 NEW v \in Slot \ {u}
          PROVE  task'[n][v] = Idle
        <3>1. CASE u = s
            BY <1>2, <1>5, <2>5, <3>1
        <3>2. CASE u # s
            <4>1. task[n][u].pc \in Fresh \cup {"contexts"} /\ task[n][u].pc # "idle"
                BY <1>2, <2>5, <3>2 DEF Fresh
            <4>2. \A w \in Slot \ {u} : task[n][w] = Idle
                BY <2>1, <4>1 DEF FollowsUser
            <4>3. task[n][u] # Idle
                BY <4>1, TaskParts
            <4>4. t = Idle
                BY <1>5, <3>2, <4>2, <4>3
            <4>5. QED BY <1>2, <4>2, <4>4
        <3>3. QED BY <3>1, <3>2
    <2>6. \A u \in Slot : task'[n][u].pc = "refresh" => ~task'[n][u].refresh
        BY <1>2, <1>5, <2>1 DEF FollowsUser
    <2>7. QED BY <2>2, <2>3, <2>4, <2>5, <2>6 DEF FollowsUser
<1>6. UserFollowed'
    BY <1>4, <1>5 DEF UserFollowed
<1>7. QED BY <1>3, <1>6 DEF KeepInv

(* A user's call: nothing else is under way at the node, and the row it    *)
(* writes is the user's wish.                                              *)
LEMMA UserFollows ==
    ASSUME RoomInv, KeepInv, NEW n \in Node, NEW s \in Slot, NEW r \in Room, NEW d \in Descriptor,
           UserCall(n, s, r, d), \A m \in Node \ {n} : wish'[m] = wish[m],
           \A q \in Room \ {r} : q \in wish'[n] <=> q \in wish[n],
           d.joined <=> r \in wish'[n]
    PROVE  KeepInv'
<1> DEFINE t == [Idle EXCEPT !.pc = "refresh"]
<1>1. t.pc = "refresh" /\ t.refresh = FALSE
    BY DEF Idle
<1> HIDE DEF t
<1>2. /\ task \in [Node -> [Slot -> Task]] /\ db \in [Node -> Rooms]
      /\ task' = [task EXCEPT ![n][s] = t] /\ db' = [db EXCEPT ![n][r] = d] /\ local' = local
      /\ n \in Overlap \/ Quiet(n)
    BY DEF RoomInv, TypeOK, UserCall, Goto, CanStart, t
<1>3. /\ task'[n][s] = t /\ \A u \in Slot \ {s} : task'[n][u] = task[n][u]
      /\ \A m \in Node \ {n} : task'[m] = task[m]
    BY <1>2
<1>4. /\ db'[n][r] = d /\ \A q \in Room \ {r} : db'[n][q] = db[n][q]
      /\ \A m \in Node \ {n} : db'[m] = db[m]
    BY <1>2 DEF Rooms
<1>5. TodoKnown'
    BY <1>1, <1>3 DEF KeepInv, TodoKnown
<1>6. ASSUME NEW m \in Node \ Overlap, m # n
      PROVE  FollowsUser(db'[m], wish'[m], local'[m], task'[m])
    BY <1>2, <1>3, <1>4, <1>6 DEF KeepInv, UserFollowed
<1>7. ASSUME n \notin Overlap
      PROVE  FollowsUser(db'[n], wish'[n], local'[n], task'[n])
    <2>1. FollowsUser(db[n], wish[n], local[n], task[n])
        BY <1>7 DEF KeepInv, UserFollowed
    <2>2. \A u \in Slot : task[n][u] = Idle /\ task[n][u].pc = "idle"
        BY <1>2, <1>7, QuietNode
    <2>3. \A q \in Room : db'[n][q].joined <=> q \in wish'[n]
        BY <1>4, <2>1 DEF FollowsUser
    <2>4. \A u \in Slot : task'[n][u].pc \in {"refresh", "idle"}
        BY <1>1, <1>3, <2>2
    <2>5. \A u \in Slot : task'[n][u].pc = "refresh" =>
             u = s /\ ~task'[n][u].refresh /\ \A v \in Slot \ {u} : task'[n][v] = Idle
        BY <1>1, <1>3, <2>2
    <2>6. QED BY <1>1, <1>3, <2>3, <2>4, <2>5 DEF FollowsUser, Fresh
<1>8. UserFollowed'
    BY <1>6, <1>7 DEF UserFollowed
<1>9. QED BY <1>5, <1>8 DEF KeepInv

(* The timer and the presence snapshots: calls that begin at a quiet node. *)
LEMMA CallBegins ==
    ASSUME RoomInv, KeepInv, NEW n \in Node, NEW s \in Slot, NEW t \in Task, Goto(n, s, t),
           CanStart(n, s), t.pc \in {"load", "merge"}, UNCHANGED <<db, local, wish>>
    PROVE  KeepInv'
<1>1. ASSUME n \notin Overlap
      PROVE  /\ \A u \in Slot : task[n][u] = Idle /\ task[n][u].pc = "idle"
             /\ \A r \in Room : db[n][r].joined <=> r \in wish[n]
    BY <1>1, QuietNode DEF CanStart, KeepInv, UserFollowed, FollowsUser
<1>2. t.pc \notin {"assign", "write", "update", "refresh"}
    OBVIOUS
<1>3. QED BY <1>1, <1>2, CallMoves DEF Fresh

(* The steps of a call.                                                    *)
LEMMA TaskFollows ==
    ASSUME RoomInv, KeepInv, NEW n \in Node, NEW s \in Slot, TaskStep(n, s)
    PROVE  KeepInv'
<1> DEFINE c == task[n][s]
<1>1. /\ c \in Task /\ c.rows \in Rooms /\ db \in [Node -> Rooms] /\ db[n] \in Rooms
      /\ local \in [Node -> SUBSET Room] /\ task \in [Node -> [Slot -> Task]]
    BY DEF RoomInv, TypeOK, Task
<1>2. n \notin Overlap => FollowsUser(db[n], wish[n], local[n], task[n])
    BY DEF KeepInv, UserFollowed
<1>3. c.pc # "idle" => c # Idle
    BY TaskParts
<1>4. CASE CallRefresh(n, s)
    <2> DEFINE load == [Idle EXCEPT !.pc = "load", !.refresh = TRUE]
    <2>1. load \in Task /\ load.pc = "load"
        BY TaskParts DEF Idle, Task, Steps
    <2>2. c.pc = "refresh" /\ Goto(n, s, IF Refreshing(n) THEN Idle ELSE load)
          /\ UNCHANGED <<db, local, wish>>
        BY <1>4 DEF CallRefresh, At, history
    <2> HIDE DEF load, c
    <2>3. ASSUME n \notin Overlap
          PROVE  /\ ~Refreshing(n) /\ \A u \in Slot \ {s} : task[n][u] = Idle
                 /\ \A r \in Room : db[n][r].joined <=> r \in wish[n]
        <3>1. /\ \A u \in Slot \ {s} : task[n][u] = Idle
              /\ ~c.refresh
              /\ \A r \in Room : db[n][r].joined <=> r \in wish[n]
            BY <1>2, <2>2, <2>3 DEF FollowsUser, Fresh, c
        <3>2. ~Refreshing(n)
            BY <3>1, TaskParts DEF Refreshing, c
        <3>3. QED BY <3>1, <3>2
    <2>4. CASE Refreshing(n)
        BY <2>2, <2>3, <2>4, TaskParts, CallMoves
    <2>5. CASE ~Refreshing(n)
        <3>1. Goto(n, s, load)
            BY <2>2, <2>5
        <3>2. c # Idle /\ load.pc \in Fresh
            BY <1>3, <2>1, <2>2 DEF Fresh
        <3>3. QED BY <2>1, <2>2, <2>3, <3>1, <3>2, CallMoves DEF c
    <2>6. QED BY <2>4, <2>5
<1>5. CASE LoadRooms(n, s)
    <2> DEFINE t == [c EXCEPT !.pc = "assign", !.rows = db[n]]
    <2>1. t \in Task /\ t.pc = "assign" /\ t.rows = db[n]
        BY <1>1 DEF Task, Steps
    <2>2. c.pc = "load" /\ Goto(n, s, t) /\ UNCHANGED <<db, local, wish>>
        BY <1>5 DEF LoadRooms, At, history
    <2> HIDE DEF t, c
    <2>3. c.pc \in Fresh /\ t.pc \in Fresh /\ c # Idle
        BY <1>3, <2>1, <2>2 DEF Fresh
    <2>4. n \notin Overlap => /\ \A u \in Slot \ {s} : task[n][u] = Idle
                              /\ \A r \in Room : db[n][r].joined <=> r \in wish[n]
        BY <1>2, <2>3 DEF FollowsUser, c
    <2>5. QED BY <2>1, <2>2, <2>3, <2>4, CallMoves DEF c
<1>6. CASE AssignNodes(n, s)
    <2> DEFINE t == [c EXCEPT !.pc = "contexts", !.rows = NoRooms]
    <2>1. t \in Task /\ t.pc = "contexts"
        BY <1>1, TaskParts DEF Task, Steps
    <2>2. /\ c.pc = "assign" /\ Goto(n, s, t) /\ UNCHANGED <<db, wish>>
          /\ local' = [local EXCEPT ![n] = {r \in Room : up[n] /\ c.rows[r].joined}]
        BY <1>6 DEF AssignNodes, At, history
    <2> HIDE DEF t, c
    <2>3. c.pc \in Fresh /\ c # Idle
        BY <1>3, <2>2 DEF Fresh
    <2>4. n \notin Overlap => /\ \A u \in Slot \ {s} : task[n][u] = Idle
                              /\ \A r \in Room : db[n][r].joined <=> r \in wish[n]
                              /\ \A r \in Room : c.rows[r].joined <=> r \in wish[n]
        BY <1>2, <2>2, <2>3 DEF FollowsUser, c
    <2>5. /\ local'[n] = {r \in Room : up[n] /\ c.rows[r].joined}
          /\ \A m \in Node \ {n} : local'[m] = local[m]
        BY <1>1, <2>2
    <2>6. n \notin Overlap => local'[n] \subseteq wish[n]
        BY <2>4, <2>5
    <2>7. QED BY <2>1, <2>2, <2>3, <2>4, <2>5, <2>6, CallMoves DEF c
<1>7. CASE UpdateContexts(n, s)
    <2>1. c.pc = "contexts" /\ UNCHANGED <<db, local, wish>>
        BY <1>7 DEF UpdateContexts, At, history
    <2>2. /\ Reconcile(TRUE) \in Task /\ Reconcile(TRUE).pc = "merge"
          /\ Reconcile(FALSE) \in Task /\ Reconcile(FALSE).pc = "merge"
        BY ReconcileParts
    <2> HIDE DEF c
    <2>3. n \notin Overlap => /\ \A u \in Slot \ {s} : task[n][u] = Idle
                              /\ \A r \in Room : db[n][r].joined <=> r \in wish[n]
                              /\ local[n] \subseteq wish[n]
        <3>1. SUFFICES ASSUME n \notin Overlap
                       PROVE  /\ \A u \in Slot \ {s} : task[n][u] = Idle
                              /\ \A r \in Room : db[n][r].joined <=> r \in wish[n]
                              /\ local[n] \subseteq wish[n]
            OBVIOUS
        <3>2. FollowsUser(db[n], wish[n], local[n], task[n])
            BY <1>2, <3>1
        <3>3. \A u \in Slot \ {s} : task[n][u] = Idle /\ task[n][u].pc = "idle"
            BY <2>1, <3>2, TaskParts DEF FollowsUser, c
        <3>4. \A u \in Slot : task[n][u].pc \notin Fresh
            BY <2>1, <3>3 DEF Fresh, c
        <3>5. QED BY <3>2, <3>3, <3>4 DEF FollowsUser
    <2>4. CASE Goto(n, s, Reconcile(TRUE))
        BY <1>3, <2>1, <2>2, <2>3, <2>4, CallMoves DEF Fresh, c
    <2>5. CASE \E free \in Slot \ {s} :
                /\ task[n][free] = Idle
                /\ task' = [task EXCEPT ![n][s] = Reconcile(TRUE), ![n][free] = Reconcile(FALSE)]
        <3>1. PICK free \in Slot \ {s} :
                task' = [task EXCEPT ![n][s] = Reconcile(TRUE), ![n][free] = Reconcile(FALSE)]
            BY <2>5
        <3>2. /\ task'[n][s] = Reconcile(TRUE) /\ task'[n][free] = Reconcile(FALSE)
              /\ \A u \in Slot \ {s, free} : task'[n][u] = task[n][u]
              /\ \A m \in Node \ {n} : task'[m] = task[m]
            BY <1>1, <3>1
        <3>3. TodoKnown'
            BY <2>2, <3>2 DEF KeepInv, TodoKnown
        <3>4. ASSUME NEW m \in Node \ Overlap, m # n
              PROVE  FollowsUser(db'[m], wish'[m], local'[m], task'[m])
            BY <2>1, <3>2, <3>4 DEF KeepInv, UserFollowed
        <3>5. ASSUME n \notin Overlap
              PROVE  FollowsUser(db'[n], wish'[n], local'[n], task'[n])
            <4>1. \A u \in Slot : task'[n][u].pc \in {"idle", "merge"}
                <5>1. \A u \in Slot \ {s, free} : task'[n][u] = Idle
                    BY <2>3, <3>2, <3>5
                <5>2. QED BY <2>2, <3>2, <5>1, TaskParts
            <4>2. QED BY <2>1, <2>3, <3>5, <4>1 DEF FollowsUser, Fresh
        <3>6. UserFollowed'
            BY <3>4, <3>5 DEF UserFollowed
        <3>7. QED BY <3>3, <3>6 DEF KeepInv
    <2>6. QED BY <1>7, <2>4, <2>5 DEF UpdateContexts
<1>8. CASE MergeRooms(n, s)
    <2> DEFINE rows == [r \in Room |-> Merged(n, r)]
               todo == {r \in Room : rows[r].known}
               active == local[n] \cup Announced(n)
               t == [c EXCEPT !.pc = "write", !.rows = rows, !.todo = todo, !.active = active]
    <2>1. c.pc = "merge" /\ Goto(n, s, t) /\ UNCHANGED <<db, local, wish>>
        BY <1>8 DEF MergeRooms, At, history
    <2>2. \A r \in Room : Merged(n, r) \in Descriptor /\ rows[r] = Merged(n, r)
        BY <1>1 DEF Merged, Descriptor, Rooms
    <2>3. rows \in Rooms
        BY <2>2 DEF Rooms
    <2>4. active \subseteq Room
        BY <1>1 DEF RoomInv, TypeOK, Announced
    <2>5. t \in Task /\ t.pc = "write" /\ t.rows = rows /\ t.todo = todo
        BY <1>1, <2>3, <2>4 DEF Task, Steps
    <2>6. \A r \in t.todo : t.rows[r].known
        BY <2>5
    <2>7. ASSUME n \notin Overlap
          PROVE  /\ \A r \in Room : db[n][r].joined <=> r \in wish[n]
                 /\ \A r \in Room : Merged(n, r).joined <=> r \in wish[n]
        <3>1. FollowsUser(db[n], wish[n], local[n], task[n])
            BY <1>2, <2>7
        <3>2. \A u \in Slot : task[n][u].pc \notin Fresh
            <4>1. SUFFICES ASSUME NEW u \in Slot, task[n][u].pc \in Fresh PROVE FALSE
                OBVIOUS
            <4>2. u # s
                BY <2>1, <4>1 DEF Fresh
            <4>3. c = Idle
                BY <3>1, <4>1, <4>2 DEF FollowsUser
            <4>4. QED BY <1>3, <2>1, <4>3
        <3>3. local[n] \subseteq wish[n] /\ \A r \in Room : db[n][r].joined <=> r \in wish[n]
            BY <3>1, <3>2 DEF FollowsUser
        <3>4. QED BY <3>3 DEF Merged
    <2>8. n \notin Overlap => \A r \in Room : t.rows[r].joined <=> r \in wish[n]
        BY <2>2, <2>5, <2>7
    <2>9. c # Idle /\ c.pc \notin Fresh /\ t.pc \notin Fresh \cup {"contexts"}
        BY <1>3, <2>1, <2>5 DEF Fresh
    <2> HIDE DEF t, c, rows, todo, active
    <2>10. QED BY <2>1, <2>5, <2>6, <2>7, <2>8, <2>9, CallMoves DEF c
<1>9. CASE WriteRoom(n, s) \/ UpdateRoom(n, s)
    <2> HIDE DEF c
    <2>1. c.pc \in {"write", "update"} /\ UNCHANGED <<local, wish>>
        BY <1>9 DEF WriteRoom, UpdateRoom, At, history, c
    <2>0. PICK r \in c.todo : \E d :
            /\ d.joined = c.rows[r].joined /\ db' = [db EXCEPT ![n][r] = d]
            /\ Goto(n, s, [c EXCEPT !.todo = @ \ {r}])
        <3>1. CASE WriteRoom(n, s)
            BY <3>1 DEF WriteRoom, c
        <3>2. CASE UpdateRoom(n, s)
            <4>1. PICK r \in c.todo :
                    /\ db' = [db EXCEPT ![n][r] = [known |-> TRUE, joined |-> c.rows[r].joined,
                                                   active |-> r \in c.active]]
                    /\ Goto(n, s, [c EXCEPT !.todo = @ \ {r}])
                BY <3>2 DEF UpdateRoom, c
            <4>2. [known |-> TRUE, joined |-> c.rows[r].joined, active |-> r \in c.active].joined
                    = c.rows[r].joined
                OBVIOUS
            <4>3. QED BY <4>1, <4>2
        <3>3. QED BY <1>9, <3>1, <3>2
    <2>2. PICK d :
            /\ d.joined = c.rows[r].joined /\ db' = [db EXCEPT ![n][r] = d]
            /\ Goto(n, s, [c EXCEPT !.todo = @ \ {r}])
        BY <2>0
    <2> DEFINE t == [c EXCEPT !.todo = @ \ {r}]
    <2>3. t \in Task /\ t.pc = c.pc /\ t.rows = c.rows /\ t.todo \subseteq c.todo /\ r \in Room
        BY <1>1, <2>0, <2>2 DEF Task, c
    <2>4. Goto(n, s, t)
        BY <2>2
    <2> HIDE DEF t
    <2>5. /\ db'[n][r] = d /\ \A q \in Room \ {r} : db'[n][q] = db[n][q]
          /\ \A m \in Node \ {n} : db'[m] = db[m]
        BY <1>1, <2>2, <2>3 DEF Rooms
    <2>6. t.pc = "write" => \A q \in t.todo : t.rows[q].known
        BY <2>3 DEF KeepInv, TodoKnown, c
    <2>7. ASSUME n \notin Overlap
          PROVE  /\ \A q \in Room : c.rows[q].joined <=> q \in wish[n]
                 /\ \A q \in Room : db'[n][q].joined <=> q \in wish[n]
        <3>1. FollowsUser(db[n], wish[n], local[n], task[n])
            BY <1>2, <2>7
        <3>2. \A q \in Room : c.rows[q].joined <=> q \in wish[n]
            BY <2>1, <3>1 DEF FollowsUser, c
        <3>3. \A q \in Room : db[n][q].joined <=> q \in wish[n]
            BY <3>1 DEF FollowsUser
        <3>4. QED BY <2>2, <2>3, <2>5, <3>2, <3>3
    <2>8. c # Idle /\ c.pc \notin Fresh /\ t.pc \notin Fresh \cup {"contexts"} /\ t.pc # "refresh"
        BY <1>3, <2>1, <2>3 DEF Fresh, c
    <2>9. QED BY <2>1, <2>3, <2>4, <2>5, <2>6, <2>7, <2>8, CallMoves DEF c
<1>10. CASE QueryRooms(n, s) \/ Done(n, s)
    <2> DEFINE t == [c EXCEPT !.pc = "update", !.rows = db[n],
                              !.todo = {r \in Room : db[n][r].known}]
    <2>1. t \in Task /\ t.pc = "update" /\ t.rows = db[n]
        BY <1>1 DEF Task, Steps
    <2>2. /\ c.pc \in {"write", "update"} /\ UNCHANGED <<db, local, wish>>
          /\ Goto(n, s, Idle) \/ Goto(n, s, t)
        BY <1>10 DEF QueryRooms, Done, At, history
    <2> HIDE DEF t, c
    <2>3. n \notin Overlap => \A q \in Room : db[n][q].joined <=> q \in wish[n]
        BY <1>2 DEF FollowsUser
    <2>4. c # Idle /\ c.pc \notin Fresh /\ t.pc \notin Fresh \cup {"contexts"}
        BY <1>3, <2>1, <2>2 DEF Fresh, c
    <2>5. CASE Goto(n, s, Idle)
        BY <2>2, <2>3, <2>4, <2>5, TaskParts, CallMoves DEF c, Fresh
    <2>6. CASE Goto(n, s, t)
        BY <2>1, <2>2, <2>3, <2>4, <2>6, CallMoves DEF c
    <2>7. QED BY <2>2, <2>5, <2>6
<1>11. QED BY <1>4, <1>5, <1>6, <1>7, <1>8, <1>9, <1>10 DEF TaskStep

(* The network and the process: an exit forgets the calls and the list.    *)
LEMMA ProcessFollows ==
    ASSUME RoomInv, KeepInv, NEW n \in Node, Drop(n) \/ Reconnect(n) \/ Exit(n)
    PROVE  KeepInv'
<1>1. CASE Drop(n) \/ Reconnect(n)
    BY <1>1 DEF Drop, Reconnect, history, KeepInv, TodoKnown, UserFollowed
<1>2. CASE Exit(n)
    <2>1. /\ db' = db /\ wish' = wish
          /\ task' = [task EXCEPT ![n] = [s \in Slot |-> Idle]] /\ local' = [local EXCEPT ![n] = {}]
        BY <1>2 DEF Exit, history
    <2>2. /\ \A s \in Slot : task'[n][s] = Idle /\ task'[n][s].pc = "idle"
          /\ \A m \in Node \ {n} : task'[m] = task[m] /\ local'[m] = local[m]
          /\ local'[n] = {}
        BY <2>1, TaskParts DEF RoomInv, TypeOK
    <2>3. TodoKnown'
        BY <2>2 DEF KeepInv, TodoKnown
    <2>4. ASSUME NEW m \in Node \ Overlap, m # n
          PROVE  FollowsUser(db'[m], wish'[m], local'[m], task'[m])
        BY <2>1, <2>2, <2>4 DEF KeepInv, UserFollowed
    <2>5. ASSUME n \notin Overlap
          PROVE  FollowsUser(db'[n], wish'[n], local'[n], task'[n])
        <3>1. \A r \in Room : db[n][r].joined <=> r \in wish[n]
            BY <2>5 DEF KeepInv, UserFollowed, FollowsUser
        <3>2. QED BY <2>1, <2>2, <3>1 DEF FollowsUser, Fresh
    <2>6. UserFollowed'
        BY <2>4, <2>5 DEF UserFollowed
    <2>7. QED BY <2>3, <2>6 DEF KeepInv
<1>3. QED BY <1>1, <1>2

LEMMA NextFollows == RoomInv /\ KeepInv /\ [Next]_vars => KeepInv'
<1>1. SUFFICES ASSUME RoomInv, KeepInv, [Next]_vars PROVE KeepInv' OBVIOUS
<1>2. CASE UNCHANGED vars
    BY <1>1, <1>2 DEF vars, KeepInv, TodoKnown, UserFollowed
<1>3. ASSUME NEW n \in Node, NEW s \in Slot, TimerRefresh(n, s) PROVE KeepInv'
    <2> DEFINE t == [Idle EXCEPT !.pc = "load", !.refresh = TRUE]
    <2>1. t \in Task /\ t.pc = "load"
        BY TaskParts DEF Idle, Task, Steps
    <2>2. Goto(n, s, t) /\ CanStart(n, s) /\ UNCHANGED <<db, local, wish>>
        BY <1>3 DEF TimerRefresh, history
    <2> HIDE DEF t
    <2>3. QED BY <1>1, <2>1, <2>2, CallBegins
<1>4. ASSUME NEW n \in Node, NEW s \in Slot, NEW p \in Node, Hear(n, s, p) \/ Expire(n, s, p)
      PROVE  KeepInv'
    <2>1. Goto(n, s, Reconcile(FALSE)) /\ CanStart(n, s) /\ UNCHANGED <<db, local, wish>>
        BY <1>4 DEF Hear, Expire, history
    <2>2. QED BY <1>1, <2>1, ReconcileParts, CallBegins
<1>5. ASSUME NEW n \in Users, NEW s \in Slot, NEW r \in Room,
             CreateRoom(n, s, r) \/ JoinRoom(n, s, r) \/ LeaveRoom(n, s, r)
      PROVE  KeepInv'
    <2>1. n \in Node /\ wish \in [Node -> SUBSET Room]
        BY <1>1, RoomsAssumption DEF RoomInv, TypeOK
    <2>2. CASE CreateRoom(n, s, r) \/ JoinRoom(n, s, r)
        <3> DEFINE d == [known |-> TRUE, joined |-> TRUE, active |-> TRUE]
        <3>1. d \in Descriptor /\ d.joined
            BY DEF Descriptor
        <3>2. UserCall(n, s, r, d) /\ wish' = [wish EXCEPT ![n] = @ \cup {r}]
            BY <2>2 DEF CreateRoom, JoinRoom
        <3> HIDE DEF d
        <3>3. QED BY <1>1, <2>1, <3>1, <3>2, UserFollows
    <2>3. CASE LeaveRoom(n, s, r)
        <3>1. PICK seen \in BOOLEAN : UserCall(n, s, r, [known |-> TRUE, joined |-> FALSE, active |-> seen])
            BY <2>3 DEF LeaveRoom
        <3> DEFINE d == [known |-> TRUE, joined |-> FALSE, active |-> seen]
        <3>2. d \in Descriptor /\ ~d.joined
            BY DEF Descriptor
        <3>3. UserCall(n, s, r, d) /\ wish' = [wish EXCEPT ![n] = @ \ {r}]
            BY <2>3, <3>1 DEF LeaveRoom
        <3> HIDE DEF d
        <3>4. QED BY <1>1, <2>1, <3>2, <3>3, UserFollows
    <2>4. QED BY <1>5, <2>2, <2>3
<1>6. QED BY <1>1, <1>2, <1>3, <1>4, <1>5, TaskFollows, ProcessFollows DEF Next

LEMMA InitFollows == Init => KeepInv
<1>1. SUFFICES ASSUME Init PROVE KeepInv OBVIOUS
<1>2. \A n \in Node : /\ \A s \in Slot : task[n][s] = Idle /\ task[n][s].pc = "idle"
                      /\ local[n] = {} /\ wish[n] = {}
                      /\ \A r \in Room : ~db[n][r].joined
    BY <1>1, TaskParts DEF Init
<1>3. TodoKnown
    BY <1>2 DEF TodoKnown
<1>4. UserFollowed
    BY <1>2 DEF UserFollowed, FollowsUser, Fresh
<1>5. QED BY <1>3, <1>4 DEF KeepInv

(* On a node that handles one call at a time the user is a member of the   *)
(* rooms he entered and did not leave, and of no other, whatever is lost,  *)
(* announced or restarted.                                                 *)
THEOREM MembershipFollows == Spec => []MembershipKept
<1>1. KeepInv => MembershipKept
    BY DEF KeepInv, UserFollowed, FollowsUser, MembershipKept
<1>2. QED BY <1>1, InitRooms, NextKeeps, InitFollows, NextFollows, PTL DEF Spec

(* A room a node knows stays in its list, also when calls overlap.         *)
THEOREM RoomsStay == Spec => RoomsKept
<1> DEFINE Kept == \A n \in Node, r \in Room : db[n][r].known => db'[n][r].known
<1>1. RoomInv /\ KeepInv /\ [Next]_vars => [Kept]_vars
    <2>1. SUFFICES ASSUME RoomInv, KeepInv, Next PROVE Kept
        OBVIOUS
    <2>2. db \in [Node -> Rooms] /\ task \in [Node -> [Slot -> Task]]
        BY <2>1 DEF RoomInv, TypeOK
    <2>3. \/ db' = db
          \/ \E n \in Node, r \in Room : \E d : d.known /\ db' = [db EXCEPT ![n][r] = d]
        <3>1. ASSUME NEW n \in Node, NEW s \in Slot, TaskStep(n, s)
              PROVE  db' = db \/ \E r \in Room : \E d : d.known /\ db' = [db EXCEPT ![n][r] = d]
            <4>1. task[n][s].todo \subseteq Room
                BY <2>2 DEF Task
            <4>2. CASE WriteRoom(n, s)
                <5>1. PICK r \in task[n][s].todo : db' = [db EXCEPT ![n][r] = task[n][s].rows[r]]
                    BY <4>2 DEF WriteRoom
                <5>2. task[n][s].rows[r].known
                    BY <2>1, <4>2, <5>1 DEF WriteRoom, At, KeepInv, TodoKnown
                <5>3. QED BY <4>1, <5>1, <5>2
            <4>3. CASE UpdateRoom(n, s)
                <5>1. PICK r \in task[n][s].todo :
                        db' = [db EXCEPT ![n][r] = [known |-> TRUE, joined |-> task[n][s].rows[r].joined,
                                                    active |-> r \in task[n][s].active]]
                    BY <4>3 DEF UpdateRoom
                <5>2. [known |-> TRUE, joined |-> task[n][s].rows[r].joined,
                       active |-> r \in task[n][s].active].known
                    OBVIOUS
                <5>3. QED BY <4>1, <5>1, <5>2
            <4>4. CASE ~WriteRoom(n, s) /\ ~UpdateRoom(n, s)
                BY <3>1, <4>4 DEF TaskStep, CallRefresh, LoadRooms, AssignNodes, UpdateContexts,
                   MergeRooms, QueryRooms, Done
            <4>5. QED BY <4>2, <4>3, <4>4
        <3>2. ASSUME NEW n \in Users, NEW s \in Slot, NEW r \in Room,
                     CreateRoom(n, s, r) \/ JoinRoom(n, s, r) \/ LeaveRoom(n, s, r)
              PROVE  \E d : d.known /\ db' = [db EXCEPT ![n][r] = d]
            <4>1. PICK joined, active : UserCall(n, s, r, [known |-> TRUE, joined |-> joined, active |-> active])
                BY <3>2 DEF CreateRoom, JoinRoom, LeaveRoom
            <4>2. [known |-> TRUE, joined |-> joined, active |-> active].known
                OBVIOUS
            <4>3. QED BY <4>1, <4>2 DEF UserCall
        <3>3. ASSUME NEW n \in Node, NEW s \in Slot, TimerRefresh(n, s) PROVE db' = db
            BY <3>3 DEF TimerRefresh
        <3>4. ASSUME NEW n \in Node, NEW p \in Node, NEW s \in Slot, Hear(n, s, p) \/ Expire(n, s, p)
              PROVE  db' = db
            BY <3>4 DEF Hear, Expire
        <3>5. ASSUME NEW n \in Node, Drop(n) \/ Reconnect(n) \/ Exit(n) PROVE db' = db
            BY <3>5 DEF Drop, Reconnect, Exit
        <3>6. QED BY <2>1, <3>1, <3>2, <3>3, <3>4, <3>5, RoomsAssumption DEF Next
    <2>4. QED BY <2>2, <2>3 DEF Rooms
<1>2. QED BY <1>1, InitRooms, NextKeeps, InitFollows, NextFollows, PTL DEF Spec, RoomsKept
=============================================================================
