------------------------------ MODULE ChatRooms ------------------------------
(***************************************************************************)
(* Rooms of one hall and the presence announcements that spread them: the  *)
(* table room_membership_cache, the room list of the last refresh          *)
(* (_localNodes[..].joinedRooms), the contexts the presence service        *)
(* announces and the announcements it has heard.                           *)
(*                                                                         *)
(* What happens between two awaits is one step, every database call is one *)
(* step.  A task is a suspended call: refresh, a reconcile started by a    *)
(* presence snapshot, or the tail of a user's call.  A reconcile reads all *)
(* rooms and then writes them back one by one; meanwhile the user may join *)
(* or leave.                                                               *)
(***************************************************************************)
EXTENDS Naturals

CONSTANTS
    Node,       \* members of the hall
    Users,      \* the nodes whose user creates, joins and leaves rooms
    Room,       \* room ids
    Slot,       \* bound: calls of one node that overlap
    Overlap,    \* nodes whose calls overlap; on the others each waits for the last
    MaxOps,     \* bound: calls of users
    MaxDrops,   \* bound: VNT connections lost
    MaxExpiries,\* bound: announcements that expire
    MaxExits    \* bound: process exits

ASSUME RoomsAssumption ==
    /\ Users \subseteq Node /\ Overlap \subseteq Node
    /\ MaxOps \in Nat /\ MaxDrops \in Nat /\ MaxExpiries \in Nat /\ MaxExits \in Nat

VARIABLES
    up,     \* up[n]: the VNT connection of n is open
    db,     \* db[n]: table room_membership_cache
    hall,   \* hall[n]: the hall is in _localNodes
    local,  \* local[n]: joinedRooms of the hall in _localNodes
    ctx,    \* ctx[n]: what the presence service announces
    cache,  \* cache[n][p]: _presenceCache, the rooms p was heard to announce
    task,   \* task[n][s]: the call of n suspended in slot s
    wish,   \* history: the rooms whose last call by the user was a join
    ever,   \* history: the rooms the user has ever created or joined
    used    \* how much of each bound is used

vars == <<up, db, hall, local, ctx, cache, task, wish, ever, used>>

Absent == [known |-> FALSE, joined |-> FALSE, active |-> FALSE]
Descriptor == [known : BOOLEAN, joined : BOOLEAN, active : BOOLEAN]
Rooms == [Room -> Descriptor]
NoRooms == [r \in Room |-> Absent]
Silent == [on |-> FALSE, rooms |-> {}]
Deaf == [p \in Node |-> {}]
Idle == [pc |-> "idle", refresh |-> FALSE, rows |-> NoRooms, todo |-> {}, active |-> {}]
Steps == {"idle", "load", "assign", "contexts", "merge", "write", "update", "refresh"}
Task == [pc : Steps, refresh : BOOLEAN, rows : Rooms, todo : SUBSET Room, active : SUBSET Room]
Bounds == [ops : 0..MaxOps, drops : 0..MaxDrops, expiries : 0..MaxExpiries, exits : 0..MaxExits]

(* Types; no two calls of refresh are under way on one node (_refreshing).  *)
TypeOK ==
    /\ up \in [Node -> BOOLEAN] /\ hall \in [Node -> BOOLEAN]
    /\ db \in [Node -> Rooms] /\ local \in [Node -> SUBSET Room]
    /\ ctx \in [Node -> [on : BOOLEAN, rooms : SUBSET Room]]
    /\ cache \in [Node -> [Node -> SUBSET Room]]
    /\ task \in [Node -> [Slot -> Task]]
    /\ wish \in [Node -> SUBSET Room] /\ ever \in [Node -> SUBSET Room]
    /\ used \in Bounds
    /\ \A n \in Node, s \in Slot, t \in Slot : task[n][s].refresh /\ task[n][t].refresh => s = t

Init ==
    /\ up = [n \in Node |-> TRUE] /\ hall = [n \in Node |-> FALSE]
    /\ db = [n \in Node |-> NoRooms] /\ local = [n \in Node |-> {}]
    /\ ctx = [n \in Node |-> Silent] /\ cache = [n \in Node |-> Deaf]
    /\ task = [n \in Node |-> [s \in Slot |-> Idle]]
    /\ wish = [n \in Node |-> {}] /\ ever = [n \in Node |-> {}]
    /\ used = [ops |-> 0, drops |-> 0, expiries |-> 0, exits |-> 0]

Quiet(n) == \A s \in Slot : task[n][s] = Idle
Refreshing(n) == \E s \in Slot : task[n][s].refresh
Announced(n) == UNION {cache[n][p] : p \in Node}

Goto(n, s, t) == task' = [task EXCEPT ![n][s] = t]
At(n, s, pc) == task[n][s].pc = pc
(* A user's call, a timer or a datagram starts a call in slot s.           *)
CanStart(n, s) == task[n][s] = Idle /\ (n \in Overlap \/ Quiet(n))
Reconcile(refresh) == [Idle EXCEPT !.pc = "merge", !.refresh = refresh]

history == <<wish, ever>>
presence == <<ctx, cache>>

-----------------------------------------------------------------------------
(* The VNT connection and the process.                                     *)
Drop(n) ==
    /\ up[n] /\ used.drops < MaxDrops
    /\ up' = [up EXCEPT ![n] = FALSE]
    /\ used' = [used EXCEPT !.drops = @ + 1]
    /\ UNCHANGED <<db, hall, local, presence, task, history>>

Reconnect(n) ==
    /\ ~up[n]
    /\ up' = [up EXCEPT ![n] = TRUE]
    /\ UNCHANGED <<db, hall, local, presence, task, history, used>>

(* The process ends and starts again; only the table survives.             *)
Exit(n) ==
    /\ used.exits < MaxExits /\ used' = [used EXCEPT !.exits = @ + 1]
    /\ hall' = [hall EXCEPT ![n] = FALSE] /\ local' = [local EXCEPT ![n] = {}]
    /\ ctx' = [ctx EXCEPT ![n] = Silent] /\ cache' = [cache EXCEPT ![n] = Deaf]
    /\ task' = [task EXCEPT ![n] = [s \in Slot |-> Idle]]
    /\ UNCHANGED <<up, db, history>>

-----------------------------------------------------------------------------
(* The user.  createRoom, joinRoom and leaveRoom write the row, reload and *)
(* call refresh; the row of a leave keeps the activity flag of the list    *)
(* the user saw.                                                           *)
UserCall(n, s, r, descriptor) ==
    /\ CanStart(n, s) /\ used.ops < MaxOps
    /\ used' = [used EXCEPT !.ops = @ + 1]
    /\ db' = [db EXCEPT ![n][r] = descriptor]
    /\ Goto(n, s, [Idle EXCEPT !.pc = "refresh"])
    /\ UNCHANGED <<up, hall, local, presence>>

CreateRoom(n, s, r) ==
    /\ hall[n] /\ \A m \in Node : ~db[m][r].known
    /\ UserCall(n, s, r, [known |-> TRUE, joined |-> TRUE, active |-> TRUE])
    /\ wish' = [wish EXCEPT ![n] = @ \cup {r}] /\ ever' = [ever EXCEPT ![n] = @ \cup {r}]

JoinRoom(n, s, r) ==
    /\ db[n][r].known /\ ~db[n][r].joined
    /\ UserCall(n, s, r, [known |-> TRUE, joined |-> TRUE, active |-> TRUE])
    /\ wish' = [wish EXCEPT ![n] = @ \cup {r}] /\ ever' = [ever EXCEPT ![n] = @ \cup {r}]

LeaveRoom(n, s, r) ==
    /\ db[n][r].joined
    /\ \E seen \in BOOLEAN :
        UserCall(n, s, r, [known |-> TRUE, joined |-> FALSE, active |-> seen])
    /\ wish' = [wish EXCEPT ![n] = @ \ {r}] /\ UNCHANGED ever

(* Mutant: the test of _refreshing is forgotten.                           *)
BugCallRefresh(n, s) ==
    /\ At(n, s, "refresh")
    /\ Goto(n, s, [Idle EXCEPT !.pc = "load", !.refresh = TRUE])
    /\ UNCHANGED <<up, db, hall, local, presence, history, used>>

(* refresh returns at once while another refresh is under way.             *)
CallRefresh(n, s) ==
    /\ At(n, s, "refresh")
    /\ Goto(n, s, IF Refreshing(n) THEN Idle ELSE [Idle EXCEPT !.pc = "load", !.refresh = TRUE])
    /\ UNCHANGED <<up, db, hall, local, presence, history, used>>

(* The 3 s timer and the VNT connection listener.                          *)
TimerRefresh(n, s) ==
    /\ CanStart(n, s) /\ ~Refreshing(n)
    /\ Goto(n, s, [Idle EXCEPT !.pc = "load", !.refresh = TRUE])
    /\ UNCHANGED <<up, db, hall, local, presence, history, used>>

-----------------------------------------------------------------------------
(* refresh: loadRoomDescriptors, then _localNodes from the open connection *)
(* and the joined rooms among what was loaded.                             *)
LoadRooms(n, s) ==
    /\ At(n, s, "load")
    /\ Goto(n, s, [task[n][s] EXCEPT !.pc = "assign", !.rows = db[n]])
    /\ UNCHANGED <<up, db, hall, local, presence, history, used>>

(* Mutant: the rooms that were loaded are not filtered by locally_joined.  *)
BugUnfiltered(n, s) ==
    /\ At(n, s, "assign")
    /\ hall' = [hall EXCEPT ![n] = up[n]]
    /\ local' = [local EXCEPT ![n] = {r \in Room : up[n] /\ task[n][s].rows[r].known}]
    /\ Goto(n, s, [task[n][s] EXCEPT !.pc = "contexts", !.rows = NoRooms])
    /\ UNCHANGED <<up, db, presence, history, used>>

(* Mutant: the rooms of a hall that was listed before are not replaced.    *)
BugStaleNode(n, s) ==
    /\ At(n, s, "assign")
    /\ hall' = [hall EXCEPT ![n] = up[n]]
    /\ local' = [local EXCEPT ![n] = IF hall[n] THEN @ ELSE {r \in Room : up[n] /\ task[n][s].rows[r].joined}]
    /\ Goto(n, s, [task[n][s] EXCEPT !.pc = "contexts", !.rows = NoRooms])
    /\ UNCHANGED <<up, db, presence, history, used>>

AssignNodes(n, s) ==
    /\ At(n, s, "assign")
    /\ hall' = [hall EXCEPT ![n] = up[n]]
    /\ local' = [local EXCEPT ![n] = {r \in Room : up[n] /\ task[n][s].rows[r].joined}]
    /\ Goto(n, s, [task[n][s] EXCEPT !.pc = "contexts", !.rows = NoRooms])
    /\ UNCHANGED <<up, db, presence, history, used>>

(* updateContexts: announce the joined rooms; without a hall the presence  *)
(* service stops, forgets what it heard and emits an empty snapshot, which *)
(* starts a reconcile of its own.                                          *)
UpdateContexts(n, s) ==
    /\ At(n, s, "contexts")
    /\ \/ /\ hall[n]
          /\ ctx' = [ctx EXCEPT ![n] = [on |-> TRUE, rooms |-> local[n]]]
          /\ Goto(n, s, Reconcile(TRUE))
          /\ UNCHANGED cache
       \/ /\ ~hall[n]
          /\ ctx' = [ctx EXCEPT ![n] = Silent] /\ cache' = [cache EXCEPT ![n] = Deaf]
          /\ \E free \in Slot \ {s} :
                /\ task[n][free] = Idle
                /\ task' = [task EXCEPT ![n][s] = Reconcile(TRUE), ![n][free] = Reconcile(FALSE)]
    /\ UNCHANGED <<up, db, hall, local, history, used>>

-----------------------------------------------------------------------------
(* _handlePresenceSnapshot: a datagram or an expiry changes what was heard *)
(* and starts a reconcile.  An announcement without rooms counts as none.  *)
Hear(n, s, p) ==
    /\ n # p /\ up[n] /\ up[p] /\ ctx[n].on /\ ctx[p].on
    /\ CanStart(n, s)
    /\ cache' = [cache EXCEPT ![n] = IF hall[n] THEN [@ EXCEPT ![p] = ctx[p].rooms] ELSE Deaf]
    /\ Goto(n, s, Reconcile(FALSE))
    /\ UNCHANGED <<up, db, hall, local, ctx, history, used>>

Expire(n, s, p) ==
    /\ cache[n][p] # {} /\ ctx[n].on
    /\ CanStart(n, s) /\ used.expiries < MaxExpiries
    /\ used' = [used EXCEPT !.expiries = @ + 1]
    /\ cache' = [cache EXCEPT ![n] = IF hall[n] THEN [@ EXCEPT ![p] = {}] ELSE Deaf]
    /\ Goto(n, s, Reconcile(FALSE))
    /\ UNCHANGED <<up, db, hall, local, ctx, history>>

-----------------------------------------------------------------------------
(* _reconcilePresenceAndRooms.  Rooms of the last refresh come with the    *)
(* descriptor it loaded (joined), announced rooms with the stored one or,  *)
(* when unknown, the one received, which is never joined.                  *)

(* Mutant: the received descriptor wins over the stored one.               *)
BugReceivedWins(n, r) ==
    IF r \in Announced(n) THEN [known |-> TRUE, joined |-> FALSE, active |-> TRUE]
    ELSE IF r \in local[n] THEN [known |-> TRUE, joined |-> TRUE, active |-> TRUE] ELSE db[n][r]

(* Mutant: the received descriptor keeps the flag of the member who sent it. *)
BugReceivedJoined(n, r) ==
    IF r \in local[n] \cup Announced(n) THEN [known |-> TRUE, joined |-> TRUE, active |-> TRUE] ELSE db[n][r]

Merged(n, r) ==
    IF r \in local[n] THEN [known |-> TRUE, joined |-> TRUE, active |-> TRUE]
    ELSE IF r \in Announced(n)
         THEN [known |-> TRUE, joined |-> db[n][r].joined, active |-> TRUE]
         ELSE db[n][r]

MergeRooms(n, s) ==
    /\ At(n, s, "merge")
    /\ LET rows == [r \in Room |-> Merged(n, r)]
       IN  Goto(n, s, [task[n][s] EXCEPT !.pc = "write", !.rows = rows,
                                         !.todo = {r \in Room : rows[r].known},
                                         !.active = local[n] \cup Announced(n)])
    /\ UNCHANGED <<up, db, hall, local, presence, history, used>>

(* upsertRoomDescriptor, room after room.                                  *)
WriteRoom(n, s) ==
    /\ At(n, s, "write")
    /\ \E r \in task[n][s].todo :
        /\ db' = [db EXCEPT ![n][r] = task[n][s].rows[r]]
        /\ Goto(n, s, [task[n][s] EXCEPT !.todo = @ \ {r}])
    /\ UNCHANGED <<up, hall, local, presence, history, used>>

(* syncRoomActivityForHall of a hall that is still listed: reads the rows, *)
(* then updates each; a row is written with the joined flag read before.   *)
QueryRooms(n, s) ==
    /\ At(n, s, "write") /\ task[n][s].todo = {}
    /\ Goto(n, s, IF hall[n]
                  THEN [task[n][s] EXCEPT !.pc = "update", !.rows = db[n],
                                          !.todo = {r \in Room : db[n][r].known}]
                  ELSE Idle)
    /\ UNCHANGED <<up, db, hall, local, presence, history, used>>


(* Mutant: a room nobody announces is deleted.                             *)
BugPrune(n, s) ==
    /\ At(n, s, "update")
    /\ \E r \in task[n][s].todo :
        /\ db' = [db EXCEPT ![n][r] = IF r \in task[n][s].active THEN @ ELSE Absent]
        /\ Goto(n, s, [task[n][s] EXCEPT !.todo = @ \ {r}])
    /\ UNCHANGED <<up, hall, local, presence, history, used>>

(* Mutant: the activity flag is set and never taken back.                  *)
BugActive(n, s) ==
    /\ At(n, s, "update")
    /\ \E r \in task[n][s].todo :
        /\ db' = [db EXCEPT ![n][r].joined = task[n][s].rows[r].joined,
                            ![n][r].active = @ \/ r \in task[n][s].active]
        /\ Goto(n, s, [task[n][s] EXCEPT !.todo = @ \ {r}])
    /\ UNCHANGED <<up, hall, local, presence, history, used>>

UpdateRoom(n, s) ==
    /\ At(n, s, "update")
    /\ \E r \in task[n][s].todo :
        /\ db' = [db EXCEPT ![n][r] = [known |-> TRUE, joined |-> task[n][s].rows[r].joined,
                                       active |-> r \in task[n][s].active]]
        /\ Goto(n, s, [task[n][s] EXCEPT !.todo = @ \ {r}])
    /\ UNCHANGED <<up, hall, local, presence, history, used>>

(* The rest of refresh and of the snapshot handler only reads.             *)
Done(n, s) ==
    /\ At(n, s, "update") /\ task[n][s].todo = {}
    /\ Goto(n, s, Idle)
    /\ UNCHANGED <<up, db, hall, local, presence, history, used>>

TaskStep(n, s) ==
    \/ CallRefresh(n, s) \/ LoadRooms(n, s) \/ AssignNodes(n, s) \/ UpdateContexts(n, s)
    \/ MergeRooms(n, s) \/ WriteRoom(n, s) \/ QueryRooms(n, s) \/ UpdateRoom(n, s) \/ Done(n, s)

Next ==
    \/ \E n \in Node : Drop(n) \/ Reconnect(n) \/ Exit(n)
    \/ \E n \in Node, s \in Slot : TimerRefresh(n, s) \/ TaskStep(n, s)
    \/ \E n \in Node, p \in Node, s \in Slot : Hear(n, s, p) \/ Expire(n, s, p)
    \/ \E n \in Users, s \in Slot, r \in Room :
        CreateRoom(n, s, r) \/ JoinRoom(n, s, r) \/ LeaveRoom(n, s, r)

Spec == Init /\ [][Next]_vars

(* Suspended calls go on, the VNT engine reconnects, the 3 s timer and the *)
(* 5 s broadcast keep firing; the strong fairness says that a timer or a   *)
(* datagram is not for ever met by a busy node.                            *)
Fairness ==
    /\ \A n \in Node : WF_vars(Reconnect(n))
    /\ \A n \in Node : WF_vars(\E s \in Slot : TaskStep(n, s))
    /\ \A n \in Node : SF_vars(\E s \in Slot : TimerRefresh(n, s))
    /\ \A n \in Node, p \in Node : SF_vars(\E s \in Slot : Hear(n, s, p))
FairSpec == Spec /\ Fairness

-----------------------------------------------------------------------------
(* A node is joined to a room only after its own user created or joined    *)
(* it, and it announces no other room: reconciling the announcements of    *)
(* others, stale or not, never makes it a member (members get messages).   *)
NeverJoinedByOthers ==
    \A n \in Node :
        /\ \A r \in Room : db[n][r].joined => r \in ever[n]
        /\ ctx[n].rooms \subseteq ever[n]
        /\ \A p \in Node : cache[n][p] \subseteq ever[p]

(* A room a node knows stays in its list: no drop, expiry, exit or         *)
(* overlapping write removes it.                                           *)
RoomsKept == [][\A n \in Node, r \in Room : db[n][r].known => db'[n][r].known]_vars

(* On a node that handles one call at a time, the user is a member of the  *)
(* rooms he entered and did not leave, and of no other, once nothing is    *)
(* under way: drops, exits and what others announce change no membership.  *)
MembershipKept ==
    \A n \in Node \ Overlap : Quiet(n) => \A r \in Room : db[n][r].joined <=> r \in wish[n]

(* A node that stays member of a room is in the end announced as one at    *)
(* every node, also after announcements expired and processes ended.       *)
MembersFound ==
    \A n \in Node, p \in Node, r \in Room :
        n # p => (<>[](r \in wish[p]) => []<>(r \in Announced(n) /\ db[n][r].active))

(* A room all its members have left is in the end inactive everywhere.     *)
EmptyRoomsFade ==
    \A n \in Node, r \in Room :
        <>[](\A p \in Node : r \notin wish[p]) => <>[](~db[n][r].active)
=============================================================================
