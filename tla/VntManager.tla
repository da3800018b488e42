----------------------------- MODULE VntManager -----------------------------
(***************************************************************************)
(* The VNT connections of one process (lib/vnt/vnt_manager.dart) and the   *)
(* places that open and close them: the navigation shell, the              *)
(* configuration page, the tray menu and the Android tile.                 *)
(*                                                                         *)
(* VntManager.create looks a key up, awaits vntInit and files the box; the *)
(* engine (VntApi::new, on a Rust thread) is up before the box is filed.   *)
(* Between the two everybody else may run.  close() stops the engine at    *)
(* once; on Android it then awaits the VPN service, so removeAll is        *)
(* suspended between two boxes there and nowhere else.                     *)
(***************************************************************************)
EXTENDS Naturals, FiniteSets

CONSTANTS
    Key,            \* itemKey of the configurations
    NoKey,          \* no configuration
    MaxAttempts,    \* bound: calls of vntInit
    MaxStops        \* bound: cancels, disconnects and stops by the user

ASSUME VntAssumption == NoKey \notin Key /\ MaxAttempts \in Nat /\ MaxStops \in Nat

VARIABLES
    android,    \* Platform.isAndroid
    map,        \* map[k]: the set of the box filed under k, or of none
    alive,      \* the boxes whose engine runs
    attempts,   \* calls of create that await vntInit
    connecting, \* the flag of the VntManager
    dialog,     \* the configuration whose "connecting" dialog is open
    pending,    \* connects of tray and tile that wait before calling create
    shown,      \* the dashboard shows connections (_connectionCount > 0)
    sweep,      \* the removeAll under way (Android)
    wanted,     \* history: the keys the user asked for and did not stop since
    disturbed,  \* history: keys with two attempts, an attempt and a stop, or a
                \* stop that gave up
    used        \* how much of each bound is used

vars == <<android, map, alive, attempts, connecting, dialog, pending, shown,
          sweep, wanted, disturbed, used>>

Box == [id : Nat, key : Key]
Caller == {"shell", "page", "tray", "tile"}
Attempt == [box : Box, caller : Caller, up : BOOLEAN]
Resting == [on |-> FALSE, left |-> {}, dirty |-> FALSE, then |-> NoKey]

(* The variables have their types, and the flag of the VntManager is down  *)
(* when no create call is under way: it can only be cleared there.         *)
TypeOK ==
    /\ android \in BOOLEAN /\ connecting \in BOOLEAN /\ shown \in BOOLEAN
    /\ map \in [Key -> SUBSET Box] /\ alive \subseteq Box /\ attempts \subseteq Attempt
    /\ dialog \in Key \cup {NoKey}
    /\ pending \subseteq Key \X Caller
    /\ sweep \in [on : BOOLEAN, left : SUBSET Key, dirty : BOOLEAN, then : Key \cup {NoKey}]
    /\ wanted \subseteq Key /\ disturbed \subseteq Key
    /\ used \in [attempts : 0..MaxAttempts, stops : 0..MaxStops]
    /\ attempts = {} => ~connecting

Init ==
    /\ android \in BOOLEAN /\ connecting = FALSE /\ shown = FALSE
    /\ map = [k \in Key |-> {}] /\ alive = {} /\ attempts = {}
    /\ dialog = NoKey /\ pending = {} /\ sweep = Resting
    /\ wanted = {} /\ disturbed = {}
    /\ used = [attempts |-> 0, stops |-> 0]

-----------------------------------------------------------------------------
Filed(m) == {k \in Key : m[k] # {}}
HasConnectionItem(k) == map[k] \cap alive # {}
InFlight == {a.box.key : a \in attempts}
Waiting == {p[1] : p \in pending} \cup ({sweep.then} \cap Key)

(* _removeClosedConnections, called by hasConnection and size.             *)
Purged == [k \in Key |-> map[k] \cap alive]

(* A key that comes or goes while removeAll iterates makes its next step   *)
(* fail with a ConcurrentModificationError.                                *)
SetMap(m) ==
    /\ map' = m
    /\ sweep' = [sweep EXCEPT !.dirty = sweep.on /\ (@ \/ Filed(m) # Filed(map))]

(* Mutant: remove forgets to close the box.                                *)
BugRemove(k) == SetMap([map EXCEPT ![k] = {}]) /\ UNCHANGED alive

(* VntManager.remove: the box leaves the map, its engine stops.            *)
Remove(k) ==
    /\ SetMap([map EXCEPT ![k] = {}])
    /\ alive' = alive \ map[k]

(* The dialog after a message for attempt a: the page pops every route,    *)
(* the shell its own dialog, tray and tile none.                           *)
Close(a) ==
    IF a.caller = "page" \/ (a.caller = "shell" /\ dialog = a.box.key) THEN NoKey ELSE dialog

(* VntManager.create up to the await; m is the map it looks at.  A box     *)
(* that is filed, closed or not, is returned at once.                      *)
Create(k, caller, m) ==
    IF m[k] # {} THEN UNCHANGED <<attempts, connecting, disturbed, used>>
    ELSE /\ used.attempts < MaxAttempts
         /\ used' = [used EXCEPT !.attempts = @ + 1]
         /\ attempts' = attempts \cup {[box |-> [id |-> used.attempts + 1, key |-> k],
                                        caller |-> caller, up |-> FALSE]}
         /\ connecting' = TRUE
         /\ disturbed' = disturbed \cup ({k} \cap InFlight)

-----------------------------------------------------------------------------
(* The callers.  The dialog is modal, it keeps shell and page from being   *)
(* tapped.  The shell connects at its start and from the dashboard, which  *)
(* offers it while the last poll saw no connection.                        *)
ShellConnect(k) ==
    /\ dialog = NoKey /\ ~shown /\ ~HasConnectionItem(k) /\ ~connecting
    /\ Create(k, "shell", map)
    /\ dialog' = k /\ wanted' = wanted \cup {k}
    /\ UNCHANGED <<android, shown, map, alive, pending, sweep>>

PageConnect(k) ==
    /\ dialog = NoKey /\ ~HasConnectionItem(k)
    /\ android => Filed(Purged) = {}
    /\ SetMap(Purged)
    /\ Create(k, "page", Purged)
    /\ dialog' = k /\ wanted' = wanted \cup {k}
    /\ UNCHANGED <<android, shown, alive, pending>>

UserStops(ks) ==
    /\ used.stops < MaxStops /\ used' = [used EXCEPT !.stops = @ + 1]
    /\ wanted' = wanted \ ks
    /\ disturbed' = disturbed \cup (ks \cap (InFlight \cup Waiting))

(* Disconnecting one key, from the page or, key after key, the dashboard.  *)
Disconnect(k) ==
    /\ dialog = NoKey /\ HasConnectionItem(k)
    /\ Remove(k) /\ UserStops({k})
    /\ UNCHANGED <<android, shown, attempts, connecting, dialog, pending>>

(* The dialog's button also calls remove.                                  *)
Cancel(k) ==
    /\ dialog = k
    /\ Remove(k) /\ UserStops({k})
    /\ dialog' = NoKey
    /\ UNCHANGED <<android, shown, attempts, connecting, pending>>

(* Mutant: removeAll takes one connection for all (getOne).                *)
BugRemoveAll(m, then) ==
    IF Filed(m) = {} THEN map' = m /\ UNCHANGED <<alive, sweep>>
    ELSE \E k \in Filed(m) : SetMap([m EXCEPT ![k] = {}]) /\ alive' = alive \ m[k]

(* removeAll: at once, or box after box on Android; then is the key that   *)
(* the caller connects to afterwards.                                      *)
RemoveAll(m, then) ==
    \/ /\ ~android
       /\ SetMap([k \in Key |-> {}])
       /\ alive' = alive \ UNION {m[k] : k \in Key}
    \/ /\ android /\ ~sweep.on
       /\ map' = m
       /\ \/ Filed(m) = {} /\ UNCHANGED <<alive, sweep>>
          \/ \E k \in Filed(m) :
                /\ alive' = alive \ m[k]
                /\ sweep' = [on |-> TRUE, left |-> Filed(m) \ {k}, dirty |-> FALSE, then |-> then]

(* The tray's disconnect item and the stopVnt call of the Android side.    *)
StopAll ==
    /\ RemoveAll(map, NoKey) /\ UserStops(Key)
    /\ UNCHANGED <<android, shown, attempts, connecting, dialog, pending>>

SweepBox(k) ==
    /\ sweep.on /\ ~sweep.dirty /\ k \in sweep.left
    /\ alive' = alive \ map[k]
    /\ sweep' = [sweep EXCEPT !.left = @ \ {k}]
    /\ UNCHANGED <<android, shown, map, attempts, connecting, dialog, pending, wanted, disturbed, used>>

SweepEnd ==
    /\ sweep.on /\ sweep.left = {} /\ ~sweep.dirty
    /\ map' = [k \in Key |-> {}] /\ sweep' = Resting
    /\ pending' = pending \cup ({sweep.then} \cap Key) \X {"tile"}
    /\ UNCHANGED <<android, shown, alive, attempts, connecting, dialog, wanted, disturbed, used>>

(* The ConcurrentModificationError: the caller gives up.                   *)
SweepThrow ==
    /\ sweep.dirty /\ sweep' = Resting
    /\ disturbed' = disturbed \cup sweep.left
    /\ UNCHANGED <<android, shown, map, alive, attempts, connecting, dialog, pending, wanted, used>>

(* A configuration chosen in the tray menu: disconnect all, wait, connect. *)
TrayConnect(k) ==
    /\ ~android /\ <<k, "tray">> \notin pending
    /\ RemoveAll(Purged, NoKey)
    /\ pending' = pending \cup {<<k, "tray">>}
    /\ wanted' = {k} /\ disturbed' = disturbed \cup ((InFlight \cup Waiting) \ {k})
    /\ UNCHANGED <<android, shown, attempts, connecting, dialog, used>>

TrayCreate(k) ==
    /\ <<k, "tray">> \in pending /\ pending' = pending \ {<<k, "tray">>}
    /\ Create(k, "tray", map)
    /\ UNCHANGED <<android, shown, map, alive, dialog, sweep, wanted>>

(* The tile does the same, and looks at the flag before it connects.       *)
TileConnect(k) ==
    /\ android
    /\ \/ Filed(Purged) # {} /\ RemoveAll(Purged, k) /\ UNCHANGED pending
       \/ /\ Filed(Purged) = {} /\ SetMap(Purged)
          /\ UNCHANGED alive /\ pending' = pending \cup {<<k, "tile">>}
    /\ wanted' = {k} /\ disturbed' = disturbed \cup ((InFlight \cup Waiting) \ {k})
    /\ UNCHANGED <<android, shown, attempts, connecting, dialog, used>>

TileCreate(k) ==
    /\ <<k, "tile">> \in pending /\ pending' = pending \ {<<k, "tile">>}
    /\ IF connecting THEN UNCHANGED <<attempts, connecting, disturbed, used>>
       ELSE Create(k, "tile", map)
    /\ UNCHANGED <<android, shown, map, alive, dialog, sweep, wanted>>

(* size(), polled by the dashboard, and hasConnection(), called when the   *)
(* tray or the Android widget is brought up to date.                       *)
Poll ==
    /\ shown' \in {shown, Filed(Purged) # {}} /\ SetMap(Purged)
    /\ <<shown', map'>> # <<shown, map>>
    /\ UNCHANGED <<android, alive, attempts, connecting, dialog, pending, wanted, disturbed, used>>

-----------------------------------------------------------------------------
(* VntApi::new: registered, with a running TUN device; success is sent and *)
(* may close the dialog before create goes on.                             *)
EngineUp(a) ==
    /\ a \in attempts /\ ~a.up
    /\ attempts' = (attempts \ {a}) \cup {[a EXCEPT !.up = TRUE]}
    /\ alive' = alive \cup {a.box}
    /\ dialog' \in {dialog, Close(a)}
    /\ UNCHANGED <<android, shown, map, connecting, pending, sweep, wanted, disturbed, used>>

(* create goes on: the box is filed, over whatever is filed there.         *)
Created(a) ==
    /\ a \in attempts /\ a.up
    /\ SetMap([map EXCEPT ![a.box.key] = {a.box}])
    /\ attempts' = attempts \ {a} /\ connecting' = FALSE
    /\ dialog' = Close(a)
    /\ UNCHANGED <<android, shown, alive, pending, wanted, disturbed, used>>

(* Mutant: create has no finally.                                          *)
BugNoFinally(a, fatal) ==
    /\ a \in attempts /\ ~a.up /\ attempts' = attempts \ {a} /\ dialog' = Close(a)
    /\ UNCHANGED <<android, shown, map, alive, connecting, sweep, pending, wanted, disturbed, used>>

(* Mutant: the error handler closes every connection.                      *)
BugErrorClosesAll(a, fatal) ==
    /\ a \in attempts /\ ~a.up /\ attempts' = attempts \ {a} /\ connecting' = FALSE
    /\ SetMap([k \in Key |-> {}]) /\ alive' = alive \ UNION {map[k] : k \in Key}
    /\ dialog' = Close(a)
    /\ UNCHANGED <<android, shown, pending, wanted, disturbed, used>>

(* create throws; the error message of a fatal error removes the key, the  *)
(* tray ignores it.                                                        *)
Failed(a, fatal) ==
    /\ a \in attempts /\ ~a.up
    /\ attempts' = attempts \ {a} /\ connecting' = FALSE
    /\ IF fatal /\ a.caller # "tray" THEN Remove(a.box.key) ELSE UNCHANGED <<map, alive, sweep>>
    /\ dialog' = Close(a)
    /\ UNCHANGED <<android, shown, pending, wanted, disturbed, used>>

Next ==
    \/ \E k \in Key :
        \/ ShellConnect(k) \/ PageConnect(k) \/ Disconnect(k) \/ Cancel(k)
        \/ TrayConnect(k) \/ TrayCreate(k) \/ TileConnect(k) \/ TileCreate(k) \/ SweepBox(k)
    \/ StopAll \/ SweepEnd \/ SweepThrow \/ Poll
    \/ \E a \in attempts : EngineUp(a) \/ Created(a) \/ \E fatal \in BOOLEAN : Failed(a, fatal)

Spec == Init /\ [][Next]_vars

-----------------------------------------------------------------------------
(* An engine that runs can be found and stopped: its box is filed, or its  *)
(* create call is about to file it.  The exceptions are the marked keys:   *)
(* two attempts were under way at once, or a stop met an attempt.          *)
NoOrphan ==
    \A b \in alive :
        b \in map[b.key] \/ b \in {a.box : a \in attempts} \/ b.key \in disturbed

(* A connection the user wants is stopped only to be set up again: by the  *)
(* tray or the tile, never by another key's stop, error or purge.          *)
KeptWhileWanted ==
    [][\A b \in alive \ alive' :
          b.key \in wanted' => b.key \in disturbed' \/ sweep'.on \/ <<b.key, "tray">> \in pending']_vars

(* When nothing is under way, what runs is what the user asked for: what   *)
(* remove and removeAll stopped, no late create or sweep brings back.      *)
StopsForGood ==
    attempts = {} /\ pending = {} /\ ~sweep.on =>
        \A b \in alive : b.key \in wanted \cup disturbed

(* Cancelling an attempt stops it ("until success or a manual stop").      *)
CancelStops ==
    attempts = {} /\ pending = {} /\ ~sweep.on => \A b \in alive : b.key \in wanted
=============================================================================
