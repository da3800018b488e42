-------------------------- MODULE VntManagerProofs --------------------------
(***************************************************************************)
(* A running engine can be found and stopped, for any number of            *)
(* configurations, attempts and stops.                                     *)
(***************************************************************************)
EXTENDS VntManager, TLAPS

(* A box has one number for ever; it is filed and runs only after its      *)
(* attempt got so far.                                                     *)
BoxesFresh ==
    /\ \A b \in alive : b.id <= used.attempts
    /\ \A a \in attempts : a.box.id <= used.attempts /\ (~a.up => a.box \notin alive)
    /\ \A k \in Key : \A b \in map[k] :
            b.id <= used.attempts /\ \A a \in attempts : a.box # b
    /\ \A a, c \in attempts : a.box = c.box => a = c

(* An attempt is the only one for its key and nothing runs there, unless   *)
(* the key is marked.                                                      *)
OneAttempt ==
    /\ \A a, c \in attempts : a.box.key = c.box.key => a = c \/ a.box.key \in disturbed
    /\ \A a \in attempts : map[a.box.key] \cap alive = {} \/ a.box.key \in disturbed

(* A removeAll under way has stopped what it passed, and no attempt will   *)
(* file a box under a key it passes, unless it will notice.                *)
SweepInv ==
    sweep.on /\ ~sweep.dirty =>
        /\ \A k \in Key \ sweep.left : map[k] \cap alive = {} \/ k \in disturbed
        /\ \A a \in attempts : map[a.box.key] = {} \/ a.box.key \in disturbed

EngineInv == TypeOK /\ BoxesFresh /\ OneAttempt /\ SweepInv /\ NoOrphan

-----------------------------------------------------------------------------
(* The types of what SetMap, Remove and Create leave behind.               *)
LEMMA PurgedOK ==
    ASSUME TypeOK
    PROVE  Purged \in [Key -> SUBSET Box] /\ \A k \in Key : Purged[k] = map[k] \cap alive
BY DEF Purged, TypeOK

LEMMA SetMapType ==
    ASSUME TypeOK, NEW m \in [Key -> SUBSET Box], SetMap(m)
    PROVE  /\ map' = m
           /\ sweep' \in [on : BOOLEAN, left : SUBSET Key, dirty : BOOLEAN, then : Key \cup {NoKey}]
           /\ sweep'.on = sweep.on /\ sweep'.left = sweep.left
           /\ sweep'.dirty = (sweep.on /\ (sweep.dirty \/ Filed(m) # Filed(map)))
<1>1. sweep \in [on : BOOLEAN, left : SUBSET Key, dirty : BOOLEAN, then : Key \cup {NoKey}]
    BY DEF TypeOK
<1>2. (sweep.on /\ (sweep.dirty \/ Filed(m) # Filed(map))) \in BOOLEAN
    OBVIOUS
<1>3. sweep' = [sweep EXCEPT !.dirty = sweep.on /\ (sweep.dirty \/ Filed(m) # Filed(map))]
    BY DEF SetMap
<1>4. sweep'.on = sweep.on /\ sweep'.left = sweep.left /\ sweep'.then = sweep.then
      /\ sweep'.dirty = (sweep.on /\ (sweep.dirty \/ Filed(m) # Filed(map)))
    BY <1>1, <1>3
<1>5. sweep' \in [on : BOOLEAN, left : SUBSET Key, dirty : BOOLEAN, then : Key \cup {NoKey}]
    BY <1>1, <1>2, <1>3
<1>6. QED BY <1>4, <1>5 DEF SetMap

LEMMA RemoveType ==
    ASSUME TypeOK, NEW k \in Key, Remove(k)
    PROVE  /\ SetMap([map EXCEPT ![k] = {}])
           /\ [map EXCEPT ![k] = {}] \in [Key -> SUBSET Box]
           /\ map' \in [Key -> SUBSET Box]
           /\ \A j \in Key : map'[j] = IF j = k THEN {} ELSE map[j]
           /\ alive' = alive \ map[k]
           /\ sweep' \in [on : BOOLEAN, left : SUBSET Key, dirty : BOOLEAN, then : Key \cup {NoKey}]
<1>1. SetMap([map EXCEPT ![k] = {}]) /\ alive' = alive \ map[k]
    BY DEF Remove
<1>2. [map EXCEPT ![k] = {}] \in [Key -> SUBSET Box]
    BY DEF TypeOK
<1>3. map' = [map EXCEPT ![k] = {}]
    BY <1>1 DEF SetMap
<1>4. \A j \in Key : map'[j] = IF j = k THEN {} ELSE map[j]
    BY <1>3 DEF TypeOK
<1>5. QED BY <1>1, <1>2, <1>3, <1>4, SetMapType

(* create either returns a filed box or starts an attempt.                 *)
LEMMA CreateType ==
    ASSUME TypeOK, NEW k \in Key, NEW caller \in Caller, NEW m, Create(k, caller, m)
    PROVE  /\ attempts' \subseteq Attempt /\ connecting' \in BOOLEAN
           /\ disturbed \subseteq disturbed' /\ disturbed' \subseteq Key
           /\ used' \in [attempts : 0..MaxAttempts, stops : 0..MaxStops]
           /\ attempts' = {} => ~connecting'
           /\ \/ attempts' = attempts /\ disturbed' = disturbed /\ used' = used
              \/ /\ m[k] = {} /\ used'.attempts = used.attempts + 1
                 /\ disturbed' = disturbed \cup ({k} \cap InFlight)
                 /\ \E a \in Attempt :
                        /\ a.box.id = used.attempts + 1 /\ a.box.key = k /\ ~a.up
                        /\ attempts' = attempts \cup {a}
<1>1. CASE m[k] # {}
    BY <1>1 DEF Create, TypeOK
<1>2. CASE m[k] = {}
    <2> DEFINE new == [box |-> [id |-> used.attempts + 1, key |-> k], caller |-> caller, up |-> FALSE]
    <2>1. /\ used.attempts < MaxAttempts
          /\ used' = [used EXCEPT !.attempts = @ + 1]
          /\ attempts' = attempts \cup {new}
          /\ connecting' = TRUE
          /\ disturbed' = disturbed \cup ({k} \cap InFlight)
        BY <1>2 DEF Create
    <2>2. used \in [attempts : 0..MaxAttempts, stops : 0..MaxStops] /\ MaxAttempts \in Nat
        BY VntAssumption DEF TypeOK
    <2>3. used'.attempts = used.attempts + 1 /\ used.attempts + 1 \in 0..MaxAttempts
        BY <2>1, <2>2
    <2>4. used' \in [attempts : 0..MaxAttempts, stops : 0..MaxStops]
        BY <2>1, <2>2, <2>3
    <2>5. new \in Attempt
        BY <2>3 DEF Attempt, Box
    <2>6. new.box.id = used.attempts + 1 /\ new.box.key = k /\ ~new.up
        OBVIOUS
    <2> HIDE DEF new
    <2>7. attempts' \subseteq Attempt /\ attempts' # {} /\ disturbed' \subseteq Key
        BY <2>1, <2>5 DEF TypeOK
    <2>8. QED BY <1>2, <2>1, <2>3, <2>4, <2>5, <2>6, <2>7
<1>3. QED BY <1>1, <1>2

LEMMA UserStopsType ==
    ASSUME TypeOK, NEW ks \in SUBSET Key, UserStops(ks)
    PROVE  /\ used' \in [attempts : 0..MaxAttempts, stops : 0..MaxStops]
           /\ used'.attempts = used.attempts /\ wanted' \subseteq Key
           /\ disturbed' \subseteq Key /\ disturbed' = disturbed \cup (ks \cap (InFlight \cup Waiting))
<1>1. used \in [attempts : 0..MaxAttempts, stops : 0..MaxStops] /\ MaxStops \in Nat
    BY VntAssumption DEF TypeOK
<1>2. used.stops < MaxStops /\ used' = [used EXCEPT !.stops = @ + 1]
    BY DEF UserStops
<1>3. used.stops + 1 \in 0..MaxStops
    BY <1>1, <1>2
<1>4. used' \in [attempts : 0..MaxAttempts, stops : 0..MaxStops] /\ used'.attempts = used.attempts
    BY <1>1, <1>2, <1>3
<1>5. QED BY <1>4 DEF UserStops, TypeOK

(* removeAll: what is filed now was filed in m, what was filed in m is      *)
(* stopped or still filed, and a sweep that starts has stopped one box.     *)
LEMMA RemoveAllType ==
    ASSUME TypeOK, NEW m \in [Key -> SUBSET Box], NEW then \in Key \cup {NoKey}, RemoveAll(m, then)
    PROVE  /\ map' \in [Key -> SUBSET Box] /\ \A k \in Key : map'[k] \subseteq m[k]
           /\ alive' \subseteq alive
           /\ \A k \in Key : \A b \in alive' \cap m[k] : b \in map'[k]
           /\ sweep' \in [on : BOOLEAN, left : SUBSET Key, dirty : BOOLEAN, then : Key \cup {NoKey}]
           /\ \/ ~sweep'.on
              \/ \A k \in Key : map'[k] = {}
              \/ /\ map' = m
                 /\ \A k \in Key \ sweep'.left : m[k] \cap alive' = {}
<1>1. CASE ~android
    <2> DEFINE none == [k \in Key |-> {}]
    <2>1. none \in [Key -> SUBSET Box] /\ \A k \in Key : none[k] = {}
        OBVIOUS
    <2>2. SetMap(none) /\ alive' = alive \ UNION {m[k] : k \in Key}
        BY <1>1 DEF RemoveAll
    <2> HIDE DEF none
    <2>3. map' = none /\ sweep' \in [on : BOOLEAN, left : SUBSET Key, dirty : BOOLEAN, then : Key \cup {NoKey}]
        BY <2>1, <2>2, SetMapType
    <2>4. QED BY <2>1, <2>2, <2>3
<1>2. CASE android
    <2>1. ~sweep.on /\ map' = m
        BY <1>2 DEF RemoveAll
    <2>2. CASE Filed(m) = {} /\ UNCHANGED <<alive, sweep>>
        BY <2>1, <2>2 DEF TypeOK
    <2>3. CASE \E k \in Filed(m) :
                /\ alive' = alive \ m[k]
                /\ sweep' = [on |-> TRUE, left |-> Filed(m) \ {k}, dirty |-> FALSE, then |-> then]
        <3>1. PICK k \in Filed(m) :
                /\ alive' = alive \ m[k]
                /\ sweep' = [on |-> TRUE, left |-> Filed(m) \ {k}, dirty |-> FALSE, then |-> then]
            BY <2>3
        <3>2. Filed(m) \subseteq Key /\ \A j \in Key \ Filed(m) : m[j] = {}
            BY DEF Filed
        <3>3. sweep' \in [on : BOOLEAN, left : SUBSET Key, dirty : BOOLEAN, then : Key \cup {NoKey}]
            BY <3>1, <3>2
        <3>4. \A j \in Key \ sweep'.left : m[j] \cap alive' = {}
            BY <3>1, <3>2
        <3>5. QED BY <2>1, <3>1, <3>3, <3>4
    <2>4. QED BY <1>2, <2>2, <2>3 DEF RemoveAll
<1>3. QED BY <1>1, <1>2

-----------------------------------------------------------------------------
SweepType == [on : BOOLEAN, left : SUBSET Key, dirty : BOOLEAN, then : Key \cup {NoKey}]

(* A step that starts no attempt, files and starts no box keeps the        *)
(* invariant when it leaves what runs filed and the sweep as SweepInv says. *)
LEMMA ShrinkKeeps ==
    ASSUME EngineInv, TypeOK', SweepInv',
           attempts' \subseteq attempts, alive' \subseteq alive,
           \A a \in attempts \ attempts' : a.box \notin alive',
           used'.attempts = used.attempts, disturbed \subseteq disturbed',
           \A k \in Key : map'[k] \subseteq map[k],
           \A b \in alive' : b \in map[b.key] => b \in map'[b.key] \/ b.key \in disturbed'
    PROVE  EngineInv'
<1>1. BoxesFresh'
    BY DEF EngineInv, BoxesFresh
<1>2. \A a \in attempts : a.box.key \in Key
    BY DEF EngineInv, TypeOK, Attempt, Box
<1>3. OneAttempt'
    BY <1>2 DEF EngineInv, OneAttempt
<1>4. NoOrphan'
    <2>1. SUFFICES ASSUME NEW b \in alive', b.key \notin disturbed', b \notin map'[b.key]
                   PROVE  b \in {a.box : a \in attempts'}
        BY DEF NoOrphan
    <2>2. b \in {a.box : a \in attempts}
        BY <2>1 DEF EngineInv, NoOrphan
    <2>3. PICK a \in attempts : a.box = b
        BY <2>2
    <2>4. QED BY <2>1, <2>3
<1>5. QED BY <1>1, <1>3, <1>4 DEF EngineInv

(* SetMap with fewer boxes keeps the sweep's part.                         *)
LEMMA SetMapSweep ==
    ASSUME EngineInv, NEW m \in [Key -> SUBSET Box], SetMap(m),
           \A k \in Key : m[k] \subseteq map[k],
           attempts' \subseteq attempts, alive' \subseteq alive, disturbed \subseteq disturbed'
    PROVE  SweepInv'
<1>1. /\ map' = m /\ sweep'.on = sweep.on /\ sweep'.left = sweep.left
      /\ sweep'.dirty = (sweep.on /\ (sweep.dirty \/ Filed(m) # Filed(map)))
    BY SetMapType DEF EngineInv
<1>2. \A a \in attempts : a.box.key \in Key
    BY DEF EngineInv, TypeOK, Attempt, Box
<1>3. SUFFICES ASSUME sweep'.on, ~sweep'.dirty
               PROVE  /\ \A k \in Key \ sweep'.left : map'[k] \cap alive' = {} \/ k \in disturbed'
                      /\ \A a \in attempts' : map'[a.box.key] = {} \/ a.box.key \in disturbed'
    BY DEF SweepInv
<1>4. /\ \A k \in Key \ sweep.left : map[k] \cap alive = {} \/ k \in disturbed
      /\ \A a \in attempts : map[a.box.key] = {} \/ a.box.key \in disturbed
    BY <1>1, <1>3 DEF EngineInv, SweepInv
<1>5. QED BY <1>1, <1>2, <1>4

(* A step that starts one attempt for a key without a filed box.           *)
LEMMA CreateKeeps ==
    ASSUME EngineInv, TypeOK', NEW k \in Key, NEW a \in Attempt,
           a.box.id = used.attempts + 1, a.box.key = k, ~a.up,
           attempts' = attempts \cup {a}, used'.attempts = used.attempts + 1,
           disturbed' = disturbed \cup ({k} \cap InFlight), alive' = alive,
           map'[k] = {}, \A j \in Key : map'[j] = map[j] \/ map'[j] = map[j] \cap alive,
           sweep'.on = sweep.on /\ sweep'.left = sweep.left,
           sweep'.on /\ ~sweep'.dirty => ~sweep.dirty
    PROVE  EngineInv'
<1>1. used.attempts \in Nat
    BY VntAssumption DEF EngineInv, TypeOK
<1>2. /\ alive \subseteq Box /\ attempts \subseteq Attempt /\ map \in [Key -> SUBSET Box]
      /\ \A b \in Box : b.id \in Nat /\ b.key \in Key
      /\ \A c \in Attempt : c.box \in Box
    BY DEF EngineInv, TypeOK, Attempt, Box
<1>3. BoxesFresh'
    <2>1. \A b \in alive : b.id <= used.attempts + 1 /\ b # a.box
        BY <1>1, <1>2 DEF EngineInv, BoxesFresh
    <2>2. \A c \in attempts : c.box.id <= used.attempts + 1 /\ c.box # a.box
        BY <1>1, <1>2 DEF EngineInv, BoxesFresh
    <2>3. \A j \in Key : \A b \in map[j] : b.id <= used.attempts + 1 /\ b # a.box
        BY <1>1, <1>2 DEF EngineInv, BoxesFresh
    <2>4. \A j \in Key : map'[j] \subseteq map[j]
        OBVIOUS
    <2>5. \A c \in attempts' : c.box.id <= used.attempts + 1 /\ (~c.up => c.box \notin alive)
        BY <1>1, <2>1, <2>2 DEF EngineInv, BoxesFresh
    <2>6. \A c, d \in attempts' : c.box = d.box => c = d
        BY <2>2 DEF EngineInv, BoxesFresh
    <2>7. \A j \in Key : \A b \in map'[j] :
            b.id <= used.attempts + 1 /\ \A c \in attempts' : c.box # b
        BY <2>3, <2>4 DEF EngineInv, BoxesFresh
    <2>8. QED BY <2>1, <2>5, <2>6, <2>7 DEF BoxesFresh
<1>4. OneAttempt'
    <2>1. \A c \in attempts : c.box.key = k => k \in disturbed'
        BY DEF InFlight
    <2>2. \A c, d \in attempts' : c.box.key = d.box.key => c = d \/ c.box.key \in disturbed'
        BY <2>1 DEF EngineInv, OneAttempt
    <2>3. \A c \in attempts' : map'[c.box.key] \cap alive' = {} \/ c.box.key \in disturbed'
        BY <1>2 DEF EngineInv, OneAttempt
    <2>4. QED BY <2>2, <2>3 DEF OneAttempt
<1>5. SweepInv'
    <2>1. SUFFICES ASSUME sweep'.on, ~sweep'.dirty
                   PROVE  /\ \A j \in Key \ sweep'.left : map'[j] \cap alive' = {} \/ j \in disturbed'
                          /\ \A c \in attempts' : map'[c.box.key] = {} \/ c.box.key \in disturbed'
        BY DEF SweepInv
    <2>2. /\ \A j \in Key \ sweep.left : map[j] \cap alive = {} \/ j \in disturbed
          /\ \A c \in attempts : map[c.box.key] = {} \/ c.box.key \in disturbed
        BY <2>1 DEF EngineInv, SweepInv
    <2>3. QED BY <1>2, <2>2
<1>6. NoOrphan'
    <2>1. SUFFICES ASSUME NEW b \in alive, b.key \notin disturbed', b \notin map'[b.key]
                   PROVE  b \in {c.box : c \in attempts'}
        BY DEF NoOrphan
    <2>2. b \in {c.box : c \in attempts}
        BY <1>2, <2>1 DEF EngineInv, NoOrphan
    <2>3. QED BY <2>2
<1>7. QED BY <1>3, <1>4, <1>5, <1>6 DEF EngineInv

-----------------------------------------------------------------------------
(* Type correctness, action by action; the same steps keep the invariant.  *)
LEMMA ConnectKeeps ==
    ASSUME EngineInv, NEW k \in Key,
           ShellConnect(k) \/ PageConnect(k) \/ TrayCreate(k) \/ TileCreate(k)
    PROVE  EngineInv'
<1>0. TypeOK /\ SweepInv
    BY DEF EngineInv
<1>1. CASE ShellConnect(k)
    <2>1. Create(k, "shell", map) /\ dialog' = k /\ wanted' = wanted \cup {k}
          /\ UNCHANGED <<android, shown, map, alive, pending, sweep>>
        BY <1>1 DEF ShellConnect
    <2>2. "shell" \in Caller
        BY DEF Caller
    <2>3. TypeOK'
        BY <1>0, <2>1, <2>2, CreateType DEF TypeOK
    <2>4. CASE attempts' = attempts /\ disturbed' = disturbed /\ used' = used
        BY <1>0, <2>1, <2>3, <2>4, ShrinkKeeps DEF SweepInv
    <2>5. CASE /\ map[k] = {} /\ used'.attempts = used.attempts + 1
               /\ disturbed' = disturbed \cup ({k} \cap InFlight)
               /\ \E a \in Attempt : /\ a.box.id = used.attempts + 1 /\ a.box.key = k /\ ~a.up
                                     /\ attempts' = attempts \cup {a}
        BY <2>1, <2>3, <2>5, CreateKeeps
    <2>6. QED BY <1>0, <2>1, <2>2, <2>4, <2>5, CreateType
<1>2. CASE PageConnect(k)
    <2>1. SetMap(Purged) /\ Create(k, "page", Purged) /\ dialog' = k /\ wanted' = wanted \cup {k}
          /\ UNCHANGED <<android, shown, alive, pending>>
        BY <1>2 DEF PageConnect
    <2>2. "page" \in Caller
        BY DEF Caller
    <2>3. Purged \in [Key -> SUBSET Box] /\ \A j \in Key : Purged[j] = map[j] \cap alive
        BY <1>0, PurgedOK
    <2>4. /\ map' = Purged /\ sweep' \in SweepType
          /\ sweep'.on = sweep.on /\ sweep'.left = sweep.left
          /\ sweep'.dirty = (sweep.on /\ (sweep.dirty \/ Filed(Purged) # Filed(map)))
        BY <1>0, <2>1, <2>3, SetMapType DEF SweepType
    <2>5. TypeOK'
        BY <1>0, <2>1, <2>2, <2>3, <2>4, CreateType DEF TypeOK, SweepType
    <2>6. CASE attempts' = attempts /\ disturbed' = disturbed /\ used' = used
        <3>1. SweepInv'
            BY <2>1, <2>3, <2>6, SetMapSweep
        <3>2. \A j \in Key : map'[j] \subseteq map[j]
            BY <2>3, <2>4
        <3>3. \A b \in alive' : b \in map[b.key] => b \in map'[b.key]
            BY <1>0, <2>1, <2>3, <2>4 DEF TypeOK, Box
        <3>4. QED BY <2>1, <2>5, <2>6, <3>1, <3>2, <3>3, ShrinkKeeps
    <2>7. CASE /\ Purged[k] = {} /\ used'.attempts = used.attempts + 1
               /\ disturbed' = disturbed \cup ({k} \cap InFlight)
               /\ \E a \in Attempt : /\ a.box.id = used.attempts + 1 /\ a.box.key = k /\ ~a.up
                                     /\ attempts' = attempts \cup {a}
        <3>1. map'[k] = {} /\ \A j \in Key : map'[j] = map[j] \/ map'[j] = map[j] \cap alive
            BY <2>3, <2>4, <2>7
        <3>2. sweep'.on /\ ~sweep'.dirty => ~sweep.dirty
            BY <2>4
        <3>3. QED BY <2>1, <2>4, <2>5, <2>7, <3>1, <3>2, CreateKeeps
    <2>8. QED BY <1>0, <2>1, <2>2, <2>6, <2>7, CreateType
<1>3. CASE TrayCreate(k)
    <2>1. Create(k, "tray", map) /\ pending' = pending \ {<<k, "tray">>}
          /\ UNCHANGED <<android, shown, map, alive, dialog, sweep, wanted>>
        BY <1>3 DEF TrayCreate
    <2>2. "tray" \in Caller
        BY DEF Caller
    <2>3. TypeOK'
        BY <1>0, <2>1, <2>2, CreateType DEF TypeOK
    <2>4. CASE attempts' = attempts /\ disturbed' = disturbed /\ used' = used
        BY <1>0, <2>1, <2>3, <2>4, ShrinkKeeps DEF SweepInv
    <2>5. CASE /\ map[k] = {} /\ used'.attempts = used.attempts + 1
               /\ disturbed' = disturbed \cup ({k} \cap InFlight)
               /\ \E a \in Attempt : /\ a.box.id = used.attempts + 1 /\ a.box.key = k /\ ~a.up
                                     /\ attempts' = attempts \cup {a}
        BY <2>1, <2>3, <2>5, CreateKeeps
    <2>6. QED BY <1>0, <2>1, <2>2, <2>4, <2>5, CreateType
<1>4. CASE TileCreate(k)
    <2>1. pending' = pending \ {<<k, "tile">>}
          /\ UNCHANGED <<android, shown, map, alive, dialog, sweep, wanted>>
        BY <1>4 DEF TileCreate
    <2>2. "tile" \in Caller
        BY DEF Caller
    <2>3. CASE connecting
        <3>1. attempts' = attempts /\ disturbed' = disturbed /\ used' = used /\ connecting' = connecting
            BY <1>4, <2>3 DEF TileCreate
        <3>2. TypeOK'
            BY <1>0, <2>1, <3>1 DEF TypeOK
        <3>3. QED BY <1>0, <2>1, <3>1, <3>2, ShrinkKeeps DEF SweepInv
    <2>4. CASE ~connecting
        <3>1. Create(k, "tile", map)
            BY <1>4, <2>4 DEF TileCreate
        <3>2. TypeOK'
            BY <1>0, <2>1, <2>2, <3>1, CreateType DEF TypeOK
        <3>3. CASE attempts' = attempts /\ disturbed' = disturbed /\ used' = used
            BY <1>0, <2>1, <3>2, <3>3, ShrinkKeeps DEF SweepInv
        <3>4. CASE /\ map[k] = {} /\ used'.attempts = used.attempts + 1
                   /\ disturbed' = disturbed \cup ({k} \cap InFlight)
                   /\ \E a \in Attempt : /\ a.box.id = used.attempts + 1 /\ a.box.key = k /\ ~a.up
                                         /\ attempts' = attempts \cup {a}
            BY <2>1, <3>2, <3>4, CreateKeeps
        <3>5. QED BY <1>0, <2>2, <3>1, <3>3, <3>4, CreateType
    <2>5. QED BY <2>3, <2>4
<1>5. QED BY <1>1, <1>2, <1>3, <1>4

(* remove: by a disconnect or by the cancel button.                        *)
LEMMA RemoveKeeps ==
    ASSUME EngineInv, NEW k \in Key, Disconnect(k) \/ Cancel(k)
    PROVE  EngineInv'
<1>0. TypeOK
    BY DEF EngineInv
<1>1. /\ Remove(k) /\ UserStops({k}) /\ dialog' \in {dialog, NoKey}
      /\ UNCHANGED <<android, shown, attempts, connecting, pending>>
    BY DEF Disconnect, Cancel
<1>2. /\ SetMap([map EXCEPT ![k] = {}]) /\ [map EXCEPT ![k] = {}] \in [Key -> SUBSET Box]
      /\ map' \in [Key -> SUBSET Box] /\ sweep' \in SweepType
      /\ \A j \in Key : map'[j] = IF j = k THEN {} ELSE map[j]
      /\ alive' = alive \ map[k]
    BY <1>0, <1>1, RemoveType DEF SweepType
<1>3. /\ used' \in [attempts : 0..MaxAttempts, stops : 0..MaxStops]
      /\ used'.attempts = used.attempts /\ wanted' \subseteq Key
      /\ disturbed' \subseteq Key /\ disturbed \subseteq disturbed'
    BY <1>0, <1>1, UserStopsType
<1>4. TypeOK'
    BY <1>0, <1>1, <1>2, <1>3 DEF TypeOK, SweepType
<1>5. \A j \in Key : [map EXCEPT ![k] = {}][j] \subseteq map[j]
    BY <1>0 DEF TypeOK
<1>6. SweepInv'
    BY <1>1, <1>2, <1>3, <1>5, SetMapSweep
<1>7. \A b \in alive' : b \in map[b.key] => b \in map'[b.key]
    BY <1>0, <1>2 DEF TypeOK, Box
<1>8. \A j \in Key : map'[j] \subseteq map[j]
    BY <1>2
<1>9. QED BY <1>1, <1>2, <1>3, <1>4, <1>6, <1>7, <1>8, ShrinkKeeps

(* removeAll: by the tray, the tile or the Android side.                   *)
LEMMA RemoveAllKeeps ==
    ASSUME EngineInv, NEW m \in [Key -> SUBSET Box], NEW then \in Key \cup {NoKey},
           RemoveAll(m, then), TypeOK',
           \A k \in Key : m[k] = map[k] \/ m[k] = map[k] \cap alive,
           attempts' = attempts, used'.attempts = used.attempts, disturbed \subseteq disturbed',
           \A a \in attempts : m[a.box.key] = {} \/ a.box.key \in disturbed'
    PROVE  EngineInv'
<1>0. TypeOK
    BY DEF EngineInv
<1>1. /\ \A k \in Key : map'[k] \subseteq m[k]
      /\ alive' \subseteq alive
      /\ \A k \in Key : \A b \in alive' \cap m[k] : b \in map'[k]
      /\ \/ ~sweep'.on
         \/ \A k \in Key : map'[k] = {}
         \/ /\ map' = m
            /\ \A k \in Key \ sweep'.left : m[k] \cap alive' = {}
    BY <1>0, RemoveAllType
<1>2. \A a \in attempts : a.box.key \in Key
    BY <1>0 DEF TypeOK, Attempt, Box
<1>3. SweepInv'
    BY <1>1, <1>2 DEF SweepInv
<1>4. \A k \in Key : map'[k] \subseteq map[k]
    BY <1>1
<1>5. \A b \in alive' : b \in map[b.key] => b \in map'[b.key]
    BY <1>0, <1>1 DEF TypeOK, Box
<1>6. QED BY <1>1, <1>3, <1>4, <1>5, ShrinkKeeps

LEMMA SwitchKeeps ==
    ASSUME EngineInv, StopAll \/ \E k \in Key : TrayConnect(k) \/ TileConnect(k)
    PROVE  EngineInv'
<1>0. TypeOK
    BY DEF EngineInv
<1>1. /\ Purged \in [Key -> SUBSET Box] /\ \A j \in Key : Purged[j] = map[j] \cap alive
      /\ \A a \in attempts : a.box.key \in Key
    BY <1>0, PurgedOK DEF TypeOK, Attempt, Box
<1>2. \A a \in attempts : Purged[a.box.key] = {} \/ a.box.key \in disturbed
    BY <1>1 DEF EngineInv, OneAttempt
<1>3. CASE StopAll
    <2>1. RemoveAll(map, NoKey) /\ UserStops(Key)
          /\ UNCHANGED <<android, shown, attempts, connecting, dialog, pending>>
        BY <1>3 DEF StopAll
    <2>2. /\ used' \in [attempts : 0..MaxAttempts, stops : 0..MaxStops]
          /\ used'.attempts = used.attempts /\ wanted' \subseteq Key
          /\ disturbed' \subseteq Key /\ disturbed' = disturbed \cup (Key \cap (InFlight \cup Waiting))
        BY <1>0, <2>1, UserStopsType
    <2>3. map \in [Key -> SUBSET Box]
        BY <1>0 DEF TypeOK
    <2>4. map' \in [Key -> SUBSET Box] /\ alive' \subseteq alive /\ sweep' \in SweepType
        BY <1>0, <2>1, <2>3, RemoveAllType DEF SweepType
    <2>5. TypeOK'
        BY <1>0, <2>1, <2>2, <2>4 DEF TypeOK, SweepType
    <2>6. \A a \in attempts : a.box.key \in disturbed'
        BY <1>1, <2>2 DEF InFlight
    <2>7. QED BY <2>1, <2>2, <2>3, <2>5, <2>6, RemoveAllKeeps
<1>4. ASSUME NEW k \in Key, TrayConnect(k) PROVE EngineInv'
    <2>1. /\ RemoveAll(Purged, NoKey) /\ pending' = pending \cup {<<k, "tray">>}
          /\ wanted' = {k} /\ disturbed' = disturbed \cup ((InFlight \cup Waiting) \ {k})
          /\ UNCHANGED <<android, shown, attempts, connecting, dialog, used>>
        BY <1>4 DEF TrayConnect
    <2>2. map' \in [Key -> SUBSET Box] /\ alive' \subseteq alive /\ sweep' \in SweepType
        BY <1>0, <1>1, <2>1, RemoveAllType DEF SweepType
    <2>3. InFlight \cup Waiting \subseteq Key
        BY <1>0, <1>1 DEF InFlight, Waiting, TypeOK
    <2>4. TypeOK'
        BY <1>0, <2>1, <2>2, <2>3 DEF TypeOK, SweepType, Caller
    <2>5. QED BY <1>1, <1>2, <2>1, <2>4, RemoveAllKeeps
<1>5. ASSUME NEW k \in Key, TileConnect(k) PROVE EngineInv'
    <2>1. /\ wanted' = {k} /\ disturbed' = disturbed \cup ((InFlight \cup Waiting) \ {k})
          /\ UNCHANGED <<android, shown, attempts, connecting, dialog, used>>
        BY <1>5 DEF TileConnect
    <2>2. InFlight \cup Waiting \subseteq Key
        BY <1>0, <1>1 DEF InFlight, Waiting, TypeOK
    <2>3. CASE Filed(Purged) # {} /\ RemoveAll(Purged, k) /\ UNCHANGED pending
        <3>1. map' \in [Key -> SUBSET Box] /\ alive' \subseteq alive /\ sweep' \in SweepType
            BY <1>0, <1>1, <2>3, RemoveAllType DEF SweepType
        <3>2. TypeOK'
            BY <1>0, <2>1, <2>2, <2>3, <3>1 DEF TypeOK, SweepType
        <3>3. QED BY <1>1, <1>2, <2>1, <2>3, <3>2, RemoveAllKeeps
    <2>4. CASE /\ SetMap(Purged) /\ UNCHANGED alive /\ pending' = pending \cup {<<k, "tile">>}
        <3>1. map' = Purged /\ sweep' \in SweepType
            BY <1>0, <1>1, <2>4, SetMapType DEF SweepType
        <3>2. TypeOK'
            BY <1>0, <1>1, <2>1, <2>2, <2>4, <3>1 DEF TypeOK, SweepType, Caller
        <3>3. SweepInv'
            BY <1>1, <2>1, <2>4, SetMapSweep
        <3>4. \A b \in alive' : b \in map[b.key] => b \in map'[b.key]
            BY <1>0, <1>1, <2>4, <3>1 DEF TypeOK, Box
        <3>5. QED BY <1>1, <2>1, <2>4, <3>1, <3>2, <3>3, <3>4, ShrinkKeeps
    <2>5. QED BY <1>5, <2>3, <2>4 DEF TileConnect
<1>6. QED BY <1>3, <1>4, <1>5

(* The steps of a removeAll under way, and the purge of a query.           *)
LEMMA SweepKeeps ==
    ASSUME EngineInv, SweepEnd \/ SweepThrow \/ Poll \/ \E k \in Key : SweepBox(k)
    PROVE  EngineInv'
<1>0. TypeOK /\ SweepInv
    BY DEF EngineInv
<1>1. /\ sweep \in SweepType /\ \A b \in alive : b.key \in Key
      /\ \A a \in attempts : a.box.key \in Key
    BY <1>0 DEF TypeOK, SweepType, Box, Attempt
<1>2. Resting \in SweepType /\ ~Resting.on
    BY DEF Resting, SweepType
<1>3. ASSUME NEW k \in Key, SweepBox(k) PROVE EngineInv'
    <2>1. /\ sweep.on /\ ~sweep.dirty /\ alive' = alive \ map[k]
          /\ sweep' = [sweep EXCEPT !.left = @ \ {k}]
          /\ UNCHANGED <<android, shown, map, attempts, connecting, dialog, pending, wanted, disturbed, used>>
        BY <1>3 DEF SweepBox
    <2>2. sweep' \in SweepType /\ sweep'.left = sweep.left \ {k}
        BY <1>1, <2>1 DEF SweepType
    <2>3. TypeOK'
        BY <1>0, <2>1, <2>2 DEF TypeOK, SweepType
    <2>4. SweepInv'
        BY <1>0, <2>1, <2>2 DEF SweepInv
    <2>5. QED BY <2>1, <2>3, <2>4, ShrinkKeeps
<1>4. CASE SweepEnd
    <2>1. /\ sweep.on /\ sweep.left = {} /\ ~sweep.dirty
          /\ map' = [k \in Key |-> {}] /\ sweep' = Resting
          /\ pending' = pending \cup ({sweep.then} \cap Key) \X {"tile"}
          /\ UNCHANGED <<android, shown, alive, attempts, connecting, dialog, wanted, disturbed, used>>
        BY <1>4 DEF SweepEnd
    <2>2. pending' \subseteq Key \X Caller
        BY <1>0, <2>1 DEF TypeOK, Caller
    <2>3. TypeOK'
        BY <1>0, <1>2, <2>1, <2>2 DEF TypeOK, SweepType
    <2>4. SweepInv'
        BY <1>2, <2>1 DEF SweepInv
    <2>5. \A b \in alive : b \in map[b.key] => b.key \in disturbed
        BY <1>0, <1>1, <2>1 DEF SweepInv
    <2>6. QED BY <2>1, <2>3, <2>4, <2>5, ShrinkKeeps
<1>5. CASE SweepThrow
    <2>1. /\ sweep' = Resting /\ disturbed' = disturbed \cup sweep.left
          /\ UNCHANGED <<android, shown, map, alive, attempts, connecting, dialog, pending, wanted, used>>
        BY <1>5 DEF SweepThrow
    <2>2. sweep.left \subseteq Key
        BY <1>1 DEF SweepType
    <2>3. TypeOK'
        BY <1>0, <1>2, <2>1, <2>2 DEF TypeOK, SweepType
    <2>4. SweepInv'
        BY <1>2, <2>1 DEF SweepInv
    <2>5. QED BY <2>1, <2>3, <2>4, ShrinkKeeps
<1>6. CASE Poll
    <2>1. /\ shown' \in {shown, Filed(Purged) # {}} /\ SetMap(Purged)
          /\ UNCHANGED <<android, alive, attempts, connecting, dialog, pending, wanted, disturbed, used>>
        BY <1>6 DEF Poll
    <2>2. Purged \in [Key -> SUBSET Box] /\ \A j \in Key : Purged[j] = map[j] \cap alive
        BY <1>0, PurgedOK
    <2>3. map' = Purged /\ sweep' \in SweepType
        BY <1>0, <2>1, <2>2, SetMapType DEF SweepType
    <2>4. shown' \in BOOLEAN
        BY <1>0, <2>1 DEF TypeOK
    <2>5. TypeOK'
        BY <1>0, <2>1, <2>2, <2>3, <2>4 DEF TypeOK, SweepType
    <2>6. SweepInv'
        BY <2>1, <2>2, SetMapSweep
    <2>7. QED BY <1>1, <2>1, <2>2, <2>3, <2>5, <2>6, ShrinkKeeps
<1>7. QED BY <1>3, <1>4, <1>5, <1>6

(* create throws: the box never ran.                                       *)
LEMMA FailedKeeps ==
    ASSUME EngineInv, NEW a \in attempts, NEW fatal \in BOOLEAN, Failed(a, fatal)
    PROVE  EngineInv'
<1>0. TypeOK
    BY DEF EngineInv
<1>1. /\ ~a.up /\ attempts' = attempts \ {a} /\ connecting' = FALSE /\ dialog' = Close(a)
      /\ UNCHANGED <<android, shown, pending, wanted, disturbed, used>>
    BY DEF Failed
<1>2. a.box.key \in Key /\ a.box \notin alive /\ \A b \in alive : b.key \in Key
    BY <1>0, <1>1 DEF EngineInv, BoxesFresh, TypeOK, Attempt, Box
<1>3. dialog' \in Key \cup {NoKey}
    BY <1>0, <1>1 DEF Close, TypeOK
<1>4. CASE UNCHANGED <<map, alive, sweep>>
    <2>1. TypeOK'
        BY <1>0, <1>1, <1>3, <1>4 DEF TypeOK
    <2>2. SweepInv'
        BY <1>1, <1>4 DEF EngineInv, SweepInv
    <2>3. QED BY <1>1, <1>2, <1>4, <2>1, <2>2, ShrinkKeeps
<1>5. CASE Remove(a.box.key)
    <2> DEFINE k == a.box.key
    <2>1. /\ SetMap([map EXCEPT ![k] = {}]) /\ [map EXCEPT ![k] = {}] \in [Key -> SUBSET Box]
          /\ map' \in [Key -> SUBSET Box] /\ sweep' \in SweepType
          /\ \A j \in Key : map'[j] = IF j = k THEN {} ELSE map[j]
          /\ alive' = alive \ map[k]
        BY <1>0, <1>2, <1>5, RemoveType DEF SweepType
    <2>2. TypeOK'
        BY <1>0, <1>1, <1>3, <2>1 DEF TypeOK, SweepType
    <2>3. \A j \in Key : [map EXCEPT ![k] = {}][j] \subseteq map[j]
        BY <1>0 DEF TypeOK
    <2>4. SweepInv'
        BY <1>1, <2>1, <2>3, SetMapSweep
    <2>5. \A b \in alive' : b \in map[b.key] => b \in map'[b.key]
        BY <1>2, <2>1
    <2>6. \A j \in Key : map'[j] \subseteq map[j]
        BY <2>1
    <2>7. QED BY <1>1, <1>2, <2>1, <2>2, <2>4, <2>5, <2>6, ShrinkKeeps
<1>6. QED BY <1>4, <1>5 DEF Failed

(* The engine comes up before its box is filed.                            *)
LEMMA EngineUpKeeps ==
    ASSUME EngineInv, NEW a \in attempts, EngineUp(a)
    PROVE  EngineInv'
<1>0. TypeOK /\ BoxesFresh /\ OneAttempt /\ SweepInv /\ NoOrphan
    BY DEF EngineInv
<1> DEFINE up == [a EXCEPT !.up = TRUE]
<1>1. /\ ~a.up /\ attempts' = (attempts \ {a}) \cup {up} /\ alive' = alive \cup {a.box}
      /\ dialog' \in {dialog, Close(a)}
      /\ UNCHANGED <<android, shown, map, connecting, pending, sweep, wanted, disturbed, used>>
    BY DEF EngineUp
<1>2. /\ a \in Attempt /\ a.box \in Box /\ a.box.key \in Key
      /\ \A b \in alive : b.key \in Key
      /\ \A c \in attempts : c.box.key \in Key
    BY <1>0 DEF TypeOK, Attempt, Box
<1>3. up \in Attempt /\ up.box = a.box /\ up.up
    BY <1>2 DEF Attempt
<1> HIDE DEF up
<1>4. \A k \in Key : a.box \notin map[k]
    BY <1>0 DEF BoxesFresh
<1>5. \A c \in attempts' : c = up \/ (c \in attempts /\ c # a)
    BY <1>1
<1>6. TypeOK'
    <2>1. dialog' \in Key \cup {NoKey}
        BY <1>0, <1>1 DEF Close, TypeOK
    <2>2. connecting' \in BOOLEAN /\ attempts' # {} /\ attempts' \subseteq Attempt /\ alive' \subseteq Box
        BY <1>0, <1>1, <1>2, <1>3 DEF TypeOK
    <2>3. QED BY <1>0, <1>1, <2>1, <2>2 DEF TypeOK
<1>7. BoxesFresh'
    <2>1. \A b \in alive' : b.id <= used'.attempts
        BY <1>0, <1>1 DEF BoxesFresh
    <2>2. \A c \in attempts' : c.box.id <= used'.attempts /\ (~c.up => c.box \notin alive')
        <3>1. \A c \in attempts : c # a => c.box # a.box
            BY <1>0 DEF BoxesFresh
        <3>2. QED BY <1>0, <1>1, <1>3, <1>5, <3>1 DEF BoxesFresh
    <2>3. \A k \in Key : \A b \in map'[k] :
            b.id <= used'.attempts /\ \A c \in attempts' : c.box # b
        BY <1>0, <1>1, <1>3, <1>5 DEF BoxesFresh
    <2>4. \A c, d \in attempts' : c.box = d.box => c = d
        BY <1>0, <1>1, <1>3, <1>5 DEF BoxesFresh
    <2>5. QED BY <2>1, <2>2, <2>3, <2>4 DEF BoxesFresh
<1>8. OneAttempt'
    <2>1. \A c, d \in attempts' : c.box.key = d.box.key => c = d \/ c.box.key \in disturbed'
        BY <1>0, <1>1, <1>3, <1>5 DEF OneAttempt
    <2>2. \A k \in Key : map'[k] \cap alive' = map[k] \cap alive
        BY <1>1, <1>4
    <2>3. \A c \in attempts' : map'[c.box.key] \cap alive' = {} \/ c.box.key \in disturbed'
        BY <1>0, <1>1, <1>2, <1>3, <1>5, <2>2 DEF OneAttempt
    <2>4. QED BY <2>1, <2>3 DEF OneAttempt
<1>9. SweepInv'
    <2>1. \A k \in Key : map'[k] \cap alive' = map[k] \cap alive
        BY <1>1, <1>4
    <2>2. QED BY <1>0, <1>1, <1>3, <1>5, <2>1 DEF SweepInv
<1>10. NoOrphan'
    <2>1. \A c \in attempts : c.box \in {d.box : d \in attempts'}
        BY <1>1, <1>3
    <2>2. QED BY <1>0, <1>1, <2>1 DEF NoOrphan
<1>11. QED BY <1>6, <1>7, <1>8, <1>9, <1>10 DEF EngineInv

(* create files the box.  What is filed there already does not run, or the *)
(* key is marked.                                                          *)
LEMMA CreatedKeeps ==
    ASSUME EngineInv, NEW a \in attempts, Created(a)
    PROVE  EngineInv'
<1>0. TypeOK /\ BoxesFresh /\ OneAttempt /\ SweepInv /\ NoOrphan
    BY DEF EngineInv
<1> DEFINE k == a.box.key
<1> DEFINE m == [map EXCEPT ![k] = {a.box}]
<1>1. /\ SetMap(m) /\ attempts' = attempts \ {a} /\ connecting' = FALSE /\ dialog' = Close(a)
      /\ UNCHANGED <<android, shown, alive, pending, wanted, disturbed, used>>
    BY DEF Created
<1>2. /\ a.box \in Box /\ k \in Key /\ \A b \in alive : b.key \in Key
      /\ \A c \in attempts : c.box.key \in Key
    BY <1>0 DEF TypeOK, Attempt, Box
<1>3. m \in [Key -> SUBSET Box] /\ m[k] = {a.box} /\ \A j \in Key \ {k} : m[j] = map[j]
    BY <1>0, <1>2 DEF TypeOK
<1> HIDE DEF m
<1>4. /\ map' = m /\ sweep' \in SweepType /\ sweep'.on = sweep.on /\ sweep'.left = sweep.left
      /\ sweep'.dirty = (sweep.on /\ (sweep.dirty \/ Filed(m) # Filed(map)))
    BY <1>0, <1>1, <1>3, SetMapType DEF SweepType
<1>5. TypeOK'
    <2>1. dialog' \in Key \cup {NoKey}
        BY <1>0, <1>1 DEF Close, TypeOK
    <2>2. QED BY <1>0, <1>1, <1>3, <1>4, <2>1 DEF TypeOK, SweepType
<1>6. BoxesFresh'
    <2>1. \A j \in Key : \A b \in m[j] :
            b.id <= used.attempts /\ \A c \in attempts \ {a} : c.box # b
        <3>1. TAKE j \in Key
        <3>2. CASE j = k
            BY <1>0, <1>3, <3>2 DEF BoxesFresh
        <3>3. CASE j # k
            BY <1>0, <1>3, <3>3 DEF BoxesFresh
        <3>4. QED BY <3>2, <3>3
    <2>2. QED BY <1>0, <1>1, <1>4, <2>1 DEF BoxesFresh
<1>7. \A c \in attempts \ {a} : c.box.key = k => k \in disturbed
    BY <1>0 DEF OneAttempt
<1>8. OneAttempt'
    <2>1. \A c, d \in attempts' : c.box.key = d.box.key => c = d \/ c.box.key \in disturbed'
        BY <1>0, <1>1 DEF OneAttempt
    <2>2. \A c \in attempts' : map'[c.box.key] \cap alive' = {} \/ c.box.key \in disturbed'
        <3>1. TAKE c \in attempts'
        <3>2. c \in attempts \ {a} /\ c.box.key \in Key
            BY <1>1, <1>2
        <3>3. CASE c.box.key = k
            BY <1>1, <1>7, <3>2, <3>3
        <3>4. CASE c.box.key # k
            <4>1. map'[c.box.key] = map[c.box.key]
                BY <1>3, <1>4, <3>2, <3>4
            <4>2. QED BY <1>0, <1>1, <3>2, <4>1 DEF OneAttempt
        <3>5. QED BY <3>3, <3>4
    <2>3. QED BY <2>1, <2>2 DEF OneAttempt
<1>9. SweepInv'
    <2>1. SUFFICES ASSUME sweep'.on, ~sweep'.dirty
                   PROVE  /\ \A j \in Key \ sweep'.left : map'[j] \cap alive' = {} \/ j \in disturbed'
                          /\ \A c \in attempts' : map'[c.box.key] = {} \/ c.box.key \in disturbed'
        BY DEF SweepInv
    <2>2. Filed(m) = Filed(map) /\ sweep.on /\ ~sweep.dirty
        BY <1>4, <2>1
    <2>3. map[k] # {}
        BY <1>2, <1>3, <2>2 DEF Filed
    <2>4. k \in disturbed
        BY <1>0, <2>2, <2>3 DEF SweepInv
    <2>5. QED BY <1>0, <1>1, <1>2, <1>3, <1>4, <2>2, <2>4 DEF SweepInv
<1>10. NoOrphan'
    <2>1. SUFFICES ASSUME NEW b \in alive, b.key \notin disturbed, b \notin map'[b.key]
                   PROVE  b \in {c.box : c \in attempts'}
        BY <1>1 DEF NoOrphan
    <2>2. b # a.box
        BY <1>3, <1>4, <2>1
    <2>3. CASE b \in map[b.key]
        <3>1. b.key = k
            BY <1>2, <1>3, <1>4, <2>1, <2>3
        <3>2. QED BY <1>0, <2>1, <2>3, <3>1 DEF OneAttempt
    <2>4. CASE b \in {c.box : c \in attempts}
        BY <1>1, <2>2, <2>4
    <2>5. QED BY <1>0, <2>1, <2>3, <2>4 DEF NoOrphan
<1>11. QED BY <1>5, <1>6, <1>8, <1>9, <1>10 DEF EngineInv

-----------------------------------------------------------------------------
(* The invariant holds initially and every step keeps it.                  *)
THEOREM EngineInvariant == Spec => []EngineInv
<1>1. Init => EngineInv
    <2>1. SUFFICES ASSUME Init PROVE EngineInv
        OBVIOUS
    <2>2. used \in [attempts : 0..MaxAttempts, stops : 0..MaxStops]
        BY <2>1, VntAssumption DEF Init
    <2>3. TypeOK
        BY <2>1, <2>2 DEF Init, TypeOK, Resting
    <2>4. BoxesFresh /\ OneAttempt /\ SweepInv /\ NoOrphan
        BY <2>1 DEF Init, BoxesFresh, OneAttempt, SweepInv, NoOrphan, Resting
    <2>5. QED BY <2>3, <2>4 DEF EngineInv
<1>2. EngineInv /\ [Next]_vars => EngineInv'
    <2>1. SUFFICES ASSUME EngineInv, [Next]_vars PROVE EngineInv'
        OBVIOUS
    <2>2. CASE UNCHANGED vars
        BY <2>1, <2>2 DEF vars, EngineInv, TypeOK, BoxesFresh, OneAttempt, SweepInv, NoOrphan
    <2>3. ASSUME NEW k \in Key,
                 ShellConnect(k) \/ PageConnect(k) \/ TrayCreate(k) \/ TileCreate(k)
          PROVE  EngineInv'
        BY <2>1, <2>3, ConnectKeeps
    <2>4. ASSUME NEW k \in Key, Disconnect(k) \/ Cancel(k) PROVE EngineInv'
        BY <2>1, <2>4, RemoveKeeps
    <2>5. ASSUME NEW k \in Key, TrayConnect(k) \/ TileConnect(k) PROVE EngineInv'
        BY <2>1, <2>5, SwitchKeeps
    <2>6. ASSUME NEW k \in Key, SweepBox(k) PROVE EngineInv'
        BY <2>1, <2>6, SweepKeeps
    <2>7. CASE StopAll
        BY <2>1, <2>7, SwitchKeeps
    <2>8. CASE SweepEnd \/ SweepThrow \/ Poll
        BY <2>1, <2>8, SweepKeeps
    <2>9. ASSUME NEW a \in attempts, EngineUp(a) \/ Created(a) \/ \E fatal \in BOOLEAN : Failed(a, fatal)
          PROVE  EngineInv'
        BY <2>1, <2>9, EngineUpKeeps, CreatedKeeps, FailedKeeps
    <2>10. QED BY <2>1, <2>2, <2>3, <2>4, <2>5, <2>6, <2>7, <2>8, <2>9 DEF Next
<1>3. QED BY <1>1, <1>2, PTL DEF Spec

(* The types, and the connecting flag is down when no create call is under *)
(* way: no error path leaves it up for ever.                               *)
THEOREM FlagFalls == Spec => []TypeOK
<1>1. EngineInv => TypeOK
    BY DEF EngineInv
<1>2. QED BY <1>1, EngineInvariant, PTL

(* An engine that runs can be found and stopped, however the callers       *)
(* overlap, but for the keys that are marked.                              *)
THEOREM EngineFound == Spec => []NoOrphan
<1>1. EngineInv => NoOrphan
    BY DEF EngineInv
<1>2. QED BY <1>1, EngineInvariant, PTL
-----------------------------------------------------------------------------
(* What runs is what the user asked for.                                   *)

(* Boxes are filed under their own key.                                    *)
FiledOwn == \A k \in Key : \A b \in map[k] : b.key = k

(* Whatever is being set up or waits to be set up is wanted or marked.     *)
Asked == wanted \cup disturbed
ComesAsked ==
    /\ \A a \in attempts : a.box.key \in Asked
    /\ \A p \in pending : p[1] \in Asked
    /\ sweep.then \in Key => sweep.then \in Asked

(* So is what runs, but for the boxes that a removeAll under way has not   *)
(* come to.                                                                *)
RunsAsked == \A b \in alive : b.key \in Asked \/ (sweep.on /\ b.key \in sweep.left)

WantInv == FiledOwn /\ ComesAsked /\ RunsAsked

(* SetMap touches no more of the sweep than its dirty mark.                *)
LEMMA SetMapRest ==
    ASSUME TypeOK, NEW m, SetMap(m)
    PROVE  /\ map' = m /\ sweep'.on = sweep.on
           /\ sweep'.left = sweep.left /\ sweep'.then = sweep.then
BY DEF SetMap, TypeOK

(* A step after which no more runs, waits or is set up, and nothing is     *)
(* given up.                                                               *)
LEMMA QuietKeepsWant ==
    ASSUME WantInv, alive' \subseteq alive, attempts' \subseteq attempts, pending' \subseteq pending,
           sweep'.on = sweep.on, sweep'.left = sweep.left, sweep'.then = sweep.then,
           Asked \subseteq Asked', \A k \in Key : map'[k] \subseteq map[k]
    PROVE  WantInv'
<1>1. FiledOwn' BY DEF WantInv, FiledOwn
<1>2. ComesAsked' BY DEF WantInv, ComesAsked
<1>3. RunsAsked' BY DEF WantInv, RunsAsked
<1>4. QED BY <1>1, <1>2, <1>3 DEF WantInv

(* The four ways to create: the key is asked for, or was before it waited. *)
LEMMA ConnectKeepsWant ==
    ASSUME TypeOK, WantInv, NEW k \in Key,
           ShellConnect(k) \/ PageConnect(k) \/ TrayCreate(k) \/ TileCreate(k)
    PROVE  WantInv'
<1>1. /\ \A j \in Key : map'[j] \subseteq map[j]
      /\ alive' = alive /\ pending' \subseteq pending
      /\ sweep'.on = sweep.on /\ sweep'.left = sweep.left /\ sweep'.then = sweep.then
      /\ wanted \subseteq wanted' /\ k \in wanted' \cup disturbed
    <2>0. \A j \in Key : Purged[j] \subseteq map[j]
        BY PurgedOK
    <2>1. CASE ShellConnect(k)
        BY <2>1 DEF ShellConnect
    <2>2. CASE PageConnect(k)
        BY <2>0, <2>2, SetMapRest DEF PageConnect
    <2>3. CASE TrayCreate(k)
        BY <2>3 DEF TrayCreate, WantInv, ComesAsked, Asked
    <2>4. CASE TileCreate(k)
        BY <2>4 DEF TileCreate, WantInv, ComesAsked, Asked
    <2>5. QED BY <2>1, <2>2, <2>3, <2>4
<1>2. /\ disturbed \subseteq disturbed'
      /\ \A a \in attempts' : a \in attempts \/ a.box.key = k
    <2>1. \/ Create(k, "shell", map) \/ Create(k, "page", Purged) \/ Create(k, "tray", map)
          \/ Create(k, "tile", map) \/ UNCHANGED <<attempts, disturbed>>
        BY DEF ShellConnect, PageConnect, TrayCreate, TileCreate
    <2>2. "shell" \in Caller /\ "page" \in Caller /\ "tray" \in Caller /\ "tile" \in Caller
        BY DEF Caller
    <2>3. CASE Create(k, "shell", map)
        BY <2>2, <2>3, CreateType
    <2>4. CASE Create(k, "page", Purged)
        BY <2>2, <2>4, CreateType
    <2>5. CASE Create(k, "tray", map)
        BY <2>2, <2>5, CreateType
    <2>6. CASE Create(k, "tile", map)
        BY <2>2, <2>6, CreateType
    <2>7. QED BY <2>1, <2>3, <2>4, <2>5, <2>6
<1>3. Asked \subseteq Asked' /\ k \in Asked'
    BY <1>1, <1>2 DEF Asked
<1>4. FiledOwn' BY <1>1 DEF WantInv, FiledOwn
<1>5. ComesAsked' BY <1>1, <1>2, <1>3 DEF WantInv, ComesAsked
<1>6. RunsAsked' BY <1>1, <1>3 DEF WantInv, RunsAsked
<1>7. QED BY <1>4, <1>5, <1>6 DEF WantInv

(* A stop for a set of keys: what it gives up and is under way is marked.  *)
LEMMA StopMarks ==
    ASSUME TypeOK, WantInv, NEW ks \in SUBSET Key, UserStops(ks)
    PROVE  /\ \A a \in attempts : a.box.key \in Asked'
           /\ \A p \in pending : p[1] \in Asked'
           /\ sweep.then \in Key => sweep.then \in Asked'
           /\ disturbed \subseteq disturbed' /\ Asked \ ks \subseteq Asked'
<1>1. /\ wanted' = wanted \ ks
      /\ disturbed' = disturbed \cup (ks \cap (InFlight \cup Waiting))
    BY DEF UserStops
<1>2. \A a \in attempts : a.box.key \in InFlight
    BY DEF InFlight
<1>3. \A p \in pending : p[1] \in Waiting
    BY DEF Waiting
<1>4. sweep.then \in Key => sweep.then \in Waiting
    BY DEF Waiting
<1>5. QED BY <1>1, <1>2, <1>3, <1>4 DEF WantInv, ComesAsked, Asked

(* Disconnecting and cancelling.                                           *)
LEMMA RemoveKeepsWant ==
    ASSUME EngineInv, WantInv, NEW k \in Key, Disconnect(k) \/ Cancel(k)
    PROVE  WantInv'
<1>0. TypeOK
    BY DEF EngineInv
<1>1. Remove(k) /\ UserStops({k}) /\ attempts' = attempts /\ pending' = pending
    BY DEF Disconnect, Cancel
<1>2. /\ SetMap([map EXCEPT ![k] = {}]) /\ alive' = alive \ map[k]
      /\ \A j \in Key : map'[j] = IF j = k THEN {} ELSE map[j]
    BY <1>0, <1>1, RemoveType
<1>3. sweep'.on = sweep.on /\ sweep'.left = sweep.left /\ sweep'.then = sweep.then
    BY <1>0, <1>2, SetMapRest
<1>4. /\ \A a \in attempts : a.box.key \in Asked'
      /\ \A p \in pending : p[1] \in Asked'
      /\ sweep.then \in Key => sweep.then \in Asked'
      /\ disturbed \subseteq disturbed' /\ Asked \ {k} \subseteq Asked'
    BY <1>0, <1>1, StopMarks
<1>5. FiledOwn' BY <1>2 DEF WantInv, FiledOwn
<1>6. ComesAsked' BY <1>1, <1>3, <1>4 DEF ComesAsked
<1>7. ASSUME NEW b \in alive' PROVE b.key \in Asked' \/ (sweep.on /\ b.key \in sweep.left)
    <2>1. b \in alive /\ b \notin map[k]
        BY <1>2
    <2>2. CASE b.key = k
        <3>1. b \in {a.box : a \in attempts} \/ b.key \in disturbed
            BY <2>1, <2>2 DEF EngineInv, NoOrphan
        <3>2. QED BY <1>4, <3>1 DEF Asked
    <2>3. CASE b.key # k
        BY <1>4, <2>1, <2>3 DEF WantInv, RunsAsked
    <2>4. QED BY <2>2, <2>3
<1>8. RunsAsked' BY <1>3, <1>7 DEF RunsAsked
<1>9. QED BY <1>5, <1>6, <1>8 DEF WantInv

(* removeAll stops what is filed, or has it left to stop.                  *)
LEMMA RemoveAllStops ==
    ASSUME EngineInv, WantInv, NEW m \in [Key -> SUBSET Box], NEW then \in Key \cup {NoKey},
           RemoveAll(m, then), \A k \in Key : map[k] \cap alive \subseteq m[k]
    PROVE  /\ \A b \in alive' : \/ b \in {a.box : a \in attempts} \/ b.key \in disturbed
                                \/ sweep'.on /\ b.key \in sweep'.left
           /\ sweep'.then \in {then, sweep.then}
           /\ alive' # alive => ~android \/ sweep'.on
<1>0. TypeOK
    BY DEF EngineInv
<1>1. \A b \in alive : \/ b \in m[b.key] \/ b \in {a.box : a \in attempts} \/ b.key \in disturbed
    BY <1>0 DEF EngineInv, NoOrphan, TypeOK, Box
<1>2. \A b \in alive : b.key \in Key
    BY <1>0 DEF TypeOK, Box
<1>3. CASE ~android
    <2>1. SetMap([k \in Key |-> {}]) /\ alive' = alive \ UNION {m[k] : k \in Key}
        BY <1>3 DEF RemoveAll
    <2>2. sweep'.then = sweep.then
        BY <1>0, <2>1, SetMapRest
    <2>3. QED BY <1>1, <1>2, <1>3, <2>1, <2>2
<1>4. CASE android
    <2>1. CASE Filed(m) = {} /\ UNCHANGED <<alive, sweep>>
        BY <1>1, <1>2, <2>1 DEF Filed
    <2>2. CASE \E k \in Filed(m) :
                /\ alive' = alive \ m[k]
                /\ sweep' = [on |-> TRUE, left |-> Filed(m) \ {k}, dirty |-> FALSE, then |-> then]
        <3>1. PICK k \in Filed(m) :
                /\ alive' = alive \ m[k]
                /\ sweep' = [on |-> TRUE, left |-> Filed(m) \ {k}, dirty |-> FALSE, then |-> then]
            BY <2>2
        <3>2. \A b \in alive : b \in m[b.key] => b.key \in Filed(m)
            BY <1>2 DEF Filed
        <3>3. \A b \in alive' : b \in m[b.key] => b.key \in Filed(m) \ {k}
            BY <3>1, <3>2
        <3>4. sweep'.on /\ sweep'.left = Filed(m) \ {k} /\ sweep'.then = then
            BY <3>1
        <3>5. alive' \subseteq alive
            BY <3>1
        <3>6. QED BY <1>1, <3>3, <3>4, <3>5
    <2>3. QED BY <1>4, <2>1, <2>2 DEF RemoveAll
<1>5. QED BY <1>3, <1>4

(* A switch by tray or tile: the other keys under way are marked.          *)
LEMMA SwitchMarks ==
    ASSUME TypeOK, WantInv, NEW k \in Key,
           wanted' = {k}, disturbed' = disturbed \cup ((InFlight \cup Waiting) \ {k})
    PROVE  /\ \A a \in attempts : a.box.key \in Asked'
           /\ \A p \in pending : p[1] \in Asked'
           /\ sweep.then \in Key => sweep.then \in Asked'
           /\ disturbed \subseteq Asked' /\ k \in Asked'
<1>1. \A a \in attempts : a.box.key \in InFlight
    BY DEF InFlight
<1>2. \A p \in pending : p[1] \in Waiting
    BY DEF Waiting
<1>3. sweep.then \in Key => sweep.then \in Waiting
    BY DEF Waiting
<1>4. QED BY <1>1, <1>2, <1>3 DEF Asked

(* What runs after a removeAll of all that runs is marked or set up again. *)
LEMMA RemoveAllKeepsWant ==
    ASSUME EngineInv, WantInv, NEW m \in [Key -> SUBSET Box], NEW then \in Key \cup {NoKey},
           RemoveAll(m, then), m = map \/ m = Purged,
           attempts' = attempts, disturbed \subseteq Asked',
           \A a \in attempts : a.box.key \in Asked', \A p \in pending' : p[1] \in Asked',
           {sweep.then, then} \cap Key \subseteq Asked'
    PROVE  WantInv'
<1>0. TypeOK
    BY DEF EngineInv
<1>1. \A k \in Key : map[k] \cap alive \subseteq m[k] /\ m[k] \subseteq map[k]
    BY <1>0, PurgedOK
<1>2. /\ \A b \in alive' : \/ b \in {a.box : a \in attempts} \/ b.key \in disturbed
                           \/ sweep'.on /\ b.key \in sweep'.left
      /\ sweep'.then \in {then, sweep.then}
    BY <1>1, RemoveAllStops
<1>3. \A k \in Key : map'[k] \subseteq map[k]
    BY <1>0, <1>1, RemoveAllType
<1>4. FiledOwn' BY <1>3 DEF WantInv, FiledOwn
<1>5. ComesAsked' BY <1>2 DEF ComesAsked
<1>6. RunsAsked' BY <1>2 DEF RunsAsked
<1>7. QED BY <1>4, <1>5, <1>6 DEF WantInv

LEMMA SwitchKeepsWant ==
    ASSUME EngineInv, WantInv, StopAll \/ \E k \in Key : TrayConnect(k) \/ TileConnect(k)
    PROVE  WantInv'
<1>0. TypeOK
    BY DEF EngineInv
<1>1. Purged \in [Key -> SUBSET Box] /\ \A k \in Key : Purged[k] = map[k] \cap alive
    BY <1>0, PurgedOK
<1>2. map \in [Key -> SUBSET Box] /\ NoKey \notin Key
    BY <1>0, VntAssumption DEF TypeOK
<1>3. CASE StopAll
    <2>1. UserStops(Key) /\ RemoveAll(map, NoKey) /\ attempts' = attempts /\ pending' = pending
        BY <1>3 DEF StopAll
    <2>2. /\ \A a \in attempts : a.box.key \in Asked'
          /\ \A p \in pending : p[1] \in Asked'
          /\ sweep.then \in Key => sweep.then \in Asked'
          /\ disturbed \subseteq Asked'
        BY <1>0, <2>1, StopMarks DEF Asked
    <2>3. {sweep.then, NoKey} \cap Key \subseteq Asked'
        BY <1>2, <2>2
    <2>4. QED BY <1>2, <2>1, <2>2, <2>3, RemoveAllKeepsWant
<1>4. ASSUME NEW k \in Key, TrayConnect(k) \/ TileConnect(k) PROVE WantInv'
    <2>1. wanted' = {k} /\ disturbed' = disturbed \cup ((InFlight \cup Waiting) \ {k})
        BY <1>4 DEF TrayConnect, TileConnect
    <2>2. /\ \A a \in attempts : a.box.key \in Asked'
          /\ \A p \in pending : p[1] \in Asked'
          /\ sweep.then \in Key => sweep.then \in Asked'
          /\ disturbed \subseteq Asked' /\ k \in Asked'
        BY <1>0, <2>1, SwitchMarks
    <2>3. attempts' = attempts /\ \A p \in pending' : p \in pending \/ p[1] = k
        BY <1>4 DEF TrayConnect, TileConnect
    <2>4. \A p \in pending' : p[1] \in Asked'
        BY <2>2, <2>3
    <2>5. {sweep.then, NoKey} \cap Key \subseteq Asked' /\ {sweep.then, k} \cap Key \subseteq Asked'
        BY <1>2, <2>2
    <2>6. CASE RemoveAll(Purged, NoKey)
        BY <1>1, <2>2, <2>3, <2>4, <2>5, <2>6, RemoveAllKeepsWant
    <2>7. CASE RemoveAll(Purged, k)
        BY <1>1, <2>2, <2>3, <2>4, <2>5, <2>7, RemoveAllKeepsWant
    <2>8. CASE Filed(Purged) = {} /\ SetMap(Purged) /\ alive' = alive
        <3>1. map' = Purged /\ sweep'.then = sweep.then
            BY <1>0, <2>8, SetMapRest
        <3>2. \A b \in alive : b.key \in Key /\ b \notin map[b.key]
            BY <1>0, <1>1, <2>8 DEF Filed, TypeOK, Box
        <3>3. \A b \in alive' : b \in {a.box : a \in attempts} \/ b.key \in disturbed
            BY <2>8, <3>2 DEF EngineInv, NoOrphan
        <3>4. FiledOwn' BY <1>1, <3>1 DEF WantInv, FiledOwn
        <3>5. ComesAsked' BY <2>2, <2>3, <2>4, <3>1 DEF ComesAsked
        <3>6. RunsAsked' BY <2>2, <3>3 DEF RunsAsked
        <3>7. QED BY <3>4, <3>5, <3>6 DEF WantInv
    <2>9. QED BY <1>4, <2>6, <2>7, <2>8 DEF TrayConnect, TileConnect
<1>5. QED BY <1>3, <1>4

(* The steps of a removeAll and the poll.                                  *)
LEMMA SweepKeepsWant ==
    ASSUME EngineInv, WantInv,
           SweepEnd \/ SweepThrow \/ Poll \/ \E k \in Key : SweepBox(k)
    PROVE  WantInv'
<1>0. TypeOK
    BY DEF EngineInv
<1>1. CASE SweepEnd
    <2>1. /\ sweep.on /\ sweep.left = {} /\ map' = [k \in Key |-> {}]
          /\ sweep' = Resting /\ alive' = alive /\ attempts' = attempts
          /\ pending' = pending \cup ({sweep.then} \cap Key) \X {"tile"} /\ Asked' = Asked
        BY <1>1 DEF SweepEnd, Asked
    <2>2. ~sweep'.on /\ sweep'.then = NoKey
        BY <2>1 DEF Resting
    <2>3. \A p \in pending' : p \in pending \/ (p[1] = sweep.then /\ sweep.then \in Key)
        BY <2>1
    <2>4. FiledOwn' BY <2>1 DEF FiledOwn
    <2>5. ComesAsked' BY <2>1, <2>2, <2>3, VntAssumption DEF WantInv, ComesAsked
    <2>6. RunsAsked' BY <2>1 DEF WantInv, RunsAsked
    <2>7. QED BY <2>4, <2>5, <2>6 DEF WantInv
<1>2. CASE SweepThrow
    <2>1. /\ sweep' = Resting /\ map' = map /\ alive' = alive /\ attempts' = attempts
          /\ pending' = pending /\ Asked' = Asked \cup sweep.left
        BY <1>2 DEF SweepThrow, Asked
    <2>2. ~sweep'.on /\ sweep'.then = NoKey
        BY <2>1 DEF Resting
    <2>3. FiledOwn' BY <2>1 DEF WantInv, FiledOwn
    <2>4. ComesAsked' BY <2>1, <2>2, VntAssumption DEF WantInv, ComesAsked
    <2>5. RunsAsked' BY <2>1 DEF WantInv, RunsAsked
    <2>6. QED BY <2>3, <2>4, <2>5 DEF WantInv
<1>3. CASE Poll
    <2>1. /\ SetMap(Purged) /\ alive' = alive /\ attempts' = attempts /\ pending' = pending
          /\ Asked' = Asked
        BY <1>3 DEF Poll, Asked
    <2>2. /\ map' = Purged /\ sweep'.on = sweep.on /\ sweep'.left = sweep.left
          /\ sweep'.then = sweep.then
        BY <1>0, <2>1, SetMapRest
    <2>3. \A k \in Key : map'[k] \subseteq map[k]
        BY <1>0, <2>2, PurgedOK
    <2>4. QED BY <2>1, <2>2, <2>3, QuietKeepsWant
<1>4. ASSUME NEW k \in Key, SweepBox(k) PROVE WantInv'
    <2>1. /\ alive' = alive \ map[k] /\ map' = map /\ attempts' = attempts /\ pending' = pending
          /\ sweep' = [sweep EXCEPT !.left = @ \ {k}] /\ Asked' = Asked
        BY <1>4 DEF SweepBox, Asked
    <2>2. sweep'.on = sweep.on /\ sweep'.left = sweep.left \ {k} /\ sweep'.then = sweep.then
        BY <1>0, <2>1 DEF TypeOK
    <2>3. FiledOwn' BY <2>1 DEF WantInv, FiledOwn
    <2>4. ComesAsked' BY <2>1, <2>2 DEF WantInv, ComesAsked
    <2>5. ASSUME NEW b \in alive'
          PROVE  b.key \in Asked' \/ (sweep'.on /\ b.key \in sweep'.left)
        <3>1. b \in alive /\ b \notin map[k]
            BY <2>1
        <3>2. CASE b.key = k
            <4>1. b \in {a.box : a \in attempts} \/ b.key \in disturbed
                BY <3>1, <3>2 DEF EngineInv, NoOrphan
            <4>2. QED BY <2>1, <4>1 DEF WantInv, ComesAsked, Asked
        <3>3. CASE b.key # k
            BY <2>1, <2>2, <3>1, <3>3 DEF WantInv, RunsAsked
        <3>4. QED BY <3>2, <3>3
    <2>6. RunsAsked' BY <2>5 DEF RunsAsked
    <2>7. QED BY <2>3, <2>4, <2>6 DEF WantInv
<1>5. QED BY <1>1, <1>2, <1>3, <1>4

(* The ends of an attempt.                                                 *)
LEMMA AttemptKeepsWant ==
    ASSUME TypeOK, WantInv, NEW a \in attempts,
           EngineUp(a) \/ Created(a) \/ \E fatal \in BOOLEAN : Failed(a, fatal)
    PROVE  WantInv'
<1>0. a.box.key \in Key /\ a.box.key \in Asked /\ a.box \in Box
    BY DEF TypeOK, Attempt, Box, WantInv, ComesAsked
<1>1. CASE EngineUp(a)
    <2>1. /\ map' = map /\ sweep' = sweep /\ pending' = pending /\ Asked' = Asked
          /\ alive' = alive \cup {a.box}
          /\ attempts' = (attempts \ {a}) \cup {[a EXCEPT !.up = TRUE]}
        BY <1>1 DEF EngineUp, Asked
    <2>2. [a EXCEPT !.up = TRUE].box = a.box
        BY DEF TypeOK, Attempt
    <2>3. FiledOwn' BY <2>1 DEF WantInv, FiledOwn
    <2>4. ComesAsked' BY <1>0, <2>1, <2>2 DEF WantInv, ComesAsked
    <2>5. RunsAsked' BY <1>0, <2>1 DEF WantInv, RunsAsked
    <2>6. QED BY <2>3, <2>4, <2>5 DEF WantInv
<1>2. CASE Created(a)
    <2>1. /\ SetMap([map EXCEPT ![a.box.key] = {a.box}]) /\ alive' = alive /\ pending' = pending
          /\ attempts' = attempts \ {a} /\ Asked' = Asked
        BY <1>2 DEF Created, Asked
    <2>2. /\ map' = [map EXCEPT ![a.box.key] = {a.box}]
          /\ sweep'.on = sweep.on /\ sweep'.left = sweep.left /\ sweep'.then = sweep.then
        BY <2>1, SetMapRest
    <2>3. \A k \in Key : map'[k] = IF k = a.box.key THEN {a.box} ELSE map[k]
        BY <2>2 DEF TypeOK
    <2>4. FiledOwn' BY <2>3 DEF WantInv, FiledOwn
    <2>5. ComesAsked' BY <2>1, <2>2 DEF WantInv, ComesAsked
    <2>6. RunsAsked' BY <2>1, <2>2 DEF WantInv, RunsAsked
    <2>7. QED BY <2>4, <2>5, <2>6 DEF WantInv
<1>3. ASSUME NEW fatal \in BOOLEAN, Failed(a, fatal) PROVE WantInv'
    <2>1. /\ Remove(a.box.key) \/ UNCHANGED <<map, alive, sweep>>
          /\ attempts' \subseteq attempts /\ pending' = pending /\ Asked' = Asked
        BY <1>3 DEF Failed, Asked
    <2>2. CASE Remove(a.box.key)
        <3>1. /\ SetMap([map EXCEPT ![a.box.key] = {}]) /\ alive' \subseteq alive
              /\ \A j \in Key : map'[j] = IF j = a.box.key THEN {} ELSE map[j]
            BY <1>0, <2>2, RemoveType
        <3>2. sweep'.on = sweep.on /\ sweep'.left = sweep.left /\ sweep'.then = sweep.then
            BY <3>1, SetMapRest
        <3>3. \A j \in Key : map'[j] \subseteq map[j]
            BY <3>1
        <3>4. QED BY <2>1, <3>1, <3>2, <3>3, QuietKeepsWant
    <2>3. CASE UNCHANGED <<map, alive, sweep>>
        BY <2>1, <2>3, QuietKeepsWant
    <2>4. QED BY <2>1, <2>2, <2>3
<1>4. QED BY <1>1, <1>2, <1>3

(* Whatever runs or is being started was asked for and not taken back: the *)
(* invariant holds initially and every step keeps it.                      *)
THEOREM WantInvariant == Spec => [](EngineInv /\ WantInv)
<1>1. Init => WantInv
    BY VntAssumption DEF Init, WantInv, FiledOwn, ComesAsked, RunsAsked, Resting
<1>2. EngineInv /\ WantInv /\ [Next]_vars => WantInv'
    <2>1. SUFFICES ASSUME EngineInv, WantInv, [Next]_vars PROVE WantInv'
        OBVIOUS
    <2>2. TypeOK
        BY <2>1 DEF EngineInv
    <2>3. CASE UNCHANGED vars
        BY <2>1, <2>3 DEF vars, WantInv, FiledOwn, ComesAsked, RunsAsked, Asked
    <2>4. ASSUME NEW k \in Key,
                 ShellConnect(k) \/ PageConnect(k) \/ TrayCreate(k) \/ TileCreate(k)
          PROVE  WantInv'
        BY <2>1, <2>2, <2>4, ConnectKeepsWant
    <2>5. ASSUME NEW k \in Key, Disconnect(k) \/ Cancel(k) PROVE WantInv'
        BY <2>1, <2>5, RemoveKeepsWant
    <2>6. ASSUME NEW k \in Key, TrayConnect(k) \/ TileConnect(k) PROVE WantInv'
        BY <2>1, <2>6, SwitchKeepsWant
    <2>7. CASE StopAll
        BY <2>1, <2>7, SwitchKeepsWant
    <2>8. ASSUME SweepEnd \/ SweepThrow \/ Poll \/ \E k \in Key : SweepBox(k) PROVE WantInv'
        BY <2>1, <2>8, SweepKeepsWant
    <2>9. ASSUME NEW a \in attempts, EngineUp(a) \/ Created(a) \/ \E fatal \in BOOLEAN : Failed(a, fatal)
          PROVE  WantInv'
        BY <2>1, <2>2, <2>9, AttemptKeepsWant
    <2>10. QED BY <2>1, <2>3, <2>4, <2>5, <2>6, <2>7, <2>8, <2>9 DEF Next
<1>3. QED BY <1>1, <1>2, EngineInvariant, PTL DEF Spec

(* What a stop stopped, no late create, sweep or wait brings back: when    *)
(* nothing is under way, what runs is what the user asked for.             *)
THEOREM StoppedForGood == Spec => []StopsForGood
<1>1. EngineInv /\ WantInv => StopsForGood
    BY DEF WantInv, RunsAsked, Asked, StopsForGood
<1>2. QED BY <1>1, WantInvariant, PTL

(* Every step that stops an engine the user wants is one of a switch by    *)
(* tray or tile, which sets it up again.                                   *)
THEOREM WantedStays == Spec => KeptWhileWanted
<1> DEFINE Kept == \A b \in alive \ alive' :
          b.key \in wanted' => b.key \in disturbed' \/ sweep'.on \/ <<b.key, "tray">> \in pending'
<1>1. EngineInv /\ WantInv /\ [Next]_vars => [Kept]_vars
    <2>1. SUFFICES ASSUME EngineInv, WantInv, Next PROVE Kept
        OBVIOUS
    <2>2. TypeOK /\ FiledOwn /\ OneAttempt
        BY <2>1 DEF EngineInv, WantInv
    <2>3. SUFFICES ASSUME NEW b \in alive \ alive', b.key \in wanted'
                   PROVE  b.key \in disturbed' \/ sweep'.on \/ <<b.key, "tray">> \in pending'
        OBVIOUS
    <2>4. ASSUME NEW k \in Key,
                 ShellConnect(k) \/ PageConnect(k) \/ TrayCreate(k) \/ TileCreate(k)
          PROVE  FALSE
        BY <2>3, <2>4 DEF ShellConnect, PageConnect, TrayCreate, TileCreate
    <2>5. ASSUME NEW k \in Key, Disconnect(k) \/ Cancel(k) PROVE FALSE
        <3>1. Remove(k) /\ UserStops({k})
            BY <2>5 DEF Disconnect, Cancel
        <3>2. b \in map[k] /\ k \notin wanted'
            BY <2>3, <3>1 DEF Remove, UserStops
        <3>3. QED BY <2>2, <2>3, <3>2 DEF FiledOwn
    <2>6. ASSUME NEW k \in Key, TrayConnect(k) PROVE <<b.key, "tray">> \in pending'
        BY <2>3, <2>6 DEF TrayConnect
    <2>7. ASSUME NEW k \in Key, TileConnect(k) PROVE sweep'.on
        <3>1. android /\ RemoveAll(Purged, k)
            BY <2>3, <2>7 DEF TileConnect
        <3>2. Purged \in [Key -> SUBSET Box] /\ \A j \in Key : Purged[j] = map[j] \cap alive
            BY <2>2, PurgedOK
        <3>3. \A j \in Key : map[j] \cap alive \subseteq Purged[j]
            BY <3>2
        <3>4. alive' # alive
            BY <2>3
        <3>5. QED BY <2>1, <3>1, <3>2, <3>3, <3>4, RemoveAllStops
    <2>8. CASE StopAll
        BY <2>2, <2>3, <2>8 DEF StopAll, UserStops, TypeOK
    <2>9. CASE SweepEnd \/ SweepThrow \/ Poll
        BY <2>3, <2>9 DEF SweepEnd, SweepThrow, Poll
    <2>10. ASSUME NEW k \in Key, SweepBox(k) PROVE sweep'.on
        BY <2>2, <2>10 DEF SweepBox, TypeOK
    <2>11. ASSUME NEW a \in attempts, EngineUp(a) \/ Created(a) PROVE FALSE
        BY <2>3, <2>11 DEF EngineUp, Created
    <2>12. ASSUME NEW a \in attempts, NEW fatal \in BOOLEAN, Failed(a, fatal)
           PROVE  b.key \in disturbed'
        <3>1. Remove(a.box.key) /\ disturbed' = disturbed
            BY <2>3, <2>12 DEF Failed
        <3>2. b \in map[a.box.key] /\ b \in alive /\ a.box.key \in Key
            BY <2>2, <2>3, <3>1 DEF Remove, TypeOK, Attempt, Box
        <3>3. a.box.key \in disturbed /\ b.key = a.box.key
            BY <2>2, <3>2 DEF OneAttempt, FiledOwn
        <3>4. QED BY <3>1, <3>3
    <2>13. QED BY <2>1, <2>4, <2>5, <2>6, <2>7, <2>8, <2>9, <2>10, <2>11, <2>12 DEF Next
<1>2. QED BY <1>1, WantInvariant, PTL DEF Spec, KeptWhileWanted
=============================================================================
