------------------------------- MODULE RdInput -------------------------------
(***************************************************************************)
(* The keys remote connections hold on the host (server/input_service.rs   *)
(* and the input thread of server/connection.rs), in map mode.             *)
(*                                                                         *)
(* A key event passes from the connection's loop to its input thread by an *)
(* unbounded channel.  The thread writes the key into KEYS_DOWN and then   *)
(* simulates it; the table is what three other threads release keys by:    *)
(* the timer (keys down for six minutes), the cursor service when its last *)
(* subscriber is gone, and the end of the process.  They too take a key    *)
(* out of the table first and release it afterwards.                       *)
(***************************************************************************)
EXTENDS Naturals, Sequences, FiniteSets

CONSTANTS
    InConn,         \* connections
    InKey,          \* keys
    InNoKey,        \* no key
    InShows,        \* connections with show_remote_cursor
    InMaxEvents,    \* bound: key events the peers send
    InMaxCalls      \* bound: calls of fix_key_down_timeout under way at a time

ASSUME InAssumption ==
    InNoKey \notin InKey /\ InShows \subseteq InConn /\ InMaxEvents \in Nat /\ InMaxCalls \in Nat

VARIABLES
    linux,          \* cfg!(target_os = "linux")
    modifier,       \* the keys that are modifiers (keyboard::is_modifier)
    inState,        \* per connection: "open" (logged in), "gone" (its loop ended)
    keyboard,       \* per connection: peer_keyboard_enabled(), and its loop runs
    mods,           \* Connection.pressed_modifiers
    inQueue,        \* the channel of MessageInput::Key
    inThread,       \* per connection: what its input thread is doing
    keysDown,       \* KEYS_DOWN
    osDown,         \* the keys the operating system holds down (external)
    fixers,         \* calls of fix_key_down_timeout: what is left, the key in hand
    inMayReset,     \* may_reset of the cursor service's thread
    exiting,        \* EXITING
    exited,         \* the process is gone
    crossed,        \* history: keys two threads had in hand at a time
    sent            \* events sent so far

inVars == <<linux, modifier, inState, keyboard, mods, inQueue, inThread, keysDown, osDown,
            fixers, inMayReset, exiting, exited, crossed, sent>>

Fixer == {"timer", "reset", "exit"}
Idle == [at |-> "idle", key |-> InNoKey, down |-> FALSE, more |-> FALSE]
NoFix == [left |-> {}, key |-> InNoKey]

InInit ==
    /\ linux \in BOOLEAN /\ modifier \in SUBSET InKey
    /\ inState = [c \in InConn |-> "open"] /\ keyboard = [c \in InConn |-> TRUE]
    /\ mods = [c \in InConn |-> {}] /\ inQueue = [c \in InConn |-> <<>>]
    /\ inThread = [c \in InConn |-> Idle]
    /\ keysDown = {} /\ osDown = {} /\ crossed = {}
    /\ fixers = [f \in Fixer |-> NoFix]
    /\ inMayReset = FALSE /\ exiting = FALSE /\ exited = FALSE /\ sent = 0

\* Input threads between the check of EXITING and the end of the simulation.
InHand(k) == {c \in InConn : inThread[c].key = k /\ inThread[c].at \in {"checked", "recorded"}}
Fixing(k) == {f \in Fixer : fixers[f].key = k}

-----------------------------------------------------------------------------
(* The connection's loop.                                                  *)

\* The host's user withdraws the keyboard or gives it back: what is held stays held.
InSwitchKeyboard(c) ==
    /\ inState[c] = "open" /\ keyboard' = [keyboard EXCEPT ![c] = ~@]
    /\ UNCHANGED <<linux, modifier, inState, mods, inQueue, inThread, keysDown, osDown, fixers,
                   inMayReset, exiting, exited, crossed, sent>>

\* On Linux every key but a modifier is clicked, elsewhere only what the peer
\* sends as a press.
IsPress(k, kind) ==
    IF linux THEN kind # "up" /\ k \notin modifier ELSE kind = "press"

\* A KeyEvent arrives.
InKeyEvent(c, k, kind) ==
    /\ keyboard[c] /\ sent < InMaxEvents
    /\ mods' = [mods EXCEPT ![c] = IF k \in modifier /\ IsPress(k, kind)
                                   THEN @ \cup {k} ELSE @ \ {k}]
    /\ inQueue' = [inQueue EXCEPT ![c] =
                     Append(@, [key |-> k, press |-> IsPress(k, kind), down |-> kind = "down"])]
    /\ sent' = sent + 1
    /\ UNCHANGED <<linux, modifier, inState, keyboard, inThread, keysDown, osDown, fixers,
                   inMayReset, exiting, exited, crossed>>

\* The loop ends: remove_connection takes it off the cursor service, drop releases the
\* modifiers it knows of and the channel's sender; the input thread goes on until the
\* channel is empty.
InClose(c) ==
    /\ inState[c] = "open" /\ inState' = [inState EXCEPT ![c] = "gone"]
    /\ osDown' = osDown \ mods[c] /\ mods' = [mods EXCEPT ![c] = {}]
    /\ keyboard' = [keyboard EXCEPT ![c] = FALSE]
    /\ UNCHANGED <<linux, modifier, inQueue, inThread, keysDown, fixers, inMayReset,
                   exiting, exited, crossed, sent>>

-----------------------------------------------------------------------------
(* The input thread.                                                       *)

\* handle_key_ passes its check of EXITING with k, or gives the event up.
HandleKey(c, k, down, more) ==
    /\ inThread' = [inThread EXCEPT ![c] =
         IF exiting THEN Idle ELSE [at |-> "checked", key |-> k, down |-> down, more |-> more]]
    /\ crossed' = IF ~exiting /\ (InHand(k) \cup Fixing(k)) # {} THEN crossed \cup {k} ELSE crossed

\* recv: a press is handled as a down and then as an up.
InTake(c) ==
    /\ inThread[c].at = "idle" /\ inQueue[c] # <<>>
    /\ LET e == Head(inQueue[c]) IN HandleKey(c, e.key, e.press \/ e.down, e.press)
    /\ inQueue' = [inQueue EXCEPT ![c] = Tail(@)]
    /\ UNCHANGED <<linux, modifier, inState, keyboard, mods, keysDown, osDown, fixers, inMayReset,
                   exiting, exited, sent>>

\* The second half of a press.
InRelease(c) ==
    /\ inThread[c].at = "again" /\ HandleKey(c, inThread[c].key, FALSE, FALSE)
    /\ UNCHANGED <<linux, modifier, inState, keyboard, mods, inQueue, keysDown, osDown, fixers,
                   inMayReset, exiting, exited, sent>>

\* Only a release is written: a repeated key is taken for one the table has.
BugRecord(c) == keysDown' = keysDown \ {inThread[c].key}

\* record_pressed_key: a key in the table gets a new time.
Record(c) ==
    LET t == inThread[c] IN
    keysDown' = IF t.down THEN keysDown \cup {t.key} ELSE keysDown \ {t.key}

InRecord(c) ==
    /\ inThread[c].at = "checked" /\ inThread' = [inThread EXCEPT ![c].at = "recorded"]
    /\ Record(c)
    /\ UNCHANGED <<linux, modifier, inState, keyboard, mods, inQueue, osDown, fixers, inMayReset,
                   exiting, exited, crossed, sent>>

\* simulate_
InSimulate(c) ==
    LET t == inThread[c] IN
    /\ t.at = "recorded"
    /\ osDown' = IF t.down THEN osDown \cup {t.key} ELSE osDown \ {t.key}
    /\ inThread' = [inThread EXCEPT ![c] = IF t.more THEN [t EXCEPT !.at = "again"] ELSE Idle]
    /\ UNCHANGED <<linux, modifier, inState, keyboard, mods, inQueue, keysDown, fixers, inMayReset,
                   exiting, exited, crossed, sent>>

-----------------------------------------------------------------------------
(* fix_key_down_timeout.                                                   *)

\* It copies the table, and releases every key of the copy (force) or the old ones.
FixStart(f, left) ==
    /\ fixers[f] = NoFix
    /\ Cardinality({g \in Fixer : fixers[g] # NoFix}) < InMaxCalls
    /\ fixers' = [fixers EXCEPT ![f].left = left]

\* The table is left to the service's reset.
BugTimer(old) == FALSE

\* A round of the timer's loop finds some keys in the table for 360 s.
InTimer(old) ==
    /\ old # {} /\ FixStart("timer", old)
    /\ UNCHANGED <<linux, modifier, inState, keyboard, mods, inQueue, inThread, keysDown, osDown,
                   inMayReset, exiting, exited, crossed, sent>>

\* A round of the cursor service, which a connection is subscribed to for its keyboard or
\* for the sight of the cursor: may_reset goes up with the first subscriber, and the
\* first round without one resets its state, keys included.
InCursorRound ==
    LET has == \E c \in InConn : keyboard[c] \/ (c \in InShows /\ inState[c] = "open") IN
    /\ inMayReset # has /\ inMayReset' = has
    /\ IF ~has THEN FixStart("reset", keysDown) ELSE UNCHANGED fixers
    /\ UNCHANGED <<linux, modifier, inState, keyboard, mods, inQueue, inThread, keysDown, osDown,
                   exiting, exited, crossed, sent>>

\* fix_key_down_timeout_at_exit sets the flag ...
InExit ==
    /\ ~exiting /\ exiting' = TRUE
    /\ UNCHANGED <<linux, modifier, inState, keyboard, mods, inQueue, inThread, keysDown, osDown,
                   fixers, inMayReset, exited, crossed, sent>>

\* ... and copies the table after it; a key already past the check may come
\* later, one another call has in hand is not in the copy.
InExitCopies ==
    /\ exiting /\ FixStart("exit", keysDown) /\ exited' = (keysDown = {})
    /\ crossed' = crossed \cup {k \in InKey : InHand(k) \cup Fixing(k) # {}}
    /\ UNCHANGED <<linux, modifier, inState, keyboard, mods, inQueue, inThread, keysDown, osDown,
                   inMayReset, exiting, sent>>

\* The next key of the copy leaves the table ...
InFixRecord(f) ==
    /\ fixers[f].key = InNoKey
    /\ \E k \in fixers[f].left :
         /\ keysDown' = keysDown \ {k}
         /\ fixers' = [fixers EXCEPT ![f].left = @ \ {k}, ![f].key = k]
         /\ crossed' = IF InHand(k) # {} THEN crossed \cup {k} ELSE crossed
    /\ UNCHANGED <<linux, modifier, inState, keyboard, mods, inQueue, inThread, osDown, inMayReset,
                   exiting, exited, sent>>

\* ... and is released.  After the last one at exit the process ends.
InFixRelease(f) ==
    /\ fixers[f].key # InNoKey /\ osDown' = osDown \ {fixers[f].key}
    /\ fixers' = [fixers EXCEPT ![f].key = InNoKey]
    /\ exited' = (f = "exit" /\ fixers[f].left = {})
    /\ UNCHANGED <<linux, modifier, inState, keyboard, mods, inQueue, inThread, keysDown,
                   inMayReset, exiting, crossed, sent>>

InputThread(c) == InTake(c) \/ InRelease(c) \/ InRecord(c) \/ InSimulate(c)
Fix(f) == InFixRecord(f) \/ InFixRelease(f)

InNext ==
    /\ ~exited
    /\ \/ \E c \in InConn :
            \/ InSwitchKeyboard(c) \/ InClose(c)
            \/ \E k \in InKey, kind \in {"down", "up", "press"} : InKeyEvent(c, k, kind)
            \/ InputThread(c)
       \/ \E old \in SUBSET keysDown : InTimer(old)
       \/ InCursorRound \/ InExit \/ InExitCopies
       \/ \E f \in Fixer : Fix(f)

\* The threads run on, and a key that stays in the table is found old some day.
InFair ==
    /\ \A c \in InConn : WF_inVars(~exited /\ InputThread(c))
    /\ \A k \in InKey :
         WF_inVars(~exited /\ \E old \in SUBSET keysDown : k \in old /\ InTimer(old))
    /\ \A f \in Fixer : WF_inVars(~exited /\ Fix(f))

InSpec == InInit /\ [][InNext]_inVars /\ InFair

-----------------------------------------------------------------------------
(* Properties.                                                             *)

\* The variables have their types.
InTypeOK ==
    /\ linux \in BOOLEAN /\ modifier \subseteq InKey /\ exiting \in BOOLEAN
    /\ exited \in BOOLEAN /\ inMayReset \in BOOLEAN
    /\ inState \in [InConn -> {"open", "gone"}] /\ keyboard \in [InConn -> BOOLEAN]
    /\ mods \in [InConn -> SUBSET modifier]
    /\ \A c \in InConn : /\ inThread[c].at \in {"idle", "checked", "recorded", "again"}
                         /\ inThread[c].key \in InKey \cup {InNoKey}
    /\ keysDown \subseteq InKey
    /\ osDown \subseteq InKey /\ crossed \subseteq InKey /\ sent \in 0..InMaxEvents
    /\ \A f \in Fixer : fixers[f].left \subseteq InKey /\ fixers[f].key \in InKey \cup {InNoKey}

\* A key that is down on the host is in KEYS_DOWN, the only thing that can get it
\* released when its owner does not, or in the hand of a thread; but for keys that two
\* threads had in hand at a time (record_pressed_key and simulate_ are two steps).
HeldKnown ==
    \A k \in osDown \ crossed : k \in keysDown \/ InHand(k) # {} \/ Fixing(k) # {}

\* No key stays down when the process is gone.
ExitReleases == exited => osDown \subseteq crossed

\* On Linux a key other than a modifier is down only while an input thread is about to
\* release it (the comment at connection.rs:2610, "make sure all key are released").
ClicksEnd ==
    linux /\ ~exiting =>
        \A k \in osDown \ modifier : \E c \in InConn : inThread[c].key = k

\* The host's keys, in any interleaving of the threads that write and release them.
InSafe == InTypeOK /\ HeldKnown /\ ExitReleases /\ ClicksEnd

\* What connections left down is released once they are gone, also when the reset of the
\* cursor service came before the last events of the input thread's channel.
LeftKeysReleased ==
    (\A c \in InConn : inState[c] = "gone") ~> (osDown \subseteq crossed)
=============================================================================
