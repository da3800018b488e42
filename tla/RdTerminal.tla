----------------------------- MODULE RdTerminal -----------------------------
(***************************************************************************)
(* Terminals of the remote host (src/server/terminal_service.rs and its    *)
(* callers in src/server/connection.rs): one terminal service, which a     *)
(* client reaches through one connection after another.  The shells run    *)
(* on, each with a reader thread that fills a bounded channel; the run     *)
(* loop of a connection drains the channels into the sessions' histories   *)
(* and, for the terminals the client has opened, to the client.  A         *)
(* persistent service survives its connections.                            *)
(*                                                                         *)
(* Output is a sequence of numbered chunks, a size one of two; the history *)
(* is shorter than what a reconnection replays.  read_outputs locks one    *)
(* session after the other; sessions share nothing, so it is one step.     *)
(***************************************************************************)
EXTENDS Integers, Sequences, FiniteSets, FiniteSetsExt

CONSTANTS
    TmMaxId,       \* terminal ids the client may ask for: 1..TmMaxId
    TmMaxSessions, \* bound on terminals at a time
    TmMaxConn,     \* bound on connections
    TmMaxEvents,   \* bound on chunks of output, resizes and ends of shells, together
    TmChannel,     \* CHANNEL_BUFFER_SIZE
    TmAttempts,    \* MAX_SIGWINCH_PHASE_ATTEMPTS
    TmMaxFails     \* bound on failing resizes

ASSUME TmAssumption ==
    /\ {TmMaxId, TmMaxSessions, TmMaxConn, TmChannel, TmAttempts} \subseteq Nat \ {0}
    /\ {TmMaxEvents, TmMaxFails} \subseteq Nat

TmId == 1..TmMaxId
TmConn == 1..TmMaxConn

VARIABLES
    tmService,   \* the registry's entry: [there, persistent, sync]
    tmSession,   \* its sessions, NoTerminal where there is none
    tmLoop,      \* connections whose run loop runs
    tmCur,       \* the client's latest connection, 0 before the first
    tmUp,        \* the client still has it
    tmGot,       \* chunks that arrived over it since the terminal was opened on it
    tmKnown,     \* terminals the client opened on it or was told of
    tmTwo,       \* two run loops have been there at once
    tmEvents,    \* chunks, resizes and ends of shells so far
    tmFails

tmVars == <<tmService, tmSession, tmLoop, tmCur, tmUp, tmGot, tmKnown, tmTwo, tmEvents, tmFails>>

NoTerminal == [there |-> FALSE, active |-> FALSE, pending |-> <<>>, phase |-> "idle",
               left |-> 0, chan |-> <<>>, hist |-> <<>>, made |-> 0, lost |-> FALSE,
               runs |-> FALSE, told |-> FALSE, size |-> 0, pty |-> 0, missed |-> FALSE]

Chunks == UNION {[1..n -> 1..TmMaxEvents] : n \in 0..TmMaxEvents}

TmTypeOK ==
    /\ tmService \in [there : BOOLEAN, persistent : BOOLEAN, sync : BOOLEAN]
    /\ DOMAIN tmSession = TmId
    /\ \A i \in TmId :
          LET s == tmSession[i] IN
          /\ s.there \in BOOLEAN /\ s.active \in BOOLEAN
          /\ s.pending \in Chunks /\ s.hist \in Chunks
          /\ s.chan \in Chunks /\ Len(s.chan) <= TmChannel
          /\ s.phase \in {"idle", "temp", "restore"} /\ s.left \in 0..TmAttempts
          /\ s.made \in 0..TmMaxEvents
          /\ s.lost \in BOOLEAN /\ s.runs \in BOOLEAN /\ s.told \in BOOLEAN
          /\ s.missed \in BOOLEAN
          /\ s.size \in {1, 2} \/ s = NoTerminal
          /\ s.pty \in {0, 1, 2}
          /\ s.active => s.there
    /\ tmLoop \subseteq TmConn
    /\ tmCur \in 0..TmMaxConn /\ tmUp \in BOOLEAN
    /\ tmGot \in [TmId -> Chunks]
    /\ tmKnown \subseteq TmId
    /\ tmTwo \in BOOLEAN /\ tmEvents \in 0..TmMaxEvents /\ tmFails \in 0..TmMaxFails

NoService == [there |-> FALSE, persistent |-> FALSE, sync |-> FALSE]

TmInit ==
    /\ tmService = NoService
    /\ tmSession = [i \in TmId |-> NoTerminal]
    /\ tmLoop = {} /\ tmCur = 0 /\ tmUp = FALSE
    /\ tmGot = [i \in TmId |-> <<>>]
    /\ tmKnown = {}
    /\ tmTwo = FALSE /\ tmEvents = 0 /\ tmFails = 0

Sessions == {i \in TmId : tmSession[i].there}

(***************************************************************************)
(* The registry                                                            *)
(***************************************************************************)
(* get_or_create_service with reset_status: whoever logs in with the       *)
(* service's id finds its terminals closed and its ids to be synchronised. *)
TmConnect(persistent) ==
    /\ ~tmUp /\ tmCur < TmMaxConn
    /\ tmCur' = tmCur + 1 /\ tmUp' = TRUE
    /\ tmService' = [there |-> TRUE, persistent |-> persistent, sync |-> TRUE]
    /\ tmSession' = [i \in TmId |-> [tmSession[i] EXCEPT !.active = FALSE]]
    /\ tmLoop' = tmLoop \cup {tmCur + 1}
    /\ tmTwo' = (tmTwo \/ tmLoop # {})
    /\ tmGot' = [i \in TmId |-> <<>>]
    /\ tmKnown' = {}
    /\ UNCHANGED <<tmEvents, tmFails>>

(* remove_service: every session is stopped. *)
RemoveService ==
    /\ tmService' = NoService
    /\ tmSession' = [i \in TmId |-> NoTerminal]

(* The network breaks; the host may notice much later. *)
TmBreak ==
    /\ tmUp
    /\ tmUp' = FALSE
    /\ UNCHANGED <<tmService, tmSession, tmLoop, tmCur, tmGot, tmKnown, tmTwo, tmEvents, tmFails>>

(* A connection is dropped and joins its run loop, which removes a service *)
(* that is not persistent, whoever uses it by now.                         *)
BugLoopEnds(c) == RemoveService

LoopEnds(c) ==
    IF tmService.there /\ ~tmService.persistent
      THEN RemoveService
      ELSE UNCHANGED <<tmService, tmSession>>

TmDrop(c) ==
    /\ c \in tmLoop
    /\ c # tmCur \/ ~tmUp
    /\ tmLoop' = tmLoop \ {c}
    /\ LoopEnds(c)
    /\ UNCHANGED <<tmCur, tmUp, tmGot, tmKnown, tmTwo, tmEvents, tmFails>>

(* cleanup_inactive_services: idle for long, which output alone does not   *)
(* prevent.                                                                *)
TmIdle ==
    /\ tmService.there
    /\ ~tmService.persistent \/ Sessions = {}
    /\ RemoveService
    /\ UNCHANGED <<tmLoop, tmCur, tmUp, tmGot, tmKnown, tmTwo, tmEvents, tmFails>>

(* The client changes the option. *)
TmPersist(persistent) ==
    /\ tmUp /\ tmService.there
    /\ tmService' = [tmService EXCEPT !.persistent = persistent]
    /\ UNCHANGED <<tmSession, tmLoop, tmCur, tmUp, tmGot, tmKnown, tmTwo, tmEvents, tmFails>>

(***************************************************************************)
(* handle_action                                                           *)
(***************************************************************************)
(* The sessions once the lowest one has taken the id that is asked for.    *)
Remapped(id) ==
    IF tmSession[id].there \/ ~tmService.sync \/ Sessions = {}
      THEN tmSession
      ELSE [tmSession EXCEPT ![id] = tmSession[Min(Sessions)], ![Min(Sessions)] = NoTerminal]

(* A terminal that is there is taken over with its history to replay and   *)
(* the two resizes that make its program draw again.                       *)
BugReopened(s) ==
    [s EXCEPT !.active = TRUE, !.pending = s.hist \o s.chan, !.phase = "temp", !.left = TmAttempts]

Reopened(s) ==
    [s EXCEPT !.active = TRUE, !.pending = s.hist, !.phase = "temp", !.left = TmAttempts]

NewSession ==
    [NoTerminal EXCEPT !.there = TRUE, !.active = TRUE, !.runs = TRUE, !.size = 1, !.pty = 1]

(* The other terminals the answer names, on the first open of a connection.*)
Listed(id, sessions) ==
    IF tmService.sync THEN {i \in TmId : sessions[i].there} \ {id} ELSE {}

TmOpen(id) ==
    LET sessions == Remapped(id)
        s == sessions[id]
    IN  /\ tmUp /\ tmService.there
        /\ ~s.active                     \* the client opens what it has not open
        /\ s.there \/ Cardinality(Sessions) < TmMaxSessions
        /\ tmSession' = [sessions EXCEPT ![id] = IF s.there THEN Reopened(s) ELSE NewSession]
        /\ tmKnown' = tmKnown \cup {id} \cup Listed(id, sessions)
        /\ tmService' = [tmService EXCEPT !.sync = FALSE]
        /\ tmGot' = [tmGot EXCEPT ![id] = <<>>]
        /\ UNCHANGED <<tmLoop, tmCur, tmUp, tmTwo, tmEvents, tmFails>>

TmEvent == tmEvents < TmMaxEvents /\ tmEvents' = tmEvents + 1

(* handle_resize, once per terminal; a failing PTY leaves the new size in  *)
(* the session.                                                            *)
TmResize(id) ==
    /\ tmUp /\ id \in Sessions \cap tmKnown /\ tmSession[id].size = 1
    /\ TmEvent
    /\ \/ /\ tmSession' = [tmSession EXCEPT ![id].size = 2, ![id].pty = 2, ![id].missed = FALSE]
          /\ UNCHANGED tmFails
       \/ /\ tmFails < TmMaxFails
          /\ tmFails' = tmFails + 1
          /\ tmSession' = [tmSession EXCEPT ![id].size = 2, ![id].missed = TRUE]
    /\ UNCHANGED <<tmService, tmLoop, tmCur, tmUp, tmGot, tmKnown, tmTwo>>

TmClose(id) ==
    /\ tmUp /\ id \in Sessions \cap tmKnown
    /\ tmSession' = [tmSession EXCEPT ![id] = NoTerminal]
    /\ tmKnown' = tmKnown \ {id}
    /\ UNCHANGED <<tmService, tmLoop, tmCur, tmUp, tmGot, tmTwo, tmEvents, tmFails>>

(***************************************************************************)
(* The reader thread and the shell                                         *)
(***************************************************************************)
(* try_send_output drops a chunk the channel has no room for. *)
TrySend(s) ==
    IF Len(s.chan) < TmChannel
      THEN [s EXCEPT !.made = @ + 1, !.chan = Append(@, s.made + 1)]
      ELSE [s EXCEPT !.made = @ + 1, !.lost = TRUE]

TmOutput(id) ==
    /\ tmSession[id].there /\ tmSession[id].runs
    /\ TmEvent
    /\ tmSession' = [tmSession EXCEPT ![id] = TrySend(@)]
    /\ UNCHANGED <<tmService, tmLoop, tmCur, tmUp, tmGot, tmKnown, tmTwo, tmFails>>

TmShellEnds(id) ==
    /\ tmSession[id].there /\ tmSession[id].runs
    /\ TmEvent
    /\ tmSession' = [tmSession EXCEPT ![id].runs = FALSE]
    /\ UNCHANGED <<tmService, tmLoop, tmCur, tmUp, tmGot, tmKnown, tmTwo, tmFails>>

(***************************************************************************)
(* read_outputs, in the run loop of connection c                           *)
(***************************************************************************)
Resizes(s) == s.active /\ s.phase # "idle" /\ s.left > 0

(* One poll of the two-phase resize: ok is what the PTY answers. *)
Phase(s, ok) ==
    CASE s.phase = "idle" -> s
      [] s.phase # "idle" /\ s.left = 0 -> [s EXCEPT !.phase = "idle"]
      [] s.phase = "temp" /\ s.left > 0 ->
            IF ok THEN [s EXCEPT !.phase = "restore", !.left = TmAttempts, !.pty = 0]
                  ELSE [s EXCEPT !.left = @ - 1]
      [] s.phase = "restore" /\ s.left > 0 ->
            IF ok THEN [s EXCEPT !.phase = "idle", !.left = @ - 1, !.pty = s.size, !.missed = FALSE]
                  ELSE [s EXCEPT !.left = @ - 1]

(* A terminal whose shell has ended is reported once, and forgotten unless *)
(* the service is persistent.                                              *)
Ended(s) == s.there /\ ~s.runs /\ ~s.told

Drained(s, ok) ==
    LET drained == [s EXCEPT !.chan = <<>>, !.hist = @ \o s.chan]
    IN  IF s.active THEN Phase([drained EXCEPT !.pending = <<>>], ok) ELSE drained

AfterRead(s, ok) ==
    IF Ended(s)
      THEN IF tmService.persistent THEN [Drained(s, ok) EXCEPT !.told = TRUE] ELSE NoTerminal
      ELSE Drained(s, ok)

TmRead(c) ==
    /\ c \in tmLoop /\ tmService.there
    /\ \E failing \in SUBSET {i \in TmId : Resizes(tmSession[i])} :
          /\ tmFails + Cardinality(failing) <= TmMaxFails
          /\ tmFails' = tmFails + Cardinality(failing)
          /\ tmSession' = [i \in TmId |-> AfterRead(tmSession[i], i \notin failing)]
    /\ tmGot' = [i \in TmId |->
          IF tmUp /\ c = tmCur /\ tmSession[i].active
            THEN tmGot[i] \o tmSession[i].pending \o tmSession[i].chan
            ELSE tmGot[i]]
    /\ UNCHANGED <<tmService, tmLoop, tmCur, tmUp, tmKnown, tmTwo, tmEvents>>

TmNext ==
    \/ \E b \in BOOLEAN : TmConnect(b) \/ TmPersist(b)
    \/ TmBreak \/ TmIdle
    \/ \E c \in TmConn : TmDrop(c) \/ TmRead(c)
    \/ \E i \in TmId :
          \/ TmOpen(i) \/ TmResize(i) \/ TmClose(i) \/ TmOutput(i) \/ TmShellEnds(i)

TmSpec == TmInit /\ [][TmNext]_tmVars

-----------------------------------------------------------------------------
Stream(i) == tmGot[i] \o tmSession[i].pending \o tmSession[i].chan

(* History and live output reach the client in the order the shell wrote   *)
(* them and none of it twice, over any breaks, reconnections and lost      *)
(* chunks, also while the run loop of an older connection still reads.     *)
StreamInOrder ==
    \A i \in TmId : tmUp /\ tmSession[i].active
        => \A m, n \in DOMAIN Stream(i) : m < n => Stream(i)[m] < Stream(i)[n]

(* A terminal opened again shows all its output, that of the time without  *)
(* a client included, as long as the channel had room and no second run    *)
(* loop read from it (README, section 7).                                  *)
StreamWhole ==
    \A i \in TmId : tmUp /\ tmSession[i].active /\ ~tmSession[i].lost /\ ~tmTwo
        => Stream(i) = [n \in 1..tmSession[i].made |-> n]

(* After the first open of a connection the client knows every terminal    *)
(* that survived, under the id it now has.                                 *)
SurvivorsKnown == tmUp /\ tmService.there /\ ~tmService.sync => Sessions \subseteq tmKnown

(* The redraw leaves the PTY with the session's size, whatever resizes of  *)
(* the client come between its two phases, while fewer resizes fail than   *)
(* one phase attempts.                                                     *)
SizeRestored ==
    \A i \in TmId :
        LET s == tmSession[i] IN
        s.active /\ s.phase = "idle" /\ ~s.missed /\ tmFails < TmAttempts => s.pty = s.size

(* A persistent service keeps its terminals until the client closes them.  *)
PersistentKept ==
    [][tmService.persistent /\ tmKnown' = tmKnown
         => Cardinality(Sessions') >= Cardinality(Sessions)]_tmVars

(* What the terminals keep to, in every state.                             *)
TmSafe == TmTypeOK /\ StreamInOrder /\ StreamWhole /\ SurvivorsKnown /\ SizeRestored
=============================================================================
