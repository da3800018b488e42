---------------------------- MODULE ChatLifecycle ----------------------------
(***************************************************************************)
(* Start and stop of the chat manager (lib/chat/chat_manager.dart), its     *)
(* TCP listener (chat_transport_service.dart) and its presence socket       *)
(* (chat_presence_service.dart).  Every await of the Dart code is a point   *)
(* where another handler may run: a handler is cut into steps there.        *)
(*                                                                         *)
(* The application calls start from initState, at times more than once,    *)
(* and stop from the tray or the window when it is about to leave, at      *)
(* times twice.  It never starts the manager again after a stop.           *)
(***************************************************************************)
EXTENDS Naturals, FiniteSets

CONSTANTS
    Stop,        \* the calls of stop that may be made
    LcMaxFails   \* bound on failed binds

ASSUME LcAssumption == LcMaxFails \in Nat

VARIABLES
    started,     \* _started
    stopping,    \* _stopping
    timer,       \* _refreshTimer is set
    server,      \* ChatTransportService._server is set
    listening,   \* the server delivers its connections to _handleClient
    socket,      \* ChatPresenceService._socket is set
    beat,        \* the presence timers are set
    contexts,    \* ChatPresenceService._contexts is not empty
    start,       \* where the first call of start() is
    ensure,      \* calls of _ensureTransportStarted that await their bind, their log entry
    refresh,     \* where refresh() is, "off" when its flag is down
    stop,        \* where each call of stop() is
    bound,       \* open sockets of the process: [tcp, udp]
    overlap,     \* a stop began while a handler of a start or refresh was under way
    fails

lcVars == <<started, stopping, timer, server, listening, socket, beat, contexts,
            start, ensure, refresh, stop, bound, overlap, fails>>

LcTypeOK ==
    /\ started \in BOOLEAN /\ stopping \in BOOLEAN /\ timer \in BOOLEAN
    /\ server \in BOOLEAN /\ listening \in BOOLEAN
    /\ socket \in BOOLEAN /\ beat \in BOOLEAN /\ contexts \in BOOLEAN
    /\ start \in {"none", "storage", "transport", "refresh", "done"}
    /\ ensure \in [{"bind", "log"} -> 0..2]
    /\ refresh \in {"off", "read", "bind", "rest"}
    /\ stop \in [Stop -> {"none", "presence", "close", "done"}]
    /\ bound \in [{"tcp", "udp"} -> 0..2]
    /\ overlap \in BOOLEAN
    /\ fails \in 0..LcMaxFails

LcInit ==
    /\ started = FALSE /\ stopping = FALSE /\ timer = FALSE
    /\ server = FALSE /\ listening = FALSE
    /\ socket = FALSE /\ beat = FALSE /\ contexts = FALSE
    /\ start = "none" /\ refresh = "off"
    /\ ensure = [k \in {"bind", "log"} |-> 0]
    /\ stop = [s \in Stop |-> "none"]
    /\ bound = [k \in {"tcp", "udp"} |-> 0]
    /\ overlap = FALSE
    /\ fails = 0

(***************************************************************************)
(* The synchronous heads of _ensureTransportStarted and of refresh, up to  *)
(* their first await.                                                      *)
(***************************************************************************)
TransportStarting == ensure["bind"] + ensure["log"] > 0  \* _transportStartInProgress

BugEnsureHead ==
    ensure' = IF stopping \/ server \/ ensure["bind"] = 2 THEN ensure
              ELSE [ensure EXCEPT !["bind"] = @ + 1]

EnsureHead ==
    ensure' = IF stopping \/ server \/ TransportStarting THEN ensure
              ELSE [ensure EXCEPT !["bind"] = @ + 1]

RefreshHead ==
    refresh' = IF ~started' \/ stopping' \/ refresh # "off" THEN refresh ELSE "read"

(* start(): the first call opens the storage; a later one only sets the    *)
(* manager going again.                                                    *)
LcStart ==
    /\ \A s \in Stop : stop[s] = "none"
    /\ IF started
         THEN /\ timer' = TRUE
              /\ UNCHANGED <<started, stopping, start>>
              /\ EnsureHead
              /\ RefreshHead
         ELSE /\ started' = TRUE /\ stopping' = FALSE
              /\ start' = "storage"
              /\ UNCHANGED <<timer, ensure, refresh>>
    /\ UNCHANGED <<server, listening, socket, beat, contexts, stop, bound, overlap, fails>>

(* The rest of the first start(), which does not look at _started again.   *)
StartStorage ==
    /\ start = "storage"
    /\ start' = "transport"
    /\ timer' = TRUE
    /\ EnsureHead
    /\ UNCHANGED <<started, stopping, server, listening, socket, beat, contexts,
                   refresh, stop, bound, overlap, fails>>

StartTransport ==
    /\ start = "transport"
    /\ ~TransportStarting
    /\ start' = "refresh"
    /\ UNCHANGED <<started, stopping>>
    /\ RefreshHead
    /\ UNCHANGED <<timer, server, listening, socket, beat, contexts, ensure, stop,
                   bound, overlap, fails>>

StartRefresh ==
    /\ start = "refresh"
    /\ refresh = "off"
    /\ start' = "done"
    /\ UNCHANGED <<started, stopping, timer, server, listening, socket, beat, contexts,
                   ensure, refresh, stop, bound, overlap, fails>>

BugTick ==
    /\ timer
    /\ UNCHANGED <<started, stopping>>
    /\ RefreshHead
    /\ UNCHANGED <<timer, server, listening, socket, beat, contexts, start, ensure, stop,
                   bound, overlap, fails>>

(* A tick of the refresh timer.  Its call of _ensureTransportStarted does  *)
(* not ask whether the manager is started.                                 *)
LcTick ==
    /\ timer
    /\ UNCHANGED <<started, stopping>>
    /\ EnsureHead
    /\ RefreshHead
    /\ UNCHANGED <<timer, server, listening, socket, beat, contexts, start, stop, bound,
                   overlap, fails>>

(* A change of the VNT connections, while the manager listens for them:    *)
(* the listener is added with the timer and removed by stop.               *)
VntChanged ==
    /\ started /\ ~stopping /\ timer
    /\ UNCHANGED <<started, stopping>>
    /\ EnsureHead
    /\ RefreshHead
    /\ UNCHANGED <<timer, server, listening, socket, beat, contexts, start, stop, bound,
                   overlap, fails>>

(***************************************************************************)
(* ChatTransportService.start                                              *)
(***************************************************************************)
TransportBound ==
    /\ ensure["bind"] > 0
    /\ server' = TRUE
    /\ listening' = FALSE
    /\ bound' = [bound EXCEPT !["tcp"] = @ + 1]
    /\ ensure' = [ensure EXCEPT !["bind"] = @ - 1, !["log"] = @ + 1]
    /\ UNCHANGED <<started, stopping, timer, socket, beat, contexts, start, refresh,
                   stop, overlap, fails>>

(* Back from the log entry: a stop in between took _server away, and the   *)
(* null check fails into _transportStartError.                             *)
TransportListens ==
    /\ ensure["log"] > 0
    /\ listening' = server
    /\ ensure' = [ensure EXCEPT !["log"] = @ - 1]
    /\ UNCHANGED <<started, stopping, timer, server, socket, beat, contexts, start,
                   refresh, stop, bound, overlap, fails>>

TransportFails ==
    /\ ensure["bind"] > 0
    /\ fails < LcMaxFails
    /\ fails' = fails + 1
    /\ ensure' = [ensure EXCEPT !["bind"] = @ - 1]
    /\ UNCHANGED <<started, stopping, timer, server, listening, socket, beat, contexts,
                   start, refresh, stop, bound, overlap>>

(***************************************************************************)
(* ChatPresenceService.  Silence is its stop(), all of it synchronous.     *)
(***************************************************************************)
Silence ==
    /\ contexts' = FALSE
    /\ socket' = FALSE
    /\ beat' = FALSE
    /\ bound' = IF socket THEN [bound EXCEPT !["udp"] = @ - 1] ELSE bound

(* refresh has read the halls and calls updateContexts; the manager is in  *)
(* a hall or in none.  Neither asks whether it was stopped meanwhile.      *)
UpdateContexts ==
    /\ refresh = "read"
    /\ \/ /\ Silence
          /\ refresh' = "rest"
       \/ /\ contexts' = TRUE
          /\ beat' = (beat \/ socket)
          /\ refresh' = IF socket THEN "rest" ELSE "bind"
          /\ UNCHANGED <<socket, bound>>
    /\ UNCHANGED <<started, stopping, timer, server, listening, start, ensure, stop,
                   overlap, fails>>

PresenceBound ==
    /\ refresh = "bind"
    /\ socket' = TRUE
    /\ beat' = TRUE
    /\ bound' = [bound EXCEPT !["udp"] = @ + 1]
    /\ refresh' = "rest"
    /\ UNCHANGED <<started, stopping, timer, server, listening, contexts, start, ensure,
                   stop, overlap, fails>>

PresenceFails ==
    /\ refresh = "bind"
    /\ fails < LcMaxFails
    /\ fails' = fails + 1
    /\ refresh' = "rest"
    /\ UNCHANGED <<started, stopping, timer, server, listening, socket, beat, contexts,
                   start, ensure, stop, bound, overlap>>

RefreshEnds ==
    /\ refresh = "rest"
    /\ refresh' = "off"
    /\ UNCHANGED <<started, stopping, timer, server, listening, socket, beat, contexts,
                   start, ensure, stop, bound, overlap, fails>>

(***************************************************************************)
(* stop(), in three steps: up to presence stop, transport stop, the end.   *)
(***************************************************************************)
StopFirst(s) ==
    /\ started' = FALSE /\ stopping' = TRUE
    /\ stop' = [stop EXCEPT ![s] = "presence"]
    /\ timer' = FALSE
    /\ Silence

LcStop(s) ==
    /\ stop[s] = "none"
    /\ start # "none"
    /\ StopFirst(s)
    /\ overlap' = (overlap \/ start # "done" \/ TransportStarting \/ refresh # "off")
    /\ UNCHANGED <<server, listening, start, ensure, refresh, fails>>

StopTransport(s) ==
    /\ server' = FALSE
    /\ listening' = FALSE
    /\ bound' = IF server THEN [bound EXCEPT !["tcp"] = @ - 1] ELSE bound

LcStopTransport(s) ==
    /\ stop[s] = "presence"
    /\ StopTransport(s)
    /\ stop' = [stop EXCEPT ![s] = "close"]
    /\ UNCHANGED <<started, stopping, timer, socket, beat, contexts, start, ensure,
                   refresh, overlap, fails>>

LcStopEnds(s) ==
    /\ stop[s] = "close"
    /\ stopping' = FALSE
    /\ stop' = [stop EXCEPT ![s] = "done"]
    /\ UNCHANGED <<started, timer, server, listening, socket, beat, contexts, start,
                   ensure, refresh, bound, overlap, fails>>

LcNext ==
    \/ LcStart \/ StartStorage \/ StartTransport \/ StartRefresh
    \/ LcTick \/ VntChanged
    \/ TransportBound \/ TransportListens \/ TransportFails
    \/ UpdateContexts \/ PresenceBound \/ PresenceFails \/ RefreshEnds
    \/ \E s \in Stop : LcStop(s) \/ LcStopTransport(s) \/ LcStopEnds(s)

(* The event loop runs what is ready: every await ends, the timer ticks.   *)
LcFair ==
    /\ WF_lcVars(StartStorage) /\ WF_lcVars(StartTransport) /\ WF_lcVars(StartRefresh)
    /\ WF_lcVars(LcTick)
    /\ WF_lcVars(TransportBound \/ TransportFails) /\ WF_lcVars(TransportListens)
    /\ WF_lcVars(UpdateContexts) /\ WF_lcVars(PresenceBound \/ PresenceFails)
    /\ WF_lcVars(RefreshEnds)

LcSpec == LcInit /\ [][LcNext]_lcVars /\ LcFair

-----------------------------------------------------------------------------
(* No socket of the process is lost: what is open is what the two services *)
(* hold, so that a stop can close it.  Starts, ticks and changes of the    *)
(* connections all ask for the listener while a bind is awaited.           *)
SocketsHeld ==
    /\ bound["tcp"] = (IF server THEN 1 ELSE 0)
    /\ bound["udp"] = (IF socket THEN 1 ELSE 0)

LcIdle ==
    /\ start \in {"none", "done"} /\ ~TransportStarting /\ refresh = "off"
    /\ \A s \in Stop : stop[s] \in {"none", "done"}

(* A stop that no handler of a start or refresh overlaps leaves nothing    *)
(* behind: no listener, no socket, no timer that would open one later.     *)
(* (An overlapping one may: README, section 7.)                            *)
StopQuiets ==
    LcIdle /\ ~started /\ ~overlap
        => ~(timer \/ server \/ socket \/ beat \/ contexts)

(* A started manager comes to listen for packets whatever binds fail, and  *)
(* whichever handler finds another one under way.                          *)
StartedListens == started ~> (listening \/ ~started)

(* What the two services' sockets keep to, in every state.                 *)
LcSafe == LcTypeOK /\ SocketsHeld /\ StopQuiets
=============================================================================
